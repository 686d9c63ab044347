--------------------------- MODULE WalletFilesProofs ---------------------------
(***************************************************************************)
(* What holds of the wallets directory for every set of names, networks    *)
(* and job kinds, every bound, and whatever fails or crashes.              *)
(***************************************************************************)
EXTENDS WalletFiles, TLAPS

-----------------------------------------------------------------------------
(* What the worker holds at each of its positions.  It is one wallet at    *)
(* most, its own or the published one, and an edit is the host's or a      *)
(* job's that has ended.                                                   *)
WorkerInv ==
  /\ pc \in {"idle", "engine", "unload"} => w = Nobody
  /\ pc \in {"nettype", "init", "connect", "publish", "closing", "close"} => w # Nobody
  /\ pc \notin {"idle", "unload"} => m_wallet = Nobody
  /\ pc = "unload" => m_wallet # Nobody
  /\ edit => pc = "idle" /\ m_wallet # Nobody
  /\ pc = "engine" => jobs > 0
  /\ pc \in {"engine", "nettype", "init", "connect", "publish"} =>
       job \in [kind : OpenKinds, name : Names, network : Networks]

(* A wallet that is opened is as its file is until its refresh starts, and *)
(* is of the network type it was asked for.                                *)
OpeningInv ==
  /\ pc \in {"nettype", "init", "connect"} => w.made = disk[w.name].kept
  /\ pc \in {"init", "connect", "publish"} =>
       disk[w.name].nettype = NettypeOf(job.network)

MadeInv == \A n \in Names : WalletExists(n) => disk[n].id > 0

KeptInv == ClosedIsKept /\ ReportedIsKept /\ LostOnlyInCrash

FilesInv == WorkerInv /\ OpeningInv /\ MadeInv /\ FilesOfOpenWallets /\ KeptInv

USE DEF faults, memory, worker, history, bounds

Wallets == [name : Names, id : 1 .. MaxJobs, made : 0 .. MaxChanges]
Files   == [id : 0 .. MaxJobs, nettype : 0 .. 2, kept : 0 .. MaxChanges]

LEMMA Bounds == MaxJobs \in Nat /\ MaxChanges \in Nat /\ MaxRestarts \in Nat
  BY FilesAssumption DEF FilesAssumption

(* A wallet that is not the empty local is one of a job.                   *)
LEMMA WalletTypes ==
  ASSUME TypeOK
  PROVE  /\ m_wallet # Nobody => m_wallet \in Wallets
         /\ w # Nobody => w \in Wallets
         /\ disk \in [Names -> Files]
  BY DEF TypeOK, Wallets, Files

LEMMA NobodyIsNoWallet == Nobody \notin Wallets
  BY Bounds DEF Nobody, Wallets

LEMMA NoFileType == NoFile \in Files /\ NoFile.kept = 0
  BY Bounds DEF NoFile, Files

LEMMA Nettypes == ASSUME NEW network PROVE NettypeOf(network) \in 0 .. 2
  BY DEF NettypeOf

-----------------------------------------------------------------------------
(* What a step does to the files.                                          *)

(* The file of a new wallet, as a create or a restore writes it.           *)
NewFile == [id |-> jobs, nettype |-> NettypeOf(job.network), kept |-> 0]

MakesFile ==
  /\ pc = "engine" /\ ~WalletExists(job.name)
  /\ disk' = [disk EXCEPT ![job.name] = NewFile]

StoresOwn ==
  \/ m_wallet # Nobody /\ Stored(m_wallet)
  \/ w # Nobody /\ Stored(w)

(* A store writes all of a wallet to its own file and touches no other.    *)
LEMMA StoredFile ==
  ASSUME disk \in [Names -> Files], NEW v \in Wallets, Stored(v)
  PROVE  /\ disk' \in [Names -> Files]
         /\ disk'[v.name].kept = v.made
         /\ disk'[v.name].id = disk[v.name].id
         /\ disk'[v.name].nettype = disk[v.name].nettype
         /\ \A n \in Names : n # v.name => disk'[n] = disk[n]
<1>1. v.name \in Names /\ v.made \in 0 .. MaxChanges
  BY DEF Wallets
<1>2. disk[v.name] \in Files
  BY <1>1
<1>3. disk' = [disk EXCEPT ![v.name] = [disk[v.name] EXCEPT !.kept = v.made]]
  BY DEF Stored
<1>4. [disk[v.name] EXCEPT !.kept = v.made] \in Files
  BY <1>1, <1>2 DEF Files
<1>5. disk'[v.name] = [disk[v.name] EXCEPT !.kept = v.made]
  BY <1>1, <1>3
<1> QED
  BY <1>1, <1>2, <1>3, <1>4, <1>5 DEF Files

LEMMA MadeFile ==
  ASSUME TypeOK, WorkerInv, MakesFile
  PROVE  /\ job.name \in Names /\ NewFile \in Files /\ NewFile # NoFile
         /\ disk' \in [Names -> Files]
         /\ disk'[job.name] = NewFile
         /\ \A n \in Names : n # job.name => disk'[n] = disk[n]
<1>1. job.name \in Names /\ jobs > 0
  BY DEF MakesFile, WorkerInv
<1>2. jobs \in 0 .. MaxJobs /\ disk \in [Names -> Files]
  BY WalletTypes DEF TypeOK
<1>3. NewFile \in Files
  BY <1>2, Nettypes, Bounds DEF NewFile, Files
<1>4. NewFile # NoFile
  BY <1>1, <1>2 DEF NewFile, NoFile
<1> QED
  BY <1>1, <1>2, <1>3, <1>4 DEF MakesFile

LEMMA StoreSteps ==
  ASSUME TypeOK, WorkerInv
  PROVE  /\ Keep => UNCHANGED disk \/ Stored(m_wallet)
         /\ CloseStore => UNCHANGED disk \/ Stored(w)
         /\ CloseEngine => UNCHANGED disk \/ Stored(w)
         /\ UnloadStore => UNCHANGED disk \/ Stored(m_wallet)
         /\ UnloadClose => UNCHANGED disk \/ Stored(m_wallet)
         /\ OpenNettype \/ OpenPublish => UNCHANGED disk
         /\ OpenInit => UNCHANGED disk \/ Stored(w)
         /\ OpenConnect => UNCHANGED disk \/ Stored(w)
  BY DEF Keep, StoreWallet, CloseStore, CloseEngine, ClosesWith, UnloadStore,
         UnloadClose, OpenNettype, OpenInit, OpenConnect, OpenPublish,
         CloseStored, CloseUnstored, NotStored, CutShort, LeftBehind

(* Nothing but a store and the engine's create writes a file.              *)
LEMMA DiskSteps ==
  ASSUME TypeOK, WorkerInv, [Next]_vars
  PROVE  UNCHANGED disk \/ StoresOwn \/ MakesFile
<1>1. CASE OpenEngine
  BY <1>1 DEF OpenEngine, MakesFile, NewFile, NameIsFree
<1>2. CASE OpenNettype \/ OpenInit \/ OpenConnect \/ CloseStore \/ CloseEngine
  <2>1. w # Nobody
    BY <1>2 DEF WorkerInv, OpenNettype, OpenInit, OpenConnect, CloseStore, CloseEngine
  <2> QED
    BY <1>2, <2>1, StoreSteps DEF StoresOwn
<1>3. CASE Keep \/ UnloadStore \/ UnloadClose
  <2>1. m_wallet # Nobody
    BY <1>3 DEF WorkerInv, Keep, UnloadStore, UnloadClose
  <2> QED
    BY <1>3, <2>1, StoreSteps DEF StoresOwn
<1>4. CASE \/ \E kind \in OpenKinds, name \in Names, network \in Networks :
                OpenCheck(kind, name, network)
           \/ OpenPublish \/ Scan \/ Change \/ CloseBegin \/ Stop
           \/ Restart \/ Crash \/ UNCHANGED vars
  BY <1>4, StoreSteps DEF OpenCheck, Scan, Change, CloseBegin, Stop, Restart,
              Crash, NextInstance, vars
<1> QED
  BY <1>1, <1>2, <1>3, <1>4 DEF Next
-----------------------------------------------------------------------------
(* Types.                                                                  *)

(* Which steps write the variables beside the disk.                        *)
LEMMA WalletFrame ==
  [Next]_vars =>
    \/ UNCHANGED m_wallet
    \/ OpenPublish \/ Scan \/ Change \/ CloseBegin \/ UnloadClose \/ NextInstance
  BY DEF vars, Next, OpenCheck, OpenEngine, OpenNettype, OpenInit, OpenConnect,
         Keep, CloseStore, CloseEngine, Stop, UnloadStore, Restart, Crash

LEMMA LocalFrame ==
  [Next]_vars =>
    \/ UNCHANGED w \/ w' = Nobody
    \/ OpenEngine \/ Scan \/ CloseBegin
  BY DEF vars, Next, OpenCheck, OpenNettype, OpenInit, OpenConnect, OpenPublish,
         Change, Keep, CloseStore, CloseEngine, Stop, UnloadStore, UnloadClose,
         Restart, Crash, NextInstance, JobEnds, LeftBehind

LEMMA HistoryFrame ==
  [Next]_vars =>
    /\ UNCHANGED reported \/ Keep
    /\ UNCHANGED closedOk \/ CloseEngine
    /\ UNCHANGED lost \/ OpenNettype \/ OpenInit \/ OpenConnect \/ OpenPublish
         \/ CloseStore \/ CloseEngine \/ UnloadClose
    /\ UNCHANGED faults
  BY DEF vars, Next, OpenCheck, OpenEngine, OpenNettype, OpenInit, OpenConnect,
         OpenPublish, Scan, Change, Keep, CloseBegin, CloseStore, CloseEngine, Stop,
         UnloadStore, UnloadClose, Restart, Crash, NextInstance

LEMMA InitFiles == Init => TypeOK /\ FilesInv
<1> SUFFICES ASSUME Init PROVE TypeOK /\ FilesInv
  OBVIOUS
<1> USE DEF Init
<1>1. TypeOK
  <2>1. disk \in [Names -> [id : 0 .. MaxJobs, nettype : 0 .. 2, kept : 0 .. MaxChanges]]
    BY NoFileType DEF Files
  <2>2. pc \in Positions /\ edit \in BOOLEAN /\ m_stop \in BOOLEAN 
        /\ diskFails \in BOOLEAN /\ engineRaises \in BOOLEAN
    BY DEF Positions
  <2>3. reported \in [Names -> 0 .. MaxChanges] /\ closedOk \in [Names -> 0 .. MaxChanges]
    BY Bounds
  <2>4. lost \subseteq Names /\ jobs \in 0 .. MaxJobs /\ restarts \in 0 .. MaxRestarts
    BY Bounds
  <2> QED
    BY <2>1, <2>2, <2>3, <2>4 DEF TypeOK
<1>2. WorkerInv /\ OpeningInv
  BY DEF WorkerInv, OpeningInv
<1>3. MadeInv
  BY DEF MadeInv, WalletExists
<1>4. FilesOfOpenWallets
  BY DEF FilesOfOpenWallets, OwnFile
<1>5. KeptInv
  BY NoFileType DEF KeptInv, ClosedIsKept, ReportedIsKept, LostOnlyInCrash
<1> QED
  BY <1>1, <1>2, <1>3, <1>4, <1>5 DEF FilesInv

LEMMA StepDisk ==
  ASSUME TypeOK, WorkerInv, [Next]_vars PROVE disk' \in [Names -> Files]
<1>1. CASE UNCHANGED disk
  BY <1>1, WalletTypes
<1>2. CASE StoresOwn
  BY <1>2, WalletTypes, StoredFile DEF StoresOwn
<1>3. CASE MakesFile
  BY <1>3, MadeFile
<1> QED
  BY <1>1, <1>2, <1>3, DiskSteps

(* One more change to a wallet is still a wallet.                          *)
LEMMA OneMore ==
  ASSUME NEW v \in Wallets, v.made < MaxChanges
  PROVE  /\ [v EXCEPT !.made = @ + 1] \in Wallets
         /\ [v EXCEPT !.made = @ + 1].made = v.made + 1
         /\ [v EXCEPT !.made = @ + 1].name = v.name
         /\ [v EXCEPT !.made = @ + 1].id = v.id
  BY Bounds DEF Wallets

LEMMA StepWallet ==
  ASSUME TypeOK, WorkerInv, [Next]_vars
  PROVE  m_wallet' \in {Nobody} \cup Wallets
<1>1. m_wallet \in {Nobody} \cup Wallets /\ w \in {Nobody} \cup Wallets
  BY WalletTypes
<1>2. CASE UNCHANGED m_wallet
  BY <1>1, <1>2
<1>3. CASE OpenPublish
  BY <1>1, <1>3 DEF OpenPublish
<1>4. CASE Scan
  BY <1>1, <1>4, OneMore DEF Scan
<1>5. CASE Change
  BY <1>1, <1>5, OneMore DEF Change
<1>6. CASE CloseBegin \/ UnloadClose \/ NextInstance
  BY <1>6 DEF CloseBegin, UnloadClose, NextInstance
<1> QED
  BY <1>2, <1>3, <1>4, <1>5, <1>6, WalletFrame

(* What the engine opens or makes is a wallet.                             *)
LEMMA EngineOpens ==
  ASSUME TypeOK, WorkerInv, MadeInv, OpenEngine
  PROVE  \/ w' = Nobody /\ pc' = "idle"
         \/ /\ w' \in Wallets /\ pc' = "nettype" /\ UNCHANGED job
            /\ w'.name = job.name /\ w'.id = disk'[w'.name].id
            /\ w'.made = disk'[w'.name].kept
<1>1. /\ job \in [kind : OpenKinds, name : Names, network : Networks]
      /\ jobs \in 1 .. MaxJobs
  BY Bounds DEF OpenEngine, WorkerInv, TypeOK
<1>2. CASE JobEnds
  BY <1>2 DEF JobEnds
<1>3. CASE /\ MakesFile /\ w' = [name |-> job.name, id |-> jobs, made |-> 0]
           /\ pc' = "nettype" /\ UNCHANGED job
  <2>1. w' \in Wallets /\ w'.name = job.name /\ w'.id = jobs /\ w'.made = 0
    BY <1>1, <1>3, Bounds DEF Wallets
  <2>2. disk'[job.name].id = jobs /\ disk'[job.name].kept = 0
    BY <1>3, MadeFile DEF NewFile
  <2> QED
    BY <1>3, <2>1, <2>2
<1>4. CASE /\ WalletExists(job.name) /\ pc' = "nettype" /\ UNCHANGED <<disk, job>>
           /\ w' = [name |-> job.name, id |-> disk[job.name].id,
                    made |-> disk[job.name].kept]
  <2>1. disk[job.name] \in Files /\ disk[job.name].id > 0
    BY <1>1, <1>4, WalletTypes DEF MadeInv
  <2>2. w' \in Wallets /\ w'.name = job.name
    BY <1>1, <1>4, <2>1, Bounds DEF Wallets, Files
  <2> QED
    BY <1>4, <2>2
<1> QED
  BY <1>2, <1>3, <1>4 DEF OpenEngine, NameIsFree, MakesFile, NewFile

LEMMA StepLocal ==
  ASSUME TypeOK, WorkerInv, MadeInv, [Next]_vars
  PROVE  w' \in {Nobody} \cup Wallets
<1>1. m_wallet \in {Nobody} \cup Wallets /\ w \in {Nobody} \cup Wallets
  BY WalletTypes
<1>2. CASE UNCHANGED w \/ w' = Nobody
  BY <1>1, <1>2
<1>3. CASE OpenEngine
  BY <1>3, EngineOpens
<1>4. CASE Scan
  <2>1. CASE UNCHANGED w
    BY <1>1, <2>1
  <2>2. CASE /\ pc \in {"publish", "closing", "close"} /\ w.made < MaxChanges
             /\ w' = [w EXCEPT !.made = @ + 1]
    BY <1>1, <2>2, OneMore DEF WorkerInv
  <2> QED
    BY <1>4, <2>1, <2>2 DEF Scan
<1>5. CASE CloseBegin
  BY <1>1, <1>5 DEF CloseBegin
<1> QED
  BY <1>2, <1>3, <1>4, <1>5, LocalFrame

LEMMA StepHistory ==
  ASSUME TypeOK, WorkerInv, [Next]_vars
  PROVE  /\ reported' \in [Names -> 0 .. MaxChanges]
         /\ closedOk' \in [Names -> 0 .. MaxChanges]
         /\ lost' \subseteq Names
<1>1. /\ m_wallet # Nobody => m_wallet \in Wallets
      /\ w # Nobody => w \in Wallets
  BY WalletTypes
<1>2. reported' \in [Names -> 0 .. MaxChanges]
  <2>1. CASE Keep
    BY <1>1, <2>1 DEF Keep, WorkerInv, Wallets, TypeOK
  <2> QED
    BY <2>1, HistoryFrame DEF TypeOK
<1>3. closedOk' \in [Names -> 0 .. MaxChanges]
  <2>1. CASE CloseEngine
    BY <1>1, <2>1 DEF CloseEngine, WorkerInv, Wallets, TypeOK
  <2> QED
    BY <2>1, HistoryFrame DEF TypeOK
<1>4. lost' \subseteq Names
  <2>1. CASE \/ OpenNettype \/ OpenInit \/ OpenConnect \/ OpenPublish
             \/ CloseStore \/ CloseEngine
    <3>1. w \in Wallets
      BY <1>1, <2>1 DEF WorkerInv, OpenNettype, OpenInit, OpenConnect, OpenPublish,
                        CloseStore, CloseEngine
    <3>2. lost' \in {lost, lost \cup {w.name}}
      BY <2>1 DEF OpenNettype, OpenInit, OpenConnect, OpenPublish, CloseStore,
                  CloseEngine, ClosesWith, CloseStored, CloseUnstored, Drop,
                  CutShort, LeftBehind
    <3> QED
      BY <3>1, <3>2 DEF Wallets, TypeOK
  <2>2. CASE UnloadClose
    <3>1. m_wallet \in Wallets
      BY <1>1, <2>2 DEF WorkerInv, UnloadClose
    <3>2. lost' \in {lost, lost \cup {m_wallet.name}}
      BY <2>2 DEF UnloadClose, CloseStored, Drop
    <3> QED
      BY <3>1, <3>2 DEF Wallets, TypeOK
  <2> QED
    BY <2>1, <2>2, HistoryFrame DEF TypeOK
<1> QED
  BY <1>2, <1>3, <1>4

LEMMA StepTypes ==
  ASSUME TypeOK, FilesInv, [Next]_vars PROVE TypeOK'
<1> USE DEF FilesInv
<1>1. disk' \in [Names -> Files] /\ diskFails' \in BOOLEAN /\ engineRaises' \in BOOLEAN
  BY StepDisk, HistoryFrame DEF TypeOK
<1>2. {m_wallet', w'} \subseteq {Nobody} \cup Wallets
  BY StepWallet, StepLocal
<1>3. /\ reported' \in [Names -> 0 .. MaxChanges]
      /\ closedOk' \in [Names -> 0 .. MaxChanges]
      /\ lost' \subseteq Names
  BY StepHistory
<1>4. m_network' \in Networks \cup {"none"}
  <2>1. CASE OpenPublish
    BY <2>1 DEF OpenPublish, WorkerInv, TypeOK
  <2>2. UNCHANGED m_network \/ m_network' = "none" \/ OpenPublish
    BY DEF vars, Next, OpenCheck, OpenEngine, OpenNettype, OpenInit, OpenConnect,
           Scan, Change, Keep, CloseBegin, CloseStore, CloseEngine, Stop,
           UnloadStore, UnloadClose, Restart, Crash, NextInstance
  <2> QED
    BY <2>1, <2>2 DEF TypeOK
<1>5. /\ job' \in {NoJob} \cup [kind : OpenKinds, name : Names, network : Networks]
      /\ pc' \in Positions
  <2>1. CASE \E kind \in OpenKinds, name \in Names, network \in Networks :
               OpenCheck(kind, name, network)
    BY <2>1 DEF OpenCheck, TypeOK, Positions
  <2>2. \/ UNCHANGED job \/ job' = NoJob
        \/ \E kind \in OpenKinds, name \in Names, network \in Networks :
             OpenCheck(kind, name, network)
    BY DEF vars, Next, OpenEngine, OpenNettype, OpenInit, OpenConnect, OpenPublish,
           Scan, Change, Keep, CloseBegin, CloseStore, CloseEngine, Stop,
           UnloadStore, UnloadClose, Restart, Crash, NextInstance, JobEnds, LeftBehind
  <2>3. \/ UNCHANGED pc \/ pc' \in Positions
        \/ \E kind \in OpenKinds, name \in Names, network \in Networks :
             OpenCheck(kind, name, network)
    BY DEF vars, Next, OpenEngine, OpenNettype, OpenInit, OpenConnect, OpenPublish,
           Scan, Change, Keep, CloseBegin, CloseStore, CloseEngine, Stop,
           UnloadStore, UnloadClose, Restart, Crash, NextInstance, JobEnds, LeftBehind, Positions
  <2> QED
    BY <2>1, <2>2, <2>3 DEF TypeOK
<1>6. edit' \in BOOLEAN /\ m_stop' \in BOOLEAN
  BY DEF TypeOK, vars, Next, OpenCheck, OpenEngine, OpenNettype, OpenInit,
         OpenConnect, OpenPublish, Scan, Change, Keep, CloseBegin, CloseStore,
         CloseEngine, Stop, UnloadStore, UnloadClose, Restart, Crash, NextInstance
<1>7. jobs' \in 0 .. MaxJobs /\ restarts' \in 0 .. MaxRestarts
  <2>1. jobs' \in 0 .. MaxJobs
    <3>1. \/ UNCHANGED jobs \/ CloseBegin
          \/ \E kind \in OpenKinds, name \in Names, network \in Networks :
               OpenCheck(kind, name, network)
      BY DEF vars, Next, OpenEngine, OpenNettype, OpenInit, OpenConnect, OpenPublish,
             Scan, Change, Keep, CloseStore, CloseEngine, Stop, UnloadStore,
             UnloadClose, Restart, Crash, NextInstance
    <3> QED
      BY <3>1, Bounds DEF CloseBegin, OpenCheck, TypeOK
  <2>2. restarts' \in 0 .. MaxRestarts
    <3>1. UNCHANGED restarts \/ NextInstance
      BY DEF vars, Next, OpenCheck, OpenEngine, OpenNettype, OpenInit, OpenConnect,
             OpenPublish, Scan, Change, Keep, CloseBegin, CloseStore, CloseEngine,
             Stop, UnloadStore, UnloadClose, Restart, Crash
    <3> QED
      BY <3>1, Bounds DEF NextInstance, TypeOK
  <2> QED
    BY <2>1, <2>2
<1> QED
  BY <1>1, <1>2, <1>3, <1>4, <1>5, <1>6, <1>7 DEF TypeOK, Files, Wallets
-----------------------------------------------------------------------------
(* The worker.                                                             *)

LEMMA StepWorker ==
  ASSUME TypeOK, FilesInv, [Next]_vars PROVE WorkerInv'
<1> USE DEF WorkerInv
<1>1. /\ WorkerInv /\ MadeInv /\ Nobody \notin Wallets
      /\ m_wallet # Nobody => m_wallet \in Wallets
      /\ w # Nobody => w \in Wallets
  BY WalletTypes, NobodyIsNoWallet DEF FilesInv
<1>2. ASSUME NEW kind \in OpenKinds, NEW name \in Names, NEW network \in Networks,
             OpenCheck(kind, name, network)
      PROVE  WorkerInv'
  <2>1. CASE UNCHANGED worker
    <3>1. jobs' > 0 \/ pc # "engine"
      BY <1>1, <1>2, <2>1 DEF OpenCheck
    <3> QED
      BY <1>1, <1>2, <2>1, <3>1 DEF OpenCheck
  <2>2. CASE /\ m_wallet = Nobody /\ pc' = "engine" /\ UNCHANGED w
             /\ job' = [kind |-> kind, name |-> name, network |-> network]
    <3>1. jobs' > 0
      BY <1>2, Bounds DEF OpenCheck, TypeOK
    <3>2. job' \in [kind : OpenKinds, name : Names, network : Networks]
      BY <2>2
    <3> QED
      BY <1>1, <1>2, <2>2, <3>1, <3>2 DEF OpenCheck
  <2> QED
    BY <1>2, <2>1, <2>2 DEF OpenCheck
<1>3. CASE OpenEngine
  <2>1. m_wallet' = Nobody /\ edit' = FALSE
    BY <1>1, <1>3 DEF OpenEngine, TypeOK
  <2>2. CASE w' = Nobody /\ pc' = "idle"
    BY <2>1, <2>2
  <2>3. CASE w' \in Wallets /\ pc' = "nettype" /\ UNCHANGED job
    BY <1>1, <1>3, <2>1, <2>3 DEF OpenEngine
  <2> QED
    BY <1>1, <1>3, <2>2, <2>3, EngineOpens
<1>4. CASE OpenNettype \/ OpenInit \/ OpenConnect
  <2>1. UNCHANGED <<m_wallet, edit>> /\ m_wallet = Nobody
    BY <1>1, <1>4 DEF OpenNettype, OpenInit, OpenConnect
  <2>2. \/ w' = Nobody /\ pc' = "idle"
        \/ UNCHANGED <<w, job>> /\ pc' \in {"init", "connect", "publish"}
    BY <1>4 DEF OpenNettype, OpenInit, OpenConnect, JobEnds, LeftBehind
  <2> QED
    BY <1>1, <1>4, <2>1, <2>2 DEF OpenNettype, OpenInit, OpenConnect
<1>5. CASE OpenPublish
  BY <1>1, <1>5 DEF OpenPublish, JobEnds, LeftBehind
<1>6. CASE Scan
  <2>1. CASE m_wallet # Nobody /\ m_wallet' \in Wallets /\ UNCHANGED w
    BY <1>1, <1>6, <2>1 DEF Scan
  <2>2. CASE /\ pc \in {"publish", "closing", "close"}
             /\ w' \in Wallets /\ UNCHANGED m_wallet
    BY <1>1, <1>6, <2>2 DEF Scan
  <2> QED
    BY <1>1, <1>6, <2>1, <2>2, OneMore DEF Scan
<1>7. CASE Change
  <2>1. m_wallet' \in Wallets
    BY <1>1, <1>7, OneMore DEF Change
  <2>2. pc = "idle"
    BY <1>1, <1>7 DEF Change, TypeOK, Positions
  <2> QED
    BY <1>1, <1>7, <2>1, <2>2 DEF Change
<1>8. CASE Keep \/ Stop \/ CloseStore \/ UnloadStore \/ CloseBegin
  BY <1>1, <1>8 DEF Keep, Stop, CloseStore, UnloadStore, CloseBegin, JobEnds
<1>9. CASE CloseEngine \/ UnloadClose
  BY <1>1, <1>9 DEF CloseEngine, UnloadClose, JobEnds
<1>10. CASE NextInstance
  BY <1>10 DEF NextInstance, JobEnds
<1>11. CASE UNCHANGED vars
  BY <1>1, <1>11 DEF vars
<1> QED
  BY <1>2, <1>3, <1>4, <1>5, <1>6, <1>7, <1>8, <1>9, <1>10, <1>11
     DEF Next, Restart, Crash

-----------------------------------------------------------------------------
(* The files.                                                              *)

(* Only one of the two wallets there is, so a store is to its own file.    *)
LEMMA OneWallet ==
  ASSUME TypeOK, WorkerInv PROVE m_wallet = Nobody \/ w = Nobody
  BY DEF WorkerInv, TypeOK, Positions

(* A file changes only by holding more of its own wallet.                  *)
LEMMA FilesGrow ==
  ASSUME TypeOK, FilesInv, [Next]_vars, NEW n \in Names
  PROVE  /\ disk'[n].kept >= disk[n].kept
         /\ WalletExists(n) => /\ disk'[n].id = disk[n].id
                               /\ disk'[n].nettype = disk[n].nettype
<1> USE DEF FilesInv
<1>1. disk[n] \in Files /\ disk'[n] \in Files
  BY StepDisk, WalletTypes
<1>2. CASE UNCHANGED disk
  BY <1>1, <1>2 DEF Files
<1>3. ASSUME NEW v \in Wallets, OwnFile(v), Stored(v)
      PROVE  /\ disk'[n].kept >= disk[n].kept
             /\ disk'[n].id = disk[n].id /\ disk'[n].nettype = disk[n].nettype
  <2>1. v # Nobody
    BY NobodyIsNoWallet
  <2>2. CASE n = v.name
    BY <1>1, <1>3, <2>1, <2>2, StoredFile, WalletTypes DEF OwnFile, Files
  <2>3. CASE n # v.name
    <3>1. disk'[n] = disk[n]
      BY <1>3, <2>3, StoredFile, WalletTypes
    <3> QED
      BY <1>1, <3>1 DEF Files
  <2> QED
    BY <2>2, <2>3
<1>4. CASE StoresOwn
  BY <1>3, <1>4, WalletTypes DEF StoresOwn, FilesOfOpenWallets
<1>5. CASE MakesFile
  <2>1. CASE n = job.name
    <3>1. disk[n].kept = 0 /\ ~WalletExists(n)
      BY <1>5, <2>1, NoFileType DEF MakesFile, WalletExists
    <3> QED
      BY <1>1, <3>1 DEF Files
  <2>2. CASE n # job.name
    <3>1. disk'[n] = disk[n]
      BY <1>5, <2>2, MadeFile
    <3> QED
      BY <1>1, <3>1 DEF Files
  <2> QED
    BY <2>1, <2>2
<1> QED
  BY <1>2, <1>4, <1>5, DiskSteps

LEMMA StepMade ==
  ASSUME TypeOK, FilesInv, [Next]_vars PROVE MadeInv'
<1> USE DEF FilesInv
<1> SUFFICES ASSUME NEW n \in Names, disk'[n] # NoFile PROVE disk'[n].id > 0
  BY DEF MadeInv, WalletExists
<1>1. CASE WalletExists(n)
  BY <1>1, FilesGrow DEF MadeInv
<1>2. CASE ~WalletExists(n)
  <2>1. CASE UNCHANGED disk
    BY <1>2, <2>1 DEF WalletExists
  <2>2. ASSUME NEW v \in Wallets, OwnFile(v), Stored(v) PROVE disk'[n].id > 0
    <3>1. CASE n = v.name
      <4>1. disk'[n].id = v.id
        BY <2>2, <3>1, StoredFile, WalletTypes, NobodyIsNoWallet DEF OwnFile
      <4> QED
        BY <4>1, Bounds DEF Wallets
    <3>2. CASE n # v.name
      BY <1>2, <2>2, <3>2, StoredFile, WalletTypes DEF WalletExists
    <3> QED
      BY <3>1, <3>2
  <2>3. CASE StoresOwn
    BY <2>2, <2>3, WalletTypes DEF StoresOwn, FilesOfOpenWallets
  <2>4. CASE MakesFile
    <3>1. CASE n = job.name
      BY <2>4, <3>1, MadeFile DEF NewFile, MakesFile, WorkerInv
    <3>2. CASE n # job.name
      BY <1>2, <2>4, <3>2, MadeFile DEF WalletExists
    <3> QED
      BY <3>1, <3>2
  <2> QED
    BY <2>1, <2>3, <2>4, DiskSteps
<1> QED
  BY <1>1, <1>2
(* Of a wallet that is held, the file stays what it was.                   *)
LEMMA OwnFileStays ==
  ASSUME TypeOK, FilesInv, [Next]_vars, NEW v \in Wallets,
         v = m_wallet \/ v = w
  PROVE  /\ disk'[v.name].id = v.id /\ disk'[v.name].kept <= v.made
         /\ disk'[v.name].nettype = disk[v.name].nettype
<1> USE DEF FilesInv
<1>1. /\ v.name \in Names /\ v.id \in 1 .. MaxJobs /\ v.made \in 0 .. MaxChanges
      /\ v # Nobody /\ OwnFile(v) /\ WalletExists(v.name)
  <2>1. OwnFile(v) /\ v # Nobody
    BY NobodyIsNoWallet DEF FilesOfOpenWallets
  <2>2. v.id > 0 /\ disk[v.name].id = v.id
    BY <2>1, Bounds DEF Wallets, OwnFile
  <2>3. WalletExists(v.name)
    BY <2>2 DEF WalletExists, NoFile
  <2> QED
    BY <2>1, <2>3 DEF Wallets
<1>2. disk'[v.name].id = v.id /\ disk'[v.name].nettype = disk[v.name].nettype
  BY <1>1, FilesGrow DEF OwnFile
<1>3. CASE UNCHANGED disk
  BY <1>1, <1>2, <1>3 DEF OwnFile
<1>4. CASE StoresOwn
  <2>1. Stored(v)
    BY <1>1, <1>4, OneWallet DEF StoresOwn
  <2>2. disk'[v.name].kept = v.made
    BY <2>1, StoredFile, WalletTypes
  <2> QED
    BY <1>1, <1>2, <2>2, Bounds
<1>5. CASE MakesFile
  BY <1>1, <1>5 DEF MakesFile, WorkerInv
<1> QED
  BY <1>2, <1>3, <1>4, <1>5, DiskSteps

LEMMA StepOwn ==
  ASSUME TypeOK, FilesInv, [Next]_vars PROVE FilesOfOpenWallets'
<1> USE DEF FilesInv
<1>1. /\ m_wallet # Nobody => m_wallet \in Wallets
      /\ w # Nobody => w \in Wallets
  BY WalletTypes
<1>2. /\ m_wallet # Nobody =>
           /\ disk'[m_wallet.name].id = m_wallet.id
           /\ disk'[m_wallet.name].kept <= m_wallet.made
           /\ disk'[m_wallet.name].nettype = disk[m_wallet.name].nettype
      /\ w # Nobody => /\ disk'[w.name].id = w.id
                       /\ disk'[w.name].kept <= w.made
                       /\ disk'[w.name].nettype = disk[w.name].nettype
  BY <1>1, OwnFileStays
(* A change leaves the name, and the file holds no more than before.       *)
<1>3. ASSUME NEW v \in Wallets, NEW x, x = [v EXCEPT !.made = @ + 1],
             v.made < MaxChanges,
             disk'[v.name].id = v.id, disk'[v.name].kept <= v.made
      PROVE  disk'[x.name].id = x.id /\ disk'[x.name].kept <= x.made
  <2>1. disk'[v.name] \in Files
    BY StepDisk DEF Wallets
  <2>2. disk'[v.name].kept \in Nat /\ v.made \in Nat
    BY <2>1, Bounds DEF Files, Wallets
  <2> QED
    BY <1>3, <2>2, OneMore
<1>4. m_wallet' # Nobody =>
        disk'[m_wallet'.name].id = m_wallet'.id /\ disk'[m_wallet'.name].kept <= m_wallet'.made
  <2>1. CASE UNCHANGED m_wallet
    BY <1>2, <2>1
  <2>2. CASE OpenPublish
    BY <1>2, <2>2 DEF OpenPublish
  <2>3. CASE Scan \/ Change
    <3>1. CASE /\ m_wallet # Nobody /\ m_wallet.made < MaxChanges
               /\ m_wallet' = [m_wallet EXCEPT !.made = @ + 1]
      BY <1>1, <1>2, <1>3, <3>1
    <3> QED
      BY <2>1, <2>3, <3>1 DEF Scan, Change
  <2>4. CASE CloseBegin \/ UnloadClose \/ NextInstance
    BY <2>4 DEF CloseBegin, UnloadClose, NextInstance
  <2> QED
    BY <2>1, <2>2, <2>3, <2>4, WalletFrame
<1>5. w' # Nobody => disk'[w'.name].id = w'.id /\ disk'[w'.name].kept <= w'.made
  <2>1. CASE UNCHANGED w \/ w' = Nobody
    BY <1>2, <2>1
  <2>2. CASE OpenEngine
    <3>1. CASE /\ w' \in Wallets /\ w'.id = disk'[w'.name].id
               /\ w'.made = disk'[w'.name].kept
      BY <3>1, Bounds DEF Wallets
    <3> QED
      BY <2>1, <2>2, <3>1, EngineOpens
  <2>3. CASE Scan
    <3>1. CASE /\ pc \in {"publish", "closing", "close"} /\ w.made < MaxChanges
               /\ w' = [w EXCEPT !.made = @ + 1]
      BY <1>1, <1>2, <1>3, <3>1 DEF WorkerInv
    <3> QED
      BY <2>1, <2>3, <3>1 DEF Scan
  <2>4. CASE CloseBegin
    BY <1>2, <2>4 DEF CloseBegin
  <2> QED
    BY <2>1, <2>2, <2>3, <2>4, LocalFrame
<1>6. m_wallet' # Nobody => disk'[m_wallet'.name].nettype = NettypeOf(m_network')
  <2>1. CASE OpenPublish
    BY <1>2, <2>1 DEF OpenPublish, WorkerInv, OpeningInv
  <2>2. \/ UNCHANGED m_network \/ m_wallet' = Nobody \/ OpenPublish
    BY DEF vars, Next, OpenCheck, OpenEngine, OpenNettype, OpenInit, OpenConnect,
           Scan, Change, Keep, CloseBegin, CloseStore, CloseEngine, Stop,
           UnloadStore, UnloadClose, Restart, Crash, NextInstance
  <2>3. \/ m_wallet' = Nobody \/ OpenPublish
        \/ m_wallet # Nobody /\ m_wallet'.name = m_wallet.name
    <3>1. CASE Scan \/ Change
      <4>1. CASE /\ m_wallet # Nobody /\ m_wallet.made < MaxChanges
                 /\ m_wallet' = [m_wallet EXCEPT !.made = @ + 1]
        BY <1>1, <4>1, OneMore
      <4>2. CASE UNCHANGED m_wallet
        BY <4>2
      <4> QED
        BY <3>1, <4>1, <4>2 DEF Scan, Change
    <3>2. CASE CloseBegin \/ UnloadClose \/ NextInstance
      BY <3>2 DEF CloseBegin, UnloadClose, NextInstance
    <3>3. CASE UNCHANGED m_wallet
      BY <3>3
    <3> QED
      BY <3>1, <3>2, <3>3, WalletFrame
  <2> QED
    BY <1>2, <2>1, <2>2, <2>3 DEF FilesOfOpenWallets
<1> QED
  BY <1>4, <1>5, <1>6 DEF FilesOfOpenWallets, OwnFile

LEMMA StepOpening ==
  ASSUME TypeOK, FilesInv, [Next]_vars PROVE OpeningInv'
<1> USE DEF OpeningInv
<1>1. /\ WorkerInv /\ OpeningInv /\ MadeInv
      /\ m_wallet # Nobody => m_wallet \in Wallets
      /\ w # Nobody => w \in Wallets
  BY WalletTypes DEF FilesInv
<1>2. CASE OpenEngine
  BY <1>1, <1>2, EngineOpens
<1>3. CASE OpenNettype
  <2>1. CASE SameNettype /\ pc' = "init" /\ UNCHANGED <<w, job, disk>>
    BY <1>1, <1>3, <2>1 DEF OpenNettype, SameNettype
  <2>2. CASE pc' = "idle"
    BY <2>2
  <2> QED
    BY <1>3, <2>1, <2>2 DEF OpenNettype, JobEnds, LeftBehind
<1>4. CASE OpenInit \/ OpenConnect
  <2>1. \/ pc' = "idle"
        \/ /\ pc' \in {"connect", "publish"} /\ pc \in {"init", "connect"}
           /\ (pc' = "connect" => pc = "init") /\ UNCHANGED <<w, job, disk>>
    BY <1>4 DEF OpenInit, OpenConnect, JobEnds, LeftBehind
  <2> QED
    BY <1>1, <2>1
<1>5. CASE Scan
  <2>1. UNCHANGED <<disk, pc, job>>
    BY <1>5 DEF Scan
  <2>2. \/ UNCHANGED w
        \/ pc \in {"publish", "closing", "close"} /\ w'.name = w.name
    BY <1>1, <1>5, OneMore DEF Scan, WorkerInv
  <2> QED
    BY <1>1, <2>1, <2>2
<1>6. CASE \/ \E kind \in OpenKinds, name \in Names, network \in Networks :
                OpenCheck(kind, name, network)
           \/ Change \/ Stop \/ UNCHANGED vars
  <2>1. \/ UNCHANGED <<disk, pc, w, job>> \/ pc' = "engine"
    BY <1>6 DEF OpenCheck, Change, Stop, vars
  <2> QED
    BY <1>1, <2>1
<1>7. CASE Keep
  BY <1>1, <1>7 DEF Keep, WorkerInv
<1>8. CASE OpenPublish \/ CloseBegin \/ CloseStore \/ CloseEngine \/ UnloadStore
           \/ UnloadClose \/ NextInstance
  BY <1>8 DEF OpenPublish, CloseBegin, CloseStore, CloseEngine, UnloadStore,
              UnloadClose, NextInstance, JobEnds, LeftBehind
<1> QED
  BY <1>2, <1>3, <1>4, <1>5, <1>6, <1>7, <1>8 DEF Next, Restart, Crash
-----------------------------------------------------------------------------
(* What is kept, and what is lost.                                         *)

LEMMA StepKept ==
  ASSUME TypeOK, FilesInv, [Next]_vars PROVE KeptInv'
<1> USE DEF FilesInv
<1>1. /\ WorkerInv /\ OpeningInv
      /\ m_wallet # Nobody => m_wallet \in Wallets
      /\ w # Nobody => w \in Wallets
  BY WalletTypes
<1>2. \A n \in Names : /\ disk[n].kept \in Nat /\ disk'[n].kept \in Nat
                       /\ disk'[n].kept >= disk[n].kept
  <2>1. \A n \in Names : disk[n] \in Files /\ disk'[n] \in Files
    BY StepDisk, WalletTypes
  <2> QED
    BY <2>1, FilesGrow, Bounds DEF Files
<1>3. \A n \in Names : reported[n] \in Nat /\ closedOk[n] \in Nat
  BY Bounds DEF TypeOK
<1>4. ClosedIsKept'
  <2> SUFFICES ASSUME NEW n \in Names PROVE closedOk'[n] <= disk'[n].kept
    BY DEF ClosedIsKept
  <2>1. closedOk[n] <= disk[n].kept
    BY DEF KeptInv, ClosedIsKept
  <2>2. CASE UNCHANGED closedOk
    BY <1>2, <1>3, <2>1, <2>2
  <2>3. CASE CloseEngine
    <3>1. w \in Wallets
      BY <1>1, <2>3 DEF CloseEngine, WorkerInv
    <3>2. CASE Stored(w) /\ closedOk' = [closedOk EXCEPT ![w.name] = w.made]
      <4>1. disk'[w.name].kept = w.made /\ w.name \in Names /\ w.made \in Nat
        BY <3>1, <3>2, StoredFile, WalletTypes, Bounds DEF Wallets
      <4>2. CASE n = w.name
        <5>1. closedOk'[n] = w.made
          BY <3>2, <4>1, <4>2 DEF TypeOK
        <5> QED
          BY <4>1, <4>2, <5>1
      <4>3. CASE n # w.name
        <5>1. closedOk'[n] = closedOk[n]
          BY <3>2, <4>3 DEF TypeOK
        <5> QED
          BY <1>2, <1>3, <2>1, <5>1
      <4> QED
        BY <4>2, <4>3
    <3> QED
      BY <2>2, <2>3, <3>2 DEF CloseEngine, ClosesWith, CloseStored, SaysOk
  <2> QED
    BY <2>2, <2>3, HistoryFrame
<1>5. ReportedIsKept'
  <2> SUFFICES ASSUME ~diskFails', NEW n \in Names PROVE reported'[n] <= disk'[n].kept
    BY DEF ReportedIsKept
  <2>1. ~diskFails /\ reported[n] <= disk[n].kept
    BY HistoryFrame DEF KeptInv, ReportedIsKept
  <2>2. CASE UNCHANGED reported
    BY <1>2, <1>3, <2>1, <2>2
  <2>3. CASE Keep
    <3>1. m_wallet \in Wallets
      BY <1>1, <2>3 DEF Keep, WorkerInv
    <3> SUFFICES ASSUME Stored(m_wallet),
                        reported' = [reported EXCEPT ![m_wallet.name] = m_wallet.made]
                 PROVE  reported'[n] <= disk'[n].kept
      BY <2>1, <2>2, <2>3 DEF Keep, StoreWallet, NotStored
    <3>2. Stored(m_wallet) /\ reported' = [reported EXCEPT ![m_wallet.name] = m_wallet.made]
      OBVIOUS
    <3>3. /\ disk'[m_wallet.name].kept = m_wallet.made
          /\ m_wallet.name \in Names /\ m_wallet.made \in Nat
      BY <3>1, <3>2, StoredFile, WalletTypes, Bounds DEF Wallets
    <3>4. CASE n = m_wallet.name
      <4>1. reported'[n] = m_wallet.made
        BY <3>2, <3>3, <3>4 DEF TypeOK
      <4> QED
        BY <3>3, <3>4, <4>1
    <3>5. CASE n # m_wallet.name
      <4>1. reported'[n] = reported[n]
        BY <3>2, <3>5 DEF TypeOK
      <4> QED
        BY <1>2, <1>3, <2>1, <4>1
    <3> QED
      BY <3>4, <3>5
  <2> QED
    BY <2>2, <2>3, HistoryFrame
<1>6. LostOnlyInCrash'
  <2> SUFFICES ASSUME ~diskFails', ~engineRaises' PROVE lost' = {}
    BY DEF LostOnlyInCrash
  <2>1. ~diskFails /\ ~engineRaises /\ lost = {}
    BY HistoryFrame DEF KeptInv, LostOnlyInCrash
  <2>2. CASE UNCHANGED lost
    BY <2>1, <2>2
  (* Until its refresh starts a wallet is as its file is.                  *)
  <2>3. ASSUME w \in Wallets, w.made = disk[w.name].kept, CloseUnstored(w)
        PROVE  UNCHANGED lost
    <3>1. ~(disk[w.name].kept < w.made)
      BY <2>3, Bounds DEF Wallets
    <3> QED
      BY <2>3, <3>1 DEF CloseUnstored, Drop
  <2>4. ASSUME NEW v, NEW ok \in BOOLEAN, CloseStored(v, ok)
        PROVE  UNCHANGED lost
    BY <2>1, <2>4 DEF CloseStored, NotStored
  <2>5. CASE OpenNettype
    BY <1>1, <2>2, <2>3, <2>5, <2>1 DEF LeftBehind, CutShort, OpenNettype, WorkerInv, OpeningInv
  <2>6. CASE OpenInit
    BY <1>1, <2>2, <2>3, <2>4, <2>6, <2>1 DEF LeftBehind, CutShort, OpenInit, WorkerInv, OpeningInv
  <2>7. CASE OpenConnect
    BY <2>1, <2>2, <2>4, <2>7 DEF OpenConnect, LeftBehind, CutShort
  <2>8. CASE CloseEngine
    BY <2>1, <2>2, <2>4, <2>8 DEF CloseEngine, ClosesWith, CutShort
  <2>9. CASE UnloadClose
    BY <2>2, <2>4, <2>9 DEF UnloadClose
  <2>10. CASE OpenPublish \/ CloseStore
    BY <2>1, <2>2, <2>10 DEF OpenPublish, CloseStore, LeftBehind, CutShort
  <2> QED
    BY <2>2, <2>5, <2>6, <2>7, <2>8, <2>9, <2>10, HistoryFrame
<1> QED
  BY <1>4, <1>5, <1>6 DEF KeptInv

LEMMA StepFiles ==
  TypeOK /\ FilesInv /\ [Next]_vars => TypeOK' /\ FilesInv'
BY StepTypes, StepWorker, StepOpening, StepMade, StepOwn, StepKept DEF FilesInv

-----------------------------------------------------------------------------
(* Every variable of the wallets directory keeps its type, and the         *)
(* invariant that the theorems below rest on holds (cpp:508-650).          *)
THEOREM FilesInductive == Spec => [](TypeOK /\ FilesInv)
  BY InitFiles, StepFiles, PTL DEF Spec

(* Every variable keeps its type, also over crashes (impl.cpp:49-66).      *)
THEOREM TypeCorrect == Spec => []TypeOK
  BY FilesInductive, PTL

(* The file an open wallet is stored to is its own, and is of the network  *)
(* type it was opened with (cpp:530-555).                                  *)
THEOREM FilesBelong == Spec => []FilesOfOpenWallets
<1>1. TypeOK /\ FilesInv => FilesOfOpenWallets
  BY DEF FilesInv
<1> QED
  BY <1>1, FilesInductive, PTL

(* What a close, or a call on a disk that writes, reported is on disk from *)
(* then on, also if wallet2 raises; where it does not, only a crash loses  *)
(* changes (cpp:632-644, 721, 740, 827).                                   *)
THEOREM KeptForEver ==
  Spec => [](ClosedIsKept /\ ReportedIsKept /\ LostOnlyInCrash)
<1>1. TypeOK /\ FilesInv => ClosedIsKept /\ ReportedIsKept /\ LostOnlyInCrash
  BY DEF FilesInv, KeptInv
<1> QED
  BY <1>1, FilesInductive, PTL

(* A close that reported success has kept every change of its wallet, for  *)
(* every number of jobs and changes (doClose, cpp:632-644).                *)
THEOREM ClosesKept == Spec => []ClosedIsKept
  BY KeptForEver, PTL

(* Nothing that crashes or fails takes a commit, a password or a           *)
(* subaddress that was reported off a disk that writes (cpp:721, 740, 827).*)
THEOREM ReportsKept == Spec => []ReportedIsKept
  BY KeptForEver, PTL

(* A close, an unload or an open that fails loses no change on a disk that *)
(* writes, as long as wallet2 does not raise (impl.cpp:60-62).             *)
THEOREM CrashesLose == Spec => []LostOnlyInCrash
  BY KeptForEver, PTL

(* No step of a job or of a crash puts another wallet in a file's place,   *)
(* or takes back what it holds (cpp:530-541).                              *)
THEOREM NothingOverwritten == Spec => NeverOverwritten
<1>1. TypeOK /\ FilesInv /\ [Next]_vars =>
        [\A n \in Names : WalletExists(n) =>
           /\ disk'[n].id = disk[n].id /\ disk'[n].nettype = disk[n].nettype
           /\ disk'[n].kept >= disk[n].kept]_disk
  BY FilesGrow
<1> QED
  BY <1>1, FilesInductive, PTL DEF Spec, NeverOverwritten
=============================================================================
