------------------------------ MODULE WalletFiles ------------------------------
(***************************************************************************)
(* The wallets directory: which files the jobs write, what is on disk when *)
(* a call reports success, and what a crash, an unload or a full disk can  *)
(* take away.                                                              *)
(*                                                                         *)
(* What a wallet holds is a number: the changes made to it so far, by      *)
(* calls (a commit, a password, a subaddress) and by the refresh thread (a *)
(* scanned block).  Its file keeps the first `kept` of them.  wallet2 is   *)
(* external: a store writes everything or, on a disk that fails, nothing,  *)
(* and where wallet2 raises, a job leaves the wallet it opens or closes    *)
(* behind: neither stored nor closed, and nobody's.                        *)
(* The handle's mutex is the one of WalletHandle; here a change and its    *)
(* store are one exclusive section.                                        *)
(***************************************************************************)
EXTENDS Naturals

CONSTANTS
  BadNames, Names,   \* names with a "/" or ".."; all a caller tries
  Networks,
  OpenKinds,         \* the open-like jobs
  MaxJobs,           \* bound: jobs of all instances
  MaxChanges,        \* bound: changes to one wallet
  MaxRestarts        \* bound: crashes and unloads

ASSUME FilesAssumption ==
  /\ BadNames \subseteq Names
  /\ Networks \subseteq {"mainnet", "stagenet", "testnet", "regtest"}
  /\ OpenKinds \subseteq {"open_wallet", "create_wallet", "restore_from_seed",
                          "restore_from_keys"}
  /\ MaxJobs \in Nat /\ MaxChanges \in Nat /\ MaxRestarts \in Nat

VARIABLES
  disk,       \* name -> its file
  diskFails,  \* may a store fail?  The disk of this behaviour
  engineRaises,  \* may a call of wallet2 raise?
  m_wallet,   \* the published wallet: its name, whose it is, its changes
  m_network,
  w,          \* the worker's local: the wallet it opens or closes
  job,        \* the open-like job the worker runs
  pc,         \* its position
  edit,       \* is a call between its change and its store?
  m_stop,
  reported,   \* history: name -> changes made when a call last said ok
  closedOk,   \* history: name -> changes made when a close last said ok
  lost,       \* history: names whose changes went without a crash
  jobs, restarts

faults  == <<diskFails, engineRaises>>
memory  == <<m_wallet, m_network>>
worker  == <<w, job, pc>>
history == <<reported, closedOk, lost>>
bounds  == <<jobs, restarts>>
vars    == <<disk, faults, memory, worker, edit, m_stop, history, bounds>>

(* Files and wallets carry the number of the job that made them, so that   *)
(* one wallet's file is not taken for another's.                           *)
NoFile == [id |-> 0, nettype |-> 0, kept |-> 0]
Nobody == [name |-> "none", id |-> 0, made |-> 0]
NoJob  == [kind |-> "none", name |-> "none", network |-> "none"]

(* A slip: regtest is given a type of its own, as wallet2 does.            *)
NettypeOfChain(network) ==
  CASE network = "testnet" -> 1
    [] network = "stagenet" -> 2
    [] network = "regtest" -> 3
    [] OTHER -> 0

(* mainnet and regtest share their addresses, and their files.             *)
NettypeOf(network) ==
  CASE network = "testnet" -> 1
    [] network = "stagenet" -> 2
    [] OTHER -> 0

WalletExists(name) == disk[name] # NoFile

Creates(kind) == kind # "open_wallet"

Init ==
  /\ disk = [n \in Names |-> NoFile] /\ diskFails \in BOOLEAN /\ engineRaises \in BOOLEAN
  /\ m_wallet = Nobody /\ m_network = "none"
  /\ w = Nobody /\ job = NoJob /\ pc = "idle"
  /\ edit = FALSE /\ m_stop = FALSE
  /\ reported = [n \in Names |-> 0] /\ closedOk = [n \in Names |-> 0]
  /\ lost = {}
  /\ jobs = 0 /\ restarts = 0

-----------------------------------------------------------------------------
(* wallet2's part: the store, and a close with a last store or without.    *)

Stored(wallet) == disk' = [disk EXCEPT ![wallet.name].kept = wallet.made]
NotStored      == diskFails /\ UNCHANGED disk

Drop(wallet, kept) ==
  lost' = IF kept < wallet.made THEN lost \cup {wallet.name} ELSE lost

(* closeWallet(wallet, false).                                             *)
CloseUnstored(wallet) ==
  UNCHANGED disk /\ Drop(wallet, disk[wallet.name].kept)

(* closeWallet(wallet, true), which answers whether its store succeeded.   *)
CloseStored(wallet, ok) ==
  \/ ok /\ Stored(wallet) /\ UNCHANGED lost
  \/ ~ok /\ NotStored /\ Drop(wallet, disk[wallet.name].kept)

(* A store or a closeWallet that raises, before it has written or after.   *)
CutShort(wallet) ==
  /\ engineRaises
  /\ CloseUnstored(wallet) \/ (Stored(wallet) /\ UNCHANGED lost)

-----------------------------------------------------------------------------
(* doOpenLike.                                                             *)

JobEnds == w' = Nobody /\ job' = NoJob /\ pc' = "idle"

(* A raise between the open in wallet2 and the publication: the job fails, *)
(* and no step stores or closes its wallet any more.                       *)
LeftBehind == engineRaises /\ CloseUnstored(w) /\ JobEnds

(* The name, the policy of the node module and an open wallet may each     *)
(* refuse the job, before anything is written.                             *)
OpenCheck(kind, name, network) ==
  /\ pc = "idle" /\ ~edit /\ ~m_stop
  /\ jobs < MaxJobs /\ jobs' = jobs + 1
  /\ \/ UNCHANGED worker
     \/ /\ name \notin BadNames /\ m_wallet = Nobody
        /\ job' = [kind |-> kind, name |-> name, network |-> network]
        /\ pc' = "engine" /\ UNCHANGED w
  /\ UNCHANGED <<disk, faults, memory, edit, m_stop, history, restarts>>

(* A slip: a restore does not ask whether the name is taken.               *)
RestoreAnyway(kind, name) ==
  kind = "restore_from_seed" \/ (WalletExists(name) <=> ~Creates(kind))

(* open_wallet wants the file there, the others want it away.              *)
NameIsFree(kind, name) == WalletExists(name) <=> ~Creates(kind)

(* A create that fails may leave its files behind, and so may a crash.     *)
OpenEngine ==
  /\ pc = "engine"
  /\ LET file == [id |-> jobs, nettype |-> NettypeOf(job.network), kept |-> 0]
     IN \/ JobEnds /\ UNCHANGED disk
        \/ /\ NameIsFree(job.kind, job.name) /\ Creates(job.kind)
           /\ disk' = [disk EXCEPT ![job.name] = file]
           /\ \/ JobEnds
              \/ /\ w' = [name |-> job.name, id |-> jobs, made |-> 0]
                 /\ pc' = "nettype" /\ UNCHANGED job
        \/ /\ NameIsFree(job.kind, job.name) /\ ~Creates(job.kind)
           /\ w' = [name |-> job.name, id |-> disk[job.name].id,
                    made |-> disk[job.name].kept]
           /\ pc' = "nettype" /\ UNCHANGED <<disk, job>>
  /\ UNCHANGED <<faults, memory, edit, m_stop, history, bounds>>

(* A slip: the wallet's own network is not asked.                          *)
AnyNettype == TRUE

SameNettype == disk[w.name].nettype = NettypeOf(job.network)

OpenNettype ==
  /\ pc = "nettype"
  /\ \/ SameNettype /\ pc' = "init" /\ UNCHANGED <<w, job, disk, lost>>
     \/ ~SameNettype /\ CloseUnstored(w) /\ JobEnds
     \/ LeftBehind
  /\ UNCHANGED <<faults, memory, edit, m_stop, reported, closedOk, bounds>>

(* A wallet that was created is stored when its init fails, one that was   *)
(* only opened is not.                                                     *)
OpenInit ==
  /\ pc = "init"
  /\ \/ pc' = "connect" /\ UNCHANGED <<w, job, disk, lost>>
     \/ LeftBehind
     \/ /\ JobEnds
        /\ IF Creates(job.kind)
           THEN CutShort(w) \/ \E ok \in BOOLEAN : CloseStored(w, ok)
           ELSE CloseUnstored(w)
  /\ UNCHANGED <<faults, memory, edit, m_stop, reported, closedOk, bounds>>

(* A required proxy through which no daemon answers.                       *)
OpenConnect ==
  /\ pc = "connect"
  /\ \/ pc' = "publish" /\ UNCHANGED <<w, job, disk, lost>>
     \/ LeftBehind
     \/ JobEnds /\ (CutShort(w) \/ \E ok \in BOOLEAN : CloseStored(w, ok))
  /\ UNCHANGED <<faults, memory, edit, m_stop, reported, closedOk, bounds>>

(* The refresh has started by now: a wallet left behind here may have      *)
(* scanned blocks that are on no disk.                                     *)
OpenPublish ==
  /\ pc = "publish"
  /\ \/ m_wallet' = w /\ m_network' = job.network /\ JobEnds /\ UNCHANGED <<disk, lost>>
     \/ LeftBehind /\ UNCHANGED memory
  /\ UNCHANGED <<faults, edit, m_stop, reported, closedOk, bounds>>

-----------------------------------------------------------------------------
(* What changes a wallet, and what stores it.                              *)

(* The refresh thread, from its start in the open to closeWallet.          *)
Scan ==
  /\ \/ /\ m_wallet # Nobody /\ m_wallet.made < MaxChanges
        /\ m_wallet' = [m_wallet EXCEPT !.made = @ + 1] /\ UNCHANGED w
     \/ /\ pc \in {"publish", "closing", "close"} /\ w.made < MaxChanges
        /\ w' = [w EXCEPT !.made = @ + 1] /\ UNCHANGED m_wallet
  /\ UNCHANGED <<disk, faults, m_network, job, pc, edit, m_stop, history, bounds>>

(* A commit, a new password, a new or renamed subaddress: all of them hold *)
(* the handle exclusively from the change to the store.  The worker's stop *)
(* with it, the calls of the host do not.                                  *)
Change ==
  /\ m_wallet # Nobody /\ ~edit /\ pc # "unload"
  /\ m_wallet.made < MaxChanges
  /\ m_wallet' = [m_wallet EXCEPT !.made = @ + 1]
  /\ edit' = TRUE
  /\ UNCHANGED <<disk, faults, m_network, worker, m_stop, history, bounds>>

(* A slip: the call leaves its store to the next one.                      *)
LeftInMemory == UNCHANGED disk

StoreWallet == Stored(m_wallet) \/ NotStored

(* The result of the store is not looked at: the call reports success,     *)
(* unless wallet2 has raised, before it wrote or after.                    *)
Keep ==
  /\ edit
  /\ \/ /\ StoreWallet
        /\ reported' = [reported EXCEPT ![m_wallet.name] = m_wallet.made]
     \/ /\ engineRaises /\ UNCHANGED reported
        /\ Stored(m_wallet) \/ UNCHANGED disk
  /\ edit' = FALSE
  /\ UNCHANGED <<faults, memory, worker, m_stop, closedOk, lost, bounds>>

-----------------------------------------------------------------------------
(* doClose.                                                                *)

CloseBegin ==
  /\ pc = "idle" /\ ~edit /\ ~m_stop /\ m_wallet # Nobody
  /\ jobs < MaxJobs /\ jobs' = jobs + 1
  /\ w' = m_wallet /\ m_wallet' = Nobody /\ pc' = "closing"
  /\ UNCHANGED <<disk, faults, m_network, job, edit, m_stop, history, restarts>>

(* The first store's result is not looked at.                              *)
CloseStore ==
  /\ pc = "closing"
  /\ \/ (Stored(w) \/ NotStored) /\ pc' = "close" /\ UNCHANGED <<w, job, lost>>
     \/ CutShort(w) /\ JobEnds
  /\ UNCHANGED <<faults, memory, edit, m_stop, reported, closedOk, bounds>>

(* A slip: the wallet was stored a moment ago, so closeWallet need not.    *)
ClosesWithout(ok) == CloseUnstored(w)

ClosesWith(ok) == CloseStored(w, ok)

(* A slip: the close says ok, as the calls that store do.                  *)
SaysOkAnyway(ok) == TRUE

SaysOk(ok) == ok

(* The second one's result is the job's.                                   *)
CloseEngine ==
  /\ pc = "close"
  /\ \/ \E ok \in BOOLEAN :
          /\ ClosesWith(ok)
          /\ closedOk' = IF SaysOk(ok) THEN [closedOk EXCEPT ![w.name] = w.made] ELSE closedOk
     \/ CutShort(w) /\ UNCHANGED closedOk
  /\ JobEnds
  /\ UNCHANGED <<faults, memory, edit, m_stop, reported, bounds>>

-----------------------------------------------------------------------------
(* shutdown, a crash, and the next instance.                               *)

Stop ==
  /\ ~m_stop /\ m_stop' = TRUE
  /\ UNCHANGED <<disk, faults, memory, worker, edit, history, bounds>>

(* The worker has been joined, and the handle is held to the end.          *)
UnloadStore ==
  /\ m_stop /\ pc = "idle" /\ ~edit /\ m_wallet # Nobody
  /\ Stored(m_wallet) \/ NotStored
  /\ pc' = "unload"
  /\ UNCHANGED <<faults, memory, w, job, edit, m_stop, history, bounds>>

UnloadClose ==
  /\ pc = "unload"
  /\ \E ok \in BOOLEAN : CloseStored(m_wallet, ok)
  /\ m_wallet' = Nobody /\ JobEnds
  /\ UNCHANGED <<faults, m_network, edit, m_stop, reported, closedOk, bounds>>

(* Only the disk outlives the instance.                                    *)
NextInstance ==
  /\ restarts < MaxRestarts /\ restarts' = restarts + 1
  /\ m_wallet' = Nobody /\ m_network' = "none" /\ JobEnds
  /\ edit' = FALSE /\ m_stop' = FALSE
  /\ UNCHANGED <<disk, faults, history, jobs>>

Restart == m_stop /\ pc = "idle" /\ ~edit /\ m_wallet = Nobody /\ NextInstance
Crash   == NextInstance

-----------------------------------------------------------------------------
Next ==
  \/ \E kind \in OpenKinds, name \in Names, network \in Networks :
       OpenCheck(kind, name, network)
  \/ OpenEngine \/ OpenNettype \/ OpenInit \/ OpenConnect \/ OpenPublish
  \/ Scan \/ Change \/ Keep
  \/ CloseBegin \/ CloseStore \/ CloseEngine
  \/ Stop \/ UnloadStore \/ UnloadClose \/ Restart \/ Crash

Spec == Init /\ [][Next]_vars

-----------------------------------------------------------------------------
(* Every variable keeps its type.  setWalletsDir comes before any job, and *)
(* a local is empty between two jobs.                                      *)
Positions == {"idle", "engine", "nettype", "init", "connect", "publish",
              "closing", "close", "unload"}

TypeOK ==
  /\ disk \in [Names -> [id : 0 .. MaxJobs, nettype : 0 .. 2, kept : 0 .. MaxChanges]]
  /\ diskFails \in BOOLEAN /\ engineRaises \in BOOLEAN
  /\ {m_wallet, w} \subseteq {Nobody} \cup
       [name : Names, id : 1 .. MaxJobs, made : 0 .. MaxChanges]
  /\ m_network \in Networks \cup {"none"}
  /\ job \in {NoJob} \cup [kind : OpenKinds, name : Names, network : Networks]
  /\ pc \in Positions /\ edit \in BOOLEAN /\ m_stop \in BOOLEAN
  /\ reported \in [Names -> 0 .. MaxChanges]
  /\ closedOk \in [Names -> 0 .. MaxChanges]
  /\ lost \subseteq Names
  /\ jobs \in 0 .. MaxJobs /\ restarts \in 0 .. MaxRestarts

(* The file a wallet is stored to is its own, written for the network type *)
(* it was opened with, and holds nothing the wallet does not: no job of    *)
(* another wallet, network or instance came in between (cpp:531-555).      *)
OwnFile(wallet) ==
  wallet # Nobody =>
    /\ disk[wallet.name].id = wallet.id
    /\ disk[wallet.name].kept <= wallet.made

FilesOfOpenWallets ==
  /\ OwnFile(m_wallet) /\ OwnFile(w)
  /\ m_wallet # Nobody => disk[m_wallet.name].nettype = NettypeOf(m_network)

(* No step, of a job or of a crash, replaces a wallet's file by another's, *)
(* removes one, or takes back what one holds (the checks of cpp:530-541).  *)
NeverOverwritten ==
  [][\A n \in Names : WalletExists(n) =>
       /\ disk'[n].id = disk[n].id /\ disk'[n].nettype = disk[n].nettype
       /\ disk'[n].kept >= disk[n].kept]_disk

(* A close that reports success has kept every change, also where writes   *)
(* fail and the refresh thread worked on to the last (cpp:632-644).        *)
ClosedIsKept == \A n \in Names : closedOk[n] <= disk[n].kept

(* What a commit, a password or a subaddress call reported is on disk for  *)
(* ever after, whatever crashes: on a disk that writes (cpp:721, 740, 827, *)
(* 838 store before they answer, and do not look at the result).           *)
ReportedIsKept == ~diskFails => \A n \in Names : reported[n] <= disk[n].kept

(* On a disk that writes, and where wallet2 does not raise, only a crash   *)
(* loses changes: no close, unload or open that fails does                 *)
(* (impl.cpp:60-62).                                                       *)
LostOnlyInCrash == ~diskFails /\ ~engineRaises => lost = {}
=============================================================================
