-------------------------- MODULE WalletSessionProofs --------------------------
(***************************************************************************)
(* What holds of WalletEngine between two jobs, and that it implements     *)
(* SessionContract.  The argument follows the worker through its           *)
(* positions: at each of them SessionInv says whose job it does, whether a *)
(* wallet is there, and how far state, route, refresh and locks have come  *)
(* on the way from one agreement to the next.  What the idle tick decides  *)
(* comes last, with invariants of its own.                                 *)
(***************************************************************************)
EXTENDS WalletEngineProofs

USE DEF locals, session, progress, locks, sends, wallet2, runs,
        Step, Raises, PauseRaises, NoWallet

(* doOpenLike before the handle is public and after, doClose once it is    *)
(* not, and a tick that has found a wallet.                                *)
Opening   == {"open_engine", "open_init", "open_connect", "open_publish"}
Published == {"open_record", "open_notify", "open_syncing"}
Closing   == {"close_engine", "close_join", "close_record", "close_notify", "close_final"}
Ticking   == {"tick_ask", "tick_flip", "move", "move_offline", "move_wait",
              "move_init", "moved", "parked", "move_emit"}

JobInv ==
  /\ pc \in JobKinds => job = pc
  /\ pc \in Opening \cup Published => job = "open"
  /\ pc \in Closing => job = "close_wallet"
  /\ pc \in Ticking \cup {"tick"} => job = "tick"

(* Wallets are numbered by the jobs that opened them; no job and no tick   *)
(* begins before this instance has told the node module of itself.         *)
PlaceInv ==
  /\ m_wallet <= served
  /\ pc = "open" => m_wallet # served
  /\ pc \in Opening \cup Published => served > 0
  /\ pc \in Published \cup Ticking => m_wallet # NoWallet
  /\ ~m_locksReset => pc \in {"idle", "stopping", "stopped"} /\ m_wallet = NoWallet

DirectInv == Recorded /\ m_route = "direct" => dial.via = "clear"

Agrees ==
  IF m_wallet = NoWallet
  THEN m_state = "no_wallet" /\ m_route = "direct"
  ELSE m_state \in {"syncing", "ready"}

StatusInv ==
  ~EmitMayFail /\ ~EngineMayThrow =>
    /\ pc \in Opening \cup {"close_notify", "close_final"} => m_route = "direct"
    /\ pc \notin Opening \cup Published \cup Closing \cup {"stopped"} => Agrees

(* A wallet is offline from the step that pauses it to the one that        *)
(* resumes it.                                                             *)
OnlineInv ==
  ~EngineMayThrow =>
    /\ /\ m_wallet # NoWallet /\ m_route # "waiting_for_tor"
       /\ pc \notin {"open_record", "move_wait", "move_init", "parked", "stopping", "stopped"}
       => refreshing /\ ~offline
    /\ pc = "open_record" => refreshing \/ RouteFor(node) = "waiting_for_tor"
    /\ pc = "moved" => refreshing /\ ~offline

(* The notice follows the record when a wallet opens, and the close of the *)
(* pointer when it closes.                                                 *)
LockInv ==
  ~NotifyMayFail /\ ~EngineMayThrow /\ m_locksReset =>
    /\ pc = "open_notify" => net = m_network
    /\ pc # "stopped" =>
         \A n \in Networks :
           nodeLock[n] <=>
             /\ n = m_network
             /\ \/ m_wallet # NoWallet /\ pc \notin {"open_record", "open_notify"}
                \/ pc \in Closing \ {"close_final"}

(* A handle is given out once, and what was reported as sent has none.     *)
FateInv ==
  \A h \in TxHandles :
    /\ fate[h] # "again"
    /\ fate[h] = "unsure" => ReplyMayBeLost \/ EngineMayThrow
    /\ m_pendingTx[h] # NoWallet \/ h >= m_nextTx => fate[h] # "sent"
    /\ h >= m_nextTx => m_pendingTx[h] = NoWallet

(* From the publication of its handle on, an open has dialled, and each    *)
(* step completes what is known of the wallet.                             *)
OpenedInv ==
  /\ pc \in Published =>
       /\ m_wallet = served /\ Dialled
       /\ refreshing = (RouteFor(node) # "waiting_for_tor")
  /\ pc \in {"open_notify", "open_syncing"} => m_network = net /\ m_route = RouteFor(node)
  /\ pc = "open_syncing" => NotifyMayFail \/ nodeLock[net]
  /\ FailedOpenIsNoneOrWhole

(* A wallet2 object is there from its init to the end of its close.        *)
NoEngineLeft == dial = NoDial /\ ~refreshing /\ inflight = NoDial

EngineInv ==
  ~EngineMayThrow /\ m_wallet = NoWallet
    /\ pc \notin {"open_init", "open_connect", "open_publish", "close_engine", "close_join"}
  => NoEngineLeft

SessionInv ==
  /\ JobInv /\ PlaceInv /\ DirectInv /\ StatusInv /\ OnlineInv /\ LockInv
  /\ FateInv /\ OpenedInv /\ EngineInv
USE DEF Opening, Published, Closing, Ticking

LEMMA InitSession == Init => SessionInv
<1> SUFFICES ASSUME Init PROVE SessionInv
  OBVIOUS
<1> USE DEF Init
<1>1. JobInv /\ PlaceInv
  BY DEF JobInv, PlaceInv, JobKinds
<1>2. DirectInv /\ StatusInv /\ OnlineInv /\ LockInv
  BY DEF DirectInv, Recorded, StatusInv, Agrees, OnlineInv, LockInv
<1>3. FateInv /\ EngineInv
  BY DEF FateInv, EngineInv, NoEngineLeft
<1>4. OpenedInv
  BY DEF OpenedInv, FailedOpenIsNoneOrWhole
<1> QED
  BY <1>1, <1>2, <1>3, <1>4 DEF SessionInv

(* The number of a wallet and the count of jobs are numbers.               *)
LEMMA Numbers == ASSUME TypeOK PROVE m_wallet \in Nat /\ served \in Nat
  BY Bounds DEF TypeOK, WorkerTypes, FieldTypes, WalletIds

-----------------------------------------------------------------------------
(* Whose job it is, and whether a wallet is there.                         *)

LEMMA StepPlaces ==
  ASSUME TypeOK, RouteInv, JobInv, PlaceInv, [Next]_vars
  PROVE  JobInv' /\ PlaceInv'
<1> USE Numbers DEF JobInv, PlaceInv, JobKinds
<1>1. CASE NewJob
  <2>1. PICK k \in Kinds : BeginJob(k)
    BY <1>1 DEF NewJob
  <2>2. k \in JobKinds /\ pc' = k /\ job' = k /\ served' = served + 1 /\ m_locksReset'
    BY <2>1, EngineAssumption DEF EngineAssumption, BeginJob, ResetLocksOnce
  <2>3. UNCHANGED m_wallet
    BY <2>1 DEF BeginJob
  <2> QED
    BY <2>2, <2>3
<1>2. CASE BeginTick
  BY <1>2 DEF BeginTick, ResetLocksOnce
<1>3. CASE Settle
  BY <1>3 DEF Settle
<1>4. CASE OpenSteps
  <2> USE DEF SetState, Thrown, OpenFails
  <2>1. CASE OpenCheck
    BY <2>1 DEF OpenCheck
  <2>2. CASE OpenEngine
    BY <2>2 DEF OpenEngine
  <2>3. CASE OpenInit \/ OpenConnect
    BY <2>3 DEF OpenInit, OpenConnect
  <2>4. CASE OpenPublish
    BY <2>4 DEF OpenPublish
  <2>5. CASE OpenRecord \/ OpenNotify \/ OpenSyncing
    BY <2>5 DEF OpenRecord, OpenNotify, OpenSyncing
  <2> QED
    BY <1>4, <2>1, <2>2, <2>3, <2>4, <2>5 DEF OpenSteps
<1>5. CASE CloseSteps
  <2> USE DEF SetState, Thrown
  <2>1. CASE CloseBegin
    BY <2>1 DEF CloseBegin
  <2>2. CASE CloseEngine \/ CloseJoin \/ CloseRecord
    BY <2>2 DEF CloseEngine, CloseJoin, CloseRecord
  <2>3. CASE CloseNotify \/ CloseFinal
    BY <2>3 DEF CloseNotify, CloseFinal
  <2> QED
    BY <1>5, <2>1, <2>2, <2>3 DEF CloseSteps
<1>6. CASE TxSteps
  <2>1. CASE Rescan
    BY <2>1 DEF Rescan, SetState, Thrown
  <2>2. CASE CreateTransaction
    BY <2>2 DEF CreateTransaction
  <2>3. CASE CommitTransaction
    BY <2>3 DEF CommitTransaction
  <2>4. CASE DisposeTransaction \/ ChangePassword
    BY <2>4 DEF DisposeTransaction, ChangePassword
  <2> QED
    BY <1>6, <2>1, <2>2, <2>3, <2>4 DEF TxSteps
<1>7. CASE TickSteps
  <2> USE DEF SetState, Thrown
  <2>1. CASE TickRead
    <3>1. /\ pc' \in {"move", "tick_ask", "tick_flip", "idle"} /\ pc = "tick" /\ m_wallet # NoWallet
          /\ UNCHANGED <<job, served, session, locks>>
      BY <2>1 DEF TickRead
    <3> QED
      BY <3>1
  <2>2. CASE TickAsk \/ MoveResolve
    BY <2>2 DEF TickAsk, MoveResolve
  <2>3. CASE TickEnd
    BY <2>3 DEF TickEnd
  <2>4. CASE MoveOffline \/ MoveWait \/ MoveInit
    BY <2>4 DEF MoveOffline, MoveWait, MoveInit
  <2>5. CASE MoveRecord \/ MoveEmit
    BY <2>5 DEF MoveRecord, MoveEmit
  <2> QED
    BY <1>7, <2>1, <2>2, <2>3, <2>4, <2>5 DEF TickSteps
<1>8. CASE ShutdownSteps
  BY <1>8 DEF ShutdownSteps, ShutdownClose, ShutdownJoin
<1>9. CASE RequestStart \/ RequestDone \/ Elapse \/ Stop \/ UNCHANGED vars
  BY <1>9 DEF RequestStart, RequestDone, Elapse, Stop, vars
<1>10. CASE Restart
  BY <1>10 DEF Restart
<1> QED
  BY <1>1, <1>2, <1>3, <1>4, <1>5, <1>6, <1>7, <1>8, <1>9, <1>10 DEF Next, Worker

-----------------------------------------------------------------------------
(* State and route.                                                        *)

LEMMA StepStatus ==
  ASSUME TypeOK, RouteInv, PlaceInv, StatusInv, [Next]_vars
  PROVE  StatusInv'
<1> SUFFICES ASSUME ~EmitMayFail, ~EngineMayThrow
             PROVE  /\ pc' \in Opening \cup {"close_notify", "close_final"} => m_route' = "direct"
                    /\ pc' \notin Opening \cup Published \cup Closing \cup {"stopped"} => Agrees'
  BY FaultsStay DEF StatusInv, EmitMayFail, EngineMayThrow
<1>1. /\ pc \in Opening \cup {"close_notify", "close_final"} => m_route = "direct"
      /\ pc \notin Opening \cup Published \cup Closing \cup {"stopped"} => Agrees
      /\ pc \in Opening \cup Closing => m_wallet = NoWallet
      /\ pc \in Published \cup Ticking => m_wallet # NoWallet
  BY DEF StatusInv, PlaceInv, RouteInv, OpenInv, CloseInv
<1> USE <1>1 DEF Agrees, JobKinds
<1>2. CASE NewJob
  <2>1. pc' \in JobKinds /\ UNCHANGED <<session, m_state>> /\ pc = "idle"
    BY <1>2, EngineAssumption DEF NewJob, BeginJob, EngineAssumption
  <2> QED
    BY <2>1
<1>3. CASE BeginTick \/ Settle
  BY <1>3 DEF BeginTick, Settle
<1>4. CASE OpenSteps
  <2> USE DEF SetState, OpenFails
  <2>1. CASE OpenCheck
    BY <2>1 DEF OpenCheck
  <2>2. CASE OpenEngine
    BY <2>2 DEF OpenEngine
  <2>3. CASE OpenInit \/ OpenConnect
    BY <2>3 DEF OpenInit, OpenConnect
  <2>4. CASE OpenPublish \/ OpenRecord \/ OpenNotify \/ OpenSyncing
    BY <2>4 DEF OpenPublish, OpenRecord, OpenNotify, OpenSyncing
  <2> QED
    BY <1>4, <2>1, <2>2, <2>3, <2>4 DEF OpenSteps
<1>5. CASE CloseSteps
  <2> USE DEF SetState
  <2>1. CASE CloseBegin
    BY <2>1 DEF CloseBegin
  <2>2. CASE CloseEngine \/ CloseJoin \/ CloseRecord
    BY <2>2 DEF CloseEngine, CloseJoin, CloseRecord
  <2>3. CASE CloseNotify \/ CloseFinal
    BY <2>3 DEF CloseNotify, CloseFinal
  <2> QED
    BY <1>5, <2>1, <2>2, <2>3 DEF CloseSteps
<1>6. CASE TxSteps
  <2>1. CASE Rescan
    BY <2>1 DEF Rescan, SetState
  <2>2. CASE CreateTransaction \/ CommitTransaction
    BY <2>2 DEF CreateTransaction, CommitTransaction
  <2>3. CASE DisposeTransaction \/ ChangePassword
    BY <2>3 DEF DisposeTransaction, ChangePassword
  <2> QED
    BY <1>6, <2>1, <2>2, <2>3 DEF TxSteps
<1>7. CASE TickSteps
  <2> USE DEF SetState
  <2>1. CASE TickRead
    <3>1. /\ pc' \in {"move", "tick_ask", "tick_flip", "idle"} /\ pc = "tick"
          /\ UNCHANGED <<m_state, session>>
      BY <2>1 DEF TickRead
    <3> QED
      BY <3>1
  <2>2. CASE TickAsk \/ MoveResolve
    BY <2>2 DEF TickAsk, MoveResolve
  <2>3. CASE TickEnd
    BY <2>3 DEF TickEnd
  <2>4. CASE MoveOffline \/ MoveWait \/ MoveInit
    BY <2>4 DEF MoveOffline, MoveWait, MoveInit
  <2>5. CASE MoveRecord \/ MoveEmit
    BY <2>5 DEF MoveRecord, MoveEmit
  <2> QED
    BY <1>7, <2>1, <2>2, <2>3, <2>4, <2>5 DEF TickSteps
<1>8. CASE ShutdownSteps \/ Restart
  BY <1>8 DEF ShutdownSteps, ShutdownClose, ShutdownJoin, Restart
<1>9. CASE RequestStart \/ RequestDone \/ Elapse \/ Stop \/ UNCHANGED vars
  BY <1>9 DEF RequestStart, RequestDone, Elapse, Stop, vars
<1> QED
  BY <1>2, <1>3, <1>4, <1>5, <1>6, <1>7, <1>8, <1>9 DEF Next, Worker
(* A direct wallet is dialled in the clear, and stays so.                  *)
LEMMA StepDirect ==
  ASSUME TypeOK, RouteInv, DirectInv, [Next]_vars
  PROVE  DirectInv'
<1> USE DEF DirectInv, Recorded, RouteInv, OpenInv, CloseInv, MoveInv, JobKinds
<1>1. CASE OpenRecord
  <2>1. RouteFor(node) = "direct" => DialFor(node).via = "clear"
    BY DEF DialFor, ViaOf
  <2> QED
    BY <1>1, <2>1 DEF OpenRecord, Dialled
<1>2. CASE OpenSteps /\ ~OpenRecord
  <2> USE DEF SetState, Thrown, OpenFails, NoEngine
  <2>1. CASE OpenCheck \/ OpenEngine
    BY <2>1 DEF OpenCheck, OpenEngine
  <2>2. CASE OpenInit \/ OpenConnect
    BY <2>2 DEF OpenInit, OpenConnect
  <2>3. CASE OpenPublish \/ OpenNotify \/ OpenSyncing
    BY <2>3 DEF OpenPublish, OpenNotify, OpenSyncing
  <2> QED
    BY <1>2, <2>1, <2>2, <2>3 DEF OpenSteps
<1>3. CASE CloseSteps
  <2> USE DEF SetState
  <2>1. CASE CloseBegin
    BY <2>1 DEF CloseBegin
  <2>2. CASE CloseEngine \/ CloseJoin \/ CloseRecord
    BY <2>2 DEF CloseEngine, CloseJoin, CloseRecord
  <2>3. CASE CloseNotify \/ CloseFinal
    BY <2>3 DEF CloseNotify, CloseFinal
  <2> QED
    BY <1>3, <2>1, <2>2, <2>3 DEF CloseSteps
<1>4. CASE MoveInit \/ MoveRecord
  BY <1>4 DEF MoveInit, MoveRecord
<1>5. CASE ShutdownJoin \/ Restart
  BY <1>5 DEF ShutdownJoin, Restart
<1>6. CASE UNCHANGED <<session, dial>>
  BY <1>1, <1>5, <1>6, RecordFollows
<1>7. CASE \/ Rescan \/ CreateTransaction \/ CommitTransaction \/ ChangePassword
           \/ MoveOffline \/ RequestStart \/ RequestDone \/ Elapse \/ ShutdownClose
  BY <1>6, <1>7
  DEF Rescan, CreateTransaction, CommitTransaction, ChangePassword, MoveOffline,
      RequestStart, RequestDone, Elapse, ShutdownClose
<1>8. CASE UNCHANGED wallet2 /\ UNCHANGED session
  BY <1>6, <1>8
<1>9. CASE NoEngine
  <2>1. \/ OpenSteps \/ CloseSteps \/ ShutdownJoin \/ Restart
        \/ UNCHANGED <<session, dial>> \/ MoveInit \/ MoveRecord
    BY <1>6
    DEF vars, Next, NewJob, BeginJob, Worker, BeginTick, Settle, TxSteps, TickSteps,
        ShutdownSteps, Rescan, CreateTransaction, CommitTransaction,
        DisposeTransaction, ChangePassword, TickRead, TickAsk, TickEnd, MoveResolve,
        MoveOffline, MoveWait, MoveEmit, RequestStart, RequestDone, Elapse,
        ShutdownClose, Stop
  <2> QED
    BY <1>1, <1>2, <1>3, <1>4, <1>5, <1>6, <2>1
<1> QED
  BY <1>1, <1>2, <1>3, <1>4, <1>5, <1>7, <1>8, <1>9, EngineFrame, SessionFrame
  DEF OpenSteps, CloseSteps
-----------------------------------------------------------------------------
(* Refresh.                                                                *)

LEMMA StepOnline ==
  ASSUME TypeOK, RouteInv, PlaceInv, OnlineInv, [Next]_vars
  PROVE  OnlineInv'
<1> DEFINE Away     == {"open_record", "move_wait", "move_init", "parked", "stopping", "stopped"}
           Online   == m_wallet # NoWallet /\ m_route # "waiting_for_tor" /\ pc \notin Away
                         => refreshing /\ ~offline
           Recording == pc = "open_record" => refreshing \/ RouteFor(node) = "waiting_for_tor"
           Resumed  == pc = "moved" => refreshing /\ ~offline
<1> SUFFICES ASSUME ~EngineMayThrow
             PROVE  Online' /\ Recording' /\ Resumed'
  BY FaultsStay DEF OnlineInv, EngineMayThrow
<1>1. /\ Online /\ Recording /\ Resumed
      /\ pc \in Opening \cup Closing => m_wallet = NoWallet
      /\ pc \in Published \cup Ticking => m_wallet # NoWallet
  BY DEF OnlineInv, PlaceInv, RouteInv, OpenInv, CloseInv
<1> USE <1>1 DEF JobKinds
<1>2. CASE NewJob
  <2>1. pc' \in JobKinds /\ UNCHANGED <<session, wallet2>> /\ pc = "idle"
    BY <1>2, EngineAssumption DEF NewJob, BeginJob, EngineAssumption
  <2> QED
    BY <2>1
<1>3. CASE BeginTick \/ Settle
  BY <1>3 DEF BeginTick, Settle
<1>4. CASE OpenSteps
  <2> USE DEF SetState, OpenFails, Thrown, NoEngine
  <2>1. CASE OpenCheck
    BY <2>1 DEF OpenCheck
  <2>2. CASE OpenEngine
    BY <2>2 DEF OpenEngine
  <2>3. CASE OpenInit \/ OpenConnect
    BY <2>3 DEF OpenInit, OpenConnect
  <2>4. CASE OpenPublish
    BY <2>4 DEF OpenPublish
  <2>5. CASE OpenRecord
    BY <2>5 DEF OpenRecord, RouteInv, OpenInv, Dialled
  <2>6. CASE OpenNotify \/ OpenSyncing
    <3>1. /\ pc \in {"open_notify", "open_syncing"} /\ UNCHANGED <<session, wallet2>>
          /\ pc' \in {"open_syncing", "done", Thrown}
      BY <2>6 DEF OpenNotify, OpenSyncing
    <3> QED
      BY <3>1
  <2> QED
    BY <1>4, <2>1, <2>2, <2>3, <2>4, <2>5, <2>6 DEF OpenSteps
<1>5. CASE CloseSteps
  <2> USE DEF SetState, Thrown
  <2>1. CASE CloseBegin
    BY <2>1 DEF CloseBegin
  <2>2. CASE CloseEngine \/ CloseJoin \/ CloseRecord
    BY <2>2 DEF CloseEngine, CloseJoin, CloseRecord
  <2>3. CASE CloseNotify \/ CloseFinal
    BY <2>3 DEF CloseNotify, CloseFinal
  <2> QED
    BY <1>5, <2>1, <2>2, <2>3 DEF CloseSteps
<1>6. CASE TxSteps
  <2>1. CASE Rescan
    BY <2>1 DEF Rescan, SetState, Thrown
  <2>2. CASE CreateTransaction \/ CommitTransaction
    <3>1. /\ pc \in {"create_transaction", "commit_transaction"} /\ pc' \in {"done", "failed"}
          /\ UNCHANGED <<session, offline>> /\ (refreshing => refreshing')
      BY <2>2, TypeOK DEF CreateTransaction, CommitTransaction, TypeOK, EngineTypes
    <3> QED
      BY <3>1
  <2>3. CASE DisposeTransaction
    BY <2>3 DEF DisposeTransaction
  <2>4. CASE ChangePassword
    BY <2>4 DEF ChangePassword
  <2> QED
    BY <1>6, <2>1, <2>2, <2>3, <2>4 DEF TxSteps
<1>7. CASE TickSteps
  <2> USE DEF SetState, Thrown
  <2>1. CASE TickRead
    <3>1. /\ pc' \in {"move", "tick_ask", "tick_flip", "idle"} /\ pc = "tick"
          /\ UNCHANGED <<session, wallet2>>
      BY <2>1 DEF TickRead
    <3> QED
      BY <3>1
  <2>2. CASE TickAsk \/ MoveResolve
    BY <2>2 DEF TickAsk, MoveResolve
  <2>3. CASE TickEnd
    BY <2>3 DEF TickEnd
  <2>4. CASE MoveOffline \/ MoveWait
    BY <2>4 DEF MoveOffline, MoveWait
  <2>5. CASE MoveInit
    BY <2>5 DEF MoveInit, Resume
  <2>6. CASE MoveRecord \/ MoveEmit
    BY <2>6 DEF MoveRecord, MoveEmit
  <2> QED
    BY <1>7, <2>1, <2>2, <2>3, <2>4, <2>5, <2>6 DEF TickSteps
<1>8. CASE ShutdownSteps \/ Restart
  BY <1>8 DEF ShutdownSteps, ShutdownClose, ShutdownJoin, Restart
<1>9. CASE RequestStart \/ RequestDone \/ Elapse \/ Stop \/ UNCHANGED vars
  BY <1>9 DEF RequestStart, RequestDone, Elapse, Stop, vars
<1> QED
  BY <1>2, <1>3, <1>4, <1>5, <1>6, <1>7, <1>8, <1>9 DEF Next, Worker
-----------------------------------------------------------------------------
(* Locks.                                                                  *)

(* From the notice of an open to that of its close, between which nothing  *)
(* is said.                                                                *)
Holding ==
  \/ m_wallet # NoWallet /\ pc \notin {"open_record", "open_notify"}
  \/ pc \in Closing \ {"close_final"}

(* Nothing but a notice changes what the node module holds.                *)
LEMMA LockFrame ==
  [Next]_vars =>
    UNCHANGED locks \/ NewJob \/ BeginTick \/ OpenNotify \/ CloseNotify \/ Restart
  BY DEF vars, Next, Worker, Settle, OpenSteps, CloseSteps, TxSteps, TickSteps,
         ShutdownSteps, OpenCheck, OpenEngine, OpenInit, OpenConnect, OpenPublish,
         OpenRecord, OpenSyncing, CloseBegin, CloseEngine, CloseJoin, CloseRecord,
         CloseFinal, Rescan, CreateTransaction, CommitTransaction,
         DisposeTransaction, ChangePassword, TickRead, TickAsk, TickEnd,
         MoveResolve, MoveOffline, MoveWait, MoveInit, MoveRecord, MoveEmit,
         RequestStart, RequestDone, Elapse, ShutdownClose, ShutdownJoin, Stop

(* A wallet is held, or not, across every step that says nothing.          *)
LEMMA HoldingStays ==
  ASSUME RouteInv, PlaceInv, [Next]_vars, UNCHANGED locks, ~EngineMayThrow,
         ~Restart, ~OpenRecord, pc # "stopped", pc' # "stopped", pc # "close_notify",
         pc # "open_notify"
  PROVE  (Holding' <=> Holding) /\ UNCHANGED m_network /\ pc' # "open_notify"
<1>1. /\ pc \in Opening \cup Closing => m_wallet = NoWallet
      /\ pc \in Published \cup Ticking => m_wallet # NoWallet
  BY DEF PlaceInv, RouteInv, OpenInv, CloseInv
<1> USE <1>1 DEF Holding, JobKinds
<1>2. CASE NewJob
  <2>1. pc' \in JobKinds /\ UNCHANGED session /\ pc = "idle"
    BY <1>2, EngineAssumption DEF NewJob, BeginJob, EngineAssumption
  <2> QED
    BY <2>1
<1>3. CASE BeginTick \/ Settle
  BY <1>3 DEF BeginTick, Settle
<1>4. CASE OpenSteps
  <2> USE DEF SetState, OpenFails, Thrown
  <2>1. CASE OpenCheck
    BY <2>1 DEF OpenCheck
  <2>2. CASE OpenEngine
    BY <2>2 DEF OpenEngine
  <2>3. CASE OpenInit \/ OpenConnect
    BY <2>3 DEF OpenInit, OpenConnect
  <2>4. CASE OpenPublish
    BY <2>4 DEF OpenPublish
  <2>5. CASE OpenSyncing
    BY <2>5 DEF OpenSyncing
  <2>6. CASE OpenNotify
    BY <2>6 DEF OpenNotify
  <2> QED
    BY <1>4, <2>1, <2>2, <2>3, <2>4, <2>5, <2>6 DEF OpenSteps
<1>5. CASE CloseSteps
  <2> USE DEF SetState, Thrown
  <2>1. CASE CloseBegin
    BY <2>1 DEF CloseBegin
  <2>2. CASE CloseEngine \/ CloseJoin \/ CloseRecord
    BY <2>2 DEF CloseEngine, CloseJoin, CloseRecord
  <2>3. CASE CloseFinal
    BY <2>3 DEF CloseFinal
  <2>4. CASE CloseNotify
    BY <2>4 DEF CloseNotify
  <2> QED
    BY <1>5, <2>1, <2>2, <2>3, <2>4 DEF CloseSteps
<1>6. CASE TxSteps
  <2>1. CASE Rescan
    BY <2>1 DEF Rescan, SetState, Thrown
  <2>2. CASE CreateTransaction \/ CommitTransaction
    <3>1. /\ pc \in {"create_transaction", "commit_transaction"}
          /\ pc' \in {"done", "failed"} /\ UNCHANGED session
      BY <2>2 DEF CreateTransaction, CommitTransaction
    <3> QED
      BY <3>1
  <2>3. CASE DisposeTransaction \/ ChangePassword
    BY <2>3 DEF DisposeTransaction, ChangePassword
  <2> QED
    BY <1>6, <2>1, <2>2, <2>3 DEF TxSteps
<1>7. CASE TickSteps
  <2> USE DEF SetState, Thrown
  <2>1. CASE TickRead
    <3>1. /\ pc' \in {"move", "tick_ask", "tick_flip", "idle"} /\ pc = "tick"
          /\ UNCHANGED session
      BY <2>1 DEF TickRead
    <3> QED
      BY <3>1
  <2>2. CASE TickAsk \/ MoveResolve
    BY <2>2 DEF TickAsk, MoveResolve
  <2>3. CASE TickEnd
    BY <2>3 DEF TickEnd
  <2>4. CASE MoveOffline \/ MoveWait \/ MoveInit
    BY <2>4 DEF MoveOffline, MoveWait, MoveInit
  <2>5. CASE MoveRecord \/ MoveEmit
    BY <2>5 DEF MoveRecord, MoveEmit
  <2> QED
    BY <1>7, <2>1, <2>2, <2>3, <2>4, <2>5 DEF TickSteps
<1>8. CASE ShutdownSteps
  BY <1>8 DEF ShutdownSteps, ShutdownClose, ShutdownJoin
<1>9. CASE RequestStart \/ RequestDone \/ Elapse \/ Stop \/ UNCHANGED vars
  BY <1>9 DEF RequestStart, RequestDone, Elapse, Stop, vars
<1> QED
  BY <1>2, <1>3, <1>4, <1>5, <1>6, <1>7, <1>8, <1>9 DEF Next, Worker

LEMMA StepLocks ==
  ASSUME TypeOK, RouteInv, PlaceInv, LockInv, [Next]_vars
  PROVE  LockInv'
<1> DEFINE Mirror == \A n \in Networks : nodeLock[n] <=> n = m_network /\ Holding
<1> SUFFICES ASSUME ~NotifyMayFail, ~EngineMayThrow, m_locksReset'
             PROVE  /\ pc' = "open_notify" => net' = m_network'
                    /\ pc' # "stopped" => Mirror'
  BY FaultsStay DEF LockInv, NotifyMayFail, EngineMayThrow, Holding
<1>1. /\ m_locksReset =>
           /\ pc = "open_notify" => net = m_network
           /\ pc # "stopped" => Mirror
      /\ nodeLock \in [Networks -> BOOLEAN] /\ m_network \in Networks /\ net \in Networks
  BY DEF LockInv, Holding, TypeOK, FieldTypes, WorkerTypes
<1>2. CASE NewJob \/ BeginTick
  <2>1. /\ ResetLocksOnce /\ pc = "idle" /\ UNCHANGED session /\ pc' \in JobKinds \cup {"tick"}
    BY <1>2, EngineAssumption DEF NewJob, BeginJob, BeginTick, EngineAssumption
  <2>2. (Holding' <=> Holding) /\ pc' \notin {"open_notify", "stopped"}
    BY <2>1 DEF Holding, JobKinds
  <2>3. CASE m_locksReset
    BY <1>1, <2>1, <2>2, <2>3 DEF ResetLocksOnce
  <2>4. CASE ~m_locksReset
    <3>1. ~Holding
      BY <2>1, <2>4 DEF PlaceInv, Holding
    <3>2. nodeLock' = [n \in Networks |-> FALSE]
      BY <2>1, <2>4 DEF ResetLocksOnce
    <3> QED
      BY <2>2, <3>1, <3>2
  <2> QED
    BY <2>3, <2>4
<1>3. CASE OpenNotify
  <2>1. /\ nodeLock' = [nodeLock EXCEPT ![net] = TRUE] /\ m_locksReset /\ pc = "open_notify"
        /\ UNCHANGED session /\ pc' = "open_syncing"
    BY <1>3 DEF OpenNotify, NotifyOpen
  <2>2. Holding' /\ ~Holding
    BY <2>1 DEF Holding, PlaceInv
  <2> QED
    BY <1>1, <2>1, <2>2
<1>4. CASE CloseNotify
  <2>1. /\ nodeLock' = [nodeLock EXCEPT ![m_network] = FALSE] /\ m_locksReset
        /\ pc = "close_notify" /\ UNCHANGED session /\ pc' = "close_final"
    BY <1>4 DEF CloseNotify, NotifyOpen
  <2>2. ~Holding'
    BY <2>1 DEF Holding, RouteInv, CloseInv
  <2> QED
    BY <1>1, <2>1, <2>2
<1>5. CASE Restart
  BY <1>5 DEF Restart
<1>6. CASE OpenRecord
  <2>1. /\ UNCHANGED <<locks, net>> /\ pc = "open_record" /\ pc' = "open_notify"
        /\ m_network' = net
    BY <1>6 DEF OpenRecord
  <2>2. ~Holding /\ ~Holding'
    BY <2>1 DEF Holding
  <2> QED
    BY <1>1, <2>1, <2>2
<1>7. CASE UNCHANGED locks /\ ~OpenRecord /\ ~OpenNotify /\ ~CloseNotify /\ ~Restart
  <2>1. CASE pc = "stopped"
    BY <1>7, <2>1, StoppedStays
  <2>2. CASE pc' = "stopped"
    BY <2>2
  <2>3. CASE pc \in {"open_notify", "close_notify"}
    <3>1. pc' = pc /\ UNCHANGED <<net, session>>
      BY <1>7, <2>3
      DEF vars, Next, NewJob, BeginJob, Worker, BeginTick, Settle, OpenSteps,
          CloseSteps, TxSteps, TickSteps, ShutdownSteps, OpenCheck, OpenEngine,
          OpenInit, OpenConnect, OpenPublish, OpenSyncing, OpenFails, CloseBegin,
          CloseEngine, CloseJoin, CloseRecord, CloseFinal, Rescan,
          CreateTransaction, CommitTransaction, DisposeTransaction,
          ChangePassword, TickRead, TickAsk, TickEnd, MoveResolve, MoveOffline,
          MoveWait, MoveInit, MoveRecord, MoveEmit, RequestStart, RequestDone,
          Elapse, ShutdownClose, ShutdownJoin, Stop, SetState
    <3> QED
      BY <1>1, <1>7, <2>3, <3>1 DEF Holding
  <2>4. CASE pc \notin {"stopped", "open_notify", "close_notify"} /\ pc' # "stopped"
    <3>1. (Holding' <=> Holding) /\ UNCHANGED m_network /\ pc' # "open_notify"
      BY <1>7, <2>4, HoldingStays
    <3> QED
      BY <1>1, <1>7, <2>4, <3>1
  <2> QED
    BY <2>1, <2>2, <2>3, <2>4
<1> QED
  BY <1>2, <1>3, <1>4, <1>5, <1>6, <1>7, LockFrame
-----------------------------------------------------------------------------
(* Broadcasts, opens that fail, and what is left of wallet2.               *)

LEMMA StepFate ==
  ASSUME TypeOK, FateInv, [Next]_vars
  PROVE  FateInv'
<1>1. /\ m_pendingTx \in [TxHandles -> WalletIds] /\ fate \in [TxHandles -> Fates]
      /\ TxHandles \subseteq Nat /\ m_nextTx \in Nat
      /\ ReplyMayBeLost' <=> ReplyMayBeLost
      /\ EngineMayThrow' <=> EngineMayThrow
  BY Bounds, FaultsStay DEF TypeOK, SendTypes, TxHandles, ReplyMayBeLost, EngineMayThrow
<1> USE <1>1 DEF FateInv
<1>2. CASE UNCHANGED sends
  BY <1>2
<1>3. CASE OpenRecord
  BY <1>3 DEF OpenRecord
<1>4. CASE CloseBegin
  BY <1>4 DEF CloseBegin, ClearPendingTx
<1>5. CASE CreateTransaction
  <2>1. UNCHANGED fate
    BY <1>5 DEF CreateTransaction
  <2>2. CASE UNCHANGED <<m_pendingTx, m_nextTx>>
    BY <2>1, <2>2
  <2>3. CASE /\ m_nextTx \in TxHandles /\ m_nextTx' = m_nextTx + 1
             /\ m_pendingTx' = [m_pendingTx EXCEPT ![m_nextTx] = m_wallet]
    BY <2>1, <2>3
  <2> QED
    BY <1>5, <2>2, <2>3 DEF CreateTransaction
<1>6. CASE CommitTransaction
  <2>1. UNCHANGED m_nextTx
    BY <1>6 DEF CommitTransaction
  <2>2. CASE UNCHANGED <<m_pendingTx, fate>>
    BY <2>1, <2>2
  <2>3. CASE ~UNCHANGED <<m_pendingTx, fate>>
    <3>1. PICK h \in TxHandles :
            /\ m_pendingTx[h] # NoWallet
            /\ \/ Broadcast(h, "sent") /\ EraseHandle(h)
               \/ /\ (ReplyMayBeLost \/ EngineMayThrow) /\ Broadcast(h, "unsure")
                  /\ UNCHANGED m_pendingTx \/ EraseHandle(h)
      BY <1>6, <2>3 DEF CommitTransaction
    <3>2. /\ fate[h] \in {"unsent", "unsure"} /\ h \in Nat /\ h < m_nextTx
          /\ m_pendingTx' = m_pendingTx \/ EraseHandle(h)
      BY <3>1 DEF Fates
    <3>3. CASE Broadcast(h, "sent") /\ EraseHandle(h)
      <4>1. fate' = [fate EXCEPT ![h] = "sent"]
        BY <3>2, <3>3 DEF Broadcast
      <4> QED
        BY <2>1, <3>2, <3>3, <4>1 DEF EraseHandle
    <3>4. CASE (ReplyMayBeLost \/ EngineMayThrow) /\ Broadcast(h, "unsure")
      <4>1. fate' = [fate EXCEPT ![h] = "unsure"]
        BY <3>2, <3>4 DEF Broadcast
      <4> QED
        BY <2>1, <3>2, <3>4, <4>1 DEF EraseHandle
    <3> QED
      BY <3>1, <3>3, <3>4
  <2> QED
    BY <2>2, <2>3
<1>7. CASE DisposeTransaction
  BY <1>7 DEF DisposeTransaction, EraseHandle
<1>8. CASE Restart
  BY <1>8 DEF Restart
<1> QED
  BY <1>2, <1>3, <1>4, <1>5, <1>6, <1>7, <1>8, SendFrame

(* Nobody but the open itself changes what its wallet is known by.         *)
LEMMA StepOpened ==
  ASSUME TypeOK, RouteInv, JobInv, PlaceInv, OpenedInv, [Next]_vars
  PROVE  OpenedInv'
<1>1. /\ pc \in Opening => m_wallet = NoWallet
      /\ EmitMayFail' <=> EmitMayFail
      /\ EngineMayThrow' <=> EngineMayThrow
      /\ NotifyMayFail' <=> NotifyMayFail
      /\ Dialled' <=> dial' = DialFor(node') /\ offline' = (RouteFor(node') = "waiting_for_tor")
  BY FaultsStay
  DEF RouteInv, OpenInv, EmitMayFail, EngineMayThrow, NotifyMayFail, Dialled
<1> USE <1>1, Numbers DEF OpenedInv, FailedOpenIsNoneOrWhole, JobInv, PlaceInv, JobKinds
<1>2. CASE NewJob
  <2>1. pc' \in JobKinds
    BY <1>2, EngineAssumption DEF NewJob, BeginJob, EngineAssumption
  <2> QED
    BY <2>1
<1>3. CASE BeginTick \/ Settle \/ ShutdownSteps \/ Restart
  BY <1>3 DEF BeginTick, Settle, ShutdownSteps, ShutdownClose, ShutdownJoin, Restart
<1>4. CASE OpenSteps
  <2> USE DEF SetState, OpenFails, Thrown
  <2>1. CASE OpenCheck
    BY <2>1 DEF OpenCheck
  <2>2. CASE OpenEngine
    BY <2>2 DEF OpenEngine
  <2>3. CASE OpenInit
    BY <2>3 DEF OpenInit
  <2>4. CASE OpenConnect
    BY <2>4 DEF OpenConnect
  <2>5. CASE OpenPublish
    BY <2>5 DEF OpenPublish, RouteInv, OpenInv, Dialled
  <2>6. CASE OpenRecord
    BY <2>6 DEF OpenRecord, Dialled
  <2>7. CASE OpenNotify
    <3>1. NotifyMayFail \/ nodeLock'[net]
      BY <2>7 DEF OpenNotify, NotifyOpen, TypeOK, FieldTypes, WorkerTypes
    <3> QED
      BY <2>7, <3>1 DEF OpenNotify, Dialled
  <2>8. CASE OpenSyncing
    BY <2>8 DEF OpenSyncing, Dialled
  <2> QED
    BY <1>4, <2>1, <2>2, <2>3, <2>4, <2>5, <2>6, <2>7, <2>8 DEF OpenSteps
<1>5. CASE CloseSteps
  <2>1. /\ pc \in Closing \cup {"close_wallet"} /\ UNCHANGED job
        /\ pc' \in Closing \cup {"failed", "done", "idle"}
    BY <1>5 DEF CloseSteps, CloseBegin, CloseEngine, CloseJoin, CloseRecord,
       CloseNotify, CloseFinal, SetState, Thrown
  <2> QED
    BY <2>1
<1>6. CASE TxSteps
  <2>1. /\ pc \in JobKinds \ {"open"} /\ UNCHANGED job
        /\ pc' \in {"failed", "done", "idle"}
    BY <1>6 DEF TxSteps, Rescan, CreateTransaction, CommitTransaction,
       DisposeTransaction, ChangePassword, SetState, Thrown
  <2> QED
    BY <2>1
<1>7. CASE TickSteps
  <2>1. /\ pc \in Ticking \cup {"tick"} /\ job' \in {job, "none"}
        /\ pc' \in Ticking \cup {"failed", "idle"}
    BY <1>7 DEF TickSteps, TickRead, TickAsk, TickEnd, MoveResolve, MoveOffline,
       MoveWait, MoveInit, MoveRecord, MoveEmit, SetState, Thrown
  <2> QED
    BY <2>1
<1>8. CASE RequestStart \/ RequestDone \/ Elapse \/ Stop \/ UNCHANGED vars
  BY <1>8 DEF RequestStart, RequestDone, Elapse, Stop, vars, Dialled
<1> QED
  BY <1>2, <1>3, <1>4, <1>5, <1>6, <1>7, <1>8 DEF Next, Worker

(* A failing open closes the wallet it has loaded, a close ends it.        *)
LEMMA StepEngine ==
  ASSUME TypeOK, PlaceInv, EngineInv, [Next]_vars
  PROVE  EngineInv'
<1> DEFINE Left == {"open_init", "open_connect", "open_publish", "close_engine", "close_join"}
<1> SUFFICES ASSUME ~EngineMayThrow, m_wallet' = NoWallet, pc' \notin Left
             PROVE  NoEngineLeft'
  BY FaultsStay DEF EngineInv, EngineMayThrow
<1>1. /\ m_wallet = NoWallet /\ pc \notin Left => NoEngineLeft
      /\ pc \in Published \cup Ticking => m_wallet # NoWallet
  BY DEF EngineInv, PlaceInv
<1> USE <1>1 DEF NoEngineLeft, JobKinds
<1>2. CASE NewJob \/ BeginTick \/ Settle
  BY <1>2 DEF NewJob, BeginJob, BeginTick, Settle
<1>3. CASE OpenSteps
  <2> USE DEF SetState, OpenFails, NoEngine, Thrown
  <2>1. CASE OpenCheck \/ OpenEngine
    BY <2>1 DEF OpenCheck, OpenEngine
  <2>2. CASE OpenInit \/ OpenConnect
    BY <2>2 DEF OpenInit, OpenConnect
  <2>3. CASE OpenPublish
    BY <2>3, Numbers DEF OpenPublish, PlaceInv
  <2>4. CASE OpenRecord \/ OpenNotify \/ OpenSyncing
    BY <2>4 DEF OpenRecord, OpenNotify, OpenSyncing
  <2> QED
    BY <1>3, <2>1, <2>2, <2>3, <2>4 DEF OpenSteps
<1>4. CASE CloseSteps
  <2> USE DEF SetState, NoEngine, Thrown
  <2>1. CASE CloseBegin
    BY <2>1 DEF CloseBegin
  <2>2. CASE CloseEngine \/ CloseJoin
    BY <2>2 DEF CloseEngine, CloseJoin
  <2>3. CASE CloseRecord \/ CloseNotify \/ CloseFinal
    <3>1. UNCHANGED <<m_wallet, wallet2>> /\ pc \notin Left
      BY <2>3 DEF CloseRecord, CloseNotify, CloseFinal
    <3> QED
      BY <3>1
  <2> QED
    BY <1>4, <2>1, <2>2, <2>3 DEF CloseSteps
<1>5. CASE TxSteps
  <2>1. /\ UNCHANGED <<m_wallet, dial, inflight>> /\ pc \notin Left
        /\ m_wallet = NoWallet => refreshing' = refreshing
    BY <1>5, TypeOK
    DEF TxSteps, Rescan, CreateTransaction, CommitTransaction, MaySend,
        DisposeTransaction, ChangePassword, SetState, TypeOK, EngineTypes
  <2> QED
    BY <2>1
<1>6. CASE TickSteps
  <2>1. pc \in Ticking \cup {"tick"} /\ UNCHANGED m_wallet
    BY <1>6 DEF TickSteps, TickRead, TickAsk, TickEnd, MoveResolve, MoveOffline,
       MoveWait, MoveInit, MoveRecord, MoveEmit, SetState
  <2>2. CASE pc = "tick"
    <3>1. UNCHANGED wallet2
      BY <1>6, <2>2 DEF TickSteps, TickRead, TickAsk, TickEnd, MoveResolve, MoveOffline,
         MoveWait, MoveInit, MoveRecord, MoveEmit, SetState
    <3> QED
      BY <2>1, <2>2, <3>1
  <2>3. CASE pc # "tick"
    BY <2>1, <2>3
  <2> QED
    BY <2>2, <2>3
<1>7. CASE ShutdownSteps \/ Restart
  BY <1>7, TypeOK
  DEF ShutdownSteps, ShutdownClose, ShutdownJoin, Restart, NoEngine, TypeOK, EngineTypes
<1>8. CASE RequestStart \/ RequestDone \/ Elapse \/ Stop \/ UNCHANGED vars
  BY <1>8 DEF RequestStart, RequestDone, Elapse, Stop, vars
<1> QED
  BY <1>2, <1>3, <1>4, <1>5, <1>6, <1>7, <1>8 DEF Next, Worker

-----------------------------------------------------------------------------
(* The properties of a session.                                            *)

LEMMA StepSession == TypeOK /\ RouteInv /\ SessionInv /\ [Next]_vars => SessionInv'
<1> SUFFICES ASSUME TypeOK, RouteInv, SessionInv, [Next]_vars PROVE SessionInv'
  OBVIOUS
<1>1. JobInv /\ PlaceInv /\ DirectInv /\ StatusInv /\ OnlineInv /\ LockInv /\ FateInv
      /\ OpenedInv /\ EngineInv
  BY DEF SessionInv
<1> QED
  BY <1>1, StepPlaces, StepDirect, StepStatus, StepOnline, StepLocks, StepFate,
     StepOpened, StepEngine
  DEF SessionInv

(* Every step of the worker, of the refresh thread and of the node module, *)
(* an unload and a crash keep the session's invariant.                     *)
THEOREM SessionInductive == Spec => [](TypeOK /\ RouteInv /\ SessionInv)
<1>1. Init => SessionInv
  BY InitSession
<1>2. TypeOK /\ RouteInv /\ SessionInv /\ [Next]_vars => SessionInv'
  BY StepSession
<1> QED
  BY <1>1, <1>2, RoutesInductive, PTL DEF Spec

(* The node module's locks, cleared by resetLocksOnce and set by           *)
(* notifyOpen, are between two jobs those of the wallet that is open,      *)
(* whatever number of networks there is.                                   *)
THEOREM LocksFollow == Spec => []LocksMirrorWallet
<1>1. LockInv => LocksMirrorWallet
  BY DEF LockInv, LocksMirrorWallet
<1> QED
  BY <1>1, SessionInductive, PTL DEF SessionInv

(* status() names a wallet's state when there is one and "no_wallet" when  *)
(* there is none, on every way out of doOpenLike, doClose and tick.        *)
THEOREM StatusAgrees == Spec => []StatusMatchesWallet
<1>1. StatusInv => StatusMatchesWallet
  BY DEF StatusInv, StatusMatchesWallet, Agrees
<1> QED
  BY <1>1, SessionInductive, PTL DEF SessionInv

(* doOpenLike publishes the handle when the wallet is dialled, and by the  *)
(* first call that can fail it after that, the last event or the question  *)
(* whether the wallet is view-only, the rest is in place.                  *)
THEOREM FailedOpens == Spec => []FailedOpenIsNoneOrWhole
<1>1. OpenedInv => FailedOpenIsNoneOrWhole
  BY DEF OpenedInv
<1> QED
  BY <1>1, SessionInductive, PTL DEF SessionInv

(* Every way out of doOpenLike and doClose that wallet2 does not force     *)
(* closes the wallet2 object it had, and what moveToTor and RefreshPause   *)
(* stop, they start again.                                                 *)
THEOREM EngineFits == Spec => []EngineMatchesWallet
<1>1. OnlineInv /\ EngineInv => EngineMatchesWallet
  BY DEF OnlineInv, EngineInv, EngineMatchesWallet, NoEngineLeft
<1> QED
  BY <1>1, SessionInductive, PTL DEF SessionInv

(* doCommit drops the handle of what it reports as sent, and no later      *)
(* handle has its number, also where replies are lost and wallet2 raises.  *)
THEOREM SentOnce == Spec => []ReportedSentOnce
<1>1. FateInv => ReportedSentOnce
  BY DEF FateInv, ReportedSentOnce
<1> QED
  BY <1>1, SessionInductive, PTL DEF SessionInv
-----------------------------------------------------------------------------
(* The contract.                                                           *)

LEMMA PublishFirst ==
  [Next]_vars /\ pc' = "open_record" => pc = "open_record" \/ OpenPublish
<1>1. CASE NewJob
  <2>1. pc' \in JobKinds
    BY <1>1, EngineAssumption DEF NewJob, BeginJob, EngineAssumption
  <2> QED
    BY <2>1 DEF JobKinds
<1>2. CASE [Next]_vars /\ ~NewJob
  BY <1>2
  DEF vars, Next, Worker, BeginTick, Settle, OpenSteps, CloseSteps, TxSteps,
      TickSteps, ShutdownSteps, OpenCheck, OpenEngine, OpenInit, OpenConnect,
      OpenRecord, OpenNotify, OpenSyncing, OpenFails, CloseBegin, CloseEngine,
      CloseJoin, CloseRecord, CloseNotify, CloseFinal, Rescan, CreateTransaction,
      CommitTransaction, DisposeTransaction, ChangePassword, TickRead, TickAsk,
      TickEnd, MoveResolve, MoveOffline, MoveWait, MoveInit, MoveRecord, MoveEmit,
      RequestStart, RequestDone, Elapse, ShutdownClose, ShutdownJoin, Stop,
      Restart, SetState, Thrown
<1> QED
  BY <1>1, <1>2

(* Nothing of a wallet shows that is not recorded.                         *)
LEMMA Unrecorded ==
  /\ ~Recorded  => SessionWallet = NoWallet /\ SessionRoute = "none" /\ SessionSent = {}
  /\ ~Recorded' => SessionWallet' = NoWallet /\ SessionRoute' = "none" /\ SessionSent' = {}
  /\ Recorded  => SessionWallet = m_wallet /\ SessionRoute = m_route /\ SessionSent = sendVias
  /\ Recorded' => SessionWallet' = m_wallet' /\ SessionRoute' = m_route' /\ SessionSent' = sendVias'
  BY DEF SessionWallet, SessionRoute, SessionSent

LEMMA InitContract == Init => Contract!Init
  BY Unrecorded DEF Init, Contract!Init, Contract!Closed, Recorded

(* Every step of the engine is a step of the session, or none of it.       *)
LEMMA StepContract ==
  TypeOK /\ RouteInv /\ SessionInv /\ [Next]_vars => [Contract!Next]_(Contract!vars)
<1> SUFFICES ASSUME TypeOK, RouteInv, SessionInv, [Next]_vars
             PROVE  Contract!Next \/ UNCHANGED <<SessionWallet, SessionRoute, SessionSent>>
  BY DEF Contract!vars
<1>1. PlaceInv /\ DirectInv /\ m_wallet \in 0 .. MaxJobs /\ m_route \in Routes
  BY DEF SessionInv, TypeOK, FieldTypes, WalletIds
<1> USE DEF Contract!Next
<1>2. CASE OpenRecord
  <2>1. ~Recorded /\ Recorded' /\ UNCHANGED m_wallet /\ m_wallet \in 1 .. MaxJobs \ {NoWallet}
    BY <1>1, <1>2 DEF OpenRecord, Recorded, PlaceInv
  <2>2. m_route' \in Contract!TorRoutes \cup {"direct"} /\ sendVias' = {}
    BY <1>2, NodeTypes DEF OpenRecord, Contract!TorRoutes, Routes, TypeOK, WorkerTypes
  <2>3. Contract!Open
    BY <2>1, <2>2, Unrecorded DEF Contract!Open
  <2> QED
    BY <2>3
<1>3. CASE MoveRecord
  <2>1. /\ Recorded /\ Recorded' /\ UNCHANGED <<m_wallet, sendVias>> /\ m_route # "direct"
        /\ m_route' \in {"waiting_for_tor", "tor"}
    BY <1>1, <1>3 DEF MoveRecord, Recorded, PlaceInv, RouteInv, MoveInv
  <2>2. m_route \in Contract!TorRoutes
    BY <1>1, <2>1 DEF Contract!TorRoutes, Routes
  <2>3. Contract!Move
    BY <2>1, <2>2, Unrecorded DEF Contract!Move
  <2> QED
    BY <2>3
<1>4. CASE CreateTransaction \/ CommitTransaction
  <2>1. /\ UNCHANGED session /\ sendVias' \in {sendVias, sendVias \cup {dial.via}}
        /\ Recorded' <=> Recorded
    BY <1>4 DEF CreateTransaction, CommitTransaction, Recorded
  <2>2. CASE UNCHANGED sendVias
    BY <2>1, <2>2, Unrecorded
  <2>3. CASE ~UNCHANGED sendVias
    <3>1. MaySend /\ Recorded /\ sendVias' = sendVias \cup {dial.via}
      BY <1>4, <2>1, <2>3 DEF CreateTransaction, CommitTransaction, MaySend, Recorded
    <3>2. \/ m_route = "direct" /\ dial.via = "clear"
          \/ m_route = "tor" /\ dial.via = "socks"
      BY <1>1, <3>1 DEF MaySend, SendsWaitForTor, Routes, RouteInv, DirectInv
    <3>3. Contract!Send
      BY <2>1, <3>1, <3>2, Unrecorded DEF Contract!Send
    <3> QED
      BY <3>3
  <2> QED
    BY <2>2, <2>3
<1>5. CASE ShutdownJoin \/ Restart
  <2>1. ~Recorded'
    BY <1>5 DEF ShutdownJoin, Restart, Recorded
  <2> QED
    BY <2>1, Unrecorded DEF Contract!Close, Contract!Closed, Recorded
<1>6. CASE CloseBegin
  <2>1. CASE m_wallet' = NoWallet
    <3>1. ~Recorded'
      BY <2>1 DEF Recorded
    <3> QED
      BY <3>1, Unrecorded DEF Contract!Close, Contract!Closed, Recorded
  <2>2. CASE m_wallet' # NoWallet
    <3>1. /\ UNCHANGED <<m_wallet, m_route, sendVias>> /\ pc = "close_wallet"
          /\ pc' \in {"close_engine", Thrown}
      BY <1>6, <2>2 DEF CloseBegin, SetState
    <3>2. pc' # "open_record"
      BY <3>1 DEF Thrown
    <3> QED
      BY <3>1, <3>2, Unrecorded DEF Recorded
  <2> QED
    BY <2>1, <2>2
<1>7. CASE OpenPublish \/ CloseRecord
  <2>1. ~Recorded /\ ~Recorded'
    BY <1>7 DEF OpenPublish, CloseRecord, Recorded, RouteInv, OpenInv, CloseInv
  <2> QED
    BY <2>1, Unrecorded
<1>8. CASE UNCHANGED <<m_wallet, m_route, sendVias>> /\ ~OpenPublish
  <2>1. CASE OpenRecord \/ Restart
    BY <1>2, <1>5, <2>1
  <2>2. CASE ~OpenRecord /\ ~Restart
    <3>1. Recorded' <=> Recorded
      BY <1>8, <2>2, RecordFollows, PublishFirst DEF Recorded
    <3> QED
      BY <1>8, <3>1, Unrecorded
  <2> QED
    BY <2>1, <2>2
<1>9. CASE DisposeTransaction
  BY <1>7, <1>8, <1>9 DEF DisposeTransaction
<1> QED
  BY <1>2, <1>3, <1>4, <1>5, <1>6, <1>7, <1>8, <1>9, SendFrame, SessionFrame

(* WalletEngine implements SessionContract for every bound: whatever the   *)
(* node module answers and whichever call fails, a wallet's route and its  *)
(* sends are what the contract allows.                                     *)
THEOREM ImplementsSession == Spec => KeepsSession
<1>1. Init => Contract!Init
  BY InitContract
<1>2. TypeOK /\ RouteInv /\ SessionInv /\ [Next]_vars => [Contract!Next]_(Contract!vars)
  BY StepContract
<1> QED
  BY <1>1, <1>2, SessionInductive, PTL DEF Spec, KeepsSession, Contract!Spec

-----------------------------------------------------------------------------
(* What the idle tick decides about an open wallet, and when it is right:  *)
(* it gives a catch-up node up only if that node is silent, and moves a    *)
(* route only toward Tor.  The first takes that no rescan is asked for,    *)
(* the second that wallet2 neither raises nor refuses a node; the findings *)
(* doc_rescan_silence and doc_toward_tor show what happens otherwise, and  *)
(* the theorems below that nothing else is in the way.                     *)

(* The height, the time of the last block, and the tick's record of both.  *)
clock == <<m_progressHeight, progressAge, height, blockAge>>

LEMMA ClockFrame ==
  [Next]_vars =>
    \/ UNCHANGED clock
    \/ OpenEngine \/ OpenInit \/ OpenConnect \/ OpenRecord \/ CloseJoin \/ Rescan
    \/ TickRead \/ MoveRecord \/ RequestDone \/ Elapse \/ ShutdownJoin \/ Restart
  BY DEF clock, vars, Next, NewJob, BeginJob, Worker, BeginTick, Settle, OpenSteps,
         CloseSteps, TxSteps, TickSteps, ShutdownSteps, OpenCheck, OpenPublish,
         OpenNotify, OpenSyncing, CloseBegin, CloseEngine, CloseRecord, CloseNotify, CloseFinal, CreateTransaction,
         CommitTransaction, DisposeTransaction, ChangePassword, TickAsk, TickEnd,
         MoveResolve, MoveOffline, MoveWait, MoveInit, MoveEmit, RequestStart,
         ShutdownClose, Stop

-----------------------------------------------------------------------------
(* The catch-up node.                                                      *)

(* The progress on record is that of this wallet and no later than its     *)
(* last block: while the height is still the one on record, the tick has   *)
(* counted no longer than the node has been silent.                        *)
SilenceInv ==
  Recorded =>
    /\ m_progressHeight <= height
    /\ m_progressHeight = height => progressAge <= blockAge

LEMMA NoRescan ==
  ASSUME "rescan" \notin Kinds, pc # "rescan", [Next]_vars
  PROVE  pc' # "rescan"
<1>1. CASE NewJob
  BY <1>1 DEF NewJob, BeginJob
<1>2. CASE TickRead
  <2>1. pc' \in {"move", "tick_ask", "tick_flip", "idle"}
    BY <1>2 DEF TickRead
  <2> QED
    BY <2>1
<1>3. CASE [Next]_vars /\ ~NewJob /\ ~TickRead
  BY <1>3
  DEF vars, Next, Worker, BeginTick, Settle, OpenSteps, CloseSteps, TxSteps,
      TickSteps, ShutdownSteps, OpenCheck, OpenEngine, OpenInit, OpenConnect,
      OpenPublish, OpenRecord, OpenNotify, OpenSyncing, OpenFails, CloseBegin,
      CloseEngine, CloseJoin, CloseRecord, CloseNotify, CloseFinal, Rescan,
      CreateTransaction, CommitTransaction, DisposeTransaction, ChangePassword,
      TickAsk, TickEnd, MoveResolve, MoveOffline, MoveWait, MoveInit, MoveRecord,
      MoveEmit, RequestStart, RequestDone, Elapse, ShutdownClose, ShutdownJoin,
      Stop, Restart, SetState, Thrown
<1> QED
  BY <1>1, <1>2, <1>3

(* The clock's values are numbers.                                         *)
LEMMA ClockNumbers ==
  ASSUME TypeOK
  PROVE  m_progressHeight \in Nat /\ progressAge \in Nat /\ height \in Nat /\ blockAge \in Nat
  BY Bounds DEF TypeOK, FieldTypes, EngineTypes

LEMMA StepSilence ==
  ASSUME TypeOK, TypeOK', RouteInv, SilenceInv, [Next]_vars, [~Rescan]_vars
  PROVE  SilenceInv'
<1> DEFINE Silent == m_progressHeight <= height
                     /\ (m_progressHeight = height => progressAge <= blockAge)
<1> SUFFICES ASSUME Recorded' PROVE Silent'
  BY DEF SilenceInv
<1> USE ClockNumbers
<1>1. CASE OpenRecord
  BY <1>1 DEF OpenRecord
<1>2. CASE OpenEngine \/ Restart
  <2>1. CASE OpenEngine
    <3>1. m_wallet = NoWallet
      BY <2>1 DEF OpenEngine, OpenFails, SetState, RouteInv, OpenInv
    <3> QED
      BY <2>1, <3>1 DEF OpenEngine, Recorded
  <2> QED
    BY <1>2, <2>1 DEF Restart, Recorded
<1>3. CASE OpenInit \/ OpenConnect \/ CloseJoin \/ ShutdownJoin
  <2>1. pc \in {"open_init", "open_connect", "close_join"} => m_wallet = NoWallet
    BY DEF RouteInv, OpenInv, CloseInv
  <2>2. CASE OpenInit \/ OpenConnect
    BY <2>1, <2>2 DEF OpenInit, OpenConnect, SetState, OpenFails, Recorded
  <2>3. CASE CloseJoin \/ ShutdownJoin
    BY <2>1, <2>3 DEF CloseJoin, ShutdownJoin, Recorded
  <2> QED
    BY <1>3, <2>2, <2>3
<1>4. CASE TickRead
  <2>1. Recorded
    BY <1>4 DEF TickRead, Recorded
  <2>2. /\ \/ UNCHANGED <<m_progressHeight, progressAge>>
           \/ /\ m_progressHeight' = Progress(height > m_progressHeight)
              /\ progressAge' = ProgressFor(height > m_progressHeight)
        /\ UNCHANGED <<height, blockAge>>
    BY <1>4 DEF TickRead
  <2> QED
    BY <2>1, <2>2 DEF SilenceInv, Progress, ProgressFor
<1>5. CASE UNCHANGED <<m_wallet, pc, m_progressHeight>> /\ (RequestDone \/ Elapse)
  <2>1. Silent
    BY <1>5 DEF SilenceInv, Recorded
  <2>2. CASE RequestDone
    BY <1>5, <2>1, <2>2 DEF RequestDone
  <2>3. CASE Elapse
    BY <1>5, <2>1, <2>3 DEF Elapse, Older
  <2> QED
    BY <1>5, <2>2, <2>3
<1>6. CASE UNCHANGED <<m_wallet, m_progressHeight, height, blockAge>>
           /\ progressAge' \in {0, progressAge} /\ ~OpenRecord /\ ~Restart
  <2>1. Silent
    BY <1>6, RecordFollows DEF SilenceInv, Recorded
  <2> QED
    BY <1>6, <2>1
<1>7. CASE UNCHANGED clock /\ ~UNCHANGED m_wallet
  <2>1. CASE OpenPublish
    BY <1>7, <2>1 DEF OpenPublish, Recorded
  <2>2. CASE CloseBegin \/ ShutdownJoin
    BY <1>7, <2>2 DEF CloseBegin, ShutdownJoin, Recorded
  <2> QED
    BY <1>1, <1>2, <1>7, <2>1, <2>2, SessionFrame DEF OpenRecord, CloseRecord, MoveRecord
<1>8. CASE MoveRecord
  BY <1>6, <1>8 DEF MoveRecord, OpenRecord, Restart
<1>9. CASE Rescan
  <2>1. UNCHANGED <<m_wallet, pc, m_progressHeight, progressAge, height, blockAge>>
    BY <1>9 DEF vars
  <2>2. Silent
    BY <2>1 DEF SilenceInv, Recorded
  <2> QED
    BY <2>1, <2>2
<1> QED
  BY <1>1, <1>2, <1>3, <1>4, <1>5, <1>6, <1>7, <1>8, <1>9, ClockFrame
  DEF RequestDone, Elapse, clock

(* As long as no rescan begins the chain anew, tick() abandons a catch-up  *)
(* node only after GiveUp without a block of it, for every GiveUp, whatever*)
(* the node module answers and whatever fails: the height and the time it  *)
(* goes by are never those of another wallet, nor from before the last     *)
(* block.                                                                  *)
THEOREM AbandonsOnlySilent ==
  Spec /\ [][~Rescan]_vars => CatchUpAbandonedOnlyWhenSilent
<1>1. Init => SilenceInv
  BY DEF Init, SilenceInv, Recorded
<1>2. /\ TypeOK /\ TypeOK' /\ RouteInv /\ SilenceInv /\ [Next]_vars /\ [~Rescan]_vars
      => SilenceInv'
  BY StepSilence
<1>3. ASSUME TypeOK, SilenceInv, [Next]_vars, ~abandon, abandon'
      PROVE  blockAge > GiveUp
  <2>1. TickRead
    BY <1>3
    DEF vars, Next, NewJob, BeginJob, Worker, BeginTick, Settle, OpenSteps,
        CloseSteps, TxSteps, TickSteps, ShutdownSteps, OpenCheck, OpenEngine,
        OpenInit, OpenConnect, OpenPublish, OpenRecord, OpenNotify, OpenSyncing,
        CloseBegin, CloseEngine, CloseJoin, CloseRecord, CloseNotify, CloseFinal,
        Rescan, CreateTransaction, CommitTransaction, DisposeTransaction,
        ChangePassword, TickAsk, TickEnd, MoveResolve, MoveOffline, MoveWait,
        MoveInit, MoveRecord, MoveEmit, RequestStart, RequestDone, Elapse,
        ShutdownClose, ShutdownJoin, Stop, Restart
  <2>2. Recorded /\ ProgressFor(height > m_progressHeight) > GiveUp
    BY <1>3, <2>1 DEF TickRead, Recorded
  <2> QED
    BY <1>3, <2>2, ClockNumbers, Bounds DEF SilenceInv, ProgressFor
<1>4. TypeOK /\ SilenceInv /\ [Next]_vars => [~abandon /\ abandon' => blockAge > GiveUp]_vars
  BY <1>3
<1> QED
  BY <1>1, <1>2, <1>4, RoutesInductive, PTL DEF Spec, CatchUpAbandonedOnlyWhenSilent

(* Where no rescan can be asked for, none begins.                          *)
LEMMA NeverRescans == "rescan" \notin Kinds => (Spec => [][~Rescan]_vars)
<1> SUFFICES ASSUME "rescan" \notin Kinds PROVE Spec => [][~Rescan]_vars
  OBVIOUS
<1>1. Init => pc # "rescan"
  BY DEF Init
<1>2. pc # "rescan" /\ [Next]_vars => (pc # "rescan")'
  BY NoRescan
<1>3. pc # "rescan" => ~Rescan
  BY DEF Rescan, Step, SetState
<1>4. pc # "rescan" => [~Rescan]_vars
  BY <1>3
<1> QED
  BY <1>1, <1>2, <1>4, PTL DEF Spec

-----------------------------------------------------------------------------
(* The route.                                                              *)

(* Neither MONERO_Wallet_init nor a call past the C interface fails;       *)
(* events and notices still may.                                           *)
EngineHolds == \A f \in FaultSets : "init" \notin f /\ "engine" \notin f

(* Without a wallet, and until an open records its own, there is no route  *)
(* a wallet could fall back from; and a wallet on Tor leaves its node only *)
(* for one that can be dialled now, so it is never parked.                 *)
TowardInv ==
  /\ /\ m_wallet = NoWallet
     /\ pc \notin {"close_engine", "close_join", "close_record", "stopped"}
     => m_route = "direct"
  /\ pc = "open_record" => m_route = "direct"
  /\ pc \in {"move_offline", "move_wait", "move_init"} /\ m_route = "tor" => TorReady(node)
  /\ pc = "parked" => m_route # "tor"

LEMMA StepToward ==
  ASSUME EngineHolds, TypeOK, RouteInv, PlaceInv, TowardInv, [Next]_vars
  PROVE  TowardInv'
<1>1. /\ ~InitMayFail /\ ~EngineMayThrow
      /\ pc \in Opening \cup Closing => m_wallet = NoWallet
      /\ pc \in Published \cup Ticking => m_wallet # NoWallet
      /\ pc = "move" => m_route # "tor"
  BY DEF EngineHolds, InitMayFail, EngineMayThrow, TypeOK, WorkerTypes, PlaceInv,
         RouteInv, OpenInv, CloseInv, MoveInv
<1> USE <1>1 DEF TowardInv, JobKinds
<1>2. CASE NewJob
  <2>1. pc' \in JobKinds /\ UNCHANGED session /\ pc = "idle"
    BY <1>2, EngineAssumption DEF NewJob, BeginJob, EngineAssumption
  <2> QED
    BY <2>1
<1>3. CASE BeginTick \/ Settle
  BY <1>3 DEF BeginTick, Settle
<1>4. CASE OpenSteps
  <2> USE DEF SetState, OpenFails, Thrown
  <2>1. CASE OpenCheck \/ OpenEngine
    BY <2>1 DEF OpenCheck, OpenEngine
  <2>2. CASE OpenInit \/ OpenConnect
    BY <2>2 DEF OpenInit, OpenConnect
  <2>3. CASE OpenPublish \/ OpenRecord
    BY <2>3 DEF OpenPublish, OpenRecord
  <2>4. CASE OpenNotify \/ OpenSyncing
    BY <2>4 DEF OpenNotify, OpenSyncing
  <2> QED
    BY <1>4, <2>1, <2>2, <2>3, <2>4 DEF OpenSteps
<1>5. CASE CloseSteps
  <2> USE DEF SetState, Thrown
  <2>1. CASE CloseBegin
    BY <2>1 DEF CloseBegin
  <2>2. CASE CloseEngine \/ CloseJoin \/ CloseRecord
    BY <2>2 DEF CloseEngine, CloseJoin, CloseRecord
  <2>3. CASE CloseNotify \/ CloseFinal
    BY <2>3 DEF CloseNotify, CloseFinal
  <2> QED
    BY <1>5, <2>1, <2>2, <2>3 DEF CloseSteps
<1>6. CASE TxSteps
  <2>1. /\ pc \in JobKinds /\ pc' \in {"done", "failed", Thrown} /\ UNCHANGED session
    BY <1>6
    DEF TxSteps, Rescan, SetState, CreateTransaction, CommitTransaction,
        DisposeTransaction, ChangePassword
  <2> QED
    BY <2>1 DEF Thrown
<1>7. CASE TickSteps
  <2> USE DEF SetState, Thrown
  <2>1. CASE TickRead
    <3>1. pc' \in {"move", "tick_ask", "tick_flip"} /\ pc = "tick" /\ UNCHANGED session
      BY <2>1 DEF TickRead
    <3> QED
      BY <3>1
  <2>2. CASE TickAsk \/ MoveResolve
    BY <2>2 DEF TickAsk, MoveResolve
  <2>3. CASE TickEnd
    BY <2>3 DEF TickEnd
  <2>4. CASE MoveOffline \/ MoveWait \/ MoveInit
    BY <2>4 DEF MoveOffline, MoveWait, MoveInit
  <2>5. CASE MoveRecord \/ MoveEmit
    BY <2>5 DEF MoveRecord, MoveEmit
  <2> QED
    BY <1>7, <2>1, <2>2, <2>3, <2>4, <2>5 DEF TickSteps
<1>8. CASE ShutdownSteps \/ Restart
  BY <1>8 DEF ShutdownSteps, ShutdownClose, ShutdownJoin, Restart
<1>9. CASE RequestStart \/ RequestDone \/ Elapse \/ Stop \/ UNCHANGED vars
  BY <1>9 DEF RequestStart, RequestDone, Elapse, Stop, vars
<1> QED
  BY <1>2, <1>3, <1>4, <1>5, <1>6, <1>7, <1>8, <1>9 DEF Next, Worker

(* README, "a route only ever moves toward Tor": as long as wallet2 takes  *)
(* every node it is given and raises nothing, no step of an open, a tick,  *)
(* a move or a close takes an open wallet back, whatever the node module   *)
(* answers and whichever event or notice is lost.                          *)
THEOREM MovesTowardTor == EngineHolds => (Spec => RouteOnlyTowardTor)
<1> SUFFICES ASSUME EngineHolds PROVE Spec => RouteOnlyTowardTor
  OBVIOUS
<1>1. Init => TowardInv
  BY DEF Init, TowardInv
<1>2. TypeOK /\ RouteInv /\ SessionInv /\ TowardInv /\ [Next]_vars => TowardInv'
  BY StepToward DEF SessionInv
<1>3. ASSUME TypeOK, RouteInv, TowardInv, [Next]_vars, m_wallet # NoWallet, m_wallet' = m_wallet
      PROVE  RouteRank(m_route) <= RouteRank(m_route')
  <2>1. m_route \in Routes
    BY <1>3 DEF TypeOK, FieldTypes
  <2>2. CASE UNCHANGED m_route
    BY <2>1, <2>2 DEF RouteRank, Routes
  <2>3. CASE OpenRecord
    <3>1. m_route = "direct" /\ m_route' \in Routes
      BY <1>3, <2>3, NodeTypes DEF OpenRecord, TowardInv, TypeOK, WorkerTypes
    <3> QED
      BY <3>1 DEF RouteRank, Routes
  <2>4. CASE MoveRecord
    BY <1>3, <2>1, <2>4 DEF MoveRecord, TowardInv, RouteRank, Routes
  <2> QED
    BY <1>3, <2>2, <2>3, <2>4, SessionFrame
    DEF OpenPublish, CloseBegin, CloseRecord, ShutdownJoin, Restart, RouteInv, CloseInv
<1>4. TypeOK /\ RouteInv /\ TowardInv /\ [Next]_vars
      => [m_wallet # NoWallet /\ m_wallet' = m_wallet
            => RouteRank(m_route) <= RouteRank(m_route')]_vars
  BY <1>3
<1> QED
  BY <1>1, <1>2, <1>4, SessionInductive, PTL DEF Spec, RouteOnlyTowardTor
=============================================================================
