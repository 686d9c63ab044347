-------------------------- MODULE WalletEngineProofs --------------------------
(***************************************************************************)
(* What holds of WalletEngine for every set of networks, answers and job   *)
(* kinds, every bound, and whatever may fail.                              *)
(***************************************************************************)
EXTENDS WalletEngine, TLAPS

(* The groups of variables are abbreviations and nothing more.             *)
USE DEF locals, session, progress, locks, sends, wallet2, runs,
        Step, Raises, PauseRaises, NoWallet

-----------------------------------------------------------------------------
(* The node policy.                                                        *)

(* The values of a node module's answer and of what an open makes of it    *)
(* are typed: doOpenLike's reading of the node.                            *)
LEMMA NodeTypes ==
  ASSUME NEW a \in Answers \cup {NoAnswer}
  PROVE  /\ a \in Answer
         /\ RouteFor(a) \in Routes
         /\ DialFor(a) \in Dial
         /\ TorDial(a) \in Dial
         /\ a.url \in Urls \cup {NoUrl}
<1>1. a \in Answer
  <2>1. NoAnswer \in Answer
    BY DEF Answer, NoAnswer, Proxies
  <2> QED
    BY <2>1, EngineAssumption DEF EngineAssumption
<1>2. a.url \in Urls \cup {NoUrl} /\ a.catchUp \in Urls \cup {NoUrl} /\ a.proxy \in Proxies
  BY <1>1 DEF Answer
<1>3. RouteFor(a) \in Routes
  BY <1>2 DEF RouteFor, Routes, Proxies
<1>4. ViaOf(RouteFor(a)) \in Vias
  BY <1>3 DEF Routes, ViaOf, Vias
<1>5. DialFor(a) \in Dial
  BY <1>2, <1>4 DEF DialFor, Dial
<1>6. TorDial(a) \in Dial
  BY <1>2 DEF TorDial, Dial, Vias
<1> QED
  BY <1>1, <1>2, <1>3, <1>5, <1>6

(* An open on Tor dials the SOCKS port, and TorDial always does.           *)
LEMMA TorDials ==
  ASSUME NEW a \in Answers \cup {NoAnswer}
  PROVE  /\ RouteFor(a) = "tor" => DialFor(a).via = "socks"
         /\ TorDial(a).via = "socks"
  BY DEF DialFor, ViaOf, TorDial

LEMMA NoDialType == NoDial \in Dial /\ NoDial.via = "none"
  BY DEF NoDial, Dial, Vias

LEMMA Bounds ==
  /\ MaxJobs \in Nat /\ MaxTx \in Nat /\ MaxHeight \in Nat /\ MaxReloads \in Nat
  /\ GiveUp \in Nat /\ AskEvery \in Nat
  /\ 0 \in 0 .. MaxJobs /\ 0 \in 0 .. MaxHeight /\ 0 \in 0 .. MaxReloads
  /\ 0 \in 0 .. GiveUp + 1 /\ 0 \in 0 .. AskEvery + 1 /\ 1 \in 1 .. MaxTx + 1
  BY EngineAssumption DEF EngineAssumption

-----------------------------------------------------------------------------
(* Which steps touch which group of variables.                             *)

(* wallet2 changes only in the steps named here.                           *)
LEMMA EngineFrame ==
  [Next]_vars =>
    \/ UNCHANGED wallet2 \/ NoEngine
    \/ OpenEngine \/ OpenInit \/ OpenPublish \/ CloseEngine \/ Rescan
    \/ CreateTransaction \/ CommitTransaction \/ ChangePassword
    \/ MoveOffline \/ MoveInit \/ RequestStart \/ RequestDone \/ Elapse
    \/ ShutdownClose
  BY DEF vars, Next, NewJob, BeginJob, Worker, BeginTick, Settle, OpenSteps,
         CloseSteps, TxSteps, TickSteps, ShutdownSteps, OpenCheck, OpenConnect,
         OpenRecord, OpenNotify, OpenSyncing, CloseBegin, CloseJoin, CloseRecord,
         CloseNotify, CloseFinal, DisposeTransaction, TickRead, TickAsk, TickEnd,
         MoveResolve, MoveWait, MoveRecord, MoveEmit, ShutdownJoin, Stop, Restart

(* The handles, and the history of the sends.                              *)
LEMMA SendFrame ==
  [Next]_vars =>
    \/ UNCHANGED sends
    \/ OpenRecord \/ CloseBegin \/ CreateTransaction \/ CommitTransaction
    \/ DisposeTransaction \/ Restart
  BY DEF vars, Next, NewJob, BeginJob, Worker, BeginTick, Settle, OpenSteps,
         CloseSteps, TxSteps, TickSteps, ShutdownSteps, OpenCheck, OpenEngine,
         OpenInit, OpenConnect, OpenPublish, OpenNotify, OpenSyncing, CloseEngine,
         CloseJoin, CloseRecord, CloseNotify, CloseFinal, Rescan, ChangePassword,
         TickRead, TickAsk, TickEnd, MoveResolve, MoveOffline, MoveWait, MoveInit,
         MoveRecord, MoveEmit, RequestStart, RequestDone, Elapse, ShutdownClose,
         ShutdownJoin, Stop

(* The handle of the wallet, the route and what was recorded with them.    *)
LEMMA SessionFrame ==
  [Next]_vars =>
    \/ UNCHANGED session
    \/ OpenPublish \/ OpenRecord \/ CloseBegin \/ CloseRecord \/ MoveRecord
    \/ ShutdownJoin \/ Restart
  BY DEF vars, Next, NewJob, BeginJob, Worker, BeginTick, Settle, OpenSteps,
         CloseSteps, TxSteps, TickSteps, ShutdownSteps, OpenCheck, OpenEngine,
         OpenInit, OpenConnect, OpenNotify, OpenSyncing, CloseEngine, CloseJoin,
         CloseNotify, CloseFinal, Rescan, CreateTransaction, CommitTransaction,
         DisposeTransaction, ChangePassword, TickRead, TickAsk, TickEnd,
         MoveResolve, MoveOffline, MoveWait, MoveInit, MoveEmit, RequestStart,
         RequestDone, Elapse, ShutdownClose, Stop

(* What may fail is settled when the behaviour begins.                     *)
LEMMA FaultsStay == [Next]_vars => UNCHANGED faults
  BY DEF vars, Next, NewJob, BeginJob, Worker, BeginTick, Settle, OpenSteps,
         CloseSteps, TxSteps, TickSteps, ShutdownSteps, OpenCheck, OpenEngine,
         OpenInit, OpenConnect, OpenPublish, OpenRecord, OpenNotify, OpenSyncing,
         CloseBegin, CloseEngine, CloseJoin, CloseRecord, CloseNotify, CloseFinal,
         Rescan, CreateTransaction, CommitTransaction, DisposeTransaction,
         ChangePassword, TickRead, TickAsk, TickEnd, MoveResolve, MoveOffline,
         MoveWait, MoveInit, MoveRecord, MoveEmit, RequestStart, RequestDone,
         Elapse, ShutdownClose, ShutdownJoin, Stop, Restart

-----------------------------------------------------------------------------
(* Types.                                                                  *)

LEMMA InitTypes == Init => TypeOK
<1> SUFFICES ASSUME Init PROVE TypeOK
  OBVIOUS
<1> USE Bounds, NoDialType DEF Init
<1>1. WorkerTypes
  BY DEF WorkerTypes, Labels, WalletIds
<1>2. FieldTypes
  BY DEF FieldTypes, WalletStates, Routes, WalletIds
<1>3. SendTypes
  BY DEF SendTypes, TxHandles, WalletIds, Fates
<1>4. EngineTypes
  BY DEF EngineTypes
<1> QED
  BY <1>1, <1>2, <1>3, <1>4 DEF TypeOK

LEMMA StepEngineTypes == TypeOK /\ [Next]_vars => EngineTypes'
<1> SUFFICES ASSUME EngineTypes, node \in Answers \cup {NoAnswer}, [Next]_vars
             PROVE  EngineTypes'
  BY DEF TypeOK, WorkerTypes
<1> USE NoDialType, Bounds DEF EngineTypes
<1>1. CASE UNCHANGED wallet2
  BY <1>1
<1>2. CASE NoEngine
  BY <1>2 DEF NoEngine
<1>3. CASE OpenEngine
  BY <1>3 DEF OpenEngine
<1>4. CASE OpenInit
  BY <1>4, NodeTypes DEF OpenInit, NoEngine
<1>5. CASE OpenPublish
  BY <1>5 DEF OpenPublish
<1>6. CASE CloseEngine \/ ShutdownClose
  BY <1>6 DEF CloseEngine, ShutdownClose
<1>7. CASE Rescan
  BY <1>7 DEF Rescan
<1>8. CASE CreateTransaction \/ CommitTransaction \/ ChangePassword
  BY <1>8 DEF CreateTransaction, CommitTransaction, ChangePassword
<1>9. CASE MoveOffline
  BY <1>9 DEF MoveOffline, GoOffline, HangUp
<1>10. CASE MoveInit
  BY <1>10, NodeTypes DEF MoveInit, Resume
<1>11. CASE RequestStart \/ RequestDone
  BY <1>11 DEF RequestStart, RequestDone
<1>12. CASE Elapse
  BY <1>12 DEF Elapse, Older
<1> QED
  BY <1>1, <1>2, <1>3, <1>4, <1>5, <1>6, <1>7, <1>8, <1>9, <1>10, <1>11, <1>12,
     EngineFrame

LEMMA StepSendTypes == TypeOK /\ [Next]_vars => SendTypes'
<1> SUFFICES ASSUME SendTypes, m_wallet \in WalletIds, dial \in Dial, [Next]_vars
             PROVE  SendTypes'
  BY DEF TypeOK, FieldTypes, EngineTypes
<1> USE Bounds DEF SendTypes, TxHandles, WalletIds
<1>1. CASE UNCHANGED sends
  BY <1>1
<1>2. CASE OpenRecord
  BY <1>2 DEF OpenRecord
<1>3. CASE CloseBegin
  BY <1>3 DEF CloseBegin, ClearPendingTx
<1>4. CASE CreateTransaction
  <2>1. sendVias' \in {sendVias, sendVias \cup {dial.via}} /\ UNCHANGED fate
    BY <1>4 DEF CreateTransaction
  <2>2. \/ UNCHANGED <<m_pendingTx, m_nextTx>>
        \/ /\ m_nextTx \in TxHandles /\ m_nextTx' = m_nextTx + 1
           /\ m_pendingTx' = [m_pendingTx EXCEPT ![m_nextTx] = m_wallet]
    BY <1>4 DEF CreateTransaction
  <2>3. m_pendingTx' \in [TxHandles -> WalletIds]
    BY <2>2
  <2>4. m_nextTx' \in 1 .. MaxTx + 1
    BY <2>2
  <2> QED
    BY <2>1, <2>3, <2>4 DEF Dial
<1>5. CASE CommitTransaction
  <2>1. /\ UNCHANGED m_nextTx
        /\ sendVias' \in {sendVias, sendVias \cup {dial.via}}
    BY <1>5 DEF CommitTransaction
  <2>2. /\ \/ UNCHANGED m_pendingTx
           \/ \E h \in TxHandles : EraseHandle(h)
        /\ \/ UNCHANGED fate
           \/ \E h \in TxHandles : Broadcast(h, "sent") \/ Broadcast(h, "unsure")
    BY <1>5 DEF CommitTransaction
  <2>3. m_pendingTx' \in [TxHandles -> WalletIds]
    BY <2>2 DEF EraseHandle
  <2>4. fate' \in [TxHandles -> Fates]
    BY <2>2 DEF Broadcast, Fates
  <2> QED
    BY <2>1, <2>3, <2>4 DEF Dial
<1>6. CASE DisposeTransaction
  BY <1>6 DEF DisposeTransaction, EraseHandle
<1>7. CASE Restart
  BY <1>7 DEF Restart, Fates
<1> QED
  BY <1>1, <1>2, <1>3, <1>4, <1>5, <1>6, <1>7, SendFrame

LEMMA StepFieldTypes == TypeOK /\ [Next]_vars => FieldTypes'
<1> SUFFICES ASSUME FieldTypes, WorkerTypes, height \in 0 .. MaxHeight, [Next]_vars
             PROVE  FieldTypes'
  BY DEF TypeOK, EngineTypes
<1> DEFINE Places == m_wallet \in WalletIds /\ m_route \in Routes
                     /\ m_network \in Networks /\ m_torUrl \in Urls \cup {NoUrl}
           Times  == m_progressHeight \in 0 .. MaxHeight
                     /\ progressAge \in 0 .. GiveUp + 1 /\ askedAge \in 0 .. AskEvery + 1
           Locks  == m_locksReset \in BOOLEAN /\ nodeLock \in [Networks -> BOOLEAN]
<1>1. Places'
  <2> USE DEF FieldTypes, WorkerTypes, Routes, WalletIds
  <2>1. CASE UNCHANGED session
    BY <2>1
  <2>2. CASE OpenPublish
    BY <2>2 DEF OpenPublish
  <2>3. CASE OpenRecord
    BY <2>3, NodeTypes DEF OpenRecord
  <2>4. CASE CloseBegin \/ CloseRecord
    BY <2>4, Bounds DEF CloseBegin, CloseRecord
  <2>5. CASE MoveRecord
    BY <2>5, NodeTypes DEF MoveRecord
  <2>6. CASE ShutdownJoin \/ Restart
    BY <2>6, Bounds DEF ShutdownJoin, Restart
  <2> QED
    BY <2>1, <2>2, <2>3, <2>4, <2>5, <2>6, SessionFrame
<1>2. Times'
  <2> USE Bounds DEF FieldTypes
  <2>1. \/ UNCHANGED progress
        \/ OpenRecord \/ TickRead \/ MoveRecord \/ Elapse \/ Restart
    BY DEF vars, Next, NewJob, BeginJob, Worker, BeginTick, Settle, OpenSteps,
       CloseSteps, TxSteps, TickSteps, ShutdownSteps, OpenCheck, OpenEngine,
       OpenInit, OpenConnect, OpenPublish, OpenNotify, OpenSyncing, CloseBegin,
       CloseEngine, CloseJoin, CloseRecord, CloseNotify, CloseFinal, Rescan,
       CreateTransaction, CommitTransaction, DisposeTransaction, ChangePassword,
       TickAsk, TickEnd, MoveResolve, MoveOffline, MoveWait, MoveInit, MoveEmit,
       RequestStart, RequestDone, ShutdownClose, ShutdownJoin, Stop
  <2>2. CASE OpenRecord \/ MoveRecord \/ Restart
    BY <2>2 DEF OpenRecord, MoveRecord, Restart
  <2>3. CASE TickRead
    BY <2>3 DEF TickRead, Progress, ProgressFor
  <2>4. CASE Elapse
    BY <2>4 DEF Elapse, Older
  <2> QED
    BY <2>1, <2>2, <2>3, <2>4
<1>3. Locks'
  <2> USE DEF FieldTypes
  <2>1. \/ UNCHANGED locks
        \/ NewJob \/ BeginTick \/ OpenNotify \/ CloseNotify \/ Restart
    BY DEF vars, Next, Worker, Settle, OpenSteps, CloseSteps, TxSteps, TickSteps,
       ShutdownSteps, OpenCheck, OpenEngine, OpenInit, OpenConnect, OpenPublish,
       OpenRecord, OpenSyncing, CloseBegin, CloseEngine, CloseJoin, CloseRecord,
       CloseFinal, Rescan, CreateTransaction, CommitTransaction,
       DisposeTransaction, ChangePassword, TickRead, TickAsk, TickEnd,
       MoveResolve, MoveOffline, MoveWait, MoveInit, MoveRecord, MoveEmit,
       RequestStart, RequestDone, Elapse, ShutdownClose, ShutdownJoin, Stop
  <2>2. CASE NewJob \/ BeginTick
    <3>1. ResetLocksOnce
      BY <2>2 DEF NewJob, BeginJob, BeginTick
    <3>2. nodeLock' \in [Networks -> BOOLEAN]
      BY <3>1 DEF ResetLocksOnce
    <3> QED
      BY <3>1, <3>2 DEF ResetLocksOnce
  <2>3. CASE OpenNotify \/ CloseNotify
    BY <2>3 DEF OpenNotify, CloseNotify, NotifyOpen
  <2>4. CASE Restart
    BY <2>4 DEF Restart
  <2> QED
    BY <2>1, <2>2, <2>3, <2>4
<1>4. m_state' \in WalletStates
  <2> USE DEF FieldTypes, WalletStates
  <2>1. CASE OpenSteps
    BY <2>1 DEF OpenSteps, OpenCheck, OpenEngine, OpenInit, OpenConnect, OpenFails,
       OpenPublish, OpenRecord, OpenNotify, OpenSyncing, SetState
  <2>2. CASE CloseSteps
    BY <2>2 DEF CloseSteps, CloseBegin, CloseEngine, CloseJoin, CloseRecord,
       CloseNotify, CloseFinal, SetState
  <2>3. CASE TxSteps
    BY <2>3 DEF TxSteps, Rescan, CreateTransaction, CommitTransaction,
       DisposeTransaction, ChangePassword, SetState
  <2>4. CASE TickSteps
    BY <2>4 DEF TickSteps, TickRead, TickAsk, TickEnd, MoveResolve, MoveOffline,
       MoveWait, MoveInit, MoveRecord, MoveEmit, SetState
  <2>5. CASE \/ NewJob \/ BeginTick \/ Settle \/ ShutdownSteps \/ RequestStart
             \/ RequestDone \/ Elapse \/ Stop \/ Restart \/ UNCHANGED vars
    BY <2>5 DEF vars, NewJob, BeginJob, BeginTick, Settle, ShutdownSteps,
       ShutdownClose, ShutdownJoin, RequestStart, RequestDone, Elapse, Stop, Restart
  <2> QED
    BY <2>1, <2>2, <2>3, <2>4, <2>5 DEF Next, Worker
<1> QED
  BY <1>1, <1>2, <1>3, <1>4 DEF FieldTypes

LEMMA StepWorkerTypes == TypeOK /\ [Next]_vars => WorkerTypes'
<1> SUFFICES ASSUME WorkerTypes, synced \in BOOLEAN, [Next]_vars PROVE WorkerTypes'
  BY DEF TypeOK, EngineTypes
<1> USE Bounds DEF WorkerTypes, WalletIds
<1>1. CASE NewJob
  BY <1>1, EngineAssumption DEF NewJob, BeginJob, EngineAssumption, Labels
<1>2. CASE OpenSteps
  <2>1. CASE OpenCheck
    BY <2>1 DEF OpenCheck, SetState, Thrown, Labels
  <2>2. CASE OpenEngine \/ OpenPublish
    BY <2>2 DEF OpenEngine, OpenPublish, OpenFails, SetState, Thrown, Labels
  <2>3. CASE OpenInit \/ OpenConnect
    BY <2>3 DEF OpenInit, OpenConnect, OpenFails, SetState, Thrown, Labels
  <2>4. CASE OpenRecord \/ OpenNotify \/ OpenSyncing
    BY <2>4 DEF OpenRecord, OpenNotify, OpenSyncing, SetState, Thrown, Labels
  <2> QED
    BY <1>2, <2>1, <2>2, <2>3, <2>4 DEF OpenSteps
<1>3. CASE CloseSteps
  <2>1. CASE CloseBegin
    <3>1. pc' \in {"failed", "close_engine", Thrown} /\ UNCHANGED <<locals, runs>>
      BY <2>1 DEF CloseBegin, SetState
    <3> QED
      BY <3>1 DEF Thrown, Labels
  <2>2. CASE CloseEngine \/ CloseJoin
    BY <2>2 DEF CloseEngine, CloseJoin, Labels
  <2>3. CASE CloseRecord \/ CloseNotify
    BY <2>3 DEF CloseRecord, CloseNotify, Labels
  <2>4. CASE CloseFinal
    BY <2>4 DEF CloseFinal, SetState, Thrown, Labels
  <2> QED
    BY <1>3, <2>1, <2>2, <2>3, <2>4 DEF CloseSteps
<1>4. CASE TxSteps
  <2>1. CASE Rescan
    BY <2>1 DEF Rescan, SetState, Thrown, Labels
  <2>2. CASE CreateTransaction
    BY <2>2 DEF CreateTransaction, Labels
  <2>3. CASE CommitTransaction
    BY <2>3 DEF CommitTransaction, Labels
  <2>4. CASE DisposeTransaction
    BY <2>4 DEF DisposeTransaction, Labels
  <2>5. CASE ChangePassword
    BY <2>5 DEF ChangePassword, Labels
  <2> QED
    BY <1>4, <2>1, <2>2, <2>3, <2>4, <2>5 DEF TxSteps
<1>5. CASE TickSteps
  <2>1. CASE TickRead
    <3>1. pc' \in {"move", "tick_ask", "tick_flip", "idle"} /\ tickSynced' \in {tickSynced, synced}
      BY <2>1 DEF TickRead
    <3>2. abandon' \in BOOLEAN
      BY <2>1 DEF TickRead
    <3> QED
      BY <2>1, <3>1, <3>2 DEF TickRead, Labels
  <2>2. CASE TickAsk \/ MoveResolve
    BY <2>2 DEF TickAsk, MoveResolve, Labels
  <2>3. CASE TickEnd
    <3>1. pc' \in {"idle", Thrown}
      BY <2>3 DEF TickEnd, SetState
    <3>2. pc' \in Labels
      BY <3>1 DEF Thrown, Labels
    <3> QED
      BY <2>3, <3>2 DEF TickEnd
  <2>4. CASE MoveOffline \/ MoveWait \/ MoveInit \/ MoveRecord
    BY <2>4 DEF MoveOffline, MoveWait, MoveInit, MoveRecord, Labels
  <2>5. CASE MoveEmit
    BY <2>5 DEF MoveEmit, SetState, Thrown, Labels
  <2> QED
    BY <1>5, <2>1, <2>2, <2>3, <2>4, <2>5 DEF TickSteps
<1>6. CASE BeginTick \/ Settle \/ ShutdownSteps
  BY <1>6 DEF BeginTick, Settle, ShutdownSteps, ShutdownClose, ShutdownJoin, Labels
<1>7. CASE RequestStart \/ RequestDone \/ Elapse \/ Stop \/ UNCHANGED vars
  BY <1>7 DEF vars, RequestStart, RequestDone, Elapse, Stop
<1>8. CASE Restart
  <2>1. reloads' \in 0 .. MaxReloads
    BY <1>8 DEF Restart
  <2>2. pc' \in Labels
    BY <1>8 DEF Restart, Labels
  <2> QED
    BY <1>8, <2>1, <2>2 DEF Restart
<1> QED
  BY <1>1, <1>2, <1>3, <1>4, <1>5, <1>6, <1>7, <1>8 DEF Next, Worker

(* Every variable of the engine keeps its type, whatever the node module   *)
(* answers and whichever call fails.                                       *)
THEOREM TypeCorrect == Spec => []TypeOK
<1>1. Init => TypeOK
  BY InitTypes
<1>2. TypeOK /\ [Next]_vars => TypeOK'
  BY StepWorkerTypes, StepFieldTypes, StepSendTypes, StepEngineTypes DEF TypeOK
<1> QED
  BY <1>1, <1>2, PTL DEF Spec

-----------------------------------------------------------------------------
(* Routes.                                                                 *)

LEMMA InitRoutes == Init => RouteInv
  BY DEF Init, RouteInv, OpenInv, CloseInv, MoveInv, Recorded

LEMMA StepRoutes == TypeOK /\ RouteInv /\ [Next]_vars => RouteInv'
<1> SUFFICES ASSUME TypeOK, RouteInv, [Next]_vars PROVE RouteInv'
  OBVIOUS
<1>0. EngineMayThrow' <=> EngineMayThrow
  BY FaultsStay DEF EngineMayThrow
<1> USE <1>0 DEF RouteInv, OpenInv, CloseInv, MoveInv, Recorded, Dialled
<1>1. CASE NewJob
  <2>1. pc' \in JobKinds /\ UNCHANGED <<session, wallet2>> /\ pc = "idle"
    BY <1>1, EngineAssumption DEF NewJob, BeginJob, EngineAssumption
  <2> QED
    BY <2>1 DEF JobKinds
<1>2. CASE BeginTick \/ Settle
  BY <1>2 DEF BeginTick, Settle
<1>3. CASE OpenSteps
  <2> USE DEF SetState, Thrown, OpenFails
  <2>1. CASE OpenCheck
    BY <2>1 DEF OpenCheck
  <2>2. CASE OpenEngine
    BY <2>2 DEF OpenEngine
  <2>3. CASE OpenInit
    BY <2>3 DEF OpenInit, NoEngine
  <2>4. CASE OpenConnect
    BY <2>4 DEF OpenConnect, NoEngine
  <2>5. CASE OpenPublish
    BY <2>5 DEF OpenPublish
  <2>6. CASE OpenRecord
    BY <2>6, TorDials, NoDialType, NodeTypes DEF OpenRecord, TypeOK, WorkerTypes
  <2>7. CASE OpenNotify
    BY <2>7 DEF OpenNotify
  <2>8. CASE OpenSyncing
    BY <2>8 DEF OpenSyncing
  <2> QED
    BY <1>3, <2>1, <2>2, <2>3, <2>4, <2>5, <2>6, <2>7, <2>8 DEF OpenSteps
<1>4. CASE CloseSteps
  <2> USE DEF SetState, Thrown
  <2>1. CASE CloseBegin
    BY <2>1 DEF CloseBegin
  <2>2. CASE CloseEngine
    BY <2>2 DEF CloseEngine
  <2>3. CASE CloseJoin
    BY <2>3 DEF CloseJoin, NoEngine
  <2>4. CASE CloseRecord \/ CloseNotify \/ CloseFinal
    BY <2>4 DEF CloseRecord, CloseNotify, CloseFinal
  <2> QED
    BY <1>4, <2>1, <2>2, <2>3, <2>4 DEF CloseSteps
<1>5. CASE TxSteps
  <2>1. CASE Rescan
    BY <2>1 DEF Rescan, SetState, Thrown
  <2>2. CASE CreateTransaction \/ CommitTransaction
    BY <2>2 DEF CreateTransaction, CommitTransaction
  <2>3. CASE DisposeTransaction \/ ChangePassword
    BY <2>3 DEF DisposeTransaction, ChangePassword
  <2> QED
    BY <1>5, <2>1, <2>2, <2>3 DEF TxSteps
<1>6. CASE TickSteps
  <2> USE DEF SetState, Thrown
  <2>1. CASE TickRead
    BY <2>1 DEF TickRead, MustMove
  <2>2. CASE TickAsk
    BY <2>2 DEF TickAsk
  <2>3. CASE TickEnd
    BY <2>3 DEF TickEnd
  <2>4. CASE MoveResolve
    BY <2>4 DEF MoveResolve
  <2>5. CASE MoveOffline
    BY <2>5, NoDialType DEF MoveOffline, GoOffline, HangUp
  <2>6. CASE MoveWait
    BY <2>6 DEF MoveWait
  <2>7. CASE MoveInit
    <3>1. TorDial(node).via = "socks"
      BY TorDials DEF TypeOK, WorkerTypes
    <3> QED
      BY <2>7, <3>1, NoDialType DEF MoveInit, Resume
  <2>8. CASE MoveRecord
    BY <2>8 DEF MoveRecord
  <2>9. CASE MoveEmit
    BY <2>9 DEF MoveEmit
  <2> QED
    BY <1>6, <2>1, <2>2, <2>3, <2>4, <2>5, <2>6, <2>7, <2>8, <2>9 DEF TickSteps
<1>7. CASE ShutdownSteps \/ Restart
  BY <1>7 DEF ShutdownSteps, ShutdownClose, ShutdownJoin, Restart, NoEngine
<1>8. CASE RequestStart
  BY <1>8, NoDialType DEF RequestStart
<1>9. CASE RequestDone
  BY <1>9, NoDialType DEF RequestDone
<1>10. CASE Elapse \/ Stop \/ UNCHANGED vars
  BY <1>10 DEF Elapse, Stop, vars
<1> QED
  BY <1>1, <1>2, <1>3, <1>4, <1>5, <1>6, <1>7, <1>8, <1>9, <1>10 DEF Next, Worker

LEMMA RoutesInductive == Spec => [](TypeOK /\ RouteInv)
<1>1. Init => RouteInv
  BY InitRoutes
<1>2. TypeOK /\ RouteInv /\ [Next]_vars => RouteInv'
  BY StepRoutes
<1> QED
  BY <1>1, <1>2, TypeCorrect, PTL DEF Spec

(* A wallet that waits for Tor or is on it has no request out in the       *)
(* clear, in every interleaving of the worker with the refresh thread.     *)
THEOREM ClearNothing == Spec => []NothingInTheClear
<1>1. TypeOK /\ RouteInv => NothingInTheClear
  BY NoDialType DEF RouteInv, MoveInv, NothingInTheClear, Recorded
<1> QED
  BY <1>1, RoutesInductive, PTL

-----------------------------------------------------------------------------
(* Sends.                                                                  *)

(* The record follows the publication, and an unloaded module is replaced, *)
(* whatever the other threads do.                                          *)
LEMMA RecordFollows ==
  [Next]_vars /\ pc = "open_record" => pc' = "open_record" \/ OpenRecord \/ Restart
  BY
  DEF vars, Next, NewJob, BeginJob, Worker, BeginTick, Settle, OpenSteps,
      CloseSteps, TxSteps, TickSteps, ShutdownSteps, OpenCheck, OpenEngine,
      OpenInit, OpenConnect, OpenPublish, OpenNotify, OpenSyncing, OpenFails,
      CloseBegin, CloseEngine, CloseJoin, CloseRecord, CloseNotify, CloseFinal,
      Rescan, CreateTransaction, CommitTransaction, DisposeTransaction,
      ChangePassword, TickRead, TickAsk, TickEnd, MoveResolve, MoveOffline,
      MoveWait, MoveInit, MoveRecord, MoveEmit, RequestStart, RequestDone, Elapse,
      ShutdownClose, ShutdownJoin, Stop, SetState

LEMMA StoppedStays ==
  [Next]_vars /\ pc = "stopped" => pc' = "stopped" \/ Restart
  BY
  DEF vars, Next, NewJob, BeginJob, Worker, BeginTick, Settle, OpenSteps,
      CloseSteps, TxSteps, TickSteps, ShutdownSteps, OpenCheck, OpenEngine,
      OpenInit, OpenConnect, OpenPublish, OpenRecord, OpenNotify, OpenSyncing,
      OpenFails, CloseBegin, CloseEngine, CloseJoin, CloseRecord, CloseNotify,
      CloseFinal, Rescan, CreateTransaction, CommitTransaction,
      DisposeTransaction, ChangePassword, TickRead, TickAsk, TickEnd,
      MoveResolve, MoveOffline, MoveWait, MoveInit, MoveRecord, MoveEmit,
      RequestStart, RequestDone, Elapse, ShutdownClose, ShutdownJoin, Stop, SetState

LEMMA StepSends ==
  TypeOK /\ RouteInv /\ SendsOnlyOverTor /\ [Next]_vars => SendsOnlyOverTor'
<1> SUFFICES ASSUME TypeOK, RouteInv, SendsOnlyOverTor, [Next]_vars
             PROVE  SendsOnlyOverTor'
  OBVIOUS
<1>1. CASE OpenRecord
  BY <1>1 DEF OpenRecord, SendsOnlyOverTor
<1>2. CASE CreateTransaction \/ CommitTransaction
  <2>1. UNCHANGED session /\ sendVias' \in {sendVias, sendVias \cup {dial.via}}
    BY <1>2 DEF CreateTransaction, CommitTransaction
  <2>2. CASE MaySend
    <3>1. m_route \in {"direct", "tor"}
      BY <2>2 DEF MaySend, SendsWaitForTor, TypeOK, FieldTypes, Routes
    <3>2. pc' # "open_record" /\ Recorded
      BY <1>2, <2>2 DEF MaySend, CreateTransaction, CommitTransaction, Recorded
    <3>3. m_route = "tor" => dial.via = "socks"
      BY <3>2 DEF RouteInv
    <3> QED
      BY <2>1, <3>1, <3>2, <3>3 DEF SendsOnlyOverTor, Recorded
  <2>3. CASE ~MaySend
    BY <1>2, <2>1, <2>3
    DEF CreateTransaction, CommitTransaction, SendsOnlyOverTor, Recorded
  <2> QED
    BY <2>2, <2>3
<1>3. CASE MoveRecord
  BY <1>3 DEF MoveRecord, SendsOnlyOverTor, Recorded, RouteInv, MoveInv
<1>4. CASE CloseBegin \/ CloseRecord
  <2>1. CASE CloseBegin
    <3>1. /\ pc = "close_wallet" /\ UNCHANGED <<m_route, sendVias>>
          /\ m_wallet' \in {m_wallet, NoWallet}
      BY <2>1 DEF CloseBegin, SetState
    <3> QED
      BY <3>1 DEF SendsOnlyOverTor, Recorded
  <2>2. CASE CloseRecord
    BY <2>2 DEF CloseRecord, SendsOnlyOverTor
  <2> QED
    BY <1>4, <2>1, <2>2
<1>5. CASE OpenPublish \/ ShutdownJoin \/ Restart
  BY <1>5 DEF OpenPublish, ShutdownJoin, Restart, SendsOnlyOverTor, Recorded
<1>6. CASE UNCHANGED <<m_wallet, m_route, sendVias>>
  BY <1>1, <1>5, <1>6, RecordFollows DEF SendsOnlyOverTor, Recorded
<1>7. CASE DisposeTransaction
  BY <1>7 DEF DisposeTransaction, SendsOnlyOverTor, Recorded
<1> QED
  BY <1>1, <1>2, <1>3, <1>4, <1>5, <1>6, <1>7, SendFrame, SessionFrame

(* The decoy requests and the broadcasts of a wallet on a Tor route have   *)
(* only gone through the SOCKS port, for every order of jobs and ticks.    *)
THEOREM SendsOverTor == Spec => []SendsOnlyOverTor
<1>1. Init => SendsOnlyOverTor
  BY DEF Init, SendsOnlyOverTor, Recorded
<1>2. TypeOK /\ RouteInv /\ SendsOnlyOverTor /\ [Next]_vars => SendsOnlyOverTor'
  BY StepSends
<1> QED
  BY <1>1, <1>2, RoutesInductive, PTL DEF Spec

-----------------------------------------------------------------------------
(* Handles.                                                                *)

LEMMA StepPendingTx ==
  TypeOK /\ RouteInv /\ PendingTxOfOpenWallet /\ [Next]_vars => PendingTxOfOpenWallet'
<1> SUFFICES ASSUME TypeOK, RouteInv, PendingTxOfOpenWallet, [Next]_vars
             PROVE  PendingTxOfOpenWallet'
  OBVIOUS
<1> USE DEF PendingTxOfOpenWallet
<1>1. CASE OpenPublish
  BY <1>1 DEF OpenPublish, RouteInv, OpenInv
<1>2. CASE OpenRecord \/ CloseRecord \/ MoveRecord
  BY <1>2 DEF OpenRecord, CloseRecord, MoveRecord
<1>3. CASE CloseBegin
  BY <1>3 DEF CloseBegin, ClearPendingTx, SetState, Thrown
<1>4. CASE CreateTransaction
  BY <1>4 DEF CreateTransaction, TypeOK, SendTypes
<1>5. CASE CommitTransaction \/ DisposeTransaction
  <2>1. pc # "stopped" /\ UNCHANGED m_wallet
    BY <1>5 DEF CommitTransaction, DisposeTransaction
  <2>2. UNCHANGED m_pendingTx \/ \E h \in TxHandles : EraseHandle(h)
    BY <1>5 DEF CommitTransaction, DisposeTransaction
  <2> QED
    BY <2>1, <2>2 DEF EraseHandle, TypeOK, SendTypes
<1>6. CASE ShutdownJoin
  BY <1>6 DEF ShutdownJoin
<1>7. CASE Restart
  BY <1>7 DEF Restart
<1>8. CASE UNCHANGED <<m_wallet, m_pendingTx>>
  BY <1>7, <1>8, StoppedStays
<1> QED
  BY <1>1, <1>2, <1>3, <1>4, <1>5, <1>6, <1>7, <1>8, SendFrame, SessionFrame

(* A later wallet never commits a transaction of an earlier one.           *)
THEOREM HandlesOfOpenWallet == Spec => []PendingTxOfOpenWallet
<1>1. Init => PendingTxOfOpenWallet
  BY DEF Init, PendingTxOfOpenWallet
<1>2. TypeOK /\ RouteInv /\ PendingTxOfOpenWallet /\ [Next]_vars => PendingTxOfOpenWallet'
  BY StepPendingTx
<1> QED
  BY <1>1, <1>2, RoutesInductive, PTL DEF Spec

=============================================================================
