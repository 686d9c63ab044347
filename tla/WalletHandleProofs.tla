-------------------------- MODULE WalletHandleProofs --------------------------
(***************************************************************************)
(* Theorems about WalletHandle, for any callers, either policy of the      *)
(* mutex and any bounds: no use after a close, and what the probe stored   *)
(* is about the wallet on record and the peer it dials.                    *)
(*                                                                         *)
(* The argument is HandleInv.  A lock is a set of positions, so an owner   *)
(* is alone because CanOwn and CanShare stand in the guard of each step    *)
(* that enters a scope (AloneInv); the pointer therefore changes under     *)
(* nobody's hands (UsingInv), what is closed is in nobody's (ClosedInv),   *)
(* and the probe, which stores before it leaves, stores about the wallet   *)
(* it entered with (RecordInv, PeerInv).                                   *)
(***************************************************************************)
EXTENDS WalletHandle, TLAPS

(* At the start nobody is inside, no wallet is open and nothing recorded.  *)
LEMMA InitHandle == Init => TypeOK /\ HandleInv
<1> SUFFICES ASSUME Init PROVE TypeOK /\ HandleInv
  OBVIOUS
<1> USE HandleAssumption
    DEF Init, Threads, Wallets, Peers, Nothing, NoReading, SharedScope,
        OwnScope, Inside
<1>1. pc \in [Threads -> Positions] /\ using \in [Threads -> Wallets \cup {Nothing}]
  BY DEF Positions
<1>2. writerFirst \in BOOLEAN /\ engineRaises \in BOOLEAN /\ probe \in [peer : Peers, saw : BOOLEAN]
  OBVIOUS
<1>3. reading \in [wallet : Wallets \cup {Nothing}, peer : Peers]
  OBVIOUS
<1>4. TypeOK
  <2>1. m_probed \in BOOLEAN /\ m_daemonConnected \in BOOLEAN /\ m_stop \in BOOLEAN
    OBVIOUS
  <2>2. m_dialPeer \in Peers /\ dial \in Peers /\ closed \subseteq Wallets /\ ownRows \subseteq Callers
    OBVIOUS
  <2>3. m_wallet \in Wallets \cup {Nothing} /\ recorded \in Wallets \cup {Nothing}
    OBVIOUS
  <2>4. jobs \in 0 .. MaxJobs /\ calls \in 0 .. MaxCalls /\ readings \in 0 .. MaxReadings
    BY DEF HandleAssumption
  <2> QED BY <1>1, <1>2, <1>3, <2>1, <2>2, <2>3, <2>4 DEF TypeOK
<1>5. AloneInv /\ UsingInv
  BY DEF AloneInv, UsingInv
<1>6. ClosedInv
  BY DEF ClosedInv, NoUseAfterClose
<1>7. RecordInv /\ PeerInv
  BY DEF RecordInv, Unrecorded, ReadingOfOpenWallet, PeerInv, Unrecorded, ConnectedWhereDialled
<1> QED
  BY <1>4, <1>5, <1>6, <1>7 DEF HandleInv

(* What the probe saw is noted beside the peer it looked for.              *)
LEMMA Seen ==
  ASSUME NEW p \in [peer : Peers, saw : BOOLEAN], NEW b \in BOOLEAN
  PROVE  [p EXCEPT !.saw = b] \in [peer : Peers, saw : BOOLEAN]
  OBVIOUS

(* Every step keeps the types.  That a close has a wallet in hand, whose   *)
(* number it adds to the closed ones, is UsingInv's.                       *)
LEMMA StepTypes ==
  ASSUME TypeOK, UsingInv, [Next]_vars
  PROVE  TypeOK'
<1> USE HandleAssumption
    DEF TypeOK, Threads, Wallets, Peers, Nothing, NoReading, SharedScope,
        OwnScope, WaitToOwn, Positions,
        Goes, Works, Leaves, build, fields, probing, bounds
<1>1. CASE BeginJob
  BY <1>1 DEF BeginJob, Begins
<1>2. CASE BeginTick
  BY <1>2 DEF BeginTick, Begins
<1>3. CASE WorkerReturn
  BY <1>3 DEF WorkerReturn
<1>4. CASE OpenCheck
  BY <1>4 DEF OpenCheck
<1>5. CASE OpenEngine
  BY <1>5 DEF OpenEngine
<1>6. CASE OpenPublish
  BY <1>6 DEF OpenPublish
<1>7. CASE OpenRecord
  <2>1. pc' \in [Threads -> Positions]
    BY <1>7 DEF OpenRecord
  <2>2. recorded' \in Wallets \cup {Nothing} /\ m_dialPeer' \in Peers
    BY <1>7 DEF OpenRecord, PeerOf
  <2>3. /\ m_probed' = FALSE /\ m_daemonConnected' = FALSE
        /\ UNCHANGED <<using, writerFirst, engineRaises, m_wallet, closed, m_stop, dial>>
        /\ UNCHANGED <<probe, reading, ownRows, jobs, calls, readings>>
    BY <1>7 DEF OpenRecord
  <2>4. /\ using' \in [Threads -> Wallets \cup {Nothing}]
        /\ m_wallet' \in Wallets \cup {Nothing} /\ closed' \subseteq Wallets
        /\ reading' \in [wallet : Wallets \cup {Nothing}, peer : Peers]
    BY <2>3
  <2> QED BY <2>1, <2>2, <2>3, <2>4
<1>8. CASE OpenEnd
  BY <1>8 DEF OpenEnd
<1>9. CASE CloseLock
  BY <1>9 DEF CloseLock, EntersOr
<1>10. CASE CloseForget
  BY <1>10 DEF CloseForget, ForgetHandle
<1>11. CASE CloseEngine
  <2>1. using[Worker] \in Wallets
    BY <1>11 DEF CloseEngine, UsingInv
  <2>2. closed' \subseteq Wallets /\ dial' \in Peers
    <3>1. closed' \in {closed, closed \cup {using[Worker]}} /\ dial' \in {dial, "none"}
      BY <1>11 DEF CloseEngine
    <3> QED BY <2>1, <3>1
  <2>3. pc' \in [Threads -> Positions] /\ using' \in [Threads -> Wallets \cup {Nothing}]
    BY <1>11 DEF CloseEngine, Positions
  <2> QED BY <1>11, <2>2, <2>3 DEF CloseEngine, Positions
<1>12. CASE CloseRecord
  <2>1. pc' \in [Threads -> Positions]
    BY <1>12 DEF CloseRecord
  <2>2. /\ recorded' = Nothing /\ m_dialPeer' = "none"
        /\ m_probed' = FALSE /\ m_daemonConnected' = FALSE
        /\ UNCHANGED <<using, writerFirst, engineRaises, m_wallet, closed, m_stop, dial>>
        /\ UNCHANGED <<probe, reading, ownRows, jobs, calls, readings>>
    BY <1>12 DEF CloseRecord, ForgetName
  <2>3. /\ using' \in [Threads -> Wallets \cup {Nothing}]
        /\ m_wallet' \in Wallets \cup {Nothing} /\ closed' \subseteq Wallets
        /\ reading' \in [wallet : Wallets \cup {Nothing}, peer : Peers]
    BY <2>2
  <2> QED BY <2>1, <2>2, <2>3
<1>13. CASE JobLock
  BY <1>13 DEF JobLock, EntersOr
<1>14. CASE JobEnd
  <2>1. pc' \in [Threads -> Positions] /\ using' \in [Threads -> Wallets \cup {Nothing}]
    BY <1>14 DEF JobEnd
  <2> QED BY <1>14, <2>1 DEF JobEnd
<1>15. CASE TickLock
  BY <1>15 DEF TickLock, EntersOr
<1>16. CASE TickEnd
  BY <1>16 DEF TickEnd
<1>17. CASE MoveOffline
  BY <1>17 DEF MoveOffline, EntersOr
<1>18. CASE MoveWait
  BY <1>18 DEF MoveWait
<1>19. CASE MoveLock
  BY <1>19 DEF MoveLock, EntersOr
<1>20. CASE MoveInit
  BY <1>20 DEF MoveInit
<1>21. CASE MoveRecord
  <2>1. pc' \in [Threads -> Positions]
    BY <1>21 DEF MoveRecord
  <2>2. m_dialPeer' \in Peers /\ m_daemonConnected' \in BOOLEAN
    BY <1>21 DEF MoveRecord, PeerOf, ForgetConnected
  <2>3. /\ UNCHANGED <<using, writerFirst, engineRaises, m_wallet, closed, recorded, m_probed,
                       m_stop, dial>>
        /\ UNCHANGED <<probe, reading, ownRows, jobs, calls, readings>>
    BY <1>21 DEF MoveRecord
  <2> QED BY <2>1, <2>2, <2>3
<1>22. CASE ProbeReturn
  BY <1>22 DEF ProbeReturn, ProbeStops
<1>23. CASE ProbeWake
  BY <1>23 DEF ProbeWake
<1>24. CASE ProbeLock
  <2>1. pc' \in [Threads -> Positions] /\ using' \in [Threads -> Wallets \cup {Nothing}]
    BY <1>24 DEF ProbeLock, EntersOr, Positions
  <2>2. probe' \in [peer : Peers, saw : BOOLEAN]
    BY <1>24 DEF ProbeLock
  <2> QED BY <1>24, <2>1, <2>2 DEF ProbeLock, Positions
<1>25. CASE ProbeLook
  <2>1. probe' \in [peer : Peers, saw : BOOLEAN]
    <3>1. probe' = NoReading \/ \E saw \in BOOLEAN : probe' = [probe EXCEPT !.saw = saw]
      BY <1>25 DEF ProbeLook
    <3>2. CASE probe' = NoReading
      BY <3>2
    <3>3. ASSUME NEW saw \in BOOLEAN, probe' = [probe EXCEPT !.saw = saw]
          PROVE  probe' \in [peer : Peers, saw : BOOLEAN]
      <4>1. probe \in [peer : Peers, saw : BOOLEAN]
        BY DEF TypeOK
      <4> QED BY <3>3, <4>1, Seen
    <3> QED BY <3>1, <3>2, <3>3
  <2>2. pc' \in [Threads -> Positions] /\ using' \in [Threads -> Wallets \cup {Nothing}]
    BY <1>25 DEF ProbeLook, Positions
  <2> QED BY <1>25, <2>1, <2>2 DEF ProbeLook, Positions
<1>26. CASE ProbeStore
  <2>1. probe.saw \in BOOLEAN /\ probe.peer \in Peers
    BY DEF TypeOK
  <2> QED BY <1>26, <2>1 DEF ProbeStore
<1>27. CASE Stop
  BY <1>27 DEF Stop
<1>28. CASE Join
  BY <1>28 DEF Join
<1>29. CASE UnloadClose
  BY <1>29 DEF UnloadClose
<1>30. ASSUME NEW c \in Callers, Call(c) PROVE TypeOK'
  BY <1>30 DEF Call, Waiting
<1>31. ASSUME NEW c \in Callers, CallLock(c) PROVE TypeOK'
  BY <1>31 DEF CallLock, EntersOr
<1>32. ASSUME NEW c \in Callers, GiveUp(c) PROVE TypeOK'
  BY <1>32 DEF GiveUp
<1>33. ASSUME NEW c \in Callers, HistoryRefresh(c) PROVE TypeOK'
  BY <1>33 DEF HistoryRefresh
<1>34. ASSUME NEW c \in Callers, CallEnd(c) PROVE TypeOK'
  BY <1>34 DEF CallEnd
<1>35. CASE UNCHANGED vars
  BY <1>35 DEF vars
<1> QED
  BY <1>1, <1>2, <1>3, <1>4, <1>5, <1>6, <1>7, <1>8, <1>9, <1>10, <1>11,
    <1>12, <1>13, <1>14, <1>15, <1>16, <1>17, <1>18, <1>19, <1>20, <1>21,
      <1>22, <1>23, <1>24, <1>25, <1>26, <1>27, <1>28, <1>29, <1>30, <1>31,
        <1>32, <1>33, <1>34, <1>35
  DEF Next, WorkerStep, ProbeStep, CallStep, UnloadStep

(* Whoever comes in to own finds nobody inside, whoever comes in to share  *)
(* finds no owner.                                                         *)
LEMMA StepAlone ==
  ASSUME TypeOK, AloneInv, [Next]_vars
  PROVE  AloneInv'
<1> USE HandleAssumption
    DEF AloneInv, Inside, CanOwn, CanShare, Owned, Shared, TypeOK, Threads,
        Wallets, Peers, Nothing, NoReading, SharedScope, OwnScope, WaitToOwn,
        Positions,
        Goes, Works, Leaves, build, fields, probing, bounds
<1>1. CASE BeginJob
  BY <1>1 DEF BeginJob, Begins
<1>2. CASE BeginTick
  BY <1>2 DEF BeginTick, Begins
<1>3. CASE WorkerReturn
  BY <1>3 DEF WorkerReturn
<1>4. CASE OpenCheck
  BY <1>4 DEF OpenCheck
<1>5. CASE OpenEngine
  BY <1>5 DEF OpenEngine
<1>6. CASE OpenPublish
  BY <1>6 DEF OpenPublish
<1>7. CASE OpenRecord
  BY <1>7 DEF OpenRecord, PeerOf
<1>8. CASE OpenEnd
  BY <1>8 DEF OpenEnd
<1>9. CASE CloseLock
  BY <1>9 DEF CloseLock, EntersOr
<1>10. CASE CloseForget
  BY <1>10 DEF CloseForget, ForgetHandle
<1>11. CASE CloseEngine
  BY <1>11 DEF CloseEngine
<1>12. CASE CloseRecord
  BY <1>12 DEF CloseRecord, ForgetName
<1>13. CASE JobLock
  BY <1>13 DEF JobLock, EntersOr
<1>14. CASE JobEnd
  BY <1>14 DEF JobEnd
<1>15. CASE TickLock
  BY <1>15 DEF TickLock, EntersOr
<1>16. CASE TickEnd
  BY <1>16 DEF TickEnd
<1>17. CASE MoveOffline
  BY <1>17 DEF MoveOffline, EntersOr
<1>18. CASE MoveWait
  BY <1>18 DEF MoveWait
<1>19. CASE MoveLock
  BY <1>19 DEF MoveLock, EntersOr
<1>20. CASE MoveInit
  BY <1>20 DEF MoveInit
<1>21. CASE MoveRecord
  BY <1>21 DEF MoveRecord, PeerOf, ForgetConnected
<1>22. CASE ProbeReturn
  BY <1>22 DEF ProbeReturn, ProbeStops
<1>23. CASE ProbeWake
  BY <1>23 DEF ProbeWake
<1>24. CASE ProbeLock
  BY <1>24 DEF ProbeLock, EntersOr
<1>25. CASE ProbeLook
  BY <1>25 DEF ProbeLook
<1>26. CASE ProbeStore
  BY <1>26 DEF ProbeStore
<1>27. CASE Stop
  BY <1>27 DEF Stop
<1>28. CASE Join
  BY <1>28 DEF Join
<1>29. CASE UnloadClose
  BY <1>29 DEF UnloadClose
<1>30. ASSUME NEW c \in Callers, Call(c) PROVE AloneInv'
  BY <1>30 DEF Call, Waiting
<1>31. ASSUME NEW c \in Callers, CallLock(c) PROVE AloneInv'
  BY <1>31 DEF CallLock, EntersOr
<1>32. ASSUME NEW c \in Callers, GiveUp(c) PROVE AloneInv'
  BY <1>32 DEF GiveUp
<1>33. ASSUME NEW c \in Callers, HistoryRefresh(c) PROVE AloneInv'
  BY <1>33 DEF HistoryRefresh
<1>34. ASSUME NEW c \in Callers, CallEnd(c) PROVE AloneInv'
  BY <1>34 DEF CallEnd
<1>35. CASE UNCHANGED vars
  BY <1>35 DEF vars
<1> QED
  BY <1>1, <1>2, <1>3, <1>4, <1>5, <1>6, <1>7, <1>8, <1>9, <1>10, <1>11,
    <1>12, <1>13, <1>14, <1>15, <1>16, <1>17, <1>18, <1>19, <1>20, <1>21,
      <1>22, <1>23, <1>24, <1>25, <1>26, <1>27, <1>28, <1>29, <1>30, <1>31,
        <1>32, <1>33, <1>34, <1>35
  DEF Next, WorkerStep, ProbeStep, CallStep, UnloadStep

(* The pointer changes only while nobody else is inside, so that whoever   *)
(* is inside works with the published wallet.                              *)
LEMMA StepUsing ==
  ASSUME TypeOK, AloneInv, UsingInv, ClosedInv, [Next]_vars
  PROVE  UsingInv'
<1> USE HandleAssumption
    DEF AloneInv, UsingInv, ClosedInv, Inside, CanOwn, CanShare, Owned,
        Shared, TypeOK, Threads, Wallets, Peers, Nothing, NoReading,
        SharedScope, OwnScope, WaitToOwn, Positions,
        Goes, Works, Leaves, build, fields, probing, bounds
<1>1. CASE BeginJob
  BY <1>1 DEF BeginJob, Begins
<1>2. CASE BeginTick
  BY <1>2 DEF BeginTick, Begins
<1>3. CASE WorkerReturn
  BY <1>3 DEF WorkerReturn
<1>4. CASE OpenCheck
  BY <1>4 DEF OpenCheck
<1>5. CASE OpenEngine
  BY <1>5 DEF OpenEngine
<1>6. CASE OpenPublish
  BY <1>6 DEF OpenPublish
<1>7. CASE OpenRecord
  BY <1>7 DEF OpenRecord, PeerOf
<1>8. CASE OpenEnd
  BY <1>8 DEF OpenEnd
<1>9. CASE CloseLock
  BY <1>9 DEF CloseLock, EntersOr
<1>10. CASE CloseForget
  BY <1>10 DEF CloseForget, ForgetHandle
<1>11. CASE CloseEngine
  BY <1>11 DEF CloseEngine
<1>12. CASE CloseRecord
  BY <1>12 DEF CloseRecord, ForgetName
<1>13. CASE JobLock
  BY <1>13 DEF JobLock, EntersOr
<1>14. CASE JobEnd
  BY <1>14 DEF JobEnd
<1>15. CASE TickLock
  BY <1>15 DEF TickLock, EntersOr
<1>16. CASE TickEnd
  BY <1>16 DEF TickEnd
<1>17. CASE MoveOffline
  BY <1>17 DEF MoveOffline, EntersOr
<1>18. CASE MoveWait
  BY <1>18 DEF MoveWait
<1>19. CASE MoveLock
  BY <1>19 DEF MoveLock, EntersOr
<1>20. CASE MoveInit
  BY <1>20 DEF MoveInit
<1>21. CASE MoveRecord
  BY <1>21 DEF MoveRecord, PeerOf, ForgetConnected
<1>22. CASE ProbeReturn
  BY <1>22 DEF ProbeReturn, ProbeStops
<1>23. CASE ProbeWake
  BY <1>23 DEF ProbeWake
<1>24. CASE ProbeLock
  BY <1>24 DEF ProbeLock, EntersOr
<1>25. CASE ProbeLook
  BY <1>25 DEF ProbeLook
<1>26. CASE ProbeStore
  BY <1>26 DEF ProbeStore
<1>27. CASE Stop
  BY <1>27 DEF Stop
<1>28. CASE Join
  BY <1>28 DEF Join
<1>29. CASE UnloadClose
  BY <1>29 DEF UnloadClose
<1>30. ASSUME NEW c \in Callers, Call(c) PROVE UsingInv'
  BY <1>30 DEF Call, Waiting
<1>31. ASSUME NEW c \in Callers, CallLock(c) PROVE UsingInv'
  BY <1>31 DEF CallLock, EntersOr
<1>32. ASSUME NEW c \in Callers, GiveUp(c) PROVE UsingInv'
  BY <1>32 DEF GiveUp
<1>33. ASSUME NEW c \in Callers, HistoryRefresh(c) PROVE UsingInv'
  BY <1>33 DEF HistoryRefresh
<1>34. ASSUME NEW c \in Callers, CallEnd(c) PROVE UsingInv'
  BY <1>34 DEF CallEnd
<1>35. CASE UNCHANGED vars
  BY <1>35 DEF vars
<1> QED
  BY <1>1, <1>2, <1>3, <1>4, <1>5, <1>6, <1>7, <1>8, <1>9, <1>10, <1>11,
    <1>12, <1>13, <1>14, <1>15, <1>16, <1>17, <1>18, <1>19, <1>20, <1>21,
      <1>22, <1>23, <1>24, <1>25, <1>26, <1>27, <1>28, <1>29, <1>30, <1>31,
        <1>32, <1>33, <1>34, <1>35
  DEF Next, WorkerStep, ProbeStep, CallStep, UnloadStep

(* What is closed was withdrawn before, and no number is given twice.      *)
LEMMA StepClosed ==
  ASSUME TypeOK, AloneInv, UsingInv, ClosedInv, [Next]_vars
  PROVE  ClosedInv'
<1> USE HandleAssumption
    DEF AloneInv, UsingInv, ClosedInv, NoUseAfterClose, Inside, CanOwn,
        CanShare, Owned, Shared, TypeOK, Threads, Wallets, Peers, Nothing,
        NoReading, SharedScope, OwnScope, WaitToOwn, Positions,
        Goes, Works, Leaves, build, fields, probing, bounds
<1>1. CASE BeginJob
  BY <1>1 DEF BeginJob, Begins
<1>2. CASE BeginTick
  BY <1>2 DEF BeginTick, Begins
<1>3. CASE WorkerReturn
  BY <1>3 DEF WorkerReturn
<1>4. CASE OpenCheck
  BY <1>4 DEF OpenCheck
<1>5. CASE OpenEngine
  BY <1>5 DEF OpenEngine
<1>6. CASE OpenPublish
  <2>1. using[Worker] \notin closed /\ using[Worker] \in Wallets
    BY <1>6 DEF OpenPublish
  <2> QED BY <1>6, <2>1 DEF OpenPublish
<1>7. CASE OpenRecord
  BY <1>7 DEF OpenRecord, PeerOf
<1>8. CASE OpenEnd
  BY <1>8 DEF OpenEnd
<1>9. CASE CloseLock
  BY <1>9 DEF CloseLock, EntersOr
<1>10. CASE CloseForget
  BY <1>10 DEF CloseForget, ForgetHandle
<1>11. CASE CloseEngine
  <2>1. \A t \in Threads : using'[t] # using[Worker]
    BY <1>11 DEF CloseEngine
  <2>2. /\ m_wallet = Nothing /\ m_wallet' = m_wallet
        /\ closed' \in {closed, closed \cup {using[Worker]}}
    BY <1>11 DEF CloseEngine
  <2>3. \A w \in closed' : w <= jobs'
    BY <1>11, <2>2 DEF CloseEngine
  <2>4. NoUseAfterClose'
    BY <1>11, <2>1, <2>2 DEF CloseEngine
  <2> QED BY <1>11, <2>2, <2>3, <2>4 DEF CloseEngine
<1>12. CASE CloseRecord
  BY <1>12 DEF CloseRecord, ForgetName
<1>13. CASE JobLock
  BY <1>13 DEF JobLock, EntersOr
<1>14. CASE JobEnd
  BY <1>14 DEF JobEnd
<1>15. CASE TickLock
  BY <1>15 DEF TickLock, EntersOr
<1>16. CASE TickEnd
  BY <1>16 DEF TickEnd
<1>17. CASE MoveOffline
  BY <1>17 DEF MoveOffline, EntersOr
<1>18. CASE MoveWait
  BY <1>18 DEF MoveWait
<1>19. CASE MoveLock
  BY <1>19 DEF MoveLock, EntersOr
<1>20. CASE MoveInit
  BY <1>20 DEF MoveInit
<1>21. CASE MoveRecord
  BY <1>21 DEF MoveRecord, PeerOf, ForgetConnected
<1>22. CASE ProbeReturn
  BY <1>22 DEF ProbeReturn, ProbeStops
<1>23. CASE ProbeWake
  BY <1>23 DEF ProbeWake
<1>24. CASE ProbeLock
  BY <1>24 DEF ProbeLock, EntersOr
<1>25. CASE ProbeLook
  BY <1>25 DEF ProbeLook
<1>26. CASE ProbeStore
  BY <1>26 DEF ProbeStore
<1>27. CASE Stop
  BY <1>27 DEF Stop
<1>28. CASE Join
  BY <1>28 DEF Join
<1>29. CASE UnloadClose
  BY <1>29 DEF UnloadClose
<1>30. ASSUME NEW c \in Callers, Call(c) PROVE ClosedInv'
  BY <1>30 DEF Call, Waiting
<1>31. ASSUME NEW c \in Callers, CallLock(c) PROVE ClosedInv'
  BY <1>31 DEF CallLock, EntersOr
<1>32. ASSUME NEW c \in Callers, GiveUp(c) PROVE ClosedInv'
  BY <1>32 DEF GiveUp
<1>33. ASSUME NEW c \in Callers, HistoryRefresh(c) PROVE ClosedInv'
  BY <1>33 DEF HistoryRefresh
<1>34. ASSUME NEW c \in Callers, CallEnd(c) PROVE ClosedInv'
  BY <1>34 DEF CallEnd
<1>35. CASE UNCHANGED vars
  BY <1>35 DEF vars
<1> QED
  BY <1>1, <1>2, <1>3, <1>4, <1>5, <1>6, <1>7, <1>8, <1>9, <1>10, <1>11,
    <1>12, <1>13, <1>14, <1>15, <1>16, <1>17, <1>18, <1>19, <1>20, <1>21,
      <1>22, <1>23, <1>24, <1>25, <1>26, <1>27, <1>28, <1>29, <1>30, <1>31,
        <1>32, <1>33, <1>34, <1>35
  DEF Next, WorkerStep, ProbeStep, CallStep, UnloadStep

(* The probe stores while it is inside, so under the wallet on record.     *)
LEMMA StepRecord ==
  ASSUME TypeOK, AloneInv, UsingInv, ClosedInv, RecordInv, [Next]_vars
  PROVE  RecordInv'
<1> USE HandleAssumption
    DEF AloneInv, UsingInv, ClosedInv, RecordInv, Unrecorded, ReadingOfOpenWallet,
        Inside, CanOwn, CanShare, Owned, Shared, TypeOK, Threads, Wallets,
        Peers, Nothing, NoReading, SharedScope, OwnScope, WaitToOwn,
        Positions,
        Goes, Works, Leaves, build, fields, probing, bounds
<1>1. CASE BeginJob
  BY <1>1 DEF BeginJob, Begins
<1>2. CASE BeginTick
  BY <1>2 DEF BeginTick, Begins
<1>3. CASE WorkerReturn
  BY <1>3 DEF WorkerReturn
<1>4. CASE OpenCheck
  BY <1>4 DEF OpenCheck
<1>5. CASE OpenEngine
  BY <1>5 DEF OpenEngine
<1>6. CASE OpenPublish
  BY <1>6 DEF OpenPublish
<1>7. CASE OpenRecord
  BY <1>7 DEF OpenRecord, PeerOf
<1>8. CASE OpenEnd
  BY <1>8 DEF OpenEnd
<1>9. CASE CloseLock
  BY <1>9 DEF CloseLock, EntersOr
<1>10. CASE CloseForget
  BY <1>10 DEF CloseForget, ForgetHandle
<1>11. CASE CloseEngine
  BY <1>11 DEF CloseEngine
<1>12. CASE CloseRecord
  BY <1>12 DEF CloseRecord, ForgetName
<1>13. CASE JobLock
  BY <1>13 DEF JobLock, EntersOr
<1>14. CASE JobEnd
  BY <1>14 DEF JobEnd
<1>15. CASE TickLock
  BY <1>15 DEF TickLock, EntersOr
<1>16. CASE TickEnd
  BY <1>16 DEF TickEnd
<1>17. CASE MoveOffline
  BY <1>17 DEF MoveOffline, EntersOr
<1>18. CASE MoveWait
  BY <1>18 DEF MoveWait
<1>19. CASE MoveLock
  BY <1>19 DEF MoveLock, EntersOr
<1>20. CASE MoveInit
  BY <1>20 DEF MoveInit
<1>21. CASE MoveRecord
  BY <1>21 DEF MoveRecord, PeerOf, ForgetConnected
<1>22. CASE ProbeReturn
  BY <1>22 DEF ProbeReturn, ProbeStops
<1>23. CASE ProbeWake
  BY <1>23 DEF ProbeWake
<1>24. CASE ProbeLock
  BY <1>24 DEF ProbeLock, EntersOr
<1>25. CASE ProbeLook
  BY <1>25 DEF ProbeLook
<1>26. CASE ProbeStore
  BY <1>26 DEF ProbeStore
<1>27. CASE Stop
  BY <1>27 DEF Stop
<1>28. CASE Join
  BY <1>28 DEF Join
<1>29. CASE UnloadClose
  BY <1>29 DEF UnloadClose
<1>30. ASSUME NEW c \in Callers, Call(c) PROVE RecordInv'
  BY <1>30 DEF Call, Waiting
<1>31. ASSUME NEW c \in Callers, CallLock(c) PROVE RecordInv'
  BY <1>31 DEF CallLock, EntersOr
<1>32. ASSUME NEW c \in Callers, GiveUp(c) PROVE RecordInv'
  BY <1>32 DEF GiveUp
<1>33. ASSUME NEW c \in Callers, HistoryRefresh(c) PROVE RecordInv'
  BY <1>33 DEF HistoryRefresh
<1>34. ASSUME NEW c \in Callers, CallEnd(c) PROVE RecordInv'
  BY <1>34 DEF CallEnd
<1>35. CASE UNCHANGED vars
  BY <1>35 DEF vars
<1> QED
  BY <1>1, <1>2, <1>3, <1>4, <1>5, <1>6, <1>7, <1>8, <1>9, <1>10, <1>11,
    <1>12, <1>13, <1>14, <1>15, <1>16, <1>17, <1>18, <1>19, <1>20, <1>21,
      <1>22, <1>23, <1>24, <1>25, <1>26, <1>27, <1>28, <1>29, <1>30, <1>31,
        <1>32, <1>33, <1>34, <1>35
  DEF Next, WorkerStep, ProbeStep, CallStep, UnloadStep

(* What the probe saw is the peer that is dialled, up to a switch that will *)
(* wait for it before it dials another.                                    *)
LEMMA StepPeer ==
  ASSUME TypeOK, AloneInv, UsingInv, ClosedInv, PeerInv, [Next]_vars
  PROVE  PeerInv'
<1> USE HandleAssumption
    DEF AloneInv, UsingInv, ClosedInv, PeerInv, Unrecorded, ConnectedWhereDialled, Moves,
        Inside, CanOwn, CanShare, Owned, Shared, TypeOK, Threads, Wallets,
        Peers, Nothing, NoReading, SharedScope, OwnScope, WaitToOwn,
        Positions,
        Goes, Works, Leaves, build, fields, probing, bounds
<1>1. CASE BeginJob
  BY <1>1 DEF BeginJob, Begins
<1>2. CASE BeginTick
  BY <1>2 DEF BeginTick, Begins
<1>3. CASE WorkerReturn
  BY <1>3 DEF WorkerReturn
<1>4. CASE OpenCheck
  BY <1>4 DEF OpenCheck
<1>5. CASE OpenEngine
  BY <1>5 DEF OpenEngine
<1>6. CASE OpenPublish
  BY <1>6 DEF OpenPublish
<1>7. CASE OpenRecord
  BY <1>7 DEF OpenRecord, PeerOf
<1>8. CASE OpenEnd
  BY <1>8 DEF OpenEnd
<1>9. CASE CloseLock
  BY <1>9 DEF CloseLock, EntersOr
<1>10. CASE CloseForget
  BY <1>10 DEF CloseForget, ForgetHandle
<1>11. CASE CloseEngine
  BY <1>11 DEF CloseEngine
<1>12. CASE CloseRecord
  BY <1>12 DEF CloseRecord, ForgetName
<1>13. CASE JobLock
  BY <1>13 DEF JobLock, EntersOr
<1>14. CASE JobEnd
  BY <1>14 DEF JobEnd
<1>15. CASE TickLock
  BY <1>15 DEF TickLock, EntersOr
<1>16. CASE TickEnd
  BY <1>16 DEF TickEnd
<1>17. CASE MoveOffline
  BY <1>17 DEF MoveOffline, EntersOr
<1>18. CASE MoveWait
  BY <1>18 DEF MoveWait
<1>19. CASE MoveLock
  BY <1>19 DEF MoveLock, EntersOr
<1>20. CASE MoveInit
  BY <1>20 DEF MoveInit
<1>21. CASE MoveRecord
  <2>1. m_dialPeer' = dial' /\ m_daemonConnected' = FALSE
    BY <1>21 DEF MoveRecord, PeerOf, ForgetConnected
  <2>2. pc[Worker] = "move_record" /\ pc'[Worker] = "loop" /\ pc'[Probe] = pc[Probe]
    BY <1>21 DEF MoveRecord
  <2>3. probe' = probe /\ dial' = dial /\ m_wallet' = m_wallet
    BY <1>21 DEF MoveRecord
  <2>4. ConnectedWhereDialled'
    BY <2>1
  <2>5. m_wallet # Nothing
    BY <2>2
  <2>6. engineRaises' = engineRaises
    BY <1>21 DEF MoveRecord
  <2> QED BY <2>1, <2>2, <2>3, <2>4, <2>5, <2>6
<1>22. CASE ProbeReturn
  BY <1>22 DEF ProbeReturn, ProbeStops
<1>23. CASE ProbeWake
  BY <1>23 DEF ProbeWake
<1>24. CASE ProbeLock
  BY <1>24 DEF ProbeLock, EntersOr
<1>25. CASE ProbeLook
  BY <1>25 DEF ProbeLook
<1>26. CASE ProbeStore
  BY <1>26 DEF ProbeStore
<1>27. CASE Stop
  BY <1>27 DEF Stop
<1>28. CASE Join
  BY <1>28 DEF Join
<1>29. CASE UnloadClose
  BY <1>29 DEF UnloadClose
<1>30. ASSUME NEW c \in Callers, Call(c) PROVE PeerInv'
  BY <1>30 DEF Call, Waiting
<1>31. ASSUME NEW c \in Callers, CallLock(c) PROVE PeerInv'
  BY <1>31 DEF CallLock, EntersOr
<1>32. ASSUME NEW c \in Callers, GiveUp(c) PROVE PeerInv'
  BY <1>32 DEF GiveUp
<1>33. ASSUME NEW c \in Callers, HistoryRefresh(c) PROVE PeerInv'
  BY <1>33 DEF HistoryRefresh
<1>34. ASSUME NEW c \in Callers, CallEnd(c) PROVE PeerInv'
  BY <1>34 DEF CallEnd
<1>35. CASE UNCHANGED vars
  BY <1>35 DEF vars
<1> QED
  BY <1>1, <1>2, <1>3, <1>4, <1>5, <1>6, <1>7, <1>8, <1>9, <1>10, <1>11,
    <1>12, <1>13, <1>14, <1>15, <1>16, <1>17, <1>18, <1>19, <1>20, <1>21,
      <1>22, <1>23, <1>24, <1>25, <1>26, <1>27, <1>28, <1>29, <1>30, <1>31,
        <1>32, <1>33, <1>34, <1>35
  DEF Next, WorkerStep, ProbeStep, CallStep, UnloadStep

(* HandleInv and the types are inductive.                                  *)
LEMMA StepHandle == TypeOK /\ HandleInv /\ [Next]_vars => (TypeOK /\ HandleInv)'
<1> SUFFICES ASSUME TypeOK, HandleInv,
  [Next]_vars PROVE (TypeOK /\ HandleInv)'
  OBVIOUS
<1>1. AloneInv /\ UsingInv /\ ClosedInv /\ RecordInv /\ PeerInv
  BY DEF HandleInv
<1>2. TypeOK' /\ AloneInv'
  BY <1>1, StepTypes, StepAlone
<1>3. UsingInv' /\ ClosedInv'
  BY <1>1, StepUsing, StepClosed
<1>4. RecordInv' /\ PeerInv'
  BY <1>1, StepRecord, StepPeer
<1> QED
  BY <1>2, <1>3, <1>4 DEF HandleInv

(* The inductive invariant of the handle: m_handleMu keeps its promise of  *)
(* exclusive access, and the record about the wallet is kept in step.      *)
THEOREM HandleInductive == Spec => [](TypeOK /\ HandleInv)
BY InitHandle, StepHandle, PTL DEF Spec

(* Every variable of the handle, the record and the probe keeps its type.  *)
THEOREM TypeCorrect == Spec => []TypeOK
BY HandleInductive, PTL

(* No thread works with a wallet that doClose or shutdown handed to        *)
(* closeWallet.                                                            *)
THEOREM NoWalletUsedClosed == Spec => []NoUseAfterClose
<1>1. TypeOK /\ HandleInv => NoUseAfterClose
  BY DEF HandleInv, ClosedInv
<1> QED BY HandleInductive, <1>1, PTL

(* status() reports the probe's reading for the wallet it was read from.   *)
THEOREM ReadingsOfOpenWallet == Spec => []ReadingOfOpenWallet
<1>1. TypeOK /\ HandleInv => ReadingOfOpenWallet
  BY DEF HandleInv, RecordInv
<1> QED BY HandleInductive, <1>1, PTL

(* A reveal checks the password of the wallet whose seed it reads.         *)
THEOREM RevealsOwnWallet == Spec => []RevealOfOwnWallet
<1>1. TypeOK /\ HandleInv => RevealOfOwnWallet
  <2> SUFFICES ASSUME UsingInv, RecordInv, NEW c \in Callers, pc[c] = "reading"
               PROVE  \/ recorded \in {using[c], Nothing}
                      \/ engineRaises /\ pc[Worker] = "open_record"
    BY DEF HandleInv, RevealOfOwnWallet
  <2>1. c \in Threads /\ pc[c] \in Inside
    BY DEF Threads, Inside, SharedScope
  <2>2. using[c] = m_wallet /\ m_wallet # Nothing
    BY <2>1 DEF UsingInv
  <2>3. CASE pc[Worker] = "open_record"
    BY <2>3 DEF RecordInv, Unrecorded
  <2>4. CASE pc[Worker] # "open_record"
    BY <2>2, <2>4 DEF RecordInv
  <2> QED BY <2>3, <2>4
<1> QED BY HandleInductive, <1>1, PTL

(* "connected" is said only of the peer that the open wallet dials.        *)
THEOREM ConnectedOnlyWhereDialled == Spec => []ConnectedWhereDialled
<1>1. TypeOK /\ HandleInv => ConnectedWhereDialled
  <2>1. CASE engineRaises
    BY <2>1 DEF ConnectedWhereDialled
  <2>2. CASE ~engineRaises
    BY <2>2 DEF HandleInv, PeerInv
  <2> QED BY <2>1, <2>2
<1> QED BY HandleInductive, <1>1, PTL

(* README.md:45, "Reads keep answering through any switch": while the      *)
(* worker waits, inside its shared scope, for the request in flight,       *)
(* nobody can own the handle, so that no read gives up for it, where the   *)
(* mutex lets readers in past a writer that waits.                         *)
THEOREM ReadsAnswer == Spec => ReadsAnswerThroughSwitch
<1>1. ASSUME AloneInv, pc[Worker] = "moving", ~writerFirst, NEW c \in Callers
      PROVE  ~GiveUp(c)
  <2>1. Worker \in Threads /\ pc[Worker] \in Inside /\ pc[Worker] \notin OwnScope
    BY <1>1 DEF Threads, Inside, SharedScope, OwnScope
  <2>2. ~Owned
    BY <1>1, <2>1 DEF AloneInv, Owned
  <2> QED
    BY <1>1, <2>2 DEF GiveUp, CanShare
<1>2. AloneInv => [pc[Worker] = "moving" /\ ~writerFirst => \A c \in Callers : ~GiveUp(c)]_vars
  BY <1>1
<1> QED
  BY <1>2, HandleInductive, PTL DEF HandleInv, ReadsAnswerThroughSwitch

=============================================================================
