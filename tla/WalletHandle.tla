----------------------------- MODULE WalletHandle -----------------------------
(***************************************************************************)
(* Who may be inside wallet2, and when: m_handleMu, a shared and timed     *)
(* mutex that the worker, the probe, the calls of the host and the unload  *)
(* take around every use of the wallet handle.                             *)
(*                                                                         *)
(* The code locks by scope (std::shared_lock, std::unique_lock), so what a *)
(* thread holds is read off its position: the sets SharedScope, OwnScope   *)
(* and WaitToOwn below.  A shared_timed_mutex does not say whether readers *)
(* get in past a writer that waits: the libraries this module is built     *)
(* with differ, and the run tries both.                                    *)
(*                                                                         *)
(* wallet2 is external: which peer it dials, and whether its pointer may   *)
(* still be used.  A build says whether its calls raise at all: then any   *)
(* of them may, the scope lets its lock go, and the thread's catch takes   *)
(* it back to where it waits.  WalletEngine has the rest of the worker.    *)
(***************************************************************************)
EXTENDS Naturals

CONSTANTS
  Callers,      \* threads of the host that call in
  CallKinds,    \* the calls they make
  WriterFirst,  \* the policies of the mutex: may a waiting writer keep readers out
  EngineRaises, \* may a call of wallet2 raise: the builds tried
  MaxJobs,      \* bound: jobs of the worker
  MaxCalls,     \* bound: calls of the host
  MaxReadings,  \* bound: wake-ups of the probe
  Worker, Probe, Unload

Threads == Callers \cup {Worker, Probe, Unload}
Wallets == 1 .. MaxJobs
Nothing == 0

(* Where wallet2 dials: nowhere while offline, the node in the clear, or   *)
(* the SOCKS port.                                                         *)
Peers == {"none", "node", "socks"}

ASSUME HandleAssumption ==
  /\ CallKinds \subseteq {"read", "reveal", "history", "edit"}
  /\ WriterFirst \subseteq BOOLEAN /\ EngineRaises \subseteq BOOLEAN
  /\ MaxJobs \in Nat /\ MaxCalls \in Nat /\ MaxReadings \in Nat
  /\ Worker # Probe /\ Worker # Unload /\ Probe # Unload
  /\ {Worker, Probe, Unload} \cap Callers = {}

VARIABLES
  pc,           \* thread -> its position
  using,        \* thread -> the wallet whose handle it works with, 0 if none
  writerFirst,  \* the policy of this build
  engineRaises, \* whether wallet2 may raise in this one
  m_wallet,     \* the published handle, 0 for null
  closed,       \* wallets handed to closeWallet: their memory is gone
  recorded,     \* the wallet that m_walletName and its kin describe
  m_dialPeer, m_probed, m_daemonConnected,
  m_stop,
  dial,         \* the peer wallet2 dials
  probe,        \* the probe's locals: the peer it looks for, what it saw
  reading,      \* history: wallet and peer of the probe's last reading
  ownRows,      \* history: callers whose own refresh made the rows they read
  jobs, calls, readings

build   == <<writerFirst, engineRaises>>
fields  == <<recorded, m_dialPeer, m_probed, m_daemonConnected>>
probing == <<probe, reading>>
bounds  == <<jobs, calls, readings>>
vars    == <<pc, using, build, m_wallet, closed, fields, m_stop, dial,
             probing, ownRows, bounds>>

NoReading == [peer |-> "none", saw |-> FALSE]

Init ==
  /\ pc = [t \in Threads |->
             IF t = Worker THEN "loop" ELSE IF t = Probe THEN "sleep"
             ELSE IF t = Unload THEN "loaded" ELSE "out"]
  /\ using = [t \in Threads |-> Nothing]
  /\ writerFirst \in WriterFirst /\ engineRaises \in EngineRaises
  /\ m_wallet = Nothing /\ closed = {}
  /\ recorded = Nothing /\ m_dialPeer = "none"
  /\ m_probed = FALSE /\ m_daemonConnected = FALSE
  /\ m_stop = FALSE /\ dial = "none"
  /\ probe = NoReading
  /\ reading = [wallet |-> Nothing, peer |-> "none"]
  /\ ownRows = {}
  /\ jobs = 0 /\ calls = 0 /\ readings = 0

-----------------------------------------------------------------------------
(* The mutex.                                                              *)

(* Slips: the probe lets go before it stores what it saw; moveToTor keeps  *)
(* its shared lock while it asks for the exclusive one.                    *)
SharedButToStore == {"tick", "moving", "probing", "reading", "refreshing", "rows"}
SharedToTheEnd   == SharedButToStore \cup {"probe_store", "init_wait"}

SharedScope ==
  {"tick", "moving", "probing", "probe_store", "reading", "refreshing", "rows"}

(* A slip: the switch waits for the request in flight exclusively.         *)
OwnThroughSwitch == {"closing", "job", "init", "editing", "moving"}

OwnScope == {"closing", "job", "init", "editing"}

WaitToOwn ==
  {"check_wait", "publish_wait", "close_wait", "job_wait", "init_wait",
   "edit_wait", "unload_wait"}

Owned    == \E t \in Threads : pc[t] \in OwnScope
Shared   == \E t \in Threads : pc[t] \in SharedScope
CanOwn   == ~Owned /\ ~Shared
CanShare == ~Owned /\ (writerFirst => \A t \in Threads : pc[t] \notin WaitToOwn)

Goes(t, from, to) == pc[t] = from /\ pc' = [pc EXCEPT ![t] = to]
Works(t, w)       == using' = [using EXCEPT ![t] = w]
Leaves(t)         == Works(t, Nothing)

(* Every body begins by looking at m_wallet, under the lock it took.       *)
EntersOr(t, from, to, out) ==
  IF m_wallet = Nothing THEN Goes(t, from, out) /\ Leaves(t)
                        ELSE Goes(t, from, to) /\ Works(t, m_wallet)

-----------------------------------------------------------------------------
(* The worker: its loop, and what of an open, a close, a job and a tick    *)
(* touches the handle or what is recorded about it.                        *)

Begins(p) == Goes(Worker, "loop", p) /\ ~m_stop

BeginJob ==
  /\ jobs < MaxJobs
  /\ \E p \in {"check_wait", "close_wait", "job_wait"} : Begins(p)
  /\ jobs' = jobs + 1
  /\ UNCHANGED <<using, build, m_wallet, closed, fields, m_stop, dial,
                 probing, ownRows, calls, readings>>

BeginTick ==
  /\ Begins("tick_wait")
  /\ UNCHANGED <<using, build, m_wallet, closed, fields, m_stop, dial,
                 probing, ownRows, bounds>>

WorkerReturn ==
  /\ Goes(Worker, "loop", "returned") /\ m_stop
  /\ UNCHANGED <<using, build, m_wallet, closed, fields, m_stop, dial,
                 probing, ownRows, bounds>>

(* A wallet that is open refuses the job; so may any later check, and all  *)
(* that wallet2 does before the publication: nothing here has changed yet. *)
OpenCheck ==
  /\ CanOwn
  /\ \/ Goes(Worker, "check_wait", "loop")
     \/ Goes(Worker, "check_wait", "engine") /\ m_wallet = Nothing
  /\ UNCHANGED <<using, build, m_wallet, closed, fields, m_stop, dial,
                 probing, ownRows, bounds>>

(* wallet2 opens the wallet and begins to refresh it.                      *)
OpenEngine ==
  /\ Goes(Worker, "engine", "publish_wait")
  /\ Works(Worker, jobs)
  /\ dial' \in Peers
  /\ UNCHANGED <<build, m_wallet, closed, fields, m_stop, probing, ownRows, bounds>>

OpenPublish ==
  /\ Goes(Worker, "publish_wait", "open_record") /\ CanOwn
  /\ m_wallet' = using[Worker]
  /\ UNCHANGED <<using, build, closed, fields, m_stop, dial, probing, ownRows, bounds>>

(* A slip: where wallet2 dials over Tor is recorded as the onion's URL.    *)
UrlOf(d) == IF d = "socks" THEN "onion" ELSE d

PeerOf(d) == d

OpenRecord ==
  /\ Goes(Worker, "open_record", "open_end")
  /\ recorded' = using[Worker]
  /\ m_probed' = FALSE /\ m_daemonConnected' = FALSE
  /\ m_dialPeer' = PeerOf(dial)
  /\ UNCHANGED <<using, build, m_wallet, closed, m_stop, dial, probing, ownRows, bounds>>

(* The result of the job asks wallet2 once more, without the lock.         *)
OpenEnd ==
  /\ Goes(Worker, "open_end", "loop")
  /\ Leaves(Worker)
  /\ UNCHANGED <<build, m_wallet, closed, fields, m_stop, dial, probing, ownRows, bounds>>

CloseLock ==
  /\ CanOwn /\ EntersOr(Worker, "close_wait", "closing", "loop")
  /\ UNCHANGED <<build, m_wallet, closed, fields, m_stop, dial, probing, ownRows, bounds>>

(* A slip: the pointer stays.                                              *)
KeepHandle == UNCHANGED m_wallet

ForgetHandle == m_wallet' = Nothing

(* The closing event may throw, and the close goes no further.             *)
CloseForget ==
  /\ \/ Goes(Worker, "closing", "loop") /\ Leaves(Worker) /\ UNCHANGED m_wallet
     \/ Goes(Worker, "closing", "close_engine") /\ ForgetHandle /\ UNCHANGED using
  /\ UNCHANGED <<build, closed, fields, m_stop, dial, probing, ownRows, bounds>>

(* A store or a closeWallet that raises takes the record of the wallet     *)
(* with it: the job ends with the handle gone and the name still there.    *)
CloseEngine ==
  /\ Leaves(Worker)
  /\ \/ /\ Goes(Worker, "close_engine", "close_record")
        /\ closed' = closed \cup {using[Worker]} /\ dial' = "none"
     \/ /\ engineRaises /\ Goes(Worker, "close_engine", "loop")
        /\ UNCHANGED <<closed, dial>>
  /\ UNCHANGED <<build, m_wallet, fields, m_stop, probing, ownRows, bounds>>

(* A slip: the name of the wallet outlives it.                             *)
KeepName == UNCHANGED recorded

ForgetName == recorded' = Nothing

CloseRecord ==
  /\ Goes(Worker, "close_record", "loop")
  /\ ForgetName
  /\ m_probed' = FALSE /\ m_daemonConnected' = FALSE /\ m_dialPeer' = "none"
  /\ UNCHANGED <<using, build, m_wallet, closed, m_stop, dial, probing, ownRows, bounds>>

(* Rescan, build, commit, dispose, change the password.                    *)
JobLock ==
  /\ CanOwn /\ EntersOr(Worker, "job_wait", "job", "loop")
  /\ UNCHANGED <<build, m_wallet, closed, fields, m_stop, dial, probing, ownRows, bounds>>

JobEnd ==
  /\ Goes(Worker, "job", "loop") /\ Leaves(Worker)
  /\ UNCHANGED <<build, m_wallet, closed, fields, m_stop, dial, probing, ownRows, bounds>>

TickLock ==
  /\ CanShare /\ EntersOr(Worker, "tick_wait", "tick", "loop")
  /\ UNCHANGED <<build, m_wallet, closed, fields, m_stop, dial, probing, ownRows, bounds>>

(* The tick ends, or the wallet is to move to Tor or to another onion.     *)
TickEnd ==
  /\ \E p \in {"loop", "move_wait"} : Goes(Worker, "tick", p)
  /\ Leaves(Worker)
  /\ UNCHANGED <<build, m_wallet, closed, fields, m_stop, dial, probing, ownRows, bounds>>

(* Offline under a shared lock, held through the request in flight.        *)
MoveOffline ==
  /\ CanShare
  /\ \/ /\ EntersOr(Worker, "move_wait", "moving", "loop")
        /\ dial' = IF m_wallet = Nothing THEN dial ELSE "none"
     \/ /\ engineRaises /\ m_wallet # Nothing
        /\ Goes(Worker, "move_wait", "loop") /\ Leaves(Worker)
        /\ dial' \in {dial, "none"}
  /\ UNCHANGED <<build, m_wallet, closed, fields, m_stop, probing, ownRows, bounds>>

MoveWait ==
  /\ \/ Goes(Worker, "moving", "init_wait")
     \/ engineRaises /\ Goes(Worker, "moving", "loop")
  /\ Leaves(Worker)
  /\ UNCHANGED <<build, m_wallet, closed, fields, m_stop, dial, probing, ownRows, bounds>>

MoveLock ==
  /\ CanOwn /\ EntersOr(Worker, "init_wait", "init", "loop")
  /\ UNCHANGED <<build, m_wallet, closed, fields, m_stop, dial, probing, ownRows, bounds>>

(* The SOCKS port, or offline still: not ready, or init failed.  Either    *)
(* may be left by a raise, before the new route is on record.              *)
MoveInit ==
  /\ \/ Goes(Worker, "init", "move_record")
     \/ engineRaises /\ Goes(Worker, "init", "loop")
  /\ Leaves(Worker)
  /\ dial' \in {"socks", "none"}
  /\ UNCHANGED <<build, m_wallet, closed, fields, m_stop, probing, ownRows, bounds>>

(* A slip: the old reading stays until the probe's next.                   *)
KeepConnected == UNCHANGED m_daemonConnected

ForgetConnected == m_daemonConnected' = FALSE

MoveRecord ==
  /\ Goes(Worker, "move_record", "loop")
  /\ ForgetConnected
  /\ m_dialPeer' = PeerOf(dial)
  /\ UNCHANGED <<using, build, m_wallet, closed, recorded, m_probed, m_stop,
                 dial, probing, ownRows, bounds>>

WorkerStep ==
  \/ BeginJob \/ BeginTick \/ WorkerReturn
  \/ OpenCheck \/ OpenEngine \/ OpenPublish \/ OpenRecord \/ OpenEnd
  \/ CloseLock \/ CloseForget \/ CloseEngine \/ CloseRecord
  \/ JobLock \/ JobEnd
  \/ TickLock \/ TickEnd \/ MoveOffline \/ MoveWait \/ MoveLock \/ MoveInit \/ MoveRecord

-----------------------------------------------------------------------------
(* The probe.                                                              *)

(* A slip: m_stop is looked at only once a reading was stored.             *)
StopsAfterReading == m_stop /\ m_probed

ProbeStops == m_stop

ProbeReturn ==
  /\ Goes(Probe, "sleep", "returned") /\ ProbeStops
  /\ UNCHANGED <<using, build, m_wallet, closed, fields, m_stop, dial,
                 probing, ownRows, bounds>>

ProbeWake ==
  /\ Goes(Probe, "sleep", "probe_wait") /\ ~m_stop
  /\ readings < MaxReadings /\ readings' = readings + 1
  /\ UNCHANGED <<using, build, m_wallet, closed, fields, m_stop, dial,
                 probing, ownRows, jobs, calls>>

(* It waits no longer than kReadWait, and reads m_dialPeer once inside.    *)
ProbeLock ==
  /\ \/ CanShare /\ EntersOr(Probe, "probe_wait", "probing", "sleep")
     \/ ~CanShare /\ Goes(Probe, "probe_wait", "sleep") /\ UNCHANGED using
  /\ probe' = IF pc'[Probe] = "probing" THEN [NoReading EXCEPT !.peer = m_dialPeer]
              ELSE NoReading
  /\ UNCHANGED <<build, m_wallet, closed, fields, m_stop, dial, reading, ownRows, bounds>>

(* This process may have a socket to the peer only if wallet2 dials it, or *)
(* a wallet that a raise has left behind does.  synchronized and the       *)
(* height may raise, and the reading is dropped.                           *)
ProbeLook ==
  /\ \/ /\ Goes(Probe, "probing", "probe_store") /\ UNCHANGED using
        /\ \E saw \in BOOLEAN :
             /\ saw => probe.peer # "none" /\ (probe.peer = dial \/ engineRaises)
             /\ probe' = [probe EXCEPT !.saw = saw]
     \/ /\ engineRaises /\ Goes(Probe, "probing", "sleep") /\ Leaves(Probe)
        /\ probe' = NoReading
  /\ UNCHANGED <<build, m_wallet, closed, fields, m_stop, dial,
                 reading, ownRows, bounds>>

ProbeStore ==
  /\ Goes(Probe, "probe_store", "sleep") /\ Leaves(Probe)
  /\ m_probed' = TRUE /\ m_daemonConnected' = probe.saw
  /\ reading' = [wallet |-> using[Probe], peer |-> probe.peer]
  /\ probe' = NoReading
  /\ UNCHANGED <<build, m_wallet, closed, recorded, m_dialPeer, m_stop, dial,
                 ownRows, bounds>>

ProbeStep == ProbeReturn \/ ProbeWake \/ ProbeLock \/ ProbeLook \/ ProbeStore

-----------------------------------------------------------------------------
(* The calls of the host: "read" stands for status, the balances, address  *)
(* and subaddresses; "reveal" for the seed and the view key; "edit" for    *)
(* createSubaddress and setSubaddressLabel.                                *)

Waiting(k) ==
  CASE k = "read" -> "read_wait" [] k = "edit" -> "edit_wait"
    [] k \in {"reveal", "history"} -> "untimed_wait"

Call(c) ==
  /\ calls < MaxCalls /\ calls' = calls + 1
  /\ \E k \in CallKinds : Goes(c, "out", Waiting(k))
  /\ UNCHANGED <<using, build, m_wallet, closed, fields, m_stop, dial,
                 probing, ownRows, jobs, readings>>

CallLock(c) ==
  /\ \/ CanShare /\ EntersOr(c, "read_wait", "reading", "out")
     \/ CanShare /\ \E p \in {"reading", "refreshing"} : EntersOr(c, "untimed_wait", p, "out")
     \/ CanOwn /\ EntersOr(c, "edit_wait", "editing", "out")
  /\ UNCHANGED <<build, m_wallet, closed, fields, m_stop, dial, probing, ownRows, bounds>>

(* kReadWait has passed: the answer is "busy".                             *)
GiveUp(c) ==
  /\ Goes(c, "read_wait", "out") /\ ~CanShare
  /\ UNCHANGED <<using, build, m_wallet, closed, fields, m_stop, dial,
                 probing, ownRows, bounds>>

(* TransactionHistory_refresh fills the wallet's one history object anew,  *)
(* and the rows are then read out of it.                                   *)
HistoryRefresh(c) ==
  /\ Goes(c, "refreshing", "rows")
  /\ ownRows' = {c}
  /\ UNCHANGED <<using, build, m_wallet, closed, fields, m_stop, dial, probing, bounds>>

CallEnd(c) ==
  /\ \/ \E p \in {"reading", "rows", "editing"} : Goes(c, p, "out")
     \/ engineRaises /\ Goes(c, "refreshing", "out")
  /\ Leaves(c)
  /\ ownRows' = ownRows \ {c}
  /\ UNCHANGED <<build, m_wallet, closed, fields, m_stop, dial, probing, bounds>>

CallStep(c) == CallLock(c) \/ GiveUp(c) \/ HistoryRefresh(c) \/ CallEnd(c)

-----------------------------------------------------------------------------
(* shutdown, on the thread of the host that unloads the module.            *)

Stop ==
  /\ Goes(Unload, "loaded", "joining")
  /\ m_stop' = TRUE
  /\ UNCHANGED <<using, build, m_wallet, closed, fields, dial, probing, ownRows, bounds>>

Join ==
  /\ Goes(Unload, "joining", "unload_wait")
  /\ pc[Worker] = "returned" /\ pc[Probe] = "returned"
  /\ UNCHANGED <<using, build, m_wallet, closed, fields, m_stop, dial,
                 probing, ownRows, bounds>>

UnloadClose ==
  /\ Goes(Unload, "unload_wait", "unloaded") /\ CanOwn
  /\ closed' = closed \cup ({m_wallet} \ {Nothing})
  /\ m_wallet' = Nothing
  /\ UNCHANGED <<using, build, fields, m_stop, dial, probing, ownRows, bounds>>

UnloadStep == Join \/ UnloadClose

-----------------------------------------------------------------------------

Next ==
  \/ WorkerStep \/ ProbeStep
  \/ \E c \in Callers : Call(c) \/ CallStep(c)
  \/ Stop \/ UnloadStep

Spec == Init /\ [][Next]_vars

(* wallet2 returns, a lock that stays free is taken, and a call whose lock *)
(* is free again and again, between the ticks, gets it.  Nobody has to     *)
(* call, to submit a job or to unload.                                     *)
LivelySpec ==
  /\ Spec
  /\ WF_vars(WorkerStep) /\ WF_vars(ProbeStep) /\ WF_vars(UnloadStep)
  /\ \A c \in Callers : SF_vars(CallStep(c))

(* The same, save that a job may stay inside wallet2 for as long as the    *)
(* node lets it: a build fetches decoys, a commit sends.                   *)
BusySpec ==
  /\ Spec
  /\ WF_vars(pc[Worker] # "job" /\ WorkerStep) /\ WF_vars(ProbeStep) /\ WF_vars(UnloadStep)
  /\ \A c \in Callers : SF_vars(CallStep(c))

-----------------------------------------------------------------------------
(* Properties.                                                             *)

Positions ==
  SharedScope \cup OwnScope \cup WaitToOwn \cup
  {"loop", "engine", "open_record", "open_end", "close_engine", "close_record",
   "tick_wait", "move_wait", "move_record", "returned", "sleep", "probe_wait",
   "out", "read_wait", "untimed_wait", "loaded", "joining", "unloaded"}

(* Every variable keeps its type; in particular m_dialPeer is a peer.      *)
TypeOK ==
  /\ pc \in [Threads -> Positions]
  /\ using \in [Threads -> Wallets \cup {Nothing}]
  /\ writerFirst \in BOOLEAN /\ engineRaises \in BOOLEAN
  /\ m_wallet \in Wallets \cup {Nothing} /\ recorded \in Wallets \cup {Nothing}
  /\ closed \subseteq Wallets
  /\ m_dialPeer \in Peers /\ dial \in Peers
  /\ m_probed \in BOOLEAN /\ m_daemonConnected \in BOOLEAN /\ m_stop \in BOOLEAN
  /\ probe \in [peer : Peers, saw : BOOLEAN]
  /\ reading \in [wallet : Wallets \cup {Nothing}, peer : Peers]
  /\ ownRows \subseteq Callers
  /\ jobs \in 0 .. MaxJobs /\ calls \in 0 .. MaxCalls /\ readings \in 0 .. MaxReadings

(* No thread works with a wallet that was handed to closeWallet, whether   *)
(* doClose or shutdown closed it: the memory is gone.                      *)
NoUseAfterClose == \A t \in Threads : using[t] \notin closed

(* wallet_runtime.cpp:367, "a close in between would otherwise get this    *)
(* wallet's reading": what the probe stored, status() reports for the      *)
(* wallet it was read from, save in the moment between the publication of  *)
(* a handle and its record.                                                *)
ReadingOfOpenWallet ==
  m_probed /\ pc[Worker] # "open_record" =>
    reading.wallet = recorded /\ recorded # Nothing

(* revealSeed and revealViewKey check the password against the keys file   *)
(* of m_walletName and then read the seed out of m_wallet: the password of *)
(* one wallet must never open the seed of another, also in the moment in   *)
(* which a new wallet is published and not yet on record.  A close that    *)
(* raises leaves its name on record for that moment of the next open.      *)
RevealOfOwnWallet ==
  \A c \in Callers :
    pc[c] = "reading" =>
      \/ recorded \in {using[c], Nothing}
      \/ engineRaises /\ pc[Worker] = "open_record"

(* From the moment wallet2 goes offline to the record of the new route.    *)
Moves == {"moving", "init_wait", "init", "move_record"}

(* status() says "connected" only of the peer the open wallet dials: no    *)
(* reading of the catch-up node outlives the move to Tor, save a move that *)
(* wallet2 cut short by raising.                                           *)
ConnectedWhereDialled ==
  m_daemonConnected /\ m_wallet # Nothing
      /\ pc[Worker] \notin Moves /\ ~engineRaises =>
    reading.peer = dial /\ m_dialPeer = dial

(* What the three rest on.  A thread that owns the handle is alone with it; *)
(* who is inside works with the published wallet, who is not with none;    *)
(* the worker alone publishes and withdraws, and never a number twice.     *)
Inside == SharedScope \cup OwnScope

AloneInv ==
  \A t, u \in Threads : pc[t] \in OwnScope /\ t # u => pc[u] \notin Inside

UsingInv ==
  /\ \A t \in Threads : pc[t] \in Inside => using[t] = m_wallet /\ m_wallet # Nothing
  /\ \A t \in Threads \ {Worker} : pc[t] \notin Inside => using[t] = Nothing
  /\ pc[Worker] \in {"open_record", "open_end"} =>
       using[Worker] = m_wallet /\ m_wallet # Nothing
  /\ pc[Worker] \in {"publish_wait", "close_engine"} =>
       m_wallet = Nothing /\ using[Worker] # Nothing
  /\ pc[Worker] \notin Inside \cup {"publish_wait", "open_record", "open_end", "close_engine"} =>
       using[Worker] = Nothing

ClosedInv ==
  /\ NoUseAfterClose /\ m_wallet \notin closed
  /\ m_wallet <= jobs /\ using[Worker] <= jobs /\ \A w \in closed : w <= jobs
  /\ pc[Worker] \in {"check_wait", "engine"} =>
       m_wallet < jobs /\ \A w \in closed : w < jobs
  /\ pc[Worker] \in {"engine", "close_record"} => m_wallet = Nothing
  /\ pc[Worker] = "move_record" => m_wallet # Nothing
  /\ pc[Unload] \in {"unload_wait", "unloaded"} =>
       pc[Worker] = "returned" /\ pc[Probe] = "returned"

(* Between a publication or a withdrawal and its record there is nothing   *)
(* on record.                                                              *)
Unrecorded ==
  \/ pc[Worker] = "open_record"
  \/ m_wallet = Nothing /\ pc[Worker] \notin {"close_engine", "close_record"}
        /\ pc[Unload] # "unloaded"

(* What is recorded is about the published wallet and what it dials, save  *)
(* between the two steps that change the one and the other, and where a    *)
(* raise has left the second of them out.                                  *)
RecordInv ==
  /\ m_wallet # Nothing /\ pc[Worker] # "open_record" => recorded = m_wallet
  /\ Unrecorded /\ ~engineRaises => recorded = Nothing
  /\ ReadingOfOpenWallet

PeerInv ==
  ~engineRaises =>
    /\ m_wallet # Nothing /\ pc[Worker] \notin Moves \cup {"open_record"} =>
         m_dialPeer = dial
    /\ Unrecorded => m_dialPeer = "none" /\ ~m_daemonConnected
    /\ pc[Worker] = "open_record" /\ pc[Probe] \in Inside => probe.peer = "none"
    /\ pc[Probe] = "probe_store" /\ probe.saw =>
         /\ probe.peer # "none"
         /\ probe.peer = dial \/ pc[Worker] \in {"moving", "init_wait"}
    /\ ConnectedWhereDialled

HandleInv == AloneInv /\ UsingInv /\ ClosedInv /\ RecordInv /\ PeerInv

(* README.md:45, "Reads keep answering through any switch, which waits for *)
(* the request in flight under a shared lock": no read gives up while the  *)
(* switch waits, where the mutex lets readers in past a waiting writer.    *)
ReadsAnswerThroughSwitch ==
  [][pc[Worker] = "moving" /\ ~writerFirst => \A c \in Callers : ~GiveUp(c)]_vars

(* wallet_runtime.h:117, "Every mutation takes it uniquely; reads share    *)
(* it": the rows a history() reads are those its own refresh has made.     *)
HistoryStable ==
  \A c \in Callers : pc[c] = "rows" => c \in ownRows

(* Every call of the host is answered: no thread waits for a lock that it  *)
(* holds, or that a thread it waits for holds.                             *)
EveryCallReturns == \A c \in Callers : pc[c] # "out" ~> pc[c] = "out"

(* wallet_runtime.cpp:77, "A read never waits longer than this for the     *)
(* wallet": a read that waits is let in or gives up, whatever the worker   *)
(* does meanwhile.                                                         *)
ReadsHaveDeadline ==
  \A c \in Callers :
    pc[c] \in {"read_wait", "untimed_wait"}
      ~> pc[c] \notin {"read_wait", "untimed_wait"}

(* shutdown joins both threads and closes the wallet: neither thread waits *)
(* for what the other, or a call, does not give back.                      *)
UnloadEnds == m_stop ~> pc[Unload] = "unloaded"

=============================================================================
