----------------------------- MODULE WalletEngine -----------------------------
(***************************************************************************)
(* The worker thread of the wallet engine: the job bodies that open,       *)
(* close, rescan, send and change the password, the idle tick, and the     *)
(* move of an open wallet onto Tor.                                        *)
(*                                                                         *)
(* Two parties act between any two steps of the worker.  wallet2's own     *)
(* refresh thread asks a daemon for blocks, and a daemon may hold such a   *)
(* request for as long as it likes.  The node module answers differently   *)
(* each time it is asked, and keeps the locks it is told to keep when this *)
(* process dies.                                                           *)
(*                                                                         *)
(* The worker is sequential, so its position is one program counter.  A    *)
(* step ends where another party can see or change something: a call into  *)
(* wallet2 that waits, an answer of the node module, the publication of a  *)
(* pointer, a notification, an event.                                      *)
(***************************************************************************)
EXTENDS NodePolicy, Naturals

CONSTANTS
  Networks,       \* networks a wallet may be opened on
  Answers,        \* the answers the node module may give
  Kinds,          \* the kinds of job that clients submit
  MaxJobs,        \* bound: jobs over the whole run
  MaxTx,          \* bound: transactions built per instance of the module
  MaxHeight,      \* bound: wallet height
  MaxReloads,     \* bound: crashes and orderly unloads
  GiveUp,         \* kCatchUpGiveUp, in clock units
  AskEvery,       \* kTorAskEvery, in clock units
  FaultSets       \* which calls may fail, one set for each kind of run

(* What may fail: an event, which crosses IPC, may throw; a notice to the  *)
(* node module may be lost, notifyOpen swallows it; wallet2 may raise past *)
(* the C interface, in any call; MONERO_Wallet_init may return false; a    *)
(* daemon may take a transaction and its reply not come back.              *)
Faults == {"emit", "notify", "engine", "init", "reply"}

(* "open" stands for open_wallet, create_wallet, restore_from_seed and     *)
(* restore_from_keys, which share doOpenLike.                              *)
JobKinds ==
  {"open", "close_wallet", "rescan", "create_transaction",
   "commit_transaction", "dispose_transaction", "change_password"}

ASSUME EngineAssumption ==
  /\ Answers \subseteq Answer
  /\ Kinds \subseteq JobKinds
  /\ Networks # {}
  /\ MaxJobs \in Nat /\ MaxTx \in Nat /\ MaxHeight \in Nat /\ MaxReloads \in Nat
  /\ GiveUp \in Nat \ {0} /\ AskEvery \in Nat \ {0}
  /\ FaultSets \subseteq SUBSET Faults

VARIABLES
  (* The worker's position and locals.                                     *)
  pc, job, served, node, net, tickSynced, abandon, m_stop,
  (* WalletRuntime's fields.  m_wallet is 0 when null and otherwise names  *)
  (* the job that opened the wallet; the two ages are the time since       *)
  (* m_progressAt and since m_torAskedAt.                                  *)
  m_state, m_wallet, m_route, m_network, m_torUrl, m_locksReset,
  m_progressHeight, progressAge, askedAge,
  (* m_pendingTx maps each handle to the wallet that built it, 0 if none.  *)
  m_pendingTx, m_nextTx,
  (* wallet2, an external library: where it dials, whether it is offline,  *)
  (* whether its refresh thread may ask, the request in flight, what it    *)
  (* answers for height and synchronized, and how long ago a block came.   *)
  dial, offline, refreshing, inflight, synced, height, blockAge,
  (* The node module's lock per network, which outlives this process.      *)
  nodeLock,
  (* History: what became of each transaction, and over what the decoy     *)
  (* requests and broadcasts of the open wallet went.                      *)
  fate, sendVias,
  (* The runs of the program: how many so far, and what may fail in them.  *)
  reloads, faults

locals   == <<job, served, node, net, tickSynced, abandon, m_stop>>
session  == <<m_wallet, m_route, m_network, m_torUrl>>
progress == <<m_progressHeight, progressAge, askedAge>>
locks    == <<m_locksReset, nodeLock>>
sends    == <<m_pendingTx, m_nextTx, fate, sendVias>>
wallet2  == <<dial, offline, refreshing, inflight, synced, height, blockAge>>
runs     == <<reloads, faults>>

vars == <<pc, locals, m_state, session, progress, locks, sends, wallet2, runs>>

EmitMayFail    == "emit" \in faults
NotifyMayFail  == "notify" \in faults
EngineMayThrow == "engine" \in faults
InitMayFail    == "init" \in faults
ReplyMayBeLost == "reply" \in faults

NoWallet == 0
TxHandles == 1 .. MaxTx

(* "sent" is broadcast and reported so, "unsure" is broadcast and reported *)
(* as failed, "again" is broadcast after it was reported as sent.          *)
Fates == {"unsent", "unsure", "sent", "again"}

WalletStates == {"no_wallet", "opening", "syncing", "ready", "closing", "failed"}

Labels ==
  JobKinds \cup
  {"idle", "done", "failed", "stopping", "stopped",
   "open_engine", "open_init", "open_connect", "open_publish", "open_record",
   "open_notify", "open_syncing",
   "close_engine", "close_join", "close_record", "close_notify", "close_final",
   "tick", "tick_ask", "tick_flip",
   "move", "move_offline", "move_wait", "move_init", "moved", "parked",
   "move_emit"}

Init ==
  /\ pc = "idle" /\ job = "none" /\ served = 0
  /\ node = NoAnswer /\ net \in Networks
  /\ tickSynced = FALSE /\ abandon = FALSE /\ m_stop = FALSE
  /\ m_state = "no_wallet" /\ m_wallet = NoWallet /\ m_route = "direct"
  /\ m_network = net /\ m_torUrl = NoUrl /\ m_locksReset = FALSE
  /\ m_progressHeight = 0 /\ progressAge = 0 /\ askedAge = 0
  /\ m_pendingTx = [h \in TxHandles |-> NoWallet] /\ m_nextTx = 1
  /\ dial = NoDial /\ offline = FALSE /\ refreshing = FALSE
  /\ inflight = NoDial /\ synced = FALSE /\ height = 0 /\ blockAge = 0
  /\ nodeLock = [n \in Networks |-> FALSE]
  /\ fate = [h \in TxHandles |-> "unsent"] /\ sendVias = {}
  /\ reloads = 0 /\ faults \in FaultSets

-----------------------------------------------------------------------------
(* Steps shared by several handlers.                                       *)

Step(from, to) == pc = from /\ pc' = to

(* An exception: run() turns it into a failed job; threadMain drops one    *)
(* that leaves the tick.                                                   *)
Thrown == IF job = "tick" THEN "idle" ELSE "failed"

(* A call of wallet2 raises: what the handler did before it stays done.    *)
Raises(from, to) == EngineMayThrow /\ Step(from, to)

(* setState assigns m_state first and then emits; the emit is not guarded. *)
SetState(s, from, to) ==
  /\ pc = from
  /\ m_state' = s
  /\ pc' \in {to} \cup (IF EmitMayFail THEN {Thrown} ELSE {})

NotifyOpen(n, open) ==
  nodeLock' \in {[nodeLock EXCEPT ![n] = open]}
                  \cup (IF NotifyMayFail THEN {nodeLock} ELSE {})

(* A slip: the flag is set, the locks are not cleared.                     *)
ResetLocksNever == m_locksReset' = TRUE /\ UNCHANGED nodeLock

(* The first job or tick of this instance clears every network's lock.     *)
ResetLocksOnce ==
  /\ m_locksReset' = TRUE
  /\ nodeLock' \in
       IF m_locksReset THEN {nodeLock}
       ELSE {[n \in Networks |-> n \in lost /\ nodeLock[n]] :
               lost \in IF NotifyMayFail THEN SUBSET Networks ELSE {{}}}

(* A slip: the gate knows only the catch-up.                               *)
SendsWaitWhileCatchingUp == m_route = "catch_up"

SendsWaitForTor == m_route \in {"catch_up", "waiting_for_tor"}

(* The wallet2 object is gone, and its refresh thread with it.             *)
NoEngine ==
  /\ dial' = NoDial /\ offline' = FALSE /\ refreshing' = FALSE
  /\ inflight' = NoDial /\ synced' = FALSE /\ height' = 0 /\ blockAge' = 0

-----------------------------------------------------------------------------
(* The loop: a job if one is queued, else a tick.                          *)

(* A slip: the flag is looked at only when a job is taken.                 *)
LoopsRegardless == TRUE

Loops == ~m_stop

BeginJob(k) ==
  /\ Step("idle", k)
  /\ ~m_stop
  /\ served < MaxJobs
  /\ served' = served + 1
  /\ job' = k
  /\ ResetLocksOnce
  /\ UNCHANGED <<node, net, tickSynced, abandon, m_stop, m_state, session,
                 progress, sends, wallet2, runs>>

BeginTick ==
  /\ Step("idle", "tick")
  /\ Loops
  /\ job' = "tick" /\ node' = NoAnswer /\ tickSynced' = FALSE /\ abandon' = FALSE
  /\ ResetLocksOnce
  /\ UNCHANGED <<served, net, m_stop, m_state, session, progress, sends,
                 wallet2, runs>>

(* run() records the outcome and goes back to the loop.                    *)
Settle ==
  /\ pc \in {"done", "failed"}
  /\ pc' = "idle"
  /\ job' = "none"
  /\ node' = NoAnswer
  /\ UNCHANGED <<served, net, tickSynced, abandon, m_stop, m_state, session,
                 progress, locks, sends, wallet2, runs>>

-----------------------------------------------------------------------------
(* doOpenLike.                                                             *)

(* A slip: the job fails, and the state stays as the open left it.         *)
OpenFailsSilently(from) == Step(from, "failed") /\ UNCHANGED m_state

OpenFails(from) == SetState("no_wallet", from, "failed")

(* A bad name, an unknown network, a refusal by the node policy and an     *)
(* open wallet all fail the job before anything is touched.                *)
OpenCheck ==
  /\ \/ /\ Step("open", "failed")
        /\ UNCHANGED <<m_state, node, net>>
     \/ /\ m_wallet = NoWallet
        /\ \E a \in Answers, n \in Networks :
             /\ ~Refuses(a)
             /\ node' = a /\ net' = n
        /\ SetState("opening", "open", "open_engine")
  /\ UNCHANGED <<job, served, tickSynced, abandon, m_stop, session, progress,
                 locks, sends, wallet2, runs>>

(* The file is missing or already there, wallet2 refuses it, or it belongs *)
(* to another network; or wallet2 loads it, at whatever height it holds.   *)
OpenEngine ==
  /\ \/ /\ OpenFails("open_engine")
        /\ UNCHANGED wallet2
     \/ /\ Step("open_engine", "open_init")
        /\ height' \in 0 .. MaxHeight
        /\ dial' = NoDial /\ offline' = FALSE /\ refreshing' = FALSE
        /\ inflight' = NoDial /\ synced' = FALSE /\ blockAge' = 0
        /\ UNCHANGED m_state
     \/ /\ Raises("open_engine", "failed")
        /\ UNCHANGED <<m_state, wallet2>>
  /\ UNCHANGED <<locals, session, progress, locks, sends, runs>>

(* Only a node module from before "Use Tor for" has the open wait for a    *)
(* connection.  A raise before the handle is published leaves a wallet2    *)
(* object that nobody will close.                                          *)
OpenInit ==
  /\ \/ /\ Step("open_init", IF RouteFor(node) = "tor" /\ ~node.torUse
                             THEN "open_connect" ELSE "open_publish")
        /\ dial' = DialFor(node)
        /\ offline' = (RouteFor(node) = "waiting_for_tor")
        /\ UNCHANGED <<m_state, refreshing, inflight, synced, height, blockAge>>
     \/ /\ InitMayFail
        /\ OpenFails("open_init")
        /\ NoEngine
     \/ /\ Raises("open_init", "failed")
        /\ \/ UNCHANGED <<dial, offline>>
           \/ /\ dial' = DialFor(node)
              /\ offline' \in {offline, RouteFor(node) = "waiting_for_tor"}
        /\ UNCHANGED <<m_state, refreshing, inflight, synced, height, blockAge>>
  /\ UNCHANGED <<locals, session, progress, locks, sends, runs>>

OpenConnect ==
  /\ \/ /\ Step("open_connect", "open_publish")
        /\ UNCHANGED <<m_state, wallet2>>
     \/ /\ node.proxyRequired
        /\ OpenFails("open_connect")
        /\ NoEngine
     \/ /\ Raises("open_connect", "failed")
        /\ UNCHANGED <<m_state, wallet2>>
  /\ UNCHANGED <<locals, session, progress, locks, sends, runs>>

(* The refresh starts before any other thread can see the handle, and goes *)
(* on if what follows it raises.                                           *)
OpenPublish ==
  /\ \/ /\ Step("open_publish", "open_record")
        /\ refreshing' = (RouteFor(node) # "waiting_for_tor")
        /\ m_wallet' = served
     \/ /\ Raises("open_publish", "failed")
        /\ refreshing' \in {refreshing, RouteFor(node) # "waiting_for_tor"}
        /\ UNCHANGED m_wallet
  /\ UNCHANGED <<locals, m_state, m_route, m_network, m_torUrl, progress, locks,
                 sends, dial, offline, inflight, synced, height, blockAge, runs>>

OpenRecord ==
  /\ Step("open_record", "open_notify")
  /\ m_network' = net
  /\ m_route' = RouteFor(node)
  /\ m_torUrl' = IF RouteFor(node) = "tor" THEN node.url ELSE NoUrl
  /\ m_progressHeight' = 0 /\ progressAge' = 0 /\ askedAge' = 0
  /\ sendVias' = {}
  /\ UNCHANGED <<locals, m_state, m_wallet, locks, m_pendingTx, m_nextTx,
                 fate, wallet2, runs>>

OpenNotify ==
  /\ Step("open_notify", "open_syncing")
  /\ NotifyOpen(net, TRUE)
  /\ UNCHANGED <<locals, m_state, session, progress, m_locksReset, sends,
                 wallet2, runs>>

(* A slip: a check of the loaded wallet comes after its publication.       *)
OpenSyncingChecksLast ==
  /\ SetState("syncing", "open_syncing", "done") \/ OpenFails("open_syncing")
  /\ UNCHANGED <<locals, session, progress, locks, sends, wallet2, runs>>

(* The result names the kind of the wallet, which wallet2 is asked last.   *)
OpenSyncing ==
  /\ \/ SetState("syncing", "open_syncing", "done")
     \/ Raises("open_syncing", "failed") /\ m_state' = "syncing"
  /\ UNCHANGED <<locals, session, progress, locks, sends, wallet2, runs>>

-----------------------------------------------------------------------------
(* doClose.  It fails before it starts without a wallet, and when the      *)
(* "closing" event throws.  Past that the pointer is gone for good.        *)

(* A slip: the handles outlive their wallet.                               *)
KeepPendingTx == UNCHANGED m_pendingTx

ClearPendingTx == m_pendingTx' = [h \in TxHandles |-> NoWallet]

CloseBegin ==
  /\ \/ /\ m_wallet = NoWallet
        /\ Step("close_wallet", "failed")
        /\ UNCHANGED <<m_state, m_wallet, m_pendingTx>>
     \/ /\ m_wallet # NoWallet
        /\ SetState("closing", "close_wallet", "close_engine")
        /\ IF pc' = "close_engine"
           THEN /\ m_wallet' = NoWallet
                /\ ClearPendingTx
           ELSE UNCHANGED <<m_wallet, m_pendingTx>>
  /\ UNCHANGED <<locals, m_route, m_network, m_torUrl, progress, locks,
                 m_nextTx, fate, sendVias, wallet2, runs>>

(* closeWallet stops the refresh and then waits out a request in flight.   *)
(* The store and closeWallet may raise and leave the engine running with   *)
(* nobody to end it.                                                       *)
CloseEngine ==
  /\ \/ /\ Step("close_engine", "close_join")
        /\ refreshing' = FALSE
     \/ /\ Raises("close_engine", "failed")
        /\ refreshing' \in {refreshing, FALSE}
  /\ UNCHANGED <<locals, m_state, session, progress, locks, sends, dial,
                 offline, inflight, synced, height, blockAge, runs>>

CloseJoin ==
  /\ \/ /\ Step("close_join", "close_record")
        /\ inflight = NoDial
        /\ NoEngine
     \/ /\ Raises("close_join", "failed")
        /\ UNCHANGED wallet2
  /\ UNCHANGED <<locals, m_state, session, progress, locks, sends, runs>>

CloseRecord ==
  /\ Step("close_record", "close_notify")
  /\ m_route' = "direct"
  /\ UNCHANGED <<locals, m_state, m_wallet, m_network, m_torUrl, progress,
                 locks, sends, wallet2, runs>>

CloseNotify ==
  /\ Step("close_notify", "close_final")
  /\ NotifyOpen(m_network, FALSE)
  /\ UNCHANGED <<locals, m_state, session, progress, m_locksReset, sends,
                 wallet2, runs>>

(* A store that failed inside closeWallet fails the job; the wallet is     *)
(* closed all the same.                                                    *)
CloseFinal ==
  /\ \E outcome \in {"done", "failed"} :
       SetState("no_wallet", "close_final", outcome)
  /\ UNCHANGED <<locals, session, progress, locks, sends, wallet2, runs>>

-----------------------------------------------------------------------------
(* doRescan, doCreateTransaction, doCommit, doDispose, doChangePassword.   *)

(* wallet2 starts over from the restore height.                            *)
Rescan ==
  /\ \/ /\ m_wallet = NoWallet
        /\ Step("rescan", "failed")
        /\ UNCHANGED <<m_state, height, synced>>
     \/ /\ m_wallet # NoWallet
        /\ height' = 0
        /\ synced' \in {FALSE, synced}
        /\ SetState("syncing", "rescan", "done")
     \/ /\ m_wallet # NoWallet
        /\ Raises("rescan", "failed")
        /\ height' \in {height, 0}
        /\ synced' \in {FALSE, synced}
        /\ UNCHANGED m_state
  /\ UNCHANGED <<locals, session, progress, locks, sends, dial, offline,
                 refreshing, inflight, blockAge, runs>>

MaySend == m_wallet # NoWallet /\ ~SendsWaitForTor

(* RefreshPause raises where it is made, and then resumes nothing.         *)
PauseRaises(from) ==
  /\ Raises(from, "failed")
  /\ refreshing' \in {refreshing, FALSE}

(* The gates of a send fail the job untouched.  Behind them RefreshPause   *)
(* starts the refresh on every way out, even one that was off.  A raise    *)
(* while the result is put together leaves the handle in the table.        *)
CreateTransaction ==
  /\ \/ /\ \/ ~MaySend /\ Step("create_transaction", "failed") /\ UNCHANGED refreshing
           \/ MaySend /\ PauseRaises("create_transaction")
        /\ UNCHANGED <<m_pendingTx, m_nextTx, sendVias>>
     \/ /\ MaySend
        /\ Step("create_transaction", "failed")
        /\ refreshing' = TRUE
        /\ sendVias' \in {sendVias, sendVias \cup {dial.via}}
        /\ UNCHANGED <<m_pendingTx, m_nextTx>>
     \/ /\ MaySend /\ m_nextTx \in TxHandles
        /\ \/ Step("create_transaction", "done")
           \/ Raises("create_transaction", "failed")
        /\ refreshing' = TRUE
        /\ sendVias' = sendVias \cup {dial.via}
        /\ m_pendingTx' = [m_pendingTx EXCEPT ![m_nextTx] = m_wallet]
        /\ m_nextTx' = m_nextTx + 1
  /\ UNCHANGED <<locals, m_state, session, progress, locks, fate, dial,
                 offline, inflight, synced, height, blockAge, runs>>

(* h is broadcast, and its commit reported as a success or as a failure.   *)
Broadcast(h, report) ==
  fate' = [fate EXCEPT ![h] = IF @ \in {"sent", "again"} THEN "again" ELSE report]

(* A slip: a committed transaction can be committed again.                 *)
KeepHandle(h) == m_pendingTx' = [m_pendingTx EXCEPT ![h] = m_wallet]

EraseHandle(h) == m_pendingTx' = [m_pendingTx EXCEPT ![h] = NoWallet]

(* A commit that returns false keeps the handle for another try, also when *)
(* the daemon took the transaction and only its reply was lost; so does a  *)
(* commit that raises.  The store behind the broadcast may raise once the  *)
(* handle is gone.                                                         *)
CommitTransaction ==
  /\ \/ /\ \/ Step("commit_transaction", "failed") /\ refreshing' = (refreshing \/ MaySend)
           \/ MaySend /\ PauseRaises("commit_transaction")
        /\ UNCHANGED <<m_pendingTx, fate, sendVias>>
     \/ /\ MaySend
        /\ refreshing' = TRUE
        /\ sendVias' = sendVias \cup {dial.via}
        /\ \E h \in TxHandles :
             /\ m_pendingTx[h] # NoWallet
             /\ \/ /\ Step("commit_transaction", "done")
                   /\ Broadcast(h, "sent")
                   /\ EraseHandle(h)
                \/ /\ Step("commit_transaction", "failed")
                   /\ UNCHANGED fate \/ ((ReplyMayBeLost \/ EngineMayThrow) /\ Broadcast(h, "unsure"))
                   /\ UNCHANGED m_pendingTx
                \/ /\ Raises("commit_transaction", "failed")
                   /\ Broadcast(h, "unsure")
                   /\ EraseHandle(h)
  /\ UNCHANGED <<locals, m_state, session, progress, locks, m_nextTx, dial,
                 offline, inflight, synced, height, blockAge, runs>>

DisposeTransaction ==
  /\ \/ /\ Step("dispose_transaction", "failed")
        /\ UNCHANGED m_pendingTx
     \/ /\ Step("dispose_transaction", "done")
        /\ \E h \in TxHandles :
             /\ m_pendingTx[h] # NoWallet
             /\ EraseHandle(h)
  /\ UNCHANGED <<locals, m_state, session, progress, locks, m_nextTx, fate,
                 sendVias, wallet2, runs>>

ChangePassword ==
  /\ \/ /\ \E outcome \in {"done", "failed"} :
             /\ Step("change_password", outcome)
             /\ outcome = "done" => m_wallet # NoWallet
        /\ refreshing' = (refreshing \/ m_wallet # NoWallet)
     \/ m_wallet # NoWallet /\ PauseRaises("change_password")
  /\ UNCHANGED <<locals, m_state, session, progress, locks, sends, dial,
                 offline, inflight, synced, height, blockAge, runs>>

-----------------------------------------------------------------------------
(* tick.                                                                   *)

(* Slips: the height is taken for an index, a rise does not start the time *)
(* anew, one of the two ways off a Tor route's beginnings is missing, and  *)
(* whoever caught up moves, the direct wallet too.                         *)
ProgressPastHeight(risen)  == IF risen THEN height + 1 ELSE m_progressHeight
AgeSinceTheRecord(risen)   == progressAge
MovesOnlySynced(stuck)     == m_route = "waiting_for_tor" \/ (m_route = "catch_up" /\ synced)
MovesAnyCaughtUp(stuck)    == m_route = "waiting_for_tor" \/ synced \/ stuck
MovesOnlyCaughtUp(stuck)   == m_route = "catch_up" /\ (synced \/ stuck)

Progress(risen)    == IF risen THEN height ELSE m_progressHeight
ProgressFor(risen) == IF risen THEN 0 ELSE progressAge
MustMove(stuck)    == m_route = "waiting_for_tor" \/ (m_route = "catch_up" /\ (synced \/ stuck))

(* wallet2's answers and the section under m_stateMu that judges them: the *)
(* catch-up node is stuck once the height has not risen for GiveUp.        *)
TickRead ==
  /\ m_wallet # NoWallet
  /\ \/ /\ Raises("tick", "idle")
        /\ UNCHANGED <<progress, tickSynced, abandon>>
     \/ LET risen  == height > m_progressHeight
            stuck  == m_route = "catch_up" /\ ~synced /\ ProgressFor(risen) > GiveUp
            askTor == m_route = "tor" /\ askedAge >= AskEvery
        IN /\ Step("tick", IF MustMove(stuck) THEN "move"
                           ELSE IF askTor THEN "tick_ask" ELSE "tick_flip")
           /\ m_progressHeight' = Progress(risen)
           /\ progressAge' = ProgressFor(risen)
           /\ askedAge' = IF askTor THEN 0 ELSE askedAge
           /\ tickSynced' = synced
           /\ abandon' = stuck
  /\ UNCHANGED <<job, served, node, net, m_stop, m_state, session, locks,
                 sends, wallet2, runs>>

(* On Tor the node module is asked again; only another endpoint moves the  *)
(* wallet.                                                                 *)
TickAsk ==
  /\ \E a \in Answers :
       IF TorReady(a) /\ a.url # m_torUrl
       THEN Step("tick_ask", "move_offline") /\ node' = a
       ELSE Step("tick_ask", "tick_flip") /\ UNCHANGED node
  /\ UNCHANGED <<job, served, net, tickSynced, abandon, m_stop, m_state,
                 session, progress, locks, sends, wallet2, runs>>

(* The tick ends: without a wallet at once, else with the state that fits  *)
(* what wallet2 answered when the tick began.                              *)
TickEnd ==
  /\ \/ /\ m_wallet = NoWallet
        /\ Step("tick", "idle")
        /\ UNCHANGED m_state
     \/ /\ m_state = "syncing" /\ tickSynced
        /\ SetState("ready", "tick_flip", "idle")
     \/ /\ m_state = "ready" /\ ~tickSynced
        /\ SetState("syncing", "tick_flip", "idle")
     \/ /\ ~(m_state = "syncing" /\ tickSynced)
        /\ ~(m_state = "ready" /\ ~tickSynced)
        /\ Step("tick_flip", "idle")
        /\ UNCHANGED m_state
  /\ job' = "none" /\ node' = NoAnswer /\ tickSynced' = FALSE /\ abandon' = FALSE
  /\ UNCHANGED <<served, net, m_stop, session, progress, locks, sends,
                 wallet2, runs>>

-----------------------------------------------------------------------------
(* moveToTor.                                                              *)

MoveResolve ==
  /\ \E a \in Answers :
       IF ~TorReady(a) /\ m_route = "waiting_for_tor"
       THEN Step("move", "tick_flip") /\ UNCHANGED node
       ELSE Step("move", "move_offline") /\ node' = a
  /\ UNCHANGED <<job, served, net, tickSynced, abandon, m_stop, m_state,
                 session, progress, locks, sends, wallet2, runs>>

(* A slip: the refresh is paused, and nothing keeps it from starting again.*)
OnlyPause == refreshing' = FALSE /\ UNCHANGED offline

GoOffline == refreshing' = FALSE /\ offline' = TRUE

(* An abandoned catch-up node loses its connection, if the node module     *)
(* still names it.                                                         *)
HangUp ==
  inflight' = IF abandon /\ inflight # NoDial /\ inflight.url = node.catchUp
              THEN NoDial ELSE inflight

(* Pause, stop, hang up, go offline; any of the calls may raise.           *)
MoveOffline ==
  /\ \/ /\ Step("move_offline", "move_wait")
        /\ HangUp /\ GoOffline
     \/ /\ Raises("move_offline", "idle")
        /\ \/ refreshing' \in {refreshing, FALSE} /\ UNCHANGED <<offline, inflight>>
           \/ refreshing' = FALSE /\ HangUp /\ offline' \in {offline, TRUE}
  /\ UNCHANGED <<locals, m_state, session, progress, locks, sends, dial,
                 synced, height, blockAge, runs>>

(* A refresh while offline returns once the request in flight has ended.   *)
MoveWait ==
  /\ \/ Step("move_wait", "move_init") /\ inflight = NoDial
     \/ Raises("move_wait", "idle")
  /\ UNCHANGED <<locals, m_state, session, progress, locks, sends, wallet2, runs>>

(* A slip: the refresh resumes on a wallet that is still offline.          *)
ResumeOffline == UNCHANGED offline /\ refreshing' = TRUE

Resume == offline' = FALSE /\ refreshing' = TRUE

(* A raise behind init leaves the wallet on Tor, online or not, with the   *)
(* route it had.                                                           *)
MoveInit ==
  /\ \/ /\ TorReady(node)
        /\ Step("move_init", "moved")
        /\ dial' = TorDial(node)
        /\ Resume
     \/ /\ TorReady(node) => InitMayFail
        /\ Step("move_init", "parked")
        /\ dial' \in IF TorReady(node) THEN {dial, TorDial(node)} ELSE {dial}
        /\ UNCHANGED <<offline, refreshing>>
     \/ /\ TorReady(node)
        /\ Raises("move_init", "idle")
        /\ \/ dial' \in {dial, TorDial(node)} /\ UNCHANGED <<offline, refreshing>>
           \/ /\ dial' = TorDial(node)
              /\ offline' = FALSE
              /\ refreshing' \in {refreshing, TRUE}
  /\ UNCHANGED <<locals, m_state, session, progress, locks, sends, inflight,
                 synced, height, blockAge, runs>>

(* The route follows once the handle is free again: requests over Tor may  *)
(* start before it is recorded.                                            *)
MoveRecord ==
  /\ \/ /\ Step("moved", "move_emit")
        /\ m_route' = "tor" /\ m_torUrl' = node.url
     \/ /\ Step("parked", "move_emit")
        /\ m_route' = "waiting_for_tor" /\ m_torUrl' = NoUrl
  /\ progressAge' = 0 /\ askedAge' = 0
  /\ UNCHANGED <<locals, m_state, m_wallet, m_network, m_progressHeight, locks,
                 sends, wallet2, runs>>

(* setState(cur): the state is the one it was, and the event may throw.    *)
MoveEmit ==
  /\ SetState(m_state, "move_emit", "tick_flip")
  /\ UNCHANGED <<locals, session, progress, locks, sends, wallet2, runs>>

-----------------------------------------------------------------------------
(* wallet2's refresh thread and the daemon behind it: external, modelled   *)
(* from how the engine uses it.  An offline wallet asks nothing.           *)

RequestStart ==
  /\ refreshing /\ ~offline /\ inflight = NoDial
  /\ inflight' = dial
  /\ UNCHANGED <<pc, locals, m_state, session, progress, locks, sends, dial,
                 offline, refreshing, synced, height, blockAge, runs>>

(* The request ends with blocks or without.                                *)
RequestDone ==
  /\ inflight # NoDial
  /\ inflight' = NoDial
  /\ synced' \in BOOLEAN
  /\ \/ /\ height < MaxHeight /\ inflight.via # "nowhere"
        /\ height' = height + 1 /\ blockAge' = 0
     \/ UNCHANGED <<height, blockAge>>
  /\ UNCHANGED <<pc, locals, m_state, session, progress, locks, sends, dial,
                 offline, refreshing, runs>>

Older(age, bound) == IF age > bound THEN age ELSE age + 1

(* The clock.  Each age stops one past what it is compared with.           *)
Elapse ==
  /\ m_wallet # NoWallet
  /\ progressAge' = Older(progressAge, GiveUp)
  /\ askedAge' = Older(askedAge, AskEvery)
  /\ blockAge' = Older(blockAge, GiveUp)
  /\ UNCHANGED <<pc, locals, m_state, session, m_progressHeight, locks, sends,
                 dial, offline, refreshing, inflight, synced, height, runs>>

-----------------------------------------------------------------------------
(* shutdown, and what follows it.                                          *)

(* aboutToUnload may come at any time; the worker sees m_stop once it is   *)
(* back in its loop.                                                       *)
Stop ==
  /\ ~m_stop /\ reloads < MaxReloads
  /\ m_stop' = TRUE
  /\ UNCHANGED <<pc, job, served, node, net, tickSynced, abandon, m_state,
                 session, progress, locks, sends, wallet2, runs>>

(* With the worker joined, closeWallet stops the refresh.  Without an open *)
(* wallet there is nothing to close.                                       *)
ShutdownClose ==
  /\ Step("idle", "stopping")
  /\ ~Loops
  /\ refreshing' = (refreshing /\ m_wallet = NoWallet)
  /\ UNCHANGED <<locals, m_state, session, progress, locks, sends, dial,
                 offline, inflight, synced, height, blockAge, runs>>

(* No notice, no state and no event: the node module's lock stays.         *)
ShutdownJoin ==
  /\ Step("stopping", "stopped")
  /\ m_wallet # NoWallet => inflight = NoDial
  /\ m_wallet' = NoWallet
  /\ NoEngine
  /\ UNCHANGED <<locals, m_state, m_route, m_network, m_torUrl, progress,
                 locks, sends, runs>>

(* A new instance of the module: after an orderly unload, or after the     *)
(* process died at any point.  Only the node module remembers.             *)
Restart ==
  /\ pc # "stopped" => reloads < MaxReloads
  /\ reloads' = IF reloads < MaxReloads THEN reloads + 1 ELSE reloads
  /\ pc' = "idle" /\ job' = "none" /\ node' = NoAnswer
  /\ tickSynced' = FALSE /\ abandon' = FALSE /\ m_stop' = FALSE
  /\ m_state' = "no_wallet" /\ m_wallet' = NoWallet /\ m_route' = "direct"
  /\ m_torUrl' = NoUrl /\ m_locksReset' = FALSE
  /\ m_progressHeight' = 0 /\ progressAge' = 0 /\ askedAge' = 0
  /\ m_pendingTx' = [h \in TxHandles |-> NoWallet] /\ m_nextTx' = 1
  /\ fate' = [h \in TxHandles |-> "unsent"] /\ sendVias' = {}
  /\ NoEngine
  /\ UNCHANGED <<served, net, m_network, nodeLock, faults>>

-----------------------------------------------------------------------------

OpenSteps == OpenCheck \/ OpenEngine \/ OpenInit \/ OpenConnect \/ OpenPublish
             \/ OpenRecord \/ OpenNotify \/ OpenSyncing

CloseSteps == CloseBegin \/ CloseEngine \/ CloseJoin \/ CloseRecord
              \/ CloseNotify \/ CloseFinal

TxSteps == Rescan \/ CreateTransaction \/ CommitTransaction
           \/ DisposeTransaction \/ ChangePassword

TickSteps == TickRead \/ TickAsk \/ TickEnd \/ MoveResolve \/ MoveOffline
             \/ MoveWait \/ MoveInit \/ MoveRecord \/ MoveEmit

ShutdownSteps == ShutdownClose \/ ShutdownJoin

Worker == BeginTick \/ Settle \/ OpenSteps \/ CloseSteps \/ TxSteps
          \/ TickSteps \/ ShutdownSteps

NewJob == \E k \in Kinds : BeginJob(k)

Next == NewJob \/ Worker \/ RequestStart \/ RequestDone \/ Elapse \/ Stop \/ Restart

Spec == Init /\ [][Next]_vars

-----------------------------------------------------------------------------
(* Fairness.  The worker loops for as long as it can take a step, and time *)
(* passes.  The refresh thread polls every two seconds.                    *)

LivelySpec == Spec /\ WF_vars(Worker) /\ WF_vars(Elapse) /\ WF_vars(RequestStart)

(* In addition the daemon ends every request, with blocks or an error.     *)
AnsweringSpec == LivelySpec /\ WF_vars(RequestDone)

-----------------------------------------------------------------------------
(* Properties.                                                             *)

WalletIds == 0 .. MaxJobs

WorkerTypes ==
  /\ pc \in Labels /\ job \in JobKinds \cup {"none", "tick"} /\ served \in WalletIds
  /\ node \in Answers \cup {NoAnswer} /\ net \in Networks
  /\ tickSynced \in BOOLEAN /\ abandon \in BOOLEAN /\ m_stop \in BOOLEAN
  /\ reloads \in 0 .. MaxReloads /\ faults \in FaultSets

FieldTypes ==
  /\ m_state \in WalletStates /\ m_wallet \in WalletIds
  /\ m_route \in Routes /\ m_network \in Networks /\ m_torUrl \in Urls \cup {NoUrl}
  /\ m_locksReset \in BOOLEAN /\ nodeLock \in [Networks -> BOOLEAN]
  /\ m_progressHeight \in 0 .. MaxHeight
  /\ progressAge \in 0 .. GiveUp + 1 /\ askedAge \in 0 .. AskEvery + 1

SendTypes ==
  /\ m_pendingTx \in [TxHandles -> WalletIds] /\ m_nextTx \in 1 .. MaxTx + 1
  /\ fate \in [TxHandles -> Fates] /\ sendVias \subseteq Vias

EngineTypes ==
  /\ dial \in Dial /\ inflight \in Dial
  /\ offline \in BOOLEAN /\ refreshing \in BOOLEAN /\ synced \in BOOLEAN
  /\ height \in 0 .. MaxHeight /\ blockAge \in 0 .. GiveUp + 1

(* Every variable holds a value of its type: the worker's locals, the      *)
(* fields of WalletRuntime, the handles, and what wallet2 holds.           *)
TypeOK == WorkerTypes /\ FieldTypes /\ SendTypes /\ EngineTypes

(* m_route is that of the open wallet.  doOpenLike publishes the handle    *)
(* first, so between the two it is still the last wallet's.                *)
Recorded == m_wallet # NoWallet /\ pc # "open_record"

(* Once a wallet is waiting for Tor or on it, no request of its refresh    *)
(* thread is out in the clear: on Tor every request goes through the SOCKS *)
(* port, and while waiting there is none, except over Tor after moveToTor  *)
(* has dialled it: in the moment before the new route is recorded, and     *)
(* for longer if wallet2 raises there and the route is never recorded.     *)
NothingInTheClear ==
  Recorded =>
    /\ m_route = "tor" => inflight.via \in {"socks", "none"}
    /\ m_route = "waiting_for_tor" =>
         \/ inflight = NoDial
         \/ (pc = "moved" \/ EngineMayThrow) /\ inflight.via \in {"socks", "none"}

(* Decoy requests and broadcasts of a wallet opened on a Tor route have    *)
(* only ever gone through the SOCKS port: what the gates of                *)
(* doCreateTransaction and doCommit are for.                               *)
SendsOnlyOverTor ==
  Recorded /\ m_route # "direct" => sendVias \subseteq {"socks"}

(* The session as its user sees it: nothing of a wallet before its route   *)
(* is recorded.                                                            *)
SessionWallet == IF Recorded THEN m_wallet ELSE NoWallet
SessionRoute  == IF Recorded THEN m_route ELSE "none"
SessionSent   == IF Recorded THEN sendVias ELSE {}

Contract ==
  INSTANCE SessionContract
  WITH Wallets <- 1 .. MaxJobs, wallet <- SessionWallet, route <- SessionRoute,
       sent <- SessionSent

(* The engine implements SessionContract: a direct wallet never moves, a   *)
(* wallet on a Tor route never comes back into the clear, and a send goes  *)
(* where its route says, through every open, close, tick, move, unload and *)
(* crash.                                                                  *)
KeepsSession == Contract!Spec

(* A transaction handle belongs to the wallet that is open.  doClose drops *)
(* the handles with the wallet, so a later wallet cannot commit them.      *)
PendingTxOfOpenWallet ==
  pc # "stopped" => \A h \in TxHandles : m_pendingTx[h] \in {NoWallet, m_wallet}

(* What a commit has reported as sent is never broadcast again, whatever   *)
(* raises and whichever replies are lost: doCommit drops the handle, and   *)
(* no handle is given out twice by one instance of the module.  A commit   *)
(* that reported failure has broadcast nothing, unless the daemon's reply  *)
(* was lost or wallet2 raised.                                             *)
ReportedSentOnce ==
  \A h \in TxHandles :
    /\ fate[h] # "again"
    /\ fate[h] = "unsure" => ReplyMayBeLost \/ EngineMayThrow

(* Between jobs the node module's locks are those of the open wallet, also *)
(* after a crash and an unload that told it nothing: resetLocksOnce,       *)
(* notifyOpen in doOpenLike and doClose, as long as their notices arrive.  *)
LocksMirrorWallet ==
  ~NotifyMayFail /\ ~EngineMayThrow /\ pc = "idle" /\ m_locksReset =>
    \A n \in Networks : nodeLock[n] <=> (m_wallet # NoWallet /\ m_network = n)

(* Between jobs status() agrees with the handle: whatever path an open or  *)
(* a close took, no state of a step that is over is left behind, unless an *)
(* event or wallet2 threw.                                                 *)
StatusMatchesWallet ==
  ~EmitMayFail /\ ~EngineMayThrow /\ pc = "idle" =>
    IF m_wallet = NoWallet
    THEN m_state = "no_wallet" /\ m_route = "direct"
    ELSE m_state \in {"syncing", "ready"}

(* wallet2 points where the node's answer says.                            *)
Dialled ==
  /\ dial = DialFor(node)
  /\ offline = (RouteFor(node) = "waiting_for_tor")

(* An open that reports failure has left its wallet closed, or, where the  *)
(* last event throws or wallet2 raises behind it, open in every respect:   *)
(* dialled and refreshing on the route that is recorded, and locked in the *)
(* node module unless the notice was lost.                                 *)
FailedOpenIsNoneOrWhole ==
  pc = "failed" /\ job = "open" /\ m_wallet = served =>
    /\ EmitMayFail \/ EngineMayThrow
    /\ m_state = "syncing" /\ m_network = net /\ m_route = RouteFor(node)
    /\ Dialled
    /\ refreshing = (m_route # "waiting_for_tor")
    /\ NotifyMayFail \/ nodeLock[net]

(* Between jobs wallet2 fits the handle, unless it raised.  Without a      *)
(* wallet nothing of it is left, no connection and no refresh: every       *)
(* failing open closes what it has loaded.  An open wallet is refreshing   *)
(* and online unless it waits for Tor: every way through moveToTor and     *)
(* RefreshPause resumes what it stopped, also where an event throws.       *)
EngineMatchesWallet ==
  ~EngineMayThrow /\ pc = "idle" =>
    IF m_wallet = NoWallet
    THEN dial = NoDial /\ ~refreshing /\ inflight = NoDial
    ELSE m_route # "waiting_for_tor" => refreshing /\ ~offline

(* What NothingInTheClear and SendsOnlyOverTor rest on, step by step of    *)
(* doOpenLike, tick and moveToTor: before the handle is published nothing  *)
(* is asked, the open records the route it dialled, a move begins on a Tor *)
(* route and stays offline until wallet2 dials the SOCKS port.             *)
OpenInv ==
  /\ pc \in {"open_engine", "open_init", "open_connect", "open_publish"} =>
       m_wallet = NoWallet
  /\ pc \in {"open_init", "open_connect", "open_publish"} =>
       ~refreshing /\ inflight = NoDial
  /\ pc \in {"open_connect", "open_publish", "open_record"} => Dialled
  /\ pc = "open_record" =>
       inflight = NoDial \/ (~offline /\ inflight.via = dial.via)

MoveInv ==
  /\ pc = "tick_ask" => m_route = "tor"
  /\ pc = "move" => m_route \in {"catch_up", "waiting_for_tor"}
  /\ pc \in {"move_offline", "move_wait", "move_init", "moved", "parked"} =>
       m_route # "direct"
  /\ pc \in {"move_wait", "move_init", "parked"} => offline
  /\ pc \in {"move_init", "parked"} => inflight = NoDial
  /\ pc = "moved" => dial.via = "socks" /\ inflight.via \in {"socks", "none"}

CloseInv ==
  pc \in {"close_engine", "close_join", "close_record", "close_notify", "close_final"} =>
    m_wallet = NoWallet

RouteInv ==
  /\ OpenInv /\ CloseInv /\ MoveInv
  /\ Recorded /\ m_route = "tor" =>
       dial.via = "socks" /\ inflight.via \in {"socks", "none"}
  /\ Recorded /\ m_route = "waiting_for_tor" /\ pc # "moved" =>
       \/ offline /\ inflight = NoDial
       \/ EngineMayThrow /\ dial.via = "socks" /\ inflight.via \in {"socks", "none"}

(* The catch-up node is given up on only when no block came from it for    *)
(* GiveUp: the progress test in tick() never blames one that just sent one.*)
CatchUpAbandonedOnlyWhenSilent ==
  [][~abandon /\ abandon' => blockAge > GiveUp]_vars

RouteRank(r) == CASE r = "direct" -> 0 [] r = "catch_up" -> 1
                  [] r = "waiting_for_tor" -> 2 [] r = "tor" -> 3

(* README, "a route only ever moves toward Tor": moveToTor never takes an  *)
(* open wallet back to an earlier route.                                   *)
RouteOnlyTowardTor ==
  [][m_wallet # NoWallet /\ m_wallet' = m_wallet
       => RouteRank(m_route) <= RouteRank(m_route')]_vars

(* A wallet catching up through a node in the clear leaves it in the end,  *)
(* whether that node synchronizes it, falls silent or trickles.            *)
CatchUpGivesWay ==
  (m_wallet # NoWallet /\ m_route = "catch_up")
    ~> (m_wallet = NoWallet \/ m_route # "catch_up")

(* The built-in Tor, asked for again and again, joins at last, and wallet2 *)
(* accepts it.                                                             *)
TorJoins ==
  /\ SF_vars(MoveResolve /\ TorReady(node'))
  /\ SF_vars(MoveInit /\ pc' = "moved")

(* A wallet on a Tor route reaches Tor if Tor can be joined, from whichever *)
(* of the two routes before it the ticks find it on.                       *)
ReachesTor ==
  TorJoins =>
    ((m_wallet # NoWallet /\ m_route \in {"catch_up", "waiting_for_tor"})
       ~> (m_wallet = NoWallet \/ m_route = "tor"))

(* An unload ends: the worker is joined and the wallet closed.             *)
ShutdownCompletes == m_stop ~> (pc = "stopped" \/ ~m_stop)

(* A lock with no wallet behind it is released, whichever way the instance *)
(* that took it ended, unless the module is being unloaded.                *)
StaleLockReleased ==
  \A n \in Networks :
    (nodeLock[n] /\ m_wallet = NoWallet)
      ~> (~nodeLock[n] \/ m_wallet # NoWallet \/ m_stop)

=============================================================================
