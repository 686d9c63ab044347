# The wallet core module in TLA+

A verification project for `logos-monero-wallet-core-module`: models of the
wallet engine (`src/src/wallet_runtime.cpp`), the runs that check them with TLC
and the theorems TLAPS proves about them. Paths and line numbers are those of
the repository under `src/`.

## The system

The module holds at most one open Monero wallet. It wraps wallet2 (through the
C interface of `monero_c`) and gives its host a facade of synchronous reads and
of *jobs*: long operations that return a ticket at once and run on one worker
thread. A second module, the *node module*, owns the choice of the daemon and of
the proxy. The engine asks it for the effective node when a wallet is opened and
when it moves to Tor, and tells it when a network is in use (its lock).

| component | state | operations | speaks to |
|---|---|---|---|
| Node policy | none: a function of the node module's answer | refuse, pick the route, pick the endpoint | node module (question and answer) |
| Tickets | `m_jobs`, `m_queue`, `m_nextId`, `m_stop` under `m_qmu` | `startJob`, `jobStatus`, `jobResult`, `ackJob`, `cancelJob` | clients on IPC threads, worker |
| Worker, jobs | `m_state`, `m_wallet`, `m_network`, `m_pendingTx`, `m_nextTx` | open, create, restore (two), close, rescan, create, commit and dispose a transaction, change the password | wallet2, node module, host (events) |
| Worker, tick | `m_route`, `m_torUrl`, `m_progressHeight`, `m_progressAt`, `m_torAskedAt` | `tick`, `moveToTor` every two idle seconds | wallet2, node module, host |
| Locks in the node module | `m_locksReset` here, one lock per network there | `resetLocksOnce`, `notifyOpen` | node module, which outlives this process |
| wallet2 (external) | endpoint, offline flag, refresh thread, request in flight, height, synchronized | init, start, pause, stop, refresh, setOffline, closeWallet | daemon |
| Handle | `m_handleMu` (shared and timed) | exclusive jobs, shared reads with a deadline | every thread |
| Probe | `m_probed`, `m_daemonConnected`, `m_daemonHeight` | a reading every 3 s, `status()` | wallet2, worker |
| Wallet files | the wallets directory | what an open, a commit, a password, a subaddress, a close and an unload write; `walletExists`, `listWallets` | file system, wallet2 |
| Reads | none | balances, subaddresses, history, seed, view key | wallet2 |
| Address check | none | `monero_addr::valid` | a send's destinations |
| Text helpers | none | ownership of C strings, txid lists, host and port | socket lookups, the check of a committed id |
| Facade | the runtime it holds | one call each, `aboutToUnload` | host |

What is hard in it:

- **a thread that is not ours.** wallet2's refresh thread asks the daemon
  whenever it may; a request in flight cannot be abandoned, only waited out or
  cut at the socket. Moving a wallet to Tor means stopping that thread in the
  right order.
- **two records of one fact.** `m_route` is what the gates of a send look at,
  the endpoint inside wallet2 is where bytes go. They are written at different
  moments, under different locks.
- **four ways to fail in the middle of a handler**: an event that crosses IPC and
  throws, `MONERO_Wallet_init` returning false, a daemon whose reply to a broadcast
  is lost, and an exception from inside wallet2, which any call into it may raise.
- **memory in another process**: the node module's locks survive a crash of this
  module, the ids of tickets do not, and clients keep both.
- **time**: a catch-up node is given up on after 90 s without a block, an onion
  is asked for anew every 60 s.
- **a disk.** Six calls store the wallet, only the close looks whether it was
  stored, and the refresh thread goes on changing the wallet between them.
- **decoding by hand**: addresses, lists of transaction ids, hosts and ports,
  where a length, a last part or a last colon decides.

What makes each component correct is in the section "Properties" below; the
places in the code where it could go wrong are the `hazards` of `PROJECT.json`.

## Modules

- `NodePolicy.tla` -- what the engine makes of an answer of the node module
  (`wallet_runtime.cpp:497-516`, `417-418`). `Answer` is the set of all
  combinations of the fields the code reads; URLs are opaque; a proxy is empty,
  the literal `tor` (still joining) or an address. `RouteFor`, `DialFor`,
  `Refuses`, `TorReady` and `TorDial` are the code's conditions.
- `WalletEngine.tla` -- the worker. It is sequential, so its position is one
  program counter; a step of a handler ends where another party can see or
  change something. State is that of `WalletRuntime` (same names), the worker's
  locals, wallet2 as far as the engine relies on it, the node module's locks,
  and three pieces of history (`fate`, `sendVias`, `blockAge`) that only
  properties read. `m_wallet` is the number of the job that opened the wallet, 0
  for a null pointer, so two wallets are told apart.
- `MCWalletEngine.tla` -- the answers a node module gives in each mode of "Use
  Tor for" and the job kinds of each run. No constant of it is used by a proof.
- `SessionContract.tla` -- the abstract specification of a session: a wallet is
  opened on a route, a direct one stays direct, one on a Tor route goes between
  waiting and Tor, sends leave as the route says, a close or a crash ends it.
  `WalletEngine` implements it through `SessionWallet`, `SessionRoute` and
  `SessionSent`, which show nothing of a wallet before its route is recorded.
- `WalletEngineProofs.tla` -- the theorems about types, routes, sends and handles
  of `WalletEngine`.
- `WalletSessionProofs.tla` -- the theorems about what holds between two jobs, the
  refinement of `SessionContract`, and what the idle tick decides.
- `TicketQueue.tla` -- job table, queue, worker loop, clients with tickets,
  restarts.
- `TicketContract.tla` -- the abstract specification of a ticket: issued in
  order, run one at a time and oldest first, cancelled only while it waits,
  finished once. `TicketQueue` implements it by reading a ticket's state off the
  table, the queue and the Job object (`TicketState`).
- `TicketQueueProofs.tla` -- the theorems about `TicketQueue`.
- `WalletHandle.tla` -- `m_handleMu`: worker, probe, calls of the host and the
  unload around every use of the wallet pointer. The code locks by scope, so what
  a thread holds is read off its position (`SharedScope`, `OwnScope`,
  `WaitToOwn`); `using` is the pointer a thread works with, `closed` the wallets
  whose memory is gone. Of the worker it has only what touches the handle or what
  is recorded about it; `WalletEngine` has the rest.
- `MCWalletHandle.tla` -- the symmetry of its callers, for the run of the safety
  properties; none of them names a caller.
- `WalletHandleProofs.tla` -- the theorems about `WalletHandle`.
- `WalletFiles.tla` -- the wallets directory. A wallet is the number of the job
  that made it, what it holds is the number of changes made to it; `disk` says
  for each name whose file is there, for which network type, and how many of the
  changes it keeps. `diskFails` chooses a disk on which a store may fail,
  `engineRaises` a wallet2 that may raise.
- `WalletFilesProofs.tla` -- the theorems about `WalletFiles`.
- `AddressCheck.tla` -- `monero_addr::valid` as operators: base58 blocks, varint,
  prefixes, lengths, checksum, every size a parameter; and what an address is,
  written the other way round (`Encode`, `Varint`, `Addresses`). `Number`,
  `Shifted` and `Digits` are the code's multiplications and shifts, `HasDigits`
  its comparison with a power, which no prover could compute with.
- `AddressProofs.tla` -- the lemmas about it: digits and numbers, blocks, base58,
  varints, and that a text is valid just if it is an address.
- `TextHelpers.tla` -- `looksLikeTxid`, `hostPort` and `proxyHostPort`, the host
  and port that `socketsTo` looks for. The loop of `looksLikeTxid` visits the
  first part and the one after each comma (`Starts`); the code's exit on a bad
  part is the quantifier over them.
- `TextProofs.tla` -- the lemmas about it: what a search finds, what is left of a
  URL, and which texts are lists of ids.
- `Facade.tla` -- composes the three: the directory, and a text that is typed
  character by character until it is judged. They meet in `NettypeOf`, which
  decides both which file may be opened on a network and whose addresses are good
  on it.
- `FacadeProofs.tla` -- the theorems about `Facade`.
- `MCFacade.tla` -- the sizes and characters of its instance.

How the handlers became actions:

| code | actions |
|---|---|
| `threadMain`, `run` | `BeginJob`, `BeginTick` (both with `ResetLocksOnce`), `Settle` |
| `doOpenLike` | `OpenCheck` `OpenEngine` `OpenInit` `OpenConnect` `OpenPublish` `OpenRecord` `OpenNotify` `OpenSyncing` |
| `doClose` | `CloseBegin` `CloseEngine` `CloseJoin` `CloseRecord` `CloseNotify` `CloseFinal` |
| `doRescan`, `doCreateTransaction`, `doCommit`, `doDispose`, `doChangePassword` | one action each; they hold the handle exclusively |
| `tick` | `TickRead`, `TickAsk`, `TickEnd` |
| `moveToTor` | `MoveResolve` `MoveOffline` `MoveWait` `MoveInit` `MoveRecord` `MoveEmit` |
| `shutdown` | `Stop`, `ShutdownClose`, `ShutdownJoin`, then `Restart`; in `WalletHandle` `Stop`, `Join` (both threads), `UnloadClose` |
| a `shared_lock` or `unique_lock` of `m_handleMu` | in `WalletHandle` the step that enters its scope (`OpenPublish`, `CloseLock`, `JobLock`, `TickLock`, `MoveOffline`, `MoveLock`, `ProbeLock`, `CallLock`), which needs `CanShare` or `CanOwn` |
| `probeMain` | `ProbeWake` `ProbeLock` `ProbeLook` `ProbeStore` `ProbeReturn` |
| `status`, balances, addresses | `Call`, `CallLock` or `GiveUp` ("busy"), `CallEnd` |
| `history`, `revealSeed`, `revealViewKey` | the same without `GiveUp`; `HistoryRefresh` in between for a history |
| `createSubaddress`, `setSubaddressLabel` | the same, exclusively |
| wallet2's refresh thread (external) | `RequestStart`, `RequestDone` |
| the clock | `Elapse` |
| `doOpenLike`, its files | in `WalletFiles` `OpenCheck` `OpenEngine` (may fail with the files written) `OpenNettype` `OpenInit` `OpenConnect` `OpenPublish` |
| `doCommit`, `doChangePassword`, `createSubaddress`, `setSubaddressLabel`, their store | `Change`, `Keep` (one exclusive section, between which a process may die) |
| `doClose`, its two stores | `CloseBegin` `CloseStore` `CloseEngine` |
| `shutdown`, its two stores; what follows | `Stop` `UnloadStore` `UnloadClose`, `Restart` or `Crash` |
| the refresh thread's blocks | `Scan` |

`setState` is `SetState(s, from, to)`: it assigns the state and then emits, and
with `EmitMayFail` the step may leave the handler instead of going on, to
`failed` (a job) or out of the tick (`Thrown`).

`Raises(from, to)` is a call into wallet2 that raises, where the constant
`FaultSets` admits `"engine"`. An action that makes such calls has a branch for it,
with one outcome for each prefix of the calls it stands for: `MoveOffline` may be
left with the refresh paused and the wallet online, `MoveInit` with the wallet on
Tor, online, and refreshing or not, but the route of before (`cpp:438-442`),
`OpenPublish` with a refreshing wallet that nobody holds (`cpp:592-598`),
`OpenSyncing` with the wallet open and its job failed (`cpp:621`), `CloseEngine` and
`CloseJoin` with the pointer gone and the engine running. `WalletHandle` and
`WalletFiles` have the same raises as far as they concern a pointer or a file
(`engineRaises`). `"reply"` is a daemon that takes a transaction and whose answer
does not come back: the commit returns false and the handle stays (`cpp:717-718`),
so what was broadcast may be broadcast again.

Abstractions: a wallet2 object that a raise left behind is followed until the next
open, which puts its own in its place. A raise inside `shutdown`, or in the
destructor of `RefreshPause`, ends the process; `Restart` and `Crash` stand for
it. In `WalletEngine` the four kinds of open are one (they share
`doOpenLike`), `WalletFiles` tells them apart; names,
passwords, amounts and addresses are left out, a check of them is the choice to
fail; the reads of one tick (`wallet2` answers and the section under
`m_stateMu`) are one step, which loses only changes of height in between; the
module starts with its wallets directory set, which `startJob` demands and
`onContextReady` gives once; an age of the clock saturates one past the value it
is compared with. `WalletHandle` leaves out heights, routes and node answers: a
wallet dials no one, the node in the clear or the SOCKS port, and the probe may
find a socket only to the peer that is dialled. A `shared_timed_mutex` does not
say whether readers get in past a waiting writer; `writerFirst` is the policy of
a build, chosen once. A *slip* in a module is a variant of a definition with a
plausible bug; each is used to see that a property notices it, and no
specification uses one.

`WalletFiles` takes a store as atomic (wallet2 writes a new file and renames it)
and leaves out names that end in `.keys`, which would collide with the second
file of another wallet. `AddressCheck` takes keccak256, cut to its first bytes,
as a constant operator. `WalletHandle` assumes that wallet2's `store` and
`closeWallet` return. No module has a `RECURSIVE` operator: what the code writes
as a loop is a fold or a recursive function.

The text properties hold with two exceptions that they name. A full base58 block
has room for more numbers than its eight bytes (`Wraps`): the code cuts such a
number to 64 bits where a short block is refused (`address_check.cpp:69-70`). And
a prefix may be written in a longer varint than it needs (`Overlong`). Such a
text is judged by the bytes it gives, checksum included; no statement in the
repository says that an address has one spelling.

## Properties

WalletEngine:

- `NothingInTheClear` -- once a wallet waits for Tor or is on it, its refresh
  thread has no request out in the clear.
- `SendsOnlyOverTor` -- decoy requests and broadcasts of a wallet opened on a Tor
  route only ever went through the SOCKS port.
- `PendingTxOfOpenWallet` -- a handle never outlives its wallet.
- `ReportedSentOnce` -- what a commit has reported as sent is never broadcast again,
  and one that reported failure has broadcast nothing unless a reply was lost or
  wallet2 raised.
- `LocksMirrorWallet`, `StaleLockReleased` -- the node module's locks are those
  of the open wallet, across crashes, and a stale one is released.
- `StatusMatchesWallet` -- state and route agree with the handle between jobs.
- `FailedOpenIsNoneOrWhole` -- a failed open has left no wallet, or, where the last
  event throws or wallet2 raises after the publication, one that is dialled,
  refreshing, recorded and locked like any other.
- `EngineMatchesWallet` -- between jobs nothing of wallet2 dials or refreshes without
  an open wallet, and an open one is online and refreshing unless it waits for Tor.
- `CatchUpAbandonedOnlyWhenSilent` -- only a catch-up node that sent nothing for
  the whole time is given up on.
- `CatchUpGivesWay`, `ReachesTor`, `ShutdownCompletes` -- the catch-up ends, Tor
  is reached if it can be joined, an unload ends.
- `KeepsSession` -- the refinement of `SessionContract`.
- `TypeOK`.

TicketQueue: `KeepsContract` (the refinement), `QueueInv` (its inductive reason),
`EventFollowsOutcome`, `OthersUntouched` (a ticket, however old, cancels, acknowledges and
reads no job but its own, also where its id came round), `WaitingJobSettles`,
`TypeOK`.

WalletHandle:

- `NoUseAfterClose` -- no thread works with a wallet that a job or the unload has
  closed.
- `ReadingOfOpenWallet`, `ConnectedWhereDialled` -- what the probe stored is about
  the wallet on record and the peer it dials, though the probe reads the peer
  first and stores last, with closes and moves in between.
- `RevealOfOwnWallet` -- a reveal that answers checked the password of the wallet
  whose key it gives, though the name it checks against is recorded after the
  handle is published.
- `ReadsAnswerThroughSwitch` -- no read gives up because the worker waits for a
  request in flight, where readers get in past a waiting writer.
- `EveryCallReturns`, `UnloadEnds` -- no thread waits for ever for the handle.
- `TypeOK`.

WalletFiles:

- `FilesOfOpenWallets` -- an open wallet is stored to its own file, of the network
  type it was opened with.
- `NeverOverwritten` -- no step replaces a wallet's file, removes it or takes back
  what it holds.
- `ClosedIsKept` -- what a close that reported success was told of is on disk, also
  where stores fail.
- `ReportedIsKept`, `LostOnlyInCrash` -- on a disk that writes, what a call
  reported stays, and only a crash loses changes.
- `TypeOK`.

Facade:

- `DecodesAsWritten` -- a text that decodes is what its bytes are written as.
- `ValidIsAddress` -- `valid` takes every address of the network and no other text.
- `DestinationsByNettype` -- two networks share their addresses just if they share
  the type of their files.
- `TxidsAsJoined` -- a list of ids is ids joined by commas, with no empty part.
- `SocketsOfTheNode` -- the connections counted and shut are those to the host and
  port of the node's URL, whatever scheme, brackets or slashes it has.

## Runs

| run | question | bounds |
|---|---|---|
| `session` | nothing in the clear, in every mode; where sends go, whose handle, how often; what every way out of a job leaves of state, route, handle, refresh and engine; the session contract | 4 jobs of all seven kinds, 2 transactions, all nine answers, height 0; three sets of calls that may fail: init alone; init, events, notices and replies; init, events and wallet2 |
| `liveness` | the engine gets where it should; locks follow the open wallet | 2 jobs (open, close), 2 networks, height 0..1, 1 crash or unload, catch-up answers; events and init may fail, every request ends |
| `contract` | tickets keep the contract | 3 tickets, 2 ids per instance, 1 restart |
| `handle` | who uses which wallet, what a reading is about, who gives up | 3 jobs, 2 callers with 2 calls in all, 2 wake-ups of the probe, ticks and moves without bound, both policies; wallet2 raises or not; callers are symmetric |
| `returns` | no thread waits for ever for the handle | 1 job, 2 callers with 2 calls in all, 1 wake-up, both policies; wallet2 may raise |
| `facade` | what is on disk after any call, failure and crash; which texts pass | 4 jobs, 2 changes, 1 crash or unload, three names (one bad), three networks, three kinds of open; every text of up to 10 characters, 8 with a comma, and 18 URLs |

Why these bounds: a wrong answer about a wallet takes an open, a close and an
open (three jobs); a handle that outlives its wallet takes an open, a build, a close
and an open (four); one that is sent twice an open, a build and two commits (four).
`session` has no heights: the routes depend on them only in when a node is given up
on, which without them it is as soon as its time is out; `liveness` has them. Nor
has it a crash, which takes with it what the properties of `session` are about, up
to the end of a session, which the theorem covers. Two networks and a crash let a
lock of one instance meet the wallet of the next. Heights matter only by whether
they rise past the record, ages by whether they exceed one limit, so limits of 1
are as good as 90. Two ids and three tickets over one restart make an id come round.
In `handle` three jobs are an open, a close and an open under one reading of the
probe; two callers are a reader and a writer, or two readers, beside the worker.
`returns` needs one wallet, and moves at every tick; a wallet2 that may raise also
may not, so its behaviours include those of one that never does.

In `facade` four jobs are a create that fails, an open that finds its files, a
close and another open; a second name lets a job of one wallet meet the file of
another; two changes are one that is stored and one that is not. The alphabet has
three characters and bytes are below eight, so one byte takes two characters and
a full block of two bytes takes four: 81 numbers for 64, so that short, wrong and
overfull blocks all occur. Ten characters hold a full block, another and a short
one, which is an integrated address of a network with a two-byte prefix. Lists of
ids have ids of two characters, so eight characters hold two ids and a part that
is empty, short or last.

Six further runs show where the code and a statement about it part. Each checks
one property, which the code violates:

| run | statement | what happens |
|---|---|---|
| `doc_toward_tor` | README:41-42, a route only ever moves toward Tor | a re-pick on Tor whose init fails makes it `waiting_for_tor` (`cpp:451`) |
| `doc_rescan_silence` | README:42, `cpp:138`, a node that sends no new block gives way | after a rescan the height climbs unseen below the old record (`cpp:395`) |
| `doc_held_request` | README:42-43, it gives way whether it never answers or is slow | a switch of a synchronized wallet waits for the held request (`cpp:431`) |
| `doc_result_once` | `monero_wallet_core_impl.h:60`, the job's result, once | `jobResult` gives it again until `ackJob` (`cpp:271`) |
| `doc_history_shared` | `wallet_runtime.h:117`, every mutation takes the handle uniquely, reads share it | `history` refreshes wallet2's one history object under a shared lock (`cpp:849`) |
| `doc_read_deadline` | `cpp:77`, a read never waits longer than this | `history`, `revealSeed` and `revealViewKey` wait without `kReadWait` (`cpp:845`) |

`doc_held_request` runs under fairness of worker, clock and refresh thread but
not of the daemon, which owes nobody an answer; the same property holds in
`liveness`, where each request ends. `doc_read_deadline` runs under the fairness of
`returns`, save that a job may stay inside wallet2 for as long as the node lets
it.

## Fairness

`LivelySpec`: weak fairness of `Worker` (one OS thread in a loop that waits at
most two seconds), of `Elapse` (time passes) and of `RequestStart` (wallet2's
refresh polls every 2000 ms, `setAutoRefreshInterval`). Job submission, `Stop`
and `Restart` are not fair: nobody must ever call them. `AnsweringSpec` adds that
every request ends; that is an assumption about daemons, and `ShutdownCompletes`
and `CatchUpGivesWay` need it: without it the worker waits for ever.
`TorJoins`, strong fairness of an answer with a joined proxy and of an accepted
init, stands only in the hypothesis of `ReachesTor`. `FairSpec` of `TicketQueue`
is weak fairness of the worker, so it assumes that job bodies return.

`LivelySpec` of `WalletHandle`: weak fairness of worker, probe and unload, which
are threads that wallet2 gives back, and strong fairness of a call that has been
made: its lock is free between the ticks, not for good. The bounds on calls and
wake-ups matter here: without them, where readers go first, overlapping readers
could keep a writer out for ever; the code has no guard against it.

## Proofs

For every value of the constants that meets `EngineAssumption` and
`NoUrlAssumption`, thus for any number of jobs, heights, networks, endpoints and
any set of answers:

- `TypeCorrect`: `Spec => []TypeOK`.
- `RoutesInductive`: `Spec => [](TypeOK /\ RouteInv)`.
- `ClearNothing`: `Spec => []NothingInTheClear`.
- `SendsOverTor`: `Spec => []SendsOnlyOverTor`.
- `HandlesOfOpenWallet`: `Spec => []PendingTxOfOpenWallet`.

`NothingInTheClear` is not inductive: it says nothing of the moments in which the
handle is public and the route is not recorded, or the reverse, nor of where
wallet2 will dial next. `RouteInv` adds that. While a wallet is being opened,
nothing refreshes, and what wallet2 dials is what the answer demanded
(`OpenInv`); a close has nulled the pointer (`CloseInv`); a move begins on a Tor
route, is offline from its first step until wallet2 dials the SOCKS port, and by
then has no request out (`MoveInv`); and a recorded Tor route dials the SOCKS
port, a recorded waiting one is offline with no request, or, where wallet2 raised
behind an accepted init, dials the SOCKS port already. The lemma `StepRoutes`
takes one step per action. `SendsOverTor` adds the history of sends on top of
it: the gates let a send pass only on the routes whose endpoint `RouteInv` knows.

About `TicketQueue`, for any number of tickets, ids and restarts:

- `TypeCorrect`: `Spec => []TypeOK`.
- `QueueInductive`: `Spec => []QueueInv`.
- `EventAfterOutcome`: `Spec => []EventFollowsOutcome`.
- `OwnJobOnly`: `Spec => OthersUntouched`, an action property.
- `ImplementsContract`: `Spec => KeepsContract`, the refinement.

The contract speaks of tickets, the code of a table, a queue and a Job object
that any two of them may share. `QueueInv` ties them together: the queue holds
exactly the tabled jobs that wait, oldest first (`WaitingInv`); the job that runs
is tabled and is the worker's current one (`RunningInv`); what the table holds
was issued by this instance under an id below `m_nextId` (`TableInv`), which is
why an old ticket whose id came round finds a foreign receipt. It is inductive
as it stands. `OwnJobOnly` goes through the actions of a client: what each finds
in the table under its id bears its own receipt (`TableInv`), and what it takes off
the queue is that job (`WaitingInv`). `EventFollowsOutcome` needs in addition that nothing was sent for a
job before it settled, nor for the one whose event is about to leave
(`EventInv`). The refinement then takes each action to a step of the contract or
a stutter; the case that needs the order of the queue is `Take`, which must run
the oldest waiting ticket.

About `WalletHandle`, for any callers, either policy of the mutex and any bounds:

- `HandleInductive`: `Spec => [](TypeOK /\ HandleInv)`.
- `TypeCorrect`: `Spec => []TypeOK`.
- `NoWalletUsedClosed`: `Spec => []NoUseAfterClose`.
- `ReadingsOfOpenWallet`: `Spec => []ReadingOfOpenWallet`.
- `ConnectedOnlyWhereDialled`: `Spec => []ConnectedWhereDialled`.
- `RevealsOwnWallet`: `Spec => []RevealOfOwnWallet`.
- `ReadsAnswer`: `Spec => ReadsAnswerThroughSwitch`, an action property: a worker
  that waits for the request in flight is inside its shared scope, so nobody owns
  the handle, and only an owner or, with the other policy, a waiting writer keeps
  a reader out.

None of the invariants is inductive: each speaks of pointers and readings and leaves
out who may hold them when. `HandleInv` says it. Whoever owns the handle is alone
(`AloneInv`), so the pointer changes under nobody's hands and everyone inside
works with the published wallet (`UsingInv`); what was closed had been withdrawn
before and its number is not given twice (`ClosedInv`). The probe stores before
it lets go, hence about the wallet it entered with (`RecordInv`); and a peer it
saw is still dialled, up to a switch that must own the handle, and so wait for
the probe, before it dials another (`PeerInv`). Types need `UsingInv`: a close
adds the number it holds to the closed ones.

Between two jobs (`WalletSessionProofs`), for every bound and every choice of what
may fail:

- `SessionInductive`: `Spec => [](TypeOK /\ RouteInv /\ SessionInv)`.
- `LocksFollow`: `Spec => []LocksMirrorWallet`.
- `StatusAgrees`: `Spec => []StatusMatchesWallet`.
- `FailedOpens`: `Spec => []FailedOpenIsNoneOrWhole`.
- `EngineFits`: `Spec => []EngineMatchesWallet`.
- `SentOnce`: `Spec => []ReportedSentOnce`.
- `ImplementsSession`: `Spec => KeepsSession`, the refinement.

These properties speak of the moments between jobs, so none is inductive: what a
job has already changed and what it still owes is in the worker's position.
`SessionInv` says it for each. `JobInv` and `PlaceInv`: which job the worker does
there, and whether a wallet is published. `LockInv`: a network is locked from the
notice of the open to the notice of the close, which is longer than the wallet is
published at one end and shorter at the other. `StatusInv`: the route is direct
again before the close announces "no wallet", and an open announces nothing else
before its handle is public. `OnlineInv`: a move is offline from its pause to its
resumption, or is on its way to be recorded as waiting. `FateInv`: a handle that is
held, or not yet given out, has not been reported as sent. `OpenedInv`: once an open
has published its wallet, what it dialled, recorded and locked stays until its job
settles. `EngineInv`: without a published wallet nothing of wallet2 runs, but from
the load of an open to its end and in a close. `DirectInv` adds to
`RouteInv` that a direct wallet is dialled in the clear, which the refinement
needs for a send. The exceptions are in the properties themselves: an event that
throws, a notice or a reply that is lost, an exception of wallet2. Where
wallet2 raises, `NothingInTheClear`, `SendsOnlyOverTor`, `PendingTxOfOpenWallet`,
`ReportedSentOnce`, `FailedOpenIsNoneOrWhole` and the refinement hold all the same;
what it may leave behind is a wallet that is paused or without a handle.

In the refinement `OpenRecord` is the contract's `Open`, `MoveRecord` its `Move`,
a build or commit that sends its `Send`, and `CloseBegin`, `ShutdownJoin` and
`Restart` its `Close`, where there was something to close; all else is a stutter.

About `WalletFiles`, for any names, networks, kinds of open and bounds:

- `FilesInductive`: `Spec => [](TypeOK /\ FilesInv)`.
- `TypeCorrect`: `Spec => []TypeOK`.
- `FilesBelong`: `Spec => []FilesOfOpenWallets`.
- `ClosesKept`, `ReportsKept`, `CrashesLose`: `Spec => []ClosedIsKept` and so on.
- `NothingOverwritten`: `Spec => NeverOverwritten`, an action property.

`FilesInv` adds to the properties which wallet the worker holds at each position
(`WorkerInv`), that a wallet on its way to be published is as its file is until
its refresh starts (`OpeningInv`), that whatever is on disk was made by an earlier
job (`MadeInv`), and that a record of success never exceeds the disk or, between a
change and its store, the wallet (`KeptInv`).

What the idle tick decides (also `WalletSessionProofs`), each under the
hypothesis that it needs:

- `AbandonsOnlySilent`: `Spec /\ [][~Rescan]_vars => CatchUpAbandonedOnlyWhenSilent`.
  The tick judges by its record of the height, which lags behind the height
  itself; `SilenceInv` says that the record is never above the height and, while
  they are equal, no older than the last block, so that a record too old means a
  node that is silent. A rescan lowers the height below its record, after which
  blocks come and are not seen; that is the finding of `doc_rescan_silence`, and
  the theorem says that nothing else breaks the property. `NeverRescans` shows the
  hypothesis to hold of every specification without that kind of job.
- `MovesTowardTor`: `EngineHolds => (Spec => RouteOnlyTowardTor)`, where
  `EngineHolds` says that wallet2 neither refuses an init nor raises. `TowardInv`
  says that the route is direct again whenever no wallet is open, save inside a
  close, that a wallet on Tor moves only on an answer that has Tor ready, and that
  only a wallet not yet on Tor is parked. `doc_toward_tor` shows the way back with a failing
  init; both together say that this is the only one.

About `Facade`, for every text of any length, any hosts, ports, schemes, networks
and prefixes, any base, radix, block sizes, key sizes and digest:

- `FacadeKeepsFiles`: `FacadeSpec => Spec`, so that every theorem about
  `WalletFiles` is one about what the runs of the facade check.
- `DestinationsAgree`: `FacadeSpec => []DestinationsByNettype`.
- `SocketsFound`: `FacadeSpec => []SocketsOfTheNode`.
- `TxidsRead`: `FacadeSpec => []TxidsAsJoined`.
- `DecodesBack`: `FacadeSpec => []DecodesAsWritten`.
- `AddressesAreValid`: `FacadeSpec => []ValidIsAddress`.

The last three need that what is typed is a sequence of characters (`TextTyped`);
the rest of each is about operators. `TxidsRead` places every character of a list
in its part: if all parts have `TxidChars` characters, the commas stand at the
multiples of `TxidChars + 1` and nowhere else. `SocketsFound` goes through
`hostPort` and `socketsTo` step by step: the first "://" is the scheme's, the last
character that is not a slash is the port's, the last colon is before the port.

`DecodesBack` and `AddressesAreValid` rest on three facts. Digits and numbers say
the same (`DigitsOfNumber`, `NumberOfDigits`), which takes the loops of
`decodeBlock` apart by induction over a set (`UpTo`; `StepByStep` builds the
values of a loop). A text has one cut into blocks (`OneCut`), and cutting and
joining undo each other (`FlattenBlocks`, `BlocksFlatten`). Since the sizes of
short blocks differ, a block says how many bytes it stands for (`BlockDecoded`,
`BlockEncoded`). A varint that is written is the one that is read (`VarintRead`),
so an address decodes to its prefix, data and digest; the other way, a text that
is valid is the encoding of its bytes, and those are prefix, data and digest.

The assumptions about the constants are those of the code, and TLC evaluates them
in `facade`:

| assumption | what the code has |
|---|---|
| `PrefixAssumption` | the networks are known, by prefixes that differ (`address_check.cpp:97-99`) |
| `AddressAssumption` | sizes are numbers, `ENC_SIZES` rises (`address_check.cpp:57`) |
| `EncodingAssumption` | 11 characters hold 8 bytes (58^11 > 256^8), and so for each short block; every prefix fits a varint and a word; the shortest address has 95 characters, more than 90; a digest has its 4 bytes |
| `TextAssumption` | a comma is no hex digit |
| `UrlAssumption` | no colon in a scheme or a port, no slash in a host, no bracket or colon in a host that is not IPv6 |

Only model-checked: everything under fairness (`WaitingJobSettles`,
`CatchUpGivesWay`, `ReachesTor`, `ShutdownCompletes`, `StaleLockReleased`,
`EveryCallReturns`, `UnloadEnds`), which is out of the prover's reach. Every
invariant and every action property that a passing run checks is a theorem.
One theorem has a hypothesis that its run meets by its bounds: `liveness` has only
opens and closes, so by `NeverRescans` the hypothesis of `AbandonsOnlySilent` holds.

## Plan

Done: all modules above, with proofs of every safety property of the passing
runs: engine, tickets, handle, files, texts.

Left:

1. The composition of `WalletHandle` with `TicketQueue`, whose worker both model
   from their own side; `status()` as a record of two sections in `WalletHandle`.
2. In `WalletEngine` the "ready" that a tick announces by a flag it read before a
   move (`cpp:408`), once there is a statement to hold it against.
3. The range check of `parseAtomic`, the 32-bit account numbers of the facade.

## Not modelled

- Balances, subaddresses, history: conversions of wallet2's answers to JSON, with
  no state of their own; how each call takes the handle is in `WalletHandle`.
- The ownership of C strings (`take`, `takeJoined`), `isLoopback`, the walk over
  the descriptors in `socketsTo`: memory and operating system, no decision that a
  property here is about.
- The permutation inside keccak256: a published function without parameters.
- File permissions and `listWallets`, which only reads.
- Tools, doctests, build files and CI: fronts and scripts around the module.
