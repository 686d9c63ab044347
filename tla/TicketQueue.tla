----------------------------- MODULE TicketQueue -----------------------------
(***************************************************************************)
(* The tickets of the wallet engine: the table and the queue of jobs under *)
(* m_qmu, the worker's loop around them, and the calls that reach them on  *)
(* any thread of the host.                                                 *)
(*                                                                         *)
(* A Job object is named by its receipt: 32 random hexadecimal digits,     *)
(* taken never to repeat, so tickets are numbered in the order issued.     *)
(* Its id ("j1", "j2", ...) starts over with every instance of the module. *)
(* Job is in the table, in the queue, both or neither, as shared_ptr has   *)
(* it; a client keeps its ticket, id and receipt, for as long as it likes. *)
(***************************************************************************)
EXTENDS Naturals, Sequences

CONSTANTS
  MaxTickets,   \* bound: tickets issued over all instances
  MaxIds,       \* bound: jobs of one instance
  MaxRestarts   \* bound: crashes and unloads

Tickets == 1 .. MaxTickets
Ids     == 1 .. MaxIds
NoJob   == 0

ASSUME QueueAssumption ==
  MaxTickets \in Nat /\ MaxIds \in Nat /\ MaxRestarts \in Nat

VARIABLES
  m_jobs,     \* id -> the Job the table holds under it, NoJob if none
  m_queue,    \* the Jobs that wait
  m_nextId,
  m_stop,
  issued,     \* the number of receipts drawn so far
  idOf,       \* receipt -> the id on its ticket, 0 before it is issued
  jobState,   \* Job -> its state, "lost" once the process that held it ended
  pc,         \* where the worker is
  current,    \* the Job the worker runs
  events,     \* history: Job -> jobFinished events sent for it
  heard,      \* history: ticket -> how often its holder was given a result
  restarts

table  == <<m_jobs, m_queue, m_nextId>>
worker == <<pc, current>>
client == <<issued, idOf>>
past   == <<events, heard>>
vars   == <<table, m_stop, client, jobState, worker, past, restarts>>

JobStates == {"none", "queued", "running", "done", "failed", "lost"}

(* A slip: the ids count from zero.                                        *)
FirstIdZero == 0

FirstId == 1

Init ==
  /\ m_jobs = [i \in Ids |-> NoJob] /\ m_queue = <<>> /\ m_nextId = FirstId
  /\ m_stop = FALSE
  /\ issued = 0 /\ idOf = [t \in Tickets |-> 0]
  /\ jobState = [t \in Tickets |-> "none"]
  /\ pc = "wait" /\ current = NoJob
  /\ events = [t \in Tickets |-> 0] /\ heard = [t \in Tickets |-> 0]
  /\ restarts = 0

-----------------------------------------------------------------------------
(* The calls of a client.                                                  *)

(* startJob does not look at m_stop: it accepts to the last.               *)
StartJob ==
  /\ issued < MaxTickets /\ m_nextId \in Ids
  /\ LET t == issued + 1
     IN /\ issued' = t
        /\ idOf' = [idOf EXCEPT ![t] = m_nextId]
        /\ jobState' = [jobState EXCEPT ![t] = "queued"]
        /\ m_jobs' = [m_jobs EXCEPT ![m_nextId] = t]
        /\ m_queue' = Append(m_queue, t)
        /\ m_nextId' = m_nextId + 1
  /\ UNCHANGED <<m_stop, worker, past, restarts>>

(* A slip: the id alone finds the Job.                                     *)
FoundById(t) == idOf[t] \in Ids /\ m_jobs[idOf[t]] # NoJob

(* The table holds a Job under the ticket's id, and its receipt is the     *)
(* ticket's.                                                               *)
Found(t) == idOf[t] \in Ids /\ m_jobs[idOf[t]] = t

(* The Job behind the ticket's id, when there is one.                      *)
JobOf(t) == m_jobs[idOf[t]]

Erased(t) == m_jobs' = [m_jobs EXCEPT ![idOf[t]] = NoJob]

(* The i-th of the waiting Jobs is taken out.                              *)
Without(q, i) == [k \in 1 .. Len(q) - 1 |-> IF k < i THEN q[k] ELSE q[k + 1]]

(* A slip: the table forgets the Job and the queue does not.               *)
StillQueued(t) == UNCHANGED m_queue

(* The first Job of the queue with the ticket's id goes: the queue is      *)
(* searched by id and not by receipt.                                      *)
Unqueue(t) ==
  LET Named(i) == idOf[m_queue[i]] = idOf[t]
  IN \/ /\ \A i \in 1 .. Len(m_queue) : ~Named(i)
        /\ UNCHANGED m_queue
     \/ \E i \in 1 .. Len(m_queue) :
          /\ Named(i) /\ \A k \in 1 .. i - 1 : ~Named(k)
          /\ m_queue' = Without(m_queue, i)

CancelJob(t) ==
  /\ Found(t)
  /\ jobState[JobOf(t)] = "queued"
  /\ Unqueue(t)
  /\ Erased(t)
  /\ UNCHANGED <<m_nextId, m_stop, client, jobState, worker, past, restarts>>

AckJob(t) ==
  /\ Found(t)
  /\ jobState[JobOf(t)] \in {"done", "failed"}
  /\ Erased(t)
  /\ UNCHANGED <<m_queue, m_nextId, m_stop, client, jobState, worker, past, restarts>>

(* The result is returned and stays.  The count stops at two.              *)
JobResult(t) ==
  /\ Found(t)
  /\ jobState[JobOf(t)] = "done"
  /\ heard[t] < 2
  /\ heard' = [heard EXCEPT ![t] = @ + 1]
  /\ UNCHANGED <<table, m_stop, client, jobState, worker, events, restarts>>

-----------------------------------------------------------------------------
(* The worker.                                                             *)

(* A slip: the Job is run from the front of the queue and left there.      *)
PopNothing == UNCHANGED m_queue

PopFront == m_queue' = Tail(m_queue)

Take ==
  /\ pc = "wait" /\ ~m_stop /\ m_queue # <<>>
  /\ pc' = "job"
  /\ current' = Head(m_queue)
  /\ PopFront
  /\ jobState' = [jobState EXCEPT ![Head(m_queue)] = "running"]
  /\ UNCHANGED <<m_jobs, m_nextId, m_stop, client, past, restarts>>

(* A slip: two seconds have passed, so the worker ticks.                   *)
TickDue == TRUE

NothingQueued == m_queue = <<>>

BeginTick ==
  /\ pc = "wait" /\ ~m_stop /\ NothingQueued
  /\ pc' = "tick"
  /\ UNCHANGED <<table, m_stop, client, jobState, current, past, restarts>>

EndTick ==
  /\ pc = "tick"
  /\ pc' = "wait"
  /\ UNCHANGED <<table, m_stop, client, jobState, current, past, restarts>>

(* The body has returned or thrown, and the Job settles under m_qmu.       *)
Settle ==
  /\ pc = "job"
  /\ pc' = "emit"
  /\ \E s \in {"done", "failed"} : jobState' = [jobState EXCEPT ![current] = s]
  /\ UNCHANGED <<table, m_stop, client, current, past, restarts>>

(* The event crosses IPC after the lock is released, and may be lost.      *)
Emit ==
  /\ pc = "emit"
  /\ pc' = "wait" /\ current' = NoJob
  /\ events' \in {events, [events EXCEPT ![current] = @ + 1]}
  /\ UNCHANGED <<table, m_stop, client, jobState, heard, restarts>>

(* m_stop ends the loop with the queue as it is.                           *)
Return ==
  /\ pc = "wait" /\ m_stop
  /\ pc' = "returned"
  /\ UNCHANGED <<table, m_stop, client, jobState, current, past, restarts>>

-----------------------------------------------------------------------------
(* The process.                                                            *)

Shutdown ==
  /\ ~m_stop
  /\ m_stop' = TRUE
  /\ UNCHANGED <<table, client, jobState, worker, past, restarts>>

(* After an unload or a crash: no Job is left, and the ids start over.     *)
Restart ==
  /\ restarts < MaxRestarts
  /\ restarts' = restarts + 1
  /\ m_jobs' = [i \in Ids |-> NoJob] /\ m_queue' = <<>> /\ m_nextId' = FirstId
  /\ m_stop' = FALSE
  /\ pc' = "wait" /\ current' = NoJob
  /\ jobState' = [t \in Tickets |-> IF Found(t) THEN "lost" ELSE jobState[t]]
  /\ UNCHANGED <<client, past>>

-----------------------------------------------------------------------------

Worker == Take \/ BeginTick \/ EndTick \/ Settle \/ Emit \/ Return

Calls == StartJob \/ \E t \in Tickets : CancelJob(t) \/ AckJob(t) \/ JobResult(t)

Next == Calls \/ Worker \/ Shutdown \/ Restart

Spec == Init /\ [][Next]_vars

(* The worker's thread is scheduled, and every job body returns.           *)
FairSpec == Spec /\ WF_vars(Worker)

-----------------------------------------------------------------------------
(* Properties.                                                             *)

(* Every variable of the queue holds a value of its type: table, queue,    *)
(* job states and tickets.                                                 *)
TypeOK ==
  /\ m_jobs \in [Ids -> Tickets \cup {NoJob}] /\ m_queue \in Seq(Tickets)
  /\ m_nextId \in 1 .. MaxIds + 1 /\ m_stop \in BOOLEAN
  /\ issued \in 0 .. MaxTickets /\ idOf \in [Tickets -> Ids \cup {0}]
  /\ jobState \in [Tickets -> JobStates]
  /\ pc \in {"wait", "tick", "job", "emit", "returned"}
  /\ current \in Tickets \cup {NoJob}
  /\ events \in [Tickets -> Nat] /\ heard \in [Tickets -> 0 .. 2]
  /\ restarts \in 0 .. MaxRestarts

(* The state of a ticket, read off the table, the Job and the queue.       *)
TicketState ==
  [t \in Tickets |->
     IF jobState[t] \in {"none", "lost"} THEN jobState[t]
     ELSE IF Found(t) THEN jobState[t]
     ELSE IF jobState[t] = "queued" THEN "cancelled" ELSE "acked"]

Contract == INSTANCE TicketContract WITH ticket <- TicketState

(* The table, the queue and the worker keep the promises of TicketContract *)
(* to every holder of a ticket, across restarts that reuse the ids.        *)
KeepsContract == Contract!Spec

(* What the contract rests on: the queue holds the tabled Jobs that wait,  *)
(* oldest first; the Job that runs is tabled, and only the worker's; and   *)
(* what the table holds has been issued by this instance.                  *)
WaitingInv ==
  /\ \A i \in 1 .. Len(m_queue) :
       jobState[m_queue[i]] = "queued" /\ Found(m_queue[i])
  /\ \A i, j \in 1 .. Len(m_queue) : i < j => m_queue[i] < m_queue[j]
  /\ \A t \in Tickets : jobState[t] = "queued" /\ Found(t) =>
       \E i \in 1 .. Len(m_queue) : m_queue[i] = t

RunningInv ==
  /\ \A t \in Tickets : (jobState[t] = "running") <=> (pc = "job" /\ current = t)
  /\ \A t \in Tickets : jobState[t] = "running" => Found(t)
  /\ pc = "job" => current \in Tickets
  /\ pc = "emit" => current \in Tickets /\ jobState[current] \in {"done", "failed"}

TableInv ==
  /\ \A t \in Tickets : (jobState[t] = "none") <=> t > issued
  /\ \A t \in Tickets : Found(t) =>
       idOf[t] < m_nextId /\ jobState[t] \notin {"none", "lost"}

QueueInv == WaitingInv /\ RunningInv /\ TableInv

(* A jobFinished event is sent at most once for a job, and only once its   *)
(* outcome can be read: never for one that was cancelled.                  *)
EventFollowsOutcome ==
  \A t \in Tickets :
    /\ events[t] <= 1
    /\ events[t] = 1 => TicketState[t] \in {"done", "failed", "acked", "lost"}

(* What EventFollowsOutcome rests on: nothing is sent for a job before it  *)
(* has settled, nor yet for the one whose event is about to leave.         *)
EventInv ==
  /\ \A t \in Tickets : events[t] <= 1
  /\ \A t \in Tickets :
       jobState[t] \in {"none", "queued", "running"} => events[t] = 0
  /\ pc = "emit" => events[current] = 0

(* A ticket reaches no job but its own: cancelJob and ackJob change what   *)
(* no other holder sees, and a result is given only for one's own job that *)
(* is done.  The id of a ticket from before a restart may be in use again. *)
OthersUntouched ==
  [][\A t \in Tickets :
       /\ CancelJob(t) \/ AckJob(t) =>
            \A u \in Tickets \ {t} : TicketState'[u] = TicketState[u]
       /\ heard'[t] # heard[t] => TicketState[t] = "done"]_vars

(* The comment on jobResult in monero_wallet_core_impl.h, "The job's       *)
(* result, once": it is not given a second time.                           *)
ResultOnce == \A t \in Tickets : heard[t] <= 1

(* A job that waits is run or cancelled in the end, unless the module is   *)
(* being unloaded: the worker's loop takes jobs before ticks.              *)
WaitingJobSettles ==
  \A t \in Tickets :
    (TicketState[t] = "queued")
      ~> (TicketState[t] \notin {"queued", "running"} \/ m_stop)

=============================================================================
