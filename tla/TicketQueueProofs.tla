-------------------------- MODULE TicketQueueProofs --------------------------
(***************************************************************************)
(* What holds of TicketQueue for any number of tickets, ids and restarts:  *)
(* its types, the order of its queue, and that it implements the contract. *)
(***************************************************************************)
EXTENDS TicketQueue, TLAPS

(* The groups of variables are abbreviations and nothing more.             *)
USE DEF table, worker, client, past, NoJob

LEMMA Bounds ==
  /\ MaxTickets \in Nat /\ MaxIds \in Nat /\ MaxRestarts \in Nat
  /\ NoJob \notin Tickets
  /\ 1 \in 1 .. MaxIds + 1 /\ 0 \in 0 .. MaxTickets /\ 0 \in 0 .. MaxRestarts
  /\ <<>> \in Seq(Tickets)
  BY QueueAssumption DEF QueueAssumption, Tickets

(* startJob draws the next receipt, one nobody holds.                      *)
LEMMA NextTicket ==
  ASSUME TypeOK, StartJob
  PROVE  /\ issued + 1 \in Tickets
         /\ \A u \in Tickets : u > issued + 1 <=> (u > issued /\ u # issued + 1)
  BY Bounds DEF TypeOK, StartJob, Tickets

(* cancelJob takes the i-th Job out of the queue: what is left was in it,  *)
(* in the same order.                                                      *)
LEMMA Removed ==
  ASSUME NEW q \in Seq(Tickets), NEW i \in 1 .. Len(q)
  PROVE  /\ Without(q, i) \in Seq(Tickets)
         /\ Len(Without(q, i)) = Len(q) - 1
         /\ \A k \in 1 .. Len(q) - 1 :
              Without(q, i)[k] = IF k < i THEN q[k] ELSE q[k + 1]
<1>1. Len(q) - 1 \in Nat
  OBVIOUS
<1>2. \A k \in 1 .. Len(q) - 1 :
        (IF k < i THEN q[k] ELSE q[k + 1]) \in Tickets
  OBVIOUS
<1> QED
  BY <1>1, <1>2 DEF Without

-----------------------------------------------------------------------------
(* Types.                                                                  *)

LEMMA InitTypes == Init => TypeOK
<1> SUFFICES ASSUME Init
             PROVE  TypeOK
  OBVIOUS
<1>1. /\ m_jobs \in [Ids -> Tickets \cup {NoJob}] /\ m_queue \in Seq(Tickets)
      /\ m_nextId \in 1 .. MaxIds + 1 /\ current \in Tickets \cup {NoJob}
  BY Bounds DEF Init, FirstId
<1>2. issued \in 0 .. MaxTickets /\ restarts \in 0 .. MaxRestarts
  BY Bounds DEF Init
<1>3. idOf \in [Tickets -> Ids \cup {0}] /\ jobState \in [Tickets -> JobStates]
  BY DEF Init, JobStates
<1>4. events \in [Tickets -> Nat] /\ heard \in [Tickets -> 0 .. 2]
  BY Bounds DEF Init
<1> QED
  BY <1>1, <1>2, <1>3, <1>4 DEF Init, TypeOK

(* Every step of clients, worker and process keeps the types.              *)
LEMMA StepTypes == TypeOK /\ [Next]_vars => TypeOK'
<1> SUFFICES ASSUME TypeOK, [Next]_vars
             PROVE  TypeOK'
  OBVIOUS
<1> USE Bounds
<1>1. CASE StartJob
  BY <1>1, NextTicket DEF TypeOK, StartJob, JobStates, Ids
<1>2. ASSUME NEW t \in Tickets, CancelJob(t)
      PROVE  TypeOK'
  <2>1. m_queue' = m_queue \/ \E i \in 1 .. Len(m_queue) : m_queue' = Without(m_queue, i)
    BY <1>2 DEF CancelJob, Unqueue
  <2>2. m_queue' \in Seq(Tickets)
    BY <2>1, Removed DEF TypeOK
  <2> QED
    BY <1>2, <2>2 DEF TypeOK, CancelJob, Erased
<1>3. ASSUME NEW t \in Tickets, AckJob(t)
      PROVE  TypeOK'
  BY <1>3 DEF TypeOK, AckJob, Erased
<1>4. ASSUME NEW t \in Tickets, JobResult(t)
      PROVE  TypeOK'
  <2>1. heard' \in [Tickets -> 0 .. 2]
    <3>1. heard[t] < 2 /\ heard[t] \in 0 .. 2 /\ heard' = [heard EXCEPT ![t] = heard[t] + 1]
      BY <1>4 DEF TypeOK, JobResult
    <3>2. heard[t] + 1 \in 0 .. 2
      BY <3>1
    <3> QED
      BY <3>1, <3>2 DEF TypeOK
  <2> QED
    BY <1>4, <2>1 DEF TypeOK, JobResult
<1>5. CASE Take
  BY <1>5 DEF TypeOK, Take, PopFront, JobStates
<1>6. CASE BeginTick \/ EndTick \/ Return
  BY <1>6 DEF TypeOK, BeginTick, EndTick, Return
<1>7. CASE Settle
  BY <1>7 DEF TypeOK, Settle, JobStates
<1>8. CASE Emit
  <2>1. events' \in [Tickets -> Nat]
    <3>1. events \in [Tickets -> Nat]
      BY DEF TypeOK
    <3>2. events' \in {events, [events EXCEPT ![current] = @ + 1]}
      BY <1>8 DEF Emit
    <3> QED
      BY <3>1, <3>2
  <2>2. pc' = "wait" /\ current' = NoJob
    BY <1>8 DEF Emit
  <2>3. /\ UNCHANGED <<m_jobs, m_queue, m_nextId, m_stop, issued, idOf>>
        /\ UNCHANGED <<jobState, heard, restarts>>
    BY <1>8 DEF Emit, table, client
  <2> QED
    BY <2>1, <2>2, <2>3 DEF TypeOK
<1>9. CASE Shutdown
  BY <1>9 DEF TypeOK, Shutdown
<1>10. CASE Restart
  <2>1. jobState' \in [Tickets -> JobStates]
    BY <1>10 DEF TypeOK, Restart, JobStates
  <2>2. m_jobs' \in [Ids -> Tickets \cup {NoJob}] /\ current' \in Tickets \cup {NoJob}
    BY <1>10 DEF Restart
  <2>3. m_nextId' \in 1 .. MaxIds + 1 /\ m_queue' \in Seq(Tickets)
    BY <1>10 DEF Restart, FirstId
  <2>4. restarts' \in 0 .. MaxRestarts
    BY <1>10 DEF Restart, TypeOK
  <2> QED
    BY <1>10, <2>1, <2>2, <2>3, <2>4 DEF TypeOK, Restart
<1>11. CASE UNCHANGED vars
  BY <1>11 DEF TypeOK, vars
<1> QED
  BY <1>1, <1>2, <1>3, <1>4, <1>5, <1>6, <1>7, <1>8, <1>9, <1>10, <1>11
     DEF Next, Calls, Worker

(* Every variable of the queue keeps its type: the job table, the queue,   *)
(* the job states and the tickets that clients hold.                       *)
THEOREM TypeCorrect == Spec => []TypeOK
  BY InitTypes, StepTypes, PTL DEF Spec

-----------------------------------------------------------------------------
(* The queue.                                                              *)

LEMMA InitQueue == Init => QueueInv
  BY Bounds DEF Init, QueueInv, WaitingInv, RunningInv, TableInv, Found, Tickets

(* Two tickets with the same id are not both found: a step that writes one *)
(* place of the table leaves the others found.                             *)
LEMMA FoundApart ==
  ASSUME NEW t \in Tickets, NEW u \in Tickets, u # t, Found(t), Found(u)
  PROVE  idOf[u] # idOf[t]
  BY DEF Found

(* The i-th waiting Job is in the table and issued.                        *)
LEMMA Waits ==
  ASSUME TypeOK, QueueInv, NEW i \in 1 .. Len(m_queue)
  PROVE  /\ m_queue[i] \in Tickets /\ jobState[m_queue[i]] = "queued"
         /\ Found(m_queue[i]) /\ ~(m_queue[i] > issued)
<1>1. m_queue[i] \in Tickets
  BY DEF TypeOK
<1>2. jobState[m_queue[i]] = "queued" /\ Found(m_queue[i])
  BY DEF QueueInv, WaitingInv
<1>3. ~(m_queue[i] > issued)
  BY <1>1, <1>2 DEF QueueInv, TableInv
<1> QED
  BY <1>1, <1>2, <1>3

(* What startJob changes: the new Job is the youngest, waits and is found. *)
LEMMA Started ==
  ASSUME TypeOK, QueueInv, StartJob, NEW t \in Tickets, t = issued + 1
  PROVE  /\ jobState[t] = "none" /\ jobState'[t] = "queued" /\ Found(t)'
         /\ idOf'[t] < m_nextId'
         /\ \A u \in Tickets : u # t =>
              /\ jobState'[u] = jobState[u] /\ idOf'[u] = idOf[u]
              /\ Found(u)' <=> Found(u)
<1>1. t > issued /\ m_nextId \in Ids /\ m_nextId \in Nat /\ m_nextId' = m_nextId + 1
  BY Bounds DEF StartJob, Tickets, TypeOK, Ids
<1>2. jobState[t] = "none"
  BY <1>1 DEF QueueInv, TableInv
<1>3. m_jobs' = [m_jobs EXCEPT ![m_nextId] = t] /\ idOf' = [idOf EXCEPT ![t] = m_nextId]
  BY DEF StartJob
<1>4. jobState'[t] = "queued" /\ Found(t)' /\ idOf'[t] < m_nextId'
  BY <1>1, <1>3 DEF TypeOK, StartJob, Found
<1>5. ASSUME NEW u \in Tickets, u # t
      PROVE  /\ jobState'[u] = jobState[u] /\ idOf'[u] = idOf[u]
             /\ Found(u)' <=> Found(u)
  <2>1. jobState'[u] = jobState[u] /\ idOf'[u] = idOf[u]
    BY <1>5, <1>3 DEF TypeOK, StartJob
  <2>2. CASE idOf[u] = m_nextId
    <3>1. ~Found(u)
      BY <1>1, <2>2 DEF QueueInv, TableInv
    <3>2. m_jobs'[idOf'[u]] = t
      BY <1>1, <1>3, <2>1, <2>2 DEF TypeOK
    <3> QED
      BY <1>5, <2>1, <3>1, <3>2 DEF Found
  <2>3. CASE idOf[u] # m_nextId
    BY <1>1, <1>3, <2>1, <2>3 DEF TypeOK, Found
  <2> QED
    BY <2>1, <2>2, <2>3
<1> QED
  BY <1>2, <1>4, <1>5

LEMMA StartQueue == TypeOK /\ QueueInv /\ StartJob => QueueInv'
<1> SUFFICES ASSUME TypeOK, QueueInv, StartJob
             PROVE  QueueInv'
  OBVIOUS
<1>1. PICK t \in Tickets : t = issued + 1
  BY NextTicket
<1> DEFINE Same(u) == /\ jobState'[u] = jobState[u] /\ idOf'[u] = idOf[u]
                      /\ Found(u)' <=> Found(u)
<1>2. /\ jobState[t] = "none" /\ jobState'[t] = "queued" /\ Found(t)'
      /\ idOf'[t] < m_nextId'
      /\ \A u \in Tickets : u # t => Same(u)
  BY <1>1, Started
<1>3. /\ pc' = pc /\ current' = current /\ issued' = t
      /\ m_queue' = Append(m_queue, t) /\ m_nextId' = m_nextId + 1
  BY <1>1 DEF StartJob
<1>4. /\ Len(m_queue) \in Nat /\ Len(m_queue') = Len(m_queue) + 1
      /\ m_queue'[Len(m_queue) + 1] = t
      /\ \A i \in 1 .. Len(m_queue) : m_queue'[i] = m_queue[i]
  BY <1>3 DEF TypeOK
<1>5. ASSUME NEW i \in 1 .. Len(m_queue)
      PROVE  \E u \in Tickets : /\ u = m_queue[i] /\ u = m_queue'[i] /\ u < t
                                /\ jobState[u] = "queued" /\ Found(u)
  <2>1. m_queue[i] \in Tickets /\ ~(m_queue[i] > issued)
        /\ jobState[m_queue[i]] = "queued" /\ Found(m_queue[i])
    BY <1>5, Waits
  <2>2. m_queue[i] < t
    BY <1>1, <2>1 DEF TypeOK, Tickets
  <2> QED
    BY <1>4, <1>5, <2>1, <2>2
<1>6. WaitingInv'
  <2>1. ASSUME NEW i \in 1 .. Len(m_queue')
        PROVE  \E u \in Tickets : u = m_queue'[i] /\ jobState'[u] = "queued" /\ Found(u)'
    <3>1. CASE i = Len(m_queue) + 1
      BY <3>1, <1>2, <1>4
    <3>2. CASE i \in 1 .. Len(m_queue)
      <4>1. PICK u \in Tickets : /\ u = m_queue'[i] /\ u < t
                                /\ jobState[u] = "queued" /\ Found(u)
        BY <1>5, <3>2
      <4>2. u # t
        BY <1>2, <4>1
      <4> QED
        BY <1>2, <4>1, <4>2
    <3> QED
      BY <2>1, <3>1, <3>2, <1>4
  <2>2. (\A i \in 1 .. Len(m_queue) : jobState[m_queue[i]] = "queued" /\ Found(m_queue[i]))'
    BY <2>1 DEF Found
  <2>3. ASSUME NEW i \in 1 .. Len(m_queue'), NEW j \in 1 .. Len(m_queue'), i < j
        PROVE  m_queue'[i] < m_queue'[j]
    <3>1. i \in 1 .. Len(m_queue)
      BY <1>4, <2>3
    <3>2. CASE j = Len(m_queue) + 1
      BY <1>4, <1>5, <3>1, <3>2
    <3>3. CASE j \in 1 .. Len(m_queue)
      BY <1>4, <2>3, <3>1, <3>3 DEF QueueInv, WaitingInv
    <3> QED
      BY <1>4, <2>3, <3>2, <3>3
  <2>4. ASSUME NEW u \in Tickets, jobState'[u] = "queued", Found(u)'
        PROVE  \E i \in 1 .. Len(m_queue') : m_queue'[i] = u
    <3>1. CASE u = t
      BY <3>1, <1>4
    <3>2. CASE u # t
      <4>1. PICK i \in 1 .. Len(m_queue) : m_queue[i] = u
        BY <1>2, <2>4, <3>2 DEF QueueInv, WaitingInv
      <4> QED
        BY <1>4, <4>1
    <3> QED
      BY <3>1, <3>2
  <2> QED
    BY <2>2, <2>3, <2>4 DEF WaitingInv
<1>7. RunningInv'
  BY <1>2, <1>3 DEF QueueInv, RunningInv
<1>8. TableInv'
  <2>1. ASSUME NEW u \in Tickets
        PROVE  (jobState'[u] = "none") <=> u > issued'
    <3>1. CASE u = t
      BY <1>2, <1>3, <3>1 DEF Tickets
    <3>2. CASE u # t
      <4>1. u > issued <=> u > t
        BY <1>1, <3>2 DEF TypeOK, Tickets
      <4> QED
        BY <1>2, <1>3, <3>2, <4>1 DEF QueueInv, TableInv
    <3> QED
      BY <3>1, <3>2
  <2>2. ASSUME NEW u \in Tickets, Found(u)'
        PROVE  idOf'[u] < m_nextId' /\ jobState'[u] \notin {"none", "lost"}
    <3>1. CASE u = t
      BY <1>2, <3>1
    <3>2. CASE u # t
      <4>1. idOf[u] < m_nextId /\ jobState[u] \notin {"none", "lost"}
        BY <1>2, <2>2, <3>2 DEF QueueInv, TableInv
      <4>2. idOf[u] \in Nat /\ m_nextId \in Nat
        BY Bounds DEF TypeOK, Ids
      <4> QED
        BY <1>2, <1>3, <3>2, <4>1, <4>2
    <3> QED
      BY <3>1, <3>2
  <2> QED
    BY <2>1, <2>2 DEF TableInv
<1> QED
  BY <1>6, <1>7, <1>8 DEF QueueInv

(* What cancelJob and ackJob do to the table: this Job and no other goes.  *)
LEMMA Dropped ==
  ASSUME TypeOK, NEW t \in Tickets, Found(t), Erased(t), UNCHANGED idOf
  PROVE  /\ ~Found(t)'
         /\ \A u \in Tickets : u # t => (Found(u)' <=> Found(u))
<1>1. idOf[t] \in Ids /\ m_jobs'[idOf[t]] = NoJob
  BY DEF TypeOK, Found, Erased
<1>2. ~Found(t)'
  BY <1>1, Bounds DEF Found
<1>3. ASSUME NEW u \in Tickets, u # t
      PROVE  Found(u)' <=> Found(u)
  <2>1. CASE idOf[u] = idOf[t]
    BY <1>1, <1>3, <2>1, Bounds, FoundApart DEF Found
  <2>2. CASE idOf[u] # idOf[t]
    BY <2>2 DEF Found, Erased, TypeOK
  <2> QED
    BY <2>1, <2>2
<1> QED
  BY <1>2, <1>3

LEMMA CancelQueue ==
  ASSUME TypeOK, QueueInv, NEW t \in Tickets, CancelJob(t)
  PROVE  QueueInv'
<1>1. /\ Found(t) /\ JobOf(t) = t /\ jobState[t] = "queued"
      /\ UNCHANGED <<jobState, idOf, issued, m_nextId, pc, current>>
  BY DEF CancelJob, Found, JobOf
<1>2. /\ ~Found(t)'
      /\ \A u \in Tickets : u # t => (Found(u)' <=> Found(u))
  BY <1>1, Dropped DEF CancelJob
<1>3. PICK i \in 1 .. Len(m_queue) : m_queue[i] = t /\ m_queue' = Without(m_queue, i)
  <2>1. ASSUME NEW k \in 1 .. Len(m_queue), idOf[m_queue[k]] = idOf[t]
        PROVE  m_queue[k] = t
    BY <1>1, <2>1, Waits, FoundApart
  <2>2. \E k \in 1 .. Len(m_queue) : m_queue[k] = t
    BY <1>1 DEF QueueInv, WaitingInv
  <2>3. Unqueue(t)
    BY DEF CancelJob
  <2> QED
    BY <2>1, <2>2, <2>3 DEF Unqueue
<1>4. /\ Len(m_queue) \in Nat /\ Len(m_queue') = Len(m_queue) - 1
      /\ \A k \in 1 .. Len(m_queue) - 1 :
           m_queue'[k] = IF k < i THEN m_queue[k] ELSE m_queue[k + 1]
  <2>1. m_queue \in Seq(Tickets) /\ Len(m_queue) \in Nat
    BY DEF TypeOK
  <2>2. /\ Len(Without(m_queue, i)) = Len(m_queue) - 1
        /\ \A k \in 1 .. Len(m_queue) - 1 :
             Without(m_queue, i)[k] = IF k < i THEN m_queue[k] ELSE m_queue[k + 1]
    BY <2>1, Removed
  <2> QED
    BY <1>3, <2>1, <2>2
<1>5. ASSUME NEW k \in 1 .. Len(m_queue')
      PROVE  \E u \in Tickets : u = m_queue'[k] /\ u # t /\ jobState[u] = "queued" /\ Found(u)
  <2>1. PICK j \in 1 .. Len(m_queue) : j # i /\ m_queue'[k] = m_queue[j]
    BY <1>4, <1>5
  <2>2. m_queue[j] \in Tickets /\ jobState[m_queue[j]] = "queued" /\ Found(m_queue[j])
    BY Waits
  <2>3. m_queue[j] # t
    <3>1. m_queue[j] < m_queue[i] \/ m_queue[i] < m_queue[j]
      BY <1>3, <2>1 DEF QueueInv, WaitingInv
    <3> QED
      BY <1>3, <2>2, <3>1 DEF Tickets
  <2> QED
    BY <2>1, <2>2, <2>3
<1>6. WaitingInv'
  <2>1. (\A k \in 1 .. Len(m_queue) : jobState[m_queue[k]] = "queued" /\ Found(m_queue[k]))'
    <3>1. ASSUME NEW k \in 1 .. Len(m_queue')
          PROVE  \E u \in Tickets : u = m_queue'[k] /\ jobState'[u] = "queued" /\ Found(u)'
      BY <1>1, <1>2, <1>5
    <3> QED
      BY <3>1 DEF Found
  <2>2. ASSUME NEW k \in 1 .. Len(m_queue'), NEW l \in 1 .. Len(m_queue'), k < l
        PROVE  m_queue'[k] < m_queue'[l]
    <3> DEFINE at(n) == IF n < i THEN n ELSE n + 1
    <3>1. k \in 1 .. Len(m_queue) - 1 /\ l \in 1 .. Len(m_queue) - 1
      BY <1>4
    <3>2. m_queue'[k] = m_queue[at(k)] /\ m_queue'[l] = m_queue[at(l)]
      BY <1>4, <3>1
    <3>3. at(k) \in 1 .. Len(m_queue) /\ at(l) \in 1 .. Len(m_queue) /\ at(k) < at(l)
      BY <1>4, <2>2, <3>1
    <3> HIDE DEF at
    <3>4. m_queue[at(k)] < m_queue[at(l)]
      BY <3>3 DEF QueueInv, WaitingInv
    <3> QED
      BY <3>2, <3>4
  <2>3. ASSUME NEW u \in Tickets, jobState'[u] = "queued", Found(u)'
        PROVE  \E k \in 1 .. Len(m_queue') : m_queue'[k] = u
    <3>1. u # t
      BY <1>2, <2>3
    <3>2. PICK j \in 1 .. Len(m_queue) : m_queue[j] = u
      BY <1>1, <1>2, <2>3, <3>1 DEF QueueInv, WaitingInv
    <3>3. j # i
      BY <1>3, <3>1, <3>2
    <3>4. CASE j < i
      <4>1. j \in 1 .. Len(m_queue) - 1
        BY <1>4, <3>4
      <4> QED
        BY <1>4, <3>2, <3>4, <4>1
    <3>5. CASE j > i
      <4>1. j - 1 \in 1 .. Len(m_queue) - 1 /\ ~(j - 1 < i) /\ (j - 1) + 1 = j
        BY <1>4, <3>5
      <4> QED
        BY <1>4, <3>2, <4>1
    <3> QED
      BY <3>3, <3>4, <3>5
  <2> QED
    BY <2>1, <2>2, <2>3 DEF WaitingInv
<1>7. RunningInv'
  BY <1>1, <1>2 DEF QueueInv, RunningInv
<1>8. TableInv'
  BY <1>1, <1>2 DEF QueueInv, TableInv
<1> QED
  BY <1>6, <1>7, <1>8 DEF QueueInv

LEMMA AckQueue ==
  ASSUME TypeOK, QueueInv, NEW t \in Tickets, AckJob(t)
  PROVE  QueueInv'
<1>1. /\ Found(t) /\ jobState[t] \in {"done", "failed"}
      /\ UNCHANGED <<m_queue, jobState, idOf, issued, m_nextId, pc, current>>
  BY DEF AckJob, Found, JobOf
<1>2. /\ ~Found(t)'
      /\ \A u \in Tickets : u # t => (Found(u)' <=> Found(u))
  BY <1>1, Dropped DEF AckJob
<1>3. WaitingInv'
  <2>1. ASSUME NEW k \in 1 .. Len(m_queue')
        PROVE  \E u \in Tickets : u = m_queue'[k] /\ jobState'[u] = "queued" /\ Found(u)'
    <3>1. /\ m_queue[k] \in Tickets /\ jobState[m_queue[k]] = "queued"
          /\ Found(m_queue[k])
      BY <1>1, Waits
    <3> QED
      BY <1>1, <1>2, <3>1
  <2>2. (\A k \in 1 .. Len(m_queue) : jobState[m_queue[k]] = "queued" /\ Found(m_queue[k]))'
    BY <2>1 DEF Found
  <2>3. (\A i, j \in 1 .. Len(m_queue) : i < j => m_queue[i] < m_queue[j])'
    BY <1>1 DEF QueueInv, WaitingInv
  <2>4. ASSUME NEW u \in Tickets, jobState'[u] = "queued", Found(u)'
        PROVE  \E k \in 1 .. Len(m_queue') : m_queue'[k] = u
    BY <1>1, <1>2, <2>4 DEF QueueInv, WaitingInv
  <2> QED
    BY <2>2, <2>3, <2>4 DEF WaitingInv
<1>4. RunningInv'
  BY <1>1, <1>2 DEF QueueInv, RunningInv
<1>5. TableInv'
  BY <1>1, <1>2 DEF QueueInv, TableInv
<1> QED
  BY <1>3, <1>4, <1>5 DEF QueueInv

(* The worker takes the oldest of the Jobs that wait.                      *)
LEMMA Oldest ==
  ASSUME TypeOK, QueueInv, m_queue # <<>>, NEW h \in Tickets, h = Head(m_queue)
  PROVE  /\ jobState[h] = "queued" /\ Found(h)
         /\ \A u \in Tickets : jobState[u] = "queued" /\ Found(u) => ~(u < h)
<1>1. 1 \in 1 .. Len(m_queue) /\ h = m_queue[1]
  BY DEF TypeOK
<1>2. jobState[h] = "queued" /\ Found(h)
  BY <1>1, Waits
<1>3. ASSUME NEW u \in Tickets, jobState[u] = "queued", Found(u)
      PROVE  ~(u < h)
  <2>1. PICK i \in 1 .. Len(m_queue) : m_queue[i] = u
    BY <1>3 DEF QueueInv, WaitingInv
  <2>2. CASE i = 1
    BY <1>1, <2>1, <2>2 DEF Tickets
  <2>3. CASE i # 1
    <3>1. h < u
      BY <1>1, <2>1, <2>3 DEF QueueInv, WaitingInv
    <3> QED
      BY <3>1 DEF Tickets
  <2> QED
    BY <2>2, <2>3
<1> QED
  BY <1>2, <1>3

LEMMA TakeQueue == TypeOK /\ QueueInv /\ Take => QueueInv'
<1> SUFFICES ASSUME TypeOK, QueueInv, Take
             PROVE  QueueInv'
  OBVIOUS
<1>1. PICK h \in Tickets : h = Head(m_queue)
  BY DEF Take, TypeOK
<1>2. jobState[h] = "queued" /\ Found(h)
  BY <1>1, Oldest DEF Take
<1>3. /\ pc = "wait" /\ pc' = "job" /\ current' = h
      /\ jobState' = [jobState EXCEPT ![h] = "running"]
      /\ UNCHANGED <<m_jobs, idOf, issued, m_nextId>>
  BY <1>1 DEF Take
<1>4. /\ Len(m_queue') = Len(m_queue) - 1 /\ Len(m_queue) \in Nat \ {0} /\ h = m_queue[1]
      /\ \A k \in 1 .. Len(m_queue) - 1 : m_queue'[k] = m_queue[k + 1]
  BY <1>1 DEF Take, PopFront, TypeOK
<1>5. /\ jobState'[h] = "running"
      /\ \A u \in Tickets : (Found(u)' <=> Found(u)) /\ (u # h => jobState'[u] = jobState[u])
  BY <1>3 DEF TypeOK, Found
<1>6. WaitingInv'
  <2>1. ASSUME NEW k \in 1 .. Len(m_queue')
        PROVE  \E u \in Tickets : u = m_queue'[k] /\ jobState'[u] = "queued" /\ Found(u)'
    <3>1. k + 1 \in 1 .. Len(m_queue) /\ 1 \in 1 .. Len(m_queue) /\ 1 < k + 1
      BY <1>4
    <3>2. /\ m_queue[k + 1] \in Tickets /\ jobState[m_queue[k + 1]] = "queued"
          /\ Found(m_queue[k + 1])
      BY <3>1, Waits
    <3>3. h < m_queue[k + 1]
      BY <1>4, <3>1 DEF QueueInv, WaitingInv
    <3>4. m_queue[k + 1] # h
      BY <3>2, <3>3 DEF Tickets
    <3> QED
      BY <1>4, <1>5, <3>2, <3>4
  <2>2. (\A k \in 1 .. Len(m_queue) : jobState[m_queue[k]] = "queued" /\ Found(m_queue[k]))'
    BY <2>1 DEF Found
  <2>3. ASSUME NEW k \in 1 .. Len(m_queue'), NEW l \in 1 .. Len(m_queue'), k < l
        PROVE  m_queue'[k] < m_queue'[l]
    <3>1. k + 1 \in 1 .. Len(m_queue) /\ l + 1 \in 1 .. Len(m_queue) /\ k + 1 < l + 1
      BY <1>4, <2>3
    <3>2. m_queue[k + 1] < m_queue[l + 1]
      BY <3>1 DEF QueueInv, WaitingInv
    <3> QED
      BY <1>4, <3>2
  <2>4. ASSUME NEW u \in Tickets, jobState'[u] = "queued", Found(u)'
        PROVE  \E k \in 1 .. Len(m_queue') : m_queue'[k] = u
    <3>1. u # h
      BY <1>5, <2>4
    <3>2. PICK i \in 1 .. Len(m_queue) : m_queue[i] = u
      BY <1>5, <2>4, <3>1 DEF QueueInv, WaitingInv
    <3>3. i # 1
      BY <1>4, <3>1, <3>2
    <3>4. i - 1 \in 1 .. Len(m_queue) - 1 /\ (i - 1) + 1 = i
      BY <1>4, <3>3
    <3> QED
      BY <1>4, <3>2, <3>4
  <2> QED
    BY <2>2, <2>3, <2>4 DEF WaitingInv
<1>7. RunningInv'
  <2>1. \A u \in Tickets : jobState[u] # "running"
    BY <1>3 DEF QueueInv, RunningInv
  <2> QED
    BY <1>2, <1>3, <1>5, <2>1 DEF RunningInv
<1>8. TableInv'
  <2>1. jobState[h] # "none"
    BY <1>2
  <2> QED
    BY <1>3, <1>5, <2>1 DEF QueueInv, TableInv
<1> QED
  BY <1>6, <1>7, <1>8 DEF QueueInv

LEMMA SettleQueue == TypeOK /\ QueueInv /\ Settle => QueueInv'
<1> SUFFICES ASSUME TypeOK, QueueInv, Settle
             PROVE  QueueInv'
  OBVIOUS
<1>1. current \in Tickets /\ jobState[current] = "running" /\ Found(current)
  BY DEF Settle, QueueInv, RunningInv
<1>2. PICK c \in Tickets, s \in {"done", "failed"} :
        /\ c = current /\ jobState' = [jobState EXCEPT ![c] = s]
  BY <1>1 DEF Settle
<1>3. /\ pc = "job" /\ pc' = "emit" /\ current' = c
      /\ UNCHANGED <<m_jobs, m_queue, idOf, issued, m_nextId>>
  BY <1>2 DEF Settle
<1>4. /\ jobState'[c] = s /\ jobState[c] = "running"
      /\ \A u \in Tickets : (Found(u)' <=> Found(u)) /\ (u # c => jobState'[u] = jobState[u])
  BY <1>1, <1>2, <1>3 DEF TypeOK, Found
<1>5. WaitingInv'
  <2>1. ASSUME NEW k \in 1 .. Len(m_queue')
        PROVE  \E u \in Tickets : u = m_queue'[k] /\ jobState'[u] = "queued" /\ Found(u)'
    <3>1. /\ m_queue[k] \in Tickets /\ jobState[m_queue[k]] = "queued"
          /\ Found(m_queue[k])
      BY <1>3, Waits
    <3> QED
      BY <1>3, <1>4, <3>1
  <2>2. (\A k \in 1 .. Len(m_queue) : jobState[m_queue[k]] = "queued" /\ Found(m_queue[k]))'
    BY <2>1 DEF Found
  <2>3. (\A i, j \in 1 .. Len(m_queue) : i < j => m_queue[i] < m_queue[j])'
    BY <1>3 DEF QueueInv, WaitingInv
  <2>4. ASSUME NEW u \in Tickets, jobState'[u] = "queued", Found(u)'
        PROVE  \E k \in 1 .. Len(m_queue') : m_queue'[k] = u
    BY <1>3, <1>4, <2>4 DEF QueueInv, WaitingInv
  <2> QED
    BY <2>2, <2>3, <2>4 DEF WaitingInv
<1>6. RunningInv'
  <2>1. \A u \in Tickets : u # c => jobState[u] # "running"
    BY <1>2 DEF QueueInv, RunningInv
  <2> QED
    BY <1>3, <1>4, <2>1 DEF RunningInv
<1>7. TableInv'
  BY <1>3, <1>4 DEF QueueInv, TableInv
<1> QED
  BY <1>5, <1>6, <1>7 DEF QueueInv

(* After a restart nothing is tabled: what was is lost, what was not stays *)
(* as it was.                                                              *)
LEMMA Restarted ==
  ASSUME TypeOK, Restart, NEW u \in Tickets
  PROVE  /\ ~Found(u)'
         /\ jobState'[u] = IF Found(u) THEN "lost" ELSE jobState[u]
<1>1. \A i \in Ids : m_jobs'[i] = NoJob
  BY DEF Restart
<1>2. ~Found(u)'
  BY <1>1, Bounds DEF Found
<1>3. jobState'[u] = IF Found(u) THEN "lost" ELSE jobState[u]
  BY DEF Restart
<1> QED
  BY <1>2, <1>3

LEMMA RestartQueue == TypeOK /\ QueueInv /\ Restart => QueueInv'
<1> SUFFICES ASSUME TypeOK, QueueInv, Restart
             PROVE  QueueInv'
  OBVIOUS
<1>1. m_queue' = <<>> /\ pc' = "wait" /\ issued' = issued
  BY DEF Restart
<1>2. WaitingInv'
  BY <1>1, Restarted DEF WaitingInv
<1>3. RunningInv'
  <2>1. \A u \in Tickets : jobState'[u] # "running"
    BY Restarted DEF QueueInv, RunningInv
  <2> QED
    BY <1>1, <2>1 DEF RunningInv
<1>4. TableInv'
  BY <1>1, Restarted DEF QueueInv, TableInv
<1> QED
  BY <1>2, <1>3, <1>4 DEF QueueInv

(* The other steps touch neither table, queue nor Job.                     *)
LEMMA OtherQueue ==
  TypeOK /\ QueueInv
    /\ (BeginTick \/ EndTick \/ Return \/ Emit \/ Shutdown \/ UNCHANGED vars
          \/ \E t \in Tickets : JobResult(t))
    => QueueInv'
<1> SUFFICES ASSUME TypeOK, QueueInv,
                    \/ BeginTick \/ EndTick \/ Return \/ Emit \/ Shutdown
                    \/ UNCHANGED vars \/ \E t \in Tickets : JobResult(t)
             PROVE  QueueInv'
  OBVIOUS
<1>1. UNCHANGED <<m_jobs, m_queue, m_nextId, idOf, issued, jobState>>
  BY DEF BeginTick, EndTick, Return, Emit, Shutdown, vars, JobResult
<1>2. \/ UNCHANGED <<pc, current>>
      \/ pc # "job" /\ pc' \notin {"job", "emit"}
  BY DEF BeginTick, EndTick, Return, Emit, Shutdown, vars, JobResult
<1>3. WaitingInv' /\ TableInv'
  BY <1>1 DEF QueueInv, WaitingInv, TableInv, Found
<1>4. RunningInv'
  BY <1>1, <1>2 DEF QueueInv, RunningInv, Found
<1> QED
  BY <1>3, <1>4 DEF QueueInv

LEMMA StepQueue == TypeOK /\ QueueInv /\ [Next]_vars => QueueInv'
  BY StartQueue, CancelQueue, AckQueue, TakeQueue, SettleQueue, RestartQueue,
     OtherQueue DEF Next, Calls, Worker

(* The queue holds the tabled Jobs that wait, oldest first, and the one    *)
(* that runs is the worker's: startJob, cancelJob, ackJob, threadMain, run.*)
THEOREM QueueInductive == Spec => [](TypeOK /\ QueueInv)
<1>1. Init => TypeOK /\ QueueInv
  BY InitTypes, InitQueue
<1>2. TypeOK /\ QueueInv /\ [Next]_vars => (TypeOK /\ QueueInv)'
  BY StepTypes, StepQueue
<1> QED
  BY <1>1, <1>2, PTL DEF Spec

-----------------------------------------------------------------------------
(* Events.                                                                 *)

LEMMA InitEvents == Init => EventInv
  BY DEF Init, EventInv

(* Only Emit sends an event, for a Job that has settled and had none.      *)
LEMMA StepEvents == TypeOK /\ QueueInv /\ EventInv /\ [Next]_vars => EventInv'
<1> SUFFICES ASSUME TypeOK, QueueInv, EventInv, [Next]_vars
             PROVE  EventInv'
  OBVIOUS
<1>1. CASE StartJob
  <2>1. PICK t \in Tickets : t = issued + 1
    BY <1>1, NextTicket
  <2>2. /\ jobState[t] = "none" /\ \A u \in Tickets : u # t => jobState'[u] = jobState[u]
    BY <1>1, <2>1, Started
  <2>3. UNCHANGED <<events, pc, current>>
    BY <1>1 DEF StartJob
  <2> QED
    BY <2>2, <2>3 DEF EventInv
<1>2. CASE \E t \in Tickets : CancelJob(t) \/ AckJob(t) \/ JobResult(t)
  BY <1>2 DEF EventInv, CancelJob, AckJob, JobResult
<1>3. CASE Take
  <2>1. PICK h \in Tickets : h = Head(m_queue)
    BY <1>3 DEF Take, TypeOK
  <2>2. jobState[h] = "queued"
    BY <1>3, <2>1, Oldest DEF Take
  <2>3. jobState' = [jobState EXCEPT ![h] = "running"] /\ events' = events /\ pc' = "job"
    BY <1>3, <2>1 DEF Take
  <2> QED
    BY <2>2, <2>3 DEF EventInv, TypeOK
<1>4. CASE BeginTick \/ EndTick \/ Return \/ Shutdown \/ UNCHANGED vars
  BY <1>4 DEF EventInv, BeginTick, EndTick, Return, Shutdown, vars
<1>5. CASE Settle
  <2>1. current \in Tickets /\ jobState[current] = "running"
    BY <1>5 DEF Settle, QueueInv, RunningInv
  <2>2. \A u \in Tickets : u # current => jobState'[u] = jobState[u]
    BY <1>5 DEF Settle, TypeOK
  <2>3. jobState'[current] \in {"done", "failed"}
    BY <1>5, <2>1 DEF Settle, TypeOK
  <2> QED
    BY <1>5, <2>1, <2>2, <2>3 DEF EventInv, Settle
<1>6. CASE Emit
  <2>1. current \in Tickets /\ jobState[current] \in {"done", "failed"} /\ events[current] = 0
    BY <1>6 DEF Emit, QueueInv, RunningInv, EventInv
  <2>2. \A u \in Tickets : events'[u] = events[u] \/ (u = current /\ events'[u] = 1)
    BY <1>6, <2>1 DEF Emit, TypeOK
  <2>3. pc' = "wait" /\ jobState' = jobState
    BY <1>6 DEF Emit
  <2> QED
    BY <2>1, <2>2, <2>3 DEF EventInv
<1>7. CASE Restart
  <2>1. pc' = "wait" /\ events' = events
    BY <1>7 DEF Restart
  <2> QED
    BY <1>7, <2>1, Restarted DEF EventInv
<1> QED
  BY <1>1, <1>2, <1>3, <1>4, <1>5, <1>6, <1>7 DEF Next, Calls, Worker

(* A ticket's state, for one ticket.                                       *)
LEMMA StateOf ==
  ASSUME NEW t \in Tickets
  PROVE  TicketState[t] =
           IF jobState[t] \in {"none", "lost"} THEN jobState[t]
           ELSE IF Found(t) THEN jobState[t]
           ELSE IF jobState[t] = "queued" THEN "cancelled" ELSE "acked"
  BY DEF TicketState

LEMMA EventsFollow == TypeOK /\ QueueInv /\ EventInv => EventFollowsOutcome
<1> SUFFICES ASSUME TypeOK, QueueInv, EventInv, NEW t \in Tickets
             PROVE  /\ events[t] <= 1
                    /\ events[t] = 1 => TicketState[t] \in {"done", "failed", "acked", "lost"}
  BY DEF EventFollowsOutcome
<1>1. events[t] = 1 => jobState[t] \in {"done", "failed", "lost"}
  BY DEF EventInv, TypeOK, JobStates
<1>2. events[t] = 1 => TicketState[t] \in {"done", "failed", "acked", "lost"}
  BY <1>1, StateOf
<1> QED
  BY <1>2 DEF EventInv

(* A jobFinished event is sent at most once, and only once the outcome it  *)
(* speaks of can be read: run() settles the Job before it emits.           *)
THEOREM EventAfterOutcome == Spec => []EventFollowsOutcome
<1>1. Init => EventInv
  BY InitEvents
<1>2. TypeOK /\ QueueInv /\ EventInv /\ [Next]_vars => EventInv'
  BY StepEvents
<1>3. TypeOK /\ QueueInv /\ EventInv => EventFollowsOutcome
  BY EventsFollow
<1> QED
  BY <1>1, <1>2, <1>3, QueueInductive, PTL DEF Spec

-----------------------------------------------------------------------------
(* The contract.                                                           *)

LEMMA InitContract == Init => Contract!Init
<1> SUFFICES ASSUME Init
             PROVE  TicketState = [t \in Tickets |-> "none"]
  BY DEF Contract!Init
<1> QED
  BY DEF Init, TicketState

(* A step that leaves Jobs and table alone leaves every ticket's state.    *)
LEMMA SameState ==
  ASSUME NEW t \in Tickets, jobState'[t] = jobState[t], Found(t)' <=> Found(t)
  PROVE  TicketState'[t] = TicketState[t]
<1>1. TicketState'[t] =
        IF jobState'[t] \in {"none", "lost"} THEN jobState'[t]
        ELSE IF Found(t)' THEN jobState'[t]
        ELSE IF jobState'[t] = "queued" THEN "cancelled" ELSE "acked"
  BY DEF TicketState
<1> QED
  BY <1>1, StateOf

(* One ticket's new state, and the others' old, make a step of the         *)
(* contract.                                                               *)
LEMMA OneBecomes ==
  ASSUME NEW t \in Tickets, NEW s, TicketState'[t] = s,
         \A u \in Tickets : u # t => TicketState'[u] = TicketState[u]
  PROVE  Contract!Becomes(t, s)
<1>1. TicketState' = [TicketState EXCEPT ![t] = s]
  BY DEF TicketState
<1> QED
  BY <1>1 DEF Contract!Becomes

(* What is said of one ticket changes nothing for the holders of others.   *)
LEMMA StepOthers ==
  ASSUME TypeOK, QueueInv, [Next]_vars, NEW t \in Tickets
  PROVE  /\ CancelJob(t) \/ AckJob(t) =>
              \A u \in Tickets \ {t} : TicketState'[u] = TicketState[u]
         /\ heard'[t] # heard[t] => TicketState[t] = "done"
<1>1. ASSUME CancelJob(t) \/ AckJob(t), NEW u \in Tickets \ {t}
      PROVE  TicketState'[u] = TicketState[u]
  <2>1. Found(t) /\ Erased(t) /\ UNCHANGED <<idOf, jobState>>
    BY <1>1 DEF CancelJob, AckJob
  <2>2. Found(u)' <=> Found(u)
    BY <2>1, Dropped
  <2> QED
    BY <2>1, <2>2, SameState
<1>2. ASSUME heard'[t] # heard[t]
      PROVE  TicketState[t] = "done"
  <2>1. PICK u \in Tickets : JobResult(u)
    BY <1>2
    DEF Next, Calls, Worker, StartJob, CancelJob, AckJob, Take, BeginTick, EndTick,
        Settle, Emit, Return, Shutdown, Restart, vars
  <2>2. u = t
    BY <1>2, <2>1 DEF JobResult, TypeOK
  <2>3. Found(t) /\ jobState[t] = "done"
    BY <2>1, <2>2 DEF JobResult, JobOf, Found
  <2> QED
    BY <2>3, StateOf
<1> QED
  BY <1>1, <1>2

(* The receipt tells tickets with the same id apart, whatever ids a later  *)
(* instance of the module issues again: cancelJob, ackJob and jobResult    *)
(* compare it, and the queue cancelJob searches by id holds each id once.  *)
THEOREM OwnJobOnly == Spec => OthersUntouched
<1>1. TypeOK /\ QueueInv /\ [Next]_vars =>
        [\A t \in Tickets :
           /\ CancelJob(t) \/ AckJob(t) =>
                \A u \in Tickets \ {t} : TicketState'[u] = TicketState[u]
           /\ heard'[t] # heard[t] => TicketState[t] = "done"]_vars
  BY StepOthers
<1> QED
  BY <1>1, QueueInductive, PTL DEF Spec, OthersUntouched

(* Every step of the queue is a step of the contract, or none of it.       *)
LEMMA StepContract ==
  TypeOK /\ QueueInv /\ [Next]_vars => [Contract!Next]_TicketState
<1> SUFFICES ASSUME TypeOK, QueueInv, [Next]_vars
             PROVE  Contract!Next \/ TicketState' = TicketState
  OBVIOUS
<1>1. CASE StartJob
  <2>1. PICK t \in Tickets : t = issued + 1
    BY <1>1, NextTicket
  <2>2. /\ jobState[t] = "none" /\ jobState'[t] = "queued" /\ Found(t)'
        /\ \A u \in Tickets : u # t =>
             /\ jobState'[u] = jobState[u] /\ (Found(u)' <=> Found(u))
    BY <1>1, <2>1, Started
  <2>3. TicketState[t] = "none" /\ TicketState'[t] = "queued"
    BY <2>2 DEF TicketState
  <2>4. ASSUME NEW u \in Tickets, u > t
        PROVE  TicketState[u] = "none"
    <3>1. u > issued
      BY <2>1, <2>4 DEF TypeOK, Tickets
    <3>2. jobState[u] = "none"
      BY <3>1 DEF QueueInv, TableInv
    <3> QED
      BY <3>2, StateOf
  <2>5. Contract!Becomes(t, "queued")
    BY <2>2, <2>3, SameState, OneBecomes
  <2>6. Contract!Accept(t)
    BY <2>3, <2>4, <2>5 DEF Contract!Accept
  <2> QED
    BY <2>6 DEF Contract!Next
<1>2. ASSUME NEW t \in Tickets, CancelJob(t)
      PROVE  Contract!Next
  <2>1. Found(t) /\ jobState[t] = "queued" /\ UNCHANGED jobState
    BY <1>2 DEF CancelJob, Found, JobOf
  <2>2. ~Found(t)' /\ \A u \in Tickets : u # t => (Found(u)' <=> Found(u))
    BY <1>2, <2>1, Dropped DEF CancelJob
  <2>3. TicketState[t] = "queued" /\ TicketState'[t] = "cancelled"
    BY <2>1, <2>2 DEF TicketState
  <2>4. Contract!Becomes(t, "cancelled")
    BY <2>1, <2>2, <2>3, SameState, OneBecomes
  <2>5. Contract!Cancel(t)
    BY <2>3, <2>4 DEF Contract!Cancel
  <2> QED
    BY <2>5 DEF Contract!Next
<1>3. ASSUME NEW t \in Tickets, AckJob(t)
      PROVE  Contract!Next
  <2>1. Found(t) /\ jobState[t] \in {"done", "failed"} /\ UNCHANGED jobState
    BY <1>3 DEF AckJob, Found, JobOf
  <2>2. ~Found(t)' /\ \A u \in Tickets : u # t => (Found(u)' <=> Found(u))
    BY <1>3, <2>1, Dropped DEF AckJob
  <2>3. TicketState[t] \in {"done", "failed"} /\ TicketState'[t] = "acked"
    BY <2>1, <2>2 DEF TicketState
  <2>4. Contract!Becomes(t, "acked")
    BY <2>1, <2>2, <2>3, SameState, OneBecomes
  <2>5. Contract!Acknowledge(t)
    BY <2>3, <2>4 DEF Contract!Acknowledge
  <2> QED
    BY <2>5 DEF Contract!Next
<1>4. CASE Take
  <2>1. PICK h \in Tickets : h = Head(m_queue)
    BY <1>4 DEF Take, TypeOK
  <2>2. /\ jobState[h] = "queued" /\ Found(h)
        /\ \A u \in Tickets : jobState[u] = "queued" /\ Found(u) => ~(u < h)
    BY <1>4, <2>1, Oldest DEF Take
  <2>3. jobState' = [jobState EXCEPT ![h] = "running"] /\ UNCHANGED <<m_jobs, idOf>> /\ pc = "wait"
    BY <1>4, <2>1 DEF Take
  <2>4. /\ jobState'[h] = "running" /\ Found(h)'
        /\ \A u \in Tickets : u # h =>
             /\ jobState'[u] = jobState[u] /\ (Found(u)' <=> Found(u))
    BY <2>2, <2>3 DEF TypeOK, Found
  <2>5. TicketState[h] = "queued" /\ TicketState'[h] = "running"
    BY <2>2, <2>4 DEF TicketState
  <2>6. \A u \in Tickets : TicketState[u] # "running"
    <3>1. \A u \in Tickets : jobState[u] # "running"
      BY <2>3 DEF QueueInv, RunningInv
    <3> QED
      BY <3>1, StateOf
  <2>7. \A u \in Tickets : u < h => TicketState[u] # "queued"
    BY <2>2, StateOf
  <2>8. Contract!Becomes(h, "running")
    BY <2>4, <2>5, SameState, OneBecomes
  <2>9. Contract!Start(h)
    BY <2>5, <2>6, <2>7, <2>8 DEF Contract!Start
  <2> QED
    BY <2>9 DEF Contract!Next
<1>5. CASE Settle
  <2>1. current \in Tickets /\ jobState[current] = "running" /\ Found(current)
    BY <1>5 DEF Settle, QueueInv, RunningInv
  <2>2. PICK c \in Tickets, s \in {"done", "failed"} :
          /\ c = current /\ jobState' = [jobState EXCEPT ![c] = s]
    BY <1>5, <2>1 DEF Settle
  <2>3. UNCHANGED <<m_jobs, idOf>>
    BY <1>5 DEF Settle
  <2>4. /\ jobState'[c] = s /\ jobState[c] = "running" /\ Found(c) /\ Found(c)'
        /\ \A u \in Tickets : u # c =>
             /\ jobState'[u] = jobState[u] /\ (Found(u)' <=> Found(u))
    BY <2>1, <2>2, <2>3 DEF TypeOK, Found
  <2>5. TicketState[c] = "running" /\ TicketState'[c] = s
    BY <2>4 DEF TicketState
  <2>6. Contract!Becomes(c, s)
    BY <2>4, <2>5, SameState, OneBecomes
  <2>7. Contract!Finish(c)
    BY <2>5, <2>6 DEF Contract!Finish
  <2> QED
    BY <2>7 DEF Contract!Next
<1>6. CASE Restart
  <2>1. ASSUME NEW u \in Tickets
        PROVE  TicketState'[u] =
                 IF TicketState[u] \in {"queued", "running", "done", "failed"}
                 THEN "lost" ELSE TicketState[u]
    <3>1. ~Found(u)' /\ jobState'[u] = IF Found(u) THEN "lost" ELSE jobState[u]
      BY <1>6, Restarted
    <3>2. CASE Found(u)
      <4>1. jobState[u] \in {"queued", "running", "done", "failed"}
        BY <3>2 DEF QueueInv, TableInv, TypeOK, JobStates
      <4> QED
        BY <3>1, <3>2, <4>1 DEF TicketState
    <3>3. CASE ~Found(u)
      <4>1. TicketState[u] \notin {"queued", "running", "done", "failed"}
        BY <3>3, StateOf
      <4>2. TicketState'[u] = TicketState[u]
        BY <3>1, <3>3, SameState
      <4> QED
        BY <4>1, <4>2
    <3> QED
      BY <3>2, <3>3
  <2>2. Contract!Lose
    BY <2>1 DEF Contract!Lose, TicketState
  <2> QED
    BY <2>2 DEF Contract!Next
<1>7. CASE \/ BeginTick \/ EndTick \/ Return \/ Emit \/ Shutdown
           \/ UNCHANGED vars \/ \E t \in Tickets : JobResult(t)
  <2>1. UNCHANGED <<m_jobs, idOf, jobState>>
    BY <1>7 DEF BeginTick, EndTick, Return, Emit, Shutdown, vars, JobResult
  <2> QED
    BY <2>1 DEF TicketState, Found
<1> QED
  BY <1>1, <1>2, <1>3, <1>4, <1>5, <1>6, <1>7 DEF Next, Calls, Worker

(* startJob, cancelJob, ackJob and the worker keep what TicketContract     *)
(* promises the holder of a ticket, across restarts that reuse the ids.    *)
THEOREM ImplementsContract == Spec => KeepsContract
<1>1. Init => Contract!Init
  BY InitContract
<1>2. TypeOK /\ QueueInv /\ [Next]_vars => [Contract!Next]_TicketState
  BY StepContract
<1> QED
  BY <1>1, <1>2, QueueInductive, PTL DEF Spec, KeepsContract, Contract!Spec

=============================================================================
