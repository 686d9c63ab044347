---------------------------- MODULE TicketContract ----------------------------
(***************************************************************************)
(* What startJob, cancelJob, ackJob and the worker promise the holder of a *)
(* ticket, with no queue, table, id or receipt in sight.                   *)
(*                                                                         *)
(* Tickets are numbered in the order they are issued.  One runs at a time, *)
(* the oldest that still waits; a cancelled one never runs; a finished one *)
(* stays finished until its holder acknowledges it or the process ends.    *)
(***************************************************************************)
EXTENDS Naturals

CONSTANT Tickets   \* the tickets that may be issued, naturals

VARIABLE ticket

TicketStates ==
  {"none", "queued", "running", "done", "failed", "cancelled", "acked", "lost"}

Init == ticket = [t \in Tickets |-> "none"]

Becomes(t, s) == ticket' = [ticket EXCEPT ![t] = s]

Accept(t) ==
  /\ ticket[t] = "none"
  /\ \A u \in Tickets : u > t => ticket[u] = "none"
  /\ Becomes(t, "queued")

Start(t) ==
  /\ ticket[t] = "queued"
  /\ \A u \in Tickets : ticket[u] # "running"
  /\ \A u \in Tickets : u < t => ticket[u] # "queued"
  /\ Becomes(t, "running")

Finish(t) ==
  /\ ticket[t] = "running"
  /\ Becomes(t, "done") \/ Becomes(t, "failed")

Cancel(t) == ticket[t] = "queued" /\ Becomes(t, "cancelled")

Acknowledge(t) == ticket[t] \in {"done", "failed"} /\ Becomes(t, "acked")

(* The process ends, and with it every ticket whose fate was open.         *)
Lose ==
  ticket' = [t \in Tickets |->
    IF ticket[t] \in {"queued", "running", "done", "failed"} THEN "lost" ELSE ticket[t]]

Next ==
  \/ \E t \in Tickets :
       Accept(t) \/ Start(t) \/ Finish(t) \/ Cancel(t) \/ Acknowledge(t)
  \/ Lose

Spec == Init /\ [][Next]_ticket

=============================================================================
