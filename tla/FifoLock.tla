------------------------------ MODULE FifoLock ------------------------------
(***************************************************************************)
(* What the queueing lock of RompLib/include/McsLock.h promises its users: *)
(* threads hold the lock one at a time, in the order in which they         *)
(* arrived.  A thread arrives at a free lock and holds it at once, or      *)
(* queues behind the others and is admitted when it reaches the head.      *)
(***************************************************************************)
EXTENDS Naturals, Sequences

CONSTANT Threads

VARIABLES queue,  \* the threads that arrived and have not left, in order
          owners  \* the threads the lock has admitted

vars == <<queue, owners>>

Queued(t) == \E i \in 1..Len(queue) : queue[i] = t

Init == queue = <<>> /\ owners = {}

ArriveFree(t) ==
  /\ queue = <<>>
  /\ queue' = <<t>>
  /\ owners' = owners \cup {t}

ArriveBusy(t) ==
  /\ queue # <<>>
  /\ ~ Queued(t)
  /\ queue' = Append(queue, t)
  /\ UNCHANGED owners

Admit(t) ==
  /\ queue # <<>>
  /\ Head(queue) = t
  /\ t \notin owners
  /\ owners' = owners \cup {t}
  /\ UNCHANGED queue

Leave(t) ==
  /\ queue # <<>>
  /\ Head(queue) = t
  /\ t \in owners
  /\ queue' = Tail(queue)
  /\ owners' = owners \ {t}

Next == \E t \in Threads : ArriveFree(t) \/ ArriveBusy(t) \/ Admit(t) \/ Leave(t)

\* A thread the lock has let in leaves it, and the head of the queue is let in.
Fairness == \A t \in Threads : WF_vars(Admit(t)) /\ WF_vars(Leave(t))

Safety == Init /\ [][Next]_vars

Spec == Safety /\ Fairness
=============================================================================
