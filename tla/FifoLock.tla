------------------------------ MODULE FifoLock ------------------------------
(***************************************************************************)
(* What the locks of the group `fair_lock` promise: threads enter the      *)
(* critical section in the order in which they took their place.  `queue`  *)
(* is that order; its head holds the lock when `held` is true.             *)
(***************************************************************************)
EXTENDS Naturals, Sequences

CONSTANT Thread

VARIABLES queue, held

vars == <<queue, held>>

Queued(t) == \E i \in DOMAIN queue : queue[i] = t

Init == queue = <<>> /\ held = FALSE

\* the step that fixes the place of t: the doorway of the algorithm
Arrive(t) == /\ ~Queued(t)
             /\ queue' = Append(queue, t)
             /\ UNCHANGED held

Enter(t) == /\ Queued(t) /\ t = Head(queue) /\ ~held
            /\ held' = TRUE
            /\ UNCHANGED queue

\* a lock nobody wants is taken in one step
TryEnter(t) == /\ queue = <<>>
               /\ queue' = <<t>>
               /\ held' = TRUE

Leave(t) == /\ held /\ Queued(t) /\ t = Head(queue)
            /\ queue' = Tail(queue)
            /\ held' = FALSE

Next == \E t \in Thread : Arrive(t) \/ Enter(t) \/ TryEnter(t) \/ Leave(t)

Fairness == \A t \in Thread : WF_vars(Enter(t)) /\ WF_vars(Leave(t))

\* exclusion and order without progress
Safety == Init /\ [][Next]_vars

Spec == Safety /\ Fairness
=============================================================================
