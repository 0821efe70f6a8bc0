------------------------------- MODULE Mutex -------------------------------
(***************************************************************************)
(* What every lock of include/vsync/spinlock and include/vsync/thread      *)
(* promises: a thread asks for the lock, waits, is in the critical section *)
(* alone, and leaves it.  The concrete locks implement this specification  *)
(* under a mapping of their program counters to `st`.                      *)
(***************************************************************************)
CONSTANT Thread

VARIABLE st     \* st[t]: where thread t is: "out", "wait" or "in"

Free == \A t \in Thread : st[t] # "in"

Init == st = [t \in Thread |-> "out"]

Request(t) == /\ st[t] = "out"
              /\ st' = [st EXCEPT ![t] = "wait"]

Enter(t) == /\ st[t] = "wait"
            /\ Free
            /\ st' = [st EXCEPT ![t] = "in"]

\* a successful tryacquire, or the uncontended path of an acquire
TryEnter(t) == /\ st[t] = "out"
               /\ Free
               /\ st' = [st EXCEPT ![t] = "in"]

Leave(t) == /\ st[t] = "in"
            /\ st' = [st EXCEPT ![t] = "out"]

Next == \E t \in Thread : Request(t) \/ Enter(t) \/ TryEnter(t) \/ Leave(t)

\* Holders leave, and a free lock that is waited for is taken by somebody.
Fairness == /\ \A t \in Thread : WF_st(Leave(t))
            /\ WF_st(\E t \in Thread : Enter(t))

\* exclusion without progress: what a proof of an implementation shows
Safety == Init /\ [][Next]_st

Spec == Safety /\ Fairness
=============================================================================
