----------------------------- MODULE Semaphore -----------------------------
(***************************************************************************)
(* include/vsync/spinlock/semaphore.h: the accesses of its functions to    *)
(* the counter, and threads that acquire, or try to acquire, up to N       *)
(* resources at once and give them back in portions.  The waiting          *)
(* subtraction vatomic32_await_ge_sub is one atomic step of the library.   *)
(***************************************************************************)
EXTENDS Control, Naturals, FiniteSetsExt

CONSTANT N

VARIABLES s,        \* the number of free resources
          old,      \* old[t]: what t read in tryacquire
          want,     \* want[t]: the argument of t's pending acquire
          hold      \* hold[t]: the resources t has acquired

vars == <<pc, s, old, want, hold>>

semaphore_init(n) == s = n /\ old = [t \in Thread |-> 0]

semaphore_acquire(i) == s >= i /\ s' = s - i /\ UNCHANGED old

\* semaphore_tryacquire: the read, which gives up when too little is left ...
semaphore_tryacquire_read(t, i) == s >= i /\ old' = [old EXCEPT ![t] = s] /\ UNCHANGED s

\* mutation: subtracts from what it has read, whatever the counter is now
semaphore_tryacquire_store(t, i, ok) == /\ ok
                                        /\ s' = old[t] - i
                                        /\ old' = [old EXCEPT ![t] = 0]

\* ... and the cmpxchg; ok is its result
semaphore_tryacquire_cmpxchg(t, i, ok) == /\ ok = (s = old[t])
                                          /\ s' = IF ok THEN s - i ELSE s
                                          /\ old' = [old EXCEPT ![t] = 0]

semaphore_release(i) == s' = s + i /\ UNCHANGED old

-----------------------------------------------------------------------------
TypeOK == /\ pc \in [Thread -> {"idle", "acquire", "try"}]
          /\ s \in 0 .. N
          /\ old \in [Thread -> 0 .. N]
          /\ want \in [Thread -> 0 .. N]
          /\ hold \in [Thread -> 0 .. N]

Init == /\ pc = [t \in Thread |-> "idle"]
        /\ semaphore_init(N)
        /\ want = [t \in Thread |-> 0]
        /\ hold = [t \in Thread |-> 0]

\* holders do not ask for more, which could deadlock them
acquire_call(t, i) == /\ hold[t] = 0
                      /\ Step(t, "idle", "acquire")
                      /\ want' = [want EXCEPT ![t] = i]
                      /\ UNCHANGED <<s, old, hold>>

acquire(t) == /\ Step(t, "acquire", "idle")
              /\ semaphore_acquire(want[t])
              /\ hold' = [hold EXCEPT ![t] = want[t]]
              /\ want' = [want EXCEPT ![t] = 0]

tryacquire_read(t, i) == /\ hold[t] = 0
                         /\ Step(t, "idle", "try")
                         /\ semaphore_tryacquire_read(t, i)
                         /\ want' = [want EXCEPT ![t] = i]
                         /\ UNCHANGED hold

tryacquire_cmpxchg(t) == \E ok \in BOOLEAN :
                         /\ Step(t, "try", "idle")
                         /\ semaphore_tryacquire_cmpxchg(t, want[t], ok)
                         /\ hold' = IF ok THEN [hold EXCEPT ![t] = want[t]] ELSE hold
                         /\ want' = [want EXCEPT ![t] = 0]

release(t, i) == /\ pc[t] = "idle" /\ i <= hold[t]
                 /\ semaphore_release(i)
                 /\ hold' = [hold EXCEPT ![t] = @ - i]
                 /\ UNCHANGED <<pc, want>>

Progress(t) == \/ acquire(t) \/ tryacquire_cmpxchg(t)
               \/ \E i \in 1 .. N : release(t, i)

Next == \E t \in Thread : \/ \E i \in 1 .. N : acquire_call(t, i) \/ tryacquire_read(t, i)
                          \/ Progress(t)

Spec == Init /\ [][Next]_vars /\ \A t \in Thread : WF_vars(Progress(t))

-----------------------------------------------------------------------------
\* No resource is lost or invented, whatever waiting and trying acquires and
\* partial releases interleave.
Conservation == s + MapThenSumSet(LAMBDA t : hold[t], Thread) = N

\* Nobody has or wants more than there is, or asks while it has some, and a pending
\* cmpxchg expects as many resources as it takes.
SemInv == /\ TypeOK /\ Conservation
          /\ \A t \in Thread : /\ pc[t] = "try" => old[t] >= want[t]
                               /\ pc[t] # "idle" => hold[t] = 0
=============================================================================
