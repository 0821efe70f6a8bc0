------------------------------ MODULE MCSLock ------------------------------
(***************************************************************************)
(* include/vsync/spinlock/mcslock.h: an explicit queue of nodes; a thread  *)
(* spins on its own node and is granted the lock by its predecessor.  Each *)
(* thread passes one node of its own to every call.                        *)
(***************************************************************************)
EXTENDS Control, Naturals, FiniteSets

CONSTANT Nil          \* the null pointer, not one of Thread

Ptr == Thread \cup {Nil}

VARIABLES tail,       \* the word of the lock
          next,       \* next[n], locked[n]: the two fields of a node
          locked,
          pred,       \* pred[t]: what the exchange of tail returned to t
          succ        \* succ[t]: the successor t read in release

vars == <<pc, tail, next, locked, pred, succ>>

TypeOK == /\ pc \in [Thread -> {"idle", "xchg", "try", "link", "await", "cs",
                                "cas", "await_next", "read_next", "grant"}]
          /\ tail \in Ptr
          /\ next \in [Thread -> Ptr]
          /\ locked \in [Thread -> {0, 1}]
          /\ pred \in [Thread -> Ptr]
          /\ succ \in [Thread -> Ptr]

\* mcslock_init.  Nodes are uninitialised in the code; acquire writes both
\* fields before the node becomes reachable.
Init == /\ pc = [t \in Thread |-> "idle"]
        /\ tail = Nil
        /\ next = [t \in Thread |-> Nil]
        /\ locked = [t \in Thread |-> 0]
        /\ pred = [t \in Thread |-> Nil]
        /\ succ = [t \in Thread |-> Nil]

\* both acquire functions first reset the caller's node
reset_node(t) == /\ next' = [next EXCEPT ![t] = Nil]
                 /\ locked' = [locked EXCEPT ![t] = 1]
                 /\ UNCHANGED <<tail, pred, succ>>

tryacquire_reset(t) == Step(t, "idle", "try") /\ reset_node(t)

\* mcslock_tryacquire: cmpxchg of tail from null
tryacquire_cmpxchg(t) == /\ \/ /\ tail = Nil
                               /\ Step(t, "try", "cs")
                               /\ tail' = t
                            \/ /\ tail # Nil
                               /\ Step(t, "try", "idle")
                               /\ UNCHANGED tail
                         /\ UNCHANGED <<next, locked, pred, succ>>

acquire_reset(t) == Step(t, "idle", "xchg") /\ reset_node(t)

\* mcslock_acquire: exchange tail; an empty queue means the lock is taken
acquire_xchg(t) == /\ \/ tail = Nil /\ Step(t, "xchg", "cs")
                      \/ tail # Nil /\ Step(t, "xchg", "link")
                   /\ pred' = [pred EXCEPT ![t] = tail]
                   /\ tail' = t
                   /\ UNCHANGED <<next, locked, succ>>

acquire_link(t) == /\ Step(t, "link", "await")
                   /\ next' = [next EXCEPT ![pred[t]] = t]
                   /\ pred' = [pred EXCEPT ![t] = Nil]
                   /\ UNCHANGED <<tail, locked, succ>>

\* mutation: does not wait for the predecessor
acquire_no_wait(t) == /\ Step(t, "await", "cs")
                      /\ UNCHANGED <<tail, next, locked, pred, succ>>

acquire_await(t) == /\ Step(t, "await", "cs")
                    /\ locked[t] = 0
                    /\ UNCHANGED <<tail, next, locked, pred, succ>>

\* mcslock_release: no known successor?
release_read_next(t) == /\ \/ next[t] = Nil /\ Step(t, "cs", "cas")
                           \/ next[t] # Nil /\ Step(t, "cs", "read_next")
                        /\ UNCHANGED <<tail, next, locked, pred, succ>>

\* mutation: leaves without waiting for the successor to link itself
release_cmpxchg_once(t) == /\ Step(t, "cas", "idle")
                           /\ tail' = IF tail = t THEN Nil ELSE tail
                           /\ UNCHANGED <<next, locked, pred, succ>>

release_cmpxchg(t) == /\ \/ /\ tail = t
                            /\ Step(t, "cas", "idle")
                            /\ tail' = Nil
                         \/ /\ tail # t
                            /\ Step(t, "cas", "await_next")
                            /\ UNCHANGED tail
                      /\ UNCHANGED <<next, locked, pred, succ>>

release_await_next(t) == /\ Step(t, "await_next", "read_next")
                         /\ next[t] # Nil
                         /\ UNCHANGED <<tail, next, locked, pred, succ>>

release_read_succ(t) == /\ Step(t, "read_next", "grant")
                        /\ succ' = [succ EXCEPT ![t] = next[t]]
                        /\ UNCHANGED <<tail, next, locked, pred>>

release_grant(t) == /\ Step(t, "grant", "idle")
                    /\ locked' = [locked EXCEPT ![succ[t]] = 0]
                    /\ succ' = [succ EXCEPT ![t] = Nil]
                    /\ UNCHANGED <<tail, next, pred>>

\* mcslock_has_waiters, for the holder
has_waiters(t) == next[t] # Nil

Progress(t) == \/ tryacquire_cmpxchg(t)
               \/ acquire_xchg(t) \/ acquire_link(t) \/ acquire_await(t)
               \/ release_read_next(t) \/ release_cmpxchg(t)
               \/ release_await_next(t) \/ release_read_succ(t)
               \/ release_grant(t)

Next == \E t \in Thread : acquire_reset(t) \/ tryacquire_reset(t) \/ Progress(t)

Spec == Init /\ [][Next]_vars /\ \A t \in Thread : WF_vars(Progress(t))

-----------------------------------------------------------------------------
InCS == {t \in Thread : At(t, {"cs", "cas", "await_next", "read_next", "grant"})}

Queued == InCS \cup {t \in Thread : At(t, {"link", "await"})}

\* Once release has returned, nobody holds a reference to the node through
\* which it would still be accessed: it can be reused or freed at once.
NodeQuiescent ==
    \A t \in Thread : pc[t] = "idle" =>
        /\ tail # t
        /\ \A v \in Thread : pc[v] = "link" => pred[v] # t
        /\ \A v \in Thread : pc[v] = "grant" => succ[v] # t

\* has_waiters never reports a waiter that is not there.
HasWaitersSound ==
    \A t \in InCS : has_waiters(t) => next[t] \in Queued \ InCS

Abstract == [t \in Thread |-> IF t \in InCS THEN "in"
                              ELSE IF At(t, {"link", "await"}) THEN "wait" ELSE "out"]

Mutual == INSTANCE Mutex WITH st <- Abstract

-----------------------------------------------------------------------------
\* t has the lock, or has been granted it and does not know yet
First(t) == t \in InCS \/ (pc[t] = "await" /\ locked[t] = 0)

\* First the holder or the thread that has been granted the lock, then always the one the
\* node in front points to, or that is about to link itself there, up to tail.
IsQueue(q) ==
    LET n == Cardinality(Queued) IN
    /\ q \in [1 .. n -> Queued]
    /\ \A i, j \in 1 .. n : q[i] = q[j] => i = j
    /\ n > 0 => First(q[1]) /\ tail = q[n]
    /\ \A i \in 2 .. n : \/ q[i] = next[q[i - 1]]
                         \/ pc[q[i]] = "link" /\ pred[q[i]] = q[i - 1]

HasQueue == \E q \in [1 .. Cardinality(Queued) -> Queued] : IsQueue(q)

Queue == IF HasQueue THEN CHOOSE q \in [1 .. Cardinality(Queued) -> Queued] : IsQueue(q)
                     ELSE <<>>

Fifo == INSTANCE FifoLock WITH queue <- Queue, held <- InCS # {}

\* The queue hangs together: tail is in it, a thread about to link itself has a predecessor
\* that waits for that, and a linked node is the successor of one queued node.
LinkInv ==
    /\ tail = Nil => Queued = {}
    /\ tail # Nil => tail \in Queued
    /\ \A t, u \in Queued : First(t) /\ First(u) => t = u
    /\ \A t \in Queued : next[t] # Nil =>
          /\ next[t] \in Thread /\ pc[next[t]] = "await" /\ locked[next[t]] = 1
          /\ tail # t
    /\ \A t \in Thread :
          /\ At(t, {"xchg", "try"}) => next[t] = Nil /\ locked[t] = 1
          /\ pc[t] = "link" => /\ pred[t] \in Queued /\ next[pred[t]] = Nil /\ tail # pred[t]
                               /\ locked[t] = 1
          /\ pc[t] = "await" /\ locked[t] = 1 => \E v \in Queued : next[v] = t
          /\ pc[t] = "await_next" => tail # t
          /\ At(t, {"read_next", "grant"}) => next[t] # Nil
          /\ pc[t] = "grant" => succ[t] = next[t]

\* rank orders the queue: from the first thread to tail, each one past its predecessor
Ordered(rank) ==
    /\ \A t, u \in Queued : rank[t] = rank[u] => t = u
    /\ \A t \in Queued : rank[t] <= rank[tail]
    /\ \A t, u \in Queued : First(t) => rank[t] <= rank[u]
    /\ \A t \in Queued : next[t] # Nil => rank[next[t]] = rank[t] + 1
    /\ \A t \in Thread : pc[t] = "link" => rank[t] = rank[pred[t]] + 1

MCSInv == /\ TypeOK /\ LinkInv
          /\ \E rank \in [Thread -> Nat] : Ordered(rank)

\* The queue is the only one there is.
OneQueue == /\ IsQueue(Queue)
            /\ \A q \in [1 .. Cardinality(Queued) -> Queued] : IsQueue(q) => q = Queue
=============================================================================
