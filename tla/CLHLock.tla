------------------------------ MODULE CLHLock ------------------------------
(***************************************************************************)
(* include/vsync/spinlock/clhlock.h: an implicit queue; a thread spins on  *)
(* the queue node of its predecessor and takes that node over when it      *)
(* releases the lock.                                                      *)
(***************************************************************************)
EXTENDS Control, Naturals, FiniteSets

CONSTANT Initial      \* the queue node embedded in the lock, not one of Thread

\* The queue nodes, named after the thread that brought them.
Qnode == Thread \cup {Initial}

VARIABLES tail,       \* the last queue node
          locked,     \* locked[q]
          qnode,      \* qnode[t]: the node t uses for its next acquire
          pred        \* pred[t]: the node of the thread in front of t

vars == <<pc, tail, locked, qnode, pred>>

TypeOK == /\ pc \in [Thread -> {"idle", "xchg", "await", "cs"}]
          /\ tail \in Qnode
          /\ locked \in [Qnode -> {0, 1}]
          /\ qnode \in [Thread -> Qnode]
          /\ pred \in [Thread -> Qnode]

\* clhlock_init and clhlock_node_init (pred, NULL there, is not read before
\* acquire sets it)
Init == /\ pc = [t \in Thread |-> "idle"]
        /\ tail = Initial
        /\ locked = [q \in Qnode |-> 0]
        /\ qnode = [t \in Thread |-> t]
        /\ pred = [t \in Thread |-> t]

\* clhlock_acquire: raise the own flag, queue up, wait for the predecessor
acquire_set(t) == /\ Step(t, "idle", "xchg")
                  /\ locked' = [locked EXCEPT ![qnode[t]] = 1]
                  /\ UNCHANGED <<tail, qnode, pred>>

acquire_xchg(t) == /\ Step(t, "xchg", "await")
                   /\ pred' = [pred EXCEPT ![t] = tail]
                   /\ tail' = qnode[t]
                   /\ UNCHANGED <<locked, qnode>>

acquire_await(t) == /\ Step(t, "await", "cs")
                    /\ locked[pred[t]] = 0
                    /\ UNCHANGED <<tail, locked, qnode, pred>>

\* mutation: the thread keeps its own node instead of recycling
release_keep_node(t) == /\ Step(t, "cs", "idle")
                        /\ locked' = [locked EXCEPT ![qnode[t]] = 0]
                        /\ pred' = [pred EXCEPT ![t] = t]
                        /\ UNCHANGED <<tail, qnode>>

\* clhlock_release: lower the own flag and take over the predecessor's node
release(t) == /\ Step(t, "cs", "idle")
              /\ locked' = [locked EXCEPT ![qnode[t]] = 0]
              /\ qnode' = [qnode EXCEPT ![t] = pred[t]]
              /\ pred' = [pred EXCEPT ![t] = t]
              /\ UNCHANGED tail

\* mutation: the test is inverted
has_waiters_inverted(t) == tail = qnode[t]

\* clhlock_has_waiters, for the holder
has_waiters(t) == tail # qnode[t]

Progress(t) == acquire_xchg(t) \/ acquire_await(t) \/ release(t)

Next == \E t \in Thread : acquire_set(t) \/ Progress(t)

Spec == Init /\ [][Next]_vars /\ \A t \in Thread : WF_vars(Progress(t))

-----------------------------------------------------------------------------
Queued == {t \in Thread : At(t, {"await", "cs"})}

InCS == {t \in Thread : pc[t] = "cs"}

\* Recycling never makes two threads share a node: the threads own different
\* nodes, and the node nobody owns is the one at the tail of an empty queue or
\* the one in front of the first queued thread.
NodesDisjoint ==
    /\ \A t, v \in Thread : qnode[t] = qnode[v] => t = v
    /\ \A t \in Thread : pc[t] \in {"idle", "xchg"} => tail # qnode[t]
    /\ \A t, v \in Queued : pred[t] = pred[v] => t = v
    /\ \A t \in InCS, v \in Thread : pred[t] # qnode[v]

\* The holder's has_waiters is exact: true iff another thread is queued.
HasWaitersExact == \A t \in InCS : has_waiters(t) <=> Queued # {t}

Abstract == [t \in Thread |-> IF At(t, {"idle", "xchg"}) THEN "out"
                              ELSE IF pc[t] = "await" THEN "wait" ELSE "in"]

Mutual == INSTANCE Mutex WITH st <- Abstract

-----------------------------------------------------------------------------
Owned(q) == \E t \in Thread : q = qnode[t]

\* The first member's predecessor node is nobody's, everyone else's is that of the member
\* in front, and the last one's node is at the tail.
IsQueue(q) ==
    LET n == Cardinality(Queued) IN
    /\ q \in [1 .. n -> Queued]
    /\ \A i, j \in 1 .. n : q[i] = q[j] => i = j
    /\ n > 0 => ~Owned(pred[q[1]]) /\ tail = qnode[q[n]]
    /\ \A i \in 2 .. n : pred[q[i]] = qnode[q[i - 1]]

Queue == CHOOSE q \in [1 .. Cardinality(Queued) -> Queued] : IsQueue(q)

Fifo == INSTANCE FifoLock WITH queue <- Queue, held <- InCS # {}

\* A node is raised exactly while its owner acquires or holds the lock; one node is nobody's.
\* The nodes waited for are those of queued threads, or nobody's, and never the last.
NodeInv == /\ \A q, r \in Qnode : ~Owned(q) /\ ~Owned(r) => q = r
           /\ \A q \in Qnode : ~Owned(q) => locked[q] = 0
           /\ \A t \in Thread : locked[qnode[t]] = 0 <=> pc[t] = "idle"
           /\ \A t \in Queued : pred[t] # tail
           /\ \A t \in Queued, v \in Thread : At(v, {"idle", "xchg"}) => pred[t] # qnode[v]

CLHInv == TypeOK /\ NodesDisjoint /\ NodeInv

\* rank orders the queue: from the thread whose predecessor node is nobody's to the one
\* whose node is at the tail
Ordered(rank) ==
    /\ \A t, u \in Queued : rank[t] = rank[u] => t = u
    /\ \A t, u \in Queued : tail = qnode[t] => rank[u] <= rank[t]
    /\ \A t, u \in Queued : pred[t] = qnode[u] => rank[t] = rank[u] + 1
    /\ \A t, u \in Queued : ~Owned(pred[t]) => rank[t] <= rank[u]

QueueInv == /\ Queued # {} => \E t \in Queued : tail = qnode[t]
            /\ \E rank \in [Thread -> Nat] : Ordered(rank)

HasQueue == \E q \in [1 .. Cardinality(Queued) -> Queued] : IsQueue(q)

\* The queue is the only one there is.
OneQueue == /\ IsQueue(Queue)
            /\ \A q \in [1 .. Cardinality(Queued) -> Queued] : IsQueue(q) => q = Queue
=============================================================================
