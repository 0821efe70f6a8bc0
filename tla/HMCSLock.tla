------------------------------ MODULE HMCSLock ------------------------------
(***************************************************************************)
(* include/vsync/spinlock/hmcslock.h: a tree of MCS locks.  A thread       *)
(* acquires the locks from its leaf to the root, queueing with its own     *)
(* node at the leaf and with the node of the child lock above it, and      *)
(* passes the lock within its cohort up to `threshold` times.              *)
(***************************************************************************)
EXTENDS Control, Naturals

CONSTANTS Lock, Parent,     \* the tree: Parent[l], Nil at the root
          Leaf,             \* Leaf[t]: the leaf lock of thread t
          Threshold,        \* Threshold[l]
          HMCLOCK_MAX,      \* stands for UINT64_MAX, above every threshold
          Nil

HMCLOCK_UNLOCKED == 0
HMCLOCK_LOCKED == 1
HMCLOCK_COHORT_START == 1
HMCLOCK_ACQUIRE_PARENT == HMCLOCK_MAX - 1
HMCLOCK_WAIT == HMCLOCK_MAX

VARIABLES lock,         \* lock[l]: the tail of the queue of lock l
          next, status, \* the fields of the queue nodes
          at,           \* at[t]: the lock t acquires or releases, its leaf if none
          v             \* v[t]: the pointer or the count t has just read

vars == <<pc, lock, next, status, at, v>>

\* threads bring a node of their own, every lock has the one for its parent
Node == Thread \cup Lock

IsRoot(l) == Parent[l] = Nil

RECURSIVE Chain(_)
Chain(l) == IF l = Nil THEN {} ELSE {l} \cup Chain(Parent[l])

\* the child of l on the way from the leaf of t, and the node t uses at l
Child(t, l) == CHOOSE c \in Chain(Leaf[t]) : Parent[c] = l
Qnode(t) == IF at[t] = Leaf[t] THEN t ELSE Child(t, at[t])

TypeOK == /\ pc \in [Thread -> {"idle", "prepare", "xchg", "link", "await", "start", "cs",
                                "release", "succ", "helper", "helper_cas", "helper_await"}]
          /\ lock \in [Lock -> Node \cup {Nil}]
          /\ next \in [Node -> Node \cup {Nil}]
          /\ status \in [Node -> {HMCLOCK_UNLOCKED, HMCLOCK_ACQUIRE_PARENT, HMCLOCK_WAIT}
                                    \cup UNION {1 .. Threshold[l] : l \in Lock}]
          /\ at \in [Thread -> Lock]
          /\ v \in [Thread -> Node \cup {Nil} \cup (0 .. HMCLOCK_MAX)]

Init == /\ pc = [t \in Thread |-> "idle"]
        /\ lock = [l \in Lock |-> Nil]
        /\ next = [n \in Node |-> Nil]
        /\ status = [n \in Node |-> 0]
        /\ at = Leaf
        /\ v = [t \in Thread |-> Nil]

Forget(t) == v' = [v EXCEPT ![t] = Nil]

\* hmcslock_acquire
acquire(t) == /\ Step(t, "idle", "prepare")
              /\ UNCHANGED <<lock, next, status, at, v>>

\* _hmcslock_acquire_real and, at the root, _hmcslock_one_acquire_real
acquire_prepare(t) ==
    /\ Step(t, "prepare", "xchg")
    /\ status' = [status EXCEPT ![Qnode(t)] = IF IsRoot(at[t]) THEN HMCLOCK_LOCKED
                                                               ELSE HMCLOCK_WAIT]
    /\ next' = [next EXCEPT ![Qnode(t)] = Nil]
    /\ UNCHANGED <<lock, at, v>>

acquire_xchg(t) ==
    LET p == lock[at[t]] IN
    /\ \/ p = Nil /\ Step(t, "xchg", "start")
       \/ p # Nil /\ Step(t, "xchg", "link")
    /\ v' = [v EXCEPT ![t] = p]
    /\ lock' = [lock EXCEPT ![at[t]] = Qnode(t)]
    /\ UNCHANGED <<next, status, at>>

acquire_link(t) == /\ Step(t, "link", "await")
                   /\ next' = [next EXCEPT ![v[t]] = Qnode(t)]
                   /\ Forget(t)
                   /\ UNCHANGED <<lock, status, at>>

acquire_await(t) ==
    LET s == status[Qnode(t)] IN
    /\ \/ /\ s # (IF IsRoot(at[t]) THEN HMCLOCK_LOCKED ELSE HMCLOCK_WAIT)
          /\ IsRoot(at[t]) \/ s < HMCLOCK_ACQUIRE_PARENT
          /\ Step(t, "await", "cs")
          /\ at' = [at EXCEPT ![t] = Leaf[t]]
       \/ /\ ~IsRoot(at[t]) /\ s = HMCLOCK_ACQUIRE_PARENT
          /\ Step(t, "await", "start")
          /\ UNCHANGED at
    /\ UNCHANGED <<lock, next, status, v>>

\* the first of a cohort goes on to the parent; at the root it has the lock
acquire_start(t) ==
    /\ \/ /\ IsRoot(at[t])
          /\ Step(t, "start", "cs")
          /\ status' = [status EXCEPT ![Qnode(t)] = HMCLOCK_UNLOCKED]
          /\ at' = [at EXCEPT ![t] = Leaf[t]]
       \/ /\ ~IsRoot(at[t])
          /\ Step(t, "start", "prepare")
          /\ status' = [status EXCEPT ![Qnode(t)] = HMCLOCK_COHORT_START]
          /\ at' = [at EXCEPT ![t] = Parent[at[t]]]
    /\ UNCHANGED <<lock, next, v>>

\* Return from the release of a lock: go on with the lock below, if any.
Resume(t) == IF at[t] = Leaf[t]
             THEN Goto(t, "idle") /\ UNCHANGED at
             ELSE Goto(t, "helper") /\ at' = [at EXCEPT ![t] = Child(t, at[t])]

\* Go on to release the parent, with the helper if it is the root.
ReleaseParent(t) ==
    /\ Goto(t, IF IsRoot(Parent[at[t]]) THEN "helper" ELSE "release")
    /\ at' = [at EXCEPT ![t] = Parent[at[t]]]

\* mutation: one hand-over more than the threshold allows
release_read_late(t) ==
    LET c == status[Qnode(t)] IN
    /\ At(t, {"cs", "release"})
    /\ \/ c <= Threshold[at[t]] /\ Goto(t, "succ") /\ UNCHANGED at
          /\ v' = [v EXCEPT ![t] = c]
       \/ c > Threshold[at[t]] /\ ReleaseParent(t) /\ UNCHANGED v
    /\ UNCHANGED <<lock, next, status>>

\* _hmcslock_release_real
release_read(t) ==
    LET c == status[Qnode(t)] IN
    /\ At(t, {"cs", "release"})
    /\ \/ c < Threshold[at[t]] /\ Goto(t, "succ") /\ UNCHANGED at
          /\ v' = [v EXCEPT ![t] = c]
       \/ c >= Threshold[at[t]] /\ ReleaseParent(t) /\ UNCHANGED v
    /\ UNCHANGED <<lock, next, status>>

\* the read of next and the write to the successor, which is waiting by then
release_succ(t) ==
    LET n == next[Qnode(t)] IN
    /\ pc[t] = "succ"
    /\ \/ n = Nil /\ ReleaseParent(t) /\ UNCHANGED status
       \/ n # Nil /\ Resume(t) /\ status' = [status EXCEPT ![n] = v[t] + 1]
    /\ Forget(t)
    /\ UNCHANGED <<lock, next>>

Pass(t, n) ==
    /\ Resume(t)
    /\ status' = [status EXCEPT ![n] = IF IsRoot(at[t]) THEN HMCLOCK_UNLOCKED
                                                        ELSE HMCLOCK_ACQUIRE_PARENT]

\* _hmcslock_release_helper
helper_read(t) ==
    LET n == next[Qnode(t)] IN
    /\ \/ n = Nil /\ Step(t, "helper", "helper_cas") /\ UNCHANGED <<status, at>>
       \/ n # Nil /\ pc[t] = "helper" /\ Pass(t, n)
    /\ UNCHANGED <<lock, next, v>>

helper_cmpxchg(t) ==
    /\ pc[t] = "helper_cas"
    /\ \/ /\ lock[at[t]] = Qnode(t)
          /\ Resume(t)
          /\ lock' = [lock EXCEPT ![at[t]] = Nil]
       \/ /\ lock[at[t]] # Qnode(t)
          /\ Goto(t, "helper_await")
          /\ UNCHANGED <<lock, at>>
    /\ UNCHANGED <<next, status, v>>

helper_await(t) == LET n == next[Qnode(t)] IN
                   /\ pc[t] = "helper_await"
                   /\ n # Nil
                   /\ Pass(t, n)
                   /\ UNCHANGED <<lock, next, v>>

Progress(t) == \/ acquire_prepare(t) \/ acquire_xchg(t) \/ acquire_link(t)
               \/ acquire_await(t) \/ acquire_start(t)
               \/ release_read(t) \/ release_succ(t)
               \/ helper_read(t) \/ helper_cmpxchg(t) \/ helper_await(t)

Next == \E t \in Thread : acquire(t) \/ Progress(t)

Spec == Init /\ [][Next]_vars /\ \A t \in Thread : WF_vars(Progress(t))

-----------------------------------------------------------------------------
\* The node a lock keeps for its parent has one user at a time, although any
\* thread of the lock's cohort may be that user: no two threads are above
\* the same lock.
LockNodeExclusive ==
    \A t, u \in Thread : t # u =>
       (Chain(Leaf[t]) \ Chain(at[t])) \cap (Chain(Leaf[u]) \ Chain(at[u])) = {}

\* The assertion of _hmcslock_release_real: whoever releases a lock below the
\* root has been passed it at most threshold times within the cohort.
CountWithinThreshold ==
    \A t \in Thread : At(t, {"cs", "release"}) => status[Qnode(t)] <= Threshold[at[t]]

Releasing(t) == At(t, {"release", "succ", "helper", "helper_cas", "helper_await"})

\* The lock is passed on when the successor's status, or the root, is written;
\* what is left then is at locks the thread no longer needs.
Passed(t) == Releasing(t) /\ ~IsRoot(at[t]) /\ At(t, {"helper", "helper_cas", "helper_await"})

Abstract == [t \in Thread |-> IF pc[t] = "idle" \/ Passed(t) THEN "out"
                              ELSE IF pc[t] = "cs" \/ Releasing(t) THEN "in" ELSE "wait"]
=============================================================================
