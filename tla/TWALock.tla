------------------------------ MODULE TWALock ------------------------------
(***************************************************************************)
(* include/vsync/spinlock/twalock.h: a ticket lock whose far waiters spin  *)
(* on a slot of a waiting array instead of on the grant word.  Distances   *)
(* and slots are those of the code with TWA_L = 1; the counters of lock    *)
(* and array wrap at M (2^32), and the array has A slots (TWA_A = 4096).   *)
(***************************************************************************)
EXTENDS Control, Naturals, FiniteSets

CONSTANTS M, A     \* the threads are fewer than M

VARIABLES ticket, grant,  \* the two words of the lock
          array,          \* array[i]: the i-th word of the waiting array
          tx,             \* tx[t]: the ticket of t
          u,              \* u[t]: the array word t waits to see changed
          k               \* k[t]: the grant t read in release

vars == <<pc, ticket, grant, array, tx, u, k>>

Counter == 0 .. M - 1

TWA_DIFF(a, b) == IF b <= a THEN a - b ELSE (a + M) - b

TWA_HASH(n) == n % A

TypeOK == /\ pc \in [Thread -> {"idle", "check", "slow", "slow_dx", "slow_await",
                                "await", "cs", "release", "notify"}]
          /\ ticket \in Counter
          /\ grant \in Counter
          /\ array \in [0 .. A - 1 -> Counter]
          /\ tx \in [Thread -> Counter]
          /\ u \in [Thread -> Counter]
          /\ k \in [Thread -> Counter]

\* twalock_init; the shared array starts zeroed
Init == /\ pc = [t \in Thread |-> "idle"]
        /\ ticket = 0 /\ grant = 0
        /\ array = [i \in 0 .. A - 1 |-> 0]
        /\ tx = [t \in Thread |-> 0]
        /\ u = [t \in Thread |-> 0]
        /\ k = [t \in Thread |-> 0]

\* twalock_acquire: get_inc of ticket
acquire_get_inc(t) == /\ Step(t, "idle", "check")
                      /\ tx' = [tx EXCEPT ![t] = ticket]
                      /\ ticket' = (ticket + 1) % M
                      /\ UNCHANGED <<grant, array, u, k>>

\* read grant: enter at distance 0, wait on grant at 1, else on the array
acquire_read_grant(t) ==
    LET dx == TWA_DIFF(tx[t], grant) IN
    /\ \/ dx = 0 /\ Step(t, "check", "cs")
       \/ dx = 1 /\ Step(t, "check", "await")
       \/ dx > 1 /\ Step(t, "check", "slow")
    /\ UNCHANGED <<ticket, grant, array, tx, u, k>>

\* _twalock_acquire_slowpath: the array word is read BEFORE the grant
slowpath_read_array(t) == /\ Step(t, "slow", "slow_dx")
                          /\ u' = [u EXCEPT ![t] = array[TWA_HASH(tx[t])]]
                          /\ UNCHANGED <<ticket, grant, array, tx, k>>

slowpath_read_grant(t) ==
    LET dx == TWA_DIFF(tx[t], grant) IN
    /\ \/ dx > 1 /\ Step(t, "slow_dx", "slow_await")
       \/ dx <= 1 /\ Step(t, "slow_dx", "await")
    /\ UNCHANGED <<ticket, grant, array, tx, u, k>>

slowpath_await_neq(t) ==
    LET now == array[TWA_HASH(tx[t])] IN
    /\ Step(t, "slow_await", "slow_dx")
    /\ now # u[t]
    /\ u' = [u EXCEPT ![t] = now]
    /\ UNCHANGED <<ticket, grant, array, tx, k>>

acquire_await(t) == /\ Step(t, "await", "cs")
                    /\ grant = tx[t]
                    /\ UNCHANGED <<ticket, grant, array, tx, u, k>>

\* twalock_tryacquire: read grant, cmpxchg ticket from it.  The counters do not
\* wrap between the two, so the pair is one step (see TicketLock).
tryacquire(t) == /\ Step(t, "idle", "cs")
                 /\ ticket = grant
                 /\ tx' = [tx EXCEPT ![t] = ticket]
                 /\ ticket' = (ticket + 1) % M
                 /\ UNCHANGED <<grant, array, u, k>>

\* twalock_release: read grant, write grant + 1, then notify the slot of the
\* thread that is now at distance 1
release_read(t) == /\ Step(t, "cs", "release")
                   /\ k' = [k EXCEPT ![t] = (grant + 1) % M]
                   /\ UNCHANGED <<ticket, grant, array, tx, u>>

release_write(t) == /\ Step(t, "release", "notify")
                    /\ grant' = k[t]
                    /\ tx' = [tx EXCEPT ![t] = 0]
                    /\ u' = [u EXCEPT ![t] = 0]
                    /\ UNCHANGED <<ticket, array, k>>

\* mutation: notifies the slot of the new holder instead of its successor
release_notify_holder(t) ==
    LET i == TWA_HASH(k[t]) IN
    /\ Step(t, "notify", "idle")
    /\ array' = [array EXCEPT ![i] = (@ + 1) % M]
    /\ k' = [k EXCEPT ![t] = 0]
    /\ UNCHANGED <<ticket, grant, tx, u>>

release_notify(t) ==
    LET i == TWA_HASH((k[t] + 1) % M) IN
    /\ Step(t, "notify", "idle")
    /\ array' = [array EXCEPT ![i] = (@ + 1) % M]
    /\ k' = [k EXCEPT ![t] = 0]
    /\ UNCHANGED <<ticket, grant, tx, u>>

Progress(t) == \/ acquire_read_grant(t)
               \/ slowpath_read_array(t)
               \/ slowpath_read_grant(t)
               \/ slowpath_await_neq(t)
               \/ acquire_await(t)
               \/ release_read(t)
               \/ release_write(t)
               \/ release_notify(t)

Next == \E t \in Thread : acquire_get_inc(t) \/ tryacquire(t) \/ Progress(t)

Spec == Init /\ [][Next]_vars /\ \A t \in Thread : WF_vars(Progress(t))

-----------------------------------------------------------------------------
Holding == {t \in Thread : ~At(t, {"idle", "notify"})}

InCS == {t \in Thread : At(t, {"cs", "release"})}

\* No lost wakeup: a thread spinning on an array slot whose word has not
\* changed is at distance greater than one, or a releaser is about to
\* increment that very slot.
NoLostWakeup ==
    \A t \in Thread :
        pc[t] = "slow_await" /\ array[TWA_HASH(tx[t])] = u[t] =>
            \/ TWA_DIFF(tx[t], grant) > 1
            \/ \E r \in Thread : /\ pc[r] = "notify"
                                 /\ TWA_HASH((k[r] + 1) % M) = TWA_HASH(tx[t])

\* The threads in the order of their tickets, from the one that is served on.
IsQueue(q) ==
    LET n == Cardinality(Holding) IN
    /\ q \in [1 .. n -> Holding]
    /\ \A i \in 1 .. n : TWA_DIFF(tx[q[i]], grant) = i - 1

Queue == [i \in 1 .. Cardinality(Holding) |->
             CHOOSE t \in Holding : TWA_DIFF(tx[t], grant) = i - 1]

Fifo == INSTANCE FifoLock WITH queue <- Queue, held <- InCS # {}

-----------------------------------------------------------------------------
\* Outstanding tickets lie between grant and ticket, pairwise different, and there are as
\* many as the two counters are apart.  Whoever is inside has the ticket that is served.
TicketInv ==
    /\ \A t \in Holding : TWA_DIFF(tx[t], grant) < TWA_DIFF(ticket, grant)
    /\ \A t, v \in Holding : tx[t] = tx[v] => t = v
    /\ TWA_DIFF(ticket, grant) = Cardinality(Holding)
    /\ \A t \in InCS : tx[t] = grant
    /\ \A t \in Thread : pc[t] = "release" => k[t] = (grant + 1) % M

Notifying == {t \in Thread : pc[t] = "notify"}

\* The array word of a waiting thread cannot wrap to the value the thread has seen: it has
\* changed as often as the difference says, and will at most for every releaser that is
\* about to notify and every thread in front.
PatienceInv ==
    \A t \in Thread : At(t, {"slow_dx", "slow_await"}) =>
        TWA_DIFF(array[TWA_HASH(tx[t])], u[t]) + Cardinality(Notifying)
            + TWA_DIFF(tx[t], grant) < Cardinality(Thread)

TWAInv == TypeOK /\ TicketInv /\ PatienceInv /\ NoLostWakeup

HasQueue == \E q \in [1 .. Cardinality(Holding) -> Holding] : IsQueue(q)

\* The queue is the only one there is.
OneQueue == /\ IsQueue(Queue)
            /\ \A q \in [1 .. Cardinality(Holding) -> Holding] : IsQueue(q) => q = Queue
=============================================================================
