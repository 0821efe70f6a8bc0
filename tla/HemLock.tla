------------------------------ MODULE HemLock ------------------------------
(***************************************************************************)
(* include/vsync/spinlock/hemlock.h.  A thread has ONE node for all the    *)
(* hemlocks it uses, also when it holds several at a time: its `grant`     *)
(* field names the lock that is being handed over.  The threads here nest  *)
(* the locks of Lock in their order, as deadlock-free clients do, and      *)
(* release them in any order.                                              *)
(***************************************************************************)
EXTENDS Control, Naturals

CONSTANTS Lock,       \* a set of numbers
          Watched,    \* the lock that module Mutex is about
          Nil

VARIABLES tail,       \* tail[l]
          grant,      \* grant[t]: the field of t's node
          pred,       \* pred[t]: what the exchange of tail returned to t
          l,          \* l[t]: the lock t is acquiring or releasing
          holds       \* holds[t]: the locks t is in the critical section of

vars == <<pc, tail, grant, pred, l, holds>>

TypeOK == /\ pc \in [Thread -> {"client", "try", "xchg", "await", "clear",
                                "release", "cas", "grant", "await_ack"}]
          /\ tail \in [Lock -> Thread \cup {Nil}]
          /\ grant \in [Thread -> Lock \cup {Nil}]
          /\ pred \in [Thread -> Thread \cup {Nil}]
          /\ l \in [Thread -> Lock \cup {Nil}]
          /\ holds \in [Thread -> SUBSET Lock]

Init == /\ pc = [t \in Thread |-> "client"]
        /\ tail = [m \in Lock |-> Nil]
        /\ grant = [t \in Thread |-> Nil]
        /\ pred = [t \in Thread |-> Nil]
        /\ l = [t \in Thread |-> Nil]
        /\ holds = [t \in Thread |-> {}]

\* the client asks for a lock greater than those it holds
Choose(t, m) == /\ \A n \in holds[t] : n < m
                /\ l' = [l EXCEPT ![t] = m]

\* the operation is over; holds[t] becomes h
Finish(t, h) == /\ holds' = [holds EXCEPT ![t] = h]
                /\ l' = [l EXCEPT ![t] = Nil]
                /\ pred' = [pred EXCEPT ![t] = Nil]

\* both acquire functions reset grant first
acquire_reset(t, m) == /\ Step(t, "client", "xchg")
                       /\ Choose(t, m)
                       /\ grant' = [grant EXCEPT ![t] = Nil]
                       /\ UNCHANGED <<tail, pred, holds>>

tryacquire_reset(t, m) == /\ Step(t, "client", "try")
                          /\ Choose(t, m)
                          /\ grant' = [grant EXCEPT ![t] = Nil]
                          /\ UNCHANGED <<tail, pred, holds>>

\* hemlock_tryacquire
tryacquire_cmpxchg(t) ==
    /\ Step(t, "try", "client")
    /\ \/ /\ tail[l[t]] = Nil
          /\ tail' = [tail EXCEPT ![l[t]] = t]
          /\ Finish(t, holds[t] \cup {l[t]})
       \/ /\ tail[l[t]] # Nil
          /\ Finish(t, holds[t])
          /\ UNCHANGED tail
    /\ UNCHANGED grant

\* hemlock_acquire
acquire_xchg(t) ==
    /\ pc[t] = "xchg"
    /\ tail' = [tail EXCEPT ![l[t]] = t]
    /\ \/ /\ tail[l[t]] = Nil
          /\ Goto(t, "client")
          /\ Finish(t, holds[t] \cup {l[t]})
       \/ /\ tail[l[t]] # Nil
          /\ Goto(t, "await")
          /\ pred' = [pred EXCEPT ![t] = tail[l[t]]]
          /\ UNCHANGED <<l, holds>>
    /\ UNCHANGED grant

\* wait for the grant, then acknowledge it: two accesses, or one cmpxchg
acquire_await(t) == /\ Step(t, "await", "clear")
                    /\ grant[pred[t]] = l[t]
                    /\ UNCHANGED <<tail, grant, pred, l, holds>>

acquire_clear(t) == /\ Step(t, "clear", "client")
                    /\ grant' = [grant EXCEPT ![pred[t]] = Nil]
                    /\ Finish(t, holds[t] \cup {l[t]})
                    /\ UNCHANGED tail

acquire_await_ctr(t) == /\ Step(t, "await", "client")
                        /\ grant[pred[t]] = l[t]
                        /\ grant' = [grant EXCEPT ![pred[t]] = Nil]
                        /\ Finish(t, holds[t] \cup {l[t]})
                        /\ UNCHANGED tail

\* hemlock_release: is the own node the tail?
release_read_tail(t, m) ==
    /\ m \in holds[t]
    /\ l' = [l EXCEPT ![t] = m]
    /\ \/ tail[m] = t /\ Step(t, "client", "cas")
       \/ tail[m] # t /\ Step(t, "client", "grant")
    /\ UNCHANGED <<tail, grant, pred, holds>>

release_cmpxchg(t) ==
    /\ pc[t] = "cas"
    /\ \/ /\ tail[l[t]] = t
          /\ Goto(t, "client")
          /\ tail' = [tail EXCEPT ![l[t]] = Nil]
          /\ Finish(t, holds[t] \ {l[t]})
       \/ /\ tail[l[t]] # t
          /\ Goto(t, "grant")
          /\ UNCHANGED <<tail, pred, l, holds>>
    /\ UNCHANGED grant

\* mutation: grants the node instead of the lock
release_grant_self(t) == /\ Step(t, "grant", "await_ack")
                         /\ grant' = [grant EXCEPT ![t] = t]
                         /\ holds' = [holds EXCEPT ![t] = @ \ {l[t]}]
                         /\ UNCHANGED <<tail, pred, l>>

release_grant(t) == /\ Step(t, "grant", "await_ack")
                    /\ grant' = [grant EXCEPT ![t] = l[t]]
                    /\ holds' = [holds EXCEPT ![t] = @ \ {l[t]}]
                    /\ UNCHANGED <<tail, pred, l>>

\* mutation: returns without waiting for the successor's acknowledgement
release_no_ack(t) == /\ Step(t, "await_ack", "client")
                     /\ Finish(t, holds[t])
                     /\ UNCHANGED <<tail, grant>>

release_await_ack(t) == /\ Step(t, "await_ack", "client")
                        /\ grant[t] = Nil
                        /\ Finish(t, holds[t])
                        /\ UNCHANGED <<tail, grant>>

\* hemlock_has_waiters, for the holder of m
has_waiters(t, m) == tail[m] # t

\* ctr: HEMLOCK_USE_CTR, wait with read-modify-writes
Progress(t, ctr) == \/ tryacquire_cmpxchg(t)
                    \/ acquire_xchg(t)
                    \/ ~ctr /\ (acquire_await(t) \/ acquire_clear(t))
                    \/ ctr /\ acquire_await_ctr(t)
                    \/ \E m \in Lock : release_read_tail(t, m)
                    \/ release_cmpxchg(t) \/ release_grant(t) \/ release_await_ack(t)

Next(ctr) == \E t \in Thread : \/ \E m \in Lock : acquire_reset(t, m) \/ tryacquire_reset(t, m)
                               \/ Progress(t, ctr)

\* A client that holds a lock releases it in the end, whatever it does with
\* other locks in between.
Spec(ctr) == /\ Init /\ [][Next(ctr)]_vars
             /\ \A t \in Thread : /\ WF_vars(Progress(t, ctr))
                                  /\ \A m \in Lock : SF_vars(release_read_tail(t, m))

-----------------------------------------------------------------------------
\* Threads that hold m, or have passed the last wait of acquiring it.
InCS(m) == {t \in Thread : \/ m \in holds[t]
                           \/ pc[t] = "clear" /\ l[t] = m}

Queued(m) == InCS(m) \cup {t \in Thread : pc[t] = "await" /\ l[t] = m}

\* A thread is outside release only when its grant field is null: the reset at
\* the start of the next acquire, possibly of another lock, cannot erase a
\* hand-over that is still pending, and nobody accesses the node afterwards.
NoPendingGrant ==
    \A t \in Thread :
        ~At(t, {"await_ack"}) =>
            /\ grant[t] = Nil
            /\ \A v \in Thread : pc[v] = "clear" => pred[v] # t

\* A waiter's predecessor still has the lock or is handing it over: every
\* waiter has somebody who will grant it.
PredecessorAlive ==
    \A t \in Thread : pc[t] = "await" =>
        \/ l[t] \in holds[pred[t]]
        \/ pc[pred[t]] \in {"await", "clear"} /\ l[pred[t]] = l[t]
        \/ pc[pred[t]] = "await_ack" /\ grant[pred[t]] = l[t]

\* For the holder has_waiters is exact, lock by lock.
HasWaitersExact ==
    \A t \in Thread, m \in Lock :
        m \in holds[t] => (has_waiters(t, m) <=> Queued(m) # {t})

\* where a thread is with respect to the lock that is watched, for module Mutex
Abstract == [t \in Thread |-> IF t \in InCS(Watched) THEN "in"
                              ELSE IF At(t, {"xchg", "await"}) /\ l[t] = Watched THEN "wait"
                              ELSE "out"]

Mutual == INSTANCE Mutex WITH st <- Abstract

-----------------------------------------------------------------------------
Holding(m) == {t \in Thread : m \in holds[t]}

\* has granted m, and its successor has not acknowledged
Granting(m) == {t \in Thread : pc[t] = "await_ack" /\ grant[t] = m}

Waiting(m) == {t \in Thread : pc[t] \in {"await", "clear"} /\ l[t] = m}

First(m) == Holding(m) \cup Granting(m)

Line(m) == First(m) \cup Waiting(m)

\* What a thread's label says of the lock it is at and of its node.
LabelInv ==
    \A t \in Thread :
        /\ pc[t] # "client" => l[t] \in Lock
        /\ pc[t] \in {"cas", "grant"} => l[t] \in holds[t]
        /\ pc[t] \in {"try", "xchg", "await", "clear", "await_ack"} => l[t] \notin holds[t]
        /\ pc[t] = "await_ack" => grant[t] \in {l[t], Nil}
        /\ pc[t] # "await_ack" => grant[t] = Nil
        /\ pc[t] = "clear" => grant[pred[t]] = l[t]

\* One thread has m or is handing it over; every other in the line waits for another one,
\* and nobody waits for the tail.
LineInv(m) ==
    /\ \A t, u \in First(m) : t = u
    /\ \A t \in Waiting(m) : pred[t] \in Line(m)
    /\ \A t, u \in Waiting(m) : pred[t] = pred[u] => t = u
    /\ tail[m] = Nil => Line(m) = {}
    /\ tail[m] # Nil => tail[m] \in Line(m) /\ \A t \in Waiting(m) : pred[t] # tail[m]

\* the line has no circle
Ordered(m, rank) == \A t \in Waiting(m) : rank[pred[t]] < rank[t]

HemInv == /\ TypeOK /\ LabelInv
          /\ \A m \in Lock : /\ LineInv(m)
                             /\ \E rank \in [Thread -> Nat] : Ordered(m, rank)
=============================================================================
