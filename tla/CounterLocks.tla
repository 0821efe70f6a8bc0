--------------------------- MODULE CounterLocks ---------------------------
(***************************************************************************)
(* include/vsync/spinlock: the first-come-first-served locks, besides the  *)
(* ticketlock, that serve by counters: twalock.h and arraylock.h.          *)
(* Initially one of them is chosen (`counter`, which never changes); the   *)
(* variables of the other one stay 0.                                      *)
(***************************************************************************)
EXTENDS Control, Integers, Sequences, FiniteSetTheorems, TLAPS

CONSTANTS CounterThread,     \* the threads at the twalock
          CounterMod,        \* where its counters wrap
          ArrayLen,          \* the number of words in its waiting array
          FlagsLen,          \* the number of flags of the arraylock
          TailMod            \* where its tail wraps

\* arraylock.h: the flags are at least as many as the threads and a power of two, as is
\* the number of values of the tail.
ASSUME CounterParameters ==
    /\ IsFiniteSet(Thread) /\ IsFiniteSet(CounterThread)
    /\ CounterMod \in Nat /\ Cardinality(CounterThread) < CounterMod
    /\ ArrayLen \in Nat \ {0}
    /\ FlagsLen \in Nat \ {0} /\ Cardinality(Thread) <= FlagsLen
    /\ TailMod \in Nat \ {0} /\ \E n \in 1 .. TailMod : TailMod = n * FlagsLen

VARIABLES counter,
          ticket, grant, array, tx, seen, knext,   \* twalock
          last, flags, slot                        \* arraylock

-----------------------------------------------------------------------------
TWA == INSTANCE TWALock WITH Thread <- CounterThread, M <- CounterMod, A <- ArrayLen,
           u <- seen, k <- knext

\* Counters: the distance of two of them, and what an increment does to it.
LEMMA CounterInc ==
    ASSUME NEW a \in TWA!Counter
    PROVE  /\ (a + 1) % CounterMod = IF a = CounterMod - 1 THEN 0 ELSE a + 1
           /\ (a + 1) % CounterMod \in TWA!Counter
<1>1. CounterMod \in Nat /\ CounterMod > 0
  BY CounterParameters, FS_CardinalityType
<1>. QED  BY <1>1 DEF TWA!Counter

LEMMA CounterDiff ==
    ASSUME NEW a \in TWA!Counter, NEW b \in TWA!Counter
    PROVE  /\ TWA!TWA_DIFF(a, b) \in Nat
           /\ TWA!TWA_DIFF(a, b) < CounterMod
           /\ TWA!TWA_DIFF(a, b) = 0 <=> a = b
           /\ TWA!TWA_DIFF(a, b) < CounterMod - 1 =>
                 /\ TWA!TWA_DIFF((a + 1) % CounterMod, b) = TWA!TWA_DIFF(a, b) + 1
                 /\ (a + 1) % CounterMod # b
           /\ a # b => TWA!TWA_DIFF(a, (b + 1) % CounterMod) = TWA!TWA_DIFF(a, b) - 1
           /\ TWA!TWA_DIFF(a, b) = 1 => a = (b + 1) % CounterMod
<1>1. CounterMod \in Nat /\ CounterMod > 0
  BY CounterParameters, FS_CardinalityType
<1>2. /\ (a + 1) % CounterMod = IF a = CounterMod - 1 THEN 0 ELSE a + 1
      /\ (b + 1) % CounterMod = IF b = CounterMod - 1 THEN 0 ELSE b + 1
  BY CounterInc
<1>. QED  BY <1>1, <1>2 DEF TWA!Counter, TWA!TWA_DIFF

LEMMA WaitingSlot == \A n \in TWA!Counter : TWA!TWA_HASH(n) \in 0 .. ArrayLen - 1
BY CounterParameters, FS_CardinalityType DEF TWA!TWA_HASH, TWA!Counter

\* the twalock counts with the same Cardinality
LEMMA TWACardinality == \A S : TWA!Cardinality(S) = Cardinality(S)
BY DEF Cardinality, IsFiniteSet, TWA!Cardinality, TWA!IsFiniteSet

\* The threads with a ticket and those that notify are different threads.
LEMMA TWAThreads ==
    /\ IsFiniteSet(TWA!Holding) /\ IsFiniteSet(TWA!Notifying)
    /\ Cardinality(TWA!Holding) \in Nat /\ Cardinality(TWA!Notifying) \in Nat
    /\ Cardinality(CounterThread) \in Nat
    /\ Cardinality(TWA!Holding) + Cardinality(TWA!Notifying) <= Cardinality(CounterThread)
<1>1. /\ TWA!Holding \subseteq CounterThread /\ TWA!Notifying \subseteq CounterThread
      /\ TWA!Holding \cap TWA!Notifying = {}
      /\ TWA!Holding \cup TWA!Notifying \subseteq CounterThread
  BY DEF TWA!Holding, TWA!Notifying, TWA!At
<1>2. /\ IsFiniteSet(TWA!Holding) /\ IsFiniteSet(TWA!Notifying)
      /\ Cardinality(TWA!Holding) \in Nat /\ Cardinality(TWA!Notifying) \in Nat
      /\ Cardinality(CounterThread) \in Nat
  BY <1>1, CounterParameters, FS_Subset, FS_CardinalityType
<1>3. Cardinality(TWA!Holding \cup TWA!Notifying) =
        Cardinality(TWA!Holding) + Cardinality(TWA!Notifying)
  <2>1. Cardinality(TWA!Holding \cap TWA!Notifying) = 0
    BY <1>1, FS_EmptySet
  <2>. QED  BY <1>2, <2>1, FS_Union
<1>4. Cardinality(TWA!Holding \cup TWA!Notifying) <= Cardinality(CounterThread)
  BY <1>1, CounterParameters, FS_Subset
<1>. QED  BY <1>2, <1>3, <1>4

LEMMA TWAInvInit == ASSUME TWA!Init PROVE TWA!TWAInv
<1>. USE DEF TWA!Init
<1>1. 0 \in TWA!Counter
  BY CounterParameters, FS_CardinalityType DEF TWA!Counter
<1>2. TWA!TypeOK
  BY <1>1 DEF TWA!TypeOK
<1>3. TWA!Holding = {} /\ TWA!InCS = {}
  BY DEF TWA!Holding, TWA!InCS, TWA!At
<1>4. TWA!TWA_DIFF(ticket, grant) = 0 /\ Cardinality(TWA!Holding) = 0
  BY <1>1, <1>3, CounterDiff, FS_EmptySet
<1>5. TWA!TicketInv
  BY <1>3, <1>4, TWACardinality DEF TWA!TicketInv
<1>. QED  BY <1>2, <1>5 DEF TWA!TWAInv, TWA!PatienceInv, TWA!NoLostWakeup, TWA!At

LEMMA TWATypeStep == ASSUME TWA!TypeOK, [TWA!Next]_TWA!vars PROVE TWA!TypeOK'
<1>. USE DEF TWA!TypeOK, TWA!Step, TWA!Goto
<1>1. 0 \in TWA!Counter /\ \A n \in TWA!Counter : (n + 1) % CounterMod \in TWA!Counter
  BY CounterInc, CounterParameters, FS_CardinalityType DEF TWA!Counter
<1>2. \A t \in CounterThread : array[TWA!TWA_HASH(tx[t])] \in TWA!Counter
  BY WaitingSlot
<1>3. ASSUME NEW t \in CounterThread, TWA!acquire_get_inc(t) \/ TWA!tryacquire(t)
      PROVE  TWA!TypeOK'
  BY <1>1, <1>3 DEF TWA!acquire_get_inc, TWA!tryacquire
<1>4. ASSUME NEW t \in CounterThread, \/ TWA!acquire_read_grant(t) \/ TWA!slowpath_read_grant(t)
                                   \/ TWA!acquire_await(t)
      PROVE  TWA!TypeOK'
  BY <1>4 DEF TWA!acquire_read_grant, TWA!slowpath_read_grant, TWA!acquire_await
<1>5. ASSUME NEW t \in CounterThread, TWA!slowpath_read_array(t) \/ TWA!slowpath_await_neq(t)
      PROVE  TWA!TypeOK'
  BY <1>2, <1>5 DEF TWA!slowpath_read_array, TWA!slowpath_await_neq
<1>6. ASSUME NEW t \in CounterThread, TWA!release_read(t) \/ TWA!release_write(t)
      PROVE  TWA!TypeOK'
  BY <1>1, <1>6 DEF TWA!release_read, TWA!release_write
<1>7. ASSUME NEW t \in CounterThread, TWA!release_notify(t) PROVE TWA!TypeOK'
  BY <1>1, <1>7, Zenon DEF TWA!release_notify
<1>8. CASE UNCHANGED TWA!vars
  BY <1>8 DEF TWA!vars
<1>. QED  BY <1>3, <1>4, <1>5, <1>6, <1>7, <1>8 DEF TWA!Next, TWA!Progress

\* The invariants of the next state in terms of the primed variables.
LEMMA TicketInvPrimed ==
    ASSUME \A t \in TWA!Holding' :
              TWA!TWA_DIFF(tx'[t], grant') < TWA!TWA_DIFF(ticket', grant'),
           \A t, v \in TWA!Holding' : tx'[t] = tx'[v] => t = v,
           TWA!TWA_DIFF(ticket', grant') = Cardinality(TWA!Holding'),
           \A t \in TWA!InCS' : tx'[t] = grant',
           \A t \in CounterThread : pc'[t] = "release" => knext'[t] = (grant' + 1) % CounterMod
    PROVE  TWA!TicketInv'
BY TWACardinality DEF TWA!TicketInv, TWA!TWA_DIFF

LEMMA PatienceInvPrimed ==
    ASSUME \A t \in CounterThread : pc'[t] \in {"slow_dx", "slow_await"} =>
              TWA!TWA_DIFF(array'[TWA!TWA_HASH(tx'[t])], seen'[t])
                + Cardinality(TWA!Notifying') + TWA!TWA_DIFF(tx'[t], grant')
                < Cardinality(CounterThread)
    PROVE  TWA!PatienceInv'
BY TWACardinality DEF TWA!PatienceInv, TWA!TWA_DIFF, TWA!TWA_HASH, TWA!At

LEMMA NoLostWakeupPrimed ==
    ASSUME \A t \in CounterThread :
              pc'[t] = "slow_await" /\ array'[TWA!TWA_HASH(tx'[t])] = seen'[t] =>
                 \/ TWA!TWA_DIFF(tx'[t], grant') > 1
                 \/ \E r \in CounterThread :
                       /\ pc'[r] = "notify"
                       /\ TWA!TWA_HASH((knext'[r] + 1) % CounterMod) = TWA!TWA_HASH(tx'[t])
    PROVE  TWA!NoLostWakeup'
BY DEF TWA!NoLostWakeup, TWA!TWA_DIFF, TWA!TWA_HASH

LEMMA TicketInvNow ==
    ASSUME TWA!TicketInv
    PROVE  /\ \A t \in TWA!Holding :
                 TWA!TWA_DIFF(tx[t], grant) < TWA!TWA_DIFF(ticket, grant)
           /\ \A t, v \in TWA!Holding : tx[t] = tx[v] => t = v
           /\ TWA!TWA_DIFF(ticket, grant) = Cardinality(TWA!Holding)
           /\ \A t \in TWA!InCS : tx[t] = grant
           /\ \A t \in CounterThread : pc[t] = "release" => knext[t] = (grant + 1) % CounterMod
BY TWACardinality DEF TWA!TicketInv

-----------------------------------------------------------------------------
\* Whoever takes a ticket comes after all the others.
LEMMA TicketInvTake ==
    ASSUME TWA!TypeOK, TWA!TicketInv, NEW t \in CounterThread,
           TWA!acquire_get_inc(t) \/ TWA!tryacquire(t)
    PROVE  TWA!TicketInv'
<1>1. /\ pc[t] = "idle" /\ t \notin TWA!Holding /\ TWA!Holding' = TWA!Holding \cup {t}
      /\ ticket' = (ticket + 1) % CounterMod /\ tx'[t] = ticket
      /\ grant' = grant /\ knext' = knext
      /\ \A v \in TWA!Holding : v \in CounterThread /\ v # t /\ tx'[v] = tx[v]
      /\ \A v \in CounterThread : pc'[v] = "release" => pc[v] = "release"
      /\ \A v \in TWA!InCS' : v \in TWA!InCS \/ (v = t /\ ticket = grant)
      /\ TWA!InCS \subseteq TWA!Holding
  BY DEF TWA!acquire_get_inc, TWA!tryacquire, TWA!Step, TWA!Goto, TWA!TypeOK, TWA!Holding,
     TWA!InCS, TWA!At
<1>2. /\ ticket \in TWA!Counter /\ grant \in TWA!Counter
      /\ \A v \in CounterThread : tx[v] \in TWA!Counter
  BY DEF TWA!TypeOK
<1>. DEFINE n == Cardinality(TWA!Holding)
<1>3. Cardinality(TWA!Holding') = n + 1 /\ n \in Nat /\ n < CounterMod - 1
  <2>1. Cardinality(TWA!Holding') = n + 1
    BY <1>1, TWAThreads, FS_AddElement, Zenon
  <2>2. TWA!Holding \cup {t} \subseteq CounterThread
    BY DEF TWA!Holding
  <2>3. Cardinality(TWA!Holding') <= Cardinality(CounterThread)
    BY <1>1, <2>2, CounterParameters, FS_Subset
  <2>. QED  BY <2>1, <2>3, TWAThreads, CounterParameters
<1>. HIDE DEF n
<1>4. TWA!TWA_DIFF(ticket, grant) = n
  BY TicketInvNow DEF n
<1>5. TWA!TWA_DIFF(ticket', grant') = n + 1
  BY <1>1, <1>2, <1>3, <1>4, CounterDiff
<1>6. \A v \in TWA!Holding : TWA!TWA_DIFF(tx[v], grant) \in Nat /\ TWA!TWA_DIFF(tx[v], grant) < n
  BY <1>1, <1>2, <1>4, CounterDiff, TicketInvNow
<1>7. \A v \in TWA!Holding' : TWA!TWA_DIFF(tx'[v], grant') < TWA!TWA_DIFF(ticket', grant')
  BY <1>1, <1>3, <1>4, <1>5, <1>6
<1>8. \A v \in TWA!Holding : tx[v] # ticket
  BY <1>3, <1>4, <1>6
<1>9. \A v, w \in TWA!Holding' : tx'[v] = tx'[w] => v = w
  BY <1>1, <1>8, TicketInvNow
<1>10. \A v \in TWA!InCS' : tx'[v] = grant'
  BY <1>1, TicketInvNow
<1>11. \A v \in CounterThread : pc'[v] = "release" => knext'[v] = (grant' + 1) % CounterMod
  BY <1>1, TicketInvNow
<1>. QED  BY <1>3, <1>5, <1>7, <1>9, <1>10, <1>11, TicketInvPrimed

\* The way in leaves the tickets alone, and whoever enters has the ticket of the grant.
LEMMA TicketInvWait ==
    ASSUME TWA!TypeOK, TWA!TicketInv, NEW t \in CounterThread,
           \/ TWA!acquire_read_grant(t) \/ TWA!slowpath_read_array(t)
           \/ TWA!slowpath_read_grant(t) \/ TWA!slowpath_await_neq(t)
           \/ TWA!acquire_await(t) \/ TWA!release_read(t) \/ TWA!release_notify(t)
    PROVE  TWA!TicketInv'
<1>0. tx[t] \in TWA!Counter /\ grant \in TWA!Counter
  BY DEF TWA!TypeOK
<1>1. TWA!TWA_DIFF(tx[t], grant) = 0 => tx[t] = grant
  BY <1>0, CounterDiff
<1>2. /\ TWA!Holding' = TWA!Holding /\ UNCHANGED <<ticket, grant, tx>>
      /\ \A v \in TWA!InCS' : v \in TWA!InCS \/ tx[v] = grant
      /\ \A v \in CounterThread : pc'[v] = "release" =>
            \/ pc[v] = "release" /\ knext'[v] = knext[v]
            \/ knext'[v] = (grant + 1) % CounterMod
  BY <1>1 DEF TWA!acquire_read_grant, TWA!slowpath_read_array, TWA!slowpath_read_grant,
     TWA!slowpath_await_neq, TWA!acquire_await, TWA!release_read, TWA!release_notify,
     TWA!Step, TWA!Goto, TWA!TypeOK, TWA!Holding, TWA!InCS, TWA!At
<1>. QED  BY <1>2, TicketInvNow, TicketInvPrimed

\* What the first write of release does: everybody else comes one closer.
LEMMA ReleaseWrite ==
    ASSUME TWA!TypeOK, TWA!TicketInv, NEW t \in CounterThread, TWA!release_write(t)
    PROVE  /\ pc[t] = "release" /\ pc' = [pc EXCEPT ![t] = "notify"]
           /\ t \in TWA!Holding /\ TWA!Holding' = TWA!Holding \ {t}
           /\ t \in TWA!InCS /\ TWA!InCS' = {}
           /\ t \notin TWA!Notifying /\ TWA!Notifying' = TWA!Notifying \cup {t}
           /\ grant' = (grant + 1) % CounterMod /\ grant' = knext[t]
           /\ UNCHANGED <<ticket, array, knext>>
           /\ \A v \in CounterThread \ {t} : tx'[v] = tx[v] /\ seen'[v] = seen[v]
           /\ \A v \in TWA!Holding' : /\ v \in CounterThread \ {t} /\ tx[v] # grant
                                      /\ TWA!TWA_DIFF(tx[v], grant') =
                                            TWA!TWA_DIFF(tx[v], grant) - 1
<1>1. /\ pc[t] = "release" /\ pc' = [pc EXCEPT ![t] = "notify"]
      /\ t \in TWA!Holding /\ TWA!Holding' = TWA!Holding \ {t}
      /\ t \in TWA!InCS /\ TWA!InCS' = TWA!InCS \ {t} /\ TWA!InCS \subseteq TWA!Holding
      /\ t \notin TWA!Notifying /\ TWA!Notifying' = TWA!Notifying \cup {t}
      /\ grant' = knext[t] /\ UNCHANGED <<ticket, array, knext>>
      /\ \A v \in CounterThread \ {t} : tx'[v] = tx[v] /\ seen'[v] = seen[v]
      /\ TWA!Holding \subseteq CounterThread
  BY DEF TWA!release_write, TWA!Step, TWA!Goto, TWA!TypeOK, TWA!Holding, TWA!InCS,
     TWA!Notifying, TWA!At
<1>2. grant' = (grant + 1) % CounterMod /\ tx[t] = grant
  BY <1>1, TicketInvNow
<1>3. \A v \in TWA!Holding' : v \in CounterThread \ {t} /\ tx[v] # grant
  BY <1>1, <1>2, TicketInvNow
<1>4. \A v \in TWA!Holding' : TWA!TWA_DIFF(tx[v], grant') = TWA!TWA_DIFF(tx[v], grant) - 1
  <2>1. grant \in TWA!Counter /\ \A v \in CounterThread : tx[v] \in TWA!Counter
    BY DEF TWA!TypeOK
  <2>. QED  BY <1>2, <1>3, <2>1, CounterDiff
<1>5. TWA!InCS' = {}
  BY <1>1, <1>2, TicketInvNow
<1>. QED  BY <1>1, <1>2, <1>3, <1>4, <1>5

LEMMA TicketInvRelease ==
    ASSUME TWA!TypeOK, TWA!TicketInv, NEW t \in CounterThread, TWA!release_write(t)
    PROVE  TWA!TicketInv'
<1>. DEFINE n == Cardinality(TWA!Holding)
<1>1. n \in Nat /\ n # 0 /\ Cardinality(TWA!Holding') = n - 1
  BY ReleaseWrite, TWAThreads, FS_RemoveElement, FS_EmptySet
<1>. HIDE DEF n
<1>2. /\ ticket \in TWA!Counter /\ grant \in TWA!Counter
      /\ \A v \in CounterThread : tx[v] \in TWA!Counter
  BY DEF TWA!TypeOK
<1>3. TWA!TWA_DIFF(ticket, grant) = n /\ ticket # grant
  BY <1>1, <1>2, TicketInvNow, CounterDiff DEF n
<1>4. TWA!TWA_DIFF(ticket', grant') = n - 1
  BY <1>2, <1>3, ReleaseWrite, CounterDiff
<1>5. \A v \in TWA!Holding' : TWA!TWA_DIFF(tx'[v], grant') < TWA!TWA_DIFF(ticket', grant')
  <2>. SUFFICES ASSUME NEW v \in TWA!Holding'
                PROVE  TWA!TWA_DIFF(tx'[v], grant') < TWA!TWA_DIFF(ticket', grant')
    OBVIOUS
  <2>1. /\ v \in TWA!Holding /\ v \in CounterThread /\ tx'[v] = tx[v]
        /\ TWA!TWA_DIFF(tx[v], grant') = TWA!TWA_DIFF(tx[v], grant) - 1
    BY ReleaseWrite
  <2>2. TWA!TWA_DIFF(tx[v], grant) < n /\ TWA!TWA_DIFF(tx[v], grant) \in Nat
    BY <1>2, <1>3, <2>1, TicketInvNow, CounterDiff
  <2>. QED  BY <1>1, <1>4, <2>1, <2>2
<1>6. \A v, w \in TWA!Holding' : tx'[v] = tx'[w] => v = w
  BY ReleaseWrite, TicketInvNow
<1>7. \A v \in CounterThread : pc'[v] # "release"
  BY ReleaseWrite DEF TWA!InCS, TWA!At
<1>8. \A v \in TWA!InCS' : tx'[v] = grant'
  BY ReleaseWrite
<1>. QED  BY <1>1, <1>4, <1>5, <1>6, <1>7, <1>8, TicketInvPrimed

LEMMA TicketInvStep ==
    ASSUME TWA!TypeOK, TWA!TicketInv, [TWA!Next]_TWA!vars PROVE TWA!TicketInv'
<1>1. CASE UNCHANGED TWA!vars
  BY <1>1 DEF TWA!vars, TWA!TicketInv, TWA!Holding, TWA!InCS, TWA!At, TWA!TWA_DIFF
<1>. QED  BY <1>1, TicketInvTake, TicketInvWait, TicketInvRelease DEF TWA!Next, TWA!Progress

-----------------------------------------------------------------------------
\* What is left of the array word's way around, for the thread v.
LEMMA PatienceInvStep ==
    ASSUME TWA!TWAInv, [TWA!Next]_TWA!vars PROVE TWA!PatienceInv'
<1>. DEFINE Waits(v) == pc[v] \in {"slow_dx", "slow_await"}
            Word(v) == TWA!TWA_DIFF(array[TWA!TWA_HASH(tx[v])], seen[v])
            Far(v) == TWA!TWA_DIFF(tx[v], grant)
            n == Cardinality(TWA!Notifying)
            all == Cardinality(CounterThread)
<1>0. TWA!TypeOK /\ TWA!TicketInv /\ TWA!TypeOK'
  BY TWATypeStep DEF TWA!TWAInv
<1>1. \A v \in CounterThread : Waits(v) => Word(v) + n + Far(v) < all
  BY TWACardinality DEF TWA!TWAInv, TWA!PatienceInv, TWA!At
<1>2. \A v \in CounterThread : /\ Word(v) \in Nat /\ Far(v) \in Nat
                            /\ array[TWA!TWA_HASH(tx[v])] \in TWA!Counter
                            /\ seen[v] \in TWA!Counter /\ tx[v] \in TWA!Counter
  <2>1. \A v \in CounterThread : /\ array[TWA!TWA_HASH(tx[v])] \in TWA!Counter
                              /\ seen[v] \in TWA!Counter /\ tx[v] \in TWA!Counter
    BY <1>0, WaitingSlot DEF TWA!TypeOK
  <2>2. grant \in TWA!Counter
    BY <1>0 DEF TWA!TypeOK
  <2>. QED  BY <2>1, <2>2, CounterDiff
<1>3. n \in Nat /\ all \in Nat /\ all < CounterMod /\ CounterMod \in Nat
  BY TWAThreads, CounterParameters
<1>4. \A v \in TWA!Holding : v \in CounterThread /\ n + Far(v) < all
  <2>. SUFFICES ASSUME NEW v \in TWA!Holding PROVE v \in CounterThread /\ n + Far(v) < all
    OBVIOUS
  <2>1. v \in CounterThread /\ Far(v) < Cardinality(TWA!Holding)
    BY <1>0, TicketInvNow DEF TWA!Holding
  <2>. QED  BY <1>2, <1>3, <2>1, TWAThreads
<1>. SUFFICES ASSUME NEW v \in CounterThread, pc'[v] \in {"slow_dx", "slow_await"}
              PROVE  TWA!TWA_DIFF(array'[TWA!TWA_HASH(tx'[v])], seen'[v])
                        + Cardinality(TWA!Notifying') + TWA!TWA_DIFF(tx'[v], grant') < all
  BY PatienceInvPrimed
<1>5. ASSUME UNCHANGED <<grant, array>>, TWA!Notifying' = TWA!Notifying,
             tx'[v] = tx[v], seen'[v] = seen[v], Waits(v)
      PROVE  TWA!TWA_DIFF(array'[TWA!TWA_HASH(tx'[v])], seen'[v])
                + Cardinality(TWA!Notifying') + TWA!TWA_DIFF(tx'[v], grant') < all
  BY <1>1, <1>5
<1>6. ASSUME NEW t \in CounterThread, \/ TWA!acquire_get_inc(t) \/ TWA!tryacquire(t)
                                   \/ TWA!acquire_read_grant(t)
                                   \/ TWA!slowpath_read_grant(t)
                                   \/ TWA!acquire_await(t) \/ TWA!release_read(t)
      PROVE  TWA!TWA_DIFF(array'[TWA!TWA_HASH(tx'[v])], seen'[v])
                + Cardinality(TWA!Notifying') + TWA!TWA_DIFF(tx'[v], grant') < all
  <2>1. /\ UNCHANGED <<grant, array>> /\ TWA!Notifying' = TWA!Notifying
        /\ tx'[v] = tx[v] /\ seen'[v] = seen[v] /\ Waits(v)
    BY <1>0, <1>6 DEF TWA!acquire_get_inc, TWA!tryacquire, TWA!acquire_read_grant,
       TWA!slowpath_read_grant, TWA!acquire_await, TWA!release_read, TWA!Step, TWA!Goto,
       TWA!TypeOK, TWA!Notifying, TWA!At
  <2>. QED  BY <1>5, <2>1
<1>7. ASSUME NEW t \in CounterThread, TWA!slowpath_read_array(t) \/ TWA!slowpath_await_neq(t)
      PROVE  TWA!TWA_DIFF(array'[TWA!TWA_HASH(tx'[v])], seen'[v])
                + Cardinality(TWA!Notifying') + TWA!TWA_DIFF(tx'[v], grant') < all
  <2>1. /\ UNCHANGED <<grant, array, tx>> /\ TWA!Notifying' = TWA!Notifying
        /\ v # t => seen'[v] = seen[v] /\ Waits(v)
        /\ v = t => v \in TWA!Holding /\ seen'[v] = array[TWA!TWA_HASH(tx[v])]
    BY <1>0, <1>7 DEF TWA!slowpath_read_array, TWA!slowpath_await_neq, TWA!Step, TWA!Goto,
       TWA!TypeOK, TWA!Notifying, TWA!Holding, TWA!At
  <2>2. CASE v # t
    BY <1>5, <2>1, <2>2
  <2>3. CASE v = t
    <3>1. TWA!TWA_DIFF(array[TWA!TWA_HASH(tx[v])], seen'[v]) = 0
      BY <1>2, <2>1, <2>3, CounterDiff
    <3>2. n + Far(v) < all
      BY <1>4, <2>1, <2>3
    <3>. QED  BY <1>2, <1>3, <2>1, <3>1, <3>2
  <2>. QED  BY <2>2, <2>3
<1>8. ASSUME NEW t \in CounterThread, TWA!release_write(t)
      PROVE  TWA!TWA_DIFF(array'[TWA!TWA_HASH(tx'[v])], seen'[v])
                + Cardinality(TWA!Notifying') + TWA!TWA_DIFF(tx'[v], grant') < all
  <2>1. /\ v # t /\ tx'[v] = tx[v] /\ seen'[v] = seen[v] /\ array' = array /\ Waits(v)
        /\ v \in TWA!Holding'
    BY <1>0, <1>8, ReleaseWrite DEF TWA!TypeOK, TWA!Holding, TWA!At
  <2>2. TWA!TWA_DIFF(tx[v], grant') = Far(v) - 1
    BY <1>0, <1>8, <2>1, ReleaseWrite
  <2>3. Cardinality(TWA!Notifying') = n + 1
    <3>1. t \notin TWA!Notifying /\ TWA!Notifying' = TWA!Notifying \cup {t}
      BY <1>0, <1>8, ReleaseWrite
    <3>. QED  BY <3>1, TWAThreads, FS_AddElement, Zenon
  <2>4. Word(v) + n + Far(v) < all /\ Word(v) \in Nat /\ Far(v) \in Nat
    BY <1>1, <1>2, <2>1
  <2>. QED  BY <1>3, <2>1, <2>2, <2>3, <2>4
<1>9. ASSUME NEW t \in CounterThread, TWA!release_notify(t)
      PROVE  TWA!TWA_DIFF(array'[TWA!TWA_HASH(tx'[v])], seen'[v])
                + Cardinality(TWA!Notifying') + TWA!TWA_DIFF(tx'[v], grant') < all
  <2>. DEFINE a == array[TWA!TWA_HASH(tx[v])]
  <2>1. /\ UNCHANGED <<grant, tx, seen>> /\ Waits(v)
        /\ t \in TWA!Notifying /\ TWA!Notifying' = TWA!Notifying \ {t}
    BY <1>0, <1>9 DEF TWA!release_notify, TWA!Step, TWA!Goto, TWA!TypeOK, TWA!Notifying
  <2>2. array'[TWA!TWA_HASH(tx[v])] \in {a, (a + 1) % CounterMod}
    BY <1>0, <1>9, WaitingSlot DEF TWA!release_notify, TWA!TypeOK
  <2>3. Cardinality(TWA!Notifying') = n - 1 /\ n # 0
    BY <2>1, TWAThreads, FS_RemoveElement, FS_EmptySet, Zenon
  <2>4. Word(v) + n + Far(v) < all /\ Word(v) \in Nat /\ Far(v) \in Nat
    BY <1>1, <1>2, <2>1
  <2>5. TWA!TWA_DIFF((a + 1) % CounterMod, seen[v]) = Word(v) + 1
    <3>1. Word(v) < CounterMod - 1
      BY <1>3, <2>4
    <3>. QED  BY <1>2, <3>1, CounterDiff
  <2>6. TWA!TWA_DIFF(array'[TWA!TWA_HASH(tx[v])], seen[v]) \in {Word(v), Word(v) + 1}
    BY <2>2, <2>5
  <2>. HIDE DEF Word, Far, n, a, all
  <2>7. TWA!TWA_DIFF(tx'[v], grant') = Far(v)
    BY <2>1 DEF Far
  <2>. QED  BY <1>3, <2>1, <2>3, <2>4, <2>6, <2>7
<1>10. CASE UNCHANGED TWA!vars
  <2>1. /\ UNCHANGED <<grant, array, tx, seen>> /\ TWA!Notifying' = TWA!Notifying /\ Waits(v)
    BY <1>10 DEF TWA!vars, TWA!Notifying
  <2>. QED  BY <1>5, <2>1
<1>. QED  BY <1>6, <1>7, <1>8, <1>9, <1>10 DEF TWA!Next, TWA!Progress

\* A thread whose turn is near is still to be notified, or has been.
LEMMA WakeupKeptStep ==
    ASSUME TWA!TWAInv, [TWA!Next]_TWA!vars PROVE TWA!NoLostWakeup'
<1>. DEFINE Slot(v) == TWA!TWA_HASH(tx[v])
            Notifies(r) == TWA!TWA_HASH((knext[r] + 1) % CounterMod)
<1>0. TWA!TypeOK /\ TWA!TicketInv
  BY DEF TWA!TWAInv
<1>1. \A v \in CounterThread : pc[v] = "slow_await" /\ array[Slot(v)] = seen[v] =>
         \/ TWA!TWA_DIFF(tx[v], grant) > 1
         \/ \E r \in CounterThread : pc[r] = "notify" /\ Notifies(r) = Slot(v)
  BY DEF TWA!TWAInv, TWA!NoLostWakeup
<1>. SUFFICES ASSUME NEW v \in CounterThread, pc'[v] = "slow_await",
                     array'[TWA!TWA_HASH(tx'[v])] = seen'[v]
              PROVE  \/ TWA!TWA_DIFF(tx'[v], grant') > 1
                     \/ \E r \in CounterThread :
                           /\ pc'[r] = "notify"
                           /\ TWA!TWA_HASH((knext'[r] + 1) % CounterMod) =
                                 TWA!TWA_HASH(tx'[v])
  BY NoLostWakeupPrimed
<1>2. ASSUME NEW t \in CounterThread, \/ TWA!acquire_get_inc(t) \/ TWA!tryacquire(t)
                                   \/ TWA!acquire_read_grant(t)
                                   \/ TWA!slowpath_read_array(t)
                                   \/ TWA!slowpath_read_grant(t)
                                   \/ TWA!slowpath_await_neq(t)
                                   \/ TWA!acquire_await(t) \/ TWA!release_read(t)
      PROVE  \/ TWA!TWA_DIFF(tx'[v], grant') > 1
             \/ \E r \in CounterThread :
                   /\ pc'[r] = "notify"
                   /\ TWA!TWA_HASH((knext'[r] + 1) % CounterMod) = TWA!TWA_HASH(tx'[v])
  <2>1. /\ UNCHANGED <<grant, array>> /\ tx'[v] = tx[v] /\ seen'[v] = seen[v]
        /\ pc[v] = "slow_await" \/ TWA!TWA_DIFF(tx[v], grant) > 1
        /\ \A r \in CounterThread : pc[r] = "notify" => pc'[r] = "notify" /\ knext'[r] = knext[r]
    BY <1>0, <1>2 DEF TWA!acquire_get_inc, TWA!tryacquire, TWA!acquire_read_grant,
       TWA!slowpath_read_array, TWA!slowpath_read_grant, TWA!slowpath_await_neq,
       TWA!acquire_await, TWA!release_read, TWA!Step, TWA!Goto, TWA!TypeOK
  <2>. QED  BY <1>1, <2>1
<1>3. ASSUME NEW t \in CounterThread, TWA!release_write(t)
      PROVE  \/ TWA!TWA_DIFF(tx'[v], grant') > 1
             \/ \E r \in CounterThread :
                   /\ pc'[r] = "notify"
                   /\ TWA!TWA_HASH((knext'[r] + 1) % CounterMod) = TWA!TWA_HASH(tx'[v])
  <2>1. /\ v # t /\ tx'[v] = tx[v] /\ seen'[v] = seen[v] /\ UNCHANGED <<array, knext>>
        /\ pc[v] = "slow_await" /\ v \in TWA!Holding' /\ pc'[t] = "notify"
        /\ \A r \in CounterThread : pc[r] = "notify" => pc'[r] = "notify"
        /\ grant' = (grant + 1) % CounterMod /\ grant' = knext[t]
    BY <1>0, <1>3, ReleaseWrite DEF TWA!TypeOK, TWA!Holding, TWA!At
  <2>2. /\ TWA!TWA_DIFF(tx[v], grant') = TWA!TWA_DIFF(tx[v], grant) - 1
        /\ TWA!TWA_DIFF(tx[v], grant) \in Nat /\ tx[v] \in TWA!Counter
        /\ grant' \in TWA!Counter
    <3>1. TWA!TWA_DIFF(tx[v], grant') = TWA!TWA_DIFF(tx[v], grant) - 1
      BY <1>0, <1>3, <2>1, ReleaseWrite
    <3>2. tx[v] \in TWA!Counter /\ grant \in TWA!Counter
      BY <1>0 DEF TWA!TypeOK
    <3>. QED  BY <2>1, <3>1, <3>2, CounterDiff, CounterInc
  <2>3. CASE TWA!TWA_DIFF(tx[v], grant) > 1 /\ ~(TWA!TWA_DIFF(tx[v], grant') > 1)
    <3>1. TWA!TWA_DIFF(tx[v], grant') = 1
      BY <2>2, <2>3
    <3>2. tx[v] = (knext[t] + 1) % CounterMod
      BY <2>1, <2>2, <3>1, CounterDiff
    <3>. QED  BY <2>1, <3>2
  <2>4. CASE ~(TWA!TWA_DIFF(tx[v], grant) > 1)
    BY <1>1, <2>1, <2>4
  <2>. QED  BY <2>1, <2>3, <2>4
<1>4. ASSUME NEW t \in CounterThread, TWA!release_notify(t)
      PROVE  \/ TWA!TWA_DIFF(tx'[v], grant') > 1
             \/ \E r \in CounterThread :
                   /\ pc'[r] = "notify"
                   /\ TWA!TWA_HASH((knext'[r] + 1) % CounterMod) = TWA!TWA_HASH(tx'[v])
  <2>1. /\ UNCHANGED <<grant, tx, seen>> /\ pc[v] = "slow_await"
        /\ \A r \in CounterThread \ {t} : pc'[r] = pc[r] /\ knext'[r] = knext[r]
    BY <1>0, <1>4 DEF TWA!release_notify, TWA!Step, TWA!Goto, TWA!TypeOK
  <2>2. array[Slot(v)] \in TWA!Counter /\ seen[v] \in TWA!Counter /\ Slot(v) \in 0 .. ArrayLen - 1
    BY <1>0, WaitingSlot DEF TWA!TypeOK
  <2>3. Notifies(t) # Slot(v)
    <3>1. ASSUME Notifies(t) = Slot(v) PROVE FALSE
      <4>1. array'[Slot(v)] = (array[Slot(v)] + 1) % CounterMod
        BY <1>0, <1>4, <2>2, <3>1 DEF TWA!release_notify, TWA!TypeOK
      <4>2. TWA!TWA_DIFF(array[Slot(v)], seen[v]) < CounterMod - 1
        <5>1. /\ TWA!TWA_DIFF(array[Slot(v)], seen[v]) \in Nat
              /\ TWA!TWA_DIFF(tx[v], grant) \in Nat
          BY <1>0, <2>2, CounterDiff DEF TWA!TypeOK
        <5>2. TWA!TWA_DIFF(array[Slot(v)], seen[v]) + Cardinality(TWA!Notifying)
                 + TWA!TWA_DIFF(tx[v], grant) < Cardinality(CounterThread)
          BY <2>1, TWACardinality DEF TWA!TWAInv, TWA!PatienceInv, TWA!At
        <5>. QED  BY <5>1, <5>2, TWAThreads, CounterParameters
      <4>3. (array[Slot(v)] + 1) % CounterMod # seen[v]
        BY <2>2, <4>2, CounterDiff
      <4>. QED  BY <2>1, <4>1, <4>3
    <3>. QED  BY <3>1
  <2>4. array'[Slot(v)] = array[Slot(v)]
    BY <1>0, <1>4, <2>2, <2>3 DEF TWA!release_notify, TWA!TypeOK
  <2>. QED  BY <1>1, <2>1, <2>3, <2>4
<1>5. CASE UNCHANGED TWA!vars
  BY <1>1, <1>5 DEF TWA!vars
<1>. QED  BY <1>2, <1>3, <1>4, <1>5 DEF TWA!Next, TWA!Progress

LEMMA TWAInvStep == ASSUME TWA!TWAInv, [TWA!Next]_TWA!vars PROVE TWA!TWAInv'
BY TWATypeStep, TicketInvStep, PatienceInvStep, WakeupKeptStep DEF TWA!TWAInv

-----------------------------------------------------------------------------
\* How a queue q of n threads is extended by t, and without its first thread.
LEMMA LineJoined ==
    ASSUME NEW n \in Nat, NEW S, NEW q \in [1 .. n -> S], NEW t,
           NEW r \in [1 .. n + 1 -> S \cup {t}],
           r[n + 1] = t, \A i \in 1 .. n : r[i] = q[i]
    PROVE  r = Append(q, t)
<1>1. q \in Seq(S \cup {t}) /\ Len(q) = n /\ t \in S \cup {t}
  OBVIOUS
<1>2. PICK a : a = Append(q, t)
  OBVIOUS
<1>3. /\ a \in Seq(S \cup {t}) /\ Len(a) = n + 1
      /\ \A i \in 1 .. n : a[i] = q[i]
      /\ a[n + 1] = t
  BY <1>1, <1>2
<1>4. a \in [1 .. n + 1 -> S \cup {t}]
  BY <1>3
<1>5. \A i \in 1 .. n + 1 : r[i] = a[i]
  BY <1>3
<1>. QED  BY <1>2, <1>4, <1>5

LEMMA LineLeft ==
    ASSUME NEW n \in Nat \ {0}, NEW S, NEW q \in [1 .. n -> S]
    PROVE  q # <<>> /\ Head(q) = q[1] /\ Tail(q) = [i \in 1 .. n - 1 |-> q[i + 1]]
<1>1. q \in Seq(S) /\ Len(q) = n /\ q # <<>> /\ Head(q) = q[1]
  OBVIOUS
<1>2. PICK a : a = Tail(q)
  BY Zenon
<1>3. /\ a \in Seq(S) /\ Len(a) = n - 1
      /\ \A i \in 1 .. n - 1 : a[i] = q[i + 1]
  BY <1>1, <1>2
<1>4. a = [i \in 1 .. n - 1 |-> q[i + 1]]
  BY <1>3
<1>. QED  BY <1>1, <1>2, <1>4, Zenon

LEMMA SameDistance ==
    ASSUME NEW a \in TWA!Counter, NEW b \in TWA!Counter, NEW c \in TWA!Counter,
           TWA!TWA_DIFF(a, c) = TWA!TWA_DIFF(b, c)
    PROVE  a = b
BY CounterParameters, FS_CardinalityType DEF TWA!Counter, TWA!TWA_DIFF

LEMMA TWAHolding ==
    /\ TWA!Holding \subseteq CounterThread /\ Cardinality(TWA!Holding) \in Nat
    /\ TWA!Holding = {} <=> Cardinality(TWA!Holding) = 0
    /\ \A t : t \notin TWA!Holding =>
          Cardinality(TWA!Holding \cup {t}) = Cardinality(TWA!Holding) + 1
    /\ \A t \in TWA!Holding : Cardinality(TWA!Holding \ {t}) = Cardinality(TWA!Holding) - 1
<1>1. TWA!Holding \subseteq CounterThread
  BY DEF TWA!Holding
<1>2. TWA!Holding = {} <=> Cardinality(TWA!Holding) = 0
  BY TWAThreads, FS_EmptySet
<1>3. /\ \A t : t \notin TWA!Holding =>
            Cardinality(TWA!Holding \cup {t}) = Cardinality(TWA!Holding) + 1
      /\ \A t \in TWA!Holding : Cardinality(TWA!Holding \ {t}) = Cardinality(TWA!Holding) - 1
  BY TWAThreads, FS_AddElement, FS_RemoveElement, Zenon
<1>. QED  BY <1>1, <1>2, <1>3, TWAThreads

LEMMA TWAIsQueueNow ==
    ASSUME NEW q, TWA!IsQueue(q), NEW n, n = Cardinality(TWA!Holding)
    PROVE  /\ q \in [1 .. n -> TWA!Holding]
           /\ \A i \in 1 .. n : TWA!TWA_DIFF(tx[q[i]], grant) = i - 1
BY TWACardinality DEF TWA!IsQueue

LEMMA TWAIsQueueNext ==
    ASSUME NEW q, NEW n, n = Cardinality(TWA!Holding'),
           q \in [1 .. n -> TWA!Holding'],
           \A i \in 1 .. n : TWA!TWA_DIFF(tx'[q[i]], grant') = i - 1
    PROVE  TWA!IsQueue(q)' /\ TWA!HasQueue'
<1>1. TWA!IsQueue(q)'
  BY TWACardinality DEF TWA!IsQueue, TWA!TWA_DIFF
<1>2. q \in [1 .. TWA!Cardinality(TWA!Holding') -> TWA!Holding']
  BY TWACardinality
<1>. QED  BY <1>1, <1>2 DEF TWA!HasQueue

LEMMA TWAEmpty ==
    ASSUME TWA!TypeOK, TWA!TicketInv, NEW q, TWA!IsQueue(q), ticket = grant PROVE q = <<>>
<1>1. Cardinality(TWA!Holding) = 0
  BY TicketInvNow, CounterDiff DEF TWA!TypeOK
<1>2. q \in [1 .. 0 -> TWA!Holding]
  BY <1>1, TWAIsQueueNow
<1>. QED  BY <1>2

\* Whoever takes a ticket joins the queue at its end; tryacquire only takes one when the
\* queue is empty.
LEMMA TWAJoin ==
    ASSUME TWA!TypeOK, TWA!TicketInv, NEW t \in CounterThread, NEW q, TWA!IsQueue(q),
           TWA!acquire_get_inc(t) \/ TWA!tryacquire(t)
    PROVE  TWA!IsQueue(Append(q, t))' /\ TWA!HasQueue'
<1>1. PICK n \in Nat : n = Cardinality(TWA!Holding)
  BY TWAHolding
<1>2. /\ t \notin TWA!Holding /\ TWA!Holding' = TWA!Holding \cup {t}
      /\ tx'[t] = ticket /\ grant' = grant
      /\ \A v \in TWA!Holding : v # t /\ tx'[v] = tx[v]
  BY DEF TWA!acquire_get_inc, TWA!tryacquire, TWA!Step, TWA!Goto, TWA!TypeOK, TWA!Holding,
     TWA!At
<1>3. Cardinality(TWA!Holding') = n + 1 /\ TWA!TWA_DIFF(ticket, grant) = n
  BY <1>1, <1>2, TWAHolding, TicketInvNow
<1>4. /\ q \in [1 .. n -> TWA!Holding]
      /\ \A i \in 1 .. n : TWA!TWA_DIFF(tx[q[i]], grant) = i - 1
  BY <1>1, TWAIsQueueNow
<1>5. PICK r : r = [i \in 1 .. n + 1 |-> IF i = n + 1 THEN t ELSE q[i]]
  BY Zenon
<1>6. r = Append(q, t)
  <2>1. /\ q \in [1 .. n -> TWA!Holding] /\ r \in [1 .. n + 1 -> TWA!Holding \cup {t}]
        /\ r[n + 1] = t /\ \A i \in 1 .. n : r[i] = q[i]
    BY <1>4, <1>5
  <2>. QED  BY <2>1, LineJoined, Zenon
<1>7. r \in [1 .. n + 1 -> TWA!Holding']
  BY <1>2, <1>4, <1>5
<1>8. \A i \in 1 .. n + 1 : TWA!TWA_DIFF(tx'[r[i]], grant') = i - 1
  <2>. SUFFICES ASSUME NEW i \in 1 .. n + 1
                PROVE  TWA!TWA_DIFF(tx'[r[i]], grant') = i - 1
    OBVIOUS
  <2>1. CASE i = n + 1
    BY <1>2, <1>3, <1>5, <2>1
  <2>2. CASE i \in 1 .. n
    <3>1. r[i] = q[i] /\ q[i] \in TWA!Holding
      BY <1>4, <1>5, <2>2
    <3>. QED  BY <1>2, <1>4, <2>2, <3>1
  <2>. QED  BY <2>1, <2>2
<1>9. TWA!IsQueue(r)' /\ TWA!HasQueue'
  BY <1>3, <1>7, <1>8, TWAIsQueueNext
<1>. QED  BY <1>6, <1>9

\* Writing the grant leaves the head of the queue.
LEMMA TWALeave ==
    ASSUME TWA!TypeOK, TWA!TicketInv, NEW t \in CounterThread, NEW q, TWA!IsQueue(q),
           TWA!release_write(t)
    PROVE  /\ q # <<>> /\ Head(q) = t /\ q[1] = t /\ 1 \in DOMAIN q
           /\ TWA!IsQueue(Tail(q))' /\ TWA!HasQueue'
<1>1. PICK n \in Nat : n = Cardinality(TWA!Holding)
  BY TWAHolding
<1>2. /\ t \in TWA!Holding /\ TWA!Holding' = TWA!Holding \ {t} /\ t \in TWA!InCS
      /\ \A v \in TWA!Holding' : /\ tx'[v] = tx[v]
                                 /\ TWA!TWA_DIFF(tx[v], grant') = TWA!TWA_DIFF(tx[v], grant) - 1
  BY ReleaseWrite
<1>3. Cardinality(TWA!Holding') = n - 1 /\ n > 0
  BY <1>1, <1>2, TWAHolding
<1>4. /\ q \in [1 .. n -> TWA!Holding]
      /\ \A i \in 1 .. n : TWA!TWA_DIFF(tx[q[i]], grant) = i - 1
  BY <1>1, TWAIsQueueNow
<1>5. q[1] = t
  <2>1. q[1] \in TWA!Holding /\ TWA!TWA_DIFF(tx[q[1]], grant) = 0
    BY <1>3, <1>4
  <2>2. tx[q[1]] \in TWA!Counter /\ grant \in TWA!Counter
    BY <2>1, TWAHolding DEF TWA!TypeOK
  <2>3. tx[q[1]] = grant /\ tx[t] = grant
    BY <1>2, <2>1, <2>2, CounterDiff, TicketInvNow
  <2>. QED  BY <1>2, <2>1, <2>3, TicketInvNow
<1>6. PICK r : r = [i \in 1 .. n - 1 |-> q[i + 1]]
  BY Zenon
<1>7. q # <<>> /\ Head(q) = q[1] /\ r = Tail(q)
  <2>1. n \in Nat \ {0}
    BY <1>3
  <2>2. q \in [1 .. n -> TWA!Holding]
    BY <1>4
  <2>. QED  BY <1>6, <2>1, <2>2, LineLeft, Zenon
<1>8. \A i \in 2 .. n : q[i] \in TWA!Holding'
  <2>. SUFFICES ASSUME NEW i \in 2 .. n PROVE q[i] \in TWA!Holding'
    OBVIOUS
  <2>1. TWA!TWA_DIFF(tx[q[i]], grant) # TWA!TWA_DIFF(tx[q[1]], grant) /\ q[i] \in TWA!Holding
    BY <1>3, <1>4
  <2>. QED  BY <1>2, <1>5, <2>1
<1>9. r \in [1 .. n - 1 -> TWA!Holding']
  BY <1>6, <1>8
<1>10. \A i \in 1 .. n - 1 : TWA!TWA_DIFF(tx'[r[i]], grant') = i - 1
  <2>. SUFFICES ASSUME NEW i \in 1 .. n - 1 PROVE TWA!TWA_DIFF(tx'[r[i]], grant') = i - 1
    OBVIOUS
  <2>1. r[i] = q[i + 1] /\ i + 1 \in 2 .. n /\ i + 1 \in 1 .. n
    BY <1>6
  <2>2. TWA!TWA_DIFF(tx[q[i + 1]], grant) = (i + 1) - 1 /\ q[i + 1] \in TWA!Holding'
    BY <1>4, <1>8, <2>1
  <2>. QED  BY <1>2, <2>1, <2>2
<1>11. TWA!IsQueue(r)' /\ TWA!HasQueue'
  BY <1>3, <1>9, <1>10, TWAIsQueueNext
<1>. QED  BY <1>3, <1>4, <1>5, <1>7, <1>11

\* The other steps leave the queue alone.
LEMMA TWAStay ==
    ASSUME NEW q, TWA!IsQueue(q), TWA!Holding' = TWA!Holding, UNCHANGED <<tx, grant>>
    PROVE  TWA!IsQueue(q)' /\ TWA!HasQueue'
<1>1. PICK n \in Nat : n = Cardinality(TWA!Holding)
  BY TWAHolding
<1>2. /\ q \in [1 .. n -> TWA!Holding]
      /\ \A i \in 1 .. n : TWA!TWA_DIFF(tx[q[i]], grant) = i - 1
  BY <1>1, TWAIsQueueNow
<1>. QED  BY <1>1, <1>2, TWAIsQueueNext

LEMMA TWAOneQueue ==
    ASSUME TWA!TypeOK, TWA!TicketInv, TWA!HasQueue PROVE TWA!OneQueue
<1>1. PICK n \in Nat : n = Cardinality(TWA!Holding)
  BY TWAHolding
<1>2. ASSUME NEW p, NEW q, TWA!IsQueue(p), TWA!IsQueue(q) PROVE p = q
  <2>1. /\ p \in [1 .. n -> TWA!Holding] /\ q \in [1 .. n -> TWA!Holding]
        /\ \A i \in 1 .. n : /\ TWA!TWA_DIFF(tx[p[i]], grant) = i - 1
                             /\ TWA!TWA_DIFF(tx[q[i]], grant) = i - 1
    BY <1>1, <1>2, TWAIsQueueNow
  <2>2. ASSUME NEW i \in 1 .. n PROVE p[i] = q[i]
    <3>1. /\ p[i] \in TWA!Holding /\ q[i] \in TWA!Holding
          /\ TWA!TWA_DIFF(tx[p[i]], grant) = TWA!TWA_DIFF(tx[q[i]], grant)
      BY <2>1
    <3>2. tx[p[i]] \in TWA!Counter /\ tx[q[i]] \in TWA!Counter /\ grant \in TWA!Counter
      BY <3>1, TWAHolding DEF TWA!TypeOK
    <3>3. tx[p[i]] = tx[q[i]]
      BY <3>1, <3>2, SameDistance
    <3>. QED  BY <3>1, <3>3, TicketInvNow
  <2>. QED  BY <2>1, <2>2
<1>3. TWA!IsQueue(TWA!Queue)
  <2>1. \A i \in 1 .. n : \E t \in TWA!Holding : TWA!TWA_DIFF(tx[t], grant) = i - 1
    BY <1>1, TWAIsQueueNow DEF TWA!HasQueue
  <2>. DEFINE Nth(i) == CHOOSE t \in TWA!Holding : TWA!TWA_DIFF(tx[t], grant) = i - 1
  <2>2. \A i \in 1 .. n : Nth(i) \in TWA!Holding /\ TWA!TWA_DIFF(tx[Nth(i)], grant) = i - 1
    BY <2>1
  <2>3. TWA!Queue = [i \in 1 .. n |-> Nth(i)]
    BY <1>1, TWACardinality DEF TWA!Queue
  <2>. HIDE DEF Nth
  <2>. QED  BY <1>1, <2>2, <2>3, TWACardinality DEF TWA!IsQueue
<1>. QED  BY <1>2, <1>3 DEF TWA!OneQueue

\* twalock.h serves in the order of the tickets, whether the threads wait at the grant word
\* or at the array: the outstanding tickets from the grant on are the queue of a
\* first-come-first-served lock, for any number of threads below the number of counter
\* values, any size of the array, and wherever the counters wrap.
THEOREM TWALockRefinesFifoLock ==
    TWA!Spec => TWA!Fifo!Safety
<1>1. TWA!Init => TWA!TWAInv
  BY TWAInvInit
<1>2. TWA!TWAInv /\ [TWA!Next]_TWA!vars => TWA!TWAInv'
  BY TWAInvStep
<1>3. TWA!TWAInv /\ TWA!HasQueue => TWA!OneQueue
  BY TWAOneQueue DEF TWA!TWAInv
<1>4. TWA!Init => TWA!HasQueue /\ TWA!Fifo!Init
  <2>. SUFFICES ASSUME TWA!Init PROVE TWA!HasQueue /\ TWA!Fifo!Init
    OBVIOUS
  <2>1. TWA!Holding = {} /\ TWA!InCS = {}
    BY DEF TWA!Init, TWA!Holding, TWA!InCS, TWA!At
  <2>2. TWA!Cardinality(TWA!Holding) = 0
    BY <2>1, TWACardinality, TWAHolding
  <2>3. <<>> \in [1 .. 0 -> TWA!Holding] /\ TWA!IsQueue(<<>>)
    BY <2>2 DEF TWA!IsQueue
  <2>4. TWA!HasQueue
    BY <2>2, <2>3, Zenon DEF TWA!HasQueue
  <2>5. TWA!Queue = <<>>
    BY <1>1, <1>3, <2>2, <2>3, <2>4, Zenon DEF TWA!OneQueue
  <2>. QED  BY <2>1, <2>4, <2>5 DEF TWA!Fifo!Init
<1>5. ASSUME NEW t \in CounterThread, TWA!TypeOK,
             \/ TWA!acquire_read_grant(t) \/ TWA!acquire_await(t)
             \/ TWA!slowpath_read_array(t) \/ TWA!slowpath_read_grant(t)
             \/ TWA!slowpath_await_neq(t) \/ TWA!release_read(t) \/ TWA!release_notify(t)
      PROVE  /\ TWA!Holding' = TWA!Holding /\ UNCHANGED <<tx, grant>>
             /\ \/ TWA!InCS' = TWA!InCS
                \/ /\ t \in TWA!Holding \ TWA!InCS /\ t \in TWA!InCS'
                   /\ TWA!TWA_DIFF(tx[t], grant) = 0 \/ grant = tx[t]
  BY <1>5 DEF TWA!acquire_read_grant, TWA!acquire_await, TWA!slowpath_read_array,
        TWA!slowpath_read_grant, TWA!slowpath_await_neq, TWA!release_read,
        TWA!release_notify, TWA!Holding, TWA!InCS, TWA!TypeOK, TWA!Step, TWA!Goto, TWA!At
<1>6. ASSUME UNCHANGED TWA!vars
      PROVE  /\ TWA!Holding' = TWA!Holding /\ UNCHANGED <<tx, grant>>
             /\ TWA!InCS' = TWA!InCS
  BY <1>6 DEF TWA!vars, TWA!Holding, TWA!InCS, TWA!At
<1>7. TWA!TWAInv /\ TWA!HasQueue /\ [TWA!Next]_TWA!vars => TWA!HasQueue'
  <2>. SUFFICES ASSUME TWA!TWAInv, TWA!HasQueue, [TWA!Next]_TWA!vars PROVE TWA!HasQueue'
    OBVIOUS
  <2>1. PICK q : TWA!IsQueue(q)
    BY DEF TWA!HasQueue
  <2>2. TWA!TypeOK /\ TWA!TicketInv
    BY DEF TWA!TWAInv
  <2>. QED  BY <1>5, <1>6, <2>1, <2>2, TWAJoin, TWALeave, TWAStay DEF TWA!Next, TWA!Progress
<1>8. TWA!TWAInv /\ TWA!OneQueue /\ TWA!OneQueue' /\ [TWA!Next]_TWA!vars
        => [TWA!Fifo!Next]_<<TWA!Queue, TWA!InCS # {}>>
  <2>. SUFFICES ASSUME TWA!TWAInv, TWA!OneQueue, TWA!OneQueue', [TWA!Next]_TWA!vars
                PROVE  [TWA!Fifo!Next]_<<TWA!Queue, TWA!InCS # {}>>
    OBVIOUS
  <2>0. TWA!TypeOK /\ TWA!TicketInv
    BY DEF TWA!TWAInv
  <2>1. PICK q : q = TWA!Queue
    OBVIOUS
  <2>2. TWA!IsQueue(q)
    BY <2>1 DEF TWA!OneQueue
  <2>3. ASSUME NEW r, TWA!IsQueue(r)' PROVE TWA!Queue' = r
    BY <2>3, Zenon DEF TWA!OneQueue, TWA!IsQueue
  <2>4. ASSUME TWA!Holding' = TWA!Holding, UNCHANGED <<tx, grant>> PROVE TWA!Queue' = q
    BY <2>2, <2>3, <2>4, TWAStay
  <2>5. ASSUME NEW t \in CounterThread, TWA!acquire_get_inc(t) PROVE TWA!Fifo!Arrive(t)
    <3>1. TWA!Queue' = Append(TWA!Queue, t)
      BY <2>0, <2>1, <2>2, <2>3, <2>5, TWAJoin, Zenon
    <3>2. TWA!InCS' = TWA!InCS /\ t \notin TWA!Holding
      BY <2>0, <2>5 DEF TWA!acquire_get_inc, TWA!InCS, TWA!Holding, TWA!TypeOK, TWA!Step,
                        TWA!Goto, TWA!At
    <3>3. ~TWA!Fifo!Queued(t)
      BY <2>1, <2>2, <3>2 DEF TWA!Fifo!Queued, TWA!IsQueue
    <3>. QED  BY <3>1, <3>2, <3>3 DEF TWA!Fifo!Arrive
  <2>6. ASSUME NEW t \in CounterThread, TWA!tryacquire(t) PROVE TWA!Fifo!TryEnter(t)
    <3>1. ticket = grant /\ t \in TWA!InCS'
      BY <2>0, <2>6 DEF TWA!tryacquire, TWA!InCS, TWA!TypeOK, TWA!Step, TWA!Goto, TWA!At
    <3>2. TWA!Queue' = Append(q, t) /\ q = <<>>
      <4>1. TWA!IsQueue(Append(q, t))'
        BY <2>0, <2>2, <2>6, TWAJoin
      <4>2. q = <<>>
        BY <2>0, <2>2, <3>1, TWAEmpty
      <4>. QED  BY <2>3, <4>1, <4>2
    <3>3. Append(<<>>, t) = <<t>>
      OBVIOUS
    <3>. QED  BY <2>1, <3>1, <3>2, <3>3 DEF TWA!Fifo!TryEnter
  <2>7. ASSUME NEW t \in TWA!Holding \ TWA!InCS, t \in TWA!InCS', TWA!Queue' = q,
               TWA!TWA_DIFF(tx[t], grant) = 0 \/ grant = tx[t]
        PROVE  TWA!Fifo!Enter(t)
    <3>1. /\ t \in CounterThread /\ grant \in TWA!Counter
          /\ \A v \in CounterThread : tx[v] \in TWA!Counter
          /\ TWA!InCS \subseteq TWA!Holding /\ TWA!Holding \subseteq CounterThread
      BY <2>0, <2>7 DEF TWA!Holding, TWA!InCS, TWA!TypeOK, TWA!At
    <3>2. tx[t] = grant
      BY <2>7, <3>1, CounterDiff
    <3>3. TWA!InCS = {}
      BY <2>0, <2>7, <3>1, <3>2, TicketInvNow
    <3>4. PICK n \in Nat : n = Cardinality(TWA!Holding) /\ n > 0
      BY <2>7, TWAHolding
    <3>5. q \in [1 .. n -> TWA!Holding] /\ TWA!TWA_DIFF(tx[q[1]], grant) = 1 - 1
      BY <2>2, <3>4, TWAIsQueueNow
    <3>6. q[1] \in TWA!Holding /\ tx[q[1]] = grant
      BY <3>1, <3>4, <3>5, CounterDiff
    <3>7. q[1] = t
      BY <2>0, <2>7, <3>2, <3>6, TicketInvNow
    <3>8. TWA!Fifo!Queued(t) /\ t = Head(TWA!Queue)
      BY <2>1, <3>4, <3>5, <3>7, LineLeft DEF TWA!Fifo!Queued
    <3>. QED  BY <2>1, <2>7, <3>3, <3>8 DEF TWA!Fifo!Enter
  <2>8. ASSUME NEW t \in CounterThread, TWA!release_write(t) PROVE TWA!Fifo!Leave(t)
    <3>1. /\ q # <<>> /\ Head(q) = t /\ q[1] = t /\ 1 \in DOMAIN q
          /\ TWA!IsQueue(Tail(q))'
      BY <2>0, <2>2, <2>8, TWALeave
    <3>2. TWA!Queue' = Tail(TWA!Queue) /\ TWA!Fifo!Queued(t)
      BY <2>1, <2>3, <3>1, Zenon DEF TWA!Fifo!Queued
    <3>3. t \in TWA!InCS /\ TWA!InCS' = {}
      BY <2>0, <2>8, ReleaseWrite
    <3>. QED  BY <2>1, <3>1, <3>2, <3>3 DEF TWA!Fifo!Leave
  <2>9. ASSUME NEW t \in CounterThread,
               \/ TWA!acquire_read_grant(t) \/ TWA!acquire_await(t)
               \/ TWA!slowpath_read_array(t) \/ TWA!slowpath_read_grant(t)
               \/ TWA!slowpath_await_neq(t) \/ TWA!release_read(t) \/ TWA!release_notify(t)
        PROVE  TWA!Fifo!Enter(t) \/ UNCHANGED <<TWA!Queue, TWA!InCS # {}>>
    <3>1. TWA!Queue' = q
      BY <1>5, <2>0, <2>4, <2>9
    <3>2. TWA!InCS' = TWA!InCS \/ TWA!Fifo!Enter(t)
      BY <1>5, <2>0, <2>7, <2>9, <3>1
    <3>. QED  BY <2>1, <3>1, <3>2
  <2>10. CASE UNCHANGED TWA!vars
    BY <1>6, <2>1, <2>4, <2>10
  <2>. QED
    BY <2>5, <2>6, <2>8, <2>9, <2>10 DEF TWA!Next, TWA!Progress, TWA!Fifo!Next
<1>. QED
  BY <1>1, <1>2, <1>3, <1>4, <1>7, <1>8, PTL DEF TWA!Spec, TWA!Fifo!Safety, TWA!Fifo!vars

-----------------------------------------------------------------------------
Arr == INSTANCE ArrayLock WITH tail <- last

\* Remainders: of a sum of two numbers, and of a last that wraps at a multiple of the
\* number of flags.
LEMMA ModOfSmall ==
    ASSUME NEW a \in Nat, a < FlagsLen PROVE a % FlagsLen = a
BY CounterParameters

LEMMA ModOfMultiple ==
    ASSUME NEW a \in Nat, a < FlagsLen, NEW q \in Nat
    PROVE  (q * FlagsLen + a) % FlagsLen = a
BY CounterParameters, SMTT(30)

LEMMA ModOfSum ==
    ASSUME NEW a \in Arr!Slot, NEW b \in Nat, b <= FlagsLen
    PROVE  (a + b) % FlagsLen = IF a + b < FlagsLen THEN a + b ELSE (a + b) - FlagsLen
<1>1. CASE a + b < FlagsLen
  BY <1>1, ModOfSmall DEF Arr!Slot
<1>2. CASE a + b >= FlagsLen
  <2>1. (a + b) - FlagsLen \in Nat /\ (a + b) - FlagsLen < FlagsLen
    BY <1>2, CounterParameters DEF Arr!Slot
  <2>2. (1 * FlagsLen + ((a + b) - FlagsLen)) % FlagsLen = (a + b) - FlagsLen
    BY <2>1, ModOfMultiple
  <2>3. 1 * FlagsLen + ((a + b) - FlagsLen) = a + b
    BY CounterParameters DEF Arr!Slot
  <2>. QED  BY <1>2, <2>2, <2>3, CounterParameters DEF Arr!Slot
<1>. QED  BY <1>1, <1>2, CounterParameters DEF Arr!Slot

LEMMA TailSlot ==
    ASSUME NEW n \in 0 .. TailMod - 1
    PROVE  /\ n % FlagsLen \in Arr!Slot
           /\ ((n + 1) % TailMod) % FlagsLen = ((n % FlagsLen) + 1) % FlagsLen
<1>. DEFINE r == n % FlagsLen
            q == n \div FlagsLen
<1>1. r \in 0 .. FlagsLen - 1 /\ q \in Nat /\ n = FlagsLen * q + r
  BY CounterParameters
<1>2. PICK m \in 1 .. TailMod : TailMod = m * FlagsLen
  BY CounterParameters
<1>. HIDE DEF r, q
<1>3. FlagsLen * q = q * FlagsLen
  BY <1>1, CounterParameters
<1>4. CASE r + 1 < FlagsLen
  <2>1. n + 1 = q * FlagsLen + (r + 1)
    BY <1>1, <1>3, CounterParameters
  <2>2. (n + 1) % FlagsLen = r + 1
    BY <1>1, <1>4, <2>1, ModOfMultiple
  <2>3. (r + 1) % FlagsLen = r + 1
    BY <1>1, <1>4, ModOfSmall
  <2>4. n + 1 # TailMod
    <3>1. (m * FlagsLen + 0) % FlagsLen = 0
      <4>1. m \in Nat /\ 0 \in Nat /\ 0 < FlagsLen
        BY <1>2, CounterParameters
      <4>. QED  BY <4>1, ModOfMultiple
    <3>2. m * FlagsLen + 0 = TailMod
      BY <1>2, CounterParameters
    <3>. QED  BY <1>1, <2>2, <3>1, <3>2
  <2>5. (n + 1) % TailMod = n + 1
    BY <2>4, CounterParameters
  <2>. QED  BY <1>1, <2>2, <2>3, <2>5, CounterParameters DEF r, Arr!Slot
<1>5. CASE r + 1 = FlagsLen
  <2>1. n + 1 = (q + 1) * FlagsLen + 0
    <3>1. (q + 1) * FlagsLen = q * FlagsLen + FlagsLen
      BY <1>1, CounterParameters
    <3>2. q * FlagsLen \in Nat
      BY <1>1, CounterParameters
    <3>. QED  BY <1>1, <1>3, <1>5, <3>1, <3>2, CounterParameters
  <2>2. (n + 1) % FlagsLen = 0
    BY <1>1, <2>1, ModOfMultiple, CounterParameters
  <2>3. (r + 1) % FlagsLen = 0
    <3>1. (1 * FlagsLen + 0) % FlagsLen = 0
      BY ModOfMultiple, CounterParameters
    <3>2. r + 1 = 1 * FlagsLen + 0
      BY <1>5, CounterParameters
    <3>. QED  BY <3>1, <3>2
  <2>4. 0 % FlagsLen = 0
    BY ModOfSmall, CounterParameters
  <2>5. (n + 1) % TailMod = IF n + 1 = TailMod THEN 0 ELSE n + 1
    BY CounterParameters
  <2>. QED  BY <1>1, <2>2, <2>3, <2>4, <2>5 DEF r, Arr!Slot
<1>. QED  BY <1>1, <1>4, <1>5, CounterParameters

\* How far a slot is past the one that is served.
LEMMA SlotDiffProps ==
    ASSUME NEW i \in Arr!Slot, NEW j \in Arr!Slot
    PROVE  /\ Arr!SlotDiff(j, i) \in Nat
           /\ Arr!SlotDiff(i, i) = 0
           /\ (i + 1) % FlagsLen \in Arr!Slot
           /\ j # i => Arr!SlotDiff(j, (i + 1) % FlagsLen) = Arr!SlotDiff(j, i) - 1
           /\ \A n \in Nat : n < FlagsLen =>
                 /\ (i + n) % FlagsLen \in Arr!Slot
                 /\ Arr!SlotDiff((i + n) % FlagsLen, i) = n
                 /\ (((i + n) % FlagsLen) + 1) % FlagsLen = (i + (n + 1)) % FlagsLen
                 /\ (i + (n + 1)) % FlagsLen = (((i + 1) % FlagsLen) + n) % FlagsLen
<1>1. /\ FlagsLen \in Nat /\ FlagsLen > 0 /\ i \in Nat /\ i < FlagsLen
      /\ j \in Nat /\ j < FlagsLen /\ 1 <= FlagsLen
  BY CounterParameters DEF Arr!Slot
<1>2. (i + 1) % FlagsLen = IF i + 1 < FlagsLen THEN i + 1 ELSE 0
  BY <1>1, ModOfSum
<1>3. ASSUME NEW n \in Nat, n < FlagsLen
      PROVE  /\ (i + n) % FlagsLen \in Arr!Slot
             /\ Arr!SlotDiff((i + n) % FlagsLen, i) = n
             /\ (((i + n) % FlagsLen) + 1) % FlagsLen = (i + (n + 1)) % FlagsLen
             /\ (i + (n + 1)) % FlagsLen = (((i + 1) % FlagsLen) + n) % FlagsLen
  <2>1. (i + n) % FlagsLen = IF i + n < FlagsLen THEN i + n ELSE (i + n) - FlagsLen
    BY <1>1, <1>3, ModOfSum
  <2>2. (i + n) % FlagsLen \in Arr!Slot
    BY <1>1, <1>3, <2>1 DEF Arr!Slot
  <2>3. (((i + n) % FlagsLen) + 1) % FlagsLen =
           IF ((i + n) % FlagsLen) + 1 < FlagsLen THEN ((i + n) % FlagsLen) + 1
                                                ELSE (((i + n) % FlagsLen) + 1) - FlagsLen
    BY <1>1, <2>2, ModOfSum
  <2>4. n + 1 \in Nat /\ n + 1 <= FlagsLen
    BY <1>1, <1>3
  <2>5. (i + (n + 1)) % FlagsLen =
           IF i + (n + 1) < FlagsLen THEN i + (n + 1) ELSE (i + (n + 1)) - FlagsLen
    BY <1>1, <2>4, ModOfSum
  <2>6. (i + 1) % FlagsLen \in Arr!Slot
    BY <1>1, <1>2 DEF Arr!Slot
  <2>7. (((i + 1) % FlagsLen) + n) % FlagsLen =
           IF ((i + 1) % FlagsLen) + n < FlagsLen THEN ((i + 1) % FlagsLen) + n
                                                ELSE (((i + 1) % FlagsLen) + n) - FlagsLen
    BY <1>1, <1>3, <2>6, ModOfSum
  <2>8. Arr!SlotDiff((i + n) % FlagsLen, i) = n
    BY <1>1, <1>3, <2>1 DEF Arr!SlotDiff
  <2>9. (((i + n) % FlagsLen) + 1) % FlagsLen = (i + (n + 1)) % FlagsLen
    BY <1>1, <1>3, <2>1, <2>3, <2>5
  <2>10. (i + (n + 1)) % FlagsLen = (((i + 1) % FlagsLen) + n) % FlagsLen
    BY <1>1, <1>2, <1>3, <2>5, <2>7
  <2>. QED  BY <2>2, <2>8, <2>9, <2>10
<1>4. /\ Arr!SlotDiff(j, i) \in Nat /\ Arr!SlotDiff(i, i) = 0
      /\ (i + 1) % FlagsLen \in Arr!Slot
      /\ j # i => Arr!SlotDiff(j, (i + 1) % FlagsLen) = Arr!SlotDiff(j, i) - 1
  BY <1>1, <1>2 DEF Arr!SlotDiff, Arr!Slot
<1>. QED  BY <1>3, <1>4, Zenon

\* the arraylock counts with the same Cardinality
LEMMA ArrayCardinality == \A S : Arr!Cardinality(S) = Cardinality(S)
BY DEF Cardinality, IsFiniteSet, Arr!Cardinality, Arr!IsFiniteSet

LEMMA ArrayMembers ==
    /\ IsFiniteSet(Arr!Members) /\ Cardinality(Arr!Members) \in Nat
    /\ Cardinality(Arr!Members) <= FlagsLen
    /\ \A t \in Thread \ Arr!Members :
          /\ Cardinality(Arr!Members \cup {t}) = Cardinality(Arr!Members) + 1
          /\ Cardinality(Arr!Members) < FlagsLen
    /\ \A t \in Arr!Members :
          Cardinality(Arr!Members \ {t}) = Cardinality(Arr!Members) - 1
<1>1. Arr!Members \subseteq Thread
  BY DEF Arr!Members, Arr!InCS, Arr!Waiting
<1>2. /\ IsFiniteSet(Arr!Members) /\ Cardinality(Arr!Members) \in Nat
      /\ Cardinality(Arr!Members) <= Cardinality(Thread) /\ Cardinality(Thread) \in Nat
  BY <1>1, CounterParameters, FS_Subset, FS_CardinalityType
<1>3. ASSUME NEW t \in Thread \ Arr!Members
      PROVE  /\ Cardinality(Arr!Members \cup {t}) = Cardinality(Arr!Members) + 1
             /\ Cardinality(Arr!Members) < FlagsLen
  <2>1. Cardinality(Arr!Members \cup {t}) = Cardinality(Arr!Members) + 1
    BY <1>2, FS_AddElement
  <2>2. Arr!Members \cup {t} \subseteq Thread
    BY <1>1
  <2>3. Cardinality(Arr!Members \cup {t}) <= Cardinality(Thread)
    BY <2>2, CounterParameters, FS_Subset
  <2>. QED  BY <1>2, <2>1, <2>3, CounterParameters
<1>4. ASSUME NEW t \in Arr!Members
      PROVE  Cardinality(Arr!Members \ {t}) = Cardinality(Arr!Members) - 1
  BY <1>2, FS_RemoveElement, Zenon
<1>. QED  BY <1>2, <1>3, <1>4, CounterParameters

LEMMA ArrayInvInit == ASSUME Arr!Init PROVE Arr!ArrayInv
<1>. USE DEF Arr!Init
<1>1. Arr!TypeOK
  BY CounterParameters DEF Arr!TypeOK, Arr!Slot
<1>2. Arr!Members = {} /\ Arr!InCS = {}
  BY DEF Arr!Members, Arr!InCS, Arr!Waiting, Arr!At
<1>3. 0 \in Arr!Slot /\ Cardinality(Arr!Members) = 0
  BY <1>2, CounterParameters, FS_EmptySet DEF Arr!Slot
<1>4. Arr!ServingFrom(0)
  <2>1. last % FlagsLen = (0 + Cardinality(Arr!Members)) % FlagsLen
    BY <1>3
  <2>2. \A j \in Arr!Slot : flags[j] = 1 <=> j = 0 /\ \A t \in Thread : pc[t] # "pass"
    OBVIOUS
  <2>. QED  BY <1>2, <2>1, <2>2, ArrayCardinality DEF Arr!ServingFrom
<1>. QED  BY <1>1, <1>3, <1>4 DEF Arr!ArrayInv

LEMMA ArrayTypeStep == ASSUME Arr!TypeOK, [Arr!Next]_Arr!vars PROVE Arr!TypeOK'
<1>. USE DEF Arr!TypeOK, Arr!Step, Arr!Goto
<1>1. ASSUME NEW t \in Thread, Arr!acquire_get_inc(t) PROVE Arr!TypeOK'
  <2>1. last % FlagsLen \in Arr!Slot /\ (last + 1) % TailMod \in 0 .. TailMod - 1
    <3>1. last \in 0 .. TailMod - 1 /\ last % FlagsLen \in Arr!Slot
      BY TailSlot
    <3>2. (last + 1) % TailMod \in 0 .. TailMod - 1
      BY ONLY <3>1, CounterParameters
    <3>. QED  BY <3>1, <3>2
  <2>. QED  BY <1>1, <2>1 DEF Arr!acquire_get_inc
<1>2. ASSUME NEW t \in Thread, Arr!acquire_await(t) PROVE Arr!TypeOK'
  BY <1>2 DEF Arr!acquire_await
<1>3. ASSUME NEW t \in Thread, Arr!release_clear_own(t) PROVE Arr!TypeOK'
  BY <1>3 DEF Arr!release_clear_own
<1>4. ASSUME NEW t \in Thread, Arr!release_set_next(t) PROVE Arr!TypeOK'
  <2>1. 0 \in Arr!Slot
    BY CounterParameters DEF Arr!Slot
  <2>. QED  BY <1>4, <2>1, Zenon DEF Arr!release_set_next
<1>5. CASE UNCHANGED Arr!vars
  BY <1>5 DEF Arr!vars
<1>. QED  BY <1>1, <1>2, <1>3, <1>4, <1>5 DEF Arr!Next, Arr!Progress

LEMMA ServingFromPrimed ==
    ASSUME NEW i \in Arr!Slot,
           \A t \in Arr!Members' : Arr!SlotDiff(slot'[t], i) < Cardinality(Arr!Members'),
           \A t, v \in Arr!Members' : slot'[t] = slot'[v] => t = v,
           last' % FlagsLen = (i + Cardinality(Arr!Members')) % FlagsLen,
           \A t \in Arr!InCS' : slot'[t] = i,
           \A j \in Arr!Slot : flags'[j] = 1 <=> j = i /\ \A t \in Thread : pc'[t] # "pass"
    PROVE  Arr!ServingFrom(i)'
BY ArrayCardinality DEF Arr!ServingFrom, Arr!SlotDiff, Arr!Slot

\* Taking a slot extends the served slots by one, entering changes none of them, and the
\* two writes of release move the one that is served.
LEMMA ArrayServing ==
    ASSUME Arr!TypeOK, Arr!TypeOK', NEW i \in Arr!Slot, Arr!ServingFrom(i)
    PROVE  /\ \A t \in Thread :
                 /\ \/ Arr!acquire_get_inc(t) \/ Arr!acquire_await(t)
                    \/ Arr!release_clear_own(t)
                    => Arr!ServingFrom(i)'
                 /\ Arr!release_set_next(t) => Arr!ServingFrom((i + 1) % FlagsLen)'
           /\ UNCHANGED Arr!vars => Arr!ServingFrom(i)'
<1>. USE DEF Arr!ServingFrom
<1>1. Arr!TypeOK /\ Arr!TypeOK'
  OBVIOUS
<1>2. Arr!ServingFrom(i)
  OBVIOUS
<1>3. \A v \in Arr!Members : slot[v] \in Arr!Slot
  BY <1>1 DEF Arr!TypeOK, Arr!Members, Arr!InCS, Arr!Waiting
<1>4. ASSUME NEW t \in Thread, Arr!acquire_get_inc(t) PROVE Arr!ServingFrom(i)'
  <2>1. /\ t \notin Arr!Members /\ Arr!Members' = Arr!Members \cup {t}
        /\ Arr!InCS' = Arr!InCS /\ t \notin Arr!InCS /\ Arr!InCS \subseteq Arr!Members
    BY <1>1, <1>4 DEF Arr!acquire_get_inc, Arr!Members, Arr!InCS, Arr!Waiting, Arr!At,
          Arr!Step, Arr!Goto, Arr!TypeOK
  <2>2. /\ slot'[t] = last % FlagsLen /\ last' = (last + 1) % TailMod /\ flags' = flags
        /\ \A v \in Thread \ {t} : slot'[v] = slot[v]
        /\ (\A v \in Thread : pc[v] # "pass") <=> (\A v \in Thread : pc'[v] # "pass")
    BY <1>1, <1>4 DEF Arr!acquire_get_inc, Arr!Step, Arr!Goto, Arr!TypeOK
  <2>3. \A v \in Arr!Members : v # t /\ slot'[v] = slot[v]
    BY <2>1, <2>2 DEF Arr!Members, Arr!InCS, Arr!Waiting
  <2>. DEFINE n == Cardinality(Arr!Members)
  <2>4. n \in Nat /\ n < FlagsLen /\ Cardinality(Arr!Members') = n + 1
    BY <2>1, ArrayMembers
  <2>. HIDE DEF n
  <2>5. /\ slot'[t] = (i + n) % FlagsLen /\ slot'[t] \in Arr!Slot
        /\ Arr!SlotDiff(slot'[t], i) = n
        /\ (slot'[t] + 1) % FlagsLen = (i + (n + 1)) % FlagsLen
    <3>1. slot'[t] = (i + n) % FlagsLen
      BY <1>2, <2>2, ArrayCardinality DEF n
    <3>. QED  BY <2>4, <3>1, SlotDiffProps
  <2>6. \A v \in Arr!Members : Arr!SlotDiff(slot'[v], i) \in Nat
                               /\ Arr!SlotDiff(slot'[v], i) < n
    <3>1. \A v \in Arr!Members : Arr!SlotDiff(slot[v], i) < n
      BY <1>2, ArrayCardinality DEF n
    <3>2. \A v \in Arr!Members : Arr!SlotDiff(slot[v], i) \in Nat
      BY <1>3, SlotDiffProps, Zenon
    <3>. QED  BY <2>3, <3>1, <3>2
  <2>7. \A v \in Arr!Members' : Arr!SlotDiff(slot'[v], i) < n + 1
    BY <2>1, <2>4, <2>5, <2>6
  <2>8. \A v, w \in Arr!Members' : slot'[v] = slot'[w] => v = w
    <3>1. \A v \in Arr!Members : slot'[v] # slot'[t]
      BY <2>4, <2>5, <2>6
    <3>. QED  BY <1>2, <2>1, <2>3, <3>1
  <2>9. last' % FlagsLen = (i + (n + 1)) % FlagsLen
    <3>1. last' % FlagsLen = ((last % FlagsLen) + 1) % FlagsLen
      BY <1>1, <2>2, TailSlot DEF Arr!TypeOK
    <3>. QED  BY <2>2, <2>5, <3>1
  <2>10. \A v \in Arr!InCS' : slot'[v] = i
    BY <1>2, <2>1, <2>3
  <2>11. \A j \in Arr!Slot : flags'[j] = 1 <=> j = i /\ \A v \in Thread : pc'[v] # "pass"
    BY <1>2, <2>2
  <2>. QED  BY <2>4, <2>7, <2>8, <2>9, <2>10, <2>11, ServingFromPrimed
<1>5. ASSUME NEW t \in Thread, Arr!acquire_await(t) PROVE Arr!ServingFrom(i)'
  <2>1. /\ Arr!Members' = Arr!Members /\ Arr!InCS' = Arr!InCS \cup {t}
        /\ flags[slot[t]] = 1 /\ slot[t] \in Arr!Slot
        /\ UNCHANGED <<last, flags, slot>>
        /\ (\A v \in Thread : pc[v] # "pass") <=> (\A v \in Thread : pc'[v] # "pass")
    BY <1>1, <1>5 DEF Arr!acquire_await, Arr!Members, Arr!InCS, Arr!Waiting, Arr!At,
          Arr!Step, Arr!Goto, Arr!TypeOK
  <2>2. slot[t] = i
    BY <1>2, <2>1
  <2>. QED  BY <1>2, <2>1, <2>2 DEF Arr!SlotDiff
<1>6. ASSUME NEW t \in Thread, Arr!release_clear_own(t) PROVE Arr!ServingFrom(i)'
  <2>1. /\ Arr!Members' = Arr!Members /\ Arr!InCS' = Arr!InCS /\ t \in Arr!InCS
        /\ UNCHANGED <<last, slot>> /\ pc'[t] = "pass"
        /\ flags' = [flags EXCEPT ![slot[t]] = 0]
    BY <1>1, <1>6 DEF Arr!release_clear_own, Arr!Members, Arr!InCS, Arr!Waiting, Arr!At,
          Arr!Step, Arr!Goto, Arr!TypeOK
  <2>2. slot[t] = i
    BY <1>2, <2>1
  <2>3. \A j \in Arr!Slot : flags'[j] # 1
    BY <1>1, <1>2, <2>1, <2>2 DEF Arr!TypeOK
  <2>. QED  BY <1>2, <2>1, <2>3 DEF Arr!SlotDiff
<1>7. ASSUME NEW t \in Thread, Arr!release_set_next(t)
      PROVE  Arr!ServingFrom((i + 1) % FlagsLen)'
  <2>. DEFINE s == (i + 1) % FlagsLen
              n == Cardinality(Arr!Members) - 1
  <2>1. /\ t \in Arr!Members /\ Arr!Members' = Arr!Members \ {t}
        /\ t \in Arr!InCS /\ Arr!InCS' = Arr!InCS \ {t} /\ Arr!InCS \subseteq Arr!Members
        /\ UNCHANGED last /\ pc[t] = "pass"
        /\ \A v \in Arr!Members' : slot'[v] = slot[v]
        /\ flags' = [flags EXCEPT ![(slot[t] + 1) % FlagsLen] = 1]
        /\ \A v \in Thread : pc'[v] = "pass" => v \in Arr!InCS'
    BY <1>1, <1>7 DEF Arr!release_set_next, Arr!Members, Arr!InCS, Arr!Waiting, Arr!At,
          Arr!Step, Arr!Goto, Arr!TypeOK
  <2>2. slot[t] = i /\ Arr!InCS' = {}
    BY <1>2, <2>1
  <2>3. /\ Cardinality(Arr!Members') = n /\ n \in Nat /\ n < FlagsLen
        /\ Cardinality(Arr!Members) = n + 1
    <3>1. Cardinality(Arr!Members) \in Nat /\ Cardinality(Arr!Members) <= FlagsLen
      BY ArrayMembers
    <3>2. Cardinality(Arr!Members) # 0
      BY <2>1, ArrayMembers, FS_EmptySet
    <3>. QED  BY <2>1, <3>1, <3>2, ArrayMembers, CounterParameters
  <2>4. s \in Arr!Slot /\ \A v \in Arr!Members' : /\ slot[v] \in Arr!Slot /\ slot[v] # i
                                /\ Arr!SlotDiff(slot[v], s) = Arr!SlotDiff(slot[v], i) - 1
                                /\ Arr!SlotDiff(slot[v], i) \in Nat
    BY <1>2, <1>3, <2>1, <2>2, SlotDiffProps
  <2>5. last % FlagsLen = (s + n) % FlagsLen
    <3>1. last % FlagsLen = (i + (n + 1)) % FlagsLen
      BY <1>2, <2>3, ArrayCardinality
    <3>. QED  BY <2>3, <3>1, SlotDiffProps
  <2>. HIDE DEF n, s
  <2>6. \A v \in Arr!Members' : Arr!SlotDiff(slot'[v], s) < n
    <3>1. \A v \in Arr!Members' : Arr!SlotDiff(slot[v], i) < n + 1
      BY <1>2, <2>1, <2>3, ArrayCardinality
    <3>. QED  BY <2>1, <2>3, <2>4, <3>1, SMTT(40)
  <2>7. \A v, w \in Arr!Members' : slot'[v] = slot'[w] => v = w
    BY <1>2, <2>1
  <2>8. \A j \in Arr!Slot : flags'[j] = 1 <=> j = s
    BY <1>1, <1>2, <2>1, <2>2 DEF Arr!TypeOK, s
  <2>9. \A v \in Thread : pc'[v] # "pass"
    BY <2>1, <2>2
  <2>10. Arr!ServingFrom(s)'
    BY <2>1, <2>2, <2>3, <2>5, <2>6, <2>7, <2>8, <2>9, <2>4, ServingFromPrimed, Zenon
  <2>. QED  BY <2>10 DEF s
<1>8. ASSUME UNCHANGED Arr!vars PROVE Arr!ServingFrom(i)'
  BY <1>2, <1>8 DEF Arr!vars, Arr!Members, Arr!InCS, Arr!Waiting, Arr!At, Arr!SlotDiff
<1>. HIDE DEF Arr!ServingFrom
<1>. QED  BY <1>4, <1>5, <1>6, <1>7, <1>8

LEMMA ArrayInvStep == ASSUME Arr!ArrayInv, [Arr!Next]_Arr!vars PROVE Arr!ArrayInv'
<1>1. Arr!TypeOK /\ Arr!TypeOK'
  BY ArrayTypeStep DEF Arr!ArrayInv
<1>2. PICK i \in Arr!Slot : Arr!ServingFrom(i)
  BY DEF Arr!ArrayInv
<1>3. (i + 1) % FlagsLen \in Arr!Slot
  BY SlotDiffProps
<1>4. Arr!ServingFrom(i)' \/ Arr!ServingFrom((i + 1) % FlagsLen)'
  BY <1>1, <1>2, ArrayServing DEF Arr!Next, Arr!Progress
<1>. QED  BY <1>1, <1>3, <1>4 DEF Arr!ArrayInv, Arr!Slot

LEMMA ArrayOnePermission == ASSUME Arr!ArrayInv PROVE Arr!OnePermission
<1>1. PICK i \in Arr!Slot : Arr!ServingFrom(i)
  BY DEF Arr!ArrayInv
<1>2. Cardinality({j \in Arr!Slot : flags[j] = 1}) =
        IF \E t \in Thread : pc[t] = "pass" THEN 0 ELSE 1
  <2>1. CASE \E t \in Thread : pc[t] = "pass"
    <3>1. {j \in Arr!Slot : flags[j] = 1} = {}
      BY <1>1, <2>1 DEF Arr!ServingFrom
    <3>. QED  BY <2>1, <3>1, FS_EmptySet
  <2>2. CASE \A t \in Thread : pc[t] # "pass"
    <3>1. {j \in Arr!Slot : flags[j] = 1} = {i}
      BY <1>1, <2>2 DEF Arr!ServingFrom
    <3>. QED  BY <2>2, <3>1, FS_Singleton
  <2>. QED  BY <2>1, <2>2
<1>3. \A t \in Arr!InCS : pc[t] = "cs" => flags[slot[t]] = 1
  <2>. SUFFICES ASSUME NEW t \in Arr!InCS, pc[t] = "cs" PROVE flags[slot[t]] = 1
    OBVIOUS
  <2>1. slot[t] = i /\ \A v \in Arr!InCS : v = t
    BY <1>1 DEF Arr!ServingFrom, Arr!Members
  <2>2. \A v \in Thread : pc[v] # "pass"
    BY <2>1 DEF Arr!InCS, Arr!At
  <2>. QED  BY <1>1, <2>1, <2>2 DEF Arr!ServingFrom
<1>4. \A t, v \in Arr!Members : slot[t] = slot[v] => t = v
  BY <1>1 DEF Arr!ServingFrom
<1>. QED  BY <1>2, <1>3, <1>4, ArrayCardinality, Zenon DEF Arr!OnePermission, Arr!Members

-----------------------------------------------------------------------------
\* The slot that the invariant says is served is the one the flags and the holder show.
LEMMA ArrayServed ==
    ASSUME NEW i \in Arr!Slot, Arr!ServingFrom(i) PROVE Arr!Served = i
<1>1. CASE Arr!InCS # {}
  BY <1>1 DEF Arr!ServingFrom, Arr!Served
<1>2. CASE Arr!InCS = {}
  <2>1. \A t \in Thread : pc[t] # "pass"
    BY <1>2 DEF Arr!InCS, Arr!At
  <2>2. \A j \in Arr!Slot : flags[j] = 1 <=> j = i
    BY <2>1 DEF Arr!ServingFrom
  <2>. QED  BY <1>2, <2>2 DEF Arr!Served
<1>. QED  BY <1>1, <1>2

LEMMA ArrayServingNow ==
    ASSUME NEW i \in Arr!Slot, Arr!ServingFrom(i)
    PROVE  /\ \A t \in Arr!Members : Arr!SlotDiff(slot[t], i) < Cardinality(Arr!Members)
           /\ \A t, v \in Arr!Members : slot[t] = slot[v] => t = v
           /\ last % FlagsLen = (i + Cardinality(Arr!Members)) % FlagsLen
           /\ \A t \in Arr!InCS : slot[t] = i
           /\ \A j \in Arr!Slot : flags[j] = 1 => j = i
BY ArrayCardinality DEF Arr!ServingFrom

LEMMA SameSlotDiff ==
    ASSUME NEW a \in Arr!Slot, NEW b \in Arr!Slot, NEW c \in Arr!Slot,
           Arr!SlotDiff(a, c) = Arr!SlotDiff(b, c)
    PROVE  a = b
BY CounterParameters DEF Arr!Slot, Arr!SlotDiff

LEMMA ArrayIsQueueNow ==
    ASSUME NEW i \in Arr!Slot, Arr!ServingFrom(i), NEW q, Arr!IsQueue(q),
           NEW n, n = Cardinality(Arr!Members)
    PROVE  /\ q \in [1 .. n -> Arr!Members]
           /\ \A j \in 1 .. n : Arr!SlotDiff(slot[q[j]], i) = j - 1
BY ArrayCardinality, ArrayServed DEF Arr!IsQueue

LEMMA ArrayServedNext ==
    ASSUME NEW i \in Arr!Slot, Arr!ServingFrom(i)' PROVE Arr!Served' = i
<1>1. CASE Arr!InCS' # {}
  BY <1>1 DEF Arr!ServingFrom, Arr!Served
<1>2. CASE Arr!InCS' = {}
  <2>1. \A t \in Thread : pc'[t] # "pass"
    BY <1>2 DEF Arr!InCS, Arr!At
  <2>2. \A j \in Arr!Slot : flags'[j] = 1 <=> j = i
    BY <2>1 DEF Arr!ServingFrom, Arr!Slot
  <2>. QED  BY <1>2, <2>2 DEF Arr!Served, Arr!Slot
<1>. QED  BY <1>1, <1>2

LEMMA ArrayIsQueueNext ==
    ASSUME NEW i \in Arr!Slot, Arr!ServingFrom(i)', NEW q, NEW n, n = Cardinality(Arr!Members'),
           q \in [1 .. n -> Arr!Members'],
           \A j \in 1 .. n : Arr!SlotDiff(slot'[q[j]], i) = j - 1
    PROVE  Arr!IsQueue(q)' /\ Arr!HasQueue'
<1>1. Arr!IsQueue(q)'
  BY ArrayCardinality, ArrayServedNext DEF Arr!IsQueue, Arr!SlotDiff
<1>2. q \in [1 .. Arr!Cardinality(Arr!Members') -> Arr!Members']
  BY ArrayCardinality
<1>. QED  BY <1>1, <1>2 DEF Arr!HasQueue

\* Taking a slot joins the queue at its end.
LEMMA ArrayJoin ==
    ASSUME Arr!TypeOK, NEW i \in Arr!Slot, Arr!ServingFrom(i), Arr!ServingFrom(i)',
           NEW t \in Thread, NEW q, Arr!IsQueue(q), Arr!acquire_get_inc(t)
    PROVE  Arr!IsQueue(Append(q, t))' /\ Arr!HasQueue'
<1>1. PICK n \in Nat : n = Cardinality(Arr!Members)
  BY ArrayMembers
<1>2. /\ t \notin Arr!Members /\ Arr!Members' = Arr!Members \cup {t}
      /\ slot'[t] = last % FlagsLen
      /\ \A v \in Arr!Members : v # t /\ slot'[v] = slot[v]
  BY DEF Arr!acquire_get_inc, Arr!Members, Arr!InCS, Arr!Waiting, Arr!At, Arr!Step,
         Arr!Goto,
         Arr!TypeOK
<1>3. Cardinality(Arr!Members') = n + 1 /\ n < FlagsLen
  BY <1>1, <1>2, ArrayMembers
<1>4. Arr!SlotDiff(slot'[t], i) = n
  <2>1. slot'[t] = (i + n) % FlagsLen
    BY <1>1, <1>2, ArrayServingNow
  <2>. QED  BY <1>3, <2>1, SlotDiffProps, Zenon
<1>5. /\ q \in [1 .. n -> Arr!Members]
      /\ \A j \in 1 .. n : Arr!SlotDiff(slot[q[j]], i) = j - 1
  BY <1>1, ArrayIsQueueNow
<1>6. PICK r : r = [j \in 1 .. n + 1 |-> IF j = n + 1 THEN t ELSE q[j]]
  BY Zenon
<1>7. r = Append(q, t)
  <2>1. /\ q \in [1 .. n -> Arr!Members] /\ r \in [1 .. n + 1 -> Arr!Members \cup {t}]
        /\ r[n + 1] = t /\ \A j \in 1 .. n : r[j] = q[j]
    BY <1>5, <1>6
  <2>. QED  BY <2>1, LineJoined, Zenon
<1>8. r \in [1 .. n + 1 -> Arr!Members']
  BY <1>2, <1>5, <1>6
<1>9. \A j \in 1 .. n + 1 : Arr!SlotDiff(slot'[r[j]], i) = j - 1
  <2>. SUFFICES ASSUME NEW j \in 1 .. n + 1 PROVE Arr!SlotDiff(slot'[r[j]], i) = j - 1
    OBVIOUS
  <2>1. CASE j = n + 1
    BY <1>4, <1>6, <2>1
  <2>2. CASE j \in 1 .. n
    <3>1. r[j] = q[j] /\ q[j] \in Arr!Members
      BY <1>5, <1>6, <2>2
    <3>. QED  BY <1>2, <1>5, <2>2, <3>1
  <2>. QED  BY <2>1, <2>2
<1>10. Arr!IsQueue(r)' /\ Arr!HasQueue'
  BY <1>3, <1>8, <1>9, ArrayIsQueueNext
<1>. QED  BY <1>7, <1>10

\* Raising the flag of the next slot leaves the head of the queue.
LEMMA ArrayLeave ==
    ASSUME Arr!TypeOK, NEW i \in Arr!Slot, Arr!ServingFrom(i),
           Arr!ServingFrom((i + 1) % FlagsLen)',
           NEW t \in Thread, NEW q, Arr!IsQueue(q), Arr!release_set_next(t)
    PROVE  /\ q # <<>> /\ Head(q) = t /\ q[1] = t /\ 1 \in DOMAIN q
           /\ Arr!IsQueue(Tail(q))' /\ Arr!HasQueue'
<1>1. PICK n \in Nat : n = Cardinality(Arr!Members)
  BY ArrayMembers
<1>2. /\ t \in Arr!Members /\ Arr!Members' = Arr!Members \ {t} /\ t \in Arr!InCS
      /\ \A v \in Arr!Members' : slot'[v] = slot[v]
      /\ \A v \in Arr!Members : slot[v] \in Arr!Slot
  BY DEF Arr!release_set_next, Arr!Members, Arr!InCS, Arr!Waiting, Arr!At, Arr!Step,
         Arr!Goto,
         Arr!TypeOK
<1>3. Cardinality(Arr!Members') = n - 1 /\ n > 0
  <2>1. n # 0
    BY <1>1, <1>2, ArrayMembers, FS_EmptySet
  <2>. QED  BY <1>1, <1>2, <2>1, ArrayMembers
<1>4. /\ q \in [1 .. n -> Arr!Members]
      /\ \A j \in 1 .. n : Arr!SlotDiff(slot[q[j]], i) = j - 1
  BY <1>1, ArrayIsQueueNow
<1>5. q[1] = t
  <2>1. q[1] \in Arr!Members /\ Arr!SlotDiff(slot[q[1]], i) = 0
    BY <1>3, <1>4
  <2>2. slot[q[1]] = i
    BY <1>2, <2>1, SameSlotDiff, SlotDiffProps
  <2>. QED  BY <1>2, <2>1, <2>2, ArrayServingNow
<1>6. PICK r : r = [j \in 1 .. n - 1 |-> q[j + 1]]
  BY Zenon
<1>7. q # <<>> /\ Head(q) = q[1] /\ r = Tail(q)
  <2>1. n \in Nat \ {0}
    BY <1>3
  <2>2. q \in [1 .. n -> Arr!Members]
    BY <1>4
  <2>. QED  BY <1>6, <2>1, <2>2, LineLeft, Zenon
<1>8. \A j \in 2 .. n : q[j] \in Arr!Members' /\ slot[q[j]] \in Arr!Slot /\ slot[q[j]] # i
  <2>. SUFFICES ASSUME NEW j \in 2 .. n
                PROVE  q[j] \in Arr!Members' /\ slot[q[j]] \in Arr!Slot /\ slot[q[j]] # i
    OBVIOUS
  <2>1. Arr!SlotDiff(slot[q[j]], i) # 0 /\ q[j] \in Arr!Members
    BY <1>3, <1>4
  <2>2. slot[q[j]] # i /\ slot[t] = i
    BY <1>2, <2>1, SlotDiffProps, ArrayServingNow
  <2>. QED  BY <1>2, <2>1, <2>2
<1>9. r \in [1 .. n - 1 -> Arr!Members']
  BY <1>6, <1>8
<1>10. PICK s \in Arr!Slot : s = (i + 1) % FlagsLen
  BY SlotDiffProps
<1>11. \A j \in 1 .. n - 1 : Arr!SlotDiff(slot'[r[j]], s) = j - 1
  <2>. SUFFICES ASSUME NEW j \in 1 .. n - 1 PROVE Arr!SlotDiff(slot'[r[j]], s) = j - 1
    OBVIOUS
  <2>1. r[j] = q[j + 1] /\ j + 1 \in 2 .. n /\ j + 1 \in 1 .. n
    BY <1>6
  <2>2. Arr!SlotDiff(slot[q[j + 1]], i) = (j + 1) - 1
    BY <1>4, <2>1
  <2>3. /\ q[j + 1] \in Arr!Members' /\ slot[q[j + 1]] \in Arr!Slot
        /\ slot[q[j + 1]] # i
    BY <1>8, <2>1
  <2>4. Arr!SlotDiff(slot[q[j + 1]], s) = Arr!SlotDiff(slot[q[j + 1]], i) - 1
    BY <1>10, <2>3, SlotDiffProps, Zenon
  <2>. QED  BY <1>2, <2>1, <2>2, <2>3, <2>4, SMTT(30)
<1>12. Arr!IsQueue(r)' /\ Arr!HasQueue'
  BY <1>3, <1>9, <1>10, <1>11, ArrayIsQueueNext
<1>. QED  BY <1>3, <1>4, <1>5, <1>7, <1>12

\* Entering, and withdrawing the own flag, leave the queue alone.
LEMMA ArrayStay ==
    ASSUME NEW i \in Arr!Slot, Arr!ServingFrom(i), Arr!ServingFrom(i)',
           NEW q, Arr!IsQueue(q), Arr!Members' = Arr!Members, UNCHANGED slot
    PROVE  Arr!IsQueue(q)' /\ Arr!HasQueue'
<1>1. PICK n \in Nat : n = Cardinality(Arr!Members)
  BY ArrayMembers
<1>2. /\ q \in [1 .. n -> Arr!Members]
      /\ \A j \in 1 .. n : Arr!SlotDiff(slot[q[j]], i) = j - 1
  BY <1>1, ArrayIsQueueNow
<1>. QED  BY <1>1, <1>2, ArrayIsQueueNext

LEMMA ArrayOneQueue == ASSUME Arr!ArrayInv, Arr!HasQueue PROVE Arr!OneQueue
<1>1. PICK n \in Nat : n = Cardinality(Arr!Members)
  BY ArrayMembers
<1>2. PICK i \in Arr!Slot : Arr!ServingFrom(i)
  BY DEF Arr!ArrayInv
<1>3. ASSUME NEW p, NEW q, Arr!IsQueue(p), Arr!IsQueue(q) PROVE p = q
  <2>1. /\ p \in [1 .. n -> Arr!Members] /\ q \in [1 .. n -> Arr!Members]
        /\ \A j \in 1 .. n : /\ Arr!SlotDiff(slot[p[j]], i) = j - 1
                             /\ Arr!SlotDiff(slot[q[j]], i) = j - 1
    BY <1>1, <1>2, <1>3, ArrayIsQueueNow
  <2>2. ASSUME NEW j \in 1 .. n PROVE p[j] = q[j]
    <3>1. /\ p[j] \in Arr!Members /\ q[j] \in Arr!Members
          /\ Arr!SlotDiff(slot[p[j]], i) = Arr!SlotDiff(slot[q[j]], i)
      BY <2>1
    <3>2. slot[p[j]] \in Arr!Slot /\ slot[q[j]] \in Arr!Slot
      BY <3>1 DEF Arr!ArrayInv, Arr!TypeOK, Arr!Members, Arr!InCS, Arr!Waiting
    <3>3. slot[p[j]] = slot[q[j]]
      BY <3>1, <3>2, SameSlotDiff
    <3>. QED  BY <1>2, <3>1, <3>3, ArrayServingNow
  <2>. QED  BY <2>1, <2>2
<1>4. Arr!IsQueue(Arr!Queue)
  <2>1. Arr!Served = i
    BY <1>2, ArrayServed
  <2>2. \A j \in 1 .. n : \E t \in Arr!Members : Arr!SlotDiff(slot[t], i) = j - 1
    BY <1>1, <1>2, ArrayIsQueueNow DEF Arr!HasQueue
  <2>. DEFINE Nth(j) == CHOOSE t \in Arr!Members : Arr!SlotDiff(slot[t], i) = j - 1
  <2>3. \A j \in 1 .. n : Nth(j) \in Arr!Members /\ Arr!SlotDiff(slot[Nth(j)], i) = j - 1
    BY <2>2
  <2>4. Arr!Queue = [j \in 1 .. n |-> Nth(j)]
    BY <1>1, <2>1, ArrayCardinality DEF Arr!Queue
  <2>. HIDE DEF Nth
  <2>. QED  BY <1>1, <2>1, <2>3, <2>4, ArrayCardinality DEF Arr!IsQueue
<1>. QED  BY <1>3, <1>4 DEF Arr!OneQueue

\* arraylock.h serves in the order of the slots: those taken, from the one whose flag is
\* raised or was last, are the queue of a first-come-first-served lock, as long as the
\* flags are as many as the threads, also where the tail wraps.
THEOREM ArrayLockRefinesFifoLock ==
    Arr!Spec => Arr!Fifo!Safety
<1>1. Arr!Init => Arr!ArrayInv
  BY ArrayInvInit
<1>2. Arr!ArrayInv /\ [Arr!Next]_Arr!vars => Arr!ArrayInv'
  BY ArrayInvStep
<1>3. Arr!ArrayInv /\ Arr!HasQueue => Arr!OneQueue
  BY ArrayOneQueue
<1>4. Arr!Init => Arr!HasQueue /\ Arr!Fifo!Init
  <2>. SUFFICES ASSUME Arr!Init PROVE Arr!HasQueue /\ Arr!Fifo!Init
    OBVIOUS
  <2>1. Arr!Members = {} /\ Arr!InCS = {}
    BY DEF Arr!Init, Arr!Members, Arr!InCS, Arr!Waiting, Arr!At
  <2>2. Arr!Cardinality(Arr!Members) = 0
    BY <2>1, ArrayCardinality, FS_EmptySet
  <2>3. <<>> \in [1 .. 0 -> Arr!Members] /\ Arr!IsQueue(<<>>)
    BY <2>2 DEF Arr!IsQueue
  <2>4. Arr!HasQueue
    BY <2>2, <2>3, Zenon DEF Arr!HasQueue
  <2>5. Arr!Queue = <<>>
    BY <1>1, <1>3, <2>2, <2>3, <2>4, Zenon DEF Arr!OneQueue
  <2>. QED  BY <2>1, <2>4, <2>5 DEF Arr!Fifo!Init
<1>5. ASSUME Arr!TypeOK, NEW t \in Thread, Arr!acquire_await(t) \/ Arr!release_clear_own(t)
      PROVE  Arr!Members' = Arr!Members /\ UNCHANGED slot
  BY <1>5 DEF Arr!acquire_await, Arr!release_clear_own, Arr!Members, Arr!InCS, Arr!Waiting,
        Arr!At, Arr!Step, Arr!Goto, Arr!TypeOK
<1>6. ASSUME UNCHANGED Arr!vars
      PROVE  Arr!Members' = Arr!Members /\ UNCHANGED slot /\ Arr!InCS' = Arr!InCS
  BY <1>6 DEF Arr!vars, Arr!Members, Arr!InCS, Arr!Waiting, Arr!At
<1>7. Arr!ArrayInv /\ Arr!HasQueue /\ [Arr!Next]_Arr!vars => Arr!HasQueue'
  <2>. SUFFICES ASSUME Arr!ArrayInv, Arr!HasQueue, [Arr!Next]_Arr!vars PROVE Arr!HasQueue'
    OBVIOUS
  <2>1. PICK q : Arr!IsQueue(q)
    BY DEF Arr!HasQueue
  <2>2. PICK i \in Arr!Slot : Arr!ServingFrom(i)
    BY DEF Arr!ArrayInv
  <2>3. Arr!TypeOK /\ Arr!TypeOK'
    BY ArrayTypeStep DEF Arr!ArrayInv
  <2>. QED  BY <1>5, <1>6, <2>1, <2>2, <2>3, ArrayServing, ArrayJoin, ArrayLeave, ArrayStay
            DEF Arr!Next, Arr!Progress
<1>8. Arr!ArrayInv /\ Arr!OneQueue /\ Arr!OneQueue' /\ [Arr!Next]_Arr!vars
        => [Arr!Fifo!Next]_<<Arr!Queue, Arr!InCS # {}>>
  <2>. SUFFICES ASSUME Arr!ArrayInv, Arr!OneQueue, Arr!OneQueue', [Arr!Next]_Arr!vars
                PROVE  [Arr!Fifo!Next]_<<Arr!Queue, Arr!InCS # {}>>
    OBVIOUS
  <2>0. PICK i \in Arr!Slot : Arr!ServingFrom(i)
    BY DEF Arr!ArrayInv
  <2>1. Arr!TypeOK /\ Arr!TypeOK'
    BY ArrayTypeStep DEF Arr!ArrayInv
  <2>2. PICK q : q = Arr!Queue
    OBVIOUS
  <2>3. Arr!IsQueue(q)
    BY <2>2 DEF Arr!OneQueue
  <2>4. ASSUME NEW r, Arr!IsQueue(r)' PROVE Arr!Queue' = r
    BY <2>4, Zenon DEF Arr!OneQueue, Arr!IsQueue
  <2>5. ASSUME NEW t \in Thread, Arr!acquire_get_inc(t) PROVE Arr!Fifo!Arrive(t)
    <3>1. Arr!Queue' = Append(Arr!Queue, t)
      BY <2>0, <2>1, <2>2, <2>3, <2>4, <2>5, ArrayServing, ArrayJoin, Zenon
    <3>2. Arr!InCS' = Arr!InCS /\ t \notin Arr!Members
      BY <2>1, <2>5 DEF Arr!acquire_get_inc, Arr!InCS, Arr!Members, Arr!Waiting, Arr!TypeOK,
                        Arr!Step, Arr!Goto, Arr!At
    <3>3. ~Arr!Fifo!Queued(t)
      BY <2>2, <2>3, <3>2 DEF Arr!Fifo!Queued, Arr!IsQueue
    <3>. QED  BY <3>1, <3>2, <3>3 DEF Arr!Fifo!Arrive
  <2>6. ASSUME NEW t \in Thread, Arr!acquire_await(t) PROVE Arr!Fifo!Enter(t)
    <3>1. Arr!Queue' = q
      BY <1>5, <2>0, <2>1, <2>3, <2>4, <2>6, ArrayServing, ArrayStay
    <3>2. /\ t \in Arr!Members /\ t \in Arr!InCS' /\ t \notin Arr!InCS
          /\ slot[t] \in Arr!Slot /\ flags[slot[t]] = 1 /\ Arr!InCS \subseteq Arr!Members
      BY <2>1, <2>6 DEF Arr!acquire_await, Arr!InCS, Arr!Members, Arr!Waiting, Arr!TypeOK,
                        Arr!Step, Arr!Goto, Arr!At
    <3>3. slot[t] = i /\ Arr!InCS = {}
      BY <2>0, <3>2, ArrayServingNow
    <3>4. PICK n \in Nat : n = Cardinality(Arr!Members) /\ n > 0
      BY <3>2, ArrayMembers, FS_EmptySet
    <3>5. q \in [1 .. n -> Arr!Members] /\ Arr!SlotDiff(slot[q[1]], i) = 1 - 1
      BY <2>0, <2>3, <3>4, ArrayIsQueueNow
    <3>6. q[1] \in Arr!Members /\ slot[q[1]] \in Arr!Slot
      <4>1. 1 \in 1 .. n
        BY <3>4
      <4>2. q[1] \in Arr!Members
        BY <3>5, <4>1
      <4>3. Arr!Members \subseteq Thread /\ slot \in [Thread -> Arr!Slot]
        BY <2>1 DEF Arr!TypeOK, Arr!Members, Arr!InCS, Arr!Waiting
      <4>. QED  BY <4>2, <4>3
    <3>7. slot[q[1]] = i
      BY <3>5, <3>6, SameSlotDiff, SlotDiffProps
    <3>8. q[1] = t
      BY <2>0, <3>2, <3>3, <3>6, <3>7, ArrayServingNow
    <3>9. Arr!Fifo!Queued(t) /\ t = Head(Arr!Queue)
      BY <2>2, <3>4, <3>5, <3>8, LineLeft DEF Arr!Fifo!Queued
    <3>. QED  BY <2>2, <3>1, <3>2, <3>3, <3>9 DEF Arr!Fifo!Enter
  <2>7. ASSUME NEW t \in Thread, Arr!release_clear_own(t)
        PROVE  UNCHANGED <<Arr!Queue, Arr!InCS # {}>>
    <3>1. Arr!Queue' = q
      BY <1>5, <2>0, <2>1, <2>3, <2>4, <2>7, ArrayServing, ArrayStay
    <3>2. Arr!InCS' = Arr!InCS
      BY <2>1, <2>7 DEF Arr!release_clear_own, Arr!InCS, Arr!TypeOK, Arr!Step, Arr!Goto,
                        Arr!At
    <3>. QED  BY <2>2, <3>1, <3>2
  <2>8. ASSUME NEW t \in Thread, Arr!release_set_next(t) PROVE Arr!Fifo!Leave(t)
    <3>1. /\ q # <<>> /\ Head(q) = t /\ q[1] = t /\ 1 \in DOMAIN q
          /\ Arr!IsQueue(Tail(q))'
      BY <2>0, <2>1, <2>3, <2>8, ArrayServing, ArrayLeave
    <3>2. Arr!Queue' = Tail(Arr!Queue) /\ Arr!Fifo!Queued(t)
      BY <2>2, <2>4, <3>1, Zenon DEF Arr!Fifo!Queued
    <3>3. t \in Arr!InCS /\ Arr!InCS' = Arr!InCS \ {t} /\ Arr!InCS \subseteq Arr!Members
      BY <2>1, <2>8 DEF Arr!release_set_next, Arr!InCS, Arr!Members, Arr!TypeOK, Arr!Step,
                        Arr!Goto, Arr!At
    <3>4. Arr!InCS = {t}
      BY <2>0, <3>3, ArrayServingNow
    <3>. QED  BY <2>2, <3>1, <3>2, <3>3, <3>4 DEF Arr!Fifo!Leave
  <2>9. CASE UNCHANGED Arr!vars
    <3>1. Arr!Queue' = q
      BY <1>6, <2>0, <2>1, <2>3, <2>4, <2>9, ArrayServing, ArrayStay
    <3>. QED  BY <1>6, <2>2, <2>9, <3>1
  <2>. QED
    BY <2>5, <2>6, <2>7, <2>8, <2>9 DEF Arr!Next, Arr!Progress, Arr!Fifo!Next
<1>. QED
  BY <1>1, <1>2, <1>3, <1>4, <1>7, <1>8, PTL DEF Arr!Spec, Arr!Fifo!Safety, Arr!Fifo!vars

-----------------------------------------------------------------------------
twa_vars == <<ticket, grant, array, tx, seen, knext>>
array_vars == <<last, flags, slot>>

counter_vars == <<pc, counter, twa_vars, array_vars>>

CounterInit ==
    \/ counter = "twalock" /\ TWA!Init /\ last = 0 /\ flags = 0 /\ slot = 0
    \/ /\ counter = "arraylock" /\ Arr!Init
       /\ ticket = 0 /\ grant = 0 /\ array = 0 /\ tx = 0 /\ seen = 0 /\ knext = 0

CounterNext ==
    \/ counter = "twalock" /\ TWA!Next /\ UNCHANGED <<counter, array_vars>>
    \/ counter = "arraylock" /\ Arr!Next /\ UNCHANGED <<counter, twa_vars>>

CounterProgress(t) ==
    \/ /\ counter = "twalock" /\ t \in CounterThread /\ TWA!Progress(t)
       /\ UNCHANGED <<counter, array_vars>>
    \/ counter = "arraylock" /\ Arr!Progress(t) /\ UNCHANGED <<counter, twa_vars>>

CounterSpec == /\ CounterInit /\ [][CounterNext]_counter_vars
               /\ \A t \in Thread : WF_counter_vars(CounterProgress(t))

\* The permission to enter is handed over and not lost.  twalock: a thread that waits at
\* the array is not forgotten between the grant word and the array.  arraylock: there is
\* one permission in the flags, and no two threads wait for the same one.
HandOverIntact == /\ counter = "twalock" => TWA!NoLostWakeup
                  /\ counter = "arraylock" => Arr!OnePermission

-----------------------------------------------------------------------------
CounterInv == /\ counter = "twalock" => TWA!TWAInv
              /\ counter = "arraylock" => Arr!ArrayInv

LEMMA CounterInvInit == CounterInit => CounterInv
BY TWAInvInit, ArrayInvInit DEF CounterInit, CounterInv

LEMMA CounterInvStep == CounterInv /\ [CounterNext]_counter_vars => CounterInv'
<1>. SUFFICES ASSUME CounterInv, [CounterNext]_counter_vars PROVE CounterInv'
  OBVIOUS
<1>1. counter' = counter
  BY DEF CounterNext, counter_vars
<1>2. ASSUME counter = "twalock" PROVE TWA!TWAInv'
  <2>1. TWA!TWAInv /\ [TWA!Next]_TWA!vars
    BY <1>2 DEF CounterInv, CounterNext, counter_vars, twa_vars, TWA!vars
  <2>. QED  BY <2>1, TWAInvStep
<1>3. ASSUME counter = "arraylock" PROVE Arr!ArrayInv'
  <2>1. Arr!ArrayInv /\ [Arr!Next]_Arr!vars
    BY <1>3 DEF CounterInv, CounterNext, counter_vars, array_vars, Arr!vars
  <2>. QED  BY <2>1, ArrayInvStep
<1>. QED  BY <1>1, <1>2, <1>3 DEF CounterInv

\* twalock.h and arraylock.h hand the lock over without losing a wakeup or a permission,
\* for every number of threads that the counters and the flags have room for, wherever the
\* counters wrap.
THEOREM CounterLocksHandOver == CounterSpec => []HandOverIntact
<1>1. CounterInv => HandOverIntact
  BY ArrayOnePermission DEF CounterInv, HandOverIntact, TWA!TWAInv
<1>. QED  BY <1>1, CounterInvInit, CounterInvStep, PTL DEF CounterSpec
=============================================================================
