---------------------------- MODULE QueueLocks ----------------------------
(***************************************************************************)
(* include/vsync/spinlock: the locks whose waiting threads form a queue of *)
(* nodes, mcslock.h and clhlock.h.  Initially one of them is chosen        *)
(* (`queue`, which never changes); the variables it does not need stay 0.  *)
(***************************************************************************)
EXTENDS Control, Integers, Sequences, FiniteSetTheorems, WellFoundedInduction, TLAPS

CONSTANTS QueueThread,
          Nil           \* the null pointer, and the node embedded in a clhlock

ASSUME QueueParameters == IsFiniteSet(QueueThread) /\ Nil \notin QueueThread

VARIABLES queue,
          tail, pred, locked,
          next, succ,       \* mcslock
          qnode             \* clhlock

-----------------------------------------------------------------------------
MCS == INSTANCE MCSLock WITH Thread <- QueueThread

LEMMA NilIsNoThread == Nil \notin QueueThread
BY QueueParameters

USE NilIsNoThread

\* Queues: a sequence is determined by its first element and by what follows what; what
\* joining at the end and leaving the head of it are.
LEMMA SameChain ==
    ASSUME NEW n \in Nat, NEW S, NEW p \in [1 .. n -> S], NEW q \in [1 .. n -> S],
           n > 0 => p[1] = q[1],
           \A i \in 2 .. n : p[i - 1] = q[i - 1] => p[i] = q[i]
    PROVE  p = q
<1>. DEFINE Bad == {i \in Nat : i \in 1 .. n /\ p[i] # q[i]}
<1>1. ASSUME Bad # {} PROVE FALSE
  <2>1. PICK i \in Bad : \A j \in Bad : ~(<<j, i>> \in OpToRel(<, Nat))
    <3>1. Bad \subseteq Nat
      OBVIOUS
    <3>. HIDE DEF Bad
    <3>. QED  BY <1>1, <3>1, WFMin, NatLessThanWellFounded, Zenon
  <2>2. i \in 1 .. n /\ p[i] # q[i]
    OBVIOUS
  <2>3. i \in 2 .. n
    BY <2>2
  <2>4. i - 1 \in Bad
    BY <2>2, <2>3
  <2>5. <<i - 1, i>> \in Nat \X Nat /\ <<i - 1, i>>[1] = i - 1 /\ <<i - 1, i>>[2] = i
    BY <2>3
  <2>6. i - 1 < i
    BY <2>3
  <2>. QED  BY <2>1, <2>4, <2>5, <2>6, Zenon DEF OpToRel
<1>. QED  BY <1>1

LEMMA JoinQueue ==
    ASSUME NEW n \in Nat, NEW S, NEW q \in [1 .. n -> S], NEW t,
           NEW r \in [1 .. n + 1 -> S \cup {t}],
           r[n + 1] = t, \A i \in 1 .. n : r[i] = q[i]
    PROVE  r = Append(q, t)
<1>1. q \in Seq(S \cup {t}) /\ Len(q) = n /\ t \in S \cup {t}
  OBVIOUS
<1>2. PICK a : a = Append(q, t)
  BY Zenon
<1>3. /\ a \in Seq(S \cup {t}) /\ Len(a) = n + 1
      /\ \A i \in 1 .. n : a[i] = q[i]
      /\ a[n + 1] = t
  BY <1>1, <1>2
<1>4. a \in [1 .. n + 1 -> S \cup {t}]
  BY <1>3
<1>5. \A i \in 1 .. n + 1 : r[i] = a[i]
  BY <1>3
<1>. QED  BY <1>2, <1>4, <1>5

LEMMA JoinedQueue ==
    ASSUME NEW n \in Nat, NEW S, NEW q \in [1 .. n -> S], NEW t
    PROVE  /\ Append(q, t) \in [1 .. n + 1 -> S \cup {t}]
           /\ Append(q, t)[n + 1] = t /\ \A i \in 1 .. n : Append(q, t)[i] = q[i]
<1>1. q \in Seq(S \cup {t}) /\ Len(q) = n /\ t \in S \cup {t}
  OBVIOUS
<1>2. PICK a : a = Append(q, t)
  BY Zenon
<1>3. /\ a \in Seq(S \cup {t}) /\ Len(a) = n + 1
      /\ \A i \in 1 .. n : a[i] = q[i]
      /\ a[n + 1] = t
  BY <1>1, <1>2
<1>4. a \in [1 .. n + 1 -> S \cup {t}]
  BY <1>3
<1>. QED  BY <1>2, <1>3, <1>4

LEMMA LeaveQueue ==
    ASSUME NEW n \in Nat \ {0}, NEW S, NEW q \in [1 .. n -> S]
    PROVE  q # <<>> /\ Head(q) = q[1] /\ Tail(q) = [i \in 1 .. n - 1 |-> q[i + 1]]
<1>1. q \in Seq(S) /\ Len(q) = n /\ q # <<>> /\ Head(q) = q[1]
  OBVIOUS
<1>2. PICK a : a = Tail(q)
  BY Zenon
<1>3. /\ a \in Seq(S) /\ Len(a) = n - 1
      /\ \A i \in 1 .. n - 1 : a[i] = q[i + 1]
  BY <1>1, <1>2
<1>4. a = [i \in 1 .. n - 1 |-> q[i + 1]]
  BY <1>3
<1>. QED  BY <1>1, <1>2, <1>4, Zenon

-----------------------------------------------------------------------------
LEMMA MCSInvInit == ASSUME MCS!Init PROVE MCS!MCSInv
<1>1. MCS!TypeOK /\ MCS!LinkInv
  BY DEF MCS!Init, MCS!TypeOK, MCS!LinkInv, MCS!Queued, MCS!InCS, MCS!At, MCS!Ptr
<1>2. MCS!Ordered([t \in QueueThread |-> 0])
  BY DEF MCS!Init, MCS!Ordered, MCS!Queued, MCS!InCS, MCS!At
<1>. QED  BY <1>1, <1>2 DEF MCS!MCSInv

\* The steps that leave the queue, its order and its links alone.
LEMMA MCSInvLocal ==
    ASSUME MCS!MCSInv, NEW t \in QueueThread,
           \/ MCS!acquire_reset(t) \/ MCS!tryacquire_reset(t) \/ MCS!acquire_await(t)
           \/ MCS!release_read_next(t) \/ MCS!release_await_next(t) \/ MCS!release_read_succ(t)
    PROVE  MCS!MCSInv'
<1>. USE DEF MCS!MCSInv, MCS!Step, MCS!Goto, MCS!Ptr
<1>1. MCS!Queued' = MCS!Queued /\ \A u \in MCS!Queued : MCS!First(u)' <=> MCS!First(u)
  BY DEF MCS!TypeOK, MCS!acquire_reset, MCS!tryacquire_reset, MCS!reset_node,
         MCS!acquire_await, MCS!release_read_next,
         MCS!release_await_next, MCS!release_read_succ, MCS!Queued, MCS!InCS, MCS!First, MCS!At
<1>2. MCS!TypeOK'
  BY DEF MCS!TypeOK, MCS!acquire_reset, MCS!tryacquire_reset, MCS!reset_node,
         MCS!acquire_await, MCS!release_read_next,
         MCS!release_await_next, MCS!release_read_succ
<1>3. MCS!LinkInv'
  BY <1>1 DEF MCS!TypeOK, MCS!LinkInv, MCS!acquire_reset, MCS!tryacquire_reset,
              MCS!reset_node, MCS!acquire_await,
         MCS!release_read_next, MCS!release_await_next, MCS!release_read_succ, MCS!Queued,
         MCS!InCS, MCS!First, MCS!At
<1>4. PICK rank \in [QueueThread -> Nat] : MCS!Ordered(rank)
  OBVIOUS
<1>5. MCS!Ordered(rank)'
  BY <1>1, <1>4 DEF MCS!TypeOK, MCS!Ordered, MCS!acquire_reset, MCS!tryacquire_reset,
                    MCS!reset_node,
         MCS!acquire_await, MCS!release_read_next, MCS!release_await_next,
         MCS!release_read_succ, MCS!Queued, MCS!InCS, MCS!At
<1>. QED  BY <1>2, <1>3, <1>5

\* A thread that exchanges tail comes last.
LEMMA MCSInvEnqueue ==
    ASSUME MCS!MCSInv, NEW t \in QueueThread,
           MCS!acquire_xchg(t) \/ MCS!tryacquire_cmpxchg(t)
    PROVE  MCS!MCSInv'
<1>. USE DEF MCS!MCSInv, MCS!Step, MCS!Goto, MCS!Ptr
<1>1. t \notin MCS!Queued /\ next[t] = Nil /\ locked[t] = 1
  BY DEF MCS!LinkInv, MCS!Queued, MCS!InCS, MCS!At, MCS!acquire_xchg, MCS!tryacquire_cmpxchg
<1>2. MCS!TypeOK'
  BY DEF MCS!TypeOK, MCS!acquire_xchg, MCS!tryacquire_cmpxchg
<1>3. PICK rank \in [QueueThread -> Nat] : MCS!Ordered(rank)
  OBVIOUS
<1>4. CASE tail = Nil
  <2>1. /\ pc' = [pc EXCEPT ![t] = "cs"] /\ tail' = t /\ UNCHANGED <<next, locked, succ>>
        /\ MCS!Queued = {}
    BY <1>4 DEF MCS!LinkInv, MCS!acquire_xchg, MCS!tryacquire_cmpxchg
  <2>2. MCS!Queued' = {t}
    BY <2>1 DEF MCS!TypeOK, MCS!Queued, MCS!InCS, MCS!At
  <2>3. MCS!LinkInv'
    BY <1>1, <2>1, <2>2 DEF MCS!TypeOK, MCS!LinkInv, MCS!Queued, MCS!InCS, MCS!At
  <2>4. MCS!Ordered(rank)'
    BY <1>1, <2>1, <2>2 DEF MCS!TypeOK, MCS!Ordered, MCS!Queued, MCS!InCS, MCS!At
  <2>. QED  BY <1>2, <2>3, <2>4
<1>5. CASE tail # Nil /\ MCS!tryacquire_cmpxchg(t)
  <2>1. pc' = [pc EXCEPT ![t] = "idle"] /\ UNCHANGED <<tail, next, locked, pred, succ>>
    BY <1>5 DEF MCS!tryacquire_cmpxchg
  <2>2. MCS!Queued' = MCS!Queued /\ \A u \in MCS!Queued : MCS!First(u)' <=> MCS!First(u)
    BY <1>1, <2>1 DEF MCS!TypeOK, MCS!Queued, MCS!InCS, MCS!First, MCS!At
  <2>3. MCS!LinkInv'
    BY <1>1, <2>1, <2>2 DEF MCS!TypeOK, MCS!LinkInv, MCS!Queued, MCS!InCS, MCS!At
  <2>4. MCS!Ordered(rank)'
    BY <1>1, <1>3, <2>1, <2>2 DEF MCS!TypeOK, MCS!Ordered, MCS!Queued, MCS!InCS, MCS!At
  <2>. QED  BY <1>2, <2>3, <2>4
<1>6. CASE tail # Nil /\ MCS!acquire_xchg(t)
  <2>1. /\ pc' = [pc EXCEPT ![t] = "link"] /\ tail' = t
        /\ pred' = [pred EXCEPT ![t] = tail] /\ UNCHANGED <<next, locked, succ>>
    BY <1>6 DEF MCS!acquire_xchg
  <2>2. /\ MCS!Queued' = MCS!Queued \cup {t} /\ tail \in MCS!Queued /\ next[tail] = Nil
        /\ \A u \in MCS!Queued : MCS!First(u)' <=> MCS!First(u)
        /\ ~MCS!First(t)'
    BY <1>1, <1>6, <2>1 DEF MCS!TypeOK, MCS!LinkInv, MCS!Queued, MCS!InCS, MCS!First, MCS!At
  <2>3. MCS!LinkInv'
    BY <1>1, <1>6, <2>1, <2>2 DEF MCS!TypeOK, MCS!LinkInv, MCS!Queued, MCS!InCS, MCS!At
  <2>4. PICK after \in [QueueThread -> Nat] : /\ after[t] = rank[tail] + 1
                                         /\ \A u \in MCS!Queued : after[u] = rank[u]
    <3>1. [rank EXCEPT ![t] = rank[tail] + 1] \in [QueueThread -> Nat]
      BY <2>2 DEF MCS!Queued, MCS!InCS
    <3>. QED  BY <1>1, <3>1, Zenon DEF MCS!Queued, MCS!InCS
  <2>5. MCS!Ordered(after)'
    BY <1>1, <1>3, <2>1, <2>2, <2>4 DEF MCS!TypeOK, MCS!LinkInv, MCS!Ordered, MCS!Queued,
                                        MCS!InCS, MCS!At
  <2>. QED  BY <1>2, <2>3, <2>5
<1>. QED  BY <1>4, <1>5, <1>6

\* A thread links itself to its predecessor, whose next is free.
LEMMA MCSInvLink ==
    ASSUME MCS!MCSInv, NEW t \in QueueThread, MCS!acquire_link(t)
    PROVE  MCS!MCSInv'
<1>. USE DEF MCS!MCSInv, MCS!Ptr
<1>1. /\ pc[t] = "link" /\ pc' = [pc EXCEPT ![t] = "await"]
      /\ next' = [next EXCEPT ![pred[t]] = t]
      /\ pred' = [pred EXCEPT ![t] = Nil] /\ UNCHANGED <<tail, locked, succ>>
  BY DEF MCS!acquire_link, MCS!Step, MCS!Goto
<1>2. /\ MCS!TypeOK' /\ pred[t] \in MCS!Queued /\ next[pred[t]] = Nil
      /\ tail # pred[t] /\ locked[t] = 1
  BY <1>1, Zenon DEF MCS!TypeOK, MCS!LinkInv
<1>3. MCS!Queued' = MCS!Queued /\ \A u \in MCS!Queued : MCS!First(u)' <=> MCS!First(u)
  BY <1>1, <1>2 DEF MCS!TypeOK, MCS!Queued, MCS!InCS, MCS!First, MCS!At
<1>4. PICK rank \in [QueueThread -> Nat] : MCS!Ordered(rank)
  OBVIOUS
<1>5. \A u \in QueueThread : pc[u] = "link" /\ u # t => pred[u] # pred[t]
  BY <1>1, <1>4 DEF MCS!Ordered, MCS!Queued, MCS!At
<1>6. MCS!LinkInv'
  BY <1>1, <1>2, <1>3, <1>5 DEF MCS!TypeOK, MCS!LinkInv, MCS!Queued, MCS!InCS, MCS!At
<1>7. MCS!Ordered(rank)'
  BY <1>1, <1>2, <1>3, <1>4 DEF MCS!TypeOK, MCS!Ordered, MCS!Queued, MCS!InCS, MCS!At
<1>. QED  BY <1>2, <1>6, <1>7

\* Who is first and last is alone, and leaves the queue empty.
LEMMA MCSInvCmpxchg ==
    ASSUME MCS!MCSInv, NEW t \in QueueThread, MCS!release_cmpxchg(t)
    PROVE  MCS!MCSInv'
<1>. USE DEF MCS!MCSInv, MCS!Ptr, MCS!Step, MCS!Goto
<1>1. MCS!TypeOK'
  BY DEF MCS!TypeOK, MCS!release_cmpxchg
<1>2. PICK rank \in [QueueThread -> Nat] : MCS!Ordered(rank)
  OBVIOUS
<1>3. CASE tail = t
  <2>1. /\ pc[t] = "cas" /\ pc' = [pc EXCEPT ![t] = "idle"] /\ tail' = Nil
        /\ UNCHANGED <<next, locked, pred, succ>>
    BY <1>3 DEF MCS!release_cmpxchg
  <2>2. \A u \in MCS!Queued : u = t
    BY <1>2, <1>3, <2>1 DEF MCS!Ordered, MCS!First, MCS!Queued, MCS!InCS, MCS!At
  <2>3. MCS!Queued' = {}
    BY <2>1, <2>2 DEF MCS!TypeOK, MCS!Queued, MCS!InCS, MCS!At
  <2>4. MCS!LinkInv'
    BY <2>1, <2>3 DEF MCS!TypeOK, MCS!LinkInv, MCS!Queued, MCS!InCS, MCS!At
  <2>5. MCS!Ordered(rank)'
    BY <2>1, <2>3 DEF MCS!TypeOK, MCS!Ordered, MCS!Queued, MCS!InCS, MCS!At
  <2>. QED  BY <1>1, <2>4, <2>5
<1>4. CASE tail # t
  <2>1. /\ pc[t] = "cas" /\ pc' = [pc EXCEPT ![t] = "await_next"]
        /\ UNCHANGED <<tail, next, locked, pred, succ>>
    BY <1>4 DEF MCS!release_cmpxchg
  <2>2. MCS!Queued' = MCS!Queued /\ \A u \in MCS!Queued : MCS!First(u)' <=> MCS!First(u)
    BY <2>1 DEF MCS!TypeOK, MCS!Queued, MCS!InCS, MCS!First, MCS!At
  <2>3. MCS!LinkInv'
    BY <1>4, <2>1, <2>2 DEF MCS!TypeOK, MCS!LinkInv, MCS!Queued, MCS!InCS, MCS!At
  <2>4. MCS!Ordered(rank)'
    BY <1>2, <2>1, <2>2 DEF MCS!TypeOK, MCS!Ordered, MCS!Queued, MCS!InCS, MCS!At
  <2>. QED  BY <1>1, <2>3, <2>4
<1>. QED  BY <1>3, <1>4

\* The holder leaves the queue, and the thread after it is first.
LEMMA MCSInvGrant ==
    ASSUME MCS!MCSInv, NEW t \in QueueThread, MCS!release_grant(t)
    PROVE  MCS!MCSInv'
<1>. USE DEF MCS!MCSInv, MCS!Ptr
<1>1. PICK n \in QueueThread :
         /\ next[t] = n /\ pc[n] = "await" /\ locked[n] = 1 /\ tail # t
         /\ pc[t] = "grant" /\ pc' = [pc EXCEPT ![t] = "idle"]
         /\ locked' = [locked EXCEPT ![n] = 0]
         /\ succ' = [succ EXCEPT ![t] = Nil] /\ UNCHANGED <<tail, next, pred>>
  <2>1. pc[t] = "grant" /\ t \in MCS!Queued /\ next[t] # Nil /\ succ[t] = next[t]
    BY DEF MCS!release_grant, MCS!Step, MCS!LinkInv, MCS!Queued, MCS!InCS, MCS!At
  <2>2. next[t] \in QueueThread /\ pc[next[t]] = "await" /\ locked[next[t]] = 1 /\ tail # t
    BY <2>1 DEF MCS!LinkInv
  <2>. QED  BY <2>1, <2>2, Zenon DEF MCS!release_grant, MCS!Step, MCS!Goto
<1>2. MCS!TypeOK'
  BY <1>1 DEF MCS!TypeOK
<1>3. PICK rank \in [QueueThread -> Nat] : MCS!Ordered(rank)
  OBVIOUS
<1>4. t \in MCS!Queued /\ MCS!First(t) /\ n \in MCS!Queued /\ n # t
  BY <1>1 DEF MCS!Queued, MCS!InCS, MCS!First, MCS!At
<1>5. MCS!Queued' = MCS!Queued \ {t} /\ \A u \in MCS!Queued \ {t} : MCS!First(u)' <=> u = n
  BY <1>1, <1>4 DEF MCS!TypeOK, MCS!LinkInv, MCS!Queued, MCS!InCS, MCS!First, MCS!At
<1>6. \A u \in MCS!Queued : next[u] = n => u = t
  BY <1>1, <1>3, <1>4 DEF MCS!Ordered, MCS!Queued, MCS!InCS, MCS!LinkInv
<1>7. \A u \in MCS!Queued \ {t} : rank[n] <= rank[u]
  <2>1. rank[n] = rank[t] + 1 /\ \A u \in MCS!Queued : rank[t] <= rank[u]
    BY <1>1, <1>3, <1>4 DEF MCS!Ordered
  <2>. QED  BY <1>3, <1>4, <2>1 DEF MCS!Ordered, MCS!Queued, MCS!InCS
<1>8. MCS!LinkInv'
  BY <1>1, <1>4, <1>5, <1>6 DEF MCS!TypeOK, MCS!LinkInv, MCS!Queued, MCS!InCS, MCS!At
<1>9. MCS!Ordered(rank)'
  <2>1. /\ \A u, v \in MCS!Queued' : rank[u] = rank[v] => u = v
        /\ \A u \in MCS!Queued' : rank[u] <= rank[tail']
        /\ \A u \in MCS!Queued' : next'[u] # Nil => rank[next'[u]] = rank[u] + 1
    BY <1>1, <1>3, <1>5 DEF MCS!Ordered
  <2>2. \A u, v \in MCS!Queued' : MCS!First(u)' => rank[u] <= rank[v]
    BY <1>5, <1>7
  <2>3. \A u \in QueueThread : pc'[u] = "link" => rank[u] = rank[pred'[u]] + 1
    BY <1>1, <1>3 DEF MCS!Ordered, MCS!TypeOK
  <2>. QED  BY <2>1, <2>2, <2>3 DEF MCS!Ordered
<1>. QED  BY <1>2, <1>8, <1>9

LEMMA MCSInvStep == ASSUME MCS!MCSInv, [MCS!Next]_MCS!vars PROVE MCS!MCSInv'
<1>1. CASE UNCHANGED MCS!vars
  <2>1. MCS!Queued' = MCS!Queued /\ \A u \in QueueThread : MCS!First(u)' <=> MCS!First(u)
    BY <1>1 DEF MCS!vars, MCS!Queued, MCS!InCS, MCS!First, MCS!At
  <2>2. MCS!TypeOK' /\ MCS!LinkInv'
    BY <1>1, <2>1 DEF MCS!vars, MCS!MCSInv, MCS!TypeOK, MCS!LinkInv, MCS!Queued, MCS!InCS,
                      MCS!At
  <2>3. \A rank \in [QueueThread -> Nat] : MCS!Ordered(rank) => MCS!Ordered(rank)'
    BY <1>1, <2>1 DEF MCS!vars, MCS!Ordered, MCS!Queued, MCS!InCS
  <2>. QED  BY <2>2, <2>3 DEF MCS!MCSInv
<1>. QED
  BY <1>1, MCSInvLocal, MCSInvEnqueue, MCSInvLink, MCSInvCmpxchg, MCSInvGrant
     DEF MCS!Next, MCS!Progress

\* A node of the mcslock may be reused or freed as soon as mcslock_release, or a failed
\* mcslock_tryacquire, has returned, and has_waiters reports no waiter that is not there,
\* for any set of threads.
LEMMA MCSNodesFromInv ==
    ASSUME MCS!MCSInv PROVE MCS!NodeQuiescent /\ MCS!HasWaitersSound
BY DEF MCS!MCSInv, MCS!TypeOK, MCS!LinkInv, MCS!NodeQuiescent, MCS!HasWaitersSound,
   MCS!has_waiters, MCS!Queued, MCS!InCS, MCS!At

\* The mcslock implements Mutex, progress aside, for any set of threads: who exchanges an
\* empty tail finds the queue empty, and a thread whose flag is lowered is the first of the
\* queue, which its predecessor has left.
THEOREM MCSLockRefinesMutex ==
    MCS!Spec => MCS!Mutual!Safety
<1>1. MCS!Init => MCS!MCSInv
  BY MCSInvInit
<1>2. MCS!MCSInv /\ [MCS!Next]_MCS!vars => MCS!MCSInv'
  BY MCSInvStep
<1>3. MCS!Init => MCS!Mutual!Init
  BY DEF MCS!Init, MCS!Mutual!Init, MCS!Abstract, MCS!InCS, MCS!At
<1>4. MCS!MCSInv /\ [MCS!Next]_MCS!vars => [MCS!Mutual!Next]_MCS!Abstract
  <2>. SUFFICES ASSUME MCS!MCSInv, [MCS!Next]_MCS!vars PROVE [MCS!Mutual!Next]_MCS!Abstract
    OBVIOUS
  <2>. USE DEF MCS!MCSInv, MCS!TypeOK, MCS!Step, MCS!Goto, MCS!At, MCS!Abstract, MCS!InCS
  <2>1. ASSUME NEW t \in QueueThread,
               \/ MCS!acquire_reset(t) \/ MCS!tryacquire_reset(t) \/ MCS!acquire_link(t)
                                 \/ MCS!release_read_next(t) \/ MCS!release_await_next(t)
                                 \/ MCS!release_read_succ(t)
        PROVE  UNCHANGED MCS!Abstract
    BY <2>1 DEF MCS!acquire_reset, MCS!tryacquire_reset, MCS!acquire_link,
                MCS!release_read_next,
                MCS!release_await_next, MCS!release_read_succ
  <2>2. /\ MCS!InCS = {} => MCS!Mutual!Free
        /\ tail = Nil => MCS!Mutual!Free
    BY DEF MCS!Mutual!Free, MCS!LinkInv, MCS!Queued
  <2>3. ASSUME NEW t \in QueueThread, MCS!acquire_xchg(t)
        PROVE  MCS!Mutual!Request(t) \/ MCS!Mutual!TryEnter(t)
    <3>1. CASE tail = Nil
      BY <2>2, <2>3, <3>1, Zenon DEF MCS!acquire_xchg, MCS!Mutual!TryEnter
    <3>2. CASE tail # Nil
      BY <2>3, <3>2, Zenon DEF MCS!acquire_xchg, MCS!Mutual!Request
    <3>. QED  BY <3>1, <3>2
  <2>4. ASSUME NEW t \in QueueThread, MCS!tryacquire_cmpxchg(t)
        PROVE  MCS!Mutual!TryEnter(t) \/ UNCHANGED MCS!Abstract
    <3>1. CASE tail = Nil
      BY <2>2, <2>4, <3>1, Zenon DEF MCS!tryacquire_cmpxchg, MCS!Mutual!TryEnter
    <3>2. CASE tail # Nil
      BY <2>4, <3>2 DEF MCS!tryacquire_cmpxchg
    <3>. QED  BY <3>1, <3>2
  <2>5. ASSUME NEW t \in QueueThread, MCS!acquire_await(t) PROVE MCS!Mutual!Enter(t)
    <3>1. MCS!InCS = {}
      BY <2>5 DEF MCS!acquire_await, MCS!LinkInv, MCS!First, MCS!Queued
    <3>. QED  BY <2>2, <2>5, <3>1, Zenon DEF MCS!acquire_await, MCS!Mutual!Enter
  <2>6. ASSUME NEW t \in QueueThread, MCS!release_cmpxchg(t) \/ MCS!release_grant(t)
        PROVE  MCS!Mutual!Leave(t) \/ UNCHANGED MCS!Abstract
    BY <2>6, Zenon DEF MCS!release_cmpxchg, MCS!release_grant, MCS!Mutual!Leave
  <2>7. CASE UNCHANGED MCS!vars
    BY <2>7 DEF MCS!vars
  <2>. QED
    BY <2>1, <2>3, <2>4, <2>5, <2>6, <2>7 DEF MCS!Next, MCS!Progress, MCS!Mutual!Next
<1>. QED  BY <1>1, <1>2, <1>3, <1>4, PTL DEF MCS!Spec, MCS!Mutual!Safety

-----------------------------------------------------------------------------
CLH == INSTANCE CLHLock WITH Thread <- QueueThread, Initial <- Nil

LEMMA CLHInvInit == ASSUME CLH!Init PROVE CLH!CLHInv
BY DEF CLH!Init, CLH!CLHInv, CLH!TypeOK, CLH!NodesDisjoint, CLH!NodeInv, CLH!Queued,
       CLH!InCS, CLH!Owned, CLH!Qnode, CLH!At

LEMMA CLHInvStep == ASSUME CLH!CLHInv, [CLH!Next]_CLH!vars PROVE CLH!CLHInv'
<1>. USE DEF CLH!CLHInv, CLH!TypeOK, CLH!NodesDisjoint, CLH!NodeInv, CLH!Queued, CLH!InCS,
             CLH!Owned, CLH!At, CLH!Step, CLH!Goto
<1>1. ASSUME NEW t \in QueueThread, CLH!acquire_set(t) PROVE CLH!CLHInv'
  BY <1>1 DEF CLH!acquire_set
<1>2. ASSUME NEW t \in QueueThread, CLH!acquire_xchg(t) PROVE CLH!CLHInv'
  BY <1>2 DEF CLH!acquire_xchg
<1>3. ASSUME NEW t \in QueueThread, CLH!acquire_await(t) PROVE CLH!CLHInv'
  BY <1>3 DEF CLH!acquire_await
<1>4. ASSUME NEW t \in QueueThread, CLH!release(t) PROVE CLH!CLHInv'
  <2>1. /\ pc[t] = "cs" /\ pc' = [pc EXCEPT ![t] = "idle"]
        /\ locked' = [locked EXCEPT ![qnode[t]] = 0]
        /\ qnode' = [qnode EXCEPT ![t] = pred[t]]
        /\ pred' = [pred EXCEPT ![t] = t] /\ UNCHANGED tail
    BY <1>4 DEF CLH!release
  <2>2. pred[t] \in CLH!Qnode /\ ~CLH!Owned(pred[t]) /\ locked[pred[t]] = 0 /\ CLH!InCS = {t}
    BY <2>1
  <2>3. CLH!TypeOK'
    BY <2>1 DEF CLH!Qnode
  <2>4. CLH!NodesDisjoint'
    BY <2>1, <2>2
  <2>5. \A q \in CLH!Qnode : CLH!Owned(q)' <=> q # qnode[t]
    BY <2>1, <2>2
  <2>6. CLH!NodeInv'
    BY <2>1, <2>2, <2>5
  <2>. QED  BY <2>3, <2>4, <2>6
<1>5. CASE UNCHANGED CLH!vars
  BY <1>5 DEF CLH!vars
<1>. QED  BY <1>1, <1>2, <1>3, <1>4, <1>5 DEF CLH!Next, CLH!Progress

LEMMA QueueInvInit == ASSUME CLH!Init PROVE CLH!QueueInv
<1>1. CLH!Queued = {}
  BY DEF CLH!Init, CLH!Queued, CLH!At
<1>2. CLH!Ordered([t \in QueueThread |-> 0])
  BY <1>1 DEF CLH!Ordered
<1>. QED  BY <1>1, <1>2 DEF CLH!QueueInv

LEMMA QueueInvStep == ASSUME CLH!CLHInv, CLH!QueueInv, [CLH!Next]_CLH!vars PROVE CLH!QueueInv'
<1>. USE DEF CLH!CLHInv, CLH!TypeOK, CLH!Step, CLH!Goto, CLH!At
<1>1. PICK rank \in [QueueThread -> Nat] : CLH!Ordered(rank)
  BY DEF CLH!QueueInv
<1>2. ASSUME CLH!Queued' = CLH!Queued, UNCHANGED <<tail, qnode, pred>> PROVE CLH!QueueInv'
  <2>1. CLH!Ordered(rank)'
    BY <1>1, <1>2 DEF CLH!Ordered, CLH!Owned
  <2>. QED  BY <1>2, <2>1 DEF CLH!QueueInv
<1>3. ASSUME NEW t \in QueueThread, CLH!acquire_set(t) PROVE CLH!QueueInv'
  BY <1>2, <1>3 DEF CLH!acquire_set, CLH!Queued
<1>4. ASSUME NEW t \in QueueThread, CLH!acquire_await(t) PROVE CLH!QueueInv'
  BY <1>2, <1>4 DEF CLH!acquire_await, CLH!Queued
<1>5. ASSUME NEW t \in QueueThread, CLH!acquire_xchg(t) PROVE CLH!QueueInv'
  <2>1. /\ t \notin CLH!Queued /\ CLH!Queued' = CLH!Queued \cup {t}
        /\ pred' = [pred EXCEPT ![t] = tail] /\ tail' = qnode[t] /\ UNCHANGED qnode
    BY <1>5 DEF CLH!acquire_xchg, CLH!Queued
  <2>2. CASE CLH!Queued = {}
    <3>1. CLH!Ordered(rank)'
      BY <1>1, <2>1, <2>2, <1>5 DEF CLH!Ordered, CLH!NodesDisjoint, CLH!acquire_xchg
    <3>. QED  BY <2>1, <3>1 DEF CLH!QueueInv
  <2>3. CASE CLH!Queued # {}
    <3>1. PICK last \in CLH!Queued : tail = qnode[last]
      BY <2>3 DEF CLH!QueueInv
    <3>2. PICK after \in [QueueThread -> Nat] : /\ after[t] = rank[last] + 1
                                           /\ \A u \in CLH!Queued : after[u] = rank[u]
      <4>1. [rank EXCEPT ![t] = rank[last] + 1] \in [QueueThread -> Nat]
        BY <3>1 DEF CLH!Queued
      <4>. QED  BY <2>1, <4>1, Zenon DEF CLH!Queued
    <3>3. /\ \A u \in CLH!Queued : pred'[u] = pred[u] /\ pred[u] # qnode[t]
          /\ pred'[t] = qnode[last] /\ CLH!Owned(qnode[last])
          /\ \A u \in CLH!Queued : rank[u] \in Nat /\ rank[u] <= rank[last] /\ qnode[u] # qnode[t]
      BY <1>1, <1>5, <2>1, <3>1 DEF CLH!Ordered, CLH!acquire_xchg, CLH!NodeInv,
                                    CLH!NodesDisjoint, CLH!Owned, CLH!Queued
    <3>4. \A u, v \in CLH!Queued' : after[u] = after[v] => u = v
      BY <1>1, <2>1, <3>1, <3>2, <3>3 DEF CLH!Ordered
    <3>5. \A u, v \in CLH!Queued' : tail' = qnode'[u] => after[v] <= after[u]
      BY <2>1, <3>1, <3>2, <3>3
    <3>6. \A u, v \in CLH!Queued' : pred'[u] = qnode'[v] => after[u] = after[v] + 1
      BY <1>1, <1>5, <2>1, <3>1, <3>2, <3>3 DEF CLH!Ordered, CLH!acquire_xchg,
                                                CLH!NodesDisjoint, CLH!Queued
    <3>7. \A u, v \in CLH!Queued' : ~CLH!Owned(pred[u])' => after[u] <= after[v]
      <4>1. \A u \in CLH!Queued' : ~CLH!Owned(pred[u])' => u \in CLH!Queued /\ ~CLH!Owned(pred[u])
        BY <2>1, <3>1, <3>3 DEF CLH!Owned
      <4>. QED  BY <1>1, <2>1, <3>1, <3>2, <3>3, <4>1 DEF CLH!Ordered
    <3>8. CLH!Ordered(after)'
      BY <3>4, <3>5, <3>6, <3>7 DEF CLH!Ordered
    <3>. QED  BY <2>1, <3>8 DEF CLH!QueueInv
  <2>. QED  BY <2>2, <2>3
<1>6. ASSUME NEW t \in QueueThread, CLH!release(t) PROVE CLH!QueueInv'
  <2>1. /\ t \in CLH!Queued /\ CLH!Queued' = CLH!Queued \ {t}
        /\ ~CLH!Owned(pred[t]) /\ pred[t] \in CLH!Qnode
        /\ qnode' = [qnode EXCEPT ![t] = pred[t]]
        /\ pred' = [pred EXCEPT ![t] = t] /\ UNCHANGED tail
    BY <1>6 DEF CLH!release, CLH!Queued, CLH!InCS, CLH!NodesDisjoint, CLH!Owned
  <2>2. \A u \in CLH!Queued \ {t} : /\ qnode'[u] = qnode[u] /\ pred'[u] = pred[u]
                                /\ rank[u] \in Nat /\ rank[t] \in Nat /\ rank[t] < rank[u]
    BY <1>1, <2>1 DEF CLH!Ordered, CLH!Queued
  <2>3. \A u \in CLH!Queued \ {t} : tail # qnode[t] /\ tail # qnode'[t]
    BY <1>1, <2>1, <2>2 DEF CLH!Ordered, CLH!NodeInv
  <2>4. CLH!Queued' # {} => \E u \in CLH!Queued' : tail' = qnode'[u]
    BY <2>1, <2>2, <2>3 DEF CLH!QueueInv
  <2>5. \A u, v \in CLH!Queued' : ~CLH!Owned(pred[u])' => rank[u] <= rank[v]
    <3>1. \A q \in CLH!Qnode : CLH!Owned(q)' <=> q # qnode[t]
      BY <2>1 DEF CLH!NodeInv, CLH!NodesDisjoint, CLH!Owned
    <3>2. \A u \in CLH!Queued' : ~CLH!Owned(pred[u])' => pred[u] = qnode[t]
      BY <2>1, <2>2, <3>1 DEF CLH!Owned, CLH!Queued
    <3>3. \A u \in CLH!Queued' : ~CLH!Owned(pred[u])' => rank[u] = rank[t] + 1
      BY <1>1, <2>1, <3>2 DEF CLH!Ordered
    <3>. QED  BY <2>1, <2>2, <3>3
  <2>6. CLH!Ordered(rank)'
    BY <1>1, <2>1, <2>2, <2>5 DEF CLH!Ordered
  <2>. QED  BY <2>4, <2>6 DEF CLH!QueueInv
<1>7. CASE UNCHANGED CLH!vars
  BY <1>2, <1>7 DEF CLH!vars, CLH!Queued
<1>. QED  BY <1>3, <1>4, <1>5, <1>6, <1>7 DEF CLH!Next, CLH!Progress

\* The nodes of the clhlock stay apart for any set of threads, although every release
\* recycles the node of the thread in front: no thread spins on, or raises, a node that
\* another thread uses.  The holder's has_waiters is exact.
LEMMA CLHNodesFromInv ==
    ASSUME CLH!CLHInv, CLH!QueueInv PROVE CLH!NodesDisjoint /\ CLH!HasWaitersExact
<1>. SUFFICES ASSUME NEW t \in CLH!InCS PROVE tail # qnode[t] <=> CLH!Queued # {t}
  BY DEF CLH!CLHInv, CLH!HasWaitersExact, CLH!has_waiters
<1>1. PICK rank \in [QueueThread -> Nat] : CLH!Ordered(rank)
  BY DEF CLH!QueueInv
<1>2. t \in CLH!Queued /\ ~CLH!Owned(pred[t])
  BY DEF CLH!CLHInv, CLH!NodesDisjoint, CLH!InCS, CLH!Queued, CLH!Owned, CLH!At
<1>3. ASSUME tail = qnode[t], NEW u \in CLH!Queued PROVE u = t
  BY <1>1, <1>2, <1>3 DEF CLH!Ordered, CLH!Queued
<1>4. CLH!Queued = {t} => tail = qnode[t]
  BY DEF CLH!QueueInv
<1>. QED  BY <1>2, <1>3, <1>4

\* The clhlock implements Mutex, progress aside: a thread that finds its predecessor's flag
\* lowered is waiting for the one node that is nobody's, so no other thread is inside.
THEOREM CLHLockRefinesMutex ==
    CLH!Spec => CLH!Mutual!Safety
<1>1. CLH!Init => CLH!CLHInv
  BY CLHInvInit
<1>2. CLH!CLHInv /\ [CLH!Next]_CLH!vars => CLH!CLHInv'
  BY CLHInvStep
<1>3. CLH!Init => CLH!Mutual!Init
  BY DEF CLH!Init, CLH!Mutual!Init, CLH!Abstract, CLH!At
<1>4. CLH!CLHInv /\ [CLH!Next]_CLH!vars => [CLH!Mutual!Next]_CLH!Abstract
  <2>. SUFFICES ASSUME CLH!CLHInv, [CLH!Next]_CLH!vars PROVE [CLH!Mutual!Next]_CLH!Abstract
    OBVIOUS
  <2>. USE DEF CLH!CLHInv, CLH!TypeOK, CLH!Step, CLH!Goto, CLH!At, CLH!Abstract
  <2>1. ASSUME NEW t \in QueueThread, CLH!acquire_set(t) PROVE UNCHANGED CLH!Abstract
    BY <2>1 DEF CLH!acquire_set
  <2>2. ASSUME NEW t \in QueueThread, CLH!acquire_xchg(t) PROVE CLH!Mutual!Request(t)
    BY <2>2, Zenon DEF CLH!acquire_xchg, CLH!Mutual!Request
  <2>3. ASSUME NEW t \in QueueThread, CLH!acquire_await(t) PROVE CLH!Mutual!Enter(t)
    <3>1. ~CLH!Owned(pred[t])
      BY <2>3 DEF CLH!acquire_await, CLH!NodeInv, CLH!Owned, CLH!Queued
    <3>2. \A u \in QueueThread : pc[u] # "cs"
      BY <2>3, <3>1 DEF CLH!acquire_await, CLH!NodeInv, CLH!NodesDisjoint, CLH!Owned,
                        CLH!Queued, CLH!InCS
    <3>3. CLH!Mutual!Free
      BY <3>2 DEF CLH!Mutual!Free
    <3>. QED  BY <2>3, <3>3, Zenon DEF CLH!acquire_await, CLH!Mutual!Enter
  <2>4. ASSUME NEW t \in QueueThread, CLH!release(t) PROVE CLH!Mutual!Leave(t)
    BY <2>4, Zenon DEF CLH!release, CLH!Mutual!Leave
  <2>5. CASE UNCHANGED CLH!vars
    BY <2>5 DEF CLH!vars
  <2>. QED
    BY <2>1, <2>2, <2>3, <2>4, <2>5 DEF CLH!Next, CLH!Progress, CLH!Mutual!Next
<1>. QED  BY <1>1, <1>2, <1>3, <1>4, PTL DEF CLH!Spec, CLH!Mutual!Safety

-----------------------------------------------------------------------------
\* the clhlock counts with the same Cardinality
LEMMA CLHCardinality == \A S : CLH!Cardinality(S) = Cardinality(S)
BY DEF Cardinality, IsFiniteSet, CLH!Cardinality, CLH!IsFiniteSet

LEMMA CLHQueued ==
    /\ CLH!Queued \subseteq QueueThread /\ Cardinality(CLH!Queued) \in Nat
    /\ CLH!Queued = {} <=> Cardinality(CLH!Queued) = 0
    /\ \A t \in QueueThread \ CLH!Queued :
          Cardinality(CLH!Queued \cup {t}) = Cardinality(CLH!Queued) + 1
    /\ \A t \in CLH!Queued : Cardinality(CLH!Queued \ {t}) = Cardinality(CLH!Queued) - 1
<1>1. CLH!Queued \subseteq QueueThread
  BY DEF CLH!Queued
<1>2. /\ IsFiniteSet(CLH!Queued) /\ Cardinality(CLH!Queued) \in Nat
      /\ CLH!Queued = {} <=> Cardinality(CLH!Queued) = 0
  BY <1>1, QueueParameters, FS_Subset, FS_CardinalityType, FS_EmptySet
<1>3. /\ \A t \in QueueThread \ CLH!Queued :
            Cardinality(CLH!Queued \cup {t}) = Cardinality(CLH!Queued) + 1
      /\ \A t \in CLH!Queued : Cardinality(CLH!Queued \ {t}) = Cardinality(CLH!Queued) - 1
  BY <1>2, FS_AddElement, FS_RemoveElement, Zenon
<1>. QED  BY <1>1, <1>2, <1>3

LEMMA CLHIsQueueNow ==
    ASSUME NEW q, CLH!IsQueue(q), NEW n, n = Cardinality(CLH!Queued)
    PROVE  /\ q \in [1 .. n -> CLH!Queued]
           /\ \A i, j \in 1 .. n : q[i] = q[j] => i = j
           /\ n > 0 => ~CLH!Owned(pred[q[1]]) /\ tail = qnode[q[n]]
           /\ \A i \in 2 .. n : pred[q[i]] = qnode[q[i - 1]]
BY CLHCardinality DEF CLH!IsQueue

LEMMA CLHIsQueueNext ==
    ASSUME NEW q, NEW n, n = Cardinality(CLH!Queued'),
           q \in [1 .. n -> CLH!Queued'],
           \A i, j \in 1 .. n : q[i] = q[j] => i = j,
           n > 0 => (\A v \in QueueThread : pred'[q[1]] # qnode'[v]) /\ tail' = qnode'[q[n]],
           \A i \in 2 .. n : pred'[q[i]] = qnode'[q[i - 1]]
    PROVE  CLH!IsQueue(q)' /\ CLH!HasQueue'
<1>1. CLH!IsQueue(q)'
  BY CLHCardinality DEF CLH!IsQueue, CLH!Owned
<1>2. q \in [1 .. CLH!Cardinality(CLH!Queued') -> CLH!Queued']
  BY CLHCardinality
<1>. QED  BY <1>1, <1>2 DEF CLH!HasQueue

\* The exchange of tail joins the queue at its end.
LEMMA CLHJoin ==
    ASSUME CLH!CLHInv, NEW t \in QueueThread, CLH!acquire_xchg(t), NEW q, CLH!IsQueue(q)
    PROVE  CLH!IsQueue(Append(q, t))' /\ CLH!HasQueue'
<1>1. PICK n \in Nat : n = Cardinality(CLH!Queued)
  BY CLHQueued
<1>2. /\ pc[t] = "xchg" /\ t \notin CLH!Queued /\ CLH!Queued' = CLH!Queued \cup {t}
      /\ pred'[t] = tail /\ tail' = qnode[t] /\ qnode' = qnode
      /\ \A u \in CLH!Queued : u \in QueueThread /\ pred'[u] = pred[u]
  BY DEF CLH!acquire_xchg, CLH!Queued, CLH!CLHInv, CLH!TypeOK, CLH!Step, CLH!Goto, CLH!At
<1>3. Cardinality(CLH!Queued') = n + 1
  BY <1>1, <1>2, CLHQueued
<1>4. /\ q \in [1 .. n -> CLH!Queued]
      /\ \A i, j \in 1 .. n : q[i] = q[j] => i = j
      /\ n > 0 => ~CLH!Owned(pred[q[1]]) /\ tail = qnode[q[n]]
      /\ \A i \in 2 .. n : pred[q[i]] = qnode[q[i - 1]]
  BY <1>1, CLHIsQueueNow
<1>5. PICK r : r = [i \in 1 .. n + 1 |-> IF i = n + 1 THEN t ELSE q[i]]
  BY Zenon
<1>6. r = Append(q, t)
  <2>1. /\ q \in [1 .. n -> CLH!Queued] /\ r \in [1 .. n + 1 -> CLH!Queued \cup {t}]
        /\ r[n + 1] = t /\ \A i \in 1 .. n : r[i] = q[i]
    BY <1>4, <1>5
  <2>. QED  BY <2>1, JoinQueue, Zenon
<1>7. r \in [1 .. n + 1 -> CLH!Queued']
  BY <1>2, <1>4, <1>5
<1>8. \A i, j \in 1 .. n + 1 : r[i] = r[j] => i = j
  BY <1>2, <1>4, <1>5
<1>9. \A v \in QueueThread : pred'[r[1]] # qnode'[v]
  <2>1. CASE n = 0
    <3>1. \A v \in QueueThread : pc[v] \in {"idle", "xchg"}
      BY <1>1, <2>1, CLHQueued DEF CLH!Queued, CLH!CLHInv, CLH!TypeOK, CLH!At
    <3>2. r[1] = t
      BY <1>5, <2>1
    <3>. QED  BY <1>2, <3>1, <3>2 DEF CLH!CLHInv, CLH!NodesDisjoint
  <2>2. CASE n > 0
    <3>1. r[1] = q[1] /\ q[1] \in CLH!Queued
      BY <1>4, <1>5, <2>2
    <3>. QED  BY <1>2, <1>4, <2>2, <3>1 DEF CLH!Owned
  <2>. QED  BY <2>1, <2>2
<1>10. tail' = qnode'[r[n + 1]]
  BY <1>2, <1>5
<1>11. \A i \in 2 .. n + 1 : pred'[r[i]] = qnode'[r[i - 1]]
  <2>. SUFFICES ASSUME NEW i \in 2 .. n + 1 PROVE pred'[r[i]] = qnode'[r[i - 1]]
    OBVIOUS
  <2>1. CASE i = n + 1
    BY <1>2, <1>4, <1>5, <2>1
  <2>2. CASE i \in 2 .. n
    BY <1>2, <1>4, <1>5, <2>2
  <2>. QED  BY <2>1, <2>2
<1>12. CLH!IsQueue(r)' /\ CLH!HasQueue'
  BY <1>3, <1>7, <1>8, <1>9, <1>10, <1>11, CLHIsQueueNext, SMTT(30)
<1>. QED  BY <1>6, <1>12

\* Release leaves the head of the queue.
LEMMA CLHLeave ==
    ASSUME CLH!CLHInv, NEW t \in QueueThread, CLH!release(t), NEW q, CLH!IsQueue(q)
    PROVE  /\ q # <<>> /\ Head(q) = t /\ q[1] = t /\ 1 \in DOMAIN q
           /\ CLH!IsQueue(Tail(q))' /\ CLH!HasQueue'
<1>1. PICK n \in Nat : n = Cardinality(CLH!Queued)
  BY CLHQueued
<1>2. /\ t \in CLH!Queued /\ CLH!Queued' = CLH!Queued \ {t} /\ t \in CLH!InCS
      /\ tail' = tail /\ qnode'[t] = pred[t] /\ pred[t] \in CLH!Qnode
      /\ \A u \in QueueThread \ {t} : pred'[u] = pred[u] /\ qnode'[u] = qnode[u]
      /\ CLH!Queued \subseteq QueueThread
  BY DEF CLH!release, CLH!Queued, CLH!InCS, CLH!CLHInv, CLH!TypeOK, CLH!Step, CLH!Goto,
         CLH!At
<1>3. Cardinality(CLH!Queued') = n - 1 /\ n > 0
  BY <1>1, <1>2, CLHQueued
<1>4. /\ q \in [1 .. n -> CLH!Queued]
      /\ \A i, j \in 1 .. n : q[i] = q[j] => i = j
      /\ ~CLH!Owned(pred[q[1]]) /\ tail = qnode[q[n]]
      /\ \A i \in 2 .. n : pred[q[i]] = qnode[q[i - 1]]
  BY <1>1, <1>3, CLHIsQueueNow
<1>5. q[1] = t
  <2>1. q[1] \in CLH!Queued /\ pred[q[1]] \in CLH!Qnode
    BY <1>2, <1>3, <1>4 DEF CLH!CLHInv, CLH!TypeOK
  <2>2. ~CLH!Owned(pred[t])
    BY <1>2 DEF CLH!CLHInv, CLH!NodesDisjoint, CLH!Owned
  <2>3. pred[q[1]] = pred[t]
    BY <1>2, <1>4, <2>1, <2>2 DEF CLH!CLHInv, CLH!NodeInv
  <2>. QED  BY <1>2, <2>1, <2>3 DEF CLH!CLHInv, CLH!NodesDisjoint
<1>6. PICK r : r = [i \in 1 .. n - 1 |-> q[i + 1]]
  BY Zenon
<1>7. q # <<>> /\ Head(q) = q[1] /\ r = Tail(q)
  <2>1. n \in Nat \ {0}
    BY <1>3
  <2>2. q \in [1 .. n -> CLH!Queued]
    BY <1>4
  <2>. QED  BY <1>6, <2>1, <2>2, LeaveQueue, Zenon
<1>8. \A i \in 2 .. n : q[i] \in CLH!Queued' /\ q[i] # t /\ q[i] \in QueueThread
  BY <1>2, <1>4, <1>5
<1>9. r \in [1 .. n - 1 -> CLH!Queued']
  BY <1>6, <1>8
<1>10. \A i, j \in 1 .. n - 1 : r[i] = r[j] => i = j
  BY <1>4, <1>6
<1>11. ASSUME n - 1 > 0
       PROVE  (\A v \in QueueThread : pred'[r[1]] # qnode'[v]) /\ tail' = qnode'[r[n - 1]]
  <2>1. r[1] = q[2] /\ r[n - 1] = q[n]
    BY <1>6, <1>11
  <2>2. pred'[q[2]] = qnode[t]
    BY <1>2, <1>4, <1>5, <1>8, <1>11
  <2>3. \A v \in QueueThread : qnode'[v] # qnode[t]
    <3>1. qnode'[t] # qnode[t]
      BY <1>2 DEF CLH!CLHInv, CLH!NodesDisjoint
    <3>. QED  BY <1>2, <3>1 DEF CLH!CLHInv, CLH!NodesDisjoint
  <2>. QED  BY <1>2, <1>4, <1>8, <1>11, <2>1, <2>2, <2>3
<1>12. \A i \in 2 .. n - 1 : pred'[r[i]] = qnode'[r[i - 1]]
  <2>. SUFFICES ASSUME NEW i \in 2 .. n - 1 PROVE pred'[r[i]] = qnode'[r[i - 1]]
    OBVIOUS
  <2>1. r[i] = q[i + 1] /\ r[i - 1] = q[i] /\ i + 1 \in 2 .. n /\ i \in 2 .. n
    BY <1>6
  <2>2. pred[q[i + 1]] = qnode[q[(i + 1) - 1]] /\ (i + 1) - 1 = i
    BY <1>4, <2>1
  <2>. QED  BY <1>2, <1>8, <2>1, <2>2
<1>13. CLH!IsQueue(r)' /\ CLH!HasQueue'
  <2>1. Cardinality(CLH!Queued') = n - 1
    BY <1>3
  <2>. HIDE DEF CLH!IsQueue, CLH!HasQueue
  <2>. QED  BY <2>1, <1>9, <1>10, <1>11, <1>12, CLHIsQueueNext
<1>. QED  BY <1>3, <1>4, <1>5, <1>7, <1>13

\* The other steps leave the queue alone.
LEMMA CLHStay ==
    ASSUME NEW q, CLH!IsQueue(q), CLH!Queued' = CLH!Queued, UNCHANGED <<tail, qnode, pred>>
    PROVE  CLH!IsQueue(q)' /\ CLH!HasQueue'
<1>1. CLH!IsQueue(q)'
  BY CLHCardinality DEF CLH!IsQueue, CLH!Owned
<1>2. q \in [1 .. CLH!Cardinality(CLH!Queued') -> CLH!Queued']
  BY CLHCardinality DEF CLH!IsQueue
<1>. QED  BY <1>1, <1>2 DEF CLH!HasQueue

LEMMA CLHOneQueue == ASSUME CLH!CLHInv, CLH!HasQueue PROVE CLH!OneQueue
<1>1. PICK n \in Nat : n = Cardinality(CLH!Queued)
  BY CLHQueued
<1>2. ASSUME NEW p, NEW q, CLH!IsQueue(p), CLH!IsQueue(q) PROVE p = q
  <2>1. p \in [1 .. n -> CLH!Queued] /\ q \in [1 .. n -> CLH!Queued]
    BY <1>1, <1>2, CLHIsQueueNow
  <2>2. /\ n > 0 => ~CLH!Owned(pred[p[1]]) /\ ~CLH!Owned(pred[q[1]])
        /\ \A i \in 2 .. n : pred[p[i]] = qnode[p[i - 1]] /\ pred[q[i]] = qnode[q[i - 1]]
    BY <1>1, <1>2, CLHIsQueueNow
  <2>3. \A u, v \in CLH!Queued : pred[u] = pred[v] => u = v
    BY DEF CLH!CLHInv, CLH!NodesDisjoint
  <2>4. \A u, v \in CLH!Queued : ~CLH!Owned(pred[u]) /\ ~CLH!Owned(pred[v]) => u = v
    BY <2>3 DEF CLH!CLHInv, CLH!NodeInv, CLH!TypeOK, CLH!Queued
  <2>5. n > 0 => p[1] = q[1]
    BY <2>1, <2>2, <2>4
  <2>6. \A i \in 2 .. n : p[i - 1] = q[i - 1] => p[i] = q[i]
    BY <2>1, <2>2, <2>3
  <2>. QED  BY <2>1, <2>5, <2>6, SameChain, Zenon
<1>3. CLH!IsQueue(CLH!Queue)
  BY DEF CLH!HasQueue, CLH!Queue
<1>. QED  BY <1>2, <1>3 DEF CLH!OneQueue

\* The clhlock implements FifoLock, progress aside: the exchange of tail joins the queue,
\* threads enter from its head only, and release leaves it.
THEOREM CLHLockRefinesFifoLock ==
    CLH!Spec => CLH!Fifo!Safety
<1>1. CLH!Init => CLH!CLHInv
  BY CLHInvInit
<1>2. CLH!CLHInv /\ [CLH!Next]_CLH!vars => CLH!CLHInv'
  BY CLHInvStep
<1>3. CLH!CLHInv /\ CLH!HasQueue => CLH!OneQueue
  BY CLHOneQueue
<1>4. CLH!Init => CLH!HasQueue /\ CLH!Fifo!Init
  <2>. SUFFICES ASSUME CLH!Init PROVE CLH!HasQueue /\ CLH!Fifo!Init
    OBVIOUS
  <2>1. CLH!Queued = {} /\ CLH!InCS = {}
    BY DEF CLH!Init, CLH!Queued, CLH!InCS, CLH!At
  <2>2. CLH!Cardinality(CLH!Queued) = 0
    BY <2>1, CLHCardinality, CLHQueued
  <2>3. <<>> \in [1 .. 0 -> CLH!Queued] /\ CLH!IsQueue(<<>>)
    BY <2>2 DEF CLH!IsQueue
  <2>4. CLH!HasQueue
    BY <2>2, <2>3, Zenon DEF CLH!HasQueue
  <2>5. CLH!Queue = <<>>
    BY <1>1, <1>3, <2>2, <2>3, <2>4, Zenon DEF CLH!OneQueue
  <2>. QED  BY <2>1, <2>4, <2>5 DEF CLH!Fifo!Init
<1>5. ASSUME NEW t \in QueueThread, CLH!CLHInv, CLH!acquire_set(t) \/ CLH!acquire_await(t)
      PROVE  CLH!Queued' = CLH!Queued /\ UNCHANGED <<tail, qnode, pred>>
  BY <1>5 DEF CLH!acquire_set, CLH!acquire_await, CLH!Queued, CLH!CLHInv, CLH!TypeOK,
              CLH!Step, CLH!Goto, CLH!At
<1>6. ASSUME UNCHANGED CLH!vars
      PROVE  CLH!Queued' = CLH!Queued /\ UNCHANGED <<tail, qnode, pred>>
  BY <1>6 DEF CLH!vars, CLH!Queued, CLH!At
<1>7. CLH!CLHInv /\ CLH!HasQueue /\ [CLH!Next]_CLH!vars => CLH!HasQueue'
  <2>. SUFFICES ASSUME CLH!CLHInv, CLH!HasQueue, [CLH!Next]_CLH!vars PROVE CLH!HasQueue'
    OBVIOUS
  <2>1. PICK q : CLH!IsQueue(q)
    BY DEF CLH!HasQueue
  <2>. QED  BY <1>5, <1>6, <2>1, CLHJoin, CLHLeave, CLHStay DEF CLH!Next, CLH!Progress
<1>8. CLH!CLHInv /\ CLH!OneQueue /\ CLH!OneQueue' /\ [CLH!Next]_CLH!vars
        => [CLH!Fifo!Next]_<<CLH!Queue, CLH!InCS # {}>>
  <2>. SUFFICES ASSUME CLH!CLHInv, CLH!OneQueue, CLH!OneQueue', [CLH!Next]_CLH!vars
                PROVE  [CLH!Fifo!Next]_<<CLH!Queue, CLH!InCS # {}>>
    OBVIOUS
  <2>1. PICK q : q = CLH!Queue
    OBVIOUS
  <2>2. CLH!IsQueue(q)
    BY <2>1 DEF CLH!OneQueue
  <2>3. ASSUME NEW r, CLH!IsQueue(r)' PROVE CLH!Queue' = r
    BY <2>3, Zenon DEF CLH!OneQueue, CLH!IsQueue
  <2>4. ASSUME NEW t \in QueueThread, CLH!acquire_set(t)
        PROVE  UNCHANGED <<CLH!Queue, CLH!InCS # {}>>
    <3>1. CLH!Queue' = q
      BY <1>5, <2>2, <2>3, <2>4, CLHStay
    <3>2. CLH!InCS' = CLH!InCS
      BY <2>4 DEF CLH!acquire_set, CLH!InCS, CLH!CLHInv, CLH!TypeOK, CLH!Step, CLH!Goto
    <3>. QED  BY <2>1, <3>1, <3>2
  <2>5. ASSUME NEW t \in QueueThread, CLH!acquire_xchg(t) PROVE CLH!Fifo!Arrive(t)
    <3>1. CLH!Queue' = Append(CLH!Queue, t)
      BY <2>1, <2>2, <2>3, <2>5, CLHJoin, Zenon
    <3>2. CLH!InCS' = CLH!InCS /\ t \notin CLH!Queued
      BY <2>5 DEF CLH!acquire_xchg, CLH!InCS, CLH!Queued, CLH!CLHInv, CLH!TypeOK, CLH!Step,
                  CLH!Goto, CLH!At
    <3>3. ~CLH!Fifo!Queued(t)
      BY <2>1, <2>2, <3>2 DEF CLH!Fifo!Queued, CLH!IsQueue
    <3>. QED  BY <3>1, <3>2, <3>3 DEF CLH!Fifo!Arrive
  <2>6. ASSUME NEW t \in QueueThread, CLH!acquire_await(t) PROVE CLH!Fifo!Enter(t)
    <3>1. CLH!Queue' = q
      BY <1>5, <2>2, <2>3, <2>6, CLHStay
    <3>2. t \in CLH!Queued /\ t \in CLH!InCS' /\ locked[pred[t]] = 0 /\ pc[t] = "await"
      BY <2>6 DEF CLH!acquire_await, CLH!InCS, CLH!Queued, CLH!CLHInv, CLH!TypeOK, CLH!Step,
                  CLH!Goto, CLH!At
    <3>3. ~CLH!Owned(pred[t])
      BY <3>2 DEF CLH!CLHInv, CLH!NodeInv, CLH!Owned, CLH!Queued, CLH!At
    <3>4. CLH!InCS = {}
      BY <3>2, <3>3 DEF CLH!CLHInv, CLH!TypeOK, CLH!NodeInv, CLH!NodesDisjoint, CLH!Owned,
                        CLH!Queued, CLH!InCS, CLH!At
    <3>5. PICK n \in Nat : n = Cardinality(CLH!Queued) /\ n > 0
      BY <3>2, CLHQueued
    <3>6. q \in [1 .. n -> CLH!Queued] /\ ~CLH!Owned(pred[q[1]])
      BY <2>2, <3>5, CLHIsQueueNow
    <3>7. q[1] = t
      BY <3>2, <3>3, <3>5, <3>6 DEF CLH!CLHInv, CLH!TypeOK, CLH!NodeInv, CLH!NodesDisjoint,
                                    CLH!Queued
    <3>8. CLH!Fifo!Queued(t) /\ t = Head(CLH!Queue)
      BY <2>1, <3>5, <3>6, <3>7, LeaveQueue DEF CLH!Fifo!Queued
    <3>. QED  BY <2>1, <3>1, <3>2, <3>4, <3>8 DEF CLH!Fifo!Enter
  <2>7. ASSUME NEW t \in QueueThread, CLH!release(t) PROVE CLH!Fifo!Leave(t)
    <3>1. /\ q # <<>> /\ Head(q) = t /\ q[1] = t /\ 1 \in DOMAIN q
          /\ CLH!IsQueue(Tail(q))'
      BY <2>2, <2>7, CLHLeave
    <3>2. CLH!Queue' = Tail(CLH!Queue) /\ CLH!Fifo!Queued(t)
      BY <2>1, <2>3, <3>1, Zenon DEF CLH!Fifo!Queued
    <3>3. t \in CLH!InCS /\ CLH!InCS' = CLH!InCS \ {t} /\ CLH!InCS \subseteq QueueThread
      BY <2>7 DEF CLH!release, CLH!InCS, CLH!CLHInv, CLH!TypeOK, CLH!Step, CLH!Goto
    <3>4. CLH!InCS = {t}
      BY <3>3 DEF CLH!CLHInv, CLH!TypeOK, CLH!NodeInv, CLH!NodesDisjoint, CLH!Owned,
                  CLH!Queued, CLH!InCS, CLH!At
    <3>. QED  BY <2>1, <3>1, <3>2, <3>3, <3>4 DEF CLH!Fifo!Leave
  <2>8. CASE UNCHANGED CLH!vars
    <3>1. CLH!Queue' = q
      BY <1>6, <2>2, <2>3, <2>8, CLHStay
    <3>2. CLH!InCS' = CLH!InCS
      BY <2>8 DEF CLH!vars, CLH!InCS
    <3>. QED  BY <2>1, <3>1, <3>2
  <2>. QED
    BY <2>4, <2>5, <2>6, <2>7, <2>8 DEF CLH!Next, CLH!Progress, CLH!Fifo!Next
<1>. QED
  BY <1>1, <1>2, <1>3, <1>4, <1>7, <1>8, PTL DEF CLH!Spec, CLH!Fifo!Safety, CLH!Fifo!vars

-----------------------------------------------------------------------------
\* the mcslock counts with the same Cardinality
LEMMA MCSCardinality == \A S : MCS!Cardinality(S) = Cardinality(S)
BY DEF Cardinality, IsFiniteSet, MCS!Cardinality, MCS!IsFiniteSet

LEMMA MCSQueued ==
    /\ MCS!Queued \subseteq QueueThread /\ Cardinality(MCS!Queued) \in Nat
    /\ MCS!Queued = {} <=> Cardinality(MCS!Queued) = 0
    /\ \A t \in QueueThread \ MCS!Queued :
          Cardinality(MCS!Queued \cup {t}) = Cardinality(MCS!Queued) + 1
    /\ \A t \in MCS!Queued : Cardinality(MCS!Queued \ {t}) = Cardinality(MCS!Queued) - 1
<1>1. MCS!Queued \subseteq QueueThread
  BY DEF MCS!Queued, MCS!InCS
<1>2. /\ IsFiniteSet(MCS!Queued) /\ Cardinality(MCS!Queued) \in Nat
      /\ MCS!Queued = {} <=> Cardinality(MCS!Queued) = 0
  BY <1>1, QueueParameters, FS_Subset, FS_CardinalityType, FS_EmptySet
<1>3. /\ \A t \in QueueThread \ MCS!Queued :
            Cardinality(MCS!Queued \cup {t}) = Cardinality(MCS!Queued) + 1
      /\ \A t \in MCS!Queued : Cardinality(MCS!Queued \ {t}) = Cardinality(MCS!Queued) - 1
  BY <1>2, FS_AddElement, FS_RemoveElement, Zenon
<1>. QED  BY <1>1, <1>2, <1>3

\* The members of Q lined up in q: each is linked to the node in front of it or about to link
\* itself, and the last one is in tl.
Chain(q, n, Q, p, nx, pr, tl) ==
    /\ q \in [1 .. n -> Q]
    /\ \A i, j \in 1 .. n : q[i] = q[j] => i = j
    /\ n > 0 => tl = q[n]
    /\ \A i \in 2 .. n : \/ q[i] = nx[q[i - 1]]
                         \/ p[q[i]] = "link" /\ pr[q[i]] = q[i - 1]

LEMMA MCSChainNow ==
    ASSUME NEW q, MCS!IsQueue(q), NEW n, n = Cardinality(MCS!Queued)
    PROVE  /\ Chain(q, n, MCS!Queued, pc, next, pred, tail)
           /\ n > 0 => MCS!First(q[1])
BY MCSCardinality DEF MCS!IsQueue, Chain

LEMMA MCSChainNext ==
    ASSUME NEW q, NEW n, n = Cardinality(MCS!Queued'),
           Chain(q, n, MCS!Queued', pc', next', pred', tail'),
           n > 0 => MCS!First(q[1])'
    PROVE  MCS!IsQueue(q)' /\ MCS!HasQueue'
<1>1. MCS!IsQueue(q)'
  BY MCSCardinality DEF MCS!IsQueue, Chain
<1>2. q \in [1 .. MCS!Cardinality(MCS!Queued') -> MCS!Queued']
  BY MCSCardinality DEF Chain
<1>. QED  BY <1>1, <1>2 DEF MCS!HasQueue

LEMMA ChainEnds ==
    ASSUME NEW n \in Nat \ {0}, NEW q, Chain(q, n, MCS!Queued, pc, next, pred, tail)
    PROVE  /\ q \in [1 .. n -> MCS!Queued] /\ q[1] \in MCS!Queued /\ tail = q[n]
           /\ n > 1 => q[n] # q[1] /\ (q[2] = next[q[1]] \/ (pc[q[2]] = "link" /\ pred[q[2]] = q[1]))
<1>1. q \in [1 .. n -> MCS!Queued] /\ q[1] \in MCS!Queued
  BY DEF Chain
<1>2. tail = q[n] /\ (n > 1 => q[n] # q[1])
  BY DEF Chain
<1>3. n > 1 => (q[2] = next[q[1]] \/ (pc[q[2]] = "link" /\ pred[q[2]] = q[1]))
  BY DEF Chain
<1>. QED  BY <1>1, <1>2, <1>3

LEMMA MCSOneFirst ==
    ASSUME MCS!MCSInv, NEW t \in MCS!Queued, NEW u \in MCS!Queued, MCS!First(t), MCS!First(u)
    PROVE  t = u
BY DEF MCS!MCSInv, MCS!LinkInv

\* A chain stays one when its members keep their links.
LEMMA ChainStay ==
    ASSUME NEW n \in Nat, NEW q, Chain(q, n, MCS!Queued, pc, next, pred, tail),
           \A u \in MCS!Queued : /\ next'[u] = next[u] /\ pred'[u] = pred[u]
                                 /\ pc[u] = "link" => pc'[u] = "link"
    PROVE  /\ Chain(q, n, MCS!Queued, pc', next', pred', tail)
           /\ n > 0 => q[1] \in MCS!Queued
<1>1. \A i \in 1 .. n : q[i] \in MCS!Queued
  BY DEF Chain
<1>2. ASSUME NEW i \in 2 .. n
      PROVE  q[i] = next'[q[i - 1]] \/ (pc'[q[i]] = "link" /\ pred'[q[i]] = q[i - 1])
  <2>1. q[i] \in MCS!Queued /\ q[i - 1] \in MCS!Queued
    BY <1>1
  <2>. QED  BY <2>1 DEF Chain
<1>. QED  BY <1>1, <1>2 DEF Chain

\* A thread joins a chain at its end, announcing itself as the one to link to the old end.
LEMMA ChainJoin ==
    ASSUME NEW n \in Nat, NEW q, Chain(q, n, MCS!Queued, pc, next, pred, tail),
           NEW t, t \notin MCS!Queued, n > 0 => pc'[t] = "link" /\ pred'[t] = tail,
           \A u \in MCS!Queued : pc'[u] = pc[u] /\ pred'[u] = pred[u]
    PROVE  /\ Chain(Append(q, t), n + 1, MCS!Queued \cup {t}, pc', next, pred', t)
           /\ IF n = 0 THEN Append(q, t)[1] = t
                       ELSE Append(q, t)[1] = q[1] /\ q[1] \in MCS!Queued
<1>1. PICK r : r = Append(q, t)
  BY Zenon
<1>2. \A i \in 1 .. n : q[i] \in MCS!Queued /\ q[i] # t
  BY DEF Chain
<1>3. /\ r \in [1 .. n + 1 -> MCS!Queued \cup {t}]
      /\ r[n + 1] = t /\ \A i \in 1 .. n : r[i] = q[i]
  <2>1. q \in [1 .. n -> MCS!Queued]
    BY DEF Chain
  <2>2. /\ Append(q, t) \in [1 .. n + 1 -> MCS!Queued \cup {t}]
        /\ Append(q, t)[n + 1] = t /\ \A i \in 1 .. n : Append(q, t)[i] = q[i]
    BY <2>1, JoinedQueue
  <2>. QED  BY <1>1, <2>2, Zenon
<1>4. \A i, j \in 1 .. n + 1 : r[i] = r[j] => i = j
  BY <1>2, <1>3 DEF Chain
<1>5. ASSUME NEW i \in 2 .. n + 1
      PROVE  r[i] = next[r[i - 1]] \/ (pc'[r[i]] = "link" /\ pred'[r[i]] = r[i - 1])
  <2>1. CASE i = n + 1
    BY <1>3, <2>1 DEF Chain
  <2>2. CASE i \in 2 .. n
    <3>1. r[i] = q[i] /\ r[i - 1] = q[i - 1] /\ q[i] \in MCS!Queued
      BY <1>2, <1>3, <2>2
    <3>. QED  BY <2>2, <3>1 DEF Chain
  <2>. QED  BY <2>1, <2>2
<1>6. Chain(r, n + 1, MCS!Queued \cup {t}, pc', next, pred', t)
  BY <1>3, <1>4, <1>5 DEF Chain
<1>7. IF n = 0 THEN r[1] = t ELSE r[1] = q[1] /\ q[1] \in MCS!Queued
  BY <1>2, <1>3
<1>. QED  BY <1>1, <1>6, <1>7

\* The first of a chain leaves it.
LEMMA ChainLeave ==
    ASSUME NEW n \in Nat \ {0}, NEW q, Chain(q, n, MCS!Queued, pc, next, pred, tail),
           n > 1 => tail' = tail,
           \A u \in MCS!Queued \ {q[1]} : pc'[u] = pc[u]
    PROVE  /\ q # <<>> /\ Head(q) = q[1] /\ 1 \in DOMAIN q
           /\ Chain(Tail(q), n - 1, MCS!Queued \ {q[1]}, pc', next, pred, tail')
           /\ n > 1 => Tail(q)[1] = q[2] /\ q[2] \in MCS!Queued \ {q[1]}
<1>1. PICK r : r = [i \in 1 .. n - 1 |-> q[i + 1]]
  BY Zenon
<1>2. q \in [1 .. n -> MCS!Queued] /\ (\A i, j \in 1 .. n : q[i] = q[j] => i = j)
  BY DEF Chain
<1>3. q # <<>> /\ Head(q) = q[1] /\ r = Tail(q)
  <2>1. q \in [1 .. n -> MCS!Queued]
    BY <1>2, Zenon
  <2>2. q # <<>> /\ Head(q) = q[1] /\ Tail(q) = [i \in 1 .. n - 1 |-> q[i + 1]]
    BY <2>1, LeaveQueue, Zenon
  <2>. QED  BY <1>1, <2>2, Zenon
<1>4. \A i \in 2 .. n : q[i] \in MCS!Queued \ {q[1]}
  BY <1>2
<1>5. r \in [1 .. n - 1 -> MCS!Queued \ {q[1]}]
  BY <1>1, <1>4
<1>6. \A i, j \in 1 .. n - 1 : r[i] = r[j] => i = j
  BY <1>1, <1>2
<1>7. n - 1 > 0 => tail' = r[n - 1] /\ r[1] = q[2] /\ q[2] \in MCS!Queued \ {q[1]}
  BY <1>1, <1>4 DEF Chain
<1>8. ASSUME NEW i \in 2 .. n - 1
      PROVE  r[i] = next[r[i - 1]] \/ (pc'[r[i]] = "link" /\ pred[r[i]] = r[i - 1])
  <2>1. /\ r[i] = q[i + 1] /\ r[i - 1] = q[i] /\ i + 1 \in 2 .. n /\ (i + 1) - 1 = i
        /\ q[i + 1] \in MCS!Queued \ {q[1]}
    BY <1>1, <1>4
  <2>2. \/ q[i + 1] = next[q[(i + 1) - 1]]
        \/ pc[q[i + 1]] = "link" /\ pred[q[i + 1]] = q[(i + 1) - 1]
    BY <2>1 DEF Chain
  <2>. QED  BY <2>1, <2>2
<1>9. Chain(r, n - 1, MCS!Queued \ {q[1]}, pc', next, pred, tail')
  BY <1>5, <1>6, <1>7, <1>8 DEF Chain
<1>. QED  BY <1>2, <1>3, <1>7, <1>9

\* A member of a chain links itself to the node in front of it.
LEMMA ChainLink ==
    ASSUME NEW n \in Nat, NEW q, Chain(q, n, MCS!Queued, pc, next, pred, tail),
           MCS!Queued \subseteq QueueThread, NEW P, next \in [QueueThread -> P],
           NEW t \in QueueThread, pred[t] \in QueueThread, next[pred[t]] \notin QueueThread,
           \A u \in QueueThread \ {t} : pc'[u] = pc[u] /\ pred'[u] = pred[u]
    PROVE  /\ Chain(q, n, MCS!Queued, pc', [next EXCEPT ![pred[t]] = t], pred', tail)
           /\ n > 0 => q[1] \in QueueThread
<1>1. \A i \in 1 .. n : q[i] \in MCS!Queued /\ q[i] \in QueueThread
  BY DEF Chain
<1>2. PICK nx2 : nx2 = [next EXCEPT ![pred[t]] = t]
  BY Zenon
<1>3. ASSUME NEW i \in 2 .. n
      PROVE  q[i] = nx2[q[i - 1]] \/ (pc'[q[i]] = "link" /\ pred'[q[i]] = q[i - 1])
  <2>1. q[i] \in QueueThread /\ q[i - 1] \in QueueThread
    BY <1>1
  <2>2. q[i] = next[q[i - 1]] \/ (pc[q[i]] = "link" /\ pred[q[i]] = q[i - 1])
    BY DEF Chain
  <2>. QED  BY <1>2, <2>1, <2>2
<1>4. Chain(q, n, MCS!Queued, pc', nx2, pred', tail)
  BY <1>3 DEF Chain
<1>. QED  BY <1>1, <1>2, <1>4

LEMMA MCSEmpty ==
    ASSUME MCS!MCSInv, NEW q, MCS!IsQueue(q), tail = Nil PROVE q = <<>>
<1>1. Cardinality(MCS!Queued) = 0
  BY MCSQueued DEF MCS!MCSInv, MCS!LinkInv
<1>2. Chain(q, 0, MCS!Queued, pc, next, pred, tail)
  BY <1>1, MCSChainNow
<1>. QED  BY <1>2 DEF Chain

\* The exchange of tail joins the queue at its end, and a successful tryacquire the empty one.
LEMMA MCSJoin ==
    ASSUME MCS!MCSInv, NEW t \in QueueThread, NEW q, MCS!IsQueue(q),
           MCS!acquire_xchg(t) \/ (MCS!tryacquire_cmpxchg(t) /\ tail = Nil)
    PROVE  MCS!IsQueue(Append(q, t))' /\ MCS!HasQueue'
<1>1. PICK n \in Nat : n = Cardinality(MCS!Queued)
  BY MCSQueued
<1>2. /\ t \notin MCS!Queued /\ MCS!Queued' = MCS!Queued \cup {t} /\ MCS!InCS \subseteq MCS!InCS'
      /\ tail' = t /\ next' = next /\ locked' = locked
      /\ \A u \in MCS!Queued : pc'[u] = pc[u] /\ pred'[u] = pred[u]
      /\ tail = Nil => t \in MCS!InCS'
      /\ tail # Nil => pc'[t] = "link" /\ pred'[t] = tail
  BY DEF MCS!acquire_xchg, MCS!tryacquire_cmpxchg, MCS!Queued, MCS!InCS, MCS!MCSInv,
         MCS!TypeOK, MCS!Step, MCS!Goto, MCS!At
<1>3. Cardinality(MCS!Queued') = n + 1 /\ (n = 0 <=> tail = Nil)
  <2>1. Cardinality(MCS!Queued') = n + 1
    BY <1>1, <1>2, MCSQueued
  <2>2. n = 0 <=> tail = Nil
    BY <1>1, MCSQueued DEF MCS!MCSInv, MCS!LinkInv
  <2>. QED  BY <2>1, <2>2
<1>4. Chain(q, n, MCS!Queued, pc, next, pred, tail) /\ (n > 0 => MCS!First(q[1]))
  BY <1>1, MCSChainNow, Zenon
<1>5. n > 0 => pc'[t] = "link" /\ pred'[t] = tail
  BY <1>2, <1>3
<1>6. PICK r : r = Append(q, t)
  BY Zenon
<1>7. /\ Chain(r, n + 1, MCS!Queued \cup {t}, pc', next, pred', t)
      /\ IF n = 0 THEN r[1] = t ELSE r[1] = q[1] /\ q[1] \in MCS!Queued
  <2>1. /\ Chain(q, n, MCS!Queued, pc, next, pred, tail) /\ t \notin MCS!Queued
        /\ n > 0 => pc'[t] = "link" /\ pred'[t] = tail
        /\ \A u \in MCS!Queued : pc'[u] = pc[u] /\ pred'[u] = pred[u]
    BY <1>2, <1>4, <1>5, Zenon
  <2>2. /\ Chain(Append(q, t), n + 1, MCS!Queued \cup {t}, pc', next, pred', t)
        /\ IF n = 0 THEN Append(q, t)[1] = t
                    ELSE Append(q, t)[1] = q[1] /\ q[1] \in MCS!Queued
    BY <2>1, ChainJoin, Zenon
  <2>. QED  BY <1>6, <2>2, Zenon
<1>8. MCS!First(r[1])'
  BY <1>2, <1>3, <1>4, <1>7 DEF MCS!First
<1>9. Chain(r, n + 1, MCS!Queued', pc', next', pred', tail')
  BY <1>2, <1>7
<1>10. MCS!IsQueue(r)' /\ MCS!HasQueue'
  BY <1>3, <1>8, <1>9, MCSChainNext, Zenon
<1>. QED  BY <1>6, <1>10

\* Release leaves the head of the queue: with the cmpxchg when nobody is behind, with the
\* write to the successor's node otherwise.
LEMMA MCSLeave ==
    ASSUME MCS!MCSInv, NEW t \in QueueThread, NEW q, MCS!IsQueue(q),
           (MCS!release_cmpxchg(t) /\ tail = t) \/ MCS!release_grant(t)
    PROVE  /\ q # <<>> /\ Head(q) = t /\ q[1] = t /\ 1 \in DOMAIN q
           /\ MCS!IsQueue(Tail(q))' /\ MCS!HasQueue'
<1>1. PICK n \in Nat : n = Cardinality(MCS!Queued)
  BY MCSQueued
<1>2. /\ t \in MCS!InCS /\ t \in MCS!Queued /\ MCS!Queued' = MCS!Queued \ {t}
      /\ next' = next /\ pred' = pred
      /\ \A u \in QueueThread \ {t} : pc'[u] = pc[u]
      /\ MCS!Queued \subseteq QueueThread
  BY DEF MCS!release_cmpxchg, MCS!release_grant, MCS!Queued, MCS!InCS, MCS!MCSInv,
         MCS!TypeOK, MCS!Step, MCS!Goto, MCS!At
<1>3. Cardinality(MCS!Queued') = n - 1 /\ n \in Nat \ {0}
  BY <1>1, <1>2, MCSQueued
<1>4. Chain(q, n, MCS!Queued, pc, next, pred, tail) /\ MCS!First(q[1])
  <2>1. n > 0
    BY <1>3
  <2>. QED  BY <1>1, <2>1, MCSChainNow, Zenon
<1>5. /\ q[1] \in MCS!Queued /\ tail = q[n]
      /\ n > 1 => q[n] # q[1] /\ (q[2] = next[q[1]] \/ (pc[q[2]] = "link" /\ pred[q[2]] = q[1]))
  BY <1>3, <1>4, ChainEnds, Zenon
<1>6. q[1] = t
  <2>1. MCS!First(t)
    BY <1>2, Zenon DEF MCS!First
  <2>. QED  BY <1>2, <1>4, <1>5, <2>1, MCSOneFirst, Zenon
<1>7. ASSUME n > 1
      PROVE  /\ pc[t] = "grant" /\ tail' = tail
             /\ locked' = [locked EXCEPT ![succ[t]] = 0]
  <2>1. tail # t
    BY <1>5, <1>6, <1>7, Zenon
  <2>. QED  BY <2>1 DEF MCS!release_cmpxchg, MCS!release_grant, MCS!Step
<1>8. \A u \in MCS!Queued \ {t} : pc'[u] = pc[u]
  BY <1>2
<1>9. PICK r : r = Tail(q)
  BY Zenon
<1>10. /\ q # <<>> /\ Head(q) = t /\ 1 \in DOMAIN q
       /\ Chain(r, n - 1, MCS!Queued \ {t}, pc', next, pred, tail')
       /\ n > 1 => r[1] = q[2] /\ q[2] \in MCS!Queued \ {t}
  <2>1. /\ n \in Nat \ {0} /\ (n > 1 => tail' = tail)
        /\ \A u \in MCS!Queued \ {q[1]} : pc'[u] = pc[u]
    BY <1>3, <1>6, <1>7, <1>8, Zenon
  <2>2. /\ q # <<>> /\ Head(q) = q[1] /\ 1 \in DOMAIN q
        /\ Chain(Tail(q), n - 1, MCS!Queued \ {q[1]}, pc', next, pred, tail')
        /\ n > 1 => Tail(q)[1] = q[2] /\ q[2] \in MCS!Queued \ {q[1]}
    BY <1>4, <2>1, ChainLeave, Zenon
  <2>. QED  BY <1>6, <1>9, <2>2, Zenon
<1>11. ASSUME n > 1 PROVE MCS!First(r[1])'
  <2>1. /\ succ[t] = next[t] /\ next[t] \in QueueThread /\ pc[next[t]] = "await"
        /\ next[t] # Nil
    BY <1>2, <1>7, <1>11 DEF MCS!MCSInv, MCS!LinkInv, MCS!At
  <2>2. r[1] = q[2] /\ q[2] \in QueueThread /\ q[2] # t
    BY <1>2, <1>10, <1>11
  <2>3. q[2] = next[t]
    <3>1. q[2] = next[t] \/ (pc[q[2]] = "link" /\ pred[q[2]] = t)
      BY <1>5, <1>6, <1>11, Zenon
    <3>2. pc[q[2]] = "link" => next[pred[q[2]]] = Nil
      BY <2>2 DEF MCS!MCSInv, MCS!LinkInv
    <3>. QED  BY <2>1, <3>1, <3>2
  <2>4. pc'[q[2]] = "await" /\ locked'[q[2]] = 0
    BY <1>2, <1>7, <1>11, <2>1, <2>2, <2>3 DEF MCS!MCSInv, MCS!TypeOK
  <2>. QED  BY <2>2, <2>4 DEF MCS!First
<1>12. n - 1 > 0 => MCS!First(r[1])'
  BY <1>11
<1>13. n - 1 = Cardinality(MCS!Queued') /\ Chain(r, n - 1, MCS!Queued', pc', next', pred', tail')
  BY <1>2, <1>3, <1>10
<1>14. MCS!IsQueue(r)' /\ MCS!HasQueue'
  BY <1>12, <1>13, MCSChainNext, Zenon
<1>. QED  BY <1>6, <1>9, <1>10, <1>14

\* Linking itself to the node in front is no change of the queue.
LEMMA MCSLinked ==
    ASSUME MCS!MCSInv, NEW t \in QueueThread, NEW q, MCS!IsQueue(q), MCS!acquire_link(t)
    PROVE  MCS!IsQueue(q)' /\ MCS!HasQueue' /\ MCS!InCS' = MCS!InCS
<1>1. PICK n \in Nat : n = Cardinality(MCS!Queued)
  BY MCSQueued
<1>2. /\ MCS!Queued' = MCS!Queued /\ MCS!InCS' = MCS!InCS /\ pc[t] = "link" /\ pc'[t] = "await"
      /\ \A u \in QueueThread \ {t} : pc'[u] = pc[u] /\ pred'[u] = pred[u]
      /\ UNCHANGED <<tail, locked>> /\ next' = [next EXCEPT ![pred[t]] = t]
      /\ MCS!Queued \subseteq QueueThread
  BY DEF MCS!acquire_link, MCS!Queued, MCS!InCS, MCS!MCSInv, MCS!TypeOK, MCS!Step, MCS!Goto,
         MCS!At
<1>3. /\ pred[t] \in QueueThread /\ next[pred[t]] \notin QueueThread
      /\ next \in [QueueThread -> MCS!Ptr]
  BY <1>2, NilIsNoThread DEF MCS!MCSInv, MCS!LinkInv, MCS!TypeOK
<1>4. Chain(q, n, MCS!Queued, pc, next, pred, tail) /\ (n > 0 => MCS!First(q[1]))
  BY <1>1, MCSChainNow, Zenon
<1>5. /\ Chain(q, n, MCS!Queued, pc', [next EXCEPT ![pred[t]] = t], pred', tail)
      /\ n > 0 => q[1] \in QueueThread
  BY <1>2, <1>3, <1>4, ChainLink, ZenonT(30)
<1>6. n > 0 => MCS!First(q[1])'
  BY <1>2, <1>4, <1>5 DEF MCS!First
<1>7. n = Cardinality(MCS!Queued') /\ Chain(q, n, MCS!Queued', pc', next', pred', tail')
  BY <1>1, <1>2, <1>5
<1>. QED  BY <1>2, <1>6, <1>7, MCSChainNext, Zenon

\* Neither do the steps that change no queued node.
LEMMA MCSStay ==
    ASSUME NEW q, MCS!IsQueue(q), MCS!Queued' = MCS!Queued, UNCHANGED tail,
           \A u \in MCS!Queued : /\ next'[u] = next[u] /\ locked'[u] = locked[u]
                                 /\ pred'[u] = pred[u] /\ (pc[u] = "link" => pc'[u] = "link")
                                 /\ MCS!First(u) => MCS!First(u)'
    PROVE  MCS!IsQueue(q)' /\ MCS!HasQueue'
<1>1. PICK n \in Nat : n = Cardinality(MCS!Queued)
  BY MCSQueued, Zenon
<1>2. /\ Chain(q, n, MCS!Queued, pc, next, pred, tail)
      /\ n > 0 => MCS!First(q[1])
  BY <1>1, MCSChainNow, Zenon
<1>3. \A u \in MCS!Queued : /\ next'[u] = next[u] /\ pred'[u] = pred[u]
                            /\ pc[u] = "link" => pc'[u] = "link"
  BY Zenon
<1>4. /\ Chain(q, n, MCS!Queued, pc', next', pred', tail)
      /\ n > 0 => q[1] \in MCS!Queued
  BY <1>2, <1>3, ChainStay, ZenonT(20), SMTT(30)
<1>5. n = Cardinality(MCS!Queued') /\ Chain(q, n, MCS!Queued', pc', next', pred', tail')
  BY <1>1, <1>4, Zenon
<1>6. n > 0 => MCS!First(q[1])'
  BY <1>2, <1>4, Zenon
<1>. QED  BY <1>5, <1>6, MCSChainNext, Zenon

\* The thread that has been granted the lock is the first of the queue before and after.
LEMMA MCSGranted ==
    ASSUME NEW t \in QueueThread, MCS!MCSInv, MCS!acquire_await(t), NEW q, MCS!IsQueue(q)
    PROVE  MCS!IsQueue(q)' /\ MCS!HasQueue'
<1>1. DOMAIN pc = QueueThread /\ pc = [u \in DOMAIN pc |-> pc[u]]
  BY DEF MCS!MCSInv, MCS!TypeOK
<1>2. /\ pc[t] = "await" /\ pc' = [pc EXCEPT ![t] = "cs"]
      /\ UNCHANGED <<tail, next, locked, pred>>
  BY DEF MCS!acquire_await, MCS!Step, MCS!Goto, MCS!At
<1>3. MCS!Queued' = MCS!Queued
  BY <1>1, <1>2 DEF MCS!Queued, MCS!InCS, MCS!At
<1>4. MCS!InCS' = MCS!InCS \cup {t}
  BY <1>1, <1>2 DEF MCS!InCS, MCS!At
<1>5. \A u \in MCS!Queued : u # t => pc'[u] = pc[u]
  BY <1>1, <1>2
<1>6. ASSUME NEW u \in MCS!Queued
      PROVE  (pc[u] = "link" => pc'[u] = "link") /\ (MCS!First(u) => MCS!First(u)')
  BY <1>2, <1>4, <1>5 DEF MCS!First
<1>. QED  BY <1>2, <1>3, <1>6, MCSStay, Zenon

LEMMA MCSIdle ==
    ASSUME UNCHANGED MCS!vars, NEW q, MCS!IsQueue(q)
    PROVE  MCS!IsQueue(q)' /\ MCS!HasQueue' /\ MCS!InCS' = MCS!InCS
<1>1. UNCHANGED <<pc, tail, next, locked, pred>>
  BY DEF MCS!vars
<1>2. MCS!InCS' = MCS!InCS /\ MCS!Queued' = MCS!Queued
  BY <1>1 DEF MCS!InCS, MCS!Queued, MCS!At
<1>3. ASSUME NEW u \in MCS!Queued
      PROVE  (pc[u] = "link" => pc'[u] = "link") /\ (MCS!First(u) => MCS!First(u)')
  BY <1>1, <1>2, Zenon DEF MCS!First
<1>. QED  BY <1>1, <1>2, <1>3, MCSStay, Zenon

LEMMA MCSOneQueue == ASSUME MCS!MCSInv, MCS!HasQueue PROVE MCS!OneQueue
<1>1. PICK n \in Nat : n = Cardinality(MCS!Queued)
  BY MCSQueued
<1>2. PICK rank \in [QueueThread -> Nat] : MCS!Ordered(rank)
  BY DEF MCS!MCSInv
<1>3. ASSUME NEW p, NEW q, MCS!IsQueue(p), MCS!IsQueue(q) PROVE p = q
  <2>1. p \in [1 .. n -> MCS!Queued] /\ q \in [1 .. n -> MCS!Queued]
    BY <1>1, <1>3, MCSChainNow DEF Chain
  <2>2. /\ n > 0 => MCS!First(p[1]) /\ MCS!First(q[1])
        /\ \A i \in 2 .. n : /\ \/ p[i] = next[p[i - 1]]
                                \/ pc[p[i]] = "link" /\ pred[p[i]] = p[i - 1]
                             /\ \/ q[i] = next[q[i - 1]]
                                \/ pc[q[i]] = "link" /\ pred[q[i]] = q[i - 1]
    BY <1>1, <1>3, MCSChainNow DEF Chain
  <2>3. n > 0 => p[1] = q[1]
    <3>1. n > 0 => p[1] \in MCS!Queued /\ q[1] \in MCS!Queued
      BY <2>1
    <3>. QED  BY <2>2, <3>1, MCSOneFirst, Zenon
  <2>4. ASSUME NEW i \in 2 .. n, p[i - 1] = q[i - 1] PROVE p[i] = q[i]
    <3>1. /\ p[i] \in MCS!Queued /\ q[i] \in MCS!Queued /\ p[i - 1] \in MCS!Queued
          /\ p[i] \in QueueThread /\ q[i] \in QueueThread
          /\ p[i] # Nil /\ q[i] # Nil
      BY <2>1, <2>4, MCSQueued
    <3>2. rank[p[i]] = rank[p[i - 1]] + 1 /\ rank[q[i]] = rank[p[i - 1]] + 1
      BY <1>2, <2>2, <2>4, <3>1, SMTT(30) DEF MCS!Ordered
    <3>. QED  BY <1>2, <3>1, <3>2, SMTT(30) DEF MCS!Ordered
  <2>. QED  BY <2>1, <2>3, <2>4, SameChain, Zenon
<1>4. MCS!IsQueue(MCS!Queue)
  BY DEF MCS!HasQueue, MCS!Queue
<1>. QED  BY <1>3, <1>4 DEF MCS!OneQueue

\* mcslock.h serves in the order of the exchange of tail: the threads from the holder's
\* node along the links, and past a link that is yet to be written, are the queue of a
\* first-come-first-served lock, for any set of threads.
THEOREM MCSLockRefinesFifoLock ==
    MCS!Spec => MCS!Fifo!Safety
<1>1. MCS!Init => MCS!MCSInv
  BY MCSInvInit
<1>2. MCS!MCSInv /\ [MCS!Next]_MCS!vars => MCS!MCSInv'
  BY MCSInvStep
<1>3. MCS!MCSInv /\ MCS!HasQueue => MCS!OneQueue
  BY MCSOneQueue
<1>4. MCS!Init => MCS!HasQueue /\ MCS!Fifo!Init
  <2>. SUFFICES ASSUME MCS!Init PROVE MCS!HasQueue /\ MCS!Fifo!Init
    OBVIOUS
  <2>1. MCS!Queued = {} /\ MCS!InCS = {}
    BY DEF MCS!Init, MCS!Queued, MCS!InCS, MCS!At
  <2>2. MCS!Cardinality(MCS!Queued) = 0
    BY <2>1, MCSCardinality, MCSQueued
  <2>3. <<>> \in [1 .. 0 -> MCS!Queued] /\ MCS!IsQueue(<<>>)
    BY <2>2 DEF MCS!IsQueue
  <2>4. MCS!HasQueue
    BY <2>2, <2>3, Zenon DEF MCS!HasQueue
  <2>5. MCS!Queue = <<>>
    BY <1>1, <1>3, <2>2, <2>3, <2>4, Zenon DEF MCS!OneQueue
  <2>. QED  BY <2>1, <2>4, <2>5 DEF MCS!Fifo!Init
<1>5. ASSUME NEW t \in QueueThread, MCS!MCSInv,
             \/ MCS!acquire_reset(t) \/ MCS!tryacquire_reset(t)
             \/ (MCS!tryacquire_cmpxchg(t) /\ tail # Nil)
             \/ MCS!release_read_next(t) \/ (MCS!release_cmpxchg(t) /\ tail # t)
             \/ MCS!release_await_next(t) \/ MCS!release_read_succ(t),
             NEW q, MCS!IsQueue(q)
      PROVE  MCS!IsQueue(q)' /\ MCS!HasQueue' /\ MCS!InCS' = MCS!InCS
  <2>1. /\ MCS!Queued' = MCS!Queued /\ UNCHANGED <<tail, pred>> /\ MCS!InCS' = MCS!InCS
        /\ \A u \in MCS!Queued : /\ next'[u] = next[u] /\ locked'[u] = locked[u]
                                 /\ u \notin MCS!InCS => pc'[u] = pc[u]
    BY <1>5 DEF MCS!acquire_reset, MCS!tryacquire_reset, MCS!reset_node,
          MCS!tryacquire_cmpxchg, MCS!release_read_next, MCS!release_cmpxchg,
          MCS!release_await_next, MCS!release_read_succ, MCS!Queued, MCS!InCS, MCS!MCSInv,
          MCS!TypeOK, MCS!Step, MCS!Goto, MCS!At
  <2>2. \A u \in MCS!InCS : pc[u] # "link"
    BY DEF MCS!InCS, MCS!At
  <2>. QED  BY <1>5, <2>1, <2>2, MCSStay, SMTT(30), ZenonT(20) DEF MCS!First
<1>6. ASSUME NEW t \in QueueThread, MCS!MCSInv, MCS!acquire_await(t), NEW q, MCS!IsQueue(q)
      PROVE  MCS!IsQueue(q)' /\ MCS!HasQueue'
  BY <1>6, MCSGranted, Zenon
<1>7. ASSUME UNCHANGED MCS!vars, NEW q, MCS!IsQueue(q)
      PROVE  MCS!IsQueue(q)' /\ MCS!HasQueue' /\ MCS!InCS' = MCS!InCS
  BY <1>7, MCSIdle, Zenon
<1>8. MCS!MCSInv /\ MCS!HasQueue /\ [MCS!Next]_MCS!vars => MCS!HasQueue'
  <2>. SUFFICES ASSUME MCS!MCSInv, MCS!HasQueue, [MCS!Next]_MCS!vars PROVE MCS!HasQueue'
    OBVIOUS
  <2>1. PICK q : MCS!IsQueue(q)
    BY DEF MCS!HasQueue
  <2>. QED  BY <1>5, <1>6, <1>7, <2>1, MCSJoin, MCSLeave, MCSLinked DEF MCS!Next,
          MCS!Progress
<1>9. MCS!MCSInv /\ MCS!OneQueue /\ MCS!OneQueue' /\ [MCS!Next]_MCS!vars
        => [MCS!Fifo!Next]_<<MCS!Queue, MCS!InCS # {}>>
  <2>. SUFFICES ASSUME MCS!MCSInv, MCS!OneQueue, MCS!OneQueue', [MCS!Next]_MCS!vars
                PROVE  [MCS!Fifo!Next]_<<MCS!Queue, MCS!InCS # {}>>
    OBVIOUS
  <2>1. PICK q : q = MCS!Queue
    OBVIOUS
  <2>2. MCS!IsQueue(q)
    BY <2>1 DEF MCS!OneQueue
  <2>3. ASSUME NEW r, MCS!IsQueue(r)' PROVE MCS!Queue' = r
    BY <2>3, Zenon DEF MCS!OneQueue, MCS!IsQueue
  <2>4. ASSUME MCS!IsQueue(q)', MCS!InCS' = MCS!InCS
        PROVE  UNCHANGED <<MCS!Queue, MCS!InCS # {}>>
    BY <2>1, <2>3, <2>4
  <2>5. ASSUME NEW t \in QueueThread, MCS!acquire_xchg(t), tail # Nil
        PROVE  MCS!Fifo!Arrive(t)
    <3>1. MCS!Queue' = Append(MCS!Queue, t)
      BY <2>1, <2>2, <2>3, <2>5, MCSJoin, Zenon
    <3>2. MCS!InCS' = MCS!InCS /\ t \notin MCS!Queued
      BY <2>5 DEF MCS!acquire_xchg, MCS!InCS, MCS!Queued, MCS!MCSInv, MCS!TypeOK, MCS!Step,
                  MCS!Goto, MCS!At
    <3>3. ~MCS!Fifo!Queued(t)
      BY <2>1, <2>2, <3>2 DEF MCS!Fifo!Queued, MCS!IsQueue
    <3>. QED  BY <3>1, <3>2, <3>3 DEF MCS!Fifo!Arrive
  <2>6. ASSUME NEW t \in QueueThread, MCS!acquire_xchg(t) \/ MCS!tryacquire_cmpxchg(t),
               tail = Nil
        PROVE  MCS!Fifo!TryEnter(t)
    <3>1. MCS!Queue' = Append(q, t) /\ q = <<>>
      <4>1. MCS!IsQueue(Append(q, t))'
        BY <2>2, <2>6, MCSJoin
      <4>2. q = <<>>
        BY <2>2, <2>6, MCSEmpty
      <4>. QED  BY <2>3, <4>1, <4>2
    <3>2. t \in MCS!InCS'
      BY <2>6 DEF MCS!acquire_xchg, MCS!tryacquire_cmpxchg, MCS!InCS, MCS!MCSInv,
                  MCS!TypeOK,
                  MCS!Step, MCS!Goto, MCS!At
    <3>3. Append(<<>>, t) = <<t>>
      OBVIOUS
    <3>. QED  BY <2>1, <3>1, <3>2, <3>3 DEF MCS!Fifo!TryEnter
  <2>7. ASSUME NEW t \in QueueThread, MCS!acquire_await(t) PROVE MCS!Fifo!Enter(t)
    <3>1. MCS!Queue' = q
      BY <1>6, <2>2, <2>3, <2>7
    <3>2. t \in MCS!Queued /\ t \in MCS!InCS' /\ MCS!First(t) /\ t \notin MCS!InCS
      BY <2>7 DEF MCS!acquire_await, MCS!InCS, MCS!Queued, MCS!First, MCS!MCSInv,
                  MCS!TypeOK, MCS!Step, MCS!Goto, MCS!At
    <3>3. MCS!InCS = {}
      BY <3>2, SMTT(30) DEF MCS!MCSInv, MCS!LinkInv, MCS!First, MCS!Queued
    <3>4. PICK n \in Nat : n = Cardinality(MCS!Queued) /\ n > 0
      BY <3>2, MCSQueued
    <3>5. q \in [1 .. n -> MCS!Queued] /\ MCS!First(q[1])
      BY <2>2, <3>4, MCSChainNow DEF Chain
    <3>6. q[1] = t
      BY <3>2, <3>4, <3>5, SMTT(30) DEF MCS!MCSInv, MCS!LinkInv
    <3>7. MCS!Fifo!Queued(t) /\ t = Head(MCS!Queue)
      BY <2>1, <3>4, <3>5, <3>6, LeaveQueue DEF MCS!Fifo!Queued
    <3>. QED  BY <2>1, <3>1, <3>2, <3>3, <3>7 DEF MCS!Fifo!Enter
  <2>8. ASSUME NEW t \in QueueThread,
               (MCS!release_cmpxchg(t) /\ tail = t) \/ MCS!release_grant(t)
        PROVE  MCS!Fifo!Leave(t)
    <3>1. /\ q # <<>> /\ Head(q) = t /\ q[1] = t /\ 1 \in DOMAIN q
          /\ MCS!IsQueue(Tail(q))'
      BY <2>2, <2>8, MCSLeave
    <3>2. MCS!Queue' = Tail(MCS!Queue) /\ MCS!Fifo!Queued(t)
      BY <2>1, <2>3, <3>1, Zenon DEF MCS!Fifo!Queued
    <3>3. t \in MCS!InCS /\ MCS!InCS' = MCS!InCS \ {t} /\ MCS!InCS \subseteq QueueThread
      BY <2>8 DEF MCS!release_cmpxchg, MCS!release_grant, MCS!InCS, MCS!MCSInv, MCS!TypeOK,
                  MCS!Step, MCS!Goto, MCS!At
    <3>4. MCS!InCS = {t}
      BY <3>3 DEF MCS!MCSInv, MCS!LinkInv, MCS!First, MCS!Queued
    <3>. QED  BY <2>1, <3>1, <3>2, <3>3, <3>4 DEF MCS!Fifo!Leave
  <2>. QED
    BY <1>5, <1>7, <2>2, <2>4, <2>5, <2>6, <2>7, <2>8, MCSLinked
    DEF MCS!Next, MCS!Progress, MCS!Fifo!Next
<1>. QED
  BY <1>1, <1>2, <1>3, <1>4, <1>8, <1>9, PTL DEF MCS!Spec, MCS!Fifo!Safety, MCS!Fifo!vars

-----------------------------------------------------------------------------
queue_vars == <<pc, queue, tail, pred, locked, next, succ, qnode>>

QueueInit == \/ queue = "mcslock" /\ MCS!Init /\ qnode = 0
             \/ queue = "clhlock" /\ CLH!Init /\ next = 0 /\ succ = 0

QueueNext == \/ queue = "mcslock" /\ MCS!Next /\ UNCHANGED <<queue, qnode>>
             \/ queue = "clhlock" /\ CLH!Next /\ UNCHANGED <<queue, next, succ>>

QueueProgress(t) ==
    /\ t \in QueueThread
    /\ \/ queue = "mcslock" /\ MCS!Progress(t) /\ UNCHANGED <<queue, qnode>>
       \/ queue = "clhlock" /\ CLH!Progress(t) /\ UNCHANGED <<queue, next, succ>>

QueueSpec == /\ QueueInit /\ [][QueueNext]_queue_vars
             /\ \A t \in QueueThread : WF_queue_vars(QueueProgress(t))

\* Queue nodes have one user.  mcslock: a node whose owner has left release is not
\* referred to any more, so that it may be reused or freed.  clhlock: no thread spins on,
\* or raises, a recycled node that another one uses.  has_waiters reports only waiting
\* threads (mcslock), and all of them (clhlock).
NodesIntact == /\ queue = "mcslock" => MCS!NodeQuiescent /\ MCS!HasWaitersSound
               /\ queue = "clhlock" => CLH!NodesDisjoint /\ CLH!HasWaitersExact

-----------------------------------------------------------------------------
QueuesInv == /\ queue = "mcslock" => MCS!MCSInv
             /\ queue = "clhlock" => CLH!CLHInv /\ CLH!QueueInv

LEMMA QueuesInvInit == QueueInit => QueuesInv
BY CLHInvInit, QueueInvInit, MCSInvInit DEF QueueInit, QueuesInv

LEMMA QueuesInvStep == QueuesInv /\ [QueueNext]_queue_vars => QueuesInv'
<1>. SUFFICES ASSUME QueuesInv, [QueueNext]_queue_vars PROVE QueuesInv'
  OBVIOUS
<1>1. queue' = queue
  BY DEF QueueNext, queue_vars
<1>2. ASSUME queue = "mcslock" PROVE MCS!MCSInv'
  <2>1. MCS!MCSInv /\ [MCS!Next]_MCS!vars
    BY <1>2 DEF QueuesInv, QueueNext, queue_vars, MCS!vars
  <2>. QED  BY <2>1, MCSInvStep
<1>3. ASSUME queue = "clhlock" PROVE CLH!CLHInv' /\ CLH!QueueInv'
  <2>1. CLH!CLHInv /\ CLH!QueueInv /\ [CLH!Next]_CLH!vars
    BY <1>3 DEF QueuesInv, QueueNext, queue_vars, CLH!vars
  <2>. QED  BY <2>1, CLHInvStep, QueueInvStep
<1>. QED  BY <1>1, <1>2, <1>3 DEF QueuesInv

\* A node of the mcslock may be reused or freed as soon as mcslock_release, or a failed
\* mcslock_tryacquire, has returned; the nodes of the clhlock stay apart although every
\* release recycles the node of the thread in front; has_waiters tells the truth.  This
\* holds for any set of threads.
THEOREM QueueLocksNodes == QueueSpec => []NodesIntact
<1>1. QueuesInv => NodesIntact
  BY CLHNodesFromInv, MCSNodesFromInv DEF QueuesInv, NodesIntact
<1>. QED  BY <1>1, QueuesInvInit, QueuesInvStep, PTL DEF QueueSpec
=============================================================================
