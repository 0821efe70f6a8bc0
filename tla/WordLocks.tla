----------------------------- MODULE WordLocks -----------------------------
(***************************************************************************)
(* include/vsync/spinlock: the locks that are one word.  caslock.h and     *)
(* ttaslock.h are here: the word is 0 (free) or 1, and they differ in how  *)
(* acquire takes it.  The word of hemlock.h is the tail of a line of       *)
(* threads (module HemLock).  With them goes the recursive lock that       *)
(* include/vsync/utils/recursive_lock.h makes of any plain one (module     *)
(* RecursiveLock).  Initially one of them is chosen (`spin`, which never   *)
(* changes); the variables it does not need stay 0.                        *)
(***************************************************************************)
EXTENDS Control, Naturals, WellFoundedInduction, TLAPS

CONSTANTS WordThread,
          HemLocks, Watched,    \* the hemlocks, and the one that module Mutex is about
          RecDepth,             \* how deep a recursive lock is nested
          Nobody                \* the null pointer, and RECURSIVE_LOCK_NOCPU

ASSUME WordParameters == /\ HemLocks \subseteq Nat /\ Watched \in HemLocks
                         /\ RecDepth \in Nat \ {0}
                         /\ Nobody \notin WordThread \cup HemLocks

VARIABLES spin,
          lock,                               \* `lock` of caslock_t, `state` of ttaslock_t
          tails, grants, preds, at, holds,    \* hemlock
          st, owner, count, depth             \* recursive lock

cas_vars == <<pc, lock, spin>>
hem_only == <<tails, grants, preds, at, holds>>
rec_only == <<st, owner, count, depth>>

word_vars == <<pc, spin, lock, hem_only, rec_only>>

-----------------------------------------------------------------------------
\* caslock and ttaslock
CASTypeOK == /\ spin \in {"caslock", "ttaslock"}
             /\ pc \in [WordThread -> {"idle", "await", "xchg", "cs"}]
             /\ lock \in {0, 1}

CASInit == /\ spin \in {"caslock", "ttaslock"}
           /\ pc = [t \in WordThread |-> "idle"]
           /\ lock = 0

\* a thread calls acquire
cas_call(t) == Step(t, "idle", "await") /\ UNCHANGED lock

\* caslock_acquire: await_eq_set, one atomic cmpxchg from 0 to 1
caslock_acquire(t) == /\ spin = "caslock"
                      /\ Step(t, "await", "cs")
                      /\ lock = 0
                      /\ lock' = 1

\* caslock_tryacquire: cmpxchg; a failure changes nothing
caslock_tryacquire(t) == /\ spin = "caslock"
                         /\ Step(t, "idle", "cs")
                         /\ lock = 0
                         /\ lock' = 1

\* ttaslock_acquire: await 0, then xchg; start over if somebody was faster
ttaslock_acquire_await(t) == /\ spin = "ttaslock"
                             /\ Step(t, "await", "xchg")
                             /\ lock = 0
                             /\ UNCHANGED lock

\* mutation: a thread that has seen 0 enters although the xchg returned 1
ttaslock_acquire_stale(t) == /\ spin = "ttaslock"
                             /\ Step(t, "xchg", "cs")
                             /\ lock' = 1

ttaslock_acquire_xchg(t) == /\ spin = "ttaslock"
                            /\ \/ lock = 0 /\ Step(t, "xchg", "cs")
                               \/ lock = 1 /\ Step(t, "xchg", "await")
                            /\ lock' = 1

\* ttaslock_tryacquire: a single xchg, which leaves a held lock at 1
ttaslock_tryacquire(t) == /\ spin = "ttaslock"
                          /\ Step(t, "idle", "cs")
                          /\ lock = 0
                          /\ lock' = 1

\* caslock_release, ttaslock_release
cas_release(t) == /\ Step(t, "cs", "idle")
                  /\ lock' = 0

CASProgress(t) == /\ \/ caslock_acquire(t)
                     \/ ttaslock_acquire_await(t)
                     \/ ttaslock_acquire_xchg(t)
                     \/ cas_release(t)
                  /\ UNCHANGED spin

CASNext == \E t \in WordThread : \/ /\ \/ cas_call(t)
                                       \/ caslock_tryacquire(t)
                                       \/ ttaslock_tryacquire(t)
                                    /\ UNCHANGED spin
                                 \/ CASProgress(t)

CASSpec == /\ CASInit /\ [][CASNext]_cas_vars
           /\ \A t \in WordThread : WF_cas_vars(CASProgress(t))

\* where a thread is, for module Mutex
CASAbstract == [t \in WordThread |-> IF pc[t] = "idle" THEN "out"
                                     ELSE IF pc[t] = "cs" THEN "in" ELSE "wait"]

CASMutual == INSTANCE Mutex WITH Thread <- WordThread, st <- CASAbstract

\* The word is 1 exactly while a thread is in the critical section, and one at most is.
CASInv == /\ CASTypeOK
          /\ lock = 0 <=> \A t \in WordThread : pc[t] # "cs"
          /\ \A t, u \in WordThread : pc[t] = "cs" /\ pc[u] = "cs" => t = u

LEMMA CASInvInit == CASInit => CASInv
BY DEF CASInit, CASInv, CASTypeOK

\* Every access of both locks keeps the invariant.
LEMMA CASInvStep == CASInv /\ [CASNext]_cas_vars => CASInv'
<1>. SUFFICES ASSUME CASInv, [CASNext]_cas_vars PROVE CASInv'
  OBVIOUS
<1>. USE DEF CASInv, CASTypeOK, Step, Goto
<1>1. ASSUME NEW t \in WordThread, cas_call(t), UNCHANGED spin PROVE CASInv'
  BY <1>1 DEF cas_call
<1>2. ASSUME NEW t \in WordThread, caslock_acquire(t) \/ caslock_tryacquire(t), UNCHANGED spin
      PROVE  CASInv'
  BY <1>2 DEF caslock_acquire, caslock_tryacquire
<1>3. ASSUME NEW t \in WordThread, ttaslock_acquire_await(t), UNCHANGED spin PROVE CASInv'
  BY <1>3 DEF ttaslock_acquire_await
<1>4. ASSUME NEW t \in WordThread, ttaslock_acquire_xchg(t) \/ ttaslock_tryacquire(t),
             UNCHANGED spin
      PROVE  CASInv'
  BY <1>4 DEF ttaslock_acquire_xchg, ttaslock_tryacquire
<1>5. ASSUME NEW t \in WordThread, cas_release(t), UNCHANGED spin PROVE CASInv'
  BY <1>5 DEF cas_release
<1>6. CASE UNCHANGED cas_vars
  BY <1>6 DEF cas_vars
<1>. QED  BY <1>1, <1>2, <1>3, <1>4, <1>5, <1>6 DEF CASNext, CASProgress

\* caslock_acquire, ttaslock_acquire, the tryacquires and the releases implement Mutex,
\* progress aside, for any number of threads: the step that sets the word from 0 to 1 is
\* the one that enters, and a ttaslock that loses the race for the word only waits on.
THEOREM CASLockRefinesMutex == CASSpec => CASMutual!Safety
<1>1. CASInit => CASMutual!Init
  BY DEF CASInit, CASMutual!Init, CASAbstract
<1>2. CASInv /\ [CASNext]_cas_vars => [CASMutual!Next]_CASAbstract
  <2>. SUFFICES ASSUME CASInv, [CASNext]_cas_vars PROVE [CASMutual!Next]_CASAbstract
    OBVIOUS
  <2>. USE DEF CASInv, CASTypeOK, Step, Goto, CASAbstract
  <2>0. (\A t \in WordThread : pc[t] # "cs") => CASMutual!Free
    BY DEF CASMutual!Free
  <2>1. ASSUME NEW t \in WordThread, cas_call(t) PROVE CASMutual!Request(t)
    BY <2>1, Zenon DEF cas_call, CASMutual!Request
  <2>2. ASSUME NEW t \in WordThread, caslock_acquire(t) PROVE CASMutual!Enter(t)
    BY <2>0, <2>2, Zenon DEF caslock_acquire, CASMutual!Enter
  <2>3. ASSUME NEW t \in WordThread, caslock_tryacquire(t) \/ ttaslock_tryacquire(t)
        PROVE  CASMutual!TryEnter(t)
    BY <2>0, <2>3, Zenon DEF caslock_tryacquire, ttaslock_tryacquire, CASMutual!TryEnter
  <2>4. ASSUME NEW t \in WordThread, ttaslock_acquire_await(t) PROVE UNCHANGED CASAbstract
    BY <2>4 DEF ttaslock_acquire_await
  <2>5. ASSUME NEW t \in WordThread, ttaslock_acquire_xchg(t)
        PROVE  CASMutual!Enter(t) \/ UNCHANGED CASAbstract
    BY <2>0, <2>5, Zenon DEF ttaslock_acquire_xchg, CASMutual!Enter
  <2>6. ASSUME NEW t \in WordThread, cas_release(t) PROVE CASMutual!Leave(t)
    BY <2>6, Zenon DEF cas_release, CASMutual!Leave
  <2>7. CASE UNCHANGED cas_vars
    BY <2>7 DEF cas_vars
  <2>. QED
    BY <2>1, <2>2, <2>3, <2>4, <2>5, <2>6, <2>7 DEF CASNext, CASProgress, CASMutual!Next
<1>. QED  BY <1>1, <1>2, CASInvInit, CASInvStep, PTL DEF CASSpec, CASMutual!Safety

-----------------------------------------------------------------------------
Hem == INSTANCE HemLock WITH Thread <- WordThread, Lock <- HemLocks, Nil <- Nobody,
           tail <- tails, grant <- grants, pred <- preds, l <- at

LEMMA HemParameters == /\ Nobody \notin WordThread /\ Nobody \notin HemLocks
                       /\ HemLocks \subseteq Nat /\ Watched \in HemLocks
BY WordParameters

\* Whoever is first and last is alone: the first of those who wait would wait for it.
LEMMA HemAlone ==
    ASSUME Hem!HemInv, NEW m \in HemLocks, tails[m] \in Hem!First(m)
    PROVE  Hem!Waiting(m) = {}
<1>1. PICK rank \in [WordThread -> Nat] : Hem!Ordered(m, rank)
  BY DEF Hem!HemInv
<1>. DEFINE Ranks == {n \in Nat : \E t \in Hem!Waiting(m) : rank[t] = n}
<1>2. ASSUME NEW w \in Hem!Waiting(m) PROVE FALSE
  <2>1. rank[w] \in Ranks /\ Ranks \subseteq Nat
    BY <1>2 DEF Hem!Waiting
  <2>2. PICK n \in Ranks : \A k \in Ranks : ~(<<k, n>> \in OpToRel(<, Nat))
    <3>. HIDE DEF Ranks
    <3>. QED  BY <2>1, WFMin, NatLessThanWellFounded, Zenon
  <2>3. PICK t \in Hem!Waiting(m) : rank[t] = n
    BY <2>2
  <2>4. /\ preds[t] \in Hem!Line(m) /\ preds[t] # tails[m] /\ rank[preds[t]] < n
        /\ preds[t] \in WordThread
    BY <1>1, <2>3, HemParameters
       DEF Hem!HemInv, Hem!LabelInv, Hem!LineInv, Hem!Ordered, Hem!Waiting, Hem!Line,
           Hem!First, Hem!Holding, Hem!Granting
  <2>5. preds[t] \notin Hem!First(m)
    BY <2>4 DEF Hem!HemInv, Hem!LineInv
  <2>6. preds[t] \in Hem!Waiting(m) /\ rank[preds[t]] \in Nat
    BY <2>4, <2>5 DEF Hem!Line
  <2>7. rank[preds[t]] \in Ranks
    BY <2>6
  <2>8. /\ <<rank[preds[t]], n>> \in Nat \X Nat
        /\ <<rank[preds[t]], n>>[1] = rank[preds[t]] /\ <<rank[preds[t]], n>>[2] = n
    BY <2>2, <2>6
  <2>. QED  BY <2>2, <2>4, <2>7, <2>8, Zenon DEF OpToRel
<1>. QED  BY <1>2

LEMMA HemInvInit == Hem!Init => Hem!HemInv
<1>. SUFFICES ASSUME Hem!Init PROVE Hem!HemInv
  OBVIOUS
<1>1. Hem!TypeOK /\ Hem!LabelInv
  BY DEF Hem!Init, Hem!TypeOK, Hem!LabelInv
<1>2. ASSUME NEW m \in HemLocks
      PROVE  Hem!LineInv(m) /\ \E rank \in [WordThread -> Nat] : Hem!Ordered(m, rank)
  <2>1. Hem!Holding(m) = {} /\ Hem!Granting(m) = {} /\ Hem!Waiting(m) = {}
    BY DEF Hem!Init, Hem!Holding, Hem!Granting, Hem!Waiting
  <2>2. Hem!LineInv(m)
    BY <2>1 DEF Hem!Init, Hem!LineInv, Hem!Line, Hem!First
  <2>3. [t \in WordThread |-> 0] \in [WordThread -> Nat]
    OBVIOUS
  <2>. QED  BY <2>1, <2>2, <2>3, Zenon DEF Hem!Ordered
<1>. QED  BY <1>1, <1>2 DEF Hem!HemInv

\* A step that changes neither the line of a lock nor its tail.
LEMMA HemSameLine ==
    ASSUME Hem!HemInv, NEW m \in HemLocks,
           Hem!Holding(m)' = Hem!Holding(m), Hem!Granting(m)' = Hem!Granting(m),
           Hem!Waiting(m)' = Hem!Waiting(m), tails'[m] = tails[m],
           \A t \in Hem!Waiting(m) : preds'[t] = preds[t]
    PROVE  /\ Hem!Line(m)' = Hem!Line(m)
           /\ Hem!LineInv(m)' /\ \E rank \in [WordThread -> Nat] : Hem!Ordered(m, rank)'
<1>1. Hem!First(m)' = Hem!First(m) /\ Hem!Line(m)' = Hem!Line(m)
  BY DEF Hem!First, Hem!Line
<1>2. Hem!LineInv(m)'
  BY <1>1 DEF Hem!HemInv, Hem!LineInv
<1>3. PICK rank \in [WordThread -> Nat] : Hem!Ordered(m, rank)
  BY DEF Hem!HemInv
<1>4. Hem!Ordered(m, rank)'
  BY <1>3 DEF Hem!Ordered
<1>. QED  BY <1>1, <1>2, <1>4

\* The steps that only change where a thread is.
LEMMA HemInvLocal ==
    ASSUME Hem!HemInv, NEW t \in WordThread,
           \/ \E m \in HemLocks : Hem!acquire_reset(t, m) \/ Hem!tryacquire_reset(t, m)
           \/ Hem!acquire_await(t)
           \/ \E m \in HemLocks : Hem!release_read_tail(t, m)
           \/ Hem!release_await_ack(t)
    PROVE  Hem!HemInv'
<1>. USE HemParameters DEF Hem!HemInv, Hem!Step, Hem!Goto
<1>1. Hem!TypeOK'
  BY DEF Hem!TypeOK, Hem!acquire_reset, Hem!tryacquire_reset, Hem!acquire_await,
         Hem!release_read_tail, Hem!release_await_ack, Hem!Choose, Hem!Finish
<1>2. /\ UNCHANGED tails
      /\ \A m \in HemLocks : /\ Hem!Holding(m)' = Hem!Holding(m)
                             /\ Hem!Granting(m)' = Hem!Granting(m)
                             /\ Hem!Waiting(m)' = Hem!Waiting(m)
                             /\ \A u \in Hem!Waiting(m) : preds'[u] = preds[u]
  BY DEF Hem!TypeOK, Hem!LabelInv, Hem!Holding, Hem!Granting, Hem!Waiting,
         Hem!acquire_reset,
         Hem!tryacquire_reset, Hem!acquire_await, Hem!release_read_tail,
         Hem!release_await_ack, Hem!Choose, Hem!Finish
<1>3. \A m \in HemLocks :
         /\ Hem!Line(m)' = Hem!Line(m)
         /\ Hem!LineInv(m)' /\ \E rank \in [WordThread -> Nat] : Hem!Ordered(m, rank)'
  BY <1>2, HemSameLine, Zenon
<1>4. Hem!LabelInv'
  BY DEF Hem!TypeOK, Hem!LabelInv, Hem!acquire_reset, Hem!tryacquire_reset,
         Hem!acquire_await, Hem!release_read_tail, Hem!release_await_ack, Hem!Choose,
         Hem!Finish
<1>. QED  BY <1>1, <1>3, <1>4

\* The steps of t at lock a that can change the line of a leave the other lines alone.
LEMMA HemOtherLine ==
    ASSUME Hem!HemInv, NEW t \in WordThread, NEW m \in HemLocks, m # at[t],
           \/ Hem!tryacquire_cmpxchg(t) \/ Hem!acquire_xchg(t)
           \/ Hem!acquire_clear(t) \/ Hem!acquire_await_ctr(t)
           \/ Hem!release_cmpxchg(t) \/ Hem!release_grant(t)
    PROVE  /\ Hem!Line(m)' = Hem!Line(m)
           /\ Hem!LineInv(m)' /\ \E rank \in [WordThread -> Nat] : Hem!Ordered(m, rank)'
<1>. USE HemParameters DEF Hem!Step, Hem!Goto, Hem!Finish
<1>1. pc[t] # "client" /\ at[t] \in HemLocks /\ Hem!TypeOK
  BY DEF Hem!HemInv, Hem!LabelInv, Hem!tryacquire_cmpxchg, Hem!acquire_xchg,
         Hem!acquire_clear,
         Hem!acquire_await_ctr, Hem!release_cmpxchg, Hem!release_grant
<1>2. tails'[m] = tails[m] /\ Hem!Holding(m)' = Hem!Holding(m)
  BY <1>1 DEF Hem!TypeOK, Hem!Holding, Hem!tryacquire_cmpxchg, Hem!acquire_xchg,
              Hem!acquire_clear, Hem!acquire_await_ctr, Hem!release_cmpxchg, Hem!release_grant
<1>3. /\ Hem!Waiting(m)' = Hem!Waiting(m)
      /\ \A u \in Hem!Waiting(m) : preds'[u] = preds[u]
  BY <1>1 DEF Hem!TypeOK, Hem!Waiting, Hem!tryacquire_cmpxchg, Hem!acquire_xchg,
              Hem!acquire_clear, Hem!acquire_await_ctr, Hem!release_cmpxchg, Hem!release_grant
<1>4. Hem!Granting(m)' = Hem!Granting(m)
  <2>1. CASE Hem!acquire_clear(t) \/ Hem!acquire_await_ctr(t)
    <3>1. grants[preds[t]] = at[t]
      BY <2>1 DEF Hem!HemInv, Hem!LabelInv, Hem!acquire_clear, Hem!acquire_await_ctr
    <3>. QED
      BY <1>1, <2>1, <3>1 DEF Hem!TypeOK, Hem!Granting, Hem!acquire_clear,
                              Hem!acquire_await_ctr
  <2>. QED
    BY <1>1, <2>1 DEF Hem!TypeOK, Hem!Granting, Hem!tryacquire_cmpxchg, Hem!acquire_xchg,
                      Hem!release_cmpxchg, Hem!release_grant
<1>. QED  BY <1>2, <1>3, <1>4, HemSameLine

\* hemlock_acquire behind another thread
LEMMA HemInvEnqueue ==
    ASSUME Hem!HemInv, NEW t \in WordThread, NEW a \in HemLocks, at[t] = a,
           Hem!acquire_xchg(t), tails[a] # Nobody
    PROVE  Hem!HemInv'
<1>. USE HemParameters DEF Hem!Step, Hem!Goto, Hem!acquire_xchg
<1>1. /\ Hem!TypeOK /\ Hem!LabelInv /\ a \in HemLocks /\ Hem!LineInv(a)
      /\ tails[a] \in WordThread /\ a \notin holds[t]
  BY DEF Hem!HemInv, Hem!LabelInv, Hem!TypeOK
<1>2. /\ Hem!Holding(a)' = Hem!Holding(a) /\ Hem!Granting(a)' = Hem!Granting(a)
      /\ Hem!Waiting(a)' = Hem!Waiting(a) \cup {t} /\ t \notin Hem!Line(a)
      /\ tails'[a] = t /\ preds'[t] = tails[a]
      /\ \A u \in Hem!Waiting(a) : preds'[u] = preds[u] /\ preds[u] # t
  BY <1>1 DEF Hem!TypeOK, Hem!LabelInv, Hem!LineInv, Hem!Holding, Hem!Granting, Hem!Waiting,
              Hem!First, Hem!Line
<1>3. Hem!First(a)' = Hem!First(a) /\ Hem!Line(a)' = Hem!Line(a) \cup {t}
  BY <1>2 DEF Hem!First, Hem!Line
<1>4. Hem!LineInv(a)'
  BY <1>1, <1>2, <1>3 DEF Hem!LineInv
<1>5. PICK rank \in [WordThread -> Nat] : Hem!Ordered(a, rank)
  BY <1>1 DEF Hem!HemInv
<1>6. PICK after \in [WordThread -> Nat] :
         after[t] = rank[tails[a]] + 1 /\ \A u \in WordThread \ {t} : after[u] = rank[u]
  <2>1. [rank EXCEPT ![t] = rank[tails[a]] + 1] \in [WordThread -> Nat]
    BY <1>1
  <2>. QED  BY <2>1, Zenon
<1>7. Hem!Ordered(a, after)'
  BY <1>1, <1>2, <1>5, <1>6 DEF Hem!Ordered, Hem!LineInv, Hem!Waiting, Hem!Line, Hem!First,
                                Hem!Holding, Hem!Granting
<1>8. Hem!TypeOK' /\ Hem!LabelInv'
  BY <1>1 DEF Hem!TypeOK, Hem!LabelInv
<1>. QED  BY <1>1, <1>4, <1>7, <1>8, HemOtherLine, Zenon DEF Hem!HemInv

\* hemlock_acquire and hemlock_tryacquire of a lock that is free
LEMMA HemInvEnter ==
    ASSUME Hem!HemInv, NEW t \in WordThread, NEW a \in HemLocks, at[t] = a,
           tails[a] = Nobody,
           Hem!acquire_xchg(t) \/ Hem!tryacquire_cmpxchg(t)
    PROVE  Hem!HemInv'
<1>. USE HemParameters DEF Hem!Step, Hem!Goto, Hem!Finish, Hem!acquire_xchg,
                           Hem!tryacquire_cmpxchg
<1>1. /\ Hem!TypeOK /\ Hem!LabelInv /\ a \in HemLocks /\ Hem!Line(a) = {}
  BY DEF Hem!HemInv, Hem!LabelInv, Hem!LineInv
<1>2. Hem!Holding(a) = {} /\ Hem!Granting(a) = {} /\ Hem!Waiting(a) = {}
  BY <1>1 DEF Hem!Line, Hem!First
<1>3. tails'[a] = t /\ Hem!Holding(a)' = {t} /\ Hem!Granting(a)' = {} /\ Hem!Waiting(a)' = {}
  BY <1>1, <1>2 DEF Hem!TypeOK, Hem!Holding, Hem!Granting, Hem!Waiting
<1>4. Hem!LineInv(a)'
  BY <1>3 DEF Hem!LineInv, Hem!Line, Hem!First
<1>5. PICK rank \in [WordThread -> Nat] : Hem!Ordered(a, rank)
  BY <1>1 DEF Hem!HemInv
<1>6. Hem!Ordered(a, rank)'
  BY <1>3 DEF Hem!Ordered
<1>7. Hem!TypeOK' /\ Hem!LabelInv'
  BY <1>1 DEF Hem!TypeOK, Hem!LabelInv
<1>. QED  BY <1>1, <1>4, <1>6, <1>7, HemOtherLine DEF Hem!HemInv

\* The waiter of the thread that has granted the lock takes it.
LEMMA HemInvTake ==
    ASSUME Hem!HemInv, NEW t \in WordThread, NEW a \in HemLocks, at[t] = a,
           NEW p \in WordThread \cup {Nobody}, preds[t] = p,
           Hem!acquire_clear(t) \/ Hem!acquire_await_ctr(t)
    PROVE  /\ Hem!HemInv'
           /\ Hem!First(a) = {p} /\ p \in Hem!Granting(a)
<1>. USE HemParameters DEF Hem!Step, Hem!Goto, Hem!Finish, Hem!acquire_clear,
                           Hem!acquire_await_ctr
<1>1. /\ Hem!TypeOK /\ Hem!LabelInv /\ a \in HemLocks /\ Hem!LineInv(a) /\ grants[p] = a
      /\ t \in Hem!Waiting(a)
  BY DEF Hem!HemInv, Hem!LabelInv, Hem!Waiting
<1>2. p \in Hem!Granting(a) /\ p \in Hem!First(a) /\ Hem!First(a) = {p} /\ p # t
  BY <1>1 DEF Hem!LineInv, Hem!Line, Hem!First, Hem!Holding, Hem!Granting, Hem!Waiting,
              Hem!LabelInv
<1>3. /\ Hem!Holding(a)' = {t} /\ Hem!Granting(a)' = {}
      /\ Hem!Waiting(a)' = Hem!Waiting(a) \ {t} /\ tails'[a] = tails[a]
      /\ \A u \in Hem!Waiting(a)' : preds'[u] = preds[u] /\ preds[u] # p
  BY <1>1, <1>2 DEF Hem!TypeOK, Hem!LabelInv, Hem!LineInv, Hem!First, Hem!Holding,
                    Hem!Granting, Hem!Waiting
<1>4. Hem!First(a)' = {t} /\ Hem!Line(a)' = Hem!Line(a) \ {p}
  BY <1>1, <1>2, <1>3 DEF Hem!First, Hem!Line, Hem!Waiting, Hem!Granting
<1>5. Hem!LineInv(a)'
  BY <1>1, <1>2, <1>3, <1>4 DEF Hem!LineInv
<1>6. PICK rank \in [WordThread -> Nat] : Hem!Ordered(a, rank)
  BY <1>1 DEF Hem!HemInv
<1>7. Hem!Ordered(a, rank)'
  BY <1>3, <1>6 DEF Hem!Ordered
<1>8. Hem!TypeOK'
  BY <1>1, <1>2 DEF Hem!TypeOK
<1>9. Hem!LabelInv'
  <2>1. ASSUME NEW u \in WordThread \ {t}, pc[u] = "clear"
        PROVE  preds[u] # p /\ preds[u] \in WordThread
    <3>1. at[u] \in HemLocks /\ u \in Hem!Waiting(at[u])
      BY <1>1, <2>1 DEF Hem!LabelInv, Hem!Waiting
    <3>2. preds[u] \in Hem!Line(at[u])
      BY <3>1, Zenon DEF Hem!HemInv, Hem!LineInv
    <3>3. grants[preds[u]] = at[u]
      BY <1>1, <2>1 DEF Hem!LabelInv
    <3>. QED
      BY <1>1, <3>1, <3>2, <3>3
         DEF Hem!LineInv, Hem!Line, Hem!First, Hem!Holding, Hem!Granting, Hem!Waiting
  <2>. QED  BY <1>1, <1>2, <2>1 DEF Hem!TypeOK, Hem!LabelInv, Hem!Granting
<1>. QED  BY <1>1, <1>2, <1>5, <1>7, <1>8, <1>9, HemOtherLine DEF Hem!HemInv

\* hemlock_release of a lock nobody waits for
LEMMA HemInvLeave ==
    ASSUME Hem!HemInv, NEW t \in WordThread, NEW a \in HemLocks, at[t] = a,
           Hem!release_cmpxchg(t), tails[a] = t
    PROVE  Hem!HemInv'
<1>. USE HemParameters DEF Hem!Step, Hem!Goto, Hem!Finish, Hem!release_cmpxchg
<1>1. /\ Hem!TypeOK /\ Hem!LabelInv /\ a \in HemLocks /\ Hem!LineInv(a) /\ a \in holds[t]
  BY DEF Hem!HemInv, Hem!LabelInv
<1>2. t \in Hem!First(a) /\ t \in Hem!Holding(a)
  BY <1>1 DEF Hem!First, Hem!Holding
<1>3. Hem!Waiting(a) = {} /\ Hem!Holding(a) = {t} /\ Hem!Granting(a) = {}
  BY <1>1, <1>2, HemAlone DEF Hem!LineInv, Hem!First, Hem!LabelInv, Hem!Granting,
                              Hem!Holding
<1>4. /\ Hem!Waiting(a)' = {} /\ Hem!Holding(a)' = {} /\ Hem!Granting(a)' = {}
      /\ tails'[a] = Nobody
  BY <1>1, <1>3 DEF Hem!TypeOK, Hem!Holding, Hem!Granting, Hem!Waiting
<1>5. Hem!LineInv(a)'
  BY <1>4 DEF Hem!LineInv, Hem!Line, Hem!First
<1>6. PICK rank \in [WordThread -> Nat] : Hem!Ordered(a, rank)
  BY <1>1 DEF Hem!HemInv
<1>7. Hem!Ordered(a, rank)'
  BY <1>4 DEF Hem!Ordered
<1>8. Hem!TypeOK' /\ Hem!LabelInv'
  BY <1>1 DEF Hem!TypeOK, Hem!LabelInv
<1>. QED  BY <1>1, <1>5, <1>7, <1>8, HemOtherLine DEF Hem!HemInv

\* The steps at a lock that leave its line as it is: a try or a release that fails.
LEMMA HemInvFail ==
    ASSUME Hem!HemInv, NEW t \in WordThread,
           \/ Hem!tryacquire_cmpxchg(t) /\ tails[at[t]] # Nobody
           \/ Hem!release_cmpxchg(t) /\ tails[at[t]] # t
    PROVE  Hem!HemInv'
<1>. USE HemParameters DEF Hem!Step, Hem!Goto, Hem!Finish, Hem!release_cmpxchg,
                           Hem!tryacquire_cmpxchg
<1>1. Hem!TypeOK /\ Hem!LabelInv
  BY DEF Hem!HemInv
<1>2. ASSUME NEW m \in HemLocks
      PROVE  /\ Hem!Holding(m)' = Hem!Holding(m) /\ Hem!Granting(m)' = Hem!Granting(m)
             /\ Hem!Waiting(m)' = Hem!Waiting(m) /\ tails'[m] = tails[m]
             /\ \A u \in Hem!Waiting(m) : preds'[u] = preds[u]
  BY <1>1 DEF Hem!TypeOK, Hem!Holding, Hem!Granting, Hem!Waiting
<1>3. Hem!TypeOK' /\ Hem!LabelInv'
  BY <1>1 DEF Hem!TypeOK, Hem!LabelInv
<1>. QED  BY <1>2, <1>3, HemSameLine DEF Hem!HemInv

\* hemlock_release grants the lock: its holder stays first in the line.
LEMMA HemInvGrant ==
    ASSUME Hem!HemInv, NEW t \in WordThread, NEW a \in HemLocks, at[t] = a,
           Hem!release_grant(t)
    PROVE  Hem!HemInv'
<1>. USE HemParameters DEF Hem!Step, Hem!Goto, Hem!release_grant
<1>1. /\ Hem!TypeOK /\ Hem!LabelInv /\ a \in HemLocks /\ Hem!LineInv(a) /\ a \in holds[t]
  BY DEF Hem!HemInv, Hem!LabelInv
<1>2. t \in Hem!First(a) /\ Hem!First(a) = {t}
  BY <1>1 DEF Hem!LineInv, Hem!First, Hem!Holding
<1>3. /\ Hem!Holding(a)' = {} /\ Hem!Granting(a)' = {t}
      /\ Hem!Waiting(a)' = Hem!Waiting(a) /\ tails'[a] = tails[a]
      /\ \A u \in Hem!Waiting(a) : preds'[u] = preds[u]
  BY <1>1, <1>2 DEF Hem!TypeOK, Hem!LabelInv, Hem!First, Hem!Holding, Hem!Granting,
                    Hem!Waiting
<1>4. Hem!First(a)' = Hem!First(a) /\ Hem!Line(a)' = Hem!Line(a)
  BY <1>2, <1>3 DEF Hem!First, Hem!Line
<1>5. Hem!LineInv(a)'
  BY <1>1, <1>3, <1>4 DEF Hem!LineInv
<1>6. PICK rank \in [WordThread -> Nat] : Hem!Ordered(a, rank)
  BY <1>1 DEF Hem!HemInv
<1>7. Hem!Ordered(a, rank)'
  BY <1>3, <1>6 DEF Hem!Ordered
<1>8. Hem!TypeOK' /\ Hem!LabelInv'
  BY <1>1 DEF Hem!TypeOK, Hem!LabelInv
<1>. QED  BY <1>1, <1>5, <1>7, <1>8, HemOtherLine, Zenon DEF Hem!HemInv

LEMMA HemAt ==
    ASSUME Hem!HemInv, NEW t \in WordThread
    PROVE  preds[t] \in WordThread \cup {Nobody} /\ (pc[t] # "client" => at[t] \in HemLocks)
BY DEF Hem!HemInv, Hem!TypeOK, Hem!LabelInv

LEMMA HemInvStep ==
    ASSUME Hem!HemInv, NEW ctr \in BOOLEAN, [Hem!Next(ctr)]_(Hem!vars)
    PROVE  Hem!HemInv'
<1>. USE DEF Hem!Step
<1>1. ASSUME NEW t \in WordThread, NEW m \in HemLocks,
             Hem!acquire_reset(t, m) \/ Hem!tryacquire_reset(t, m)
                 \/ Hem!release_read_tail(t, m)
      PROVE  Hem!HemInv'
  BY <1>1, HemInvLocal
<1>2. ASSUME NEW t \in WordThread, Hem!acquire_await(t) \/ Hem!release_await_ack(t)
      PROVE  Hem!HemInv'
  BY <1>2, HemInvLocal
<1>3. ASSUME NEW t \in WordThread, Hem!tryacquire_cmpxchg(t)
      PROVE  Hem!HemInv'
  BY <1>3, HemAt, HemInvEnter, HemInvFail DEF Hem!tryacquire_cmpxchg
<1>4. ASSUME NEW t \in WordThread, Hem!acquire_xchg(t)
      PROVE  Hem!HemInv'
  BY <1>4, HemAt, HemInvEnter, HemInvEnqueue, Zenon DEF Hem!acquire_xchg
<1>5. ASSUME NEW t \in WordThread, Hem!acquire_clear(t) \/ Hem!acquire_await_ctr(t)
      PROVE  Hem!HemInv'
  BY <1>5, HemAt, HemInvTake DEF Hem!acquire_clear, Hem!acquire_await_ctr
<1>6. ASSUME NEW t \in WordThread, Hem!release_cmpxchg(t)
      PROVE  Hem!HemInv'
  BY <1>6, HemAt, HemInvLeave, HemInvFail DEF Hem!release_cmpxchg
<1>7. ASSUME NEW t \in WordThread, Hem!release_grant(t)
      PROVE  Hem!HemInv'
  BY <1>7, HemAt, HemInvGrant, Zenon DEF Hem!release_grant
<1>8. CASE UNCHANGED Hem!vars
  <2>1. \A m \in HemLocks : /\ Hem!Holding(m)' = Hem!Holding(m)
                            /\ Hem!Granting(m)' = Hem!Granting(m)
                            /\ Hem!Waiting(m)' = Hem!Waiting(m)
    BY <1>8 DEF Hem!vars, Hem!Holding, Hem!Granting, Hem!Waiting
  <2>2. Hem!TypeOK' /\ Hem!LabelInv'
    BY <1>8 DEF Hem!vars, Hem!HemInv, Hem!TypeOK, Hem!LabelInv
  <2>. QED  BY <1>8, <2>1, <2>2, HemSameLine DEF Hem!vars, Hem!HemInv
<1>. QED
  BY <1>1, <1>2, <1>3, <1>4, <1>5, <1>6, <1>7, <1>8 DEF Hem!Next, Hem!Progress

\* the parts of GrantIntact that are about hemlock
LEMMA HemGrantFromInv ==
    ASSUME Hem!HemInv
    PROVE  Hem!NoPendingGrant /\ Hem!PredecessorAlive /\ Hem!HasWaitersExact
<1>. USE HemParameters DEF Hem!HemInv, Hem!LineInv, Hem!Line, Hem!First, Hem!Holding,
                           Hem!Granting, Hem!Waiting
<1>1. Hem!NoPendingGrant
  BY DEF Hem!NoPendingGrant, Hem!LabelInv, Hem!At
<1>2. Hem!PredecessorAlive
  BY Zenon DEF Hem!PredecessorAlive, Hem!LabelInv
<1>3. ASSUME NEW t \in WordThread, NEW m \in HemLocks, m \in holds[t]
      PROVE  tails[m] # t <=> Hem!Queued(m) # {t}
  <2>1. t \in Hem!First(m) /\ tails[m] # Nobody /\ tails[m] \in WordThread
    BY <1>3 DEF Hem!TypeOK
  <2>2. \A u \in Hem!First(m) : u = t
    BY <2>1
  <2>3. Hem!Queued(m) = {t} \cup Hem!Waiting(m)
    BY <1>3, <2>2 DEF Hem!Queued, Hem!InCS
  <2>4. t \notin Hem!Waiting(m)
    BY <1>3 DEF Hem!LabelInv
  <2>5. tails[m] = t => Hem!Waiting(m) = {}
    <3>. USE ONLY <2>1, HemAlone, Hem!HemInv, m \in HemLocks
    <3>. QED  OBVIOUS
  <2>6. tails[m] # t => Hem!Waiting(m) # {}
    BY <2>1, <2>2
  <2>. QED  BY <2>3, <2>4, <2>5, <2>6
<1>. QED  BY <1>1, <1>2, <1>3 DEF Hem!HasWaitersExact, Hem!has_waiters

\* Nobody has the lock that is watched when it is free or granted to a waiter.
LEMMA HemFree ==
    ASSUME Hem!HemInv,
           \/ tails[Watched] = Nobody
           \/ \E t \in WordThread : /\ pc[t] = "await" /\ at[t] = Watched
                                    /\ grants[preds[t]] = Watched
    PROVE  Hem!Mutual!Free
<1>. USE HemParameters DEF Hem!Line, Hem!First, Hem!Holding, Hem!Granting, Hem!Waiting
<1>1. Hem!LineInv(Watched) /\ Hem!LabelInv
  BY DEF Hem!HemInv
<1>2. Hem!InCS(Watched) = {}
  <2>1. CASE tails[Watched] = Nobody
    BY <1>1, <2>1 DEF Hem!LineInv, Hem!InCS
  <2>2. ASSUME NEW t \in WordThread, pc[t] = "await", at[t] = Watched,
               grants[preds[t]] = Watched, NEW u \in Hem!InCS(Watched)
        PROVE  FALSE
    <3>1. t \in Hem!Waiting(Watched) /\ preds[t] \in Hem!Line(Watched)
      BY <1>1, <2>2 DEF Hem!LineInv
    <3>2. preds[t] \in Hem!Granting(Watched)
      BY <1>1, <2>2, <3>1 DEF Hem!LabelInv
    <3>3. u \notin Hem!Holding(Watched)
      BY <1>1, <3>2 DEF Hem!LineInv, Hem!LabelInv
    <3>4. u \in Hem!Waiting(Watched) /\ pc[u] = "clear" /\ grants[preds[u]] = Watched
      BY <1>1, <2>2, <3>3 DEF Hem!InCS, Hem!LabelInv
    <3>5. preds[u] \in Hem!Granting(Watched)
      BY <1>1, <3>4 DEF Hem!LineInv, Hem!LabelInv
    <3>6. preds[u] = preds[t]
      BY <1>1, <3>2, <3>5 DEF Hem!LineInv
    <3>. QED  BY <1>1, <2>2, <3>1, <3>4, <3>6 DEF Hem!LineInv
  <2>. QED  BY <2>1, <2>2
<1>. QED  BY <1>2 DEF Hem!Mutual!Free, Hem!Abstract

\* The parts of the state that say where t is with the lock that is watched.
LEMMA HemMove ==
    ASSUME Hem!TypeOK, NEW t \in WordThread, NEW h, NEW b, NEW c,
           pc'[t] = c, at'[t] = b, holds'[t] = h,
           \A u \in WordThread \ {t} : pc'[u] = pc[u] /\ at'[u] = at[u] /\ holds'[u] = holds[u]
    PROVE  Hem!Abstract' = [Hem!Abstract EXCEPT ![t] =
               IF Watched \in h \/ (c = "clear" /\ b = Watched) THEN "in"
               ELSE IF c \in {"xchg", "await"} /\ b = Watched THEN "wait" ELSE "out"]
BY Zenon DEF Hem!TypeOK, Hem!Abstract, Hem!InCS, Hem!At

\* hemlock.h, with any number of locks nested in order and with either way of waiting,
\* implements Mutex at each lock, progress aside: the one node a thread has for all its
\* locks never lets two threads into the same one.
THEOREM HemLockRefinesMutex ==
    \A ctr \in BOOLEAN : Hem!Spec(ctr) => Hem!Mutual!Safety
<1>. SUFFICES ASSUME NEW ctr \in BOOLEAN PROVE Hem!Spec(ctr) => Hem!Mutual!Safety
  OBVIOUS
<1>1. Hem!Init => Hem!Mutual!Init
  BY DEF Hem!Init, Hem!Mutual!Init, Hem!Abstract, Hem!InCS, Hem!At
<1>2. Hem!HemInv /\ [Hem!Next(ctr)]_(Hem!vars) => [Hem!Mutual!Next]_(Hem!Abstract)
  <2>. SUFFICES ASSUME Hem!HemInv, [Hem!Next(ctr)]_(Hem!vars)
                PROVE  [Hem!Mutual!Next]_(Hem!Abstract)
    OBVIOUS
  <2>. DEFINE Place(h, b, c) ==
         IF Watched \in h \/ (c = "clear" /\ b = Watched) THEN "in"
         ELSE IF c \in {"xchg", "await"} /\ b = Watched THEN "wait" ELSE "out"
  <2>a. Hem!TypeOK /\ Hem!LabelInv
    BY DEF Hem!HemInv
  <2>b. Hem!Abstract = [t \in WordThread |-> Place(holds[t], at[t], pc[t])]
    BY DEF Hem!Abstract, Hem!InCS, Hem!At
  <2>. USE HemParameters DEF Hem!Step, Hem!Goto, Hem!Finish, Hem!Choose
  <2>1. ASSUME NEW t \in WordThread, NEW m \in HemLocks, Hem!acquire_reset(t, m)
        PROVE  Hem!Mutual!Request(t) \/ UNCHANGED Hem!Abstract
    <3>1. Hem!Abstract' = [Hem!Abstract EXCEPT ![t] = Place(holds[t], m, "xchg")]
      BY <2>1, <2>a, HemMove DEF Hem!acquire_reset, Hem!TypeOK
    <3>2. Hem!Abstract[t] = Place(holds[t], at[t], "client") /\ m \notin holds[t]
      BY <2>1, <2>a, <2>b DEF Hem!acquire_reset, Hem!TypeOK
    <3>. QED  BY <2>b, <3>1, <3>2, Zenon DEF Hem!Mutual!Request
  <2>2. ASSUME NEW t \in WordThread, NEW m \in HemLocks,
               Hem!tryacquire_reset(t, m) \/ Hem!release_read_tail(t, m)
        PROVE  UNCHANGED Hem!Abstract
    <3>1. PICK c \in {"try", "cas", "grant"} :
             Hem!Abstract' = [Hem!Abstract EXCEPT ![t] = Place(holds[t], m, c)]
      BY <2>2, <2>a, HemMove DEF Hem!tryacquire_reset, Hem!release_read_tail, Hem!TypeOK
    <3>2. Hem!Abstract[t] = Place(holds[t], at[t], "client")
      BY <2>2, <2>b DEF Hem!tryacquire_reset, Hem!release_read_tail
    <3>. QED  BY <2>b, <3>1, <3>2
  <2>3. ASSUME NEW t \in WordThread, Hem!tryacquire_cmpxchg(t)
        PROVE  Hem!Mutual!TryEnter(t) \/ UNCHANGED Hem!Abstract
    <3>1. Hem!Abstract[t] = Place(holds[t], at[t], "try") /\ at[t] \notin holds[t]
      BY <2>3, <2>a, <2>b DEF Hem!tryacquire_cmpxchg, Hem!LabelInv
    <3>2. CASE tails[at[t]] = Nobody
      <4>1. Hem!Abstract' = [Hem!Abstract EXCEPT ![t] =
                                Place(holds[t] \cup {at[t]}, Nobody, "client")]
        BY <2>3, <2>a, <3>2, HemMove DEF Hem!tryacquire_cmpxchg, Hem!TypeOK
      <4>. QED  BY <2>b, <3>1, <3>2, <4>1, HemFree, Zenon DEF Hem!Mutual!TryEnter
    <3>3. CASE tails[at[t]] # Nobody
      <4>1. Hem!Abstract' = [Hem!Abstract EXCEPT ![t] = Place(holds[t], Nobody, "client")]
        BY <2>3, <2>a, <3>3, HemMove DEF Hem!tryacquire_cmpxchg, Hem!TypeOK
      <4>. QED  BY <2>b, <3>1, <4>1
    <3>. QED  BY <3>2, <3>3
  <2>4. ASSUME NEW t \in WordThread, Hem!acquire_xchg(t)
        PROVE  Hem!Mutual!Enter(t) \/ UNCHANGED Hem!Abstract
    <3>1. Hem!Abstract[t] = Place(holds[t], at[t], "xchg") /\ at[t] \notin holds[t]
      BY <2>4, <2>a, <2>b DEF Hem!acquire_xchg, Hem!LabelInv
    <3>2. CASE tails[at[t]] = Nobody
      <4>1. Hem!Abstract' = [Hem!Abstract EXCEPT ![t] =
                                Place(holds[t] \cup {at[t]}, Nobody, "client")]
        BY <2>4, <2>a, <3>2, HemMove DEF Hem!acquire_xchg, Hem!TypeOK
      <4>. QED  BY <2>b, <3>1, <3>2, <4>1, HemFree, Zenon DEF Hem!Mutual!Enter
    <3>3. CASE tails[at[t]] # Nobody
      <4>1. Hem!Abstract' = [Hem!Abstract EXCEPT ![t] = Place(holds[t], at[t], "await")]
        BY <2>4, <2>a, <3>3, HemMove DEF Hem!acquire_xchg, Hem!TypeOK
      <4>. QED  BY <2>b, <3>1, <4>1
    <3>. QED  BY <3>2, <3>3
  <2>5. ASSUME NEW t \in WordThread, Hem!acquire_await(t)
        PROVE  Hem!Mutual!Enter(t) \/ UNCHANGED Hem!Abstract
    <3>1. Hem!Abstract[t] = Place(holds[t], at[t], "await") /\ at[t] \notin holds[t]
      BY <2>5, <2>a, <2>b DEF Hem!acquire_await, Hem!LabelInv
    <3>2. Hem!Abstract' = [Hem!Abstract EXCEPT ![t] = Place(holds[t], at[t], "clear")]
      BY <2>5, <2>a, HemMove DEF Hem!acquire_await, Hem!TypeOK
    <3>3. at[t] = Watched => Hem!Mutual!Free
      BY <2>5, HemFree DEF Hem!acquire_await
    <3>. QED  BY <2>b, <3>1, <3>2, <3>3, Zenon DEF Hem!Mutual!Enter
  <2>6. ASSUME NEW t \in WordThread, Hem!acquire_clear(t) PROVE UNCHANGED Hem!Abstract
    <3>1. Hem!Abstract[t] = Place(holds[t], at[t], "clear")
      BY <2>6, <2>b DEF Hem!acquire_clear
    <3>2. Hem!Abstract' = [Hem!Abstract EXCEPT ![t] =
                              Place(holds[t] \cup {at[t]}, Nobody, "client")]
      BY <2>6, <2>a, HemMove DEF Hem!acquire_clear, Hem!TypeOK
    <3>. QED  BY <2>b, <3>1, <3>2
  <2>7. ASSUME NEW t \in WordThread, Hem!acquire_await_ctr(t)
        PROVE  Hem!Mutual!Enter(t) \/ UNCHANGED Hem!Abstract
    <3>1. Hem!Abstract[t] = Place(holds[t], at[t], "await") /\ at[t] \notin holds[t]
      BY <2>7, <2>a, <2>b DEF Hem!acquire_await_ctr, Hem!LabelInv
    <3>2. Hem!Abstract' = [Hem!Abstract EXCEPT ![t] =
                              Place(holds[t] \cup {at[t]}, Nobody, "client")]
      <4>1. /\ pc'[t] = "client" /\ at'[t] = Nobody /\ holds'[t] = holds[t] \cup {at[t]}
            /\ \A u \in WordThread \ {t} :
                  pc'[u] = pc[u] /\ at'[u] = at[u] /\ holds'[u] = holds[u]
        BY <2>7, <2>a DEF Hem!acquire_await_ctr, Hem!TypeOK
      <4>. QED  BY <2>a, <4>1, HemMove
    <3>3. at[t] = Watched => Hem!Mutual!Free
      BY <2>7, HemFree DEF Hem!acquire_await_ctr
    <3>. QED  BY <2>b, <3>1, <3>2, <3>3, Zenon DEF Hem!Mutual!Enter
  <2>8. ASSUME NEW t \in WordThread, Hem!release_cmpxchg(t)
        PROVE  Hem!Mutual!Leave(t) \/ UNCHANGED Hem!Abstract
    <3>1. Hem!Abstract[t] = Place(holds[t], at[t], "cas") /\ at[t] \in holds[t]
      BY <2>8, <2>a, <2>b DEF Hem!release_cmpxchg, Hem!LabelInv
    <3>2. \/ Hem!Abstract' = [Hem!Abstract EXCEPT ![t] =
                                 Place(holds[t] \ {at[t]}, Nobody, "client")]
          \/ Hem!Abstract' = [Hem!Abstract EXCEPT ![t] = Place(holds[t], at[t], "grant")]
      BY <2>8, <2>a, HemMove DEF Hem!release_cmpxchg, Hem!TypeOK
    <3>. QED  BY <2>b, <3>1, <3>2 DEF Hem!Mutual!Leave
  <2>9. ASSUME NEW t \in WordThread, Hem!release_grant(t)
        PROVE  Hem!Mutual!Leave(t) \/ UNCHANGED Hem!Abstract
    <3>1. Hem!Abstract[t] = Place(holds[t], at[t], "grant") /\ at[t] \in holds[t]
      BY <2>9, <2>a, <2>b DEF Hem!release_grant, Hem!LabelInv
    <3>2. Hem!Abstract' = [Hem!Abstract EXCEPT ![t] =
                              Place(holds[t] \ {at[t]}, at[t], "await_ack")]
      BY <2>9, <2>a, HemMove DEF Hem!release_grant, Hem!TypeOK
    <3>. QED  BY <2>b, <3>1, <3>2, Zenon DEF Hem!Mutual!Leave
  <2>10. ASSUME NEW t \in WordThread, Hem!release_await_ack(t) PROVE UNCHANGED Hem!Abstract
    <3>1. Hem!Abstract[t] = Place(holds[t], at[t], "await_ack")
      BY <2>10, <2>b DEF Hem!release_await_ack
    <3>2. Hem!Abstract' = [Hem!Abstract EXCEPT ![t] = Place(holds[t], Nobody, "client")]
      BY <2>10, <2>a, HemMove DEF Hem!release_await_ack, Hem!TypeOK
    <3>. QED  BY <2>b, <3>1, <3>2
  <2>11. CASE UNCHANGED Hem!vars
    BY <2>11 DEF Hem!vars, Hem!Abstract, Hem!InCS, Hem!At
  <2>. HIDE DEF Place
  <2>. QED
    BY <2>1, <2>2, <2>3, <2>4, <2>5, <2>6, <2>7, <2>8, <2>9, <2>10, <2>11
       DEF Hem!Next, Hem!Progress, Hem!Mutual!Next
<1>3. Hem!HemInv /\ [Hem!Next(ctr)]_(Hem!vars) => Hem!HemInv'
  BY HemInvStep
<1>. QED  BY <1>1, <1>2, <1>3, HemInvInit, PTL DEF Hem!Spec, Hem!Mutual!Safety

-----------------------------------------------------------------------------
Rec == INSTANCE RecursiveLock WITH Thread <- WordThread, MaxDepth <- RecDepth, NoCPU <- Nobody

LEMMA RecParameters == Nobody \notin WordThread /\ RecDepth \in Nat \ {0}
BY WordParameters

LEMMA RecInvInit == Rec!Init => Rec!RecInv
BY RecParameters DEF Rec!Init, Rec!Lock!Init, Rec!RecInv, Rec!TypeOK

LEMMA RecInvStep == Rec!RecInv /\ [Rec!Next]_Rec!vars => Rec!RecInv'
<1>. SUFFICES ASSUME Rec!RecInv, [Rec!Next]_Rec!vars PROVE Rec!RecInv'
  OBVIOUS
<1>. USE RecParameters DEF Rec!RecInv, Rec!TypeOK, Rec!Step, Rec!Goto
<1>1. ASSUME NEW t \in WordThread, pc[t] = "client", depth[t] < RecDepth, Rec!Reenter(t)
      PROVE  Rec!RecInv'
  BY <1>1 DEF Rec!Reenter
<1>2. ASSUME NEW t \in WordThread, Rec!acquire_read(t) PROVE Rec!RecInv'
  BY <1>1, <1>2 DEF Rec!acquire_read, Rec!Lock!Request
<1>3. ASSUME NEW t \in WordThread, Rec!tryacquire_read(t) PROVE Rec!RecInv'
  BY <1>1, <1>3 DEF Rec!tryacquire_read
<1>4. ASSUME NEW t \in WordThread, Rec!lock_acquire(t) PROVE Rec!RecInv'
  BY <1>4 DEF Rec!lock_acquire, Rec!Lock!Enter, Rec!Lock!Free
<1>5. ASSUME NEW t \in WordThread, Rec!lock_tryacquire(t) PROVE Rec!RecInv'
  BY <1>5 DEF Rec!lock_tryacquire, Rec!Lock!TryEnter, Rec!Lock!Free
<1>6. ASSUME NEW t \in WordThread, Rec!write_owner(t) PROVE Rec!RecInv'
  BY <1>6 DEF Rec!write_owner
<1>7. ASSUME NEW t \in WordThread, Rec!release_count(t) PROVE Rec!RecInv'
  BY <1>7 DEF Rec!release_count
<1>8. ASSUME NEW t \in WordThread, Rec!release_owner(t) PROVE Rec!RecInv'
  BY <1>8 DEF Rec!release_owner
<1>9. ASSUME NEW t \in WordThread, Rec!lock_release(t) PROVE Rec!RecInv'
  BY <1>9 DEF Rec!lock_release, Rec!Lock!Leave
<1>10. CASE UNCHANGED Rec!vars
  BY <1>10 DEF Rec!vars
<1>. QED
  BY <1>2, <1>3, <1>4, <1>5, <1>6, <1>7, <1>8, <1>9, <1>10 DEF Rec!Next, Rec!Progress

\* Who has the lock is its recorded owner and alone; the unprotected count is only touched
\* by the holder of the plain lock; and no thread blocks on a lock it has.
LEMMA RecGrantFromInv ==
    ASSUME Rec!RecInv PROVE Rec!OneOwner /\ Rec!CountRaceFree /\ Rec!NoSelfDeadlock
BY RecParameters DEF Rec!RecInv, Rec!TypeOK, Rec!OneOwner, Rec!CountRaceFree,
                     Rec!NoSelfDeadlock

\* A lock that implements Mutex, wrapped by recursive_lock.h, implements Mutex again,
\* progress aside, for any number of threads and any depth: from the write of owner to the
\* release of the outermost level it is held by one thread.
THEOREM RecursiveLockRefinesMutex == Rec!Spec => Rec!Mutual!Safety
<1>1. Rec!Init => Rec!Mutual!Init
  BY DEF Rec!Init, Rec!Mutual!Init, Rec!Abstract, Rec!At
<1>2. Rec!RecInv /\ [Rec!Next]_Rec!vars => [Rec!Mutual!Next]_Rec!Abstract
  <2>. SUFFICES ASSUME Rec!RecInv, [Rec!Next]_Rec!vars PROVE [Rec!Mutual!Next]_Rec!Abstract
    OBVIOUS
  <2>. USE DEF Rec!RecInv, Rec!TypeOK, Rec!Step, Rec!Goto, Rec!At, Rec!Abstract
  <2>1. ASSUME NEW t \in WordThread, Rec!acquire_read(t)
        PROVE  Rec!Mutual!Request(t) \/ UNCHANGED Rec!Abstract
    <3>1. CASE Rec!Reenter(t)
      BY <2>1, <3>1 DEF Rec!Reenter
    <3>2. CASE ~Rec!Reenter(t)
      BY <2>1, <3>2, Zenon DEF Rec!acquire_read, Rec!Mutual!Request
    <3>. QED  BY <3>1, <3>2
  <2>2. ASSUME NEW t \in WordThread, Rec!tryacquire_read(t) PROVE UNCHANGED Rec!Abstract
    BY <2>2 DEF Rec!tryacquire_read, Rec!Reenter
  <2>3. ASSUME NEW t \in WordThread, Rec!lock_acquire(t) PROVE UNCHANGED Rec!Abstract
    BY <2>3 DEF Rec!lock_acquire
  <2>4. ASSUME NEW t \in WordThread, Rec!lock_tryacquire(t)
        PROVE  Rec!Mutual!Request(t) \/ UNCHANGED Rec!Abstract
    BY <2>4, Zenon DEF Rec!lock_tryacquire, Rec!Mutual!Request
  <2>5. ASSUME NEW t \in WordThread, Rec!write_owner(t) PROVE Rec!Mutual!Enter(t)
    <3>1. /\ pc[t] = "own" /\ depth[t] = 0 /\ \A u \in WordThread : depth[u] = 0
          /\ depth' = [depth EXCEPT ![t] = 1] /\ pc' = [pc EXCEPT ![t] = "client"]
      BY <2>5 DEF Rec!write_owner
    <3>2. Rec!Mutual!Free
      BY <3>1 DEF Rec!Mutual!Free
    <3>3. depth'[t] > 0 /\ \A u \in WordThread \ {t} : depth'[u] = depth[u] /\ pc'[u] = pc[u]
      BY <3>1
    <3>4. Rec!Abstract' = [Rec!Abstract EXCEPT ![t] = "in"]
      BY <3>1, <3>3, Zenon
    <3>5. Rec!Abstract[t] = "wait"
      BY <3>1
    <3>. QED  BY <3>2, <3>4, <3>5 DEF Rec!Mutual!Enter
  <2>6. ASSUME NEW t \in WordThread, Rec!release_count(t) PROVE UNCHANGED Rec!Abstract
    BY <2>6 DEF Rec!release_count
  <2>7. ASSUME NEW t \in WordThread, Rec!release_owner(t) PROVE Rec!Mutual!Leave(t)
    BY <2>7 DEF Rec!release_owner, Rec!Mutual!Leave
  <2>8. ASSUME NEW t \in WordThread, Rec!lock_release(t) PROVE UNCHANGED Rec!Abstract
    BY <2>8 DEF Rec!lock_release
  <2>9. CASE UNCHANGED Rec!vars
    BY <2>9 DEF Rec!vars
  <2>. QED
    BY <2>1, <2>2, <2>3, <2>4, <2>5, <2>6, <2>7, <2>8, <2>9, Zenon
       DEF Rec!Next, Rec!Progress, Rec!Mutual!Next
<1>. QED  BY <1>1, <1>2, RecInvInit, RecInvStep, PTL DEF Rec!Spec, Rec!Mutual!Safety

-----------------------------------------------------------------------------
HemZero == tails = 0 /\ grants = 0 /\ preds = 0 /\ at = 0 /\ holds = 0
RecZero == st = 0 /\ owner = 0 /\ count = 0 /\ depth = 0

HemKinds == {"hemlock", "hemlock_ctr"}

WordInit == \/ CASInit /\ HemZero /\ RecZero
            \/ spin \in HemKinds /\ Hem!Init /\ lock = 0 /\ RecZero
            \/ spin = "recursive_lock" /\ Rec!Init /\ lock = 0 /\ HemZero

WordNext ==
    \/ spin \in {"caslock", "ttaslock"} /\ CASNext /\ UNCHANGED <<hem_only, rec_only>>
    \/ /\ spin \in HemKinds /\ Hem!Next(spin = "hemlock_ctr")
       /\ UNCHANGED <<spin, lock, rec_only>>
    \/ spin = "recursive_lock" /\ Rec!Next /\ UNCHANGED <<spin, lock, hem_only>>

WordProgress(t) ==
    /\ t \in WordThread
    /\ \/ /\ spin \in {"caslock", "ttaslock"} /\ CASProgress(t)
          /\ UNCHANGED <<hem_only, rec_only>>
       \/ /\ spin \in HemKinds /\ Hem!Progress(t, spin = "hemlock_ctr")
          /\ UNCHANGED <<spin, lock, rec_only>>
       \/ /\ spin = "recursive_lock" /\ Rec!Progress(t)
          /\ UNCHANGED <<spin, lock, hem_only>>

\* A client that holds several hemlocks, or has nested a recursive lock, gives
\* up each of them (lock or level i) in the end, whatever it does in between.
Leave(t, i) ==
    \/ /\ spin \in HemKinds /\ i \in HemLocks /\ Hem!release_read_tail(t, i)
       /\ UNCHANGED <<spin, lock, rec_only>>
    \/ /\ spin = "recursive_lock" /\ i = 1 /\ Rec!release_owner(t)
       /\ UNCHANGED <<spin, lock, hem_only>>
    \/ /\ spin = "recursive_lock" /\ depth[t] = i /\ Rec!release_count(t)
       /\ UNCHANGED <<spin, lock, hem_only>>

WordSpec == /\ WordInit /\ [][WordNext]_word_vars
            /\ \A t \in WordThread :
                  /\ WF_word_vars(WordProgress(t))
                  /\ \A i \in HemLocks \cup 1 .. RecDepth : SF_word_vars(Leave(t, i))

-----------------------------------------------------------------------------
\* The structure through which each lock is handed over stays intact.  hemlock:
\* the one node of a thread has no hand-over pending when it is reused for
\* another lock, every waiter has a predecessor that will grant it, and
\* has_waiters is exact.  recursive lock: the owner and the count are those of
\* the one thread that has it, the unprotected count is only touched by the
\* holder of the plain lock, and no thread blocks on a lock it has.
GrantIntact ==
    /\ spin \in HemKinds => Hem!NoPendingGrant /\ Hem!PredecessorAlive /\ Hem!HasWaitersExact
    /\ spin = "recursive_lock" => Rec!OneOwner /\ Rec!CountRaceFree /\ Rec!NoSelfDeadlock

-----------------------------------------------------------------------------
\* what is inductive of each of them
WordInv == \/ CASInv /\ HemZero /\ RecZero
           \/ spin \in HemKinds /\ Hem!HemInv
           \/ spin = "recursive_lock" /\ Rec!RecInv

\* For any number of threads, locks and levels: hemlock's nodes and the recursive lock's
\* owner and count are what GrantIntact says they are.
THEOREM WordLocksGrantIntact == WordSpec => []GrantIntact
<1>1. WordInit => WordInv
  BY CASInvInit, HemInvInit, RecInvInit DEF WordInit, WordInv
<1>2. WordInv /\ [WordNext]_word_vars => WordInv'
  <2>. SUFFICES ASSUME WordInv, [WordNext]_word_vars PROVE WordInv'
    OBVIOUS
  <2>1. CASE CASInv /\ HemZero /\ RecZero
    <3>1. /\ spin \in {"caslock", "ttaslock"} /\ [CASNext]_cas_vars
          /\ UNCHANGED <<hem_only, rec_only>>
      BY <2>1 DEF CASInv, CASTypeOK, WordNext, word_vars, cas_vars, HemKinds
    <3>. QED  BY <2>1, <3>1, CASInvStep DEF WordInv, HemZero, RecZero, hem_only, rec_only
  <2>2. CASE spin \in HemKinds /\ Hem!HemInv
    <3>1. UNCHANGED spin /\ [Hem!Next(spin = "hemlock_ctr")]_(Hem!vars)
      BY <2>2 DEF WordNext, word_vars, hem_only, Hem!vars, HemKinds
    <3>2. Hem!HemInv'
      BY <2>2, <3>1, HemInvStep, Zenon
    <3>. QED  BY <2>2, <3>1, <3>2 DEF WordInv
  <2>3. CASE spin = "recursive_lock" /\ Rec!RecInv
    <3>1. UNCHANGED spin /\ [Rec!Next]_(Rec!vars)
      BY <2>3 DEF WordNext, word_vars, rec_only, Rec!vars, HemKinds
    <3>. QED  BY <2>3, <3>1, RecInvStep DEF WordInv
  <2>. QED  BY <2>1, <2>2, <2>3 DEF WordInv
<1>3. WordInv => GrantIntact
  BY HemGrantFromInv, RecGrantFromInv DEF WordInv, GrantIntact, HemKinds, CASInv, CASTypeOK
<1>. QED  BY <1>1, <1>2, <1>3, PTL DEF WordSpec
=============================================================================
