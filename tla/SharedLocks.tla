---------------------------- MODULE SharedLocks ----------------------------
(***************************************************************************)
(* include/vsync/spinlock: the objects that several threads may use at the *)
(* same time.  First the semaphore and the reader-writer lock; initially   *)
(* one of them is chosen (`shared`, which never changes), and what it does *)
(* not need stays 0.  Then, with a specification of their own, seqlock and *)
(* seqcount, whose readers take nothing.                                   *)
(***************************************************************************)
EXTENDS Control, Integers, FiniteSetsExt, FiniteSetTheorems, WellFoundedInduction, TLAPS

CONSTANTS SharedThread,
          Resources,      \* of the semaphore
          Shares          \* RWLOCK_N, of the rwlock

ASSUME SharedParameters == /\ IsFiniteSet(SharedThread)
                           /\ Resources \in Nat
                           /\ Shares \in Nat \ {0}

VARIABLES shared,
          sem, old,       \* the counter of semaphore and rwlock
          want, hold,     \* semaphore
          wb              \* rwlock

sem_only == <<want, hold>>

shared_vars == <<pc, shared, sem, old, sem_only, wb>>

Sem == INSTANCE Semaphore WITH Thread <- SharedThread, N <- Resources, s <- sem

-----------------------------------------------------------------------------
(***************************************************************************)
(* include/vsync/spinlock/rwlock.h: a writer bit and a semaphore of Shares *)
(* resources.  A reader takes one resource, a writer first the bit and     *)
(* then all resources.                                                     *)
(***************************************************************************)
rw_vars == <<pc, sem, old, wb>>

Writers == {t \in SharedThread : At(t, {"w_cs", "w_rel"})}

Readers == {t \in SharedThread : pc[t] = "r_cs"}

\* what the threads want and have of the semaphore
Want == [t \in SharedThread |-> IF At(t, {"w_sem", "w_cas"}) THEN Shares
                                ELSE IF At(t, {"r_sem", "r_cas"}) THEN 1 ELSE 0]
Hold == [t \in SharedThread |-> IF t \in Writers THEN Shares
                                ELSE IF t \in Readers THEN 1 ELSE 0]

RWSem == INSTANCE Semaphore WITH Thread <- SharedThread, N <- Shares, s <- sem,
                                want <- Want, hold <- Hold

RWTypeOK == /\ pc \in [SharedThread ->
                         {"idle", "w_wait", "w_sem", "w_try", "w_cas", "w_undo", "w_cs", "w_rel",
                          "r_wait", "r_sem", "r_try", "r_cas", "r_cs"}]
            /\ sem \in 0 .. Shares
            /\ old \in [SharedThread -> 0 .. Shares]
            /\ wb \in {0, 1}

RWInit == /\ pc = [t \in SharedThread |-> "idle"]
          /\ RWSem!semaphore_init(Shares)
          /\ wb = 0

write_acquire_call(t) == Step(t, "idle", "w_wait") /\ UNCHANGED <<sem, old, wb>>

\* rwlock_write_acquire: set the bit, take all resources
write_acquire_bit(t) == /\ Step(t, "w_wait", "w_sem")
                        /\ wb = 0 /\ wb' = 1
                        /\ UNCHANGED <<sem, old>>

write_acquire_sem(t) == /\ Step(t, "w_sem", "w_cs")
                        /\ RWSem!semaphore_acquire(Shares)
                        /\ UNCHANGED wb

\* rwlock_write_tryacquire: gives the bit back when the resources are not there
write_tryacquire_bit(t) == /\ Step(t, "idle", "w_try")
                           /\ wb = 0 /\ wb' = 1
                           /\ UNCHANGED <<sem, old>>

write_tryacquire_read(t) == /\ \/ /\ RWSem!semaphore_tryacquire_read(t, Shares)
                                  /\ Step(t, "w_try", "w_cas")
                               \/ /\ sem < Shares
                                  /\ Step(t, "w_try", "w_undo")
                                  /\ UNCHANGED <<sem, old>>
                            /\ UNCHANGED wb

write_tryacquire_cmpxchg(t) == \E ok \in BOOLEAN :
    /\ Step(t, "w_cas", IF ok THEN "w_cs" ELSE "w_undo")
    /\ RWSem!semaphore_tryacquire_cmpxchg(t, Shares, ok)
    /\ UNCHANGED wb

write_tryacquire_undo(t) == /\ Step(t, "w_undo", "idle")
                            /\ wb' = 0
                            /\ UNCHANGED <<sem, old>>

\* rwlock_write_release: the bit first, then the resources
write_release_bit(t) == /\ Step(t, "w_cs", "w_rel")
                        /\ wb' = 0
                        /\ UNCHANGED <<sem, old>>

write_release_sem(t) == /\ Step(t, "w_rel", "idle")
                        /\ RWSem!semaphore_release(Shares)
                        /\ UNCHANGED wb

read_acquire_call(t) == Step(t, "idle", "r_wait") /\ UNCHANGED <<sem, old, wb>>

\* mutation: readers do not wait for the writers
read_acquire_bit_ignored(t) == Step(t, "r_wait", "r_sem") /\ UNCHANGED <<sem, old, wb>>

\* rwlock_read_acquire: wait for the bit, take one resource
read_acquire_bit(t) == /\ Step(t, "r_wait", "r_sem")
                       /\ wb = 0
                       /\ UNCHANGED <<sem, old, wb>>

read_acquire_sem(t) == /\ Step(t, "r_sem", "r_cs")
                       /\ RWSem!semaphore_acquire(1)
                       /\ UNCHANGED wb

\* rwlock_read_tryacquire
read_tryacquire_bit(t) == /\ Step(t, "idle", "r_try")
                          /\ wb = 0
                          /\ UNCHANGED <<sem, old, wb>>

read_tryacquire_read(t) == /\ \/ /\ RWSem!semaphore_tryacquire_read(t, 1)
                                 /\ Step(t, "r_try", "r_cas")
                              \/ /\ sem < 1
                                 /\ Step(t, "r_try", "idle")
                                 /\ UNCHANGED <<sem, old>>
                           /\ UNCHANGED wb

read_tryacquire_cmpxchg(t) == \E ok \in BOOLEAN :
    /\ Step(t, "r_cas", IF ok THEN "r_cs" ELSE "idle")
    /\ RWSem!semaphore_tryacquire_cmpxchg(t, 1, ok)
    /\ UNCHANGED wb

\* rwlock_read_release
read_release(t) == /\ Step(t, "r_cs", "idle")
                   /\ RWSem!semaphore_release(1)
                   /\ UNCHANGED wb

\* rwlock_acquired_by_writer
acquired_by_writer == wb > 0

\* mutation: also true while a writer has all resources
acquired_by_readers_loose == sem # Shares

\* rwlock_acquired_by_readers
acquired_by_readers == sem > 0 /\ sem # Shares

RWProgress(t) == \/ write_acquire_bit(t) \/ write_acquire_sem(t)
                 \/ write_tryacquire_read(t) \/ write_tryacquire_cmpxchg(t)
                 \/ write_tryacquire_undo(t)
                 \/ write_release_bit(t) \/ write_release_sem(t)
                 \/ read_acquire_bit(t) \/ read_acquire_sem(t)
                 \/ read_tryacquire_read(t) \/ read_tryacquire_cmpxchg(t)
                 \/ read_release(t)

RWNext == \E t \in SharedThread : \/ write_acquire_call(t) \/ write_tryacquire_bit(t)
                                  \/ read_acquire_call(t) \/ read_tryacquire_bit(t)
                                  \/ RWProgress(t)

-----------------------------------------------------------------------------
SharedInit == \/ shared = "semaphore" /\ Sem!Init /\ wb = 0
              \/ shared = "rwlock" /\ RWInit /\ want = 0 /\ hold = 0

SharedNext == \/ shared = "semaphore" /\ Sem!Next /\ UNCHANGED <<shared, wb>>
              \/ shared = "rwlock" /\ RWNext /\ UNCHANGED <<shared, sem_only>>

SharedProgress(t) ==
    /\ t \in SharedThread
    /\ \/ shared = "semaphore" /\ Sem!Progress(t) /\ UNCHANGED <<shared, wb>>
       \/ shared = "rwlock" /\ RWProgress(t) /\ UNCHANGED <<shared, sem_only>>

SharedSpec == /\ SharedInit /\ [][SharedNext]_shared_vars
              /\ \A t \in SharedThread : WF_shared_vars(SharedProgress(t))

-----------------------------------------------------------------------------
\* A writer is alone: no second writer, no reader, also while it is between the
\* two steps of write_release and others already see the bit cleared.
NoOtherInside == \A t \in Writers : Writers = {t} /\ Readers = {}

\* The bit is set exactly while some writer has it; acquired_by_writer reports
\* every writer that is inside or waits for the readers to leave.
WriterReported ==
    acquired_by_writer <=>
        \E t \in SharedThread : At(t, {"w_sem", "w_try", "w_cas", "w_undo", "w_cs"})

\* acquired_by_readers is exact: true iff there are readers inside.
ReadersReported == acquired_by_readers <=> Readers # {}

\* A writer of an rwlock is alone, also between the two steps of its release, and
\* rwlock_acquired_by_writer reports who has the writer bit.  With more resources than
\* threads rwlock_acquired_by_readers is exact; with as many readers inside as there are
\* resources the semaphore is at 0 as under a writer.
WriterAlone == shared = "rwlock" => /\ NoOtherInside
                                    /\ WriterReported
                                    /\ Cardinality(SharedThread) < Shares => ReadersReported

\* No resource is lost or invented, whatever waiting and trying acquires,
\* partial releases and failed attempts interleave.
ResourcesAccounted == /\ shared = "semaphore" => Sem!Conservation
                      /\ shared = "rwlock" => RWSem!Conservation

-----------------------------------------------------------------------------
\* A writer has all the resources.  While there is none the readers have what the
\* semaphore lacks; a pending cmpxchg expects as many resources as it takes.
ShareInv == /\ \A t, v \in SharedThread : t \in Writers /\ v \in Writers => t = v
            /\ Writers # {} => sem = 0 /\ Readers = {}
            /\ Writers = {} => sem + Cardinality(Readers) = Shares
            /\ \A t \in SharedThread : /\ pc[t] = "r_cas" => old[t] >= 1
                                       /\ pc[t] = "w_cas" => old[t] >= Shares

\* One thread at most has the writer bit.
HasBit(t) == At(t, {"w_sem", "w_try", "w_cas", "w_undo", "w_cs"})

BitInv == /\ \A t, v \in SharedThread : HasBit(t) /\ HasBit(v) => t = v
          /\ wb = 0 <=> \A t \in SharedThread : ~HasBit(t)

\* The sum of a function over its domain, as Conservation takes it.
Total(h, S) == MapThenSumSet(LAMBDA v : h[v], S)

\* the order in which the fold takes the elements
First(s) == CHOOSE e \in s : TRUE

\* What the recursive function of MapThenFoldSet satisfies.
IsSum(f, h, Q) ==
    f = [s \in Q |-> IF s = {} THEN 0 ELSE h[First(s)] + f[s \ {First(s)}]]

LEMMA TotalIsFold == \A h, S : Total(h, S) = (CHOOSE f : IsSum(f, h, SUBSET S))[S]
BY DEF Total, MapThenSumSet, MapThenFoldSet, IsSum, First

LEMMA LeastNatural ==
    ASSUME NEW Q \in SUBSET Nat, Q # {}
    PROVE  \E n \in Q : \A k \in Q : n <= k
<1>1. PICK n \in Q : \A k \in Q : ~(<<k, n>> \in OpToRel(<, Nat))
  BY WFMin, NatLessThanWellFounded, Zenon
<1>2. ASSUME NEW k \in Q PROVE n <= k
  <2>1. ~(k < n)
    <3>1. <<k, n>> \in Nat \X Nat /\ <<k, n>>[1] = k /\ <<k, n>>[2] = n
      OBVIOUS
    <3>. QED BY <1>1, <3>1, Zenon DEF OpToRel
  <2>. QED  BY <2>1
<1>. QED  BY <1>2

\* The recursion has a solution on the sets with at most n elements, hence on all.
LEMMA TotalExists ==
    ASSUME NEW S, IsFiniteSet(S), NEW h \in [S -> Nat]
    PROVE  \E f \in [SUBSET S -> Nat] : IsSum(f, h, SUBSET S)
<1>. DEFINE UpTo(n) == {s \in SUBSET S : Cardinality(s) <= n}
            Bad == {n \in Nat : ~\E f \in [UpTo(n) -> Nat] : IsSum(f, h, UpTo(n))}
<1>0. \A s \in SUBSET S : /\ Cardinality(s) \in Nat
                          /\ Cardinality(s) <= Cardinality(S)
                          /\ Cardinality(s) = 0 <=> s = {}
                          /\ s # {} => /\ First(s) \in s
                                       /\ Cardinality(s \ {First(s)}) = Cardinality(s) - 1
  BY FS_Subset, FS_CardinalityType, FS_EmptySet, FS_RemoveElement, Zenon DEF First
<1>a. \A s \in SUBSET S : Cardinality(s) \in Nat /\ (Cardinality(s) = 0 => s = {})
  BY <1>0, Zenon
<1>1. 0 \notin Bad
  <2>. DEFINE f == [s \in UpTo(0) |-> 0]
  <2>1. \A s \in UpTo(0) : s = {}
    BY <1>a
  <2>2. f \in [UpTo(0) -> Nat]
    OBVIOUS
  <2>3. f = [s \in UpTo(0) |-> IF s = {} THEN 0 ELSE h[First(s)] + f[s \ {First(s)}]]
    <3>. HIDE DEF UpTo
    <3>. QED BY <2>1
  <2>. QED  BY <2>2, <2>3, Zenon DEF IsSum
<1>2. ASSUME NEW n \in Nat, n \notin Bad PROVE n + 1 \notin Bad
  <2>1. PICK g \in [UpTo(n) -> Nat] : IsSum(g, h, UpTo(n))
    BY <1>2
  <2>. DEFINE f == [s \in UpTo(n + 1) |->
                      IF s = {} THEN 0 ELSE h[First(s)] + g[s \ {First(s)}]]
  <2>2. \A s \in UpTo(n + 1) : s # {} => s \ {First(s)} \in UpTo(n) /\ First(s) \in S
    BY <1>0
  <2>3. f \in [UpTo(n + 1) -> Nat]
    BY <2>2
  <2>4. ASSUME NEW s \in UpTo(n) PROVE f[s] = g[s]
    <3>1. g[s] = IF s = {} THEN 0 ELSE h[First(s)] + g[s \ {First(s)}]
      <4>. HIDE DEF UpTo
      <4>. QED BY <2>1, Zenon DEF IsSum
    <3>2. s \in UpTo(n + 1)
      BY <1>a
    <3>. QED  BY <3>1, <3>2
  <2>5. IsSum(f, h, UpTo(n + 1))
    BY <2>2, <2>3, <2>4, Zenon DEF IsSum
  <2>. QED  BY <2>3, <2>5, Zenon
<1>3. Bad = {}
  <2>1. SUFFICES ASSUME Bad # {} PROVE FALSE
    BY Zenon
  <2>2. PICK n \in Bad : \A k \in Bad : n <= k
    BY <2>1, LeastNatural, Zenon
  <2>3. n \in Nat /\ n # 0 /\ n - 1 \in Nat
    BY <1>1, <2>2
  <2>4. n - 1 \notin Bad
    <3>. HIDE DEF Bad
    <3>. QED BY <2>2, <2>3
  <2>. QED
    <3>. HIDE DEF Bad
    <3>. QED BY <1>2, <2>2, <2>3, <2>4
<1>4. UpTo(Cardinality(S)) = SUBSET S /\ Cardinality(S) \in Nat
  BY <1>0, FS_CardinalityType, Zenon
<1>5. \E f \in [UpTo(Cardinality(S)) -> Nat] : IsSum(f, h, UpTo(Cardinality(S)))
  BY <1>3, <1>4, Zenon
<1>. QED  BY <1>4, <1>5, Zenon

LEMMA TotalRecursion ==
    ASSUME NEW S, IsFiniteSet(S), NEW h \in [S -> Nat]
    PROVE  LET f == CHOOSE f : IsSum(f, h, SUBSET S) IN IsSum(f, h, SUBSET S)
BY TotalExists, Zenon

\* A sum changes by what one term of it changes.
LEMMA TotalOfUpdate ==
    ASSUME NEW S, IsFiniteSet(S), NEW h \in [S -> Nat], NEW g \in [S -> Nat], NEW t \in S,
           \A v \in S \ {t} : g[v] = h[v]
    PROVE  Total(h, S) \in Nat /\ Total(g, S) = Total(h, S) + g[t] - h[t]
<1>. DEFINE p == CHOOSE f : IsSum(f, h, SUBSET S)
            q == CHOOSE f : IsSum(f, g, SUBSET S)
            d(s) == IF t \in s THEN g[t] - h[t] ELSE 0
            Bad == {s \in SUBSET S : ~(p[s] \in Nat /\ q[s] = p[s] + d(s))}
<1>1. /\ \A s \in SUBSET S : p[s] = IF s = {} THEN 0 ELSE h[First(s)] + p[s \ {First(s)}]
      /\ \A s \in SUBSET S : q[s] = IF s = {} THEN 0 ELSE g[First(s)] + q[s \ {First(s)}]
  <2>. HIDE DEF p, q
  <2>1. IsSum(p, h, SUBSET S) /\ IsSum(q, g, SUBSET S)
    BY TotalRecursion, Zenon DEF p, q
  <2>. QED  BY <2>1, Zenon DEF IsSum
<1>2. Bad = {}
  <2>. HIDE DEF p, q
  <2>1. SUFFICES ASSUME Bad # {} PROVE FALSE
    OBVIOUS
  <2>2. PICK s \in Bad : \A r \in Bad : <<r, s>> \notin StrictSubsetOrdering(S)
    <3>1. Bad \subseteq FiniteSubsetsOf(S)
      BY FS_Subset DEF FiniteSubsetsOf
    <3>. HIDE DEF Bad
    <3>. QED BY <2>1, <3>1, FS_StrictSubsetOrderingWellFounded, WFMin, Zenon
  <2>. DEFINE e == First(s)
  <2>3. s \in SUBSET S /\ s # {}
    <3>1. p[{}] = 0 /\ q[{}] = 0
      BY <1>1, Zenon
    <3>2. p[{}] \in Nat /\ q[{}] = p[{}] + d({})
      BY <3>1
    <3>. QED  BY <2>2, <3>2
  <2>4. e \in s
    BY <2>3 DEF First
  <2>5. p[s \ {e}] \in Nat /\ q[s \ {e}] = p[s \ {e}] + d(s \ {e})
    <3>1. <<s \ {e}, s>> \in StrictSubsetOrdering(S)
      <4>. HIDE DEF e
      <4>. QED BY <2>3, <2>4 DEF StrictSubsetOrdering
    <3>2. s \ {e} \notin Bad
      BY <2>2, <3>1, Zenon
    <3>. QED  BY <2>3, <3>2
  <2>6. p[s] = h[e] + p[s \ {e}] /\ q[s] = g[e] + q[s \ {e}]
    BY <1>1, <2>3, Zenon
  <2>7. h[e] \in Nat /\ g[e] \in Nat /\ g[t] \in Nat /\ h[t] \in Nat
    BY <2>3, <2>4
  <2>8. CASE e = t
    <3>1. d(s \ {e}) = 0 /\ d(s) = g[t] - h[t]
      BY <2>4, <2>8
    <3>. QED  BY <2>2, <2>5, <2>6, <2>7, <2>8, <3>1
  <2>9. CASE e # t
    <3>1. d(s \ {e}) = d(s) /\ g[e] = h[e]
      BY <2>3, <2>4, <2>9
    <3>. QED  BY <2>2, <2>5, <2>6, <2>7, <2>9, <3>1
  <2>. QED  BY <2>8, <2>9
<1>3. S \notin Bad
  BY <1>2, Zenon
<1>. QED  BY <1>3, TotalIsFold

LEMMA SameOperators ==
    /\ \A h, S : Sem!MapThenSumSet(LAMBDA v : h[v], S) = Total(h, S)
    /\ \A h, S : RWSem!MapThenSumSet(LAMBDA v : h[v], S) = Total(h, S)
BY DEF Total, MapThenSumSet, MapThenFoldSet, Sem!MapThenSumSet, Sem!MapThenFoldSet,
       RWSem!MapThenSumSet, RWSem!MapThenFoldSet

USE SharedParameters

\* Counting the readers: one more, one less, or none.
LEMMA ReaderCount ==
    /\ Cardinality({}) = 0
    /\ Cardinality(Readers) \in Nat
    /\ Cardinality(Readers) = 0 <=> Readers = {}
    /\ \A t \in SharedThread \ Readers :
          Cardinality(Readers \cup {t}) = Cardinality(Readers) + 1
    /\ \A t \in Readers : Cardinality(Readers \ {t}) = Cardinality(Readers) - 1
<1>1. IsFiniteSet(Readers)
  BY FS_Subset DEF Readers
<1>. QED  BY <1>1, FS_EmptySet, FS_AddElement, FS_RemoveElement, FS_CardinalityType, Zenon

LEMMA ShareInvInit ==
    ASSUME RWInit
    PROVE  RWTypeOK /\ ShareInv
<1>1. Readers = {} /\ Writers = {}
  BY DEF RWInit, Readers, Writers, At
<1>2. RWTypeOK
  BY DEF RWInit, RWTypeOK, RWSem!semaphore_init
<1>. QED
  BY <1>1, <1>2, ReaderCount DEF RWInit, ShareInv, RWSem!semaphore_init

\* A step that lets no thread in or out and leaves the semaphore alone keeps the invariant.
LEMMA ShareInvFrame ==
    ASSUME RWTypeOK, ShareInv, NEW t \in SharedThread, NEW to,
           pc' = [pc EXCEPT ![t] = to], UNCHANGED sem,
           ~At(t, {"r_cs", "w_cs", "w_rel"}), to \notin {"r_cs", "w_cs", "w_rel"},
           \A v \in SharedThread \ {t} : old'[v] = old[v],
           to = "r_cas" => old'[t] >= 1,
           to = "w_cas" => old'[t] >= Shares
    PROVE  ShareInv'
<1>1. Readers' = Readers /\ Writers' = Writers
  BY DEF RWTypeOK, Readers, Writers, At
<1>. QED
  BY <1>1 DEF ShareInv, RWTypeOK

\* A writer gets in with all the resources there are.
LEMMA WriterEnters ==
    ASSUME RWTypeOK, ShareInv, NEW t \in SharedThread,
           pc' = [pc EXCEPT ![t] = "w_cs"], ~At(t, {"r_cs", "w_cs", "w_rel"}),
           sem >= Shares, sem' = sem - Shares,
           \A v \in SharedThread \ {t} : old'[v] = old[v]
    PROVE  ShareInv' /\ sem' \in 0 .. Shares
<1>1. Writers = {} /\ Readers = {} /\ sem = Shares
  BY ReaderCount DEF ShareInv, RWTypeOK
<1>2. Readers' = {} /\ Writers' = {t}
  BY <1>1 DEF RWTypeOK, Readers, Writers, At
<1>. QED
  BY <1>1, <1>2 DEF ShareInv, RWTypeOK

\* A reader gets in with one resource, which no writer has.
LEMMA ReaderEnters ==
    ASSUME RWTypeOK, ShareInv, NEW t \in SharedThread,
           pc' = [pc EXCEPT ![t] = "r_cs"], ~At(t, {"r_cs", "w_cs", "w_rel"}),
           sem >= 1, sem' = sem - 1, \A v \in SharedThread \ {t} : old'[v] = old[v]
    PROVE  ShareInv' /\ sem' \in 0 .. Shares
<1>1. Writers = {} /\ t \notin Readers
  BY DEF ShareInv, Readers, At
<1>2. Writers' = {} /\ Readers' = Readers \cup {t}
  BY <1>1 DEF RWTypeOK, Readers, Writers, At
<1>3. Cardinality(Readers') = Cardinality(Readers) + 1
  BY <1>1, <1>2, ReaderCount
<1>. QED
  BY <1>1, <1>2, <1>3, ReaderCount DEF ShareInv, RWTypeOK

LEMMA ShareInvStep ==
    ASSUME RWTypeOK, ShareInv, [RWNext]_rw_vars
    PROVE  RWTypeOK' /\ ShareInv'
<1>1. ASSUME NEW t \in SharedThread,
             \/ write_acquire_call(t) \/ write_acquire_bit(t) \/ write_tryacquire_bit(t)
             \/ write_tryacquire_undo(t) \/ read_acquire_call(t) \/ read_acquire_bit(t)
             \/ read_tryacquire_bit(t)
      PROVE  RWTypeOK' /\ ShareInv'
  <2>1. PICK to \in {"idle", "w_wait", "w_sem", "w_try", "r_wait", "r_sem", "r_try"} :
           /\ pc' = [pc EXCEPT ![t] = to] /\ UNCHANGED <<sem, old>> /\ wb' \in {0, 1}
           /\ ~At(t, {"r_cs", "w_cs", "w_rel"})
    BY <1>1 DEF write_acquire_call, write_acquire_bit, write_tryacquire_bit,
                write_tryacquire_undo, read_acquire_call, read_acquire_bit,
                read_tryacquire_bit, Step, Goto, At, RWTypeOK
  <2>2. ShareInv'
    BY <2>1, ShareInvFrame, Zenon
  <2>. QED  BY <2>1, <2>2 DEF RWTypeOK
<1>2. ASSUME NEW t \in SharedThread, write_acquire_sem(t)
      PROVE  RWTypeOK' /\ ShareInv'
  <2>1. ShareInv' /\ sem' \in 0 .. Shares
    BY <1>2, WriterEnters, Zenon DEF write_acquire_sem, RWSem!semaphore_acquire,
                                     Step, Goto, At
  <2>. QED  BY <1>2, <2>1 DEF write_acquire_sem, RWSem!semaphore_acquire, Step,
                              Goto, RWTypeOK
<1>3. ASSUME NEW t \in SharedThread, read_acquire_sem(t) PROVE RWTypeOK' /\ ShareInv'
  <2>1. ShareInv' /\ sem' \in 0 .. Shares
    BY <1>3, ReaderEnters, Zenon DEF read_acquire_sem, RWSem!semaphore_acquire,
                                     Step, Goto, At
  <2>. QED  BY <1>3, <2>1 DEF read_acquire_sem, RWSem!semaphore_acquire, Step,
                              Goto, RWTypeOK
<1>4. ASSUME NEW t \in SharedThread, write_tryacquire_read(t) \/ read_tryacquire_read(t)
      PROVE  RWTypeOK' /\ ShareInv'
  <2>1. PICK to \in {"w_cas", "w_undo", "r_cas", "idle"} :
           /\ pc' = [pc EXCEPT ![t] = to] /\ UNCHANGED <<sem, wb>>
           /\ ~At(t, {"r_cs", "w_cs", "w_rel"})
           /\ (old' = old /\ to \in {"w_undo", "idle"}) \/ old' = [old EXCEPT ![t] = sem]
           /\ to = "r_cas" => old'[t] >= 1
           /\ to = "w_cas" => old'[t] >= Shares
    BY <1>4 DEF write_tryacquire_read, read_tryacquire_read,
                RWSem!semaphore_tryacquire_read,
                Step, Goto, At, RWTypeOK
  <2>2. ShareInv'
    BY <2>1, ShareInvFrame, Zenon DEF RWTypeOK
  <2>. QED  BY <2>1, <2>2 DEF RWTypeOK
<1>5. ASSUME NEW t \in SharedThread, write_tryacquire_cmpxchg(t)
      PROVE  RWTypeOK' /\ ShareInv'
  <2>. PICK ok \in BOOLEAN :
           /\ Step(t, "w_cas", IF ok THEN "w_cs" ELSE "w_undo")
           /\ RWSem!semaphore_tryacquire_cmpxchg(t, Shares, ok) /\ UNCHANGED wb
    BY <1>5 DEF write_tryacquire_cmpxchg
  <2>. USE DEF Step, Goto, At, RWSem!semaphore_tryacquire_cmpxchg
  <2>1. CASE ok
    <3>1. sem >= Shares
      BY <2>1, Zenon DEF ShareInv
    <3>2. ShareInv' /\ sem' \in 0 .. Shares
      BY <2>1, <3>1, WriterEnters, Zenon DEF RWTypeOK
    <3>. QED  BY <2>1, <3>2 DEF RWTypeOK
  <2>2. CASE ~ok
    <3>1. ShareInv'
      BY <2>2, ShareInvFrame, Zenon DEF RWTypeOK
    <3>. QED  BY <2>2, <3>1 DEF RWTypeOK
  <2>. QED  BY <2>1, <2>2
<1>6. ASSUME NEW t \in SharedThread, read_tryacquire_cmpxchg(t)
      PROVE  RWTypeOK' /\ ShareInv'
  <2>. PICK ok \in BOOLEAN :
           /\ Step(t, "r_cas", IF ok THEN "r_cs" ELSE "idle")
           /\ RWSem!semaphore_tryacquire_cmpxchg(t, 1, ok) /\ UNCHANGED wb
    BY <1>6 DEF read_tryacquire_cmpxchg
  <2>. USE DEF Step, Goto, At, RWSem!semaphore_tryacquire_cmpxchg
  <2>1. CASE ok
    <3>1. sem >= 1
      BY <2>1, Zenon DEF ShareInv
    <3>2. ShareInv' /\ sem' \in 0 .. Shares
      BY <2>1, <3>1, ReaderEnters, Zenon DEF RWTypeOK
    <3>. QED  BY <2>1, <3>2 DEF RWTypeOK
  <2>2. CASE ~ok
    <3>1. ShareInv'
      BY <2>2, ShareInvFrame, Zenon DEF RWTypeOK
    <3>. QED  BY <2>2, <3>1 DEF RWTypeOK
  <2>. QED  BY <2>1, <2>2
<1>7. ASSUME NEW t \in SharedThread, write_release_bit(t)
      PROVE  RWTypeOK' /\ ShareInv'
  <2>1. Writers' = Writers /\ Readers' = Readers
    BY <1>7 DEF write_release_bit, Step, Goto, RWTypeOK, Writers, Readers,
                At
  <2>. QED  BY <1>7, <2>1 DEF write_release_bit, Step, Goto, RWTypeOK, ShareInv
<1>8. ASSUME NEW t \in SharedThread, write_release_sem(t)
      PROVE  RWTypeOK' /\ ShareInv'
  <2>1. /\ t \in Writers /\ pc' = [pc EXCEPT ![t] = "idle"]
        /\ sem' = sem + Shares /\ UNCHANGED <<old, wb>>
    BY <1>8 DEF write_release_sem, RWSem!semaphore_release, Step, Goto,
                Writers, At
  <2>2. sem = 0 /\ Readers = {} /\ Writers = {t}
    BY <2>1 DEF ShareInv, Writers
  <2>3. Writers' = {} /\ Readers' = {}
    BY <2>1, <2>2 DEF RWTypeOK, Writers, Readers, At
  <2>. QED  BY <2>1, <2>2, <2>3, ReaderCount DEF RWTypeOK, ShareInv
<1>9. ASSUME NEW t \in SharedThread, read_release(t) PROVE RWTypeOK' /\ ShareInv'
  <2>1. /\ t \in Readers /\ pc' = [pc EXCEPT ![t] = "idle"]
        /\ sem' = sem + 1 /\ UNCHANGED <<old, wb>>
    BY <1>9 DEF read_release, RWSem!semaphore_release, Step, Goto, Readers
  <2>2. Writers = {} /\ sem + Cardinality(Readers) = Shares
    BY <2>1 DEF ShareInv
  <2>3. Writers' = {} /\ Readers' = Readers \ {t}
    BY <2>1, <2>2 DEF RWTypeOK, Writers, Readers, At
  <2>4. /\ Cardinality(Readers') = Cardinality(Readers) - 1
        /\ Cardinality(Readers) \in Nat \ {0}
    BY <2>1, <2>3, ReaderCount
  <2>. QED  BY <2>1, <2>2, <2>3, <2>4 DEF RWTypeOK, ShareInv
<1>10. CASE UNCHANGED rw_vars
  BY <1>10 DEF rw_vars, RWTypeOK, ShareInv, Writers, Readers, At
<1>. QED
  BY <1>1, <1>2, <1>3, <1>4, <1>5, <1>6, <1>7, <1>8, <1>9, <1>10, SMTT(40) DEF RWNext,
     RWProgress

LEMMA BitInvStep == ASSUME RWTypeOK, BitInv, [RWNext]_rw_vars PROVE BitInv'
<1>. USE DEF RWTypeOK, BitInv, HasBit, At, Step, Goto
<1>1. ASSUME NEW t \in SharedThread, write_acquire_bit(t) \/ write_tryacquire_bit(t)
      PROVE  BitInv'
  BY <1>1 DEF write_acquire_bit, write_tryacquire_bit
<1>2. ASSUME NEW t \in SharedThread, write_tryacquire_undo(t) \/ write_release_bit(t)
      PROVE  BitInv'
  BY <1>2 DEF write_tryacquire_undo, write_release_bit
<1>3. ASSUME NEW t \in SharedThread,
             \/ write_acquire_call(t) \/ write_acquire_sem(t) \/ write_tryacquire_read(t)
             \/ write_tryacquire_cmpxchg(t) \/ write_release_sem(t)
      PROVE  BitInv'
  BY <1>3 DEF write_acquire_call, write_acquire_sem, write_tryacquire_read,
              write_tryacquire_cmpxchg, write_release_sem
<1>4. ASSUME NEW t \in SharedThread,
             \/ read_acquire_call(t) \/ read_acquire_bit(t) \/ read_acquire_sem(t)
             \/ read_tryacquire_bit(t) \/ read_tryacquire_read(t)
             \/ read_tryacquire_cmpxchg(t) \/ read_release(t)
      PROVE  BitInv'
  BY <1>4 DEF read_acquire_call, read_acquire_bit, read_acquire_sem,
              read_tryacquire_bit,
              read_tryacquire_read, read_tryacquire_cmpxchg, read_release
<1>5. CASE UNCHANGED rw_vars
  BY <1>5 DEF rw_vars
<1>. QED  BY <1>1, <1>2, <1>3, <1>4, <1>5 DEF RWNext, RWProgress

-----------------------------------------------------------------------------
\* What a step takes from the semaphore one thread gets, and the other way round.
LEMMA AccountStep ==
    ASSUME RWTypeOK, RWNext
    PROVE  \E t \in SharedThread : /\ \A v \in SharedThread \ {t} : Hold'[v] = Hold[v]
                                   /\ sem' = sem + Hold[t] - Hold'[t]
<1>. PICK t \in SharedThread : \/ write_acquire_call(t) \/ write_tryacquire_bit(t)
                               \/ read_acquire_call(t) \/ read_tryacquire_bit(t)
                               \/ RWProgress(t)
  BY DEF RWNext
<1>. DEFINE Holds(label) == IF label \in {"w_cs", "w_rel"} THEN Shares
                            ELSE IF label = "r_cs" THEN 1 ELSE 0
<1>1. /\ \A v \in SharedThread : Hold[v] = Holds(pc[v])
      /\ \A v \in SharedThread : Hold'[v] = Holds(pc'[v])
  BY DEF Hold, Writers, Readers, At
<1>2. \E to : pc' = [pc EXCEPT ![t] = to]
  BY DEF RWProgress, write_acquire_call, write_tryacquire_bit, read_acquire_call,
         read_tryacquire_bit, write_acquire_bit, write_acquire_sem,
         write_tryacquire_read, write_tryacquire_cmpxchg, write_tryacquire_undo,
         write_release_bit, write_release_sem, read_acquire_bit,
         read_acquire_sem, read_tryacquire_read, read_tryacquire_cmpxchg,
         read_release, Step, Goto
<1>3. \A v \in SharedThread \ {t} : pc'[v] = pc[v]
  BY <1>2 DEF RWTypeOK
<1>. USE DEF Step, Goto, RWTypeOK
<1>4. CASE \/ write_acquire_call(t) \/ write_tryacquire_bit(t)
           \/ read_acquire_call(t) \/ read_tryacquire_bit(t)
           \/ write_acquire_bit(t) \/ read_acquire_bit(t)
           \/ write_tryacquire_undo(t) \/ write_release_bit(t)
  <2>1. sem' = sem /\ Holds(pc'[t]) = Holds(pc[t])
    BY <1>4 DEF write_acquire_call, write_tryacquire_bit, read_acquire_call,
                read_tryacquire_bit, write_acquire_bit, read_acquire_bit,
                write_tryacquire_undo, write_release_bit
  <2>. QED  BY <1>1, <1>3, <2>1
<1>5. CASE write_tryacquire_read(t) \/ read_tryacquire_read(t)
  <2>1. sem' = sem /\ Holds(pc'[t]) = Holds(pc[t])
    BY <1>5 DEF write_tryacquire_read, read_tryacquire_read,
                RWSem!semaphore_tryacquire_read
  <2>. QED  BY <1>1, <1>3, <2>1
<1>6. CASE write_acquire_sem(t) \/ read_acquire_sem(t)
  <2>1. sem' = sem + Holds(pc[t]) - Holds(pc'[t])
    BY <1>6 DEF write_acquire_sem, read_acquire_sem, RWSem!semaphore_acquire
  <2>. QED  BY <1>1, <1>3, <2>1
<1>7. CASE write_tryacquire_cmpxchg(t) \/ read_tryacquire_cmpxchg(t)
  <2>1. sem' = sem + Holds(pc[t]) - Holds(pc'[t])
    BY <1>7 DEF write_tryacquire_cmpxchg, read_tryacquire_cmpxchg,
                RWSem!semaphore_tryacquire_cmpxchg
  <2>. QED  BY <1>1, <1>3, <2>1
<1>8. CASE write_release_sem(t) \/ read_release(t)
  <2>1. sem' = sem + Holds(pc[t]) - Holds(pc'[t])
    BY <1>8 DEF write_release_sem, read_release, RWSem!semaphore_release
  <2>. QED  BY <1>1, <1>3, <2>1
<1>. QED  BY <1>4, <1>5, <1>6, <1>7, <1>8 DEF RWProgress

LEMMA RWHoldType == Hold \in [SharedThread -> Nat] /\ Hold' \in [SharedThread -> Nat]
BY DEF Hold

LEMMA RWAccountedStep ==
    ASSUME RWTypeOK, RWSem!Conservation, [RWNext]_rw_vars
    PROVE  RWSem!Conservation'
<1>1. RWSem!Conservation <=> sem + Total(Hold, SharedThread) = Shares
  BY SameOperators, Zenon DEF RWSem!Conservation, RWSem!Conservation
<1>2. RWSem!Conservation' <=> sem' + Total(Hold', SharedThread) = Shares
  BY DEF RWSem!Conservation, RWSem!Conservation, RWSem!MapThenSumSet,
         RWSem!MapThenFoldSet, Total, MapThenSumSet, MapThenFoldSet
<1>3. CASE RWNext
  <2>1. PICK t \in SharedThread : /\ \A v \in SharedThread \ {t} : Hold'[v] = Hold[v]
                                  /\ sem' = sem + Hold[t] - Hold'[t]
    BY <1>3, AccountStep, Zenon
  <2>2. /\ Total(Hold, SharedThread) \in Nat
        /\ Total(Hold', SharedThread) =
              Total(Hold, SharedThread) + Hold'[t] - Hold[t]
    BY <2>1, RWHoldType, TotalOfUpdate, SharedParameters, ZenonT(40)
  <2>3. Hold[t] \in Nat /\ Hold'[t] \in Nat /\ sem \in Nat
    BY RWHoldType DEF RWTypeOK
  <2>. QED  BY <1>1, <1>2, <2>1, <2>2, <2>3
<1>4. CASE UNCHANGED rw_vars
  <2>1. Hold' = Hold /\ sem' = sem
    BY <1>4 DEF rw_vars, Hold, Writers, Readers, At
  <2>. QED  BY <1>1, <1>2, <2>1
<1>. QED  BY <1>3, <1>4

-----------------------------------------------------------------------------
\* A resource that one thread has is not among the free ones.
LEMMA TotalBounds ==
    ASSUME NEW S, IsFiniteSet(S), NEW h \in [S -> Nat], NEW t \in S
    PROVE  Total(h, S) \in Nat /\ h[t] <= Total(h, S)
<1>. DEFINE g == [h EXCEPT ![t] = 0]
<1>1. g \in [S -> Nat] /\ g[t] = 0 /\ \A v \in S \ {t} : g[v] = h[v]
  OBVIOUS
<1>. HIDE DEF g
<1>2. Total(h, S) \in Nat /\ Total(g, S) = Total(h, S) + g[t] - h[t]
  BY <1>1, TotalOfUpdate
<1>3. Total(g, S) \in Nat
  BY <1>1, TotalOfUpdate, Zenon
<1>. QED  BY <1>1, <1>2, <1>3

LEMMA TotalOfZero ==
    ASSUME NEW S, IsFiniteSet(S), NEW h \in [S -> Nat], \A t \in S : h[t] = 0
    PROVE  Total(h, S) = 0
<1>. DEFINE p == CHOOSE f : IsSum(f, h, SUBSET S)
<1>1. /\ IsSum(p, h, SUBSET S)
      /\ Total(h, S) = p[S]
  BY TotalRecursion, TotalIsFold, Zenon
<1>. HIDE DEF p
<1>2. \A s \in SUBSET S : p[s] = IF s = {} THEN 0 ELSE h[First(s)] + p[s \ {First(s)}]
  BY <1>1, Zenon DEF IsSum
<1>3. ASSUME {s \in SUBSET S : p[s] # 0} # {} PROVE FALSE
  <2>. DEFINE Bad == {s \in SUBSET S : p[s] # 0}
  <2>1. PICK s \in Bad : \A r \in Bad : <<r, s>> \notin StrictSubsetOrdering(S)
    <3>1. Bad \subseteq FiniteSubsetsOf(S)
      BY FS_Subset DEF FiniteSubsetsOf
    <3>. HIDE DEF Bad
    <3>. QED  BY <1>3, <3>1, FS_StrictSubsetOrderingWellFounded, WFMin, Zenon DEF Bad
  <2>2. s \in SUBSET S /\ s # {}
    BY <1>2, <2>1, Zenon
  <2>3. First(s) \in s
    BY <2>2 DEF First
  <2>4. <<s \ {First(s)}, s>> \in StrictSubsetOrdering(S)
    BY <2>2, <2>3 DEF StrictSubsetOrdering
  <2>5. p[s \ {First(s)}] = 0
    <3>1. s \ {First(s)} \in SUBSET S /\ s \ {First(s)} \notin Bad
      BY <2>1, <2>2, <2>4
    <3>. QED  BY <3>1
  <2>6. h[First(s)] = 0
    BY <2>2, <2>3
  <2>7. p[s] = 0
    BY <1>2, <2>2, <2>5, <2>6, SMTT(40)
  <2>. QED  BY <2>1, <2>7
<1>. QED  BY <1>1, <1>3

LEMMA SemConservation ==
    /\ Sem!Conservation <=> sem + Total(hold, SharedThread) = Resources
    /\ Sem!Conservation' <=> sem' + Total(hold', SharedThread) = Resources
BY DEF Sem!Conservation, Sem!MapThenSumSet, Sem!MapThenFoldSet, Total, MapThenSumSet,
       MapThenFoldSet

LEMMA SemInvInit == ASSUME Sem!Init PROVE Sem!SemInv
<1>1. Sem!TypeOK
  BY DEF Sem!Init, Sem!semaphore_init, Sem!TypeOK
<1>2. Total(hold, SharedThread) = 0
  BY TotalOfZero DEF Sem!Init
<1>. QED
  BY <1>1, <1>2, SemConservation DEF Sem!Init, Sem!semaphore_init, Sem!SemInv

LEMMA SemTotal ==
    ASSUME hold \in [SharedThread -> Nat], hold' \in [SharedThread -> Nat],
           NEW t \in SharedThread, \A v \in SharedThread \ {t} : hold'[v] = hold[v]
    PROVE  /\ Total(hold, SharedThread) \in Nat
           /\ Total(hold', SharedThread) = Total(hold, SharedThread) + hold'[t] - hold[t]
BY TotalOfUpdate, ZenonT(40)

\* Thread t gets what the counter loses.
LEMMA SemTransfer ==
    ASSUME Sem!SemInv, NEW t \in SharedThread, NEW n \in Nat, n <= Resources,
           hold' = [hold EXCEPT ![t] = n], sem' = sem + hold[t] - n, sem' >= 0
    PROVE  /\ Sem!Conservation' /\ sem' \in 0 .. Resources
           /\ hold' \in [SharedThread -> 0 .. Resources]
<1>1. /\ hold \in [SharedThread -> Nat] /\ hold' \in [SharedThread -> Nat]
      /\ hold'[t] = n /\ \A v \in SharedThread \ {t} : hold'[v] = hold[v]
  BY DEF Sem!SemInv, Sem!TypeOK
<1>2. /\ Total(hold, SharedThread) \in Nat
      /\ Total(hold', SharedThread) = Total(hold, SharedThread) + hold'[t] - hold[t]
  BY <1>1, SemTotal, Zenon
<1>3. Total(hold', SharedThread) \in Nat
  BY <1>1, TotalBounds, Zenon
<1>4. sem + Total(hold, SharedThread) = Resources
  BY SemConservation DEF Sem!SemInv
<1>5. sem \in Nat /\ hold[t] \in Nat
  BY DEF Sem!SemInv, Sem!TypeOK
<1>6. sem' + Total(hold', SharedThread) = Resources
  BY <1>1, <1>2, <1>4, <1>5
<1>7. sem' \in 0 .. Resources
  BY <1>3, <1>5, <1>6
<1>8. hold' \in [SharedThread -> 0 .. Resources]
  BY DEF Sem!SemInv, Sem!TypeOK
<1>. QED  BY <1>6, <1>7, <1>8, SemConservation

LEMMA SemInvStep == ASSUME Sem!SemInv, [Sem!Next]_Sem!vars PROVE Sem!SemInv'
<1>. USE DEF Sem!Step, Sem!Goto
<1>1. ASSUME NEW t \in SharedThread, NEW i \in 1 .. Resources,
             Sem!acquire_call(t, i) \/ Sem!tryacquire_read(t, i)
      PROVE  Sem!SemInv'
  <2>1. UNCHANGED <<sem, hold>>
    BY <1>1 DEF Sem!acquire_call, Sem!tryacquire_read, Sem!semaphore_tryacquire_read
  <2>2. Sem!Conservation'
    BY <2>1, SemConservation DEF Sem!SemInv
  <2>. QED  BY <1>1, <2>1, <2>2
              DEF Sem!acquire_call, Sem!tryacquire_read, Sem!semaphore_tryacquire_read,
                  Sem!SemInv, Sem!TypeOK
<1>2. ASSUME NEW t \in SharedThread, Sem!acquire(t) PROVE Sem!SemInv'
  <2>1. /\ hold[t] = 0 /\ want[t] \in Nat /\ want[t] <= Resources /\ sem \in Nat
        /\ hold' = [hold EXCEPT ![t] = want[t]]
        /\ sem >= want[t] /\ sem' = sem - want[t]
    BY <1>2 DEF Sem!acquire, Sem!semaphore_acquire, Sem!SemInv, Sem!TypeOK
  <2>2. sem' = sem + hold[t] - want[t] /\ sem' >= 0
    BY <2>1
  <2>3. /\ Sem!Conservation' /\ sem' \in 0 .. Resources
        /\ hold' \in [SharedThread -> 0 .. Resources]
    BY <2>1, <2>2, SemTransfer, Zenon
  <2>. QED  BY <1>2, <2>3 DEF Sem!acquire, Sem!semaphore_acquire, Sem!SemInv, Sem!TypeOK
<1>3. ASSUME NEW t \in SharedThread, Sem!tryacquire_cmpxchg(t) PROVE Sem!SemInv'
  <2>1. PICK ok \in BOOLEAN :
           /\ Sem!Step(t, "try", "idle")
           /\ ok = (sem = old[t]) /\ sem' = IF ok THEN sem - want[t] ELSE sem
           /\ old' = [old EXCEPT ![t] = 0]
           /\ hold' = IF ok THEN [hold EXCEPT ![t] = want[t]] ELSE hold
           /\ want' = [want EXCEPT ![t] = 0]
    BY <1>3, Zenon DEF Sem!tryacquire_cmpxchg, Sem!semaphore_tryacquire_cmpxchg
  <2>2. /\ Sem!Conservation' /\ sem' \in 0 .. Resources
        /\ hold' \in [SharedThread -> 0 .. Resources]
    <3>1. CASE sem = old[t]
      <4>1. /\ hold[t] = 0 /\ want[t] \in Nat /\ want[t] <= Resources /\ sem \in Nat
            /\ hold' = [hold EXCEPT ![t] = want[t]]
            /\ sem >= want[t] /\ sem' = sem - want[t]
        <5>1. /\ sem' = sem - want[t] /\ hold' = [hold EXCEPT ![t] = want[t]]
              /\ pc[t] = "try"
          BY <2>1, <3>1, Zenon DEF Sem!Step
        <5>. QED  BY <3>1, <5>1 DEF Sem!SemInv, Sem!TypeOK
      <4>2. sem' = sem + hold[t] - want[t] /\ sem' >= 0
        BY <4>1
      <4>. QED  BY <4>1, <4>2, SemTransfer, Zenon
    <3>2. CASE sem # old[t]
      BY <2>1, <3>2, SemConservation, Zenon DEF Sem!SemInv, Sem!TypeOK
    <3>. QED  BY <3>1, <3>2
  <2>3. hold'[t] = hold[t] \/ pc'[t] = "idle"
    BY <2>1 DEF Sem!SemInv, Sem!TypeOK
  <2>4. \A v \in SharedThread \ {t} : pc'[v] = pc[v] /\ hold'[v] = hold[v]
                                      /\ old'[v] = old[v] /\ want'[v] = want[v]
    BY <2>1 DEF Sem!SemInv, Sem!TypeOK
  <2>5. pc'[t] = "idle" /\ pc' \in [SharedThread -> {"idle", "acquire", "try"}]
        /\ old' \in [SharedThread -> 0 .. Resources]
        /\ want' \in [SharedThread -> 0 .. Resources]
    BY <2>1 DEF Sem!SemInv, Sem!TypeOK
  <2>. QED  BY <2>2, <2>4, <2>5 DEF Sem!SemInv, Sem!TypeOK
<1>4. ASSUME NEW t \in SharedThread, NEW i \in 1 .. Resources, Sem!release(t, i)
      PROVE  Sem!SemInv'
  <2>1. /\ hold[t] - i \in Nat /\ hold[t] - i <= Resources /\ sem \in Nat
        /\ hold' = [hold EXCEPT ![t] = hold[t] - i] /\ sem' = sem + i
        /\ UNCHANGED <<pc, want, old>> /\ pc[t] = "idle"
    BY <1>4 DEF Sem!release, Sem!semaphore_release, Sem!SemInv, Sem!TypeOK
  <2>2. sem' = sem + hold[t] - (hold[t] - i) /\ sem' >= 0
    BY <2>1 DEF Sem!SemInv, Sem!TypeOK
  <2>3. /\ Sem!Conservation' /\ sem' \in 0 .. Resources
        /\ hold' \in [SharedThread -> 0 .. Resources]
    BY <2>1, <2>2, SemTransfer, Zenon
  <2>. QED  BY <2>1, <2>3 DEF Sem!SemInv, Sem!TypeOK
<1>5. CASE UNCHANGED Sem!vars
  BY <1>5, SemConservation DEF Sem!vars, Sem!SemInv, Sem!TypeOK
<1>. QED  BY <1>1, <1>2, <1>3, <1>4, <1>5, SMTT(40) DEF Sem!Next, Sem!Progress

-----------------------------------------------------------------------------
\* Which inductive invariant holds depends on the chosen object.
SharedInv == /\ shared \in {"semaphore", "rwlock"}
             /\ shared = "semaphore" => Sem!SemInv
             /\ shared = "rwlock" => /\ RWTypeOK /\ ShareInv /\ BitInv
                                     /\ RWSem!Conservation

LEMMA SharedInvInit == ASSUME SharedInit PROVE SharedInv
<1>1. CASE shared = "semaphore"
  BY <1>1, SemInvInit DEF SharedInit, SharedInv
<1>2. CASE shared = "rwlock"
  <2>1. RWInit
    BY <1>2 DEF SharedInit
  <2>2. RWTypeOK /\ ShareInv
    BY <2>1, ShareInvInit
  <2>3. BitInv
    BY <2>1 DEF RWInit, BitInv, HasBit, At
  <2>4. RWSem!Conservation
    <3>1. Hold \in [SharedThread -> Nat] /\ \A t \in SharedThread : Hold[t] = 0
      BY <2>1 DEF RWInit, Hold, Writers, Readers, At
    <3>2. Total(Hold, SharedThread) = 0
      BY <3>1, TotalOfZero, Zenon
    <3>3. RWSem!Conservation <=> sem + Total(Hold, SharedThread) = Shares
      BY SameOperators, Zenon DEF RWSem!Conservation, RWSem!Conservation
    <3>. QED  BY <2>1, <3>2, <3>3 DEF RWInit, RWSem!semaphore_init
  <2>. QED  BY <1>2, <2>2, <2>3, <2>4 DEF SharedInv
<1>. QED  BY <1>1, <1>2 DEF SharedInit

LEMMA SharedInvStep == ASSUME SharedInv, [SharedNext]_shared_vars PROVE SharedInv'
<1>1. CASE shared = "semaphore"
  <2>1. [Sem!Next]_Sem!vars /\ shared' = shared
    BY <1>1 DEF SharedNext, shared_vars, sem_only, Sem!vars
  <2>. QED  BY <1>1, <2>1, SemInvStep DEF SharedInv
<1>2. CASE shared = "rwlock"
  <2>1. [RWNext]_rw_vars /\ shared' = shared
    BY <1>2 DEF SharedNext, shared_vars, rw_vars
  <2>. QED  BY <1>2, <2>1, ShareInvStep, BitInvStep, RWAccountedStep DEF SharedInv
<1>. QED  BY <1>1, <1>2 DEF SharedInv

\* For any finite set of threads and any number of resources, a writer of the rwlock is
\* alone from the moment it has the resources until it has given them back: writers exclude
\* writers and readers by the semaphore, whatever the writer bit says meanwhile.  And the
\* two reports say who is inside.
THEOREM SharedLocksWriterAlone == SharedSpec => []WriterAlone
<1>1. SharedInit => SharedInv
  BY SharedInvInit
<1>2. SharedInv /\ [SharedNext]_shared_vars => SharedInv'
  BY SharedInvStep
<1>3. ASSUME SharedInv, shared = "rwlock"
      PROVE  NoOtherInside /\ WriterReported
             /\ (Cardinality(SharedThread) < Shares => ReadersReported)
  <2>1. RWTypeOK /\ ShareInv /\ BitInv
    BY <1>3 DEF SharedInv
  <2>2. NoOtherInside
    BY <2>1 DEF ShareInv, NoOtherInside, Writers
  <2>3. WriterReported
    BY <2>1 DEF RWTypeOK, BitInv, HasBit, WriterReported, acquired_by_writer
  <2>4. ASSUME Cardinality(SharedThread) < Shares PROVE ReadersReported
    <3>1. Cardinality(Readers) < Shares
      BY <2>4, FS_Subset, FS_CardinalityType DEF Readers
    <3>. QED  BY <2>1, <3>1, ReaderCount
                DEF RWTypeOK, ShareInv, ReadersReported, acquired_by_readers
  <2>. QED  BY <2>2, <2>3, <2>4
<1>4. SharedInv => WriterAlone
  BY <1>3, SMTT(40) DEF WriterAlone
<1>. QED  BY <1>1, <1>2, <1>4, PTL DEF SharedSpec

\* For any finite set of threads, the free resources of the semaphore and those the threads
\* have always add up to what there were initially, and so do the shares of an rwlock: a
\* failed attempt takes nothing, and nothing is given back twice.
THEOREM SharedLocksResources == SharedSpec => []ResourcesAccounted
<1>1. SharedInit => SharedInv
  BY SharedInvInit
<1>2. SharedInv /\ [SharedNext]_shared_vars => SharedInv'
  BY SharedInvStep
<1>3. SharedInv => ResourcesAccounted
  BY DEF SharedInv, ResourcesAccounted, Sem!SemInv
<1>. QED  BY <1>1, <1>2, <1>3, PTL DEF SharedSpec

-----------------------------------------------------------------------------
(***************************************************************************)
(* include/vsync/spinlock/seqlock.h and seqcount.h: one of them is chosen  *)
(* initially (`seq`, which never changes).                                 *)
(* Writers update two words of data, one after the other; readers read     *)
(* both without any lock, between rbegin and rend, and repeat when rend    *)
(* says so.  The data written by a writer is its version number, half the  *)
(* sequence value.  The sequence wraps at SeqMod, 2^32 in the code.        *)
(***************************************************************************)
CONSTANTS Writer, Reader, SeqMod

ASSUME SeqParameters == /\ SeqMod \in Nat \ {0} /\ SeqMod % 2 = 0
                        /\ Writer \cap Reader = {}

IsEven(n) == n % 2 = 0

VARIABLES seq,        \* "seqlock" or "seqcount"
          seqcount,   \* odd while a writer is inside
          x, y,       \* the protected data
          c,          \* c[t]: the sequence value writer t has read
          sv,         \* sv[t]: what rbegin returned to reader t
          rx, ry,     \* rx[t], ry[t]: the data reader t has read
          since       \* ghost: how far seqcount is past sv[t]

seq_vars == <<pc, seq, seqcount, x, y, c, sv, rx, ry, since>>

SeqThread == Writer \cup Reader

SeqCount == seq = "seqcount"

Counter == 0 .. SeqMod - 1
Data == 0 .. (SeqMod \div 2) - 1

SeqTypeOK ==
    /\ seq \in {"seqlock", "seqcount"}
    /\ pc \in [SeqThread -> {"idle", "acquire", "cas", "wbegin", "write_x", "write_y",
                             "release", "release_write",
                             "rbegin", "read_x", "read_y", "rend", "accepted"}]
    /\ seqcount \in Counter
    /\ x \in Data /\ y \in Data
    /\ c \in [Writer -> Counter]
    /\ sv \in [Reader -> Counter]
    /\ rx \in [Reader -> Data] /\ ry \in [Reader -> Data]
    /\ since \in [Reader -> Counter]

SeqInit == /\ seq \in {"seqlock", "seqcount"}
           /\ pc = [t \in SeqThread |-> "idle"]
           /\ seqcount = 0
           /\ x = 0 /\ y = 0
           /\ c = [t \in Writer |-> 0]
           /\ sv = [t \in Reader |-> 0]
           /\ rx = [t \in Reader |-> 0] /\ ry = [t \in Reader |-> 0]
           /\ since = [t \in Reader |-> 0]

Reading == {r \in Reader : At(r, {"read_x", "read_y", "rend"})}

\* A write of seqcount.  It does not go once around during a read.
WriteSeq(v) ==
    /\ \A r \in Reading : since[r] < SeqMod - 1
    /\ seqcount' = v
    /\ since' = [r \in Reader |-> IF r \in Reading THEN since[r] + 1 ELSE 0]

call_acquire(t) == /\ ~SeqCount
                   /\ Step(t, "idle", "acquire")
                   /\ UNCHANGED <<seqcount, x, y, c, sv, rx, ry, since>>

\* seqlock_acquire: wait for an even value, cmpxchg it to odd, or try again
acquire_await_even(t) == /\ Step(t, "acquire", "cas")
                         /\ IsEven(seqcount)
                         /\ c' = [c EXCEPT ![t] = seqcount]
                         /\ UNCHANGED <<seqcount, x, y, sv, rx, ry, since>>

acquire_cmpxchg(t) == /\ \/ /\ seqcount = c[t]
                            /\ Step(t, "cas", "write_x")
                            /\ WriteSeq((c[t] + 1) % SeqMod)
                         \/ /\ seqcount # c[t]
                            /\ Step(t, "cas", "acquire")
                            /\ UNCHANGED <<seqcount, since>>
                      /\ c' = [c EXCEPT ![t] = 0]
                      /\ UNCHANGED <<x, y, sv, rx, ry>>

\* seqlock_release: read the odd value, write its successor
release_read(t) == /\ ~SeqCount
                   /\ Step(t, "release", "release_write")
                   /\ c' = [c EXCEPT ![t] = seqcount]
                   /\ UNCHANGED <<seqcount, x, y, sv, rx, ry, since>>

release_write(t) == /\ Step(t, "release_write", "idle")
                    /\ WriteSeq((c[t] + 1) % SeqMod)
                    /\ c' = [c EXCEPT ![t] = 0]
                    /\ UNCHANGED <<x, y, sv, rx, ry>>

\* seqcount_wbegin and seqcount_wend; "the user has to protect this call with an
\* additional lock" if there are several writers
seqcount_wbegin_read(t) == /\ SeqCount
                           /\ \A w \in Writer : pc[w] = "idle"
                           /\ Step(t, "idle", "wbegin")
                           /\ c' = [c EXCEPT ![t] = seqcount]
                           /\ UNCHANGED <<seqcount, x, y, sv, rx, ry, since>>

seqcount_wbegin_write(t) == /\ Step(t, "wbegin", "write_x")
                            /\ WriteSeq((c[t] + 1) % SeqMod)
                            /\ UNCHANGED <<x, y, c, sv, rx, ry>>

seqcount_wend(t) == /\ SeqCount
                    /\ Step(t, "release", "idle")
                    /\ WriteSeq((c[t] + 2) % SeqMod)
                    /\ c' = [c EXCEPT ![t] = 0]
                    /\ UNCHANGED <<x, y, sv, rx, ry>>

\* the critical section of a writer
version == (seqcount \div 2 + 1) % (SeqMod \div 2)

write_x(t) == /\ Step(t, "write_x", "write_y")
              /\ x' = version
              /\ UNCHANGED <<seqcount, y, c, sv, rx, ry, since>>

write_y(t) == /\ Step(t, "write_y", "release")
              /\ y' = version
              /\ UNCHANGED <<seqcount, x, c, sv, rx, ry, since>>

call_read(t) == /\ Step(t, "idle", "rbegin")
                /\ UNCHANGED <<seqcount, x, y, c, sv, rx, ry, since>>

\* seqlock_rbegin waits for an even value, seqcount_rbegin clears the last bit
rbegin(t) == /\ Step(t, "rbegin", "read_x")
             /\ SeqCount \/ IsEven(seqcount)
             /\ sv' = [sv EXCEPT ![t] = seqcount - (seqcount % 2)]
             /\ since' = [since EXCEPT ![t] = seqcount % 2]
             /\ UNCHANGED <<seqcount, x, y, c, rx, ry>>

read_x(t) == /\ Step(t, "read_x", "read_y")
             /\ rx' = [rx EXCEPT ![t] = x]
             /\ UNCHANGED <<seqcount, x, y, c, sv, ry, since>>

read_y(t) == /\ Step(t, "read_y", "rend")
             /\ ry' = [ry EXCEPT ![t] = y]
             /\ UNCHANGED <<seqcount, x, y, c, sv, rx, since>>

\* mutation: any even value will do
rend_even(t) == /\ \/ IsEven(seqcount) /\ Step(t, "rend", "accepted")
                   \/ ~IsEven(seqcount) /\ Step(t, "rend", "rbegin")
                /\ since' = [since EXCEPT ![t] = 0]
                /\ UNCHANGED <<seqcount, x, y, c, sv, rx, ry>>

\* seqlock_rend, seqcount_rend
rend(t) == /\ \/ seqcount = sv[t] /\ Step(t, "rend", "accepted")
              \/ seqcount # sv[t] /\ Step(t, "rend", "rbegin")
           /\ since' = [since EXCEPT ![t] = 0]
           /\ UNCHANGED <<seqcount, x, y, c, sv, rx, ry>>

return(t) == /\ Step(t, "accepted", "idle")
             /\ sv' = [sv EXCEPT ![t] = 0]
             /\ rx' = [rx EXCEPT ![t] = 0]
             /\ ry' = [ry EXCEPT ![t] = 0]
             /\ UNCHANGED <<seqcount, x, y, c, since>>

SeqProgress(t) ==
    /\ \/ /\ t \in Writer
          /\ \/ acquire_await_even(t) \/ acquire_cmpxchg(t)
             \/ release_read(t) \/ release_write(t)
             \/ seqcount_wbegin_write(t) \/ seqcount_wend(t)
             \/ write_x(t) \/ write_y(t)
       \/ /\ t \in Reader
          /\ rbegin(t) \/ read_x(t) \/ read_y(t) \/ rend(t) \/ return(t)
    /\ UNCHANGED seq

SeqNext == \/ /\ \/ \E t \in Writer : call_acquire(t) \/ seqcount_wbegin_read(t)
                 \/ \E t \in Reader : call_read(t)
              /\ UNCHANGED seq
           \/ \E t \in SeqThread : SeqProgress(t)

SeqSpec == /\ SeqInit /\ [][SeqNext]_seq_vars
           /\ \A t \in SeqThread : WF_seq_vars(SeqProgress(t))

-----------------------------------------------------------------------------
Inside(w) == At(w, {"write_x", "write_y", "release", "release_write"})

\* An accepted read of a seqlock or seqcount is a snapshot: both words belong to the very
\* version that rbegin named, however the reads interleave with the writes.  And writers
\* exclude each other: the sequence is odd exactly while one is inside, as the assertion
\* of seqlock_release says.
AcceptedSnapshot ==
    seq \in {"seqlock", "seqcount"} =>
        /\ \A t \in Reader : pc[t] = "accepted" =>
               rx[t] = sv[t] \div 2 /\ ry[t] = sv[t] \div 2
        /\ Cardinality({w \in Writer : Inside(w)}) = seqcount % 2

-----------------------------------------------------------------------------
\* One writer at most is inside, and the sequence is odd exactly then; each writer knows
\* the sequence from which it goes on.
WriterInv ==
    /\ \A w, u \in Writer : Inside(w) /\ Inside(u) => w = u
    /\ IsEven(seqcount) <=> \A w \in Writer : ~Inside(w)
    /\ \A w \in Writer : /\ At(w, {"cas", "acquire", "release_write"}) => ~SeqCount
                         /\ pc[w] = "cas" => IsEven(c[w])
                         /\ pc[w] = "release_write" => c[w] = seqcount
                         /\ pc[w] = "wbegin" => SeqCount /\ c[w] = seqcount /\ IsEven(c[w])
                         /\ SeqCount /\ At(w, {"write_x", "write_y", "release"}) =>
                               c[w] + 1 = seqcount
    /\ SeqCount => \A w, u \in Writer : pc[w] = "idle" \/ pc[u] = "idle" \/ w = u

\* The data is that of the current version, or of the next where the writer has been.
DataInv ==
    /\ x = IF \E w \in Writer : At(w, {"write_y", "release", "release_write"})
           THEN version ELSE seqcount \div 2
    /\ y = IF \E w \in Writer : At(w, {"release", "release_write"})
           THEN version ELSE seqcount \div 2

\* The sequence is `since` past what rbegin returned, and while that is 0 what the
\* reader has read is still current.
ReaderInv ==
    \A r \in Reader :
        /\ r \in Reading => /\ IsEven(sv[r])
                            /\ \/ seqcount = sv[r] + since[r]
                               \/ seqcount + SeqMod = sv[r] + since[r]
        /\ At(r, {"read_y", "rend"}) /\ since[r] = 0 => rx[r] = sv[r] \div 2
        /\ pc[r] = "rend" /\ since[r] = 0 => ry[r] = sv[r] \div 2
        /\ pc[r] = "accepted" => rx[r] = sv[r] \div 2 /\ ry[r] = sv[r] \div 2

SeqInv == SeqTypeOK /\ WriterInv /\ DataInv /\ ReaderInv

LEMMA NextModulo ==
    ASSUME NEW k \in Nat \ {0}, NEW a \in 0 .. k - 1
    PROVE  (a + 1) % k = IF a + 1 = k THEN 0 ELSE a + 1
OBVIOUS

LEMMA NextOfEven ==
    ASSUME NEW a \in Counter, IsEven(a)
    PROVE  /\ (a + 1) % SeqMod = a + 1 /\ a + 1 \in Counter /\ ~IsEven(a + 1)
           /\ (a + 1) \div 2 = a \div 2
BY SeqParameters DEF Counter, IsEven

LEMMA NextOfOdd ==
    ASSUME NEW a \in Counter, ~IsEven(a)
    PROVE  /\ (a + 1) % SeqMod = IF a + 1 = SeqMod THEN 0 ELSE a + 1
           /\ (a + 1) % SeqMod \in Counter /\ IsEven((a + 1) % SeqMod)
           /\ ((a + 1) % SeqMod) \div 2 = (a \div 2 + 1) % (SeqMod \div 2)
           /\ (a \div 2 + 1) % (SeqMod \div 2) \in Data
<1>. USE SeqParameters
<1>1. (a + 1) % SeqMod = IF a + 1 = SeqMod THEN 0 ELSE a + 1
  BY NextModulo, Zenon DEF Counter
<1>2. PICK H \in Nat \ {0} : SeqMod = 2 * H /\ SeqMod \div 2 = H
  OBVIOUS
<1>3. a \div 2 \in 0 .. H - 1 /\ a = 2 * (a \div 2) + 1
  BY <1>2 DEF Counter, IsEven
<1>4. (a \div 2 + 1) % H = IF a \div 2 + 1 = H THEN 0 ELSE a \div 2 + 1
  BY <1>3, NextModulo
<1>. QED  BY <1>1, <1>2, <1>3, <1>4 DEF IsEven, Counter, Data

LEMMA SeqInvInit == ASSUME SeqInit PROVE SeqInv
BY SeqParameters DEF SeqThread, SeqCount, SeqInit, SeqInv, SeqTypeOK, WriterInv, DataInv,
                     ReaderInv, Inside, At, Reading,
       IsEven, Counter, Data, version

\* A write of the successor leaves every reader's account of the sequence right.
LEMMA ReaderInvWriteSeq ==
    ASSUME SeqInv, WriteSeq((seqcount + 1) % SeqMod), NEW w \in Writer, NEW to,
           pc' = [pc EXCEPT ![w] = to], UNCHANGED <<sv, rx, ry>>
    PROVE  ReaderInv' /\ since' \in [Reader -> Counter] /\ seqcount' \in Counter
<1>. USE SeqParameters DEF SeqThread
<1>1. (seqcount + 1) % SeqMod = IF seqcount + 1 = SeqMod THEN 0 ELSE seqcount + 1
  BY NextModulo, Zenon DEF SeqInv, SeqTypeOK, Counter
<1>2. \A r \in Reader : pc'[r] = pc[r]
  BY DEF SeqInv, SeqTypeOK
<1>3. Reading' = Reading
  BY <1>2 DEF Reading, At
<1>4. \A r \in Reader : since'[r] = IF r \in Reading THEN since[r] + 1 ELSE 0
  BY DEF WriteSeq
<1>5. since' \in [Reader -> Counter] /\ seqcount' \in Counter
  BY <1>1 DEF WriteSeq, SeqInv, SeqTypeOK, Counter
<1>6. ASSUME NEW r \in Reader, r \in Reading
      PROVE  \/ seqcount' = sv[r] + since'[r]
             \/ seqcount' + SeqMod = sv[r] + since'[r]
  BY <1>1, <1>4, <1>6 DEF WriteSeq, SeqInv, SeqTypeOK, Counter, ReaderInv
<1>. QED
  BY <1>2, <1>3, <1>4, <1>5, <1>6 DEF SeqInv, SeqTypeOK, Counter, ReaderInv, Reading, At

\* A writer comes in: the sequence becomes odd, the data stays.
LEMMA WriterComesIn ==
    ASSUME SeqInv, NEW w \in Writer, At(w, {"cas", "wbegin"}), IsEven(seqcount),
           WriteSeq((seqcount + 1) % SeqMod), pc' = [pc EXCEPT ![w] = "write_x"],
           c' \in [Writer -> Counter], \A u \in Writer \ {w} : c'[u] = c[u],
           SeqCount => c'[w] = seqcount,
           UNCHANGED <<seq, x, y, sv, rx, ry>>
    PROVE  SeqInv'
<1>. USE SeqParameters DEF SeqThread, SeqInv, SeqCount
<1>1. ReaderInv' /\ since' \in [Reader -> Counter] /\ seqcount' \in Counter
  BY ReaderInvWriteSeq, Zenon
<1>2. seqcount' = seqcount + 1 /\ ~IsEven(seqcount') /\ seqcount' \div 2 = seqcount \div 2
  BY NextOfEven DEF SeqTypeOK, WriteSeq
<1>3. \A u \in Writer : ~Inside(u) /\ (u # w => pc'[u] = pc[u]) /\ pc'[w] = "write_x"
  BY DEF WriterInv, SeqTypeOK
<1>4. SeqTypeOK'
  BY <1>1 DEF SeqTypeOK
<1>5. WriterInv'
  BY <1>2, <1>3 DEF WriterInv, Inside, At, SeqTypeOK, Counter
<1>6. DataInv'
  BY <1>2, <1>3 DEF DataInv, Inside, At
<1>. QED  BY <1>1, <1>4, <1>5, <1>6

\* A writer goes: the sequence becomes even, and the next version the current one.
LEMMA WriterGoes ==
    ASSUME SeqInv, NEW w \in Writer, At(w, {"release", "release_write"}),
           WriteSeq((seqcount + 1) % SeqMod), pc' = [pc EXCEPT ![w] = "idle"],
           c' = [c EXCEPT ![w] = 0], UNCHANGED <<seq, x, y, sv, rx, ry>>
    PROVE  SeqInv'
<1>. USE SeqParameters DEF SeqThread, SeqInv, SeqCount
<1>1. ReaderInv' /\ since' \in [Reader -> Counter] /\ seqcount' \in Counter
  BY ReaderInvWriteSeq, Zenon
<1>2. Inside(w) /\ ~IsEven(seqcount)
  BY DEF WriterInv, Inside, At
<1>3. IsEven(seqcount') /\ seqcount' \div 2 = version
  BY <1>2, NextOfOdd DEF SeqTypeOK, WriteSeq, version
<1>4. \A u \in Writer : ~Inside(u)' /\ (u # w => pc'[u] = pc[u] /\ c'[u] = c[u])
  BY <1>2 DEF WriterInv, SeqTypeOK, Inside, At
<1>5. SeqTypeOK'
  BY <1>1 DEF SeqTypeOK, Counter
<1>6. WriterInv'
  BY <1>2, <1>3, <1>4 DEF WriterInv, Inside, At, SeqTypeOK
<1>7. DataInv'
  <2>1. x = version /\ y = version
    BY DEF DataInv, At
  <2>. QED  BY <1>3, <1>4, <2>1 DEF DataInv, Inside, At
<1>. QED  BY <1>1, <1>5, <1>6, <1>7

LEMMA SeqInvStep ==
    ASSUME SeqInv, [SeqNext]_seq_vars
    PROVE  SeqInv'
<1>. USE SeqParameters DEF SeqThread, SeqInv, SeqCount
<1>0. UNCHANGED seq
  BY DEF SeqNext, SeqProgress, seq_vars
<1>1. ASSUME NEW w \in Writer, call_acquire(w) \/ acquire_await_even(w) PROVE SeqInv'
  BY <1>0, <1>1 DEF call_acquire, acquire_await_even, Step, Goto, SeqTypeOK, WriterInv,
                    DataInv,
              ReaderInv, Inside, At, Reading, version
<1>2. ASSUME NEW w \in Writer, acquire_cmpxchg(w) PROVE SeqInv'
  <2>1. CASE seqcount = c[w]
    <3>1. /\ pc[w] = "cas" /\ pc' = [pc EXCEPT ![w] = "write_x"]
          /\ WriteSeq((seqcount + 1) % SeqMod)
          /\ c' = [c EXCEPT ![w] = 0] /\ UNCHANGED <<x, y, sv, rx, ry>>
      BY <1>2, <2>1 DEF acquire_cmpxchg, Step, Goto
    <3>2. At(w, {"cas", "wbegin"}) /\ IsEven(seqcount) /\ ~SeqCount
      BY <2>1, <3>1 DEF WriterInv, At
    <3>3. c' \in [Writer -> Counter] /\ \A u \in Writer \ {w} : c'[u] = c[u]
      BY <3>1 DEF SeqTypeOK, Counter
    <3>. QED  BY <1>0, <3>1, <3>2, <3>3, WriterComesIn, Zenon
  <2>2. CASE seqcount # c[w]
    <3>1. /\ pc[w] = "cas" /\ pc' = [pc EXCEPT ![w] = "acquire"]
          /\ c' = [c EXCEPT ![w] = 0] /\ UNCHANGED <<seqcount, since, x, y, sv, rx, ry>>
      BY <1>0, <1>2, <2>2 DEF acquire_cmpxchg, Step, Goto
    <3>2. SeqTypeOK' /\ WriterInv'
      BY <1>0, <3>1 DEF SeqTypeOK, WriterInv, Inside, At, Counter
    <3>3. DataInv' /\ ReaderInv'
      BY <3>1 DEF SeqTypeOK, DataInv, ReaderInv, Reading, At, version
    <3>. QED  BY <3>2, <3>3
  <2>. QED  BY <2>1, <2>2
<1>3. ASSUME NEW w \in Writer, release_read(w) PROVE SeqInv'
  BY <1>0, <1>3 DEF release_read, Step, Goto, SeqTypeOK, WriterInv, DataInv, ReaderInv,
                    Inside, At,
              Reading, version
<1>4. ASSUME NEW w \in Writer, release_write(w) PROVE SeqInv'
  BY <1>0, <1>4, WriterGoes, Zenon DEF release_write, Step, Goto, SeqTypeOK, WriterInv, At
<1>5. ASSUME NEW w \in Writer, seqcount_wbegin_read(w) PROVE SeqInv'
  <2>1. IsEven(seqcount)
    BY <1>0, <1>5 DEF seqcount_wbegin_read, Step, WriterInv, Inside, At
  <2>. QED
    BY <1>0, <1>5, <2>1 DEF seqcount_wbegin_read, Step, Goto, SeqTypeOK, WriterInv,
                            DataInv, ReaderInv,
                      Inside, At, Reading, version
<1>6. ASSUME NEW w \in Writer, seqcount_wbegin_write(w) PROVE SeqInv'
  <2>1. /\ At(w, {"cas", "wbegin"}) /\ IsEven(seqcount) /\ WriteSeq((seqcount + 1) % SeqMod)
        /\ pc' = [pc EXCEPT ![w] = "write_x"] /\ c'[w] = seqcount
        /\ UNCHANGED <<c, x, y, sv, rx, ry>>
    BY <1>0, <1>6 DEF seqcount_wbegin_write, Step, Goto, WriterInv, At
  <2>2. c' \in [Writer -> Counter]
    BY <2>1 DEF SeqTypeOK
  <2>. QED  BY <1>0, <2>1, <2>2, WriterComesIn, Zenon
<1>7. ASSUME NEW w \in Writer, seqcount_wend(w) PROVE SeqInv'
  <2>1. c[w] + 2 = seqcount + 1
    BY <1>0, <1>7 DEF seqcount_wend, Step, WriterInv, At, SeqTypeOK, Counter
  <2>. QED  BY <1>0, <1>7, <2>1, WriterGoes, Zenon DEF seqcount_wend, Step, Goto, At
<1>8. ASSUME NEW w \in Writer, write_x(w) \/ write_y(w) PROVE SeqInv'
  <2>1. Inside(w) /\ ~IsEven(seqcount) /\ \A u \in Writer \ {w} : ~Inside(u)
    BY <1>0, <1>8 DEF write_x, write_y, Step, WriterInv, Inside, At
  <2>2. version \in Data /\ version' = version
    BY <1>0, <1>8, <2>1, NextOfOdd DEF write_x, write_y, SeqTypeOK, version
  <2>3. SeqTypeOK' /\ WriterInv'
    BY <1>0, <1>8, <2>2 DEF write_x, write_y, Step, Goto, SeqTypeOK, WriterInv, Inside, At
  <2>4. DataInv'
    BY <1>0, <1>8, <2>1, <2>2 DEF write_x, write_y, Step, Goto, SeqTypeOK, DataInv, Inside,
                                  At
  <2>5. ReaderInv'
    BY <1>0, <1>8 DEF write_x, write_y, Step, Goto, SeqTypeOK, ReaderInv, At, Reading
  <2>. QED  BY <2>3, <2>4, <2>5
<1>9. ASSUME NEW r \in Reader,
             call_read(r) \/ rbegin(r) \/ read_x(r) \/ read_y(r) \/ rend(r) \/ return(r)
      PROVE  SeqInv'
  <2>1. /\ UNCHANGED <<seqcount, x, y, c>>
        /\ \A w \in Writer : pc'[w] = pc[w]
    BY <1>0, <1>9 DEF call_read, rbegin, read_x, read_y, rend, return, Step, Goto, SeqTypeOK
  <2>2. WriterInv' /\ DataInv'
    BY <1>0, <2>1 DEF WriterInv, DataInv, Inside, At, version
  <2>3. \A q \in Reader \ {r} : pc'[q] = pc[q] /\ sv'[q] = sv[q] /\ rx'[q] = rx[q]
                                /\ ry'[q] = ry[q] /\ since'[q] = since[q]
    BY <1>0, <1>9 DEF call_read, rbegin, read_x, read_y, rend, return, Step, Goto, SeqTypeOK
  <2>4. IsEven(seqcount) => x = seqcount \div 2 /\ y = seqcount \div 2
    BY DEF WriterInv, DataInv, Inside, At
  <2>5. CASE call_read(r) \/ return(r)
    BY <1>0, <2>1, <2>2, <2>3, <2>5
       DEF call_read, return, Step, Goto, SeqTypeOK, ReaderInv, Reading, At, Counter, Data
  <2>6. CASE rbegin(r)
    <3>1. seqcount - (seqcount % 2) \in Counter /\ seqcount % 2 \in Counter
          /\ IsEven(seqcount - (seqcount % 2))
      BY DEF SeqTypeOK, Counter, IsEven
    <3>. QED
      BY <1>0, <2>1, <2>2, <2>3, <2>6, <3>1
         DEF rbegin, Step, Goto, SeqTypeOK, ReaderInv, Reading, At, Counter
  <2>7. CASE read_x(r) \/ read_y(r)
    <3>1. since[r] = 0 => seqcount = sv[r] /\ IsEven(seqcount)
      BY <2>7 DEF read_x, read_y, Step, SeqTypeOK, ReaderInv, Reading, At, Counter
    <3>. QED
      BY <1>0, <2>1, <2>2, <2>3, <2>4, <2>7, <3>1
         DEF read_x, read_y, Step, Goto, SeqTypeOK, ReaderInv, Reading, At
  <2>8. CASE rend(r)
    <3>1. seqcount = sv[r] => since[r] = 0
      BY <2>8 DEF rend, Step, SeqTypeOK, ReaderInv, Reading, At, Counter
    <3>. QED
      BY <1>0, <2>1, <2>2, <2>3, <2>8, <3>1
         DEF rend, Step, Goto, SeqTypeOK, ReaderInv, Reading, At, Counter
  <2>. QED  BY <1>0, <1>9, <2>5, <2>6, <2>7, <2>8
<1>10. CASE UNCHANGED seq_vars
  BY <1>10 DEF seq_vars, SeqTypeOK, WriterInv, DataInv, ReaderInv, Inside, At, Reading,
               version
<1>. QED
  BY <1>0, <1>1, <1>2, <1>3, <1>4, <1>5, <1>6, <1>7, <1>8, <1>9, <1>10 DEF SeqNext,
     SeqProgress

\* What a reader of the seqlock or the seqcount accepts is the version that rbegin named,
\* for any number of readers and writers and any even modulus, however often the sequence
\* wraps between reads but not within one; and the sequence is odd exactly while one
\* writer is inside.
THEOREM SeqLockSnapshot == SeqSpec => []AcceptedSnapshot
<1>1. SeqInit => SeqInv
  BY SeqInvInit
<1>2. SeqInv /\ [SeqNext]_seq_vars => SeqInv'
  BY SeqInvStep
<1>3. ASSUME SeqInv PROVE AcceptedSnapshot
  <2>1. CASE IsEven(seqcount)
    <3>1. {w \in Writer : Inside(w)} = {}
      BY <1>3, <2>1 DEF SeqInv, WriterInv
    <3>. QED  BY <1>3, <2>1, <3>1, FS_EmptySet DEF SeqInv, ReaderInv, AcceptedSnapshot,
                                                   IsEven
  <2>2. CASE ~IsEven(seqcount)
    <3>1. PICK w \in Writer : Inside(w)
      BY <1>3, <2>2 DEF SeqInv, WriterInv
    <3>2. {u \in Writer : Inside(u)} = {w}
      BY <1>3, <3>1 DEF SeqInv, WriterInv
    <3>3. Cardinality({w}) = 1
      BY FS_Singleton, Zenon
    <3>4. seqcount % 2 = 1
      BY <1>3, <2>2 DEF SeqInv, SeqTypeOK, Counter, IsEven
    <3>. QED  BY <1>3, <3>2, <3>3, <3>4, Zenon DEF SeqInv, ReaderInv, AcceptedSnapshot
  <2>. QED  BY <2>1, <2>2
<1>. QED  BY <1>1, <1>2, <1>3, PTL DEF SeqSpec
=============================================================================
