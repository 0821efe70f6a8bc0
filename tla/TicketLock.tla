----------------------------- MODULE TicketLock -----------------------------
(***************************************************************************)
(* include/vsync/spinlock/ticketlock.h.  Threads repeatedly acquire (or    *)
(* try to acquire) and release one lock.  Both counters wrap at M, which   *)
(* is 2^32 in the code.                                                    *)
(***************************************************************************)
EXTENDS Control, Naturals, FiniteSets, FiniteSetTheorems, SequenceTheorems, TLAPS

CONSTANTS M,              \* the counters are numbers modulo M
          WrapDuringTry   \* may the counters wrap while a tryacquire is
                          \* between its read and its cmpxchg?

ASSUME ThreadsFit == /\ IsFiniteSet(Thread)
                     /\ M \in Nat
                     /\ Cardinality(Thread) < M
ASSUME WrapDuringTryType == WrapDuringTry \in BOOLEAN

VARIABLES next, owner,    \* the two words of the lock
          ticket,         \* ticket[t]: the value t took from next
          o,              \* o[t]: the owner t read in tryacquire or release
          ahead           \* ghost: how far next is past o[t] while t is
                          \* inside tryacquire

vars == <<pc, next, owner, ticket, o, ahead>>

Counter == 0 .. M - 1

\* mutation: the counter does not wrap
Inc_unbounded(n) == n + 1

Inc(n) == IF n = M - 1 THEN 0 ELSE n + 1

\* unsigned subtraction a - b
Diff(a, b) == IF b <= a THEN a - b ELSE (a + M) - b

TypeOK == /\ pc \in [Thread -> {"idle", "await", "try", "cs", "release"}]
          /\ next \in Counter
          /\ owner \in Counter
          /\ ticket \in [Thread -> Counter]
          /\ o \in [Thread -> Counter]
          /\ ahead \in [Thread -> Counter]

\* ticketlock_init
Init == /\ pc = [t \in Thread |-> "idle"]
        /\ next = 0
        /\ owner = 0
        /\ ticket = [t \in Thread |-> 0]
        /\ o = [t \in Thread |-> 0]
        /\ ahead = [t \in Thread |-> 0]

\* The increment of next.  It is one step further past what the pending
\* tryacquires have read; unless WrapDuringTry, it never runs M past it.
TakeTicket(t) ==
    /\ \A u \in Thread \ {t} :
          pc[u] = "try" /\ ahead[u] = M - 1 => WrapDuringTry
    /\ next' = Inc(next)
    /\ ticket' = [ticket EXCEPT ![t] = next]
    /\ ahead' = [u \in Thread |-> IF u # t /\ pc[u] = "try"
                                  THEN Inc(ahead[u]) ELSE 0]

\* ticketlock_acquire: take a ticket, await owner = ticket
acquire_get_inc(t) == /\ Step(t, "idle", "await")
                      /\ TakeTicket(t)
                      /\ UNCHANGED <<owner, o>>

\* mutation: waits for the ticket before its own
acquire_await_early(t) == /\ Step(t, "await", "cs")
                          /\ Diff(ticket[t], owner) <= 1
                          /\ UNCHANGED <<next, owner, ticket, o, ahead>>

acquire_await(t) == /\ Step(t, "await", "cs")
                    /\ owner = ticket[t]
                    /\ UNCHANGED <<next, owner, ticket, o, ahead>>

\* ticketlock_tryacquire: read owner, cmpxchg next from that value
tryacquire_read(t) == /\ Step(t, "idle", "try")
                      /\ o' = [o EXCEPT ![t] = owner]
                      /\ ahead' = [ahead EXCEPT ![t] = Diff(next, owner)]
                      /\ UNCHANGED <<next, owner, ticket>>

\* mutation: an unconditional increment instead of the cmpxchg
tryacquire_increment(t) == /\ Step(t, "try", "cs")
                           /\ TakeTicket(t)
                           /\ o' = [o EXCEPT ![t] = 0]
                           /\ UNCHANGED owner

tryacquire_cmpxchg(t) ==
    /\ \/ /\ next = o[t]
          /\ Step(t, "try", "cs")
          /\ TakeTicket(t)
       \/ /\ next # o[t]
          /\ Step(t, "try", "idle")
          /\ ahead' = [ahead EXCEPT ![t] = 0]
          /\ UNCHANGED <<next, ticket>>
    /\ o' = [o EXCEPT ![t] = 0]
    /\ UNCHANGED owner

\* ticketlock_release: read owner, write owner + 1
release_read(t) == /\ Step(t, "cs", "release")
                   /\ o' = [o EXCEPT ![t] = owner]
                   /\ UNCHANGED <<next, owner, ticket, ahead>>

release_write(t) == /\ Step(t, "release", "idle")
                    /\ owner' = Inc(o[t])
                    /\ ticket' = [ticket EXCEPT ![t] = 0]
                    /\ o' = [o EXCEPT ![t] = 0]
                    /\ UNCHANGED <<next, ahead>>

\* mutation: compares the raw counters, forgetting the wrap
has_waiters_signed == next > owner + 1

\* ticketlock_has_waiters, for the holder of the lock
has_waiters == Diff(next, owner) > 1

\* the steps of a thread that is inside an operation or the critical section
Progress(t) == \/ acquire_await(t)
               \/ tryacquire_cmpxchg(t)
               \/ release_read(t)
               \/ release_write(t)

Next == \E t \in Thread : acquire_get_inc(t) \/ tryacquire_read(t) \/ Progress(t)

Spec == Init /\ [][Next]_vars /\ \A t \in Thread : WF_vars(Progress(t))

-----------------------------------------------------------------------------
InCS == {t \in Thread : pc[t] \in {"cs", "release"}}

\* the threads whose ticket has not been served to the end
Holding == {t \in Thread : pc[t] \in {"await", "cs", "release"}}

\* Two threads are never between acquire and the end of release, whatever
\* mixture of acquire and tryacquire brought them there and however often the
\* counters have wrapped.
MutualExclusion == \A t, u \in InCS : t = u

\* The outstanding tickets are exactly the numbers from owner up to next, one
\* thread each: none is lost, handed out twice or skipped at the wrap.
TicketsConsecutive ==
    /\ {ticket[t] : t \in Holding} =
          {n \in Counter : Diff(n, owner) < Diff(next, owner)}
    /\ \A t, u \in Holding : ticket[t] = ticket[u] => t = u

\* For the holder has_waiters is exact, also across the wrap: it returns true
\* iff some other thread has a ticket.
HasWaitersExact == \A t \in InCS : has_waiters <=> Holding # {t}

\* The queue of the abstract lock: the threads with ticket owner, owner + 1, ...
Place(t) == IF t \in Holding THEN Diff(ticket[t], owner) + 1 ELSE 0

Queue == [i \in 1 .. Diff(next, owner) |->
            CHOOSE t \in Thread : \A v \in Thread : Place(v) = i => Place(t) = i]

Fifo == INSTANCE FifoLock WITH queue <- Queue, held <- InCS # {}

\* The ticketlock is a fair lock: taking the ticket fixes the place, threads
\* enter in that order, and everyone who waits gets in.
RefinesFifoLock == Fifo!Spec
-----------------------------------------------------------------------------
(***************************************************************************)
(* The safety of the ticketlock for every number of threads and every      *)
(* width of the counters, as long as the counters do not go once around    *)
(* while a tryacquire is between its two accesses (~WrapDuringTry).        *)
(***************************************************************************)
\* Outstanding tickets lie between owner and next, pairwise different, and
\* there are as many as the two counters are apart.
OutstandingInv ==
    /\ \A t \in Holding : Diff(ticket[t], owner) < Diff(next, owner)
    /\ \A t, u \in Holding : ticket[t] = ticket[u] => t = u
    /\ Diff(next, owner) = Cardinality(Holding)

\* Whoever is inside has the ticket that is served; release has read it.
ServedInv ==
    /\ \A t \in InCS : ticket[t] = owner
    /\ \A t \in Thread : pc[t] = "release" => o[t] = owner

\* A pending tryacquire knows a value that owner had: next is ahead[t] past it,
\* and owner is somewhere in between.
TryInv ==
    \A t \in Thread : pc[t] = "try" =>
        /\ ahead[t] = Diff(next, o[t])
        /\ Diff(next, owner) <= ahead[t]

IInv == TypeOK /\ OutstandingInv /\ ServedInv /\ TryInv

-----------------------------------------------------------------------------
\* Counter arithmetic: Diff is a distance, and incrementing either end moves it
\* by one as long as it does not wrap onto itself.
LEMMA DiffProps ==
    ASSUME NEW a \in Counter, NEW b \in Counter
    PROVE  /\ Inc(a) \in Counter
           /\ Diff(a, b) \in Counter
           /\ Diff(a, b) = 0 <=> a = b
           /\ Diff(a, a) = 0
           /\ Diff(a, b) < M - 1 => Diff(Inc(a), b) = Diff(a, b) + 1
           /\ Diff(a, b) > 0 => Diff(a, Inc(b)) = Diff(a, b) - 1
BY ThreadsFit, SMTT(30) DEF Counter, Inc, Diff

\* Serving the next ticket brings every other ticket one closer.
LEMMA DiffServed ==
    ASSUME NEW a \in Counter, NEW b \in Counter, a # b
    PROVE  Diff(a, Inc(b)) = Diff(a, b) - 1
BY ThreadsFit, SMTT(30) DEF Counter, Inc, Diff

\* Two numbers at the same distance from a third are equal.
LEMMA DiffInjective ==
    ASSUME NEW a \in Counter, NEW b \in Counter, NEW c \in Counter,
           Diff(a, c) = Diff(b, c)
    PROVE  a = b
BY ThreadsFit, SMTT(30) DEF Counter, Diff

\* Fewer than M - 1 tickets are outstanding when a thread that has none asks.
LEMMA RoomForTicket ==
    ASSUME TypeOK, NEW t \in Thread, t \notin Holding
    PROVE  /\ Cardinality(Holding) < M - 1
           /\ Cardinality(Holding \cup {t}) = Cardinality(Holding) + 1
<1>1. /\ IsFiniteSet(Holding)
      /\ IsFiniteSet(Holding \cup {t})
      /\ Cardinality(Holding) \in Nat
      /\ Cardinality(Thread) \in Nat
  <2>1. Holding \subseteq Thread /\ Holding \cup {t} \subseteq Thread
    BY DEF Holding
  <2>. QED BY <2>1, ThreadsFit, FS_Subset, FS_CardinalityType
<1>2. Cardinality(Holding \cup {t}) = Cardinality(Holding) + 1
  BY <1>1, FS_AddElement
<1>3. Cardinality(Holding \cup {t}) <= Cardinality(Thread)
  <2>1. Holding \cup {t} \subseteq Thread
    BY DEF Holding
  <2>. QED BY <2>1, ThreadsFit, FS_Subset
<1>. QED BY <1>1, <1>2, <1>3, ThreadsFit

-----------------------------------------------------------------------------
\* The increment of next, by whichever function, keeps the outstanding tickets
\* consecutive and different.
LEMMA TakeTicketOutstanding ==
    ASSUME IInv, NEW t \in Thread, t \notin Holding, TakeTicket(t),
           owner' = owner, Holding' = Holding \cup {t}
    PROVE  OutstandingInv'
<1>. USE DEF IInv, TypeOK, OutstandingInv
<1>1. /\ next \in Counter /\ owner \in Counter /\ ticket \in [Thread -> Counter]
      /\ Holding \subseteq Thread
  BY DEF Holding
<1>2. Cardinality(Holding) < M - 1 /\ Cardinality(Holding') = Cardinality(Holding) + 1
  BY RoomForTicket
<1>3. Diff(next', owner') = Diff(next, owner) + 1 /\ Diff(next, owner) \in Counter
  BY <1>1, <1>2, DiffProps DEF TakeTicket
<1>4. \A u \in Holding : ticket'[u] = ticket[u] /\ Diff(ticket[u], owner) \in Counter
  BY <1>1, DiffProps DEF TakeTicket
<1>5. ticket'[t] = next
  BY <1>1 DEF TakeTicket
<1>6. \A u \in Holding' : Diff(ticket'[u], owner') < Diff(next', owner')
  BY <1>3, <1>4, <1>5 DEF Counter
<1>7. \A u \in Holding : ticket[u] # next
  BY <1>3, <1>4 DEF Counter
<1>. QED BY <1>2, <1>3, <1>4, <1>5, <1>6, <1>7

\* The increment of next moves it one step further from what pending
\* tryacquires have read.
LEMMA TakeTicketTry ==
    ASSUME IInv, ~WrapDuringTry, NEW t \in Thread, t \notin Holding, TakeTicket(t),
           owner' = owner,
           NEW u \in Thread, u # t, pc[u] = "try", o'[u] = o[u]
    PROVE  /\ ahead'[u] = Diff(next', o'[u])
           /\ Diff(next', owner') <= ahead'[u]
<1>. USE DEF IInv, TypeOK, OutstandingInv
<1>1. /\ next \in Counter /\ owner \in Counter /\ o[u] \in Counter
      /\ ahead[u] \in Counter /\ ahead[u] # M - 1
      /\ ahead[u] = Diff(next, o[u]) /\ Diff(next, owner) <= ahead[u]
  BY DEF TakeTicket, TryInv
<1>2. Diff(next, owner) < M - 1
  BY RoomForTicket, Zenon
<1>3. ahead'[u] = ahead[u] + 1
  BY <1>1, ThreadsFit DEF TakeTicket, Inc, Counter
<1>4. next' = Inc(next) /\ Diff(next, o[u]) < M - 1
  BY <1>1, ThreadsFit DEF TakeTicket, Counter
<1>5. Diff(next', o[u]) = Diff(next, o[u]) + 1
  BY ONLY <1>1, <1>4, DiffProps
<1>6. Diff(next', owner) = Diff(next, owner) + 1
  BY ONLY <1>1, <1>2, <1>4, DiffProps
<1>. QED BY <1>1, <1>3, <1>5, <1>6, DiffProps DEF Counter

LEMMA TypeOKInductive == TypeOK /\ [Next]_vars => TypeOK'
<1>. SUFFICES ASSUME TypeOK, [Next]_vars PROVE TypeOK'
  OBVIOUS
<1>. USE DEF TypeOK
<1>0. 0 \in Counter
  BY ThreadsFit, FS_CardinalityType DEF Counter
<1>1. \A n \in Counter : Inc(n) \in Counter
  BY DiffProps
<1>2. ASSUME NEW t \in Thread, acquire_get_inc(t) PROVE TypeOK'
  BY <1>0, <1>1, <1>2 DEF acquire_get_inc, TakeTicket, Step, Goto
<1>3. ASSUME NEW t \in Thread, tryacquire_read(t) PROVE TypeOK'
  BY <1>3, DiffProps DEF tryacquire_read, Step, Goto
<1>4. ASSUME NEW t \in Thread, acquire_await(t) PROVE TypeOK'
  BY <1>4 DEF acquire_await, Step, Goto
<1>5. ASSUME NEW t \in Thread, tryacquire_cmpxchg(t) PROVE TypeOK'
  BY <1>0, <1>1, <1>5 DEF tryacquire_cmpxchg, TakeTicket, Step, Goto
<1>6. ASSUME NEW t \in Thread, release_read(t) PROVE TypeOK'
  BY <1>6 DEF release_read, Step, Goto
<1>7. ASSUME NEW t \in Thread, release_write(t) PROVE TypeOK'
  BY <1>0, <1>1, <1>7 DEF release_write, Step, Goto
<1>8. CASE UNCHANGED vars
  BY <1>8 DEF vars
<1>. QED BY <1>2, <1>3, <1>4, <1>5, <1>6, <1>7, <1>8 DEF Next, Progress

LEMMA InitIInv == Init => IInv
<1>. SUFFICES ASSUME Init PROVE IInv
  OBVIOUS
<1>1. 0 \in Counter
  BY ThreadsFit, FS_CardinalityType DEF Counter
<1>2. Holding = {} /\ InCS = {}
  BY DEF Init, Holding, InCS
<1>3. TypeOK
  BY <1>1 DEF Init, TypeOK
<1>4. OutstandingInv
  BY <1>1, <1>2, DiffProps, FS_EmptySet DEF Init, OutstandingInv
<1>. QED BY <1>2, <1>3, <1>4 DEF Init, IInv, ServedInv, TryInv

\* The inductive step, one action after the other.
LEMMA NextIInv ==
    ASSUME ~WrapDuringTry, IInv, [Next]_vars
    PROVE  IInv'
<1>. USE DEF IInv
<1>1. TypeOK'
  BY TypeOKInductive
<1>2. ASSUME NEW t \in Thread, acquire_get_inc(t) PROVE IInv'
  <2>1. /\ t \notin Holding /\ Holding' = Holding \cup {t} /\ InCS' = InCS
        /\ owner' = owner /\ o' = o /\ TakeTicket(t)
        /\ \A u \in Thread : pc'[u] = IF u = t THEN "await" ELSE pc[u]
    BY <1>2 DEF acquire_get_inc, Step, Goto, Holding, InCS, TypeOK
  <2>2. OutstandingInv'
    BY <2>1, TakeTicketOutstanding
  <2>3. ServedInv'
    BY <2>1 DEF ServedInv, TakeTicket, Holding, InCS, TypeOK
  <2>4. TryInv'
    BY <2>1, TakeTicketTry DEF TryInv
  <2>. QED BY <1>1, <2>2, <2>3, <2>4
<1>3. ASSUME NEW t \in Thread, tryacquire_read(t) PROVE IInv'
  <2>1. /\ Holding' = Holding /\ InCS' = InCS
        /\ owner' = owner /\ next' = next /\ ticket' = ticket
        /\ o'[t] = owner /\ ahead'[t] = Diff(next, owner)
        /\ \A u \in Thread \ {t} : pc'[u] = pc[u] /\ o'[u] = o[u] /\ ahead'[u] = ahead[u]
        /\ pc'[t] = "try"
    BY <1>3 DEF tryacquire_read, Step, Goto, Holding, InCS, TypeOK
  <2>2. OutstandingInv' /\ ServedInv'
    BY <2>1 DEF OutstandingInv, ServedInv
  <2>3. Diff(next, owner) <= Diff(next, owner)
    BY DiffProps DEF TypeOK, Counter
  <2>4. TryInv'
    BY <2>1, <2>3 DEF TryInv
  <2>. QED BY <1>1, <2>2, <2>4
<1>4. ASSUME NEW t \in Thread, acquire_await(t) PROVE IInv'
  <2>1. /\ Holding' = Holding /\ InCS' = InCS \cup {t} /\ ticket[t] = owner
        /\ UNCHANGED <<next, owner, ticket, o, ahead>>
        /\ \A u \in Thread : pc'[u] \in {"try", "release"} => pc'[u] = pc[u]
    BY <1>4 DEF acquire_await, Step, Goto, Holding, InCS, TypeOK
  <2>. QED BY <1>1, <2>1 DEF OutstandingInv, ServedInv, TryInv
<1>5. ASSUME NEW t \in Thread, tryacquire_cmpxchg(t) PROVE IInv'
  <2>. t \notin Holding
    BY <1>5 DEF tryacquire_cmpxchg, Step, Holding
  <2>1. CASE next = o[t]
    <3>1. /\ Holding' = Holding \cup {t} /\ InCS' = InCS \cup {t}
          /\ owner' = owner /\ TakeTicket(t) /\ pc[t] = "try" /\ pc'[t] = "cs"
          /\ \A u \in Thread \ {t} : pc'[u] = pc[u] /\ o'[u] = o[u]
      BY <1>5, <2>1 DEF tryacquire_cmpxchg, Step, Goto, Holding, InCS, TypeOK
    <3>2. OutstandingInv'
      BY <3>1, TakeTicketOutstanding
    <3>3. next = owner
      <4>1. ahead[t] = 0
        BY <2>1, <3>1, DiffProps DEF TryInv, TypeOK
      <4>2. Diff(next, owner) = 0
        BY <3>1, <4>1, DiffProps DEF TryInv, TypeOK, Counter
      <4>. QED BY <4>2, DiffProps DEF TypeOK
    <3>4. ServedInv'
      BY <3>1, <3>3 DEF ServedInv, TakeTicket, TypeOK, InCS
    <3>5. TryInv'
      BY <3>1, TakeTicketTry DEF TryInv
    <3>. QED BY <1>1, <3>2, <3>4, <3>5
  <2>2. CASE next # o[t]
    <3>1. /\ Holding' = Holding /\ InCS' = InCS
          /\ UNCHANGED <<owner, next, ticket>> /\ pc'[t] = "idle"
          /\ \A u \in Thread \ {t} : pc'[u] = pc[u] /\ o'[u] = o[u] /\ ahead'[u] = ahead[u]
      BY <1>5, <2>2 DEF tryacquire_cmpxchg, Step, Goto, Holding, InCS, TypeOK
    <3>. QED BY <1>1, <3>1 DEF OutstandingInv, ServedInv, TryInv
  <2>. QED BY <2>1, <2>2
<1>6. ASSUME NEW t \in Thread, release_read(t) PROVE IInv'
  <2>1. /\ Holding' = Holding /\ InCS' = InCS
        /\ UNCHANGED <<owner, next, ticket, ahead>> /\ o'[t] = owner
        /\ \A u \in Thread \ {t} : pc'[u] = pc[u] /\ o'[u] = o[u]
        /\ pc'[t] = "release"
    BY <1>6 DEF release_read, Step, Goto, Holding, InCS, TypeOK
  <2>. QED BY <1>1, <2>1 DEF OutstandingInv, ServedInv, TryInv
<1>7. ASSUME NEW t \in Thread, release_write(t) PROVE IInv'
  <2>1. /\ t \in Holding /\ t \in InCS /\ Holding' = Holding \ {t} /\ InCS' = InCS \ {t}
        /\ owner' = Inc(owner) /\ UNCHANGED <<next, ahead>> /\ pc'[t] = "idle"
        /\ \A u \in Thread \ {t} : pc'[u] = pc[u] /\ o'[u] = o[u] /\ ticket'[u] = ticket[u]
    BY <1>7 DEF release_write, Step, Goto, Holding, InCS, TypeOK, ServedInv
  <2>2. ticket[t] = owner /\ InCS = {t} /\ InCS \subseteq Holding
    BY <2>1 DEF ServedInv, OutstandingInv, Holding, InCS
  <2>3. /\ Diff(next, owner) \in Counter /\ Diff(next, owner) > 0
        /\ Diff(next, owner') = Diff(next, owner) - 1
    BY <2>1, <2>2, DiffProps DEF OutstandingInv, TypeOK, Counter
  <2>4. ASSUME NEW u \in Holding'
        PROVE  Diff(ticket'[u], owner') < Diff(next', owner')
    <3>1. /\ u \in Thread \ {t} /\ ticket[u] \in Counter /\ ticket'[u] = ticket[u]
          /\ Diff(ticket[u], owner) < Diff(next, owner)
          /\ ticket[u] # owner /\ owner \in Counter
      BY <2>1, <2>2 DEF OutstandingInv, TypeOK, Holding
    <3>2. Diff(ticket[u], owner) \in Counter /\ Diff(ticket[u], owner) # 0
      BY <3>1, DiffProps
    <3>3. Diff(ticket[u], Inc(owner)) = Diff(ticket[u], owner) - 1
      BY <3>1, DiffServed
    <3>. QED BY <2>1, <2>3, <3>1, <3>2, <3>3 DEF Counter
  <2>5. Cardinality(Holding') = Cardinality(Holding) - 1
    <3>1. IsFiniteSet(Holding)
      BY ThreadsFit, FS_Subset DEF Holding
    <3>. QED BY <2>1, <3>1, FS_RemoveElement, Zenon
  <2>6. OutstandingInv'
    BY <2>1, <2>3, <2>4, <2>5 DEF OutstandingInv, Holding
  <2>7. ServedInv'
    BY <2>1, <2>2 DEF ServedInv, InCS
  <2>8. TryInv'
    BY <2>1, <2>3 DEF TryInv, TypeOK, Counter
  <2>. QED BY <1>1, <2>6, <2>7, <2>8
<1>8. CASE UNCHANGED vars
  BY <1>8 DEF vars, TypeOK, OutstandingInv, ServedInv, TryInv, Holding, InCS
<1>. QED BY <1>2, <1>3, <1>4, <1>5, <1>6, <1>7, <1>8 DEF Next, Progress

LEMMA IInvMutualExclusion == IInv => MutualExclusion
BY DEF IInv, OutstandingInv, ServedInv, MutualExclusion, Holding, InCS

\* The words and the locals of ticketlock.h keep their types.
THEOREM TicketLockType == Spec => []TypeOK
<1>1. Init => TypeOK
  BY InitIInv DEF IInv
<1>. QED BY <1>1, TypeOKInductive, PTL DEF Spec

\* ticketlock_acquire, ticketlock_tryacquire and ticketlock_release keep the
\* critical section exclusive, for every number of threads smaller than M.
THEOREM TicketLockSafety ==
    ASSUME ~WrapDuringTry
    PROVE  Spec => []MutualExclusion
<1>1. Init => IInv
  BY InitIInv
<1>2. IInv /\ [Next]_vars => IInv'
  BY NextIInv
<1>3. IInv => MutualExclusion
  BY IInvMutualExclusion
<1>. QED BY <1>1, <1>2, <1>3, PTL DEF Spec

\* As many threads as there are numbers from owner to next have different ones of them, so
\* every number is some thread's.
LEMMA IInvTicketsConsecutive == IInv => TicketsConsecutive
<1>. SUFFICES ASSUME IInv, NEW n \in Counter, Diff(n, owner) < Diff(next, owner)
              PROVE  \E t \in Holding : ticket[t] = n
  BY DEF IInv, TypeOK, OutstandingInv, TicketsConsecutive, Holding
<1>. DEFINE d == Diff(next, owner)
            f == [t \in Holding |-> Diff(ticket[t], owner)]
<1>1. /\ next \in Counter /\ owner \in Counter
      /\ \A t \in Holding : ticket[t] \in Counter
  BY DEF IInv, TypeOK, Holding
<1>2. d \in Counter /\ Diff(n, owner) \in Counter
      /\ \A t \in Holding : Diff(ticket[t], owner) \in Counter
  BY <1>1, DiffProps
<1>3. d \in Nat /\ Diff(n, owner) \in 0 .. d - 1
  BY ThreadsFit, <1>2 DEF Counter
<1>. HIDE DEF d
<1>4. IsFiniteSet(0 .. d - 1) /\ Cardinality(0 .. d - 1) = d
  BY <1>3, FS_Interval
<1>5. f \in [Holding -> 0 .. d - 1]
  BY ThreadsFit, <1>2 DEF IInv, OutstandingInv, Counter, d
<1>6. \A t, u \in Holding : f[t] = f[u] => t = u
  BY <1>1, DiffInjective DEF IInv, OutstandingInv
<1>7. f \in Injection(Holding, 0 .. d - 1)
  BY <1>5, <1>6 DEF Injection, IsInjective
<1>8. f \in Surjection(Holding, 0 .. d - 1)
  BY <1>4, <1>7, FS_Injection DEF IInv, OutstandingInv, d
<1>9. PICK t \in Holding : f[t] = Diff(n, owner)
  BY <1>3, <1>8, Zenon DEF Surjection
<1>. QED  BY <1>1, <1>9, DiffInjective

LEMMA IInvHasWaitersExact == IInv => HasWaitersExact
<1>. SUFFICES ASSUME IInv, NEW t \in InCS
              PROVE  Diff(next, owner) > 1 <=> Holding # {t}
  BY DEF HasWaitersExact, has_waiters
<1>1. t \in Holding /\ IsFiniteSet(Holding) /\ Diff(next, owner) = Cardinality(Holding)
  BY ThreadsFit, FS_Subset DEF IInv, OutstandingInv, InCS, Holding
<1>2. Cardinality(Holding) \in Nat /\ Cardinality({t}) = 1
  BY <1>1, FS_CardinalityType, FS_Singleton, Zenon
<1>3. Cardinality(Holding) # 0
  BY <1>1, FS_EmptySet
<1>4. Cardinality(Holding) = 1 => Holding = {t}
  BY <1>1, FS_Singleton
<1>. QED  BY <1>1, <1>2, <1>3, <1>4

\* The outstanding tickets are the numbers from owner to next, one thread each,
\* wherever the counters wrap.
THEOREM TicketLockTickets ==
    ASSUME ~WrapDuringTry
    PROVE  Spec => []TicketsConsecutive
<1>1. Init => IInv
  BY InitIInv
<1>2. IInv /\ [Next]_vars => IInv'
  BY NextIInv
<1>. QED  BY <1>1, <1>2, IInvTicketsConsecutive, PTL DEF Spec

\* ticketlock_has_waiters is exact for the holder, wherever the counters wrap: it is
\* true iff another thread has a ticket.
THEOREM TicketLockHasWaiters ==
    ASSUME ~WrapDuringTry
    PROVE  Spec => []HasWaitersExact
<1>1. Init => IInv
  BY InitIInv
<1>2. IInv /\ [Next]_vars => IInv'
  BY NextIInv
<1>. QED  BY <1>1, <1>2, IInvHasWaitersExact, PTL DEF Spec

\* Place i of the queue has the one thread whose ticket is i - 1 past owner.
QueueFacts ==
    /\ Queue \in Seq(Thread) /\ Len(Queue) = Diff(next, owner)
    /\ \A i \in 1 .. Len(Queue) : Queue[i] \in Holding
    /\ \A t \in Holding : Place(t) \in 1 .. Len(Queue) /\ Queue[Place(t)] = t
    /\ \A i \in 1 .. Len(Queue) : Place(Queue[i]) = i

LEMMA IInvQueueFacts == IInv => QueueFacts
<1>. SUFFICES ASSUME IInv PROVE QueueFacts
  OBVIOUS
<1>. DEFINE d == Diff(next, owner)
<1>1. /\ next \in Counter /\ owner \in Counter /\ Holding \subseteq Thread
      /\ \A t \in Holding : ticket[t] \in Counter
  BY DEF IInv, TypeOK, Holding
<1>2. d \in Nat /\ \A n \in Counter : Diff(n, owner) \in Nat
  BY ThreadsFit, <1>1, DiffProps DEF Counter
<1>3. ASSUME NEW t \in Holding PROVE Place(t) = Diff(ticket[t], owner) + 1 /\ Place(t) \in 1 .. d
  BY <1>1, <1>2 DEF IInv, OutstandingInv, Place
<1>4. ASSUME NEW t \in Holding, NEW u \in Thread, Place(u) = Place(t) PROVE u = t
  <2>1. u \in Holding
    BY <1>2, <1>3, <1>4 DEF Place
  <2>2. Diff(ticket[u], owner) = Diff(ticket[t], owner)
    BY <1>1, <1>2, <1>3, <1>4, <2>1
  <2>3. ticket[u] = ticket[t]
    BY <1>1, <2>1, <2>2, DiffInjective
  <2>. QED  BY <2>1, <2>3 DEF IInv, OutstandingInv
<1>5. ASSUME NEW i \in 1 .. d PROVE \E t \in Holding : Place(t) = i
  <2>1. PICK n \in Counter : Diff(n, owner) = i - 1
    <3>1. M \in Nat /\ d < M
      BY ThreadsFit, <1>1, DiffProps DEF Counter
    <3>2. CASE owner + (i - 1) < M
      <4>1. owner + (i - 1) \in Counter /\ Diff(owner + (i - 1), owner) = i - 1
        BY <1>1, <1>2, <3>1, <3>2 DEF Counter, Diff
      <4>. QED  BY <4>1
    <3>3. CASE owner + (i - 1) >= M
      <4>1. /\ (owner + (i - 1)) - M \in Counter
            /\ Diff((owner + (i - 1)) - M, owner) = i - 1
        BY <1>1, <1>2, <3>1, <3>3 DEF Counter, Diff
      <4>. QED  BY <4>1
    <3>. QED  BY <1>1, <1>2, <3>1, <3>2, <3>3 DEF Counter
  <2>2. Diff(n, owner) < Diff(next, owner)
    BY <1>2, <2>1
  <2>3. PICK t \in Holding : ticket[t] = n
    BY <2>1, <2>2, IInvTicketsConsecutive DEF TicketsConsecutive
  <2>. QED  BY <1>3, <2>1, <2>3
<1>6. ASSUME NEW i \in 1 .. d PROVE Queue[i] \in Holding /\ Place(Queue[i]) = i
  <2>1. PICK t \in Holding : Place(t) = i
    BY <1>5
  <2>2. \A v \in Thread : Place(v) = i => Place(t) = i
    BY <2>1
  <2>3. Queue[i] = CHOOSE u \in Thread : \A v \in Thread : Place(v) = i => Place(u) = i
    BY DEF Queue
  <2>4. /\ Queue[i] \in Thread
        /\ \A v \in Thread : Place(v) = i => Place(Queue[i]) = i
    BY <1>1, <2>1, <2>2, <2>3
  <2>5. Place(Queue[i]) = Place(t)
    BY <1>1, <2>1, <2>4
  <2>. QED  BY <1>4, <2>1, <2>4, <2>5
<1>7. Queue \in Seq(Thread) /\ Len(Queue) = d
  <2>1. Queue = [i \in 1 .. d |-> Queue[i]]
    BY DEF Queue
  <2>2. \A i \in 1 .. d : Queue[i] \in Thread
    BY <1>1, <1>6
  <2>. QED  BY <1>2, <2>1, <2>2
<1>8. \A t \in Holding : Queue[Place(t)] = t
  BY <1>1, <1>3, <1>4, <1>6
<1>. QED  BY <1>3, <1>6, <1>7, <1>8 DEF QueueFacts

\* The queue stays as it is when no thread takes, or gives back, a ticket.
LEMMA SameQueue ==
    ASSUME QueueFacts, QueueFacts', Holding' = Holding, UNCHANGED <<next, owner, ticket>>
    PROVE  Queue' = Queue
<1>1. Len(Queue') = Len(Queue)
  BY DEF QueueFacts
<1>2. \A u \in Thread : Place(u)' = Place(u)
  BY DEF Place
<1>3. ASSUME NEW i \in 1 .. Len(Queue) PROVE Queue'[i] = Queue[i]
  <2>1. PICK u \in Holding : u = Queue[i] /\ Place(u) = i
    BY <1>3 DEF QueueFacts
  <2>. QED  BY <1>2, <2>1 DEF QueueFacts, Holding
<1>. QED  BY <1>1, <1>3, SeqEqual DEF QueueFacts

\* Taking a ticket is joining the queue at its end.
LEMMA TakeTicketAppends ==
    ASSUME IInv, QueueFacts, QueueFacts', NEW t \in Thread, t \notin Holding, TakeTicket(t),
           Holding' = Holding \cup {t}, UNCHANGED owner
    PROVE  Queue' = Append(Queue, t)
<1>1. /\ next \in Counter /\ owner \in Counter
      /\ \A u \in Holding : ticket'[u] = ticket[u]
      /\ ticket'[t] = next /\ next' = Inc(next)
  BY DEF IInv, TypeOK, TakeTicket, Holding
<1>2. Diff(next', owner') = Diff(next, owner) + 1
  BY <1>1, RoomForTicket, DiffProps DEF IInv, OutstandingInv
<1>3. /\ Len(Queue') = Len(Queue) + 1
      /\ \A u \in Holding : Place(u)' = Place(u)
      /\ Place(t)' = Len(Queue) + 1
  BY <1>1, <1>2 DEF QueueFacts, Place
<1>4. Queue \in Seq(Thread) /\ Queue' \in Seq(Thread) /\ Append(Queue, t) \in Seq(Thread)
  BY AppendProperties DEF QueueFacts
<1>5. Queue'[Len(Queue) + 1] = t
  BY <1>3 DEF QueueFacts
<1>6. ASSUME NEW i \in 1 .. Len(Queue) PROVE Queue'[i] = Queue[i]
  <2>1. PICK u \in Holding : u = Queue[i] /\ Place(u) = i
    BY <1>6 DEF QueueFacts
  <2>. QED  BY <1>3, <2>1 DEF QueueFacts
<1>7. Len(Append(Queue, t)) = Len(Queue')
      /\ \A i \in 1 .. Len(Queue') : Queue'[i] = Append(Queue, t)[i]
  BY <1>3, <1>4, <1>5, <1>6, AppendProperties
<1>. QED  BY <1>4, <1>7, SeqEqual

\* Writing owner + 1 is leaving the head of the queue.
LEMMA ReleaseIsTail ==
    ASSUME IInv, QueueFacts, QueueFacts', NEW t \in Thread, release_write(t)
    PROVE  /\ Queue # <<>> /\ t = Head(Queue) /\ Queue' = Tail(Queue)
           /\ InCS = {t} /\ InCS' = {}
<1>. USE DEF IInv
<1>1. /\ t \in Holding /\ t \in InCS /\ Holding' = Holding \ {t} /\ InCS' = InCS \ {t}
      /\ owner' = Inc(owner) /\ next' = next
      /\ \A u \in Thread \ {t} : ticket'[u] = ticket[u]
  BY DEF release_write, Step, Goto, Holding, InCS, TypeOK, ServedInv
<1>2. ticket[t] = owner /\ InCS = {t} /\ owner \in Counter /\ next \in Counter
  BY <1>1 DEF ServedInv, OutstandingInv, Holding, InCS, TypeOK
<1>3. Place(t) = 1 /\ Queue[1] = t /\ 1 \in 1 .. Len(Queue)
  <2>1. Diff(owner, owner) = 0
    BY <1>2, DiffProps
  <2>2. Place(t) = 1
    BY <1>1, <1>2, <2>1 DEF Place
  <2>. QED  BY <1>1, <2>2 DEF QueueFacts
<1>4. Queue \in Seq(Thread) /\ Queue' \in Seq(Thread) /\ Queue # <<>>
  BY <1>3, EmptySeq DEF QueueFacts
<1>5. /\ Tail(Queue) \in Seq(Thread) /\ Len(Tail(Queue)) = Len(Queue) - 1
      /\ \A i \in 1 .. Len(Queue) - 1 : Tail(Queue)[i] = Queue[i + 1]
      /\ Head(Queue) = t
  BY <1>3, <1>4, HeadTailProperties
<1>6. next # owner
  BY <1>2, <1>3, DiffProps DEF QueueFacts
<1>7. Len(Queue') = Len(Queue) - 1
  BY <1>1, <1>2, <1>6, DiffServed DEF QueueFacts
<1>8. ASSUME NEW u \in Holding \ {t} PROVE Place(u)' = Place(u) - 1
  <2>1. ticket[u] \in Counter /\ ticket[u] # owner /\ u \in Thread
    BY <1>1, <1>2 DEF TypeOK, OutstandingInv, Holding
  <2>2. Diff(ticket[u], Inc(owner)) = Diff(ticket[u], owner) - 1
    BY <1>2, <2>1, DiffServed
  <2>3. Diff(ticket[u], owner) \in Nat
    <3>1. Diff(ticket[u], owner) \in Counter
      BY <1>2, <2>1, DiffProps
    <3>. QED  BY ThreadsFit, <3>1 DEF Counter
  <2>. QED  BY <1>1, <2>1, <2>2, <2>3 DEF Place
<1>9. ASSUME NEW i \in 1 .. Len(Queue) - 1 PROVE Queue'[i] = Queue[i + 1]
  <2>1. PICK u \in Holding : u = Queue[i + 1] /\ Place(u) = i + 1
    <3>1. i + 1 \in 1 .. Len(Queue)
      BY <1>4, <1>9, LenProperties
    <3>. QED  BY <3>1 DEF QueueFacts
  <2>2. u # t /\ Place(u)' = i
    BY <1>3, <1>8, <2>1
  <2>. QED  BY <1>1, <2>1, <2>2 DEF QueueFacts
<1>10. Queue' = Tail(Queue)
  BY <1>4, <1>5, <1>7, <1>9, SeqEqual
<1>. QED  BY <1>1, <1>2, <1>4, <1>5, <1>10

\* The ticketlock implements FifoLock, progress aside: the increment of next joins the
\* queue, threads enter from its head only, a successful tryacquire finds it empty, and
\* the write of owner + 1 leaves it.
THEOREM TicketLockRefinesFifoLock ==
    ASSUME ~WrapDuringTry
    PROVE  Spec => Fifo!Safety
<1>1. Init => IInv
  BY InitIInv
<1>2. IInv /\ [Next]_vars => IInv'
  BY NextIInv
<1>3. IInv => QueueFacts
  BY IInvQueueFacts
<1>4. Init => Fifo!Init
  <2>. SUFFICES ASSUME Init PROVE Queue = <<>> /\ InCS = {}
    BY DEF Fifo!Init
  <2>1. QueueFacts /\ Holding = {} /\ InCS = {}
    BY <1>1, <1>3 DEF Init, Holding, InCS
  <2>. QED  BY <2>1, EmptySeq, LenProperties DEF QueueFacts
<1>5. IInv /\ QueueFacts /\ QueueFacts' /\ [Next]_vars => [Fifo!Next]_<<Queue, InCS # {}>>
  <2>. SUFFICES ASSUME IInv, QueueFacts, QueueFacts', [Next]_vars
                PROVE  [Fifo!Next]_<<Queue, InCS # {}>>
    OBVIOUS
  <2>1. ASSUME NEW t \in Thread, acquire_get_inc(t) PROVE Fifo!Arrive(t)
    <3>1. /\ t \notin Holding /\ Holding' = Holding \cup {t} /\ InCS' = InCS
          /\ owner' = owner /\ TakeTicket(t)
      BY <2>1 DEF acquire_get_inc, Step, Goto, Holding, InCS, IInv, TypeOK
    <3>2. Queue' = Append(Queue, t)
      BY <3>1, TakeTicketAppends
    <3>3. ~Fifo!Queued(t)
      BY <3>1 DEF Fifo!Queued, QueueFacts
    <3>. QED  BY <3>1, <3>2, <3>3 DEF Fifo!Arrive
  <2>2. ASSUME NEW t \in Thread, acquire_await(t) PROVE Fifo!Enter(t)
    <3>1. /\ t \in Holding /\ Holding' = Holding /\ t \in InCS' /\ ticket[t] = owner
          /\ t \notin InCS /\ UNCHANGED <<next, owner, ticket>> /\ owner \in Counter
      BY <2>2 DEF acquire_await, Step, Goto, Holding, InCS, IInv, TypeOK
    <3>2. Queue' = Queue
      BY <3>1, SameQueue
    <3>3. InCS = {}
      BY <3>1 DEF IInv, ServedInv, OutstandingInv, Holding, InCS
    <3>4. 1 \in 1 .. Len(Queue) /\ Queue[1] = t
      <4>1. Diff(owner, owner) = 0
        BY <3>1, DiffProps
      <4>2. Place(t) = 1
        BY <3>1, <4>1 DEF Place
      <4>. QED  BY <3>1, <4>2 DEF QueueFacts
    <3>5. Fifo!Queued(t) /\ t = Head(Queue)
      BY <3>4, LenProperties DEF Fifo!Queued, QueueFacts
    <3>. QED  BY <3>1, <3>2, <3>3, <3>5 DEF Fifo!Enter
  <2>3. ASSUME NEW t \in Thread, tryacquire_cmpxchg(t), next = o[t] PROVE Fifo!TryEnter(t)
    <3>1. /\ t \notin Holding /\ Holding' = Holding \cup {t} /\ t \in InCS'
          /\ owner' = owner /\ TakeTicket(t) /\ pc[t] = "try"
      BY <2>3 DEF tryacquire_cmpxchg, Step, Goto, Holding, InCS, IInv, TypeOK
    <3>2. Diff(next, owner) = 0
      <4>1. ahead[t] = 0
        BY <2>3, <3>1, DiffProps DEF IInv, TryInv, TypeOK
      <4>. QED  BY <3>1, <4>1, DiffProps DEF IInv, TryInv, TypeOK, Counter
    <3>3. Queue = <<>>
      BY <3>2, EmptySeq DEF QueueFacts
    <3>4. Queue' = Append(Queue, t)
      BY <3>1, TakeTicketAppends
    <3>. QED  BY <3>1, <3>3, <3>4 DEF Fifo!TryEnter
  <2>4. ASSUME NEW t \in Thread, release_write(t) PROVE Fifo!Leave(t)
    <3>1. /\ Queue # <<>> /\ t = Head(Queue) /\ Queue' = Tail(Queue)
          /\ InCS = {t} /\ InCS' = {}
      BY <2>4, ReleaseIsTail
    <3>2. Fifo!Queued(t)
      BY <3>1, EmptySeq, LenProperties DEF Fifo!Queued, QueueFacts
    <3>. QED  BY <3>1, <3>2 DEF Fifo!Leave
  <2>5. ASSUME NEW t \in Thread,
               \/ tryacquire_read(t) \/ release_read(t)
               \/ tryacquire_cmpxchg(t) /\ next # o[t]
        PROVE  UNCHANGED <<Queue, InCS # {}>>
    <3>1. Holding' = Holding /\ InCS' = InCS /\ UNCHANGED <<next, owner, ticket>>
      BY <2>5 DEF tryacquire_read, release_read, tryacquire_cmpxchg, Step, Goto, Holding,
                  InCS, IInv, TypeOK
    <3>. QED  BY <3>1, SameQueue
  <2>6. CASE UNCHANGED vars
    <3>1. Holding' = Holding /\ InCS' = InCS /\ UNCHANGED <<next, owner, ticket>>
      BY <2>6 DEF vars, Holding, InCS
    <3>. QED  BY <3>1, SameQueue
  <2>. QED
    BY <2>1, <2>2, <2>3, <2>4, <2>5, <2>6 DEF Next, Progress, Fifo!Next
<1>. QED
  BY <1>1, <1>2, <1>3, <1>4, <1>5, PTL DEF Spec, Fifo!Safety, Fifo!vars
=============================================================================
