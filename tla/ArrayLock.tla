----------------------------- MODULE ArrayLock -----------------------------
(***************************************************************************)
(* include/vsync/spinlock/arraylock.h: each thread takes the next slot of  *)
(* a circular array of flags and spins on its own flag.  The tail is an    *)
(* 8-bit counter: it wraps at TailMod (256 in the code).                   *)
(***************************************************************************)
EXTENDS Control, Naturals, FiniteSets

CONSTANTS FlagsLen,   \* flags_len: a power of two, at least the number of threads
          TailMod     \* at least FlagsLen (arraylock_init does not check that)

VARIABLES tail, flags,
          slot        \* slot[t]: the index acquire returned to t

vars == <<pc, tail, flags, slot>>

Slot == 0 .. FlagsLen - 1

TypeOK == /\ pc \in [Thread -> {"idle", "await", "cs", "pass"}]
          /\ tail \in 0 .. TailMod - 1
          /\ flags \in [Slot -> {0, 1}]
          /\ slot \in [Thread -> Slot]

\* arraylock_init: the first slot has the permission
Init == /\ pc = [t \in Thread |-> "idle"]
        /\ tail = 0
        /\ flags = [i \in Slot |-> IF i = 0 THEN 1 ELSE 0]
        /\ slot = [t \in Thread |-> 0]

\* arraylock_acquire: take the slot, wait for its flag
acquire_get_inc(t) == /\ Step(t, "idle", "await")
                      /\ slot' = [slot EXCEPT ![t] = tail % FlagsLen]
                      /\ tail' = (tail + 1) % TailMod
                      /\ UNCHANGED flags

acquire_await(t) == /\ Step(t, "await", "cs")
                    /\ flags[slot[t]] # 0
                    /\ UNCHANGED <<tail, flags, slot>>

\* mutation: the permission is not withdrawn from the own slot
release_keep_own(t) == /\ Step(t, "cs", "pass")
                       /\ UNCHANGED <<tail, flags, slot>>

\* arraylock_release: withdraw the own flag, then raise the next one
release_clear_own(t) == /\ Step(t, "cs", "pass")
                        /\ flags' = [flags EXCEPT ![slot[t]] = 0]
                        /\ UNCHANGED <<tail, slot>>

release_set_next(t) == /\ Step(t, "pass", "idle")
                       /\ flags' = [flags EXCEPT ![(slot[t] + 1) % FlagsLen] = 1]
                       /\ slot' = [slot EXCEPT ![t] = 0]
                       /\ UNCHANGED tail

Progress(t) == acquire_await(t) \/ release_clear_own(t) \/ release_set_next(t)

Next == \E t \in Thread : acquire_get_inc(t) \/ Progress(t)

Spec == Init /\ [][Next]_vars /\ \A t \in Thread : WF_vars(Progress(t))

-----------------------------------------------------------------------------
InCS == {t \in Thread : At(t, {"cs", "pass"})}

Waiting == {t \in Thread : pc[t] = "await"}

\* There is one permission: at most one flag is raised, none while the holder
\* is between its two writes, and no two threads share a slot.
OnePermission ==
    /\ Cardinality({i \in Slot : flags[i] = 1}) =
         IF \E t \in Thread : pc[t] = "pass" THEN 0 ELSE 1
    /\ \A t \in InCS : pc[t] = "cs" => flags[slot[t]] = 1
    /\ \A t, v \in InCS \cup Waiting : slot[t] = slot[v] => t = v

\* the slot that is being served
Served == IF InCS # {} THEN slot[CHOOSE t \in InCS : TRUE]
                       ELSE CHOOSE i \in Slot : flags[i] = 1

Members == InCS \cup Waiting

\* how far slot i is past slot j
SlotDiff(i, j) == IF j <= i THEN i - j ELSE (i + FlagsLen) - j

\* The threads in the order of their slots, from the one that is served on.
IsQueue(q) ==
    LET n == Cardinality(Members) IN
    /\ q \in [1 .. n -> Members]
    /\ \A i \in 1 .. n : SlotDiff(slot[q[i]], Served) = i - 1

Queue == [i \in 1 .. Cardinality(Members) |->
             CHOOSE t \in Members : SlotDiff(slot[t], Served) = i - 1]

Fifo == INSTANCE FifoLock WITH queue <- Queue, held <- InCS # {}

-----------------------------------------------------------------------------
\* The threads have the slots from the one that is served, i, on; the next free slot is
\* that of the tail.  The flag of slot i alone is raised, and none while it is passed on.
ServingFrom(i) ==
    /\ \A t \in Members : SlotDiff(slot[t], i) < Cardinality(Members)
    /\ \A t, v \in Members : slot[t] = slot[v] => t = v
    /\ tail % FlagsLen = (i + Cardinality(Members)) % FlagsLen
    /\ \A t \in InCS : slot[t] = i
    /\ \A j \in Slot : flags[j] = 1 <=> j = i /\ \A t \in Thread : pc[t] # "pass"

ArrayInv == TypeOK /\ \E i \in Slot : ServingFrom(i)

HasQueue == \E q \in [1 .. Cardinality(Members) -> Members] : IsQueue(q)

\* The queue is the only one there is.
OneQueue == /\ IsQueue(Queue)
            /\ \A q \in [1 .. Cardinality(Members) -> Members] : IsQueue(q) => q = Queue
=============================================================================
