----------------------------- MODULE MuslMutex -----------------------------
(***************************************************************************)
(* include/vsync/thread/mutex/musl.h: a futex mutex that counts its waiters*)
(* beside the word 0 (free), 1 (taken) or 2 (somebody may be asleep).  The *)
(* optional spinning before the first wait only reads, and ends at any     *)
(* time: it is part of the step to "cas".                                  *)
(***************************************************************************)
EXTENDS Futex

VARIABLES lock, waiters,
          old               \* old[t]: the word a releasing thread has exchanged

vars == <<pc, lock, waiters, old, asleep>>

TypeOK == /\ pc \in [Thread -> {"idle", "cas", "inc", "mark", "wait", "dec", "check",
                                "wake", "cs"}]
          /\ lock \in 0 .. 2
          /\ waiters \in 0 .. Cardinality(Thread)
          /\ old \in [Thread -> 0 .. 2]
          /\ asleep \in [{"lock"} -> SUBSET Thread]

Init == /\ pc = [t \in Thread |-> "idle"]
        /\ lock = 0 /\ waiters = 0
        /\ old = [t \in Thread |-> 0]
        /\ asleep = [a \in {"lock"} |-> {}]

\* the cmpxchg to take the lock, in the fast path and in the loop
TryTake(t, from, no) == /\ \/ lock = 0 /\ lock' = 1 /\ Step(t, from, "cs")
                           \/ lock # 0 /\ UNCHANGED lock /\ Step(t, from, no)
                        /\ UNCHANGED <<waiters, old, asleep>>

acquire_cmpxchg(t) == TryTake(t, "idle", "cas")

acquire_loop(t) == TryTake(t, "cas", "inc")

acquire_inc(t) == /\ Step(t, "inc", "mark")
                  /\ waiters' = waiters + 1
                  /\ UNCHANGED <<lock, old, asleep>>

acquire_mark(t) == /\ Step(t, "mark", "wait")
                   /\ lock' = IF lock = 1 THEN 2 ELSE lock
                   /\ UNCHANGED <<waiters, old, asleep>>

acquire_wait(t) == /\ pc[t] = "wait"
                   /\ vfutex_wait(t, "lock", lock, 2, "dec")
                   /\ UNCHANGED <<lock, waiters, old>>

acquire_dec(t) == /\ Step(t, "dec", "cas") /\ Awake(t)
                  /\ waiters' = waiters - 1
                  /\ UNCHANGED <<lock, old, asleep>>

release_xchg(t) == /\ Step(t, "cs", "check")
                   /\ old' = [old EXCEPT ![t] = lock]
                   /\ lock' = 0
                   /\ UNCHANGED <<waiters, asleep>>

\* mutation: only the word is looked at
release_check_word(t) == /\ \/ old[t] # 1 /\ Step(t, "check", "wake")
                            \/ old[t] = 1 /\ Step(t, "check", "idle")
                         /\ old' = [old EXCEPT ![t] = 0]
                         /\ UNCHANGED <<lock, waiters, asleep>>

release_check(t) == LET wake == waiters > 0 \/ old[t] # 1 IN
                    /\ \/ wake /\ Step(t, "check", "wake")
                       \/ ~wake /\ Step(t, "check", "idle")
                    /\ old' = [old EXCEPT ![t] = 0]
                    /\ UNCHANGED <<lock, waiters, asleep>>

release_wake(t) == /\ Step(t, "wake", "idle")
                   /\ vfutex_wake("lock", 1)
                   /\ UNCHANGED <<lock, waiters, old>>

Progress(t) == \/ acquire_loop(t) \/ acquire_inc(t) \/ acquire_mark(t)
               \/ acquire_wait(t) \/ acquire_dec(t)
               \/ release_xchg(t) \/ release_check(t) \/ release_wake(t)

Next == \E t \in Thread : \/ acquire_cmpxchg(t) \/ Progress(t)
                          \/ SpuriousWakeup(t) /\ UNCHANGED <<pc, lock, waiters, old>>

Spec == Init /\ [][Next]_vars /\ \A t \in Thread : WF_vars(Progress(t))

-----------------------------------------------------------------------------
Counted == {t \in Thread : At(t, {"mark", "wait", "dec"})}

\* Sleepers are counted, and while one of them is asleep the lock is held by a
\* thread that will wake one, or somebody is on the way.
NoLostWakeup ==
    /\ waiters = Cardinality(Counted)
    /\ asleep["lock"] # {} =>
          \E t \in Thread : \/ At(t, {"cs", "wake", "cas", "inc", "mark", "wait"})
                            \/ pc[t] = "check" /\ (waiters > 0 \/ old[t] # 1)
                            \/ pc[t] = "dec" /\ Awake(t)

Abstract == [t \in Thread |-> IF At(t, {"idle", "check", "wake"}) THEN "out"
                              ELSE IF pc[t] = "cs" THEN "in" ELSE "wait"]

Mutual == INSTANCE Mutex WITH st <- Abstract

-----------------------------------------------------------------------------
\* The lock is taken exactly while one thread has it, and asleep are only threads that
\* have counted themselves.
MuslInv == /\ TypeOK /\ waiters = Cardinality(Counted)
           /\ lock # 0 <=> \E t \in Thread : pc[t] = "cs"
           /\ \A t, v \in Thread : pc[t] = "cs" /\ pc[v] = "cs" => t = v
           /\ \A t \in asleep["lock"] : pc[t] = "dec"
=============================================================================
