----------------------------- MODULE FutexMutex -----------------------------
(***************************************************************************)
(* include/vsync/thread/mutex/slim.h and tristate.h: futex mutexes whose   *)
(* word is 0 (free), 1 (taken) or 2 (taken, somebody may be asleep).  slim *)
(* exchanges the word; of tristate's transitions all but one are           *)
(* compare-and-exchanges.                                                  *)
(***************************************************************************)
EXTENDS Futex

VARIABLES m,
          kind      \* "slim" or "tristate": which of the two m is

mutex_vars == <<pc, m, asleep, kind>>

MutexPc == {"idle", "xchg", "mark", "wait", "retry", "clear", "wake", "cs"}

TypeOK == /\ kind \in {"slim", "tristate"}
          /\ pc \in [Thread -> MutexPc]
          /\ m \in 0 .. 2
          /\ asleep \in [{"m"} -> SUBSET Thread]

Init == /\ kind \in {"slim", "tristate"}
        /\ pc = [t \in Thread |-> "idle"]
        /\ m = 0
        /\ asleep = [a \in {"m"} |-> {}]

\* vatomic32_cmpxchg(m, old, new), going to `yes` or `no`
Cmpxchg(t, old, new, yes, no) == /\ \/ m = old /\ m' = new /\ Goto(t, yes)
                                    \/ m # old /\ UNCHANGED m /\ Goto(t, no)
                                 /\ UNCHANGED asleep

acquire_cmpxchg(t) == /\ pc[t] = "idle"
                      /\ Cmpxchg(t, 0, 1, "cs", IF kind = "slim" THEN "xchg" ELSE "mark")

\* mutation: a thread that was asleep takes the lock as if nobody else were
acquire_xchg_one(t) == /\ Awake(t)
                       /\ \/ m = 0 /\ m' = 1 /\ Step(t, "xchg", "cs")
                          \/ m # 0 /\ m' = 2 /\ Step(t, "xchg", "wait")
                       /\ UNCHANGED asleep

acquire_xchg(t) == /\ Awake(t)
                   /\ \/ m = 0 /\ Step(t, "xchg", "cs")
                      \/ m # 0 /\ Step(t, "xchg", "wait")
                   /\ m' = 2
                   /\ UNCHANGED asleep

acquire_mark(t) == pc[t] = "mark" /\ Cmpxchg(t, 1, 2, "wait", "wait")

acquire_wait(t) == /\ pc[t] = "wait"
                   /\ vfutex_wait(t, "m", m, 2, IF kind = "slim" THEN "xchg" ELSE "retry")
                   /\ UNCHANGED m

\* mutation: takes the lock as if nobody else were asleep
acquire_retry_one(t) == /\ pc[t] = "retry" /\ Awake(t)
                        /\ Cmpxchg(t, 0, 1, "cs", "mark")

acquire_retry(t) == /\ pc[t] = "retry" /\ Awake(t)
                    /\ Cmpxchg(t, 0, 2, "cs", "mark")

\* slim
release_xchg(t) == /\ kind = "slim"
                   /\ \/ m = 1 /\ Step(t, "cs", "idle")
                      \/ m # 1 /\ Step(t, "cs", "wake")
                   /\ m' = 0
                   /\ UNCHANGED asleep

\* tristate
release_cmpxchg(t) == kind = "tristate" /\ pc[t] = "cs" /\ Cmpxchg(t, 1, 0, "idle", "clear")

release_write(t) == Step(t, "clear", "wake") /\ m' = 0 /\ UNCHANGED asleep

release_wake(t) == /\ Step(t, "wake", "idle")
                   /\ vfutex_wake("m", 1)
                   /\ UNCHANGED m

Progress(t) == \/ acquire_xchg(t) \/ acquire_mark(t) \/ acquire_wait(t) \/ acquire_retry(t)
               \/ release_xchg(t) \/ release_cmpxchg(t) \/ release_write(t) \/ release_wake(t)

Next == /\ \E t \in Thread : \/ acquire_cmpxchg(t) \/ Progress(t)
                             \/ SpuriousWakeup(t) /\ UNCHANGED <<pc, m>>
        /\ UNCHANGED kind

Spec == /\ Init /\ [][Next]_mutex_vars
        /\ \A t \in Thread : WF_mutex_vars(Progress(t) /\ UNCHANGED kind)

-----------------------------------------------------------------------------
\* While a thread is asleep the word says so, or somebody is on the way who will
\* wake it or look at the word again.
NoLostWakeup ==
    asleep["m"] # {} =>
       \/ m = 2
       \/ \E t \in Thread :
             \/ pc[t] = "wake"
             \/ At(t, {"xchg", "retry"}) /\ Awake(t)
             \/ kind = "tristate" /\ At(t, {"clear", "mark", "wait"})

Abstract == [t \in Thread |-> IF At(t, {"idle", "wake"}) THEN "out"
                              ELSE IF At(t, {"cs", "clear"}) THEN "in" ELSE "wait"]

Mutual == INSTANCE Mutex WITH st <- Abstract

-----------------------------------------------------------------------------
\* The word is 0 exactly while nobody has the mutex, which is one thread at most.
WordInv == /\ m = 0 <=> \A t \in Thread : ~At(t, {"cs", "clear"})
           /\ \A t, v \in Thread : At(t, {"cs", "clear"}) /\ At(v, {"cs", "clear"}) => t = v

\* Who is asleep looks at the word on waking up, and each mutex has its own steps.
SleepInv == /\ \A t \in asleep["m"] : At(t, {"xchg", "retry"})
            /\ \A t \in Thread : At(t, {"mark", "retry", "clear"}) => kind = "tristate"

MutexInv == TypeOK /\ WordInv /\ SleepInv
=============================================================================
