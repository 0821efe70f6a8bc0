------------------------------- MODULE VCond -------------------------------
(***************************************************************************)
(* include/vsync/thread/cond.h over the mutex of thread/mutex.h, used the  *)
(* way a condition variable is used: consumers wait, with the mutex held,  *)
(* while there is no item; producers add one and signal, before or after   *)
(* they release the mutex.  The value of the condition variable wraps.     *)
(***************************************************************************)
EXTENDS FutexMutex      \* kind is "slim", the default of thread/mutex.h

CONSTANTS Consumer, Wrap,
          MaxSpurious      \* how many wake-ups without a wake there may be

VARIABLES value,        \* vcond_t
          val,          \* val[t]: the value vcond_wait has read
          items,        \* what the consumers wait for
          stage,        \* stage[t]: what t does next, between its mutex calls
          spurious      \* the number of spurious wake-ups so far

cond_vars == <<mutex_vars, value, val, items, stage, spurious>>

CTypeOK == /\ pc \in [Thread -> MutexPc \cup {"futex"}]
           /\ m \in 0 .. 2
           /\ asleep \in [{"m", "c"} -> SUBSET Thread]
           /\ value \in 0 .. Wrap - 1
           /\ val \in [Thread -> 0 .. Wrap - 1]
           /\ items \in 0 .. Cardinality(Thread)
           /\ stage \in [Thread -> {"start", "wait", "signal", "wake", "leave", "done"}]
           /\ spurious \in 0 .. MaxSpurious

\* vcond_init
CInit == /\ pc = [t \in Thread |-> "idle"]
         /\ m = 0
         /\ asleep = [a \in {"m", "c"} |-> {}]
         /\ value = 0
         /\ val = [t \in Thread |-> 0]
         /\ items = 0
         /\ stage = [t \in Thread |-> "start"]
         /\ spurious = 0

SetStage(t, s) == stage' = [stage EXCEPT ![t] = s]

\* The client in the critical section: a consumer with nothing to take calls
\* vcond_wait, which reads the value.
consume(t) == /\ t \in Consumer /\ pc[t] = "cs" /\ stage[t] = "start"
              /\ items > 0
              /\ items' = items - 1
              /\ SetStage(t, "leave")
              /\ UNCHANGED <<mutex_vars, value, val>>

produce(t) == /\ t \notin Consumer /\ pc[t] = "cs" /\ stage[t] = "start"
              /\ items' = items + 1
              /\ SetStage(t, "signal")
              /\ UNCHANGED <<mutex_vars, value, val>>

wait_read(t) == /\ t \in Consumer /\ pc[t] = "cs" /\ stage[t] = "start"
                /\ items = 0
                /\ val' = [val EXCEPT ![t] = value]
                /\ SetStage(t, "wait")
                /\ UNCHANGED <<mutex_vars, value, items>>

\* mutation: the value is read again after the mutex is released
wait_futex_late(t) == /\ pc[t] = "idle" /\ stage[t] = "wait"
                      /\ vfutex_wait(t, "c", value, value, "futex")
                      /\ val' = [val EXCEPT ![t] = 0]
                      /\ UNCHANGED <<m, value, items, stage>>

\* once the mutex is released
wait_futex(t) == /\ pc[t] = "idle" /\ stage[t] = "wait"
                 /\ vfutex_wait(t, "c", value, val[t], "futex")
                 /\ val' = [val EXCEPT ![t] = 0]
                 /\ UNCHANGED <<m, value, items, stage>>

\* vcond_wait acquires the mutex and returns; the client checks again
wait_return(t) == /\ Step(t, "futex", "idle") /\ Awake(t)
                  /\ SetStage(t, "start")
                  /\ UNCHANGED <<m, asleep, value, val, items>>

\* vcond_signal, with the mutex or, when the mutex was released first, without
signal_inc(t) == /\ stage[t] = "signal" /\ At(t, {"cs", "idle"})
                 /\ value' = (value + 1) % Wrap
                 /\ SetStage(t, "wake")
                 /\ UNCHANGED <<mutex_vars, val, items>>

signal_wake(t) == /\ stage[t] = "wake" /\ At(t, {"cs", "idle"})
                  /\ vfutex_wake("c", 1)
                  /\ SetStage(t, IF pc[t] = "cs" THEN "leave" ELSE "done")
                  /\ UNCHANGED <<pc, m, value, val, items>>

\* the mutex calls: a thread acquires it to start and releases it otherwise
MutexCall(t) == /\ \/ stage[t] = "start" /\ acquire_cmpxchg(t)
                   \/ stage[t] \in {"wait", "leave", "signal"} /\ release_xchg(t)
                   \/ acquire_xchg(t) \/ acquire_wait(t) \/ release_wake(t)
                /\ UNCHANGED <<value, val, items, stage>>

finish(t) == /\ pc[t] = "idle" /\ stage[t] = "leave"
             /\ SetStage(t, "done")
             /\ UNCHANGED <<mutex_vars, value, val, items>>

CProgress(t) == \/ consume(t) \/ produce(t) \/ wait_read(t) \/ wait_futex(t)
                \/ wait_return(t) \/ signal_inc(t) \/ signal_wake(t)
                \/ MutexCall(t) \/ finish(t)

Spurious(t) == /\ SpuriousWakeup(t)
               /\ spurious < MaxSpurious
               /\ spurious' = spurious + 1
               /\ UNCHANGED <<pc, m, value, val, items, stage>>

Done == \A t \in Thread : stage[t] = "done"

CNext == \E t \in Thread : (CProgress(t) /\ UNCHANGED spurious) \/ Spurious(t)

CSpec == /\ CInit /\ [][CNext]_cond_vars
         /\ \A t \in Thread : WF_cond_vars(CProgress(t) /\ UNCHANGED spurious)

-----------------------------------------------------------------------------
\* the threads about to announce an item, and the consumers that will look for one
OnTheWay == {t \in Thread : \/ stage[t] \in {"signal", "wake"}
                            \/ t \in Consumer \ asleep["c"] /\ stage[t] \in {"start", "wait"}}

\* A consumer is never asleep on a value that was signalled after it decided to
\* wait, unless the wake-up of that signal is still to come: there are never
\* more items than threads on their way to take or to announce one.
NoMissedSignal == asleep["c"] # {} => items <= Cardinality(OnTheWay)

-----------------------------------------------------------------------------
\* the producers that have added their item, signalled it, and are about to
Produced == {t \in Thread \ Consumer : stage[t] # "start"}
Signalled == {t \in Thread \ Consumer : stage[t] \in {"wake", "leave", "done"}}
Signalling == {t \in Thread : stage[t] = "signal"}

\* Only consumers wait, only producers signal.
RoleInv == /\ \A t \in Thread : stage[t] = "wait" => t \in Consumer
           /\ \A t \in Thread : stage[t] \in {"signal", "wake"} => t \notin Consumer
           /\ \A t \in Thread : pc[t] = "futex" => stage[t] = "wait"
           /\ \A t \in asleep["c"] : pc[t] = "futex"

\* The value counts the signals, which the wrap exceeds; and a consumer that still
\* finds the value it has read will sleep only on items whose signal is to come.
SignalInv == /\ value = Cardinality(Signalled)
             /\ items <= Cardinality(Produced)
             /\ \A t \in Thread : stage[t] = "wait" /\ pc[t] # "futex" =>
                   /\ val[t] <= value
                   /\ val[t] = value => items <= Cardinality(Signalling)

CondInv == CTypeOK /\ RoleInv /\ SignalInv
=============================================================================
