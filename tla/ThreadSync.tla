----------------------------- MODULE ThreadSync -----------------------------
(***************************************************************************)
(* include/vsync/thread: the objects that block in the kernel.  Initially  *)
(* one of them is chosen (`sync`, which never changes): one of the three   *)
(* futex mutexes, the condition variable over the slim one, or vonce_t.    *)
(* They share the word m and the futex; what the chosen one does not need  *)
(* stays 0.                                                                *)
(***************************************************************************)
EXTENDS Futex, FiniteSetTheorems, TLAPS

CONSTANTS SyncThread,     \* the threads that use vonce_t and the musl mutex
          Consumer, Wrap, MaxSpurious

ASSUME SyncParameters == /\ IsFiniteSet(Thread) /\ SyncThread \subseteq Thread
                         /\ Consumer \subseteq Thread
                         /\ Wrap \in Nat /\ Cardinality(Thread \ Consumer) < Wrap
                         /\ MaxSpurious \in Nat

VARIABLES sync, m,
          waiters, word,                           \* musl
          called, ret,                             \* once
          value, val, items, stage, spurious       \* condition variable

musl_only == <<waiters, word>>
once_only == <<called, ret>>
cond_only == <<value, val, items, stage, spurious>>

sync_vars == <<pc, sync, m, asleep, musl_only, once_only, cond_only>>

-----------------------------------------------------------------------------
Cond == INSTANCE VCond WITH kind <- "slim"

\* the condition variable counts with the same Cardinality
LEMMA CondCardinality == \A S : Cond!Cardinality(S) = Cardinality(S)
BY DEF Cardinality, IsFiniteSet, Cond!Cardinality, Cond!IsFiniteSet

\* the sets of threads the proofs count
LEMMA ThreadSets ==
    /\ \A S \in SUBSET Thread : /\ IsFiniteSet(S) /\ Cardinality(S) \in Nat
                                /\ Cardinality(S) <= Cardinality(Thread)
    /\ \A S \in SUBSET Thread, t \in Thread :
          /\ t \notin S => Cardinality(S \cup {t}) = Cardinality(S) + 1
          /\ t \in S => Cardinality(S \ {t}) = Cardinality(S) - 1
    /\ \A S, T \in SUBSET Thread : S \subseteq T => Cardinality(S) <= Cardinality(T)
<1>1. ASSUME NEW S \in SUBSET Thread
      PROVE  IsFiniteSet(S) /\ Cardinality(S) \in Nat /\ Cardinality(S) <= Cardinality(Thread)
  BY SyncParameters, FS_Subset, FS_CardinalityType
<1>2. ASSUME NEW S \in SUBSET Thread, NEW t \in Thread, t \notin S
      PROVE  Cardinality(S \cup {t}) = Cardinality(S) + 1
  BY <1>1, <1>2, FS_AddElement
<1>3. ASSUME NEW S \in SUBSET Thread, NEW t \in Thread, t \in S
      PROVE  Cardinality(S \ {t}) = Cardinality(S) - 1
  BY <1>1, <1>3, FS_RemoveElement
<1>4. ASSUME NEW S \in SUBSET Thread, NEW T \in SUBSET Thread, S \subseteq T
      PROVE  Cardinality(S) <= Cardinality(T)
  BY <1>1, <1>4, FS_Subset
<1>. QED  BY <1>1, <1>2, <1>3, <1>4

\* What the calls of the mutex leave alone.
LEMMA CondMutexFrame ==
    ASSUME Cond!CTypeOK, NEW t \in Thread, Cond!MutexCall(t), UNCHANGED spurious
    PROVE  /\ Cond!CTypeOK'
           /\ asleep'["c"] = asleep["c"]
           /\ \A v \in Thread : pc'[v] = "futex" <=> pc[v] = "futex"
<1>. USE DEF Cond!CTypeOK, Cond!MutexPc, Cond!Step, Cond!Goto, Cond!Cmpxchg
<1>1. CASE Cond!acquire_cmpxchg(t)
  BY <1>1 DEF Cond!acquire_cmpxchg, Cond!MutexCall
<1>2. CASE Cond!release_xchg(t)
  BY <1>2 DEF Cond!release_xchg, Cond!MutexCall
<1>3. CASE Cond!acquire_xchg(t)
  BY <1>3 DEF Cond!acquire_xchg, Cond!MutexCall
<1>4. CASE Cond!acquire_wait(t)
  BY <1>4 DEF Cond!acquire_wait, Cond!vfutex_wait, Cond!MutexCall
<1>5. CASE Cond!release_wake(t)
  BY <1>5 DEF Cond!release_wake, Cond!vfutex_wake, Cond!MutexCall
<1>. QED  BY <1>1, <1>2, <1>3, <1>4, <1>5 DEF Cond!MutexCall

LEMMA CondInvInit == Cond!CInit => Cond!CondInv /\ Cond!NoMissedSignal
<1>. SUFFICES ASSUME Cond!CInit PROVE Cond!CondInv /\ Cond!NoMissedSignal
  OBVIOUS
<1>1. Cond!Signalled = {} /\ Cond!Produced = {}
  BY DEF Cond!CInit, Cond!Signalled, Cond!Produced
<1>2. Cardinality(Cond!Signalled) = 0 /\ Cardinality(Cond!Produced) = 0
  BY <1>1, FS_EmptySet
<1>3. Cardinality(Thread) \in Nat /\ Wrap \in Nat \ {0}
  BY SyncParameters, ThreadSets, FS_CardinalityType
<1>4. Cond!CTypeOK
  BY <1>3, SyncParameters, CondCardinality DEF Cond!CInit, Cond!CTypeOK, Cond!MutexPc
<1>5. Cond!RoleInv /\ Cond!SignalInv
  BY <1>2, <1>4, CondCardinality DEF Cond!CInit, Cond!RoleInv, Cond!SignalInv
<1>6. Cond!NoMissedSignal
  BY DEF Cond!CInit, Cond!NoMissedSignal
<1>. QED  BY <1>4, <1>5, <1>6 DEF Cond!CondInv

\* The counts stay below the wrap.
LEMMA CondCounts ==
    /\ \A S \in {Cond!Produced, Cond!Signalled, Cond!Signalling, Cond!OnTheWay} :
          /\ S \in SUBSET Thread /\ Cardinality(S) \in Nat
          /\ Cond!Cardinality(S) = Cardinality(S)
    /\ Cardinality(Cond!Produced) <= Cardinality(Thread)
    /\ Cardinality(Cond!Signalled) < Wrap
<1>1. /\ Cond!Produced \in SUBSET Thread /\ Cond!Signalled \in SUBSET (Thread \ Consumer)
      /\ Cond!Signalling \in SUBSET Thread /\ Cond!OnTheWay \in SUBSET Thread
  BY DEF Cond!Produced, Cond!Signalled, Cond!Signalling, Cond!OnTheWay
<1>2. Cardinality(Cond!Signalled) <= Cardinality(Thread \ Consumer)
  BY <1>1, ThreadSets
<1>. QED  BY <1>1, <1>2, ThreadSets, CondCardinality, SyncParameters

\* Every step keeps the types and the roles.
LEMMA CondRoleStep ==
    ASSUME Cond!CondInv, [Cond!CNext]_Cond!cond_vars
    PROVE  /\ Cond!RoleInv'
           /\ Cond!SignalInv' => Cond!CTypeOK'
<1>. DEFINE Goal == Cond!RoleInv' /\ (Cond!SignalInv' => Cond!CTypeOK')
<1>0. /\ Cond!SignalInv' => value' \in 0 .. Wrap - 1
      /\ Cond!SignalInv' /\ items' \in Nat => items' \in 0 .. Cond!Cardinality(Thread)
  <2>1. /\ Cardinality(Cond!Signalled') \in Nat
        /\ Cardinality(Cond!Signalled') < Wrap
        /\ Cardinality(Cond!Produced') <= Cardinality(Thread)
        /\ Cardinality(Cond!Produced') \in Nat
    <3>1. /\ Cond!Produced' \in SUBSET Thread
          /\ Cond!Signalled' \in SUBSET (Thread \ Consumer)
      BY DEF Cond!Produced, Cond!Signalled
    <3>2. Cardinality(Cond!Signalled') <= Cardinality(Thread \ Consumer)
      BY <3>1, ThreadSets
    <3>. QED  BY <3>1, <3>2, ThreadSets, SyncParameters
  <2>2. Cardinality(Thread) \in Nat
    BY ThreadSets
  <2>. QED
    BY <2>1, <2>2, CondCardinality, SyncParameters DEF Cond!SignalInv
<1>. USE DEF Cond!CondInv, Cond!CTypeOK, Cond!RoleInv, Cond!SetStage, Cond!Step, Cond!Goto,
             Cond!At, Cond!mutex_vars
<1>1. ASSUME NEW t \in Thread, Cond!consume(t), UNCHANGED spurious PROVE Goal
  BY <1>0, <1>1 DEF Cond!consume
<1>2. ASSUME NEW t \in Thread, Cond!produce(t), UNCHANGED spurious PROVE Goal
  BY <1>0, <1>2 DEF Cond!produce
<1>3. ASSUME NEW t \in Thread, Cond!wait_read(t), UNCHANGED spurious PROVE Goal
  BY <1>0, <1>3 DEF Cond!wait_read
<1>4. ASSUME NEW t \in Thread, Cond!wait_futex(t), UNCHANGED spurious PROVE Goal
  BY <1>0, <1>4, SyncParameters DEF Cond!wait_futex, Cond!vfutex_wait
<1>5. ASSUME NEW t \in Thread, Cond!wait_return(t), UNCHANGED spurious PROVE Goal
  BY <1>0, <1>5 DEF Cond!wait_return, Cond!MutexPc, Cond!Awake
<1>6. ASSUME NEW t \in Thread, Cond!signal_inc(t), UNCHANGED spurious PROVE Goal
  BY <1>0, <1>6 DEF Cond!signal_inc
<1>7. ASSUME NEW t \in Thread, Cond!signal_wake(t), UNCHANGED spurious PROVE Goal
  BY <1>0, <1>7 DEF Cond!signal_wake, Cond!vfutex_wake
<1>8. ASSUME NEW t \in Thread, Cond!MutexCall(t), UNCHANGED spurious PROVE Goal
  BY <1>8, CondMutexFrame DEF Cond!MutexCall
<1>9. ASSUME NEW t \in Thread, Cond!finish(t), UNCHANGED spurious PROVE Goal
  BY <1>0, <1>9 DEF Cond!finish
<1>10. ASSUME NEW t \in Thread, Cond!Spurious(t) PROVE Goal
  BY <1>0, <1>10, SyncParameters DEF Cond!Spurious, Cond!SpuriousWakeup
<1>11. CASE UNCHANGED Cond!cond_vars
  BY <1>11 DEF Cond!cond_vars
<1>. QED
  BY <1>1, <1>2, <1>3, <1>4, <1>5, <1>6, <1>7, <1>8, <1>9, <1>10, <1>11
  DEF Cond!CNext, Cond!CProgress

\* The value counts the signals, and what a consumer knows when it has read the value
\* stays true until a signal changes it.
LEMMA CondSignalStep ==
    ASSUME Cond!CondInv, [Cond!CNext]_Cond!cond_vars
    PROVE  Cond!SignalInv'
<1>. USE DEF Cond!CondInv, Cond!CTypeOK, Cond!RoleInv, Cond!SetStage, Cond!Step, Cond!Goto,
             Cond!At, Cond!mutex_vars
<1>0. value < Wrap /\ Wrap \in Nat
  BY SyncParameters
<1>1. ASSUME NEW t \in Thread, Cond!consume(t), UNCHANGED spurious PROVE Cond!SignalInv'
  <2>1. UNCHANGED <<Cond!Produced, Cond!Signalled, Cond!Signalling>>
    BY <1>1 DEF Cond!consume, Cond!Produced, Cond!Signalled, Cond!Signalling
  <2>. QED  BY <1>1, <2>1, CondCounts DEF Cond!SignalInv, Cond!consume
<1>2. ASSUME NEW t \in Thread, Cond!produce(t), UNCHANGED spurious PROVE Cond!SignalInv'
  <2>1. /\ t \notin Cond!Produced /\ Cond!Produced' = Cond!Produced \cup {t}
        /\ t \notin Cond!Signalling /\ Cond!Signalling' = Cond!Signalling \cup {t}
        /\ Cond!Signalled' = Cond!Signalled
    BY <1>2 DEF Cond!produce, Cond!Produced, Cond!Signalled, Cond!Signalling
  <2>2. /\ Cardinality(Cond!Produced') = Cardinality(Cond!Produced) + 1
        /\ Cardinality(Cond!Signalling') = Cardinality(Cond!Signalling) + 1
    BY <2>1, CondCounts, ThreadSets, Zenon
  <2>. QED
    BY <1>2, <2>1, <2>2, CondCounts, CondCardinality DEF Cond!SignalInv, Cond!produce
<1>3. ASSUME NEW t \in Thread, Cond!wait_read(t), UNCHANGED spurious PROVE Cond!SignalInv'
  <2>1. UNCHANGED <<Cond!Produced, Cond!Signalled, Cond!Signalling>>
    BY <1>3 DEF Cond!wait_read, Cond!Produced, Cond!Signalled, Cond!Signalling
  <2>. QED  BY <1>3, <2>1, CondCounts DEF Cond!SignalInv, Cond!wait_read
<1>4. ASSUME NEW t \in Thread, Cond!wait_futex(t), UNCHANGED spurious PROVE Cond!SignalInv'
  <2>1. UNCHANGED <<Cond!Produced, Cond!Signalled, Cond!Signalling>>
    BY <1>4 DEF Cond!wait_futex, Cond!Produced, Cond!Signalled, Cond!Signalling
  <2>. QED  BY <1>4, <2>1, CondCounts DEF Cond!SignalInv, Cond!wait_futex, Cond!vfutex_wait
<1>5. ASSUME NEW t \in Thread, Cond!wait_return(t), UNCHANGED spurious PROVE Cond!SignalInv'
  <2>1. UNCHANGED <<Cond!Produced, Cond!Signalled, Cond!Signalling>>
    BY <1>5 DEF Cond!wait_return, Cond!Produced, Cond!Signalled, Cond!Signalling
  <2>. QED  BY <1>5, <2>1, CondCounts DEF Cond!SignalInv, Cond!wait_return
<1>6. ASSUME NEW t \in Thread, Cond!signal_inc(t), UNCHANGED spurious PROVE Cond!SignalInv'
  <2>1. /\ t \notin Cond!Signalled /\ Cond!Signalled' = Cond!Signalled \cup {t}
        /\ Cond!Produced' = Cond!Produced
    BY <1>6 DEF Cond!signal_inc, Cond!Produced, Cond!Signalled
  <2>2. Cardinality(Cond!Signalled') = Cardinality(Cond!Signalled) + 1
    BY <2>1, CondCounts, ThreadSets
  <2>3. Cardinality(Cond!Signalled') < Wrap
    <3>1. Cond!Signalled' \in SUBSET (Thread \ Consumer)
      BY DEF Cond!Signalled
    <3>. QED  BY <3>1, ThreadSets, SyncParameters
  <2>4. value' = value + 1
    BY <1>0, <1>6, <2>2, <2>3, CondCounts DEF Cond!signal_inc, Cond!SignalInv
  <2>. QED
    BY <1>6, <2>1, <2>2, <2>4, CondCounts, CondCardinality DEF Cond!SignalInv,
       Cond!signal_inc
<1>7. ASSUME NEW t \in Thread, Cond!signal_wake(t), UNCHANGED spurious PROVE Cond!SignalInv'
  <2>1. UNCHANGED <<Cond!Produced, Cond!Signalled, Cond!Signalling>>
    BY <1>7 DEF Cond!signal_wake, Cond!Produced, Cond!Signalled, Cond!Signalling
  <2>. QED  BY <1>7, <2>1, CondCounts DEF Cond!SignalInv, Cond!signal_wake
<1>8. ASSUME NEW t \in Thread, Cond!MutexCall(t), UNCHANGED spurious PROVE Cond!SignalInv'
  <2>1. UNCHANGED <<Cond!Produced, Cond!Signalled, Cond!Signalling>>
    BY <1>8 DEF Cond!MutexCall, Cond!Produced, Cond!Signalled, Cond!Signalling
  <2>. QED  BY <1>8, <2>1, CondMutexFrame, CondCounts DEF Cond!SignalInv, Cond!MutexCall
<1>9. ASSUME NEW t \in Thread, Cond!finish(t), UNCHANGED spurious PROVE Cond!SignalInv'
  <2>1. UNCHANGED <<Cond!Produced, Cond!Signalled, Cond!Signalling>>
    BY <1>9 DEF Cond!finish, Cond!Produced, Cond!Signalled, Cond!Signalling
  <2>. QED  BY <1>9, <2>1, CondCounts DEF Cond!SignalInv, Cond!finish
<1>10. ASSUME UNCHANGED <<pc, value, val, items, stage>> PROVE Cond!SignalInv'
  <2>1. UNCHANGED <<Cond!Produced, Cond!Signalled, Cond!Signalling>>
    BY <1>10 DEF Cond!Produced, Cond!Signalled, Cond!Signalling
  <2>. QED  BY <1>10, <2>1 DEF Cond!SignalInv
<1>. QED
  BY <1>1, <1>2, <1>3, <1>4, <1>5, <1>6, <1>7, <1>8, <1>9, <1>10
  DEF Cond!CNext, Cond!CProgress, Cond!Spurious, Cond!cond_vars

LEMMA CondInvStep ==
    ASSUME Cond!CondInv, [Cond!CNext]_Cond!cond_vars
    PROVE  Cond!CondInv'
BY CondRoleStep, CondSignalStep DEF Cond!CondInv

\* Who goes to sleep leaves only items that are still to be signalled, and who signals
\* wakes a sleeper in its place.
LEMMA NoMissedSignalStep ==
    ASSUME Cond!CondInv, Cond!NoMissedSignal, [Cond!CNext]_Cond!cond_vars
    PROVE  Cond!NoMissedSignal'
<1>. USE DEF Cond!CondInv, Cond!CTypeOK, Cond!RoleInv, Cond!SetStage, Cond!Step, Cond!Goto,
             Cond!At, Cond!mutex_vars
<1>. DEFINE W == Cond!OnTheWay
<1>0. W \in SUBSET Thread /\ W' \in SUBSET Thread
  BY DEF Cond!OnTheWay
<1>1. ASSUME NEW t \in Thread, Cond!consume(t), UNCHANGED spurious
      PROVE  Cond!NoMissedSignal'
  <2>1. t \in W /\ W' = W \ {t}
    BY <1>1 DEF Cond!consume, Cond!OnTheWay
  <2>2. Cardinality(W') = Cardinality(W) - 1
    BY <1>0, <2>1, ThreadSets
  <2>. QED
    BY <1>0, <1>1, <2>2, ThreadSets, CondCardinality DEF Cond!consume, Cond!NoMissedSignal
<1>2. ASSUME NEW t \in Thread, Cond!produce(t), UNCHANGED spurious
      PROVE  Cond!NoMissedSignal'
  <2>1. t \notin W /\ W' = W \cup {t}
    BY <1>2 DEF Cond!produce, Cond!OnTheWay
  <2>2. Cardinality(W') = Cardinality(W) + 1
    BY <1>0, <2>1, ThreadSets
  <2>. QED
    BY <1>0, <1>2, <2>2, ThreadSets, CondCardinality DEF Cond!produce, Cond!NoMissedSignal
<1>3. ASSUME NEW t \in Thread, Cond!wait_read(t) \/ Cond!signal_inc(t) \/ Cond!finish(t)
      PROVE  Cond!NoMissedSignal'
  <2>1. W' = W /\ UNCHANGED <<items, asleep>>
    BY <1>3 DEF Cond!wait_read, Cond!signal_inc, Cond!finish, Cond!OnTheWay
  <2>. QED  BY <2>1 DEF Cond!NoMissedSignal
<1>4. ASSUME NEW t \in Thread, Cond!wait_futex(t), UNCHANGED spurious
      PROVE  Cond!NoMissedSignal'
  <2>1. CASE value = val[t]
    <3>1. Cond!Signalling \subseteq W'
      BY <1>4 DEF Cond!wait_futex, Cond!Signalling, Cond!OnTheWay
    <3>2. items <= Cardinality(Cond!Signalling)
      BY <1>4, <2>1, CondCardinality DEF Cond!wait_futex, Cond!SignalInv, Cond!MutexPc
    <3>3. /\ Cardinality(Cond!Signalling) <= Cardinality(W')
          /\ Cardinality(W') \in Nat /\ Cardinality(Cond!Signalling) \in Nat
      BY <1>0, <3>1, CondCounts, ThreadSets
    <3>. QED
      BY <1>4, <3>2, <3>3, CondCardinality DEF Cond!wait_futex, Cond!NoMissedSignal
  <2>2. CASE value # val[t]
    <3>1. W' = W /\ UNCHANGED <<items, asleep>>
      BY <1>4, <2>2 DEF Cond!wait_futex, Cond!vfutex_wait, Cond!OnTheWay
    <3>. QED  BY <3>1 DEF Cond!NoMissedSignal
  <2>. QED  BY <2>1, <2>2
<1>5. ASSUME NEW t \in Thread, Cond!wait_return(t), UNCHANGED spurious
      PROVE  Cond!NoMissedSignal'
  <2>1. W' = W /\ UNCHANGED <<items, asleep>>
    BY <1>5 DEF Cond!wait_return, Cond!OnTheWay, Cond!Awake
  <2>. QED  BY <2>1 DEF Cond!NoMissedSignal
<1>6. ASSUME NEW t \in Thread, Cond!signal_wake(t), UNCHANGED spurious
      PROVE  Cond!NoMissedSignal'
  <2>1. PICK S \in SUBSET asleep["c"] :
           /\ Cardinality(S) = 1 \/ (Cardinality(S) < 1 /\ S = asleep["c"])
           /\ asleep' = [asleep EXCEPT !["c"] = @ \ S]
    BY <1>6, CondCardinality, Zenon DEF Cond!signal_wake, Cond!vfutex_wake
  <2>2. CASE S = {}
    <3>1. asleep["c"] = {}
      BY <2>1, <2>2, FS_EmptySet
    <3>. QED  BY <2>1, <3>1 DEF Cond!NoMissedSignal
  <2>3. CASE S # {}
    <3>1. PICK v \in S : v \in Thread
      BY <2>1, <2>3
    <3>2. S \in SUBSET Thread /\ Cardinality(S \ {v}) = Cardinality(S) - 1
      BY <2>1, <3>1, ThreadSets
    <3>3. S \ {v} \in SUBSET Thread /\ Cardinality(S \ {v}) \in Nat
      BY <3>2, ThreadSets
    <3>4. Cardinality(S) = 1
      BY <2>1, <3>2, <3>3, ThreadSets
    <3>5. S \ {v} = {}
      BY <3>2, <3>3, <3>4, ThreadSets, FS_EmptySet, SMTT(40)
    <3>6. /\ t \in W /\ v \notin W /\ t # v
          /\ W' = (W \ {t}) \cup {v}
      BY <1>6, <2>1, <3>1, <3>5 DEF Cond!signal_wake, Cond!OnTheWay
    <3>7. Cardinality(W') = Cardinality(W)
      <4>1. /\ W \ {t} \in SUBSET Thread
            /\ Cardinality(W \ {t}) = Cardinality(W) - 1
        BY <1>0, <3>6, ThreadSets
      <4>2. Cardinality((W \ {t}) \cup {v}) = Cardinality(W \ {t}) + 1
        BY <3>1, <3>6, <4>1, ThreadSets
      <4>. QED  BY <1>0, <3>6, <4>1, <4>2, ThreadSets
    <3>8. asleep["c"] # {} /\ UNCHANGED items
      BY <1>6, <2>1, <2>3 DEF Cond!signal_wake
    <3>. QED  BY <3>7, <3>8, CondCardinality DEF Cond!NoMissedSignal
  <2>. QED  BY <2>2, <2>3
<1>7. ASSUME NEW t \in Thread, Cond!MutexCall(t), UNCHANGED spurious
      PROVE  Cond!NoMissedSignal'
  <2>1. W' = W /\ asleep'["c"] = asleep["c"] /\ UNCHANGED items
    BY <1>7, CondMutexFrame DEF Cond!MutexCall, Cond!OnTheWay
  <2>. QED  BY <2>1 DEF Cond!NoMissedSignal
<1>8. ASSUME NEW t \in Thread, Cond!Spurious(t) PROVE Cond!NoMissedSignal'
  <2>1. W \subseteq W' /\ asleep'["c"] \subseteq asleep["c"] /\ UNCHANGED items
    BY <1>8 DEF Cond!Spurious, Cond!SpuriousWakeup, Cond!OnTheWay
  <2>2. /\ Cardinality(W) <= Cardinality(W')
        /\ Cardinality(W) \in Nat /\ Cardinality(W') \in Nat
    BY <1>0, <2>1, ThreadSets
  <2>. QED  BY <2>1, <2>2, CondCardinality DEF Cond!NoMissedSignal
<1>9. ASSUME UNCHANGED Cond!cond_vars PROVE Cond!NoMissedSignal'
  BY <1>9 DEF Cond!cond_vars, Cond!NoMissedSignal, Cond!OnTheWay
<1>. QED
  BY <1>1, <1>2, <1>3, <1>4, <1>5, <1>6, <1>7, <1>8, <1>9 DEF Cond!CNext, Cond!CProgress

-----------------------------------------------------------------------------
Musl == INSTANCE MuslMutex WITH Thread <- SyncThread, lock <- m, old <- word

LEMMA SyncThreadFinite == IsFiniteSet(SyncThread)
BY SyncParameters, FS_Subset

\* the musl mutex counts with the same Cardinality
LEMMA MuslCardinality == \A S : Musl!Cardinality(S) = Cardinality(S)
BY DEF Cardinality, IsFiniteSet, Musl!Cardinality, Musl!IsFiniteSet

LEMMA MuslInvInit == Musl!Init => Musl!MuslInv /\ Musl!NoLostWakeup
<1>. SUFFICES ASSUME Musl!Init PROVE Musl!MuslInv /\ Musl!NoLostWakeup
  OBVIOUS
<1>1. Musl!Counted = {}
  BY DEF Musl!Init, Musl!Counted, Musl!At
<1>2. waiters = Cardinality(Musl!Counted)
  BY <1>1, FS_EmptySet DEF Musl!Init
<1>3. Cardinality(SyncThread) \in Nat
  BY SyncThreadFinite, FS_CardinalityType
<1>. QED
  BY <1>2, <1>3, MuslCardinality DEF Musl!Init, Musl!MuslInv, Musl!TypeOK, Musl!NoLostWakeup

\* The waiters are counted: each thread enters the count with acquire_inc and leaves it
\* with acquire_dec.
LEMMA MuslCountStep ==
    ASSUME Musl!MuslInv, [Musl!Next]_Musl!vars
    PROVE  /\ waiters' = Cardinality(Musl!Counted')
           /\ waiters' \in 0 .. Cardinality(SyncThread)
<1>. USE DEF Musl!MuslInv, Musl!TypeOK, Musl!Counted, Musl!At, Musl!Step, Musl!Goto
<1>0. /\ IsFiniteSet(Musl!Counted) /\ IsFiniteSet(Musl!Counted')
      /\ Cardinality(Musl!Counted') <= Cardinality(SyncThread)
      /\ Cardinality(Musl!Counted') \in Nat
  <2>1. Musl!Counted \subseteq SyncThread /\ Musl!Counted' \subseteq SyncThread
    OBVIOUS
  <2>. QED  BY <2>1, SyncThreadFinite, FS_Subset, FS_CardinalityType, Zenon
<1>1. waiters = Cardinality(Musl!Counted)
  BY MuslCardinality
<1>2. ASSUME NEW t \in SyncThread, Musl!acquire_inc(t)
      PROVE  waiters' = Cardinality(Musl!Counted')
  <2>1. t \notin Musl!Counted /\ Musl!Counted' = Musl!Counted \cup {t}
    BY <1>2 DEF Musl!acquire_inc
  <2>2. Cardinality(Musl!Counted') = Cardinality(Musl!Counted) + 1
    BY <2>1, <1>0, FS_AddElement, Zenon
  <2>. QED  BY <1>1, <1>2, <2>2 DEF Musl!acquire_inc
<1>3. ASSUME NEW t \in SyncThread, Musl!acquire_dec(t)
      PROVE  waiters' = Cardinality(Musl!Counted')
  <2>1. t \in Musl!Counted /\ Musl!Counted' = Musl!Counted \ {t}
    BY <1>3 DEF Musl!acquire_dec
  <2>2. Cardinality(Musl!Counted') = Cardinality(Musl!Counted) - 1
    BY <2>1, ThreadSets, SyncParameters DEF Musl!Counted
  <2>. QED  BY <1>1, <1>3, <2>2 DEF Musl!acquire_dec
<1>4. ASSUME UNCHANGED waiters, Musl!Counted' = Musl!Counted
      PROVE  waiters' = Cardinality(Musl!Counted')
  BY <1>1, <1>4
<1>5. ASSUME NEW t \in SyncThread,
             \/ Musl!acquire_cmpxchg(t) \/ Musl!acquire_loop(t) \/ Musl!acquire_mark(t)
             \/ Musl!acquire_wait(t) \/ Musl!release_xchg(t) \/ Musl!release_check(t)
             \/ Musl!release_wake(t)
      PROVE  waiters' = Cardinality(Musl!Counted')
  <2>1. UNCHANGED waiters /\ Musl!Counted' = Musl!Counted
    BY <1>5 DEF Musl!acquire_cmpxchg, Musl!acquire_loop, Musl!TryTake, Musl!acquire_mark,
                Musl!acquire_wait, Musl!vfutex_wait, Musl!release_xchg, Musl!release_check,
                Musl!release_wake
  <2>. QED  BY <2>1, <1>4
<1>6. waiters' = Cardinality(Musl!Counted')
  BY <1>2, <1>3, <1>4, <1>5 DEF Musl!Next, Musl!Progress, Musl!vars
<1>. QED  BY <1>0, <1>6

LEMMA MuslInvStep ==
    ASSUME Musl!MuslInv, [Musl!Next]_Musl!vars
    PROVE  Musl!MuslInv'
<1>0. /\ waiters' = Musl!Cardinality(Musl!Counted')
      /\ waiters' \in 0 .. Musl!Cardinality(SyncThread)
  BY MuslCountStep, MuslCardinality
<1>. USE DEF Musl!MuslInv, Musl!TypeOK, Musl!At, Musl!Step, Musl!Goto
<1>1. ASSUME NEW t \in SyncThread, Musl!acquire_cmpxchg(t) \/ Musl!acquire_loop(t)
      PROVE  Musl!MuslInv'
  BY <1>0, <1>1 DEF Musl!acquire_cmpxchg, Musl!acquire_loop, Musl!TryTake
<1>2. ASSUME NEW t \in SyncThread, Musl!acquire_inc(t) PROVE Musl!MuslInv'
  BY <1>0, <1>2 DEF Musl!acquire_inc
<1>3. ASSUME NEW t \in SyncThread, Musl!acquire_mark(t) PROVE Musl!MuslInv'
  BY <1>0, <1>3 DEF Musl!acquire_mark
<1>4. ASSUME NEW t \in SyncThread, Musl!acquire_wait(t) PROVE Musl!MuslInv'
  BY <1>0, <1>4 DEF Musl!acquire_wait, Musl!vfutex_wait
<1>5. ASSUME NEW t \in SyncThread, Musl!acquire_dec(t) PROVE Musl!MuslInv'
  BY <1>0, <1>5 DEF Musl!acquire_dec, Musl!Awake
<1>6. ASSUME NEW t \in SyncThread, Musl!release_xchg(t) \/ Musl!release_check(t)
      PROVE  Musl!MuslInv'
  BY <1>0, <1>6 DEF Musl!release_xchg, Musl!release_check
<1>7. ASSUME NEW t \in SyncThread, Musl!release_wake(t) PROVE Musl!MuslInv'
  BY <1>0, <1>7 DEF Musl!release_wake, Musl!vfutex_wake
<1>8. ASSUME NEW t \in SyncThread, Musl!SpuriousWakeup(t), UNCHANGED <<pc, m, musl_only>>
      PROVE  Musl!MuslInv'
  BY <1>0, <1>8 DEF Musl!SpuriousWakeup, musl_only
<1>9. CASE UNCHANGED Musl!vars
  BY <1>0, <1>9, SMTT(40) DEF Musl!vars
<1>. QED
  BY <1>1, <1>2, <1>3, <1>4, <1>5, <1>6, <1>7, <1>8, <1>9
  DEF Musl!Next, Musl!Progress, musl_only

\* A sleeper has counted itself, so whoever releases the lock goes on to wake one; and the
\* thread it wakes looks at the lock again.
LEMMA MuslWakeupStep ==
    ASSUME Musl!MuslInv, Musl!NoLostWakeup, [Musl!Next]_Musl!vars
    PROVE  Musl!NoLostWakeup'
<1>. DEFINE Watches(t) == \/ Musl!At(t, {"cs", "wake", "cas", "inc", "mark", "wait"})
                          \/ pc[t] = "check" /\ (waiters > 0 \/ word[t] # 1)
                          \/ pc[t] = "dec" /\ Musl!Awake(t)
<1>0. Musl!MuslInv'
  BY MuslInvStep
<1>1. asleep["lock"] # {} => waiters > 0
  <2>. SUFFICES ASSUME NEW s \in asleep["lock"] PROVE waiters > 0
    OBVIOUS
  <2>1. s \in Musl!Counted
    BY DEF Musl!MuslInv, Musl!TypeOK, Musl!Counted, Musl!At
  <2>2. IsFiniteSet(Musl!Counted)
    BY SyncThreadFinite, FS_Subset DEF Musl!Counted
  <2>3. Cardinality(Musl!Counted) # 0
    BY <2>1, <2>2, FS_EmptySet
  <2>. QED  BY <2>2, <2>3, MuslCardinality, FS_CardinalityType DEF Musl!MuslInv
<1>. USE DEF Musl!MuslInv, Musl!TypeOK, Musl!At, Musl!Step, Musl!Goto, Musl!Awake
<1>2. SUFFICES ASSUME asleep'["lock"] # {} PROVE \E v \in SyncThread : Watches(v)'
  BY <1>0 DEF Musl!NoLostWakeup
<1>3. ASSUME NEW t \in SyncThread, Musl!acquire_cmpxchg(t) \/ Musl!acquire_loop(t)
      PROVE  \E v \in SyncThread : Watches(v)'
  BY <1>2, <1>3 DEF Musl!acquire_cmpxchg, Musl!acquire_loop, Musl!TryTake
<1>4. ASSUME NEW t \in SyncThread, Musl!acquire_inc(t) \/ Musl!acquire_mark(t)
      PROVE  \E v \in SyncThread : Watches(v)'
  BY <1>4 DEF Musl!acquire_inc, Musl!acquire_mark
<1>5. ASSUME NEW t \in SyncThread, Musl!acquire_wait(t)
      PROVE  \E v \in SyncThread : Watches(v)'
  BY <1>5 DEF Musl!acquire_wait, Musl!vfutex_wait
<1>6. ASSUME NEW t \in SyncThread, Musl!acquire_dec(t)
      PROVE  \E v \in SyncThread : Watches(v)'
  BY <1>6 DEF Musl!acquire_dec
<1>7. ASSUME NEW t \in SyncThread, Musl!release_xchg(t)
      PROVE  \E v \in SyncThread : Watches(v)'
  BY <1>1, <1>2, <1>7 DEF Musl!release_xchg
<1>8. ASSUME NEW t \in SyncThread, Musl!release_check(t)
      PROVE  \E v \in SyncThread : Watches(v)'
  BY <1>1, <1>2, <1>8 DEF Musl!release_check
<1>9. ASSUME NEW t \in SyncThread, Musl!release_wake(t)
      PROVE  \E v \in SyncThread : Watches(v)'
  <2>1. PICK S \in SUBSET asleep["lock"] :
           /\ Cardinality(S) = 1 \/ (Cardinality(S) < 1 /\ S = asleep["lock"])
           /\ asleep' = [asleep EXCEPT !["lock"] = @ \ S]
    BY <1>9, MuslCardinality, Zenon DEF Musl!release_wake, Musl!vfutex_wake
  <2>2. PICK v \in S : v \in SyncThread /\ pc[v] = "dec"
    BY <1>2, <2>1, FS_EmptySet
  <2>3. Watches(v)'
    BY <1>9, <2>1, <2>2 DEF Musl!release_wake
  <2>. QED  BY <2>2, <2>3
<1>10. ASSUME NEW t \in SyncThread, Musl!SpuriousWakeup(t), UNCHANGED <<pc, m, musl_only>>
       PROVE  \E v \in SyncThread : Watches(v)'
  <2>1. Watches(t)'
    BY <1>10 DEF Musl!SpuriousWakeup
  <2>. QED  BY <2>1
<1>11. CASE UNCHANGED Musl!vars
  BY <1>2, <1>11 DEF Musl!vars, Musl!NoLostWakeup
<1>. QED
  BY <1>3, <1>4, <1>5, <1>6, <1>7, <1>8, <1>9, <1>10, <1>11
  DEF Musl!Next, Musl!Progress, musl_only

\* The musl mutex implements Mutex, progress aside, for any number of threads.
THEOREM MuslMutexRefinesMutex == Musl!Spec => Musl!Mutual!Safety
<1>1. Musl!Init => Musl!Mutual!Init
  BY DEF Musl!Init, Musl!Mutual!Init, Musl!Abstract, Musl!At
<1>2. Musl!MuslInv /\ [Musl!Next]_Musl!vars => [Musl!Mutual!Next]_Musl!Abstract
  <2>. SUFFICES ASSUME Musl!MuslInv, [Musl!Next]_Musl!vars
                PROVE  [Musl!Mutual!Next]_Musl!Abstract
    OBVIOUS
  <2>. USE DEF Musl!MuslInv, Musl!TypeOK, Musl!Step, Musl!Goto, Musl!At, Musl!Abstract
  <2>0. m = 0 => Musl!Mutual!Free
    BY DEF Musl!Mutual!Free
  <2>1. ASSUME NEW t \in SyncThread, Musl!acquire_cmpxchg(t)
        PROVE  Musl!Mutual!TryEnter(t) \/ Musl!Mutual!Request(t)
    BY <2>0, <2>1, Zenon DEF Musl!acquire_cmpxchg, Musl!TryTake, Musl!Mutual!TryEnter,
                             Musl!Mutual!Request
  <2>2. ASSUME NEW t \in SyncThread, Musl!acquire_loop(t)
        PROVE  Musl!Mutual!Enter(t) \/ UNCHANGED Musl!Abstract
    BY <2>0, <2>2, Zenon DEF Musl!acquire_loop, Musl!TryTake, Musl!Mutual!Enter
  <2>3. ASSUME NEW t \in SyncThread,
               \/ Musl!acquire_inc(t) \/ Musl!acquire_mark(t) \/ Musl!acquire_wait(t)
               \/ Musl!acquire_dec(t) \/ Musl!release_check(t) \/ Musl!release_wake(t)
        PROVE  UNCHANGED Musl!Abstract
    BY <2>3 DEF Musl!acquire_inc, Musl!acquire_mark, Musl!acquire_wait, Musl!vfutex_wait,
                Musl!acquire_dec, Musl!release_check, Musl!release_wake
  <2>4. ASSUME NEW t \in SyncThread, Musl!release_xchg(t) PROVE Musl!Mutual!Leave(t)
    BY <2>4, Zenon DEF Musl!release_xchg, Musl!Mutual!Leave
  <2>5. ASSUME UNCHANGED pc PROVE UNCHANGED Musl!Abstract
    BY <2>5
  <2>. QED
    BY <2>1, <2>2, <2>3, <2>4, <2>5 DEF Musl!Next, Musl!Progress, Musl!Mutual!Next,
                                        Musl!vars
<1>3. Musl!MuslInv /\ [Musl!Next]_Musl!vars => Musl!MuslInv'
  BY MuslInvStep
<1>. QED  BY <1>1, <1>2, <1>3, MuslInvInit, PTL DEF Musl!Spec, Musl!Mutual!Safety

-----------------------------------------------------------------------------
FM == INSTANCE FutexMutex WITH kind <- sync

\* the futex mutex counts with the same Cardinality
LEMMA FMCardinality == \A S : FM!Cardinality(S) = Cardinality(S)
BY DEF Cardinality, IsFiniteSet, FM!Cardinality, FM!IsFiniteSet

LEMMA MutexInvInit == FM!Init => FM!MutexInv /\ FM!NoLostWakeup
BY DEF FM!Init, FM!MutexInv, FM!TypeOK, FM!MutexPc, FM!WordInv, FM!SleepInv,
       FM!NoLostWakeup, FM!At

\* The word is taken and given back by one thread at a time.
LEMMA MutexInvStep ==
    ASSUME FM!MutexInv, [FM!Next]_FM!mutex_vars
    PROVE  FM!MutexInv'
<1>. USE DEF FM!MutexInv, FM!TypeOK, FM!MutexPc, FM!WordInv, FM!SleepInv, FM!At, FM!Step,
             FM!Goto, FM!Cmpxchg
<1>1. ASSUME NEW t \in Thread, FM!acquire_cmpxchg(t), UNCHANGED sync
      PROVE  FM!MutexInv'
  BY <1>1 DEF FM!acquire_cmpxchg
<1>2. ASSUME NEW t \in Thread, FM!acquire_xchg(t), UNCHANGED sync
      PROVE  FM!MutexInv'
  BY <1>2 DEF FM!acquire_xchg, FM!Awake
<1>3. ASSUME NEW t \in Thread, FM!acquire_mark(t), UNCHANGED sync
      PROVE  FM!MutexInv'
  BY <1>3 DEF FM!acquire_mark
<1>4. ASSUME NEW t \in Thread, FM!acquire_wait(t), UNCHANGED sync
      PROVE  FM!MutexInv'
  BY <1>4 DEF FM!acquire_wait, FM!vfutex_wait
<1>5. ASSUME NEW t \in Thread, FM!acquire_retry(t), UNCHANGED sync
      PROVE  FM!MutexInv'
  BY <1>5 DEF FM!acquire_retry, FM!Awake
<1>6. ASSUME NEW t \in Thread, FM!release_xchg(t) \/ FM!release_cmpxchg(t), UNCHANGED sync
      PROVE  FM!MutexInv'
  BY <1>6 DEF FM!release_xchg, FM!release_cmpxchg
<1>7. ASSUME NEW t \in Thread, FM!release_write(t), UNCHANGED sync
      PROVE  FM!MutexInv'
  BY <1>7 DEF FM!release_write
<1>8. ASSUME NEW t \in Thread, FM!release_wake(t), UNCHANGED sync
      PROVE  FM!MutexInv'
  BY <1>8 DEF FM!release_wake, FM!vfutex_wake
<1>9. ASSUME NEW t \in Thread, FM!SpuriousWakeup(t), UNCHANGED <<pc, m>>, UNCHANGED sync
      PROVE  FM!MutexInv'
  BY <1>9 DEF FM!SpuriousWakeup
<1>10. CASE UNCHANGED FM!mutex_vars
  BY <1>10, SMTT(40) DEF FM!mutex_vars
<1>. QED
  BY <1>1, <1>2, <1>3, <1>4, <1>5, <1>6, <1>7, <1>8, <1>9, <1>10 DEF FM!Next, FM!Progress

\* Each step leaves a sleeper with a word of 2 or with somebody who will look after it:
\* who gives up that role marks the word, or hands the role to a thread it wakes.
LEMMA NoLostWakeupStep ==
    ASSUME FM!MutexInv, FM!NoLostWakeup, [FM!Next]_FM!mutex_vars
    PROVE  FM!NoLostWakeup'
<1>. USE DEF FM!MutexInv, FM!TypeOK, FM!SleepInv, FM!At, FM!Awake, FM!NoLostWakeup
<1>1. ASSUME NEW t \in Thread, FM!acquire_cmpxchg(t), UNCHANGED sync
      PROVE  FM!NoLostWakeup'
  BY <1>1 DEF FM!acquire_cmpxchg, FM!Cmpxchg, FM!Goto
<1>2. ASSUME NEW t \in Thread, FM!acquire_xchg(t), UNCHANGED sync
      PROVE  FM!NoLostWakeup'
  BY <1>2 DEF FM!acquire_xchg
<1>3. ASSUME NEW t \in Thread, FM!acquire_mark(t), UNCHANGED sync
      PROVE  FM!NoLostWakeup'
  BY <1>3 DEF FM!acquire_mark, FM!Cmpxchg, FM!Goto
<1>4. ASSUME NEW t \in Thread, FM!acquire_wait(t), UNCHANGED sync
      PROVE  FM!NoLostWakeup'
  BY <1>4 DEF FM!acquire_wait, FM!vfutex_wait, FM!Goto
<1>5. ASSUME NEW t \in Thread, FM!acquire_retry(t), UNCHANGED sync
      PROVE  FM!NoLostWakeup'
  BY <1>5 DEF FM!acquire_retry, FM!Cmpxchg, FM!Goto
<1>6. ASSUME NEW t \in Thread, FM!release_xchg(t) \/ FM!release_cmpxchg(t), UNCHANGED sync
      PROVE  FM!NoLostWakeup'
  BY <1>6 DEF FM!release_xchg, FM!release_cmpxchg, FM!Cmpxchg, FM!Step, FM!Goto
<1>7. ASSUME NEW t \in Thread, FM!release_write(t), UNCHANGED sync
      PROVE  FM!NoLostWakeup'
  BY <1>7 DEF FM!release_write, FM!Step, FM!Goto
<1>8. ASSUME NEW t \in Thread, FM!release_wake(t), UNCHANGED sync
      PROVE  FM!NoLostWakeup'
  <2>1. PICK S \in SUBSET asleep["m"] :
           /\ Cardinality(S) = 1 \/ (Cardinality(S) < 1 /\ S = asleep["m"])
           /\ asleep' = [asleep EXCEPT !["m"] = @ \ S]
    BY <1>8, FMCardinality, Zenon DEF FM!release_wake, FM!vfutex_wake
  <2>2. CASE S = {}
    <3>1. asleep["m"] = {}
      BY <2>1, <2>2, FS_EmptySet
    <3>. QED  BY <2>1, <3>1
  <2>3. CASE S # {}
    <3>1. PICK v \in S : v \in Thread /\ FM!At(v, {"xchg", "retry"})
      BY <2>3
    <3>2. pc'[v] = pc[v] /\ FM!Awake(v)'
      BY <1>8, <2>1, <3>1 DEF FM!release_wake, FM!Step, FM!Goto
    <3>. QED  BY <3>1, <3>2
  <2>. QED  BY <2>2, <2>3
<1>9. ASSUME NEW t \in Thread, FM!SpuriousWakeup(t), UNCHANGED <<pc, m>>, UNCHANGED sync
      PROVE  FM!NoLostWakeup'
  <2>1. FM!At(t, {"xchg", "retry"})' /\ FM!Awake(t)'
    BY <1>9 DEF FM!SpuriousWakeup
  <2>. QED  BY <2>1
<1>10. CASE UNCHANGED FM!mutex_vars
  BY <1>10 DEF FM!mutex_vars
<1>. QED
  BY <1>1, <1>2, <1>3, <1>4, <1>5, <1>6, <1>7, <1>8, <1>9, <1>10, Zenon DEF FM!Next,
     FM!Progress

\* Both futex mutexes implement Mutex, progress aside, for any number of threads: who
\* changes the word from 0 enters an empty critical section, and the word goes back to 0
\* only as the holder leaves it.
THEOREM FutexMutexRefinesMutex ==
    FM!Spec => FM!Mutual!Safety
<1>1. FM!Init => FM!Mutual!Init
  BY DEF FM!Init, FM!Mutual!Init, FM!Abstract, FM!At
<1>2. FM!MutexInv /\ [FM!Next]_FM!mutex_vars => [FM!Mutual!Next]_FM!Abstract
  <2>. SUFFICES ASSUME FM!MutexInv, [FM!Next]_FM!mutex_vars PROVE [FM!Mutual!Next]_FM!Abstract
    OBVIOUS
  <2>. USE DEF FM!MutexInv, FM!TypeOK, FM!MutexPc, FM!Step, FM!Goto, FM!At, FM!Abstract,
               FM!Cmpxchg
  <2>0. m = 0 => FM!Mutual!Free
    BY DEF FM!Mutual!Free, FM!WordInv
  <2>1. ASSUME NEW t \in Thread, FM!acquire_cmpxchg(t), UNCHANGED sync
        PROVE  FM!Mutual!TryEnter(t) \/ FM!Mutual!Request(t)
    BY <2>0, <2>1, Zenon DEF FM!acquire_cmpxchg, FM!Mutual!TryEnter, FM!Mutual!Request
  <2>2. ASSUME NEW t \in Thread, FM!acquire_xchg(t) \/ FM!acquire_retry(t), UNCHANGED sync
        PROVE  FM!Mutual!Enter(t) \/ UNCHANGED FM!Abstract
    BY <2>0, <2>2, Zenon DEF FM!acquire_xchg, FM!acquire_retry, FM!Mutual!Enter
  <2>3. ASSUME NEW t \in Thread, FM!acquire_mark(t) \/ FM!acquire_wait(t), UNCHANGED sync
        PROVE  UNCHANGED FM!Abstract
    BY <2>3 DEF FM!acquire_mark, FM!acquire_wait, FM!vfutex_wait
  <2>4. ASSUME NEW t \in Thread, UNCHANGED sync,
               FM!release_xchg(t) \/ FM!release_cmpxchg(t) \/ FM!release_write(t)
        PROVE  FM!Mutual!Leave(t) \/ UNCHANGED FM!Abstract
    BY <2>4, Zenon DEF FM!release_xchg, FM!release_cmpxchg, FM!release_write,
                       FM!Mutual!Leave
  <2>5. ASSUME NEW t \in Thread, FM!release_wake(t), UNCHANGED sync
        PROVE  UNCHANGED FM!Abstract
    BY <2>5 DEF FM!release_wake
  <2>6. ASSUME UNCHANGED pc PROVE UNCHANGED FM!Abstract
    BY <2>6
  <2>. QED
    BY <2>1, <2>2, <2>3, <2>4, <2>5, <2>6, SMTT(40) DEF FM!Next, FM!Progress,
       FM!Mutual!Next,
                                              FM!mutex_vars
<1>3. FM!MutexInv /\ [FM!Next]_FM!mutex_vars => FM!MutexInv'
  BY MutexInvStep
<1>. QED  BY <1>1, <1>2, <1>3, MutexInvInit, PTL DEF FM!Spec, FM!Mutual!Safety

-----------------------------------------------------------------------------
\* once.h: vonce_call, by every thread.  called are the threads whose callback has run to
\* its end; ret[t]: has t got the result of the callback?
VONCE_ZERO == 0
VONCE_CALL == 1
VONCE_DONE == 2

once_vars == <<pc, m, asleep, called, ret>>

OnceTypeOK == /\ pc \in [SyncThread -> {"idle", "cas", "callback", "write", "wake", "futex",
                                        "read", "returned"}]
              /\ m \in {VONCE_ZERO, VONCE_CALL, VONCE_DONE}
              /\ asleep \in [{"o"} -> SUBSET SyncThread]
              /\ called \in SUBSET SyncThread
              /\ ret \in [SyncThread -> BOOLEAN]

OnceInit == /\ pc = [t \in SyncThread |-> "idle"]
            /\ m = VONCE_ZERO
            /\ asleep = [a \in {"o"} |-> {}]
            /\ called = {}
            /\ ret = [t \in SyncThread |-> FALSE]

\* mutation: an ongoing call counts as done
once_call_read_started(t) == /\ \/ m # VONCE_ZERO /\ Step(t, "idle", "returned")
                                \/ m = VONCE_ZERO /\ Step(t, "idle", "cas")
                             /\ UNCHANGED <<m, asleep, called, ret>>

once_call_read(t) == /\ \/ m = VONCE_DONE /\ Step(t, "idle", "returned")
                        \/ m # VONCE_DONE /\ Step(t, "idle", "cas")
                     /\ UNCHANGED <<m, asleep, called, ret>>

once_call_cmpxchg(t) == /\ \/ m = VONCE_ZERO /\ m' = VONCE_CALL /\ Step(t, "cas", "callback")
                           \/ m = VONCE_CALL /\ UNCHANGED m /\ Step(t, "cas", "futex")
                           \/ m = VONCE_DONE /\ UNCHANGED m /\ Step(t, "cas", "returned")
                        /\ UNCHANGED <<asleep, called, ret>>

once_callback(t) == /\ Step(t, "callback", "write")
                    /\ called' = called \cup {t}
                    /\ ret' = [ret EXCEPT ![t] = TRUE]
                    /\ UNCHANGED <<m, asleep>>

once_call_write(t) == /\ Step(t, "write", "wake")
                      /\ m' = VONCE_DONE
                      /\ UNCHANGED <<asleep, called, ret>>

\* mutation: wakes one of the waiting threads only
once_call_wake_one(t) == /\ Step(t, "wake", "returned")
                         /\ vfutex_wake("o", 1)
                         /\ UNCHANGED <<m, called, ret>>

\* FUTEX_WAKE_ALL
once_call_wake(t) == /\ Step(t, "wake", "returned")
                     /\ vfutex_wake("o", Cardinality(SyncThread))
                     /\ UNCHANGED <<m, called, ret>>

once_call_futex(t) == /\ pc[t] = "futex"
                      /\ vfutex_wait(t, "o", m, VONCE_CALL, "read")
                      /\ UNCHANGED <<m, called, ret>>

once_call_reread(t) == /\ Awake(t)
                       /\ \/ m = VONCE_CALL /\ Step(t, "read", "futex")
                          \/ m # VONCE_CALL /\ Step(t, "read", "returned")
                       /\ UNCHANGED <<m, asleep, called, ret>>

OnceProgress(t) == \/ once_call_read(t) \/ once_call_cmpxchg(t) \/ once_callback(t)
                   \/ once_call_write(t) \/ once_call_wake(t) \/ once_call_futex(t)
                   \/ once_call_reread(t)

AllReturned == \A t \in SyncThread : pc[t] = "returned"

OnceNext == \E t \in SyncThread : \/ OnceProgress(t)
                                  \/ SpuriousWakeup(t) /\ UNCHANGED <<pc, m, called, ret>>

\* The callback runs once, whoever races, and its result goes to the thread that
\* ran it and to no other.
CalledOnce == /\ Cardinality(called \cup {t \in SyncThread : pc[t] = "callback"}) <= 1
              /\ \A t \in SyncThread : ret[t] <=> t \in called

\* vonce_call returns to nobody before the callback is over.
ReturnsAfterCallback == (\E t \in SyncThread : pc[t] = "returned") => called # {}

\* t is the thread that runs the callback, or has run it
Chosen(t) == At(t, {"callback", "write"}) \/ t \in called

\* One thread at most is chosen, none before the word leaves ZERO; the word is CALL until
\* its callback is over, and nobody returns before the word is DONE.
OnceInv == /\ \A t, v \in SyncThread : Chosen(t) /\ Chosen(v) => t = v
           /\ m = VONCE_ZERO =>
                 \A t \in SyncThread : ~Chosen(t) /\ ~At(t, {"futex", "read"})
           /\ m = VONCE_DONE => called # {}
           /\ \A t \in SyncThread : /\ At(t, {"write", "wake"}) => t \in called
                                    /\ At(t, {"callback", "write"}) => m = VONCE_CALL
                                    /\ At(t, {"wake", "returned"}) => m = VONCE_DONE
                                    /\ ret[t] <=> t \in called

LEMMA OnceInvInit == OnceInit => OnceTypeOK /\ OnceInv
BY SMTT(40) DEF OnceInit, OnceTypeOK, OnceInv, Chosen, At, VONCE_ZERO,
       VONCE_CALL, VONCE_DONE

LEMMA OnceInvStep ==
    ASSUME OnceTypeOK, OnceInv, [OnceNext]_once_vars
    PROVE  OnceTypeOK' /\ OnceInv'
<1>. USE DEF OnceTypeOK, OnceInv, Chosen, At, Step, Goto,
             VONCE_ZERO, VONCE_CALL, VONCE_DONE
<1>1. ASSUME NEW t \in SyncThread, once_call_read(t) PROVE OnceTypeOK' /\ OnceInv'
  BY <1>1 DEF once_call_read
<1>2. ASSUME NEW t \in SyncThread, once_call_cmpxchg(t) PROVE OnceTypeOK' /\ OnceInv'
  BY <1>2 DEF once_call_cmpxchg
<1>3. ASSUME NEW t \in SyncThread, once_callback(t) PROVE OnceTypeOK' /\ OnceInv'
  BY <1>3 DEF once_callback
<1>4. ASSUME NEW t \in SyncThread, once_call_write(t) PROVE OnceTypeOK' /\ OnceInv'
  BY <1>4 DEF once_call_write
<1>5. ASSUME NEW t \in SyncThread, once_call_wake(t) PROVE OnceTypeOK' /\ OnceInv'
  BY <1>5 DEF once_call_wake, vfutex_wake
<1>6. ASSUME NEW t \in SyncThread, once_call_futex(t) PROVE OnceTypeOK' /\ OnceInv'
  BY <1>6 DEF once_call_futex, vfutex_wait
<1>7. ASSUME NEW t \in SyncThread, once_call_reread(t) PROVE OnceTypeOK' /\ OnceInv'
  BY <1>7 DEF once_call_reread
<1>8. ASSUME NEW t \in SyncThread, SpuriousWakeup(t), UNCHANGED <<pc, m, called, ret>>
      PROVE  OnceTypeOK' /\ OnceInv'
  BY <1>8 DEF SpuriousWakeup
<1>9. CASE UNCHANGED once_vars
  BY <1>9 DEF once_vars
<1>. QED
  BY <1>1, <1>2, <1>3, <1>4, <1>5, <1>6, <1>7, <1>8, <1>9, Zenon DEF OnceNext,
     OnceProgress

LEMMA OnceInvImplies ==
    OnceTypeOK /\ OnceInv => CalledOnce /\ ReturnsAfterCallback
<1>. SUFFICES ASSUME OnceTypeOK, OnceInv PROVE CalledOnce /\ ReturnsAfterCallback
  OBVIOUS
<1>. DEFINE C == called \cup {t \in SyncThread : pc[t] = "callback"}
<1>1. Cardinality(C) <= 1
  <2>1. CASE C = {}
    BY <2>1, FS_EmptySet
  <2>2. CASE C # {}
    <3>1. PICK t \in C : TRUE
      BY <2>2
    <3>2. C = {t}
      BY <3>1 DEF OnceTypeOK, OnceInv, Chosen, At
    <3>3. Cardinality({t}) = 1
      BY FS_Singleton, Zenon
    <3>. QED  BY <3>2, <3>3
  <2>. QED  BY <2>1, <2>2
<1>2. (\A t \in SyncThread : ret[t] <=> t \in called) /\ ReturnsAfterCallback
  BY DEF OnceInv, At, ReturnsAfterCallback
<1>. QED  BY <1>1, <1>2 DEF CalledOnce

-----------------------------------------------------------------------------
MuslZero == waiters = 0 /\ word = 0
OnceZero == called = 0 /\ ret = 0
CondZero == value = 0 /\ val = 0 /\ items = 0 /\ stage = 0 /\ spurious = 0

SyncInit == \/ FM!Init /\ MuslZero /\ OnceZero /\ CondZero
            \/ sync = "musl" /\ Musl!Init /\ OnceZero /\ CondZero
            \/ sync = "once" /\ OnceInit /\ MuslZero /\ CondZero
            \/ sync = "cond" /\ Cond!CInit /\ MuslZero /\ OnceZero

SyncNext ==
    \/ /\ sync \in {"slim", "tristate"} /\ FM!Next
       /\ UNCHANGED <<musl_only, once_only, cond_only>>
    \/ sync = "musl" /\ Musl!Next /\ UNCHANGED <<sync, once_only, cond_only>>
    \/ sync = "once" /\ OnceNext /\ UNCHANGED <<sync, musl_only, cond_only>>
    \/ sync = "cond" /\ Cond!CNext /\ UNCHANGED <<sync, musl_only, once_only>>

SyncProgress(t) ==
    \/ /\ sync \in {"slim", "tristate"} /\ FM!Progress(t)
       /\ UNCHANGED <<sync, musl_only, once_only, cond_only>>
    \/ /\ sync = "musl" /\ t \in SyncThread /\ Musl!Progress(t)
       /\ UNCHANGED <<sync, once_only, cond_only>>
    \/ /\ sync = "once" /\ t \in SyncThread /\ OnceProgress(t)
       /\ UNCHANGED <<sync, musl_only, cond_only>>
    \/ /\ sync = "cond" /\ Cond!CProgress(t)
       /\ UNCHANGED <<sync, spurious, musl_only, once_only>>

SyncSpec == /\ SyncInit /\ [][SyncNext]_sync_vars
            /\ \A t \in Thread : WF_sync_vars(SyncProgress(t))

-----------------------------------------------------------------------------
\* The futex mutexes lose no wake-up: while a thread is asleep, the word says so
\* or somebody is on the way who will wake it or look at the word again.
NoLostWakeup == /\ sync \in {"slim", "tristate"} => FM!NoLostWakeup
                /\ sync = "musl" => Musl!NoLostWakeup

\* A consumer is never asleep on a signal given after it decided to wait.
NoMissedSignal == sync = "cond" => Cond!NoMissedSignal

\* The callback of vonce_call runs once, its result goes to the thread that ran
\* it, and vonce_call returns to nobody before the callback is over.
OnceOnly == sync = "once" => CalledOnce /\ ReturnsAfterCallback

-----------------------------------------------------------------------------
\* The chosen object keeps its invariant.
SyncInv == /\ sync \in {"slim", "tristate", "musl", "once", "cond"}
           /\ sync \in {"slim", "tristate"} => FM!MutexInv /\ FM!NoLostWakeup
           /\ sync = "musl" => Musl!MuslInv /\ Musl!NoLostWakeup
           /\ sync = "once" => OnceTypeOK /\ OnceInv
           /\ sync = "cond" => Cond!CondInv /\ Cond!NoMissedSignal

LEMMA SyncInvInit == SyncInit => SyncInv
<1>1. FM!Init => sync \in {"slim", "tristate"}
  BY DEF FM!Init
<1>. QED
  BY <1>1, MutexInvInit, MuslInvInit, OnceInvInit, CondInvInit DEF SyncInit, SyncInv

LEMMA SyncInvStep == SyncInv /\ [SyncNext]_sync_vars => SyncInv'
<1>. SUFFICES ASSUME SyncInv, [SyncNext]_sync_vars PROVE SyncInv'
  OBVIOUS
<1>1. CASE sync \in {"slim", "tristate"} /\ FM!Next
  <2>1. UNCHANGED sync
    BY <1>1 DEF FM!Next
  <2>. QED  BY <1>1, <2>1, MutexInvStep, NoLostWakeupStep, SMTT(40) DEF SyncInv
<1>2. CASE sync = "musl" /\ Musl!Next /\ UNCHANGED sync
  BY <1>2, MuslInvStep, MuslWakeupStep, SMTT(40) DEF SyncInv
<1>3. CASE sync = "once" /\ OnceNext /\ UNCHANGED sync
  BY <1>3, OnceInvStep DEF SyncInv
<1>4. CASE sync = "cond" /\ Cond!CNext /\ UNCHANGED sync
  BY <1>4, CondInvStep, NoMissedSignalStep, SMTT(40) DEF SyncInv
<1>5. CASE UNCHANGED sync_vars
  <2>1. /\ UNCHANGED sync /\ UNCHANGED FM!mutex_vars /\ UNCHANGED Musl!vars
        /\ UNCHANGED once_vars /\ UNCHANGED Cond!cond_vars
    BY <1>5 DEF sync_vars, musl_only, once_only, cond_only, FM!mutex_vars, Musl!vars,
                once_vars, Cond!cond_vars, Cond!mutex_vars
  <2>2. CASE sync \in {"slim", "tristate"}
    BY <2>1, <2>2, MutexInvStep, NoLostWakeupStep, SMTT(40) DEF SyncInv
  <2>3. CASE sync = "musl"
    BY <2>1, <2>3, MuslInvStep, MuslWakeupStep DEF SyncInv
  <2>4. CASE sync = "once"
    BY <2>1, <2>4, OnceInvStep DEF SyncInv
  <2>5. CASE sync = "cond"
    BY <2>1, <2>5, CondInvStep, NoMissedSignalStep DEF SyncInv
  <2>. QED  BY <2>2, <2>3, <2>4, <2>5, SMTT(40) DEF SyncInv
<1>. QED  BY <1>1, <1>2, <1>3, <1>4, <1>5 DEF SyncNext

\* No wake-up of a futex mutex is lost, with any number of threads and whatever spurious
\* wake-ups there are.  slim and tristate: a thread asleep on the word has a word of 2, which
\* makes the next release wake one thread, or somebody is already on the way.  musl: every
\* sleeper is counted, and whoever releases the lock looks at the count.
THEOREM ThreadSyncNoLostWakeup == SyncSpec => []NoLostWakeup
<1>1. SyncInv => NoLostWakeup
  BY DEF SyncInv, NoLostWakeup
<1>. QED  BY <1>1, SyncInvInit, SyncInvStep, PTL DEF SyncSpec

\* No signal of a condition variable is missed, with any number of consumers and producers,
\* as long as its value does not wrap within one wait: while a consumer is asleep there is
\* for every item a thread on its way to announce it or to look for it.
THEOREM ThreadSyncNoMissedSignal == SyncSpec => []NoMissedSignal
<1>1. SyncInv => NoMissedSignal
  BY DEF SyncInv, NoMissedSignal
<1>. QED  BY <1>1, SyncInvInit, SyncInvStep, PTL DEF SyncSpec

\* However many threads race in vonce_call, the callback runs once, its result goes to the
\* thread that ran it, and no call returns before it is over.
THEOREM ThreadSyncOnceOnly == SyncSpec => []OnceOnly
<1>1. SyncInv => OnceOnly
  BY OnceInvImplies DEF SyncInv, OnceOnly
<1>. QED  BY <1>1, SyncInvInit, SyncInvStep, PTL DEF SyncSpec
=============================================================================
