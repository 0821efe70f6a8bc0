--------------------------- MODULE RecursiveLock ---------------------------
(***************************************************************************)
(* include/vsync/utils/recursive_lock.h, the macros that make a recursive  *)
(* lock (rec_ticketlock, rec_mcslock, rec_spinlock, rec_seqlock) out of a  *)
(* plain one.  The plain lock is any implementation of module Mutex.       *)
(***************************************************************************)
EXTENDS Control, Naturals

CONSTANTS MaxDepth,     \* how deep the clients nest
          NoCPU         \* RECURSIVE_LOCK_NOCPU

VARIABLES st,           \* the state of the plain lock
          owner, count,
          depth         \* ghost: depth[t]: t's acquires minus its releases

vars == <<pc, st, owner, count, depth>>

Lock == INSTANCE Mutex

TypeOK == /\ pc \in [Thread -> {"client", "lock", "try", "own", "unown", "unlock"}]
          /\ st \in [Thread -> {"out", "wait", "in"}]
          /\ owner \in Thread \cup {NoCPU}
          /\ count \in 0 .. MaxDepth - 1
          /\ depth \in [Thread -> 0 .. MaxDepth]

Init == /\ pc = [t \in Thread |-> "client"]
        /\ Lock!Init
        /\ owner = NoCPU
        /\ count = 0
        /\ depth = [t \in Thread |-> 0]

\* the owner only counts
Reenter(t) == /\ owner = t
              /\ count' = count + 1
              /\ depth' = [depth EXCEPT ![t] = @ + 1]
              /\ UNCHANGED <<pc, st, owner>>

\* name##_acquire: read owner; the owner counts, anybody else calls lock_acquire
acquire_read(t) ==
    /\ pc[t] = "client" /\ depth[t] < MaxDepth
    /\ \/ Reenter(t)
       \/ /\ owner # t
          /\ Goto(t, "lock")
          /\ Lock!Request(t)
          /\ UNCHANGED <<owner, count, depth>>

lock_acquire(t) == /\ Step(t, "lock", "own")
                   /\ Lock!Enter(t)
                   /\ UNCHANGED <<owner, count, depth>>

\* name##_tryacquire: somebody else's lock is not tried; the try may fail
tryacquire_read(t) ==
    /\ pc[t] = "client" /\ depth[t] < MaxDepth
    /\ \/ Reenter(t)
       \/ /\ owner = NoCPU
          /\ Goto(t, "try")
          /\ UNCHANGED <<st, owner, count, depth>>

lock_tryacquire(t) == /\ \/ Step(t, "try", "own") /\ Lock!TryEnter(t)
                         \/ Step(t, "try", "client") /\ UNCHANGED st
                      /\ UNCHANGED <<owner, count, depth>>

\* the last access of both: write owner
write_owner(t) == /\ Step(t, "own", "client")
                  /\ owner' = t
                  /\ depth' = [depth EXCEPT ![t] = 1]
                  /\ UNCHANGED <<st, count>>

\* name##_release of an inner level
release_count(t) == /\ pc[t] = "client" /\ depth[t] > 0
                    /\ count # 0
                    /\ count' = count - 1
                    /\ depth' = [depth EXCEPT ![t] = @ - 1]
                    /\ UNCHANGED <<pc, st, owner>>

\* mutation: the owner is not reset
release_owner_kept(t) == /\ depth[t] > 0 /\ count = 0
                         /\ Step(t, "client", "unlock")
                         /\ depth' = [depth EXCEPT ![t] = 0]
                         /\ UNCHANGED <<st, owner, count>>

\* name##_release of the outermost level: owner first, then lock_release
release_owner(t) == /\ depth[t] > 0 /\ count = 0
                    /\ Step(t, "client", "unlock")
                    /\ owner' = NoCPU
                    /\ depth' = [depth EXCEPT ![t] = 0]
                    /\ UNCHANGED <<st, count>>

lock_release(t) == /\ Step(t, "unlock", "client")
                   /\ Lock!Leave(t)
                   /\ UNCHANGED <<owner, count, depth>>

Progress(t) == \/ lock_acquire(t) \/ lock_tryacquire(t) \/ write_owner(t)
               \/ release_count(t) \/ release_owner(t) \/ lock_release(t)

Next == \E t \in Thread : acquire_read(t) \/ tryacquire_read(t) \/ Progress(t)

\* The plain lock makes progress, and clients leave every level of nesting in
\* the end.
Spec == /\ Init /\ [][Next]_vars
        /\ \A t \in Thread :
              /\ WF_vars(Progress(t))
              /\ SF_vars(release_owner(t))
              /\ \A d \in 2 .. MaxDepth : SF_vars(depth[t] = d /\ release_count(t))

-----------------------------------------------------------------------------
\* Only one thread has the lock, and the recorded owner and count are its own.
OneOwner ==
    \A t \in Thread : depth[t] > 0 =>
        /\ owner = t /\ count = depth[t] - 1
        /\ \A v \in Thread : v # t => depth[v] = 0

\* The unprotected count is only touched by the holder of the plain lock, and is
\* zero whenever the lock changes hands.
CountRaceFree ==
    \A t \in Thread : (owner = t => st[t] = "in") /\ (st[t] = "in" /\ owner # t => count = 0)

\* A thread that has the lock never calls lock_acquire, which would block it
\* for ever.
NoSelfDeadlock ==
    \A t \in Thread : pc[t] = "lock" => depth[t] = 0 /\ st[t] = "wait"

Abstract == [t \in Thread |-> IF depth[t] > 0 THEN "in"
                              ELSE IF At(t, {"lock", "own"}) THEN "wait" ELSE "out"]

Mutual == INSTANCE Mutex WITH st <- Abstract

-----------------------------------------------------------------------------
\* The plain lock is held by the thread that has, is about to have or is giving up the
\* recursive one; whoever has it is the owner, and the count is its own.
RecInv ==
    /\ TypeOK
    /\ \A t \in Thread : /\ pc[t] = "lock" <=> st[t] = "wait"
                         /\ st[t] = "in" <=> pc[t] \in {"own", "unlock"} \/ depth[t] > 0
                         /\ owner = t <=> depth[t] > 0
                         /\ depth[t] > 0 => pc[t] = "client" /\ count = depth[t] - 1
    /\ owner = NoCPU => count = 0
    /\ \A t, u \in Thread : st[t] = "in" /\ st[u] = "in" => t = u
=============================================================================
