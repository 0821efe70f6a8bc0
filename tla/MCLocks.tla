------------------------------ MODULE MCLocks ------------------------------
(***************************************************************************)
(* The locks and the other synchronisation objects of the library, the way *)
(* its tests build one client for every lock.  Initially one of them is    *)
(* chosen, for good.  Five modules hold families of them; each of the      *)
(* other locks (`algo`) has the words w1, w2, ... as its variables.        *)
(* Whatever the chosen object does not need stays 0.                       *)
(*                                                                         *)
(* Spec has the first-come-first-served locks and the objects that are not *)
(* plain locks; MutexSpec the other locks, whose clients may hold several. *)
(***************************************************************************)
EXTENDS CounterLocks, QueueLocks, WordLocks, SharedLocks, ThreadSync

CONSTANTS t1, t2, t3, left, right, root, One

VARIABLES algo, w1, w2, w3, w4, w5, w6, w7, w8

counter_own == <<counter, twa_vars, array_vars>>
word_own == <<spin, lock, hem_only, rec_only>>
queue_own == <<queue, tail, pred, locked, next, succ, qnode>>
shared_own == <<shared, sem, old, sem_only, wb>>
seq_own == <<seq, seqcount, x, y, c, sv, rx, ry, since>>
sync_own == <<sync, m, asleep, musl_only, once_only, cond_only>>
words == <<algo, w1, w2, w3, w4, w5, w6, w7, w8>>

vars == <<pc, counter_own, queue_own, word_own, shared_own, seq_own, sync_own, words>>

\* A running thread changes its label, the semaphore's counter, the stage of a client of
\* vcond, the depth of a recursive lock or the node cnalock's scan is at (w4), so fairness
\* on these is fairness on vars.
moving == <<pc, sem, stage, depth, w4>>

NoCounter == /\ counter = "none"
             /\ ticket = 0 /\ grant = 0 /\ array = 0 /\ tx = 0 /\ seen = 0 /\ knext = 0
             /\ last = 0 /\ flags = 0 /\ slot = 0
NoQueue == /\ queue = "none"
           /\ tail = 0 /\ pred = 0 /\ locked = 0 /\ next = 0 /\ succ = 0 /\ qnode = 0
NoWord == spin = "none" /\ lock = 0 /\ HemZero /\ RecZero
NoShared == /\ shared = "none"
            /\ sem = 0 /\ old = 0 /\ want = 0 /\ hold = 0 /\ wb = 0
NoSeq == /\ seq = "none" /\ seqcount = 0 /\ x = 0 /\ y = 0 /\ c = 0
         /\ sv = 0 /\ rx = 0 /\ ry = 0 /\ since = 0
NoSync == /\ sync = "none" /\ m = 0 /\ asleep = 0
          /\ MuslZero /\ OnceZero /\ CondZero

Zero6 == w6 = 0 /\ w7 = 0 /\ w8 = 0
Rest6 == <<algo, w6, w7, w8>>

NoWords == algo = "none" /\ w1 = 0 /\ w2 = 0 /\ w3 = 0 /\ w4 = 0 /\ w5 = 0 /\ Zero6

Init == \/ CounterInit /\ NoQueue /\ NoWord /\ NoShared /\ NoSeq /\ NoSync /\ NoWords
        \/ QueueInit /\ NoCounter /\ NoWord /\ NoShared /\ NoSeq /\ NoSync /\ NoWords
        \/ SharedInit /\ NoCounter /\ NoQueue /\ NoWord /\ NoSeq /\ NoSync /\ NoWords
        \/ SeqInit /\ NoCounter /\ NoQueue /\ NoWord /\ NoShared /\ NoSync /\ NoWords
        \/ /\ SyncInit /\ sync \in {"cond", "once"}
           /\ NoCounter /\ NoQueue /\ NoWord /\ NoShared /\ NoSeq /\ NoWords

Finished == \/ sync = "cond" /\ Cond!Done
            \/ sync = "once" /\ AllReturned

Next ==
    \/ CounterNext /\ UNCHANGED <<queue_own, word_own, shared_own, seq_own, sync_own, words>>
    \/ QueueNext /\ UNCHANGED <<counter_own, word_own, shared_own, seq_own, sync_own, words>>
    \/ SharedNext /\ UNCHANGED <<counter_own, queue_own, word_own, seq_own, sync_own, words>>
    \/ /\ seq # "none" /\ SeqNext
       /\ UNCHANGED <<counter_own, queue_own, word_own, shared_own, sync_own, words>>
    \/ SyncNext /\ UNCHANGED <<counter_own, queue_own, word_own, shared_own, seq_own, words>>
    \/ Finished /\ UNCHANGED vars

\* what the running threads do; they need not start another call
Progress(t) ==
    \/ /\ CounterProgress(t)
       /\ UNCHANGED <<queue_own, word_own, shared_own, seq_own, sync_own, words>>
    \/ /\ QueueProgress(t)
       /\ UNCHANGED <<counter_own, word_own, shared_own, seq_own, sync_own, words>>
    \/ /\ SharedProgress(t)
       /\ UNCHANGED <<counter_own, queue_own, word_own, seq_own, sync_own, words>>
    \/ /\ seq # "none" /\ SeqProgress(t)
       /\ UNCHANGED <<counter_own, queue_own, word_own, shared_own, sync_own, words>>
    \/ /\ SyncProgress(t)
       /\ UNCHANGED <<counter_own, queue_own, word_own, shared_own, seq_own, words>>

Spec == Init /\ [][Next]_vars /\ \A t \in Thread : WF_moving(Progress(t))

-----------------------------------------------------------------------------
Three == {t1, t2, t3}

\* two threads on a NUMA node, one on another; flushed every third time
CNA == INSTANCE CNALock WITH Thread <- Three, Period <- 3,
           Numa <- [t \in Three |-> IF t = t3 THEN right ELSE left],
           tail <- w1, next <- w2, spin <- w3, node <- w4, prev <- w5, succ <- w6,
           value <- w7, cnt <- w8

\* a root and two leaves, two threads at one of them; cohorts of two
HMCS == INSTANCE HMCSLock WITH Thread <- Three, Lock <- {root, left, right},
           Parent <- [n \in {root, left, right} |-> IF n = root THEN Nil ELSE root],
           Leaf <- [t \in Three |-> IF t = t3 THEN right ELSE left],
           Threshold <- [n \in {root, left, right} |-> 2], HMCLOCK_MAX <- 5,
           lock <- w1, next <- w2, status <- w3, at <- w4, v <- w5

NumaInit == \/ algo = "cnalock" /\ CNA!Init
            \/ algo = "hmcslock" /\ HMCS!Init /\ Zero6

NumaNext == \/ algo = "cnalock" /\ CNA!Next /\ UNCHANGED algo
            \/ algo = "hmcslock" /\ HMCS!Next /\ UNCHANGED Rest6

NumaProgress(t) ==
    \/ algo = "cnalock" /\ t \in Three /\ CNA!Progress(t) /\ UNCHANGED algo
    \/ algo = "hmcslock" /\ t \in Three /\ HMCS!Progress(t) /\ UNCHANGED Rest6

no_word == <<counter_own, queue_own, shared_own, seq_own, sync_own, words>>
no_words == <<counter_own, queue_own, word_own, shared_own, seq_own, sync_own>>
no_sync == <<counter_own, queue_own, word_own, shared_own, seq_own, words>>

MutexInit == /\ NoCounter /\ NoQueue /\ NoShared /\ NoSeq
             /\ \/ WordInit /\ NoSync /\ NoWords
                \/ NumaInit /\ NoWord /\ NoSync
                \/ SyncInit /\ sync \in {"slim", "tristate", "musl"} /\ NoWord /\ NoWords

MutexNext == \/ WordNext /\ UNCHANGED no_word
             \/ NumaNext /\ UNCHANGED no_words
             \/ SyncNext /\ UNCHANGED no_sync

MutexProgress(t) == \/ WordProgress(t) /\ UNCHANGED no_word
                    \/ NumaProgress(t) /\ UNCHANGED no_words
                    \/ SyncProgress(t) /\ UNCHANGED no_sync

MutexSpec == /\ MutexInit /\ [][MutexNext]_vars
             /\ \A t \in Thread : WF_moving(MutexProgress(t))
             /\ \A t \in WordThread, i \in HemLocks \cup 1 .. RecDepth :
                   SF_moving(Leave(t, i) /\ UNCHANGED no_word)

-----------------------------------------------------------------------------
\* The variables of the chosen lock keep their types.
TypeOK == /\ spin \in {"caslock", "ttaslock"} => CASTypeOK
          /\ spin \in HemKinds => Hem!TypeOK
          /\ spin = "recursive_lock" => Rec!TypeOK
          /\ algo = "cnalock" => CNA!TypeOK
          /\ algo = "hmcslock" => HMCS!TypeOK
          /\ sync \in {"slim", "tristate"} => FM!TypeOK
          /\ sync = "musl" => Musl!TypeOK

Asks(t) == \/ (spin \in HemKinds \/ algo = "cnalock") /\ pc[t] = "xchg"
           \/ algo = "hmcslock" /\ pc[t] = "prepare"

Served(t) == \/ spin \in HemKinds /\ pc[t] = "client"
             \/ algo \in {"cnalock", "hmcslock"} /\ pc[t] = "cs"

\* Every thread that asks for a hemlock, a cnalock or an hmcslock gets it, also
\* when the lock prefers the threads of another NUMA node or cohort.
StarvationFree ==
    \A t \in Thread : t \in DOMAIN pc /\ Asks(t) ~> t \in DOMAIN pc /\ Served(t)

Queue == CASE counter = "twalock" -> TWA!Queue
           [] counter = "arraylock" -> Arr!Queue
           [] queue = "clhlock" -> CLH!Queue
           [] queue = "mcslock" -> MCS!Queue
           [] OTHER -> <<>>

InCS == CASE counter = "twalock" -> TWA!InCS
          [] counter = "arraylock" -> Arr!InCS
          [] queue = "clhlock" -> CLH!InCS
          [] queue = "mcslock" -> MCS!InCS
          [] OTHER -> {}

Fifo == INSTANCE FifoLock WITH queue <- Queue, held <- InCS # {}

\* Every fair lock excludes, serves threads in the order in which they took their
\* place (the ticket, the slot, the exchange of tail) and starves nobody.
RefinesFifoLock == Fifo!Spec

Abstract == CASE spin \in {"caslock", "ttaslock"} -> CASAbstract
              [] spin \in HemKinds -> Hem!Abstract
              [] spin = "recursive_lock" -> Rec!Abstract
              [] algo = "cnalock" -> CNA!Abstract
              [] algo = "hmcslock" -> HMCS!Abstract
              [] sync \in {"slim", "tristate"} -> FM!Abstract
              [] sync = "musl" -> Musl!Abstract
              [] OTHER -> [t \in DOMAIN pc |-> "out"]

Mutual == INSTANCE Mutex WITH
              st <- [t \in Thread |-> IF t \in DOMAIN pc THEN Abstract[t] ELSE "out"]

\* Every other lock excludes, and a free lock that is waited for is taken by somebody.
RefinesMutex == Mutual!Spec

SeqWriting == seq # "none" /\ \E t \in Writer : pc[t] # "idle"

SeqReading == seq # "none" /\ \E t \in Reader : pc[t] # "idle"

\* one thread at most is at these labels, from write_acquire_bit to write_release_bit
RWWriterAt(label) == shared = "rwlock" /\ \E t \in SharedThread : pc[t] = label

\* What must happen in the end.  A writer that has announced itself to an rwlock
\* gets in although readers keep coming.  Once the writers of a seqlock or
\* seqcount have stopped, every read is accepted.  With as many items as
\* consumers every vcond_wait returns.  Every vonce_call returns.
CallsReturn ==
    /\ RWWriterAt("w_sem") ~> RWWriterAt("w_cs")
    /\ SeqReading ~> ~SeqReading \/ SeqWriting
    /\ sync \in {"cond", "once"} ~> Finished
=============================================================================
