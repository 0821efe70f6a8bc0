---------------------------- MODULE MCStructures ----------------------------
(***************************************************************************)
(* The data structures against the sequential objects they claim to behave *)
(* like, and the reclaimer they rely on.  One of them is chosen initially  *)
(* (`algo`, which never changes).  Its variables are those of EBR or of    *)
(* Exchanger, or the words w1, w2, ...; those that are not needed stay 0,  *)
(* and the exchangers unused.  conf is the monitor of module Control.      *)
(***************************************************************************)
EXTENDS EBR, Exchanger, TLC

CONSTANTS Algos,                \* the structures of this run
          t1, t2, t3,           \* interchangeable threads
          own, prod, cons, aux, \* threads with a role: owner, producer, consumer, ...
          i1, i2, i3, i4,       \* values, or nodes; i1, i2 and i3 are interchangeable
          root, branch, left, right,   \* the locks of a tree
          Sentinel

VARIABLES algo, conf, w1, w2, w3, w4, w5, w6, w7, w8, w9, w10

words == <<w1, w2, w3, w4, w5, w6, w7, w8, w9, w10>>
vars == <<algo, conf, words, ebr_vars, xvars>>

T3 == {t1, t2, t3}
T2 == {t1, t2}
N3 == {i1, i2, i3}
R3 == {t1, t2, cons}
R4 == {t1, t2, cons, aux}

-----------------------------------------------------------------------------
\* Queues: the counters of all bounded ones wrap.
SPSC == INSTANCE BoundedRing WITH Kind <- "spsc", Thread <- {prod, cons}, Producer <- prod,
           Consumer <- cons, Val <- {i1, i2}, Size <- 3, Wrap <- 9, Null <- Nil, buf <- w1,
           head <- w2, tail <- w3, lock <- w4, v <- w5

MPMC == INSTANCE BoundedMPMC WITH Thread <- T3, Size <- 2, Wrap <- 8, Start <- 6,
           MaxEnq <- 3, Null <- Nil, buf <- w1, phead <- w2, ptail <- w3,
           chead <- w4, ctail <- w5, curr <- w6, v <- w7

MPMC2 == INSTANCE BoundedMPMC WITH Thread <- T2, Size <- 2, Wrap <- 8, Start <- 6,
           MaxEnq <- 4, Null <- Nil, buf <- w1, phead <- w2, ptail <- w3,
           chead <- w4, ctail <- w5, curr <- w6, v <- w7

Locked == INSTANCE BoundedRing WITH Kind <- "locked", Thread <- T3, Producer <- Nil,
           Consumer <- Nil, Val <- {i1, i2}, Size <- 2, Wrap <- 4, Null <- Nil, buf <- w1,
           head <- w2, tail <- w3, lock <- w4, v <- w5

\* an owner and two thieves on two places
Deque == INSTANCE ChaseLev WITH Thread <- {own, t1, t2}, Owner <- own, Val <- {i1, i2},
           Size <- 2, Null <- Nil, MaxPush <- 4, buffer <- w1, top <- w2, bottom <- w3, ltop <- w4,
           lbottom <- w5, obj <- w6

\* Two nodes besides the queue's own, for three threads; for two that also ask for its length
\* and whether it is empty, without a node that comes back; and three nodes that do, as many
\* as are needed for a queue that is never empty while its first node becomes the last.
UB == INSTANCE UnboundedQueueLF WITH Kind <- "lf", Thread <- T3, Observer <- {},
           Node <- {i1, i2}, Freed <- {i1, i2}, MaxStamp <- 0, head <- w1, tail <- w2, next <- w3,
           retired <- w4, qnode <- w5, first <- w6, last <- w7, succ <- w8, count <- w9, data <- w10

UB2 == INSTANCE UnboundedQueueLF WITH Kind <- "lf", Thread <- T2, Observer <- T2,
           Node <- {i1, i2}, Freed <- {}, MaxStamp <- 0, head <- w1, tail <- w2, next <- w3,
           retired <- w4, qnode <- w5, first <- w6, last <- w7, succ <- w8, count <- w9, data <- w10

UB3 == INSTANCE UnboundedQueueLF WITH Kind <- "lf", Thread <- T2, Observer <- T2,
           Node <- N3, Freed <- N3, MaxStamp <- 0, head <- w1, tail <- w2, next <- w3,
           retired <- w4, qnode <- w5, first <- w6, last <- w7, succ <- w8, count <- w9, data <- w10

Recycle == INSTANCE UnboundedQueueLF WITH Kind <- "recycle", Thread <- T2, Observer <- T2,
           Node <- {i1, i2}, Freed <- {i1, i2}, MaxStamp <- 5, head <- w1, tail <- w2, next <- w3,
           retired <- w4, qnode <- w5, first <- w6, last <- w7, succ <- w8, count <- w9, data <- w10

\* queues without SMR: the node a dequeue lets go of is enqueued again
Total == INSTANCE UnboundedQueue WITH Kind <- "total", Thread <- R3, Consumer <- R3,
           Node <- {i1, i2}, Val <- {left, right}, head <- w1, tail <- w2, next <- w3, data <- w4,
           lock <- w5, free <- w6, mine <- w7, ptr <- w8, val <- w9

MPSC == INSTANCE UnboundedQueue WITH Kind <- "mpsc", Thread <- R3, Consumer <- {cons},
           Node <- N3, Val <- {left, right}, head <- w1, tail <- w2, next <- w3, data <- w4,
           lock <- w5, free <- w6, mine <- w7, ptr <- w8, val <- w9

MPSC2 == INSTANCE UnboundedQueue WITH Kind <- "mpsc", Thread <- R3,
           Consumer <- {cons}, Node <- {i1, i2}, Val <- {left},head <- w1, tail <- w2,
           next <- w3, data <- w4, lock <- w5, free <- w6, mine <- w7, ptr <- w8, val <- w9

\* three threads on a heap of four places, and two on one that is a level deeper
Heap3 == INSTANCE PrioHeap WITH Thread <- T3, Prio <- 1 .. 2, Capacity <- 4, next <- w1,
           heap <- w2, lock <- w3, loc <- w4

Heap2 == INSTANCE PrioHeap WITH Thread <- T2, Prio <- 1 .. 2, Capacity <- 8, next <- w1,
           heap <- w2, lock <- w3, loc <- w4

\* Two blocks: of one entry, which are used again, with three producers, with two consumers
\* (five entries, so that ridx may lag behind by more than a round), and with batches; of
\* two entries with batches; and with one producer and one consumer, again and again.
BBQ3 == INSTANCE BBQ WITH Kind <- "mpmc", Thread <- R3, Producer <- R3,
           Consumer <- {cons}, Blocks <- 2, BlockSize <- 1, Space <- 8, Batch <- 1,
           MaxEnq <- 3, Wait <- {FALSE}, Null <- Nil, widx <- w1, ridx <- w2, blk <- w3,
           sent <- w4, loc <- w5

BBQLag == INSTANCE BBQ WITH Kind <- "mpmc", Thread <- {prod, t1, t2}, Producer <- {prod},
           Consumer <- T2, Blocks <- 2, BlockSize <- 1, Space <- 8, Batch <- 1,
           MaxEnq <- 5, Wait <- {FALSE}, Null <- Nil, widx <- w1, ridx <- w2, blk <- w3,
           sent <- w4, loc <- w5

BBQ2 == INSTANCE BBQ WITH Kind <- "mpmc", Thread <- {prod, cons}, Producer <- {prod, cons},
           Consumer <- {cons}, Blocks <- 2, BlockSize <- 1, Space <- 8, Batch <- 2,
           MaxEnq <- 4, Wait <- {FALSE}, Null <- Nil, widx <- w1, ridx <- w2, blk <- w3,
           sent <- w4, loc <- w5

BBQ2Large == INSTANCE BBQ WITH Kind <- "mpmc", Thread <- {prod, cons}, Producer <- {prod, cons},
           Consumer <- {cons}, Blocks <- 2, BlockSize <- 2, Space <- 8, Batch <- 2,
           MaxEnq <- 4, Wait <- {FALSE}, Null <- Nil, widx <- w1, ridx <- w2, blk <- w3,
           sent <- w4, loc <- w5

BBQ1 == INSTANCE BBQ WITH Kind <- "spsc", Thread <- {prod, cons}, Producer <- {prod},
           Consumer <- {cons}, Blocks <- 2, BlockSize <- 2, Space <- 8, Batch <- 2,
           MaxEnq <- 7, Wait <- BOOLEAN, Null <- Nil, widx <- w1, ridx <- w2, blk <- w3,
           sent <- w4, loc <- w5

-----------------------------------------------------------------------------
\* Stacks: two pushers can only meet in an exchanger when a third node is pushed; two
\* exchangers, so that the policy has a range to shrink, go with two threads.
Elim == INSTANCE EliminationStack WITH Thread <- T3, Item <- N3, Exchangers <- {0}, slot <- w1,
           at <- w2, my_item <- w3, your_item <- w4, top <- w5, next <- w6, node <- w7, old <- w8,
           range <- w9, given <- w10

Elim2 == INSTANCE EliminationStack WITH Thread <- T2, Item <- N3, Exchangers <- {0, 1},
           slot <- w1, at <- w2, my_item <- w3, your_item <- w4, top <- w5, next <- w6, node <- w7,
           old <- w8, range <- w9, given <- w10

Xbo == INSTANCE EliminationStack WITH Thread <- T3, Item <- N3, Exchangers <- {}, slot <- w1,
           at <- w2, my_item <- w3, your_item <- w4, top <- w5, next <- w6, node <- w7, old <- w8,
           range <- w9, given <- w10

QK == INSTANCE Quack WITH Thread <- T3, Node <- N3, head <- w1, next <- w2, node <- w3,
           seen <- w4, prev <- w5

-----------------------------------------------------------------------------
\* Sets of two keys with a node per key, or of one that is added again while three threads
\* work on its nodes; locks are handed over along three keys
Coarse == INSTANCE ListSetLocked WITH Kind <- "coarse", Thread <- T2, Key <- 1 .. 2,
           Copies <- 1, next <- w1, marked <- w2, lock <- w3, home <- w4, loc <- w5

Fine == INSTANCE ListSetLocked WITH Kind <- "fine", Thread <- T2, Key <- 1 .. 3,
           Copies <- 1, next <- w1, marked <- w2, lock <- w3, home <- w4, loc <- w5

Opt == INSTANCE ListSetLocked WITH Kind <- "opt", Thread <- T2, Key <- 1 .. 2,
           Copies <- 1, next <- w1, marked <- w2, lock <- w3, home <- w4, loc <- w5

Lazy == INSTANCE ListSetLocked WITH Kind <- "lazy", Thread <- T2, Key <- 1 .. 2,
           Copies <- 1, next <- w1, marked <- w2, lock <- w3, home <- w4, loc <- w5

Lazy3 == INSTANCE ListSetLocked WITH Kind <- "lazy", Thread <- T3, Key <- 1 .. 1,
           Copies <- 2, next <- w1, marked <- w2, lock <- w3, home <- w4, loc <- w5

LF == INSTANCE ListSetLF WITH Thread <- T3, Key <- 1 .. 1, Copies <- 2, Lenient <- TRUE,
           next <- w1, retired <- w2, op <- w3, key <- w4, node <- w5, pred <- w6,
           curr <- w7, succ <- w8

LF2 == INSTANCE ListSetLF WITH Thread <- T2, Key <- 1 .. 2, Copies <- 1, Lenient <- TRUE,
           next <- w1, retired <- w2, op <- w3, key <- w4, node <- w5, pred <- w6,
           curr <- w7, succ <- w8

\* two keys, on one level or two; one key that is added again; and one on up to three levels
Skip == INSTANCE SkipList WITH Thread <- T2, Key <- 1 .. 2, Copies <- 1, Height <- 1 .. 2,
           next <- w1, height <- w2, non_snipped <- w3, retired <- w4, loc <- w5

Skip2 == INSTANCE SkipList WITH Thread <- T2, Key <- 1 .. 1, Copies <- 2, Height <- 1 .. 2,
           next <- w1, height <- w2, non_snipped <- w3, retired <- w4, loc <- w5

Skip3 == INSTANCE SkipList WITH Thread <- T2, Key <- 1 .. 1, Copies <- 1, Height <- 1 .. 3,
           next <- w1, height <- w2, non_snipped <- w3, retired <- w4, loc <- w5

\* Keys that collide around the end of the table, one slot of which is always empty; and
\* as many keys as slots
HT == INSTANCE SimpleHT WITH Thread <- T2, Key <- 1 .. 3, Val <- {i1, i2}, Null <- Nil,
           Capacity <- 4, Threshold <- 1, Hash <- <<3, 3, 0>>, Resources <- 3, key <- w1,
           value <- w2, deleted_count <- w3, wb <- w4, rs <- w5, free <- w6, held <- w7,
           loc <- w8

HTFull == INSTANCE SimpleHT WITH Thread <- {t1}, Key <- 1 .. 4, Val <- {i1, i2, i3, i4},
           Null <- Nil, Capacity <- 4, Threshold <- 1, Hash <- <<0, 1, 2, 2>>,
           Resources <- 3, key <- w1, value <- w2, deleted_count <- w3, wb <- w4, rs <- w5,
           free <- w6, held <- w7, loc <- w8

\* Search trees: two threads on as many keys as it takes for rotations to meet, and one
\* thread on enough keys for all the cases of the red-black tree
Bst == INSTANCE TreeSet WITH Balanced <- FALSE, OneLock <- FALSE, Thread <- T2,
           Key <- 1 .. 3, node <- w1, lock <- w2, loc <- w3

RB == INSTANCE TreeSet WITH Balanced <- TRUE, OneLock <- FALSE, Thread <- T2,
           Key <- 1 .. 4, node <- w1, lock <- w2, loc <- w3

RB1 == INSTANCE TreeSet WITH Balanced <- TRUE, OneLock <- FALSE, Thread <- {own},
           Key <- 1 .. 6, node <- w1, lock <- w2, loc <- w3

RBCoarse == INSTANCE TreeSet WITH Balanced <- TRUE, OneLock <- TRUE, Thread <- T2,
           Key <- 1 .. 3, node <- w1, lock <- w2, loc <- w3

-----------------------------------------------------------------------------
\* Locks for NUMA machines, in configurations too large for liveness: two threads of
\* three, or of four, are together on a node
HCLH == INSTANCE HCLHLock WITH Thread <- R3, Head <- root, Zero <- left,
           Cluster <- [t \in R3 |-> IF t = cons THEN right ELSE left],
           local <- w1, global <- w2, state <- w3, qnode <- w4, pred <- w5, tail <- w6,
           s <- w7

\* two cluster masters, and their progress
HCLH2 == INSTANCE HCLHLock WITH Thread <- T2, Head <- root, Zero <- left,
           Cluster <- [t \in T2 |-> IF t = t1 THEN right ELSE left],
           local <- w1, global <- w2, state <- w3, qnode <- w4, pred <- w5, tail <- w6,
           s <- w7

CNA == INSTANCE CNALock WITH Thread <- R4, Period <- 3,
           Numa <- [t \in R4 |-> IF t \in T2 THEN left ELSE right],
           One <- root, tail <- w1, next <- w2, spin <- w3, node <- w4, prev <- w5,
           succ <- w6, value <- w7, cnt <- w8

\* two leaves below one lock of the middle level, below the root
Tree == {root, branch, left, right}
HMCS == INSTANCE HMCSLock WITH Thread <- R3, Lock <- Tree,
           Parent <- [n \in Tree |-> CASE n = root -> Nil [] n = branch -> root [] OTHER -> branch],
           Leaf <- [t \in R3 |-> IF t = cons THEN right ELSE left],
           Threshold <- [n \in Tree |-> 2], HMCLOCK_MAX <- 5,
           lock <- w1, next <- w2, status <- w3, at <- w4, v <- w5

Layout == INSTANCE HMCSTree WITH MaxLevels <- 3, MaxNodes <- 3, MaxCores <- 11,
           spec <- w1, locks <- w2, core <- w3, cores_per_node <- w4, leaf <- w5

-----------------------------------------------------------------------------
Rest9 == <<w9, w10>>
Rest8 == <<w8, Rest9>>
Rest7 == <<w7, Rest8>>
Rest6 == <<w6, Rest7>>
Rest5 == <<w5, Rest6>>
Rest4 == <<w4, Rest5>>

Zero9 == w9 = 0 /\ w10 = 0
Zero8 == w8 = 0 /\ Zero9
Zero7 == w7 = 0 /\ Zero8
Zero6 == w6 = 0 /\ Zero7
Zero5 == w5 = 0 /\ Zero6
Zero4 == w4 = 0 /\ Zero5
Zero1 == w1 = 0 /\ w2 = 0 /\ w3 = 0 /\ Zero4

StructureInit == \/ algo = "bounded_spsc" /\ SPSC!Init /\ Zero6
                 \/ algo = "bounded_mpmc" /\ MPMC!Init /\ Zero8
                 \/ algo = "bounded_mpmc2" /\ MPMC2!Init /\ Zero8
                 \/ algo = "bounded_locked" /\ Locked!Init /\ Zero6
                 \/ algo = "chaselev" /\ Deque!Init /\ Zero7
                 \/ algo = "unbounded_queue_lf" /\ UB!Init
                 \/ algo = "unbounded_queue_lf2" /\ UB2!Init
                 \/ algo = "unbounded_queue_lf3" /\ UB3!Init
                 \/ algo = "unbounded_queue_lf_recycle" /\ Recycle!Init
                 \/ algo = "unbounded_queue_total" /\ Total!Init /\ w10 = 0
                 \/ algo = "mpsc" /\ MPSC!Init /\ w10 = 0
                 \/ algo = "mpsc2" /\ MPSC2!Init /\ w10 = 0
                 \/ algo = "vqueue_prio_heap" /\ Heap3!Init /\ Zero5
                 \/ algo = "vqueue_prio_heap2" /\ Heap2!Init /\ Zero5
                 \/ algo = "elimination_stack" /\ Elim!Init
                 \/ algo = "elimination_stack2" /\ Elim2!Init
                 \/ algo = "xbo_stack" /\ Xbo!Init
                 \/ algo = "quack" /\ QK!Init /\ Zero6
                 \/ algo = "listset_coarse" /\ Coarse!Init /\ Zero6
                 \/ algo = "listset_fine" /\ Fine!Init /\ Zero6
                 \/ algo = "listset_opt" /\ Opt!Init /\ Zero6
                 \/ algo = "listset_lazy" /\ Lazy!Init /\ Zero6
                 \/ algo = "listset_lazy3" /\ Lazy3!Init /\ Zero6
                 \/ algo = "listset_lf" /\ LF!Init /\ Zero9
                 \/ algo = "listset_lf2" /\ LF2!Init /\ Zero9
                 \/ algo = "skiplist_lf" /\ Skip!Init /\ Zero6
                 \/ algo = "skiplist_lf2" /\ Skip2!Init /\ Zero6
                 \/ algo = "skiplist_lf3" /\ Skip3!Init /\ Zero6
                 \/ algo = "bbq_mpmc" /\ BBQ3!Init /\ Zero6
                 \/ algo = "bbq_mpmc4" /\ BBQLag!Init /\ Zero6
                 \/ algo = "bbq_mpmc2" /\ BBQ2!Init /\ Zero6
                 \/ algo = "bbq_mpmc3" /\ BBQ2Large!Init /\ Zero6
                 \/ algo = "bbq_spsc" /\ BBQ1!Init /\ Zero6
                 \/ algo = "simpleht" /\ HT!Init /\ Zero9
                 \/ algo = "simpleht_full" /\ HTFull!Init /\ Zero9
                 \/ algo = "treeset_bst" /\ Bst!Init /\ Zero4
                 \/ algo = "treeset_rb" /\ RB!Init /\ Zero4
                 \/ algo = "treeset_rb1" /\ RB1!Init /\ Zero4
                 \/ algo = "treeset_coarse" /\ RBCoarse!Init /\ Zero4
                 \/ algo = "hclhlock" /\ HCLH!Init /\ conf = 0 /\ Zero8
                 \/ algo = "hclhlock2" /\ HCLH2!Init /\ conf = 0 /\ Zero8
                 \/ algo = "cnalock" /\ CNA!Init /\ conf = 0 /\ Zero9
                 \/ algo = "hmcslock" /\ HMCS!Init /\ conf = 0 /\ Zero6
                 \/ algo = "hmcslock_tree" /\ Layout!Init /\ pc = <<>> /\ conf = 0 /\ Zero6

\* two clients with nested critical sections, and a reclaimer
NoEpochs == /\ epoch_global = 0 /\ retired_lst = 0 /\ threads = 0 /\ lock = 0
            /\ epoch_local = 0 /\ enter_count = 0 /\ top = 0 /\ refs = 0 /\ free = 0
            /\ glb = 0 /\ node = 0 /\ head = 0 /\ cur = 0 /\ todo = 0 /\ min = 0
no_epochs == <<ebr, mine, client, glb, node, head, cur, visit>>

Init == /\ algo \in Algos
        /\ XInit
        /\ \/ StructureInit /\ NoEpochs
           \/ algo = "exchanger" /\ XStart /\ NoEpochs /\ conf = 0 /\ Zero1
           \/ algo = "ebr" /\ EBRInit /\ conf = 0 /\ Zero1

StructureNext == \/ algo = "bounded_spsc" /\ SPSC!Next /\ UNCHANGED Rest6
                 \/ algo = "bounded_mpmc" /\ MPMC!Next /\ UNCHANGED Rest8
                 \/ algo = "bounded_mpmc2" /\ MPMC2!Next /\ UNCHANGED Rest8
                 \/ algo = "bounded_locked" /\ Locked!Next /\ UNCHANGED Rest6
                 \/ algo = "chaselev" /\ Deque!Next /\ UNCHANGED Rest7
                 \/ algo = "unbounded_queue_lf" /\ UB!Next
                 \/ algo = "unbounded_queue_lf2" /\ UB2!Next
                 \/ algo = "unbounded_queue_lf3" /\ UB3!Next
                 \/ algo = "unbounded_queue_lf_recycle" /\ Recycle!Next
                 \/ algo = "unbounded_queue_total" /\ Total!Next /\ UNCHANGED w10
                 \/ algo = "mpsc" /\ MPSC!Next /\ UNCHANGED w10
                 \/ algo = "mpsc2" /\ MPSC2!Next /\ UNCHANGED w10
                 \/ algo = "vqueue_prio_heap" /\ Heap3!Next /\ UNCHANGED Rest5
                 \/ algo = "vqueue_prio_heap2" /\ Heap2!Next /\ UNCHANGED Rest5
                 \/ algo = "elimination_stack" /\ Elim!Next
                 \/ algo = "elimination_stack2" /\ Elim2!Next
                 \/ algo = "xbo_stack" /\ Xbo!Next
                 \/ algo = "quack" /\ QK!Next /\ UNCHANGED Rest6
                 \/ algo = "listset_coarse" /\ Coarse!Next /\ UNCHANGED Rest6
                 \/ algo = "listset_fine" /\ Fine!Next /\ UNCHANGED Rest6
                 \/ algo = "listset_opt" /\ Opt!Next /\ UNCHANGED Rest6
                 \/ algo = "listset_lazy" /\ Lazy!Next /\ UNCHANGED Rest6
                 \/ algo = "listset_lazy3" /\ Lazy3!Next /\ UNCHANGED Rest6
                 \/ algo = "listset_lf" /\ LF!Next /\ UNCHANGED Rest9
                 \/ algo = "listset_lf2" /\ LF2!Next /\ UNCHANGED Rest9
                 \/ algo = "skiplist_lf" /\ Skip!Next /\ UNCHANGED Rest6
                 \/ algo = "skiplist_lf2" /\ Skip2!Next /\ UNCHANGED Rest6
                 \/ algo = "skiplist_lf3" /\ Skip3!Next /\ UNCHANGED Rest6
                 \/ algo = "bbq_mpmc" /\ BBQ3!Next /\ UNCHANGED Rest6
                 \/ algo = "bbq_mpmc4" /\ BBQLag!Next /\ UNCHANGED Rest6
                 \/ algo = "bbq_mpmc2" /\ BBQ2!Next /\ UNCHANGED Rest6
                 \/ algo = "bbq_mpmc3" /\ BBQ2Large!Next /\ UNCHANGED Rest6
                 \/ algo = "bbq_spsc" /\ BBQ1!Next /\ UNCHANGED Rest6
                 \/ algo = "simpleht" /\ HT!Next /\ UNCHANGED Rest9
                 \/ algo = "simpleht_full" /\ HTFull!Next /\ UNCHANGED Rest9
                 \/ algo = "treeset_bst" /\ Bst!Next /\ UNCHANGED Rest4
                 \/ algo = "treeset_rb" /\ RB!Next /\ UNCHANGED Rest4
                 \/ algo = "treeset_rb1" /\ RB1!Next /\ UNCHANGED Rest4
                 \/ algo = "treeset_coarse" /\ RBCoarse!Next /\ UNCHANGED Rest4
                 \/ algo = "hclhlock" /\ HCLH!Next /\ UNCHANGED <<conf, Rest8>>
                 \/ algo = "hclhlock2" /\ HCLH2!Next /\ UNCHANGED <<conf, Rest8>>
                 \/ algo = "cnalock" /\ CNA!Next /\ UNCHANGED <<conf, Rest9>>
                 \/ algo = "hmcslock" /\ HMCS!Next /\ UNCHANGED <<conf, Rest6>>
                 \/ algo = "hmcslock_tree" /\ Layout!Next /\ UNCHANGED <<pc, conf, Rest6>>

Next == /\ \/ StructureNext /\ UNCHANGED <<no_epochs, xvars>>
           \/ algo = "exchanger" /\ XNext /\ UNCHANGED <<conf, words, no_epochs>>
           \/ algo = "ebr" /\ EBRNext /\ UNCHANGED <<conf, words, xvars>>
        /\ UNCHANGED algo

Spec == Init /\ [][Next]_vars

\* of the threads with a role, t1 and t2 have the same one
QueueSymmetry == Permutations(T2)
StackSymmetry == Permutations(T3) \cup Permutations(N3)
SetSymmetry == Permutations(T3)

\* The threads of hclhlock, bounded_mpmc and mpsc, which wait for each other, keep running, and so
\* do those of the reclaimer, which ends its critical sections however often it nests another;
\* of the lock-free structures one thread does, and the other may stop anywhere.
Runs(t) == /\ UNCHANGED <<algo, no_epochs, xvars>>
           /\ \/ algo = "bounded_mpmc2" /\ t \in T2 /\ MPMC2!Progress(t) /\ UNCHANGED Rest8
              \/ algo = "hclhlock2" /\ t \in T2 /\ HCLH2!Progress(t) /\ UNCHANGED <<conf, Rest8>>
              \/ algo = "unbounded_queue_lf2" /\ t = t1 /\ UB2!Progress(t)
              \/ algo = "mpsc2" /\ MPSC2!Progress(t) /\ UNCHANGED w10
              \/ algo = "listset_lf2" /\ t = t1 /\ LF2!Progress(t) /\ UNCHANGED Rest9

Reclaims(t) == /\ algo = "ebr" /\ UNCHANGED <<algo, conf, words, xvars>>
               /\ \/ t \in Worker /\ Finish(t)
                  \/ t \in Reclaimer /\ Reclaim(t)

Exits(t) == algo = "ebr" /\ exit(t) /\ UNCHANGED <<algo, conf, words, xvars>>
Leaves(t) == algo = "ebr" /\ Leave(t) /\ UNCHANGED <<algo, conf, words, xvars>>

FairSpec == /\ Spec
            /\ \A t \in T2 \cup {cons} : WF_vars(Runs(t) \/ Reclaims(t))
            /\ \A t \in T2 : SF_vars(Exits(t)) /\ SF_vars(Leaves(t))

-----------------------------------------------------------------------------
\* The words of the chosen structure keep their types.
TypeOK == /\ algo = "bounded_spsc" => SPSC!TypeOK
          /\ algo = "bounded_mpmc" => MPMC!TypeOK
          /\ algo = "bounded_locked" => Locked!TypeOK
          /\ algo = "chaselev" => Deque!TypeOK
          /\ algo = "unbounded_queue_lf" => UB!TypeOK
          /\ algo = "unbounded_queue_lf3" => UB3!TypeOK
          /\ algo = "unbounded_queue_lf_recycle" => Recycle!TypeOK
          /\ algo = "unbounded_queue_total" => Total!TypeOK
          /\ algo = "mpsc" => MPSC!TypeOK
          /\ algo = "vqueue_prio_heap" => Heap3!TypeOK
          /\ algo = "vqueue_prio_heap2" => Heap2!TypeOK
          /\ algo = "elimination_stack" => Elim!TypeOK
          /\ algo = "elimination_stack2" => Elim2!TypeOK
          /\ algo = "xbo_stack" => Xbo!TypeOK
          /\ algo = "quack" => QK!TypeOK
          /\ algo = "exchanger" => XClients
          /\ algo = "listset_coarse" => Coarse!TypeOK
          /\ algo = "listset_fine" => Fine!TypeOK
          /\ algo = "listset_opt" => Opt!TypeOK
          /\ algo = "listset_lazy" => Lazy!TypeOK
          /\ algo = "listset_lazy3" => Lazy3!TypeOK
          /\ algo = "listset_lf" => LF!TypeOK
          /\ algo = "skiplist_lf" => Skip!TypeOK
          /\ algo = "skiplist_lf2" => Skip2!TypeOK
          /\ algo = "skiplist_lf3" => Skip3!TypeOK
          /\ algo = "bbq_mpmc" => BBQ3!TypeOK
          /\ algo = "bbq_mpmc4" => BBQLag!TypeOK
          /\ algo = "bbq_mpmc2" => BBQ2!TypeOK
          /\ algo = "bbq_mpmc3" => BBQ2Large!TypeOK
          /\ algo = "bbq_spsc" => BBQ1!TypeOK
          /\ algo = "simpleht" => HT!TypeOK
          /\ algo = "treeset_bst" => Bst!TypeOK
          /\ algo = "treeset_rb" => RB!TypeOK
          /\ algo = "treeset_rb1" => RB1!TypeOK
          /\ algo = "treeset_coarse" => RBCoarse!TypeOK
          /\ algo = "ebr" => EBRTypeOK
          /\ algo = "hclhlock" => HCLH!TypeOK
          /\ algo = "cnalock" => CNA!TypeOK
          /\ algo = "hmcslock" => HMCS!TypeOK

Monitored == Algos \ {"exchanger", "ebr", "hclhlock", "cnalock", "hmcslock", "hmcslock_tree"}

\* "@ingroup linearizable": the results of the calls are those of some order of them on
\* the sequential object that respects which call ended before another began.  This
\* includes elimination_stack, where a push and a pop can meet outside of the stack, and
\* quack, which needs no SMR and whose consumers get the nodes, after quack_reverse, in
\* the order of the pushes.  The code is weaker in these places, and so is the claim:
\*  - bounded_mpmc and the priority queue are also full when calls that have begun hold the
\*    places that are left;
\*  - an enqueue of bbq may fail as soon as there are entries in every block, or while a
\*    dequeue is still copying; and a dequeue of bbq_mpmc that meets another call may find
\*    the queue empty;
\*  - the length of unbounded_queue_lf may be too large, that of mpsc too small;
\*  - vqueue_ub_empty, outside of a critical section, may take the queue for empty ("subject
\*    to ABA problems, might return empty when the queue is not empty"), never the converse;
\*  - an add to listset_lf may fail although the key is absent.
Linearizable == algo \in Monitored => conf # {}

\* The bounded queues never hold more than Size values, nor fewer than none,
\* between any two steps, across the wrap of their counters; the blocks of bbq are
\* entered and left in order.  A node that unbounded_queue_lf has retired is not reachable from
\* head or tail any more, nor is one that unbounded_queue_lf_recycle has, which is what
\* reclamation relies on; and the assertion of vqueue_ub_deq, that a queue which is not
\* empty has a next node, holds.
EndsInOrder == /\ algo = "bounded_mpmc" => MPMC!CountersInOrder
               /\ algo = "bounded_spsc" => SPSC!StateConsistent
               /\ algo = "bounded_locked" => Locked!StateConsistent
               /\ algo = "chaselev" => Deque!IdleBounds
               /\ algo = "bbq_mpmc" => BBQ3!BlocksInOrder
               /\ algo = "bbq_mpmc4" => BBQLag!BlocksInOrder
               /\ algo = "bbq_mpmc2" => BBQ2!BlocksInOrder
               /\ algo = "bbq_mpmc3" => BBQ2Large!BlocksInOrder
               /\ algo = "bbq_spsc" => BBQ1!BlocksInOrder
               /\ algo = "unbounded_queue_lf" => UB!RetiredUnreachable /\ UB!NextNotNull
               /\ algo = "unbounded_queue_lf3" => UB3!RetiredUnreachable /\ UB3!NextNotNull
               /\ algo = "unbounded_queue_lf_recycle" =>
                     Recycle!RetiredUnreachable /\ Recycle!NextNotNull

\* The lists stay sorted, with a node per key, whatever is inserted or removed next to
\* what; nodes are retired once, when they cannot be reached from the head any more; and
\* of listset_coarse and listset_fine "SMR is not necessary as long as no dereferencing
\* of the returned address occurs".  An entry of simpleht is found from the hash of its
\* key on, also after a cleanup; the cleanup is alone; and it destroys no value that a
\* thread has got and may still look at.  The skiplist is such a list on every level, and
\* counts the levels that can lead to a node.  Between calls the heap of the priority queue
\* is one.  The nodes that unbounded_queue_total and mpsc let go of without SMR are not
\* touched any more.
EntriesIntact == /\ algo = "listset_coarse" => Coarse!ListIntact
                 /\ algo = "listset_fine" => Fine!ListIntact
                 /\ algo = "listset_opt" => Opt!ListIntact
                 /\ algo = "listset_lazy" => Lazy!ListIntact
                 /\ algo = "listset_lazy3" => Lazy3!ListIntact
                 /\ algo = "listset_lf" => LF!RetiredOnce /\ LF!Sorted
                 /\ algo = "skiplist_lf" => Skip!Sorted /\ Skip!SnipCount
                 /\ algo = "skiplist_lf2" => Skip2!Sorted /\ Skip2!SnipCount
                 /\ algo = "skiplist_lf3" => Skip3!Sorted /\ Skip3!SnipCount
                 /\ algo = "simpleht" => HT!TableIntact
                 /\ algo = "vqueue_prio_heap" => Heap3!HeapIntact
                 /\ algo = "vqueue_prio_heap2" => Heap2!HeapIntact
                 /\ algo = "unbounded_queue_total" => Total!FreeUntouched
                 /\ algo = "mpsc" => MPSC!FreeUntouched /\ MPSC!EntryThere
                 /\ algo = "treeset_bst" => Bst!TreeIntact /\ Bst!LocksInOrder /\ Bst!Asserts
                 /\ algo = "treeset_rb" => RB!TreeIntact /\ RB!LocksInOrder /\ RB!Asserts
                 /\ algo = "treeset_rb1" => RB1!TreeIntact /\ RB1!LocksInOrder /\ RB1!Asserts
                 /\ algo = "treeset_coarse" =>
                       RBCoarse!TreeIntact /\ RBCoarse!LocksInOrder /\ RBCoarse!Asserts

\* While a thread holds the lock of a tree node nobody else changes the children of the
\* node or their colours, whatever rotates next to it.
LocksProtect == [][/\ algo = "treeset_bst" => Bst!LocksProtect
                   /\ algo = "treeset_rb" => RB!LocksProtect]_vars

NumaInCS == CASE algo = "hclhlock" -> {t \in R3 : HCLH!Abstract[t] = "in"}
              [] algo = "cnalock" -> {t \in R4 : CNA!Abstract[t] = "in"}
              [] algo = "hmcslock" -> {t \in R3 : HMCS!Abstract[t] = "in"}
              [] OTHER -> {}

\* Threads of all clusters, NUMA nodes and cohorts exclude each other, from the end of
\* acquire to the step of release that passes the lock on.
MutualExclusion == \A t, u \in NumaInCS : t = u

\* Queue nodes have one user and no waiter is lost while they travel: recycled nodes of an
\* hclhlock differ, and the words it reads, changes and writes back without an atomic
\* operation do not change in between; main and secondary queue of a cnalock partition the
\* waiters; the node of an inner lock of an hmcslock belongs to one thread, which has it no
\* longer than the threshold allows.
NodesExclusive ==
    /\ algo = "hclhlock" => HCLH!NodesExclusive /\ HCLH!NoLostUpdate
    /\ algo = "cnalock" => CNA!QueuesPartition
    /\ algo = "hmcslock" => HMCS!LockNodeExclusive /\ HMCS!CountWithinThreshold

\* hmcslock_init lays out exactly the tree its level sizes describe, its assertions never
\* fire, and hmcslock_which_lock spreads the cores evenly.
LayoutRight == algo = "hmcslock_tree" => /\ Layout!TreeShape
                                         /\ Layout!LeafBoundary
                                         /\ Layout!CoresSpread

Running == [bounded_mpmc2 |-> T2, unbounded_queue_lf2 |-> {t1}, listset_lf2 |-> {t1},
            mpsc2 |-> {t1, t2, cons}, ebr |-> {cons}]
InCall(t) == /\ algo \in DOMAIN Running /\ t \in Running[algo]
             /\ pc[t] \notin {"idle", "detached"}
SomeAre(where) == algo = "hclhlock2" /\ \E t \in T2 : HCLH2!Abstract[t] = where

\* A call returns: of bounded_mpmc and mpsc when all threads run; of the lock-free queue and list,
\* with finitely many adds, although the other thread stops in the middle of a call;
\* vebr_recycle and vebr_sync although critical sections come and go.  Of hclhlock, whose cluster
\* masters can overtake each other for ever, it is only some acquire that returns.
CallsReturn == /\ \A t \in T2 \cup {cons} : InCall(t) ~> ~InCall(t)
               /\ SomeAre("wait") ~> SomeAre("in")
=============================================================================
