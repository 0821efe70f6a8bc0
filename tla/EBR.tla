-------------------------------- MODULE EBR --------------------------------
(***************************************************************************)
(* include/vsync/smr/ebr.h: epoch-based reclamation.  The clients share    *)
(* one pointer `top`; inside a critical section they take references to    *)
(* the node it points to, or replace that node and retire it.  A reclaimer *)
(* calls vebr_recycle, or detaches a node and calls vebr_sync to free it.  *)
(* A lock-free list of retired nodes is a set: adding a node and emptying  *)
(* the list are one atomic access each.                                    *)
(***************************************************************************)
EXTENDS Control, Naturals, FiniteSetTheorems, TLAPS

CONSTANTS Reclaimer,            \* some of the threads
          SmrNode, Nil,
          MaxEpoch,             \* bounds the global epoch
          MaxNest               \* bounds the nesting of critical sections

ASSUME EBRParameters == /\ Reclaimer \subseteq Thread /\ Nil \notin SmrNode \cup Thread
                        /\ MaxEpoch \in Nat \ {0} /\ MaxNest \in Nat

Worker == Thread \ Reclaimer

VARIABLES epoch_global, retired_lst,
          threads,              \* the registered threads
          lock,                 \* the thread in the lock of the smr_lock_lib_t, or Nil
          epoch_local, enter_count,
          top, refs, free,      \* the shared pointer, the references held, the freed nodes
          glb, node,            \* locals: the global epoch read, the node to retire or free
          head, cur,            \* of a reclaimer: the list it has taken, the epoch it waits
          todo, min             \* for, the threads it has to visit, their minimum so far

ebr == <<epoch_global, retired_lst, threads, lock>>
mine == <<epoch_local, enter_count>>
client == <<top, refs, free>>
visit == <<todo, min>>
ebr_vars == <<pc, ebr, mine, client, glb, node, head, cur, visit>>

Idx(e) == e % 3                 \* V_EBR_GET_EPOCH_IDX
Prev(e) == (e + 2) % 3          \* V_EBR_GET_PREV_EPOCH_IDX
Inactive == MaxEpoch + 1        \* VUINT64_MAX in min_epoch

EBRTypeOK == /\ pc \in [Thread -> {"idle", "enter", "retire", "retire_add", "rec_take",
                                   "lock", "visit", "advance", "destroy", "detached",
                                   "free"}]
             /\ epoch_global \in 1 .. MaxEpoch
             /\ retired_lst \in [0 .. 2 -> SUBSET SmrNode]
             /\ threads \subseteq Worker
             /\ lock \in Thread \cup {Nil}
             /\ epoch_local \in [Worker -> 0 .. MaxEpoch]
             /\ enter_count \in [Worker -> 0 .. MaxNest]
             /\ top \in SmrNode \cup {Nil}
             /\ refs \in [Worker -> SUBSET SmrNode]
             /\ free \subseteq SmrNode
             /\ glb \in [Thread -> 0 .. MaxEpoch]
             /\ node \in [Thread -> SmrNode \cup {Nil}]
             /\ head \in [Reclaimer -> SUBSET SmrNode]
             /\ cur \in [Reclaimer -> 0 .. MaxEpoch]
             /\ todo \in [Reclaimer -> SUBSET Worker]
             /\ min \in [Reclaimer -> 0 .. Inactive]

\* vebr_init
EBRInit == /\ pc = [t \in Thread |-> "idle"]
           /\ epoch_global = 1
           /\ retired_lst = [i \in 0 .. 2 |-> {}]
           /\ threads = {} /\ lock = Nil
           /\ epoch_local = [t \in Worker |-> 0]
           /\ enter_count = [t \in Worker |-> 0]
           /\ top = Nil
           /\ refs = [t \in Worker |-> {}]
           /\ free = SmrNode
           /\ glb = [t \in Thread |-> 0]
           /\ node = [t \in Thread |-> Nil]
           /\ head = [t \in Reclaimer |-> {}]
           /\ cur = [t \in Reclaimer |-> 0]
           /\ todo = [t \in Reclaimer |-> {}]
           /\ min = [t \in Reclaimer |-> 0]

-----------------------------------------------------------------------------
\* vebr_register, vebr_deregister: one list operation under the lock
register(t) == /\ pc[t] = "idle" /\ t \notin threads
               /\ lock = Nil
               /\ threads' = threads \cup {t}
               /\ UNCHANGED <<pc, epoch_global, retired_lst, lock, mine, client>>
               /\ UNCHANGED <<glb, node, head, cur, visit>>

deregister(t) == /\ pc[t] = "idle" /\ t \in threads
                 /\ enter_count[t] = 0
                 /\ lock = Nil
                 /\ threads' = threads \ {t}
                 /\ UNCHANGED <<pc, epoch_global, retired_lst, lock, mine, client>>
                 /\ UNCHANGED <<glb, node, head, cur, visit>>

\* vebr_enter: only the outermost one reads the global epoch
enter(t) == /\ pc[t] = "idle" /\ t \in threads
            /\ enter_count[t] < MaxNest
            /\ enter_count' = [enter_count EXCEPT ![t] = @ + 1]
            /\ IF enter_count[t] = 0
               THEN Goto(t, "enter") /\ glb' = [glb EXCEPT ![t] = epoch_global]
               ELSE UNCHANGED <<pc, glb>>
            /\ UNCHANGED <<ebr, epoch_local, client, node, head, cur, visit>>

enter_write(t) == /\ Step(t, "enter", "idle")
                  /\ epoch_local' = [epoch_local EXCEPT ![t] = glb[t]]
                  /\ glb' = [glb EXCEPT ![t] = 0]
                  /\ UNCHANGED <<ebr, enter_count, client, node, head, cur, visit>>

\* vebr_exit; the client holds no reference past the outermost one
exit(t) == /\ pc[t] = "idle" /\ enter_count[t] > 0
           /\ enter_count' = [enter_count EXCEPT ![t] = @ - 1]
           /\ IF enter_count[t] = 1
              THEN /\ epoch_local' = [epoch_local EXCEPT ![t] = 0]
                   /\ refs' = [refs EXCEPT ![t] = {}]
              ELSE UNCHANGED <<epoch_local, refs>>
           /\ UNCHANGED <<pc, ebr, top, free, glb, node, head, cur, visit>>

\* the client, inside a critical section: take a reference, replace a node
access(t) == /\ pc[t] = "idle" /\ enter_count[t] > 0
             /\ top # Nil
             /\ refs' = [refs EXCEPT ![t] = @ \cup {top}]
             /\ UNCHANGED <<pc, ebr, mine, top, free, glb, node, head, cur, visit>>

replace(t) == /\ pc[t] = "idle" /\ enter_count[t] > 0
              /\ \E n \in free \cup {Nil} : top' = n /\ free' = free \ {n}
              /\ node' = [node EXCEPT ![t] = top]
              /\ Goto(t, IF top = Nil THEN "idle" ELSE "retire")
              /\ UNCHANGED <<ebr, mine, refs, glb, head, cur, visit>>

\* vebr_retire: into the list of the global epoch just read
vebr_retire(t) == /\ Step(t, "retire", "retire_add")
                  /\ glb' = [glb EXCEPT ![t] = epoch_global]
                  /\ UNCHANGED <<ebr, mine, client, node, head, cur, visit>>

smr_nodes_list_add(t) ==
    /\ Step(t, "retire_add", "idle")
    /\ retired_lst' = [retired_lst EXCEPT ![Idx(glb[t])] = @ \cup {node[t]}]
    /\ glb' = [glb EXCEPT ![t] = 0]
    /\ node' = [node EXCEPT ![t] = Nil]
    /\ UNCHANGED <<epoch_global, threads, lock, mine, client, head, cur, visit>>

-----------------------------------------------------------------------------
\* vebr_recycle
recycle(t) == /\ Step(t, "idle", "rec_take")
              /\ epoch_global < MaxEpoch
              /\ glb' = [glb EXCEPT ![t] = epoch_global]
              /\ UNCHANGED <<ebr, mine, client, node, head, cur, visit>>

\* empties list i
Take(t, i) == /\ Step(t, "rec_take", "lock")
              /\ head' = [head EXCEPT ![t] = retired_lst[i]]
              /\ cur' = [cur EXCEPT ![t] = glb[t]]
              /\ retired_lst' = [retired_lst EXCEPT ![i] = {}]
              /\ UNCHANGED <<epoch_global, threads, lock, mine, client, glb, node, visit>>

\* mutation: takes the list of the current epoch
recycle_take_current(t) == Take(t, Idx(glb[t]))

recycle_take(t) == Take(t, Prev(glb[t]))

\* _vebr_sync_epochs: visit the registered threads under the lock, spinning on each one
\* that is active in an epoch before cur
sync_lock(t) == /\ Step(t, "lock", "visit")
                /\ lock = Nil
                /\ lock' = t
                /\ todo' = [todo EXCEPT ![t] = threads]
                /\ min' = [min EXCEPT ![t] = Inactive]
                /\ UNCHANGED <<epoch_global, retired_lst, threads, mine, client, glb, node>>
                /\ UNCHANGED <<head, cur>>

\* u has been looked at
Visited(t, u) == /\ todo' = [todo EXCEPT ![t] = @ \ {u}]
                 /\ min' = [min EXCEPT ![t] = IF epoch_local[u] # 0 /\ epoch_local[u] < @
                                              THEN epoch_local[u] ELSE @]
                 /\ UNCHANGED <<pc, ebr, mine, client, glb, node, head, cur>>

\* mutation: waits until the thread has left, whatever its epoch
sync_visit_zero(t) ==
    pc[t] = "visit" /\ \E u \in todo[t] : epoch_local[u] = 0 /\ Visited(t, u)

\* mutation: does not wait for a thread that lags behind
sync_visit_all(t) == pc[t] = "visit" /\ \E u \in todo[t] : Visited(t, u)

sync_visit(t) == /\ pc[t] = "visit"
                 /\ \E u \in todo[t] : /\ epoch_local[u] = 0 \/ epoch_local[u] >= cur[t]
                                       /\ Visited(t, u)

\* A reclaimer with a node to free is in vebr_sync.
Syncing(t) == node[t] # Nil

\* vebr_sync is done
Synced(t) == /\ Goto(t, "free")
             /\ glb' = [glb EXCEPT ![t] = 0]
             /\ cur' = [cur EXCEPT ![t] = 0]

\* The caller goes on: vebr_sync returns when no thread is active or all are in the
\* target epoch.
sync_unlock(t) == /\ pc[t] = "visit" /\ todo[t] = {}
                  /\ lock' = Nil
                  /\ IF Syncing(t) /\ (min[t] = Inactive \/ min[t] >= glb[t] + 2)
                     THEN Synced(t)
                     ELSE Goto(t, "advance") /\ UNCHANGED <<glb, cur>>
                  /\ min' = [min EXCEPT ![t] = 0]
                  /\ UNCHANGED <<epoch_global, retired_lst, threads, mine, client, node>>
                  /\ UNCHANGED <<head, todo>>

\* the cmpxchg of the global epoch
Advance(t) == epoch_global' = IF epoch_global = cur[t] THEN cur[t] + 1 ELSE epoch_global

recycle_advance(t) == /\ Step(t, "advance", "destroy") /\ ~Syncing(t)
                      /\ Advance(t)
                      /\ glb' = [glb EXCEPT ![t] = 0]
                      /\ cur' = [cur EXCEPT ![t] = 0]
                      /\ UNCHANGED <<retired_lst, threads, lock, mine, client, node, head>>
                      /\ UNCHANGED visit

\* smr_nodes_list_destroy
recycle_destroy(t) == /\ Step(t, "destroy", "idle")
                      /\ free' = free \cup head[t]
                      /\ head' = [head EXCEPT ![t] = {}]
                      /\ UNCHANGED <<ebr, mine, top, refs, glb, node, cur, visit>>

\* the client's part of "detach node; vebr_sync; free(node)"
detach(t) == /\ Step(t, "idle", "detached")
             /\ top # Nil
             /\ top' = Nil
             /\ node' = [node EXCEPT ![t] = top]
             /\ UNCHANGED <<ebr, mine, refs, free, glb, head, cur, visit>>

\* vebr_sync
sync(t) == /\ Step(t, "detached", "lock")
           /\ epoch_global + 1 < MaxEpoch
           /\ glb' = [glb EXCEPT ![t] = epoch_global]
           /\ cur' = [cur EXCEPT ![t] = epoch_global]
           /\ UNCHANGED <<ebr, mine, client, node, head, visit>>

sync_advance(t) == /\ pc[t] = "advance" /\ Syncing(t)
                   /\ Advance(t)
                   /\ IF epoch_global' >= glb[t] + 2
                      THEN Synced(t)
                      ELSE /\ Goto(t, "lock")
                           /\ cur' = [cur EXCEPT ![t] = epoch_global']
                           /\ UNCHANGED glb
                   /\ UNCHANGED <<retired_lst, threads, lock, mine, client, node, head>>
                   /\ UNCHANGED visit

sync_free(t) == /\ Step(t, "free", "idle")
                /\ free' = free \cup {node[t]}
                /\ node' = [node EXCEPT ![t] = Nil]
                /\ UNCHANGED <<ebr, mine, top, refs, glb, head, cur, visit>>

-----------------------------------------------------------------------------
Finish(t) == enter_write(t) \/ vebr_retire(t) \/ smr_nodes_list_add(t)
Reclaim(t) == \/ recycle_take(t) \/ sync_lock(t) \/ sync_visit(t) \/ sync_unlock(t)
              \/ recycle_advance(t) \/ recycle_destroy(t)
              \/ sync_advance(t) \/ sync_free(t)
Leave(t) == enter_count[t] = 1 /\ exit(t)

EBRNext == \/ \E t \in Worker : \/ register(t) \/ deregister(t) \/ enter(t) \/ exit(t)
                                \/ access(t) \/ replace(t) \/ Finish(t)
           \/ \E t \in Reclaimer : recycle(t) \/ detach(t) \/ sync(t) \/ Reclaim(t)

EBRSpec == EBRInit /\ [][EBRNext]_ebr_vars

-----------------------------------------------------------------------------
Homes(n) == {<<"list", i>> : i \in {j \in 0 .. 2 : n \in retired_lst[j]}}
            \cup {<<"head", t>> : t \in {u \in Reclaimer : n \in head[u]}}
            \cup {<<"node", t>> : t \in {u \in Thread : n = node[u]}}
            \cup (IF n = top THEN {<<"top", n>>} ELSE {})
            \cup (IF n \in free THEN {<<"free", n>>} ELSE {})

\* "Defers reclamation of objects until it is safe to do so": nobody holds a reference to
\* a node that vebr_recycle, or the caller of vebr_sync, has freed.
NoUseAfterFree == \A t \in Worker : refs[t] \cap free = {}

\* Besides, a node is in one place: in use, about to be retired, in one list, with one
\* reclaimer, or free.  So nothing is freed twice and nothing is lost.
SafeReclamation ==
    epoch_global > 0 => NoUseAfterFree /\ \A n \in SmrNode : Cardinality(Homes(n)) = 1

-----------------------------------------------------------------------------
\* Where the threads are in the code, and when their locals hold nodes.
ShapeInv ==
    /\ \A t \in Worker : At(t, {"idle", "enter", "retire", "retire_add"})
    /\ \A t \in Reclaimer : ~At(t, {"enter", "retire", "retire_add"})
    /\ \A t \in Thread :
          /\ At(t, {"idle", "enter", "rec_take", "destroy"}) => node[t] = Nil
          /\ At(t, {"retire", "retire_add", "detached", "free"}) => node[t] # Nil
    /\ \A t \in Reclaimer :
          head[t] # {} => node[t] = Nil /\ At(t, {"lock", "visit", "advance", "destroy"})

\* Who has references is registered and has announced an epoch that has been.
ReaderInv ==
    \A w \in Worker :
        /\ epoch_local[w] <= epoch_global
        /\ pc[w] = "enter" => glb[w] \in 1 .. epoch_global
        /\ enter_count[w] > 0 => w \in threads /\ (pc[w] = "enter" \/ epoch_local[w] > 0)
        /\ enter_count[w] = 0 \/ pc[w] = "enter" => refs[w] = {}
        /\ pc[w] # "idle" => enter_count[w] > 0

\* The epochs that the threads have read.
EpochInv ==
    /\ \A t \in Worker : pc[t] = "retire_add" => glb[t] \in 1 .. epoch_global
    /\ \A t \in Reclaimer :
          /\ pc[t] = "rec_take" => glb[t] = epoch_global /\ epoch_global < MaxEpoch
          /\ At(t, {"lock", "visit", "advance"}) =>
                /\ cur[t] = epoch_global /\ epoch_global < MaxEpoch
                /\ Syncing(t) => cur[t] \in {glb[t], glb[t] + 1} /\ glb[t] + 1 < MaxEpoch
          /\ pc[t] = "advance" => todo[t] = {}

\* Node n is in the place kind[n], at[n] and nowhere else.
Placed(kind, at) ==
    \A n \in SmrNode :
        /\ \A i \in 0 .. 2 : n \in retired_lst[i] <=> kind[n] = "list" /\ at[n] = i
        /\ \A t \in Reclaimer : n \in head[t] <=> kind[n] = "head" /\ at[n] = t
        /\ \A t \in Thread : n = node[t] <=> kind[n] = "node" /\ at[n] = t
        /\ n = top <=> kind[n] = "top"
        /\ n \in free <=> kind[n] = "free"
        /\ kind[n] = "list" => at[n] \in 0 .. 2
        /\ kind[n] = "head" => at[n] \in Reclaimer
        /\ kind[n] = "node" => at[n] \in Thread

Kinds == [SmrNode -> {"list", "head", "node", "top", "free"}]
Spots == [SmrNode -> (0 .. 2) \cup Thread]

HomeInv == \E kind \in Kinds, at \in Spots : Placed(kind, at)

\* A node that w holds and that has been retired, or detached, was so no earlier than in
\* the epoch that w announced.  The reclaimer moves the epoch alone, so what it frees was
\* retired in an epoch before the one it waits for.
Protected(w, n) ==
    /\ n \notin free
    /\ \A i \in 0 .. 2 : n \in retired_lst[i] =>
          \E e \in 1 .. epoch_global : e % 3 = i /\ epoch_local[w] <= e
    /\ \A t \in Worker : pc[t] = "retire_add" /\ n = node[t] =>
          epoch_local[w] <= glb[t]
    /\ \A t \in Reclaimer :
          /\ n \in head[t] => /\ epoch_local[w] < cur[t]
                              /\ At(t, {"lock", "visit"})
                              /\ pc[t] = "visit" => w \in todo[t]
          /\ n = node[t] =>
                /\ pc[t] # "free"
                /\ At(t, {"lock", "visit", "advance"}) => epoch_local[w] <= glb[t]
                /\ At(t, {"visit", "advance"}) =>
                      \/ w \in todo[t]
                      \/ epoch_local[w] >= cur[t] /\ epoch_local[w] >= min[t]

RetiredInv == \A w \in Worker : \A n \in refs[w] : Protected(w, n)

EBRInv == EBRTypeOK /\ ShapeInv /\ ReaderInv /\ EpochInv /\ HomeInv /\ RetiredInv

\* vebr_recycle and vebr_sync are called by one thread only.
OneReclaimer == \A t, u \in Reclaimer : t = u

-----------------------------------------------------------------------------
LEMMA EBRInvInit == EBRInit => EBRInv
<1>. SUFFICES ASSUME EBRInit PROVE EBRInv
  OBVIOUS
<1>1. EBRTypeOK /\ ShapeInv /\ ReaderInv /\ EpochInv /\ RetiredInv
  BY EBRParameters DEF EBRInit, EBRTypeOK, ShapeInv, ReaderInv, EpochInv, RetiredInv,
                       Protected, At,
                       Worker, Inactive
<1>2. HomeInv
  <2>. DEFINE kind == [n \in SmrNode |-> "free"]
              at == [n \in SmrNode |-> 0]
  <2>1. Placed(kind, at)
    BY EBRParameters DEF EBRInit, Placed
  <2>2. kind \in Kinds /\ at \in Spots
    BY DEF Kinds, Spots
  <2>. QED
    BY <2>1, <2>2, Zenon DEF HomeInv
<1>. QED
  BY <1>1, <1>2 DEF EBRInv

\* The places of the lists
LEMMA Places == ASSUME NEW e \in Nat
                PROVE  /\ Idx(e) \in 0 .. 2 /\ Prev(e) \in 0 .. 2
                       /\ \A d \in Nat : d % 3 = Prev(e) => d # e
BY SMTT(40) DEF Idx, Prev

LEMMA EBRTypeStep ==
    ASSUME EBRTypeOK, ShapeInv, EpochInv, [EBRNext]_ebr_vars
    PROVE  EBRTypeOK'
<1>. USE DEF EBRTypeOK, EpochInv, Worker, At, Inactive, Syncing, Step, Goto, ebr, mine,
             client, visit
<1>1. ASSUME NEW t \in Worker, register(t) PROVE EBRTypeOK'
  BY <1>1, EBRParameters DEF register
<1>2. ASSUME NEW t \in Worker, deregister(t) PROVE EBRTypeOK'
  BY <1>2, EBRParameters DEF deregister
<1>3. ASSUME NEW t \in Worker, enter(t) PROVE EBRTypeOK'
  BY <1>3, EBRParameters DEF enter
<1>4. ASSUME NEW t \in Worker, enter_write(t) PROVE EBRTypeOK'
  BY <1>4, EBRParameters DEF enter_write
<1>5. ASSUME NEW t \in Worker, exit(t) PROVE EBRTypeOK'
  BY <1>5, EBRParameters DEF exit
<1>6. ASSUME NEW t \in Worker, access(t) PROVE EBRTypeOK'
  BY <1>6, EBRParameters DEF access
<1>7. ASSUME NEW t \in Worker, replace(t) PROVE EBRTypeOK'
  BY <1>7, EBRParameters DEF replace
<1>8. ASSUME NEW t \in Worker, vebr_retire(t) PROVE EBRTypeOK'
  BY <1>8, EBRParameters DEF vebr_retire
<1>9. ASSUME NEW t \in Worker, smr_nodes_list_add(t) PROVE EBRTypeOK'
  <2>1. glb[t] \in Nat /\ node[t] \in SmrNode
    BY <1>9, EBRParameters DEF smr_nodes_list_add, ShapeInv
  <2>. QED
    BY <1>9, <2>1, Places, EBRParameters DEF smr_nodes_list_add
<1>10. ASSUME NEW t \in Reclaimer, recycle(t) PROVE EBRTypeOK'
  BY <1>10, EBRParameters DEF recycle
<1>11. ASSUME NEW t \in Reclaimer, recycle_take(t) PROVE EBRTypeOK'
  <2>1. glb[t] \in Nat
    BY <1>11, EBRParameters DEF recycle_take
  <2>. QED
    BY <1>11, <2>1, Places, EBRParameters DEF recycle_take, Take
<1>12. ASSUME NEW t \in Reclaimer, sync_lock(t) PROVE EBRTypeOK'
  BY <1>12, EBRParameters DEF sync_lock, Inactive
<1>13. ASSUME NEW t \in Reclaimer, sync_visit(t) PROVE EBRTypeOK'
  BY <1>13, EBRParameters DEF sync_visit, Visited
<1>14. ASSUME NEW t \in Reclaimer, sync_unlock(t) PROVE EBRTypeOK'
  <2>1. CASE Syncing(t) /\ Synced(t)
    BY <1>14, <2>1, EBRParameters DEF sync_unlock, Synced, Syncing
  <2>2. CASE Goto(t, "advance") /\ UNCHANGED <<glb, cur>>
    BY <1>14, <2>2, EBRParameters DEF sync_unlock
  <2>. QED
    BY <1>14, <2>1, <2>2 DEF sync_unlock
<1>15. ASSUME NEW t \in Reclaimer, recycle_advance(t) PROVE EBRTypeOK'
  BY <1>15, EBRParameters DEF recycle_advance, Advance, Syncing
<1>16. ASSUME NEW t \in Reclaimer, recycle_destroy(t) PROVE EBRTypeOK'
  BY <1>16, EBRParameters DEF recycle_destroy
<1>17. ASSUME NEW t \in Reclaimer, detach(t) PROVE EBRTypeOK'
  BY <1>17, EBRParameters DEF detach
<1>18. ASSUME NEW t \in Reclaimer, sync(t) PROVE EBRTypeOK'
  BY <1>18, EBRParameters DEF sync
<1>19. ASSUME NEW t \in Reclaimer, sync_advance(t) PROVE EBRTypeOK'
  BY <1>19, EBRParameters, SMTT(40) DEF sync_advance, Advance, Synced, Syncing
<1>20. ASSUME NEW t \in Reclaimer, sync_free(t) PROVE EBRTypeOK'
  <2>1. node[t] \in SmrNode
    BY <1>20, EBRParameters DEF sync_free, ShapeInv
  <2>. QED
    BY <1>20, <2>1, EBRParameters DEF sync_free
<1>21. CASE UNCHANGED ebr_vars
  BY <1>21 DEF ebr_vars
<1>. QED
  BY <1>1, <1>2, <1>3, <1>4, <1>5, <1>6, <1>7, <1>8, <1>9, <1>10, <1>11, <1>12, <1>13,
     <1>14, <1>15, <1>16, <1>17, <1>18, <1>19, <1>20, <1>21, Zenon
  DEF EBRNext, Finish, Reclaim

LEMMA ShapeStep ==
    ASSUME EBRTypeOK, ShapeInv, [EBRNext]_ebr_vars
    PROVE  ShapeInv'
<1>. USE DEF EBRTypeOK, ShapeInv, Worker, At, Step, Goto, ebr, mine, client, visit
<1>1. ASSUME NEW t \in Worker, register(t) PROVE ShapeInv'
  BY <1>1, EBRParameters DEF register
<1>2. ASSUME NEW t \in Worker, deregister(t) PROVE ShapeInv'
  BY <1>2, EBRParameters DEF deregister
<1>3. ASSUME NEW t \in Worker, enter(t) PROVE ShapeInv'
  BY <1>3, EBRParameters DEF enter
<1>4. ASSUME NEW t \in Worker, enter_write(t) PROVE ShapeInv'
  BY <1>4, EBRParameters DEF enter_write
<1>5. ASSUME NEW t \in Worker, exit(t) PROVE ShapeInv'
  BY <1>5, EBRParameters DEF exit
<1>6. ASSUME NEW t \in Worker, access(t) PROVE ShapeInv'
  BY <1>6, EBRParameters DEF access
<1>7. ASSUME NEW t \in Worker, replace(t) PROVE ShapeInv'
  BY <1>7, EBRParameters DEF replace
<1>8. ASSUME NEW t \in Worker, vebr_retire(t) PROVE ShapeInv'
  BY <1>8, EBRParameters DEF vebr_retire
<1>9. ASSUME NEW t \in Worker, smr_nodes_list_add(t) PROVE ShapeInv'
  BY <1>9, EBRParameters DEF smr_nodes_list_add, Idx
<1>10. ASSUME NEW t \in Reclaimer, recycle(t) PROVE ShapeInv'
  BY <1>10, EBRParameters DEF recycle
<1>11. ASSUME NEW t \in Reclaimer, recycle_take(t) PROVE ShapeInv'
  BY <1>11, EBRParameters DEF recycle_take, Take, Prev
<1>12. ASSUME NEW t \in Reclaimer, sync_lock(t) PROVE ShapeInv'
  BY <1>12, EBRParameters DEF sync_lock, Inactive
<1>13. ASSUME NEW t \in Reclaimer, sync_visit(t) PROVE ShapeInv'
  BY <1>13, EBRParameters DEF sync_visit, Visited
<1>14. ASSUME NEW t \in Reclaimer, sync_unlock(t) PROVE ShapeInv'
  <2>1. CASE Syncing(t) /\ Synced(t)
    BY <1>14, <2>1, EBRParameters DEF sync_unlock, Synced, Syncing
  <2>2. CASE Goto(t, "advance") /\ UNCHANGED <<glb, cur>>
    BY <1>14, <2>2, EBRParameters DEF sync_unlock
  <2>. QED
    BY <1>14, <2>1, <2>2 DEF sync_unlock
<1>15. ASSUME NEW t \in Reclaimer, recycle_advance(t) PROVE ShapeInv'
  BY <1>15, EBRParameters DEF recycle_advance, Advance, Syncing
<1>16. ASSUME NEW t \in Reclaimer, recycle_destroy(t) PROVE ShapeInv'
  BY <1>16, EBRParameters DEF recycle_destroy
<1>17. ASSUME NEW t \in Reclaimer, detach(t) PROVE ShapeInv'
  BY <1>17, EBRParameters DEF detach
<1>18. ASSUME NEW t \in Reclaimer, sync(t) PROVE ShapeInv'
  BY <1>18, EBRParameters DEF sync
<1>19. ASSUME NEW t \in Reclaimer, sync_advance(t) PROVE ShapeInv'
  BY <1>19, EBRParameters DEF sync_advance, Advance, Synced, Syncing
<1>20. ASSUME NEW t \in Reclaimer, sync_free(t) PROVE ShapeInv'
  BY <1>20, EBRParameters DEF sync_free
<1>21. CASE UNCHANGED ebr_vars
  BY <1>21, SMTT(40) DEF ebr_vars
<1>. QED
  BY <1>1, <1>2, <1>3, <1>4, <1>5, <1>6, <1>7, <1>8, <1>9, <1>10, <1>11, <1>12, <1>13,
     <1>14, <1>15, <1>16, <1>17, <1>18, <1>19, <1>20, <1>21, Zenon
  DEF EBRNext, Finish, Reclaim

LEMMA ReaderStep ==
    ASSUME EBRTypeOK, ShapeInv, ReaderInv, [EBRNext]_ebr_vars
    PROVE  ReaderInv'
<1>. USE DEF EBRTypeOK, ShapeInv, ReaderInv, Worker, At, Step, Goto, ebr, mine, client,
             visit
<1>1. ASSUME NEW t \in Worker, register(t) PROVE ReaderInv'
  BY <1>1, EBRParameters DEF register
<1>2. ASSUME NEW t \in Worker, deregister(t) PROVE ReaderInv'
  BY <1>2, EBRParameters DEF deregister
<1>3. ASSUME NEW t \in Worker, enter(t) PROVE ReaderInv'
  BY <1>3, EBRParameters DEF enter
<1>4. ASSUME NEW t \in Worker, enter_write(t) PROVE ReaderInv'
  BY <1>4, EBRParameters DEF enter_write
<1>5. ASSUME NEW t \in Worker, exit(t) PROVE ReaderInv'
  BY <1>5, EBRParameters DEF exit
<1>6. ASSUME NEW t \in Worker, access(t) PROVE ReaderInv'
  BY <1>6, EBRParameters DEF access
<1>7. ASSUME NEW t \in Worker, replace(t) PROVE ReaderInv'
  BY <1>7, EBRParameters DEF replace
<1>8. ASSUME NEW t \in Worker, vebr_retire(t) PROVE ReaderInv'
  BY <1>8, EBRParameters DEF vebr_retire
<1>9. ASSUME NEW t \in Worker, smr_nodes_list_add(t) PROVE ReaderInv'
  BY <1>9, EBRParameters DEF smr_nodes_list_add, Idx
<1>10. ASSUME NEW t \in Reclaimer, recycle(t) PROVE ReaderInv'
  BY <1>10, EBRParameters DEF recycle
<1>11. ASSUME NEW t \in Reclaimer, recycle_take(t) PROVE ReaderInv'
  BY <1>11, EBRParameters DEF recycle_take, Take, Prev
<1>12. ASSUME NEW t \in Reclaimer, sync_lock(t) PROVE ReaderInv'
  BY <1>12, EBRParameters DEF sync_lock, Inactive
<1>13. ASSUME NEW t \in Reclaimer, sync_visit(t) PROVE ReaderInv'
  BY <1>13, EBRParameters DEF sync_visit, Visited
<1>14. ASSUME NEW t \in Reclaimer, sync_unlock(t) PROVE ReaderInv'
  BY <1>14, EBRParameters DEF sync_unlock, Synced, Syncing, Inactive
<1>15. ASSUME NEW t \in Reclaimer, recycle_advance(t) PROVE ReaderInv'
  BY <1>15, EBRParameters DEF recycle_advance, Advance, Syncing
<1>16. ASSUME NEW t \in Reclaimer, recycle_destroy(t) PROVE ReaderInv'
  BY <1>16, EBRParameters DEF recycle_destroy
<1>17. ASSUME NEW t \in Reclaimer, detach(t) PROVE ReaderInv'
  BY <1>17, EBRParameters DEF detach
<1>18. ASSUME NEW t \in Reclaimer, sync(t) PROVE ReaderInv'
  BY <1>18, EBRParameters DEF sync
<1>19. ASSUME NEW t \in Reclaimer, sync_advance(t) PROVE ReaderInv'
  BY <1>19, EBRParameters DEF sync_advance, Advance, Synced, Syncing
<1>20. ASSUME NEW t \in Reclaimer, sync_free(t) PROVE ReaderInv'
  BY <1>20, EBRParameters DEF sync_free
<1>21. CASE UNCHANGED ebr_vars
  BY <1>21, SMTT(40) DEF ebr_vars
<1>. QED
  BY <1>1, <1>2, <1>3, <1>4, <1>5, <1>6, <1>7, <1>8, <1>9, <1>10, <1>11, <1>12, <1>13,
     <1>14, <1>15, <1>16, <1>17, <1>18, <1>19, <1>20, <1>21, Zenon
  DEF EBRNext, Finish, Reclaim

LEMMA EpochStep ==
    ASSUME OneReclaimer, EBRTypeOK, ShapeInv, EpochInv, [EBRNext]_ebr_vars
    PROVE  EpochInv'
<1>. USE DEF OneReclaimer, EBRTypeOK, ShapeInv, EpochInv, Worker, At, Syncing, Step, Goto,
             ebr, mine, client, visit
<1>1. ASSUME NEW t \in Worker, register(t) PROVE EpochInv'
  BY <1>1, EBRParameters DEF register
<1>2. ASSUME NEW t \in Worker, deregister(t) PROVE EpochInv'
  BY <1>2, EBRParameters DEF deregister
<1>3. ASSUME NEW t \in Worker, enter(t) PROVE EpochInv'
  BY <1>3, EBRParameters DEF enter
<1>4. ASSUME NEW t \in Worker, enter_write(t) PROVE EpochInv'
  BY <1>4, EBRParameters DEF enter_write
<1>5. ASSUME NEW t \in Worker, exit(t) PROVE EpochInv'
  BY <1>5, EBRParameters DEF exit
<1>6. ASSUME NEW t \in Worker, access(t) PROVE EpochInv'
  BY <1>6, EBRParameters DEF access
<1>7. ASSUME NEW t \in Worker, replace(t) PROVE EpochInv'
  BY <1>7, EBRParameters DEF replace
<1>8. ASSUME NEW t \in Worker, vebr_retire(t) PROVE EpochInv'
  BY <1>8, EBRParameters DEF vebr_retire
<1>9. ASSUME NEW t \in Worker, smr_nodes_list_add(t) PROVE EpochInv'
  BY <1>9, EBRParameters DEF smr_nodes_list_add, Idx
<1>10. ASSUME NEW t \in Reclaimer, recycle(t) PROVE EpochInv'
  BY <1>10, EBRParameters DEF recycle
<1>11. ASSUME NEW t \in Reclaimer, recycle_take(t) PROVE EpochInv'
  BY <1>11, EBRParameters DEF recycle_take, Take, Prev
<1>12. ASSUME NEW t \in Reclaimer, sync_lock(t) PROVE EpochInv'
  BY <1>12, EBRParameters DEF sync_lock, Inactive
<1>13. ASSUME NEW t \in Reclaimer, sync_visit(t) PROVE EpochInv'
  BY <1>13, EBRParameters DEF sync_visit, Visited
<1>14. ASSUME NEW t \in Reclaimer, sync_unlock(t) PROVE EpochInv'
  BY <1>14, EBRParameters DEF sync_unlock, Synced, Syncing, Inactive
<1>15. ASSUME NEW t \in Reclaimer, recycle_advance(t) PROVE EpochInv'
  BY <1>15, EBRParameters DEF recycle_advance, Advance, Syncing
<1>16. ASSUME NEW t \in Reclaimer, recycle_destroy(t) PROVE EpochInv'
  BY <1>16, EBRParameters DEF recycle_destroy
<1>17. ASSUME NEW t \in Reclaimer, detach(t) PROVE EpochInv'
  BY <1>17, EBRParameters DEF detach
<1>18. ASSUME NEW t \in Reclaimer, sync(t) PROVE EpochInv'
  BY <1>18, EBRParameters DEF sync
<1>19. ASSUME NEW t \in Reclaimer, sync_advance(t) PROVE EpochInv'
  BY <1>19, EBRParameters DEF sync_advance, Advance, Synced, Syncing
<1>20. ASSUME NEW t \in Reclaimer, sync_free(t) PROVE EpochInv'
  BY <1>20, EBRParameters DEF sync_free
<1>21. CASE UNCHANGED ebr_vars
  BY <1>21 DEF ebr_vars
<1>. QED
  BY <1>1, <1>2, <1>3, <1>4, <1>5, <1>6, <1>7, <1>8, <1>9, <1>10, <1>11, <1>12, <1>13,
     <1>14, <1>15, <1>16, <1>17, <1>18, <1>19, <1>20, <1>21, Zenon
  DEF EBRNext, Finish, Reclaim

LEMMA HomeSame ==
    ASSUME HomeInv, UNCHANGED <<retired_lst, head, node, top, free>>
    PROVE  HomeInv'
<1>1. PICK kind \in Kinds, at \in Spots : Placed(kind, at)
  BY DEF HomeInv
<1>2. Placed(kind, at)'
  BY <1>1 DEF Placed
<1>. QED
  BY <1>2 DEF HomeInv

LEMMA HomeStep ==
    ASSUME EBRTypeOK, ShapeInv, HomeInv, [EBRNext]_ebr_vars
    PROVE  HomeInv'
<1>. USE DEF EBRTypeOK, ShapeInv, Worker, At, Step, Goto, ebr, mine, client, visit
<1>0. PICK kind \in Kinds, at \in Spots : Placed(kind, at)
  BY DEF HomeInv
<1>1. ASSUME NEW t \in Worker, register(t) PROVE HomeInv'
  BY <1>1, HomeSame DEF register
<1>2. ASSUME NEW t \in Worker, deregister(t) PROVE HomeInv'
  BY <1>2, HomeSame DEF deregister
<1>3. ASSUME NEW t \in Worker, enter(t) PROVE HomeInv'
  BY <1>3, HomeSame DEF enter
<1>4. ASSUME NEW t \in Worker, enter_write(t) PROVE HomeInv'
  BY <1>4, HomeSame DEF enter_write
<1>5. ASSUME NEW t \in Worker, exit(t) PROVE HomeInv'
  BY <1>5, HomeSame DEF exit
<1>6. ASSUME NEW t \in Worker, access(t) PROVE HomeInv'
  BY <1>6, HomeSame DEF access
<1>7. ASSUME NEW t \in Worker, replace(t) PROVE HomeInv'
  <2>1. PICK k2 \in Kinds : k2 = [n \in SmrNode |-> IF n = top THEN "node"
                                         ELSE IF n = top' THEN "top" ELSE kind[n]]
    BY Zenon DEF Kinds
  <2>2. PICK a2 \in Spots : a2 = [n \in SmrNode |-> IF n = top THEN t ELSE at[n]]
    BY EBRParameters, Zenon DEF Spots
  <2>3. Placed(k2, a2)'
    BY <1>7, <1>0, <2>1, <2>2, EBRParameters DEF replace, Placed, Kinds, Spots
  <2>. QED
    BY <2>3 DEF HomeInv
<1>8. ASSUME NEW t \in Worker, vebr_retire(t) PROVE HomeInv'
  BY <1>8, HomeSame DEF vebr_retire
<1>9. ASSUME NEW t \in Worker, smr_nodes_list_add(t) PROVE HomeInv'
  <2>1. PICK k2 \in Kinds : k2 = [n \in SmrNode |-> IF n = node[t] THEN "list" ELSE kind[n]]
    BY Zenon DEF Kinds
  <2>2. PICK a2 \in Spots : a2 = [n \in SmrNode |->
                                   IF n = node[t] THEN Idx(glb[t]) ELSE at[n]]
    <3>1. Idx(glb[t]) \in 0 .. 2
      BY Places, EBRParameters
    <3>. QED
      BY <3>1, Zenon DEF Spots
  <2>3. Placed(k2, a2)'
    BY <1>9, <1>0, <2>1, <2>2, Places, EBRParameters DEF smr_nodes_list_add, Placed, Kinds,
       Spots
  <2>. QED
    BY <2>3 DEF HomeInv
<1>10. ASSUME NEW t \in Reclaimer, recycle(t) PROVE HomeInv'
  BY <1>10, HomeSame DEF recycle
<1>11. ASSUME NEW t \in Reclaimer, recycle_take(t) PROVE HomeInv'
  <2>1. PICK k2 \in Kinds :
            k2 = [n \in SmrNode |->
                    IF n \in retired_lst[Prev(glb[t])] THEN "head" ELSE kind[n]]
    BY Zenon DEF Kinds
  <2>2. PICK a2 \in Spots : a2 = [n \in SmrNode |->
                                 IF n \in retired_lst[Prev(glb[t])] THEN t ELSE at[n]]
    BY EBRParameters, Zenon DEF Spots
  <2>3. Placed(k2, a2)'
    BY <1>11, <1>0, <2>1, <2>2, Places, EBRParameters DEF recycle_take, Take, Placed,
       Kinds, Spots
  <2>. QED
    BY <2>3 DEF HomeInv
<1>12. ASSUME NEW t \in Reclaimer, sync_lock(t) PROVE HomeInv'
  BY <1>12, HomeSame DEF sync_lock
<1>13. ASSUME NEW t \in Reclaimer, sync_visit(t) PROVE HomeInv'
  BY <1>13, HomeSame DEF sync_visit, Visited
<1>14. ASSUME NEW t \in Reclaimer, sync_unlock(t) PROVE HomeInv'
  BY <1>14, HomeSame DEF sync_unlock, Synced
<1>15. ASSUME NEW t \in Reclaimer, recycle_advance(t) PROVE HomeInv'
  BY <1>15, HomeSame DEF recycle_advance
<1>16. ASSUME NEW t \in Reclaimer, recycle_destroy(t) PROVE HomeInv'
  <2>1. PICK k2 \in Kinds : k2 = [n \in SmrNode |->
                                 IF n \in head[t] THEN "free" ELSE kind[n]]
    BY Zenon DEF Kinds
  <2>2. Placed(k2, at)'
    BY <1>16, <1>0, <2>1, EBRParameters DEF recycle_destroy, Placed, Kinds, Spots
  <2>. QED
    BY <2>2 DEF HomeInv
<1>17. ASSUME NEW t \in Reclaimer, detach(t) PROVE HomeInv'
  <2>1. PICK k2 \in Kinds : k2 = [n \in SmrNode |-> IF n = top THEN "node" ELSE kind[n]]
    BY Zenon DEF Kinds
  <2>2. PICK a2 \in Spots : a2 = [n \in SmrNode |-> IF n = top THEN t ELSE at[n]]
    BY EBRParameters, Zenon DEF Spots
  <2>3. Placed(k2, a2)'
    BY <1>17, <1>0, <2>1, <2>2, EBRParameters DEF detach, Placed, Kinds, Spots
  <2>. QED
    BY <2>3 DEF HomeInv
<1>18. ASSUME NEW t \in Reclaimer, sync(t) PROVE HomeInv'
  BY <1>18, HomeSame DEF sync
<1>19. ASSUME NEW t \in Reclaimer, sync_advance(t) PROVE HomeInv'
  BY <1>19, HomeSame DEF sync_advance, Synced
<1>20. ASSUME NEW t \in Reclaimer, sync_free(t) PROVE HomeInv'
  <2>1. PICK k2 \in Kinds : k2 = [n \in SmrNode |-> IF n = node[t] THEN "free" ELSE kind[n]]
    BY Zenon DEF Kinds
  <2>2. Placed(k2, at)'
    BY <1>20, <1>0, <2>1, EBRParameters DEF sync_free, Placed, Kinds, Spots
  <2>. QED
    BY <2>2 DEF HomeInv
<1>21. CASE UNCHANGED ebr_vars
  BY <1>21, HomeSame DEF ebr_vars
<1>. QED
  BY <1>1, <1>2, <1>3, <1>4, <1>5, <1>6, <1>7, <1>8, <1>9, <1>10, <1>11, <1>12, <1>13,
     <1>14, <1>15, <1>16, <1>17, <1>18, <1>19, <1>20, <1>21, SMTT(40)
  DEF EBRNext, Finish, Reclaim

\* The node that top points to is nowhere else.
LEMMA TopElsewhere ==
    ASSUME HomeInv, top # Nil, EBRTypeOK
    PROVE  /\ top \in SmrNode /\ top \notin free
           /\ \A i \in 0 .. 2 : top \notin retired_lst[i]
           /\ \A t \in Reclaimer : top \notin head[t]
           /\ \A t \in Thread : top # node[t]
<1>1. PICK kind \in Kinds, at \in Spots : Placed(kind, at)
  BY DEF HomeInv
<1>. QED
  BY <1>1 DEF Placed, EBRTypeOK

LEMMA RetiredStep ==
    ASSUME OneReclaimer, EBRTypeOK, ShapeInv, ReaderInv, EpochInv, HomeInv, RetiredInv,
           [EBRNext]_ebr_vars
    PROVE  RetiredInv'
<1>. SUFFICES ASSUME NEW w \in Worker, NEW n \in SmrNode, n \in refs'[w]
              PROVE  Protected(w, n)'
  BY EBRTypeStep DEF RetiredInv, EBRTypeOK
<1>0. n \in refs[w] => /\ Protected(w, n)
                       /\ w \in threads /\ enter_count[w] > 0 /\ pc[w] # "enter"
                       /\ epoch_local[w] \in 1 .. epoch_global
  BY DEF RetiredInv, ReaderInv, EBRTypeOK
<1>. USE DEF OneReclaimer, EBRTypeOK, ShapeInv, EpochInv, Protected, Worker, At, Syncing,
             Inactive, Step, Goto, ebr, mine, client, visit
<1>1. ASSUME NEW t \in Worker, register(t) PROVE Protected(w, n)'
  BY <1>1, EBRParameters, <1>0 DEF register
<1>2. ASSUME NEW t \in Worker, deregister(t) PROVE Protected(w, n)'
  BY <1>2, EBRParameters, <1>0, SMTT(40) DEF deregister
<1>3. ASSUME NEW t \in Worker, enter(t) PROVE Protected(w, n)'
  <2>1. CASE enter_count[t] = 0
    BY <1>3, <2>1, <1>0, EBRParameters, SMTT(40) DEF enter
  <2>2. CASE enter_count[t] # 0
    BY <1>3, <2>2, <1>0, EBRParameters, SMTT(40) DEF enter
  <2>. QED
    BY <2>1, <2>2
<1>4. ASSUME NEW t \in Worker, enter_write(t) PROVE Protected(w, n)'
  BY <1>4, EBRParameters, <1>0, SMTT(40) DEF enter_write
<1>5. ASSUME NEW t \in Worker, exit(t) PROVE Protected(w, n)'
  <2>1. CASE enter_count[t] = 1
    BY <1>5, <2>1, <1>0, EBRParameters, SMTT(40) DEF exit
  <2>2. CASE enter_count[t] # 1
    BY <1>5, <2>2, <1>0, EBRParameters, SMTT(40) DEF exit
  <2>. QED
    BY <2>1, <2>2, SMTT(40)
<1>6. ASSUME NEW t \in Worker, access(t) PROVE Protected(w, n)'
  <2>1. top \in SmrNode /\ top \notin free
    BY <1>6, TopElsewhere, SMTT(40) DEF access
  <2>. QED
    BY <1>6, <2>1, TopElsewhere, <1>0, EBRParameters, SMTT(40) DEF access
<1>7. ASSUME NEW t \in Worker, replace(t) PROVE Protected(w, n)'
  BY <1>7, EBRParameters, <1>0 DEF replace
<1>8. ASSUME NEW t \in Worker, vebr_retire(t) PROVE Protected(w, n)'
  BY <1>8, EBRParameters, <1>0 DEF vebr_retire
<1>9. ASSUME NEW t \in Worker, smr_nodes_list_add(t) PROVE Protected(w, n)'
  <2>1. glb[t] \in Nat /\ Idx(glb[t]) \in 0 .. 2 /\ Idx(glb[t]) = glb[t] % 3
    BY Places, <1>0, EBRParameters DEF Idx
  <2>. QED
    BY <1>9, <2>1, <1>0, EBRParameters DEF smr_nodes_list_add
<1>10. ASSUME NEW t \in Reclaimer, recycle(t) PROVE Protected(w, n)'
  BY <1>10, EBRParameters, <1>0, SMTT(40) DEF recycle
<1>11. ASSUME NEW t \in Reclaimer, recycle_take(t) PROVE Protected(w, n)'
  <2>1. /\ glb[t] \in Nat /\ Prev(glb[t]) \in 0 .. 2
        /\ \A d \in Nat : d % 3 = Prev(glb[t]) => d # glb[t]
    BY Places, EBRParameters
  <2>2. ASSUME n \in retired_lst[Prev(glb[t])], n \in refs[w] PROVE epoch_local[w] < glb[t]
    <3>1. glb[t] = epoch_global
      BY <1>11 DEF recycle_take, Take
    <3>2. PICK e \in 1 .. epoch_global : e % 3 = Prev(glb[t]) /\ epoch_local[w] <= e
      BY <1>0, <2>1, <2>2, Zenon
    <3>3. e # glb[t]
      BY <2>1, <3>2
    <3>. QED
      BY <3>1, <3>2, <3>3
  <2>. HIDE DEF EpochInv, OneReclaimer
  <2>3. /\ n \in refs[w] /\ t \in Thread
        /\ cur'[t] = glb[t] /\ head'[t] = retired_lst[Prev(glb[t])]
    BY <1>11, <1>0, EBRParameters DEF recycle_take, Take
  <2>. QED
    BY <1>11, <1>0, <2>1, <2>2, <2>3, <1>0, EBRParameters DEF recycle_take, Take
<1>12. ASSUME NEW t \in Reclaimer, sync_lock(t) PROVE Protected(w, n)'
  BY <1>12, EBRParameters, <1>0, SMTT(40) DEF sync_lock, Inactive
<1>13. ASSUME NEW t \in Reclaimer, sync_visit(t) PROVE Protected(w, n)'
  BY <1>13, EBRParameters, <1>0, SMTT(40) DEF sync_visit, Visited
<1>14. ASSUME NEW t \in Reclaimer, sync_unlock(t) PROVE Protected(w, n)'
  <2>1. CASE Syncing(t) /\ Synced(t)
    BY <1>14, <2>1, <1>0, EBRParameters, SMTT(40) DEF sync_unlock, Synced, Syncing
  <2>2. CASE Goto(t, "advance") /\ UNCHANGED <<glb, cur>>
    BY <1>14, <2>2, <1>0, EBRParameters, SMTT(40) DEF sync_unlock
  <2>. QED
    BY <1>14, <2>1, <2>2, SMTT(40) DEF sync_unlock
<1>15. ASSUME NEW t \in Reclaimer, recycle_advance(t) PROVE Protected(w, n)'
  BY <1>15, EBRParameters, <1>0, SMTT(40) DEF recycle_advance, Advance, Syncing
<1>16. ASSUME NEW t \in Reclaimer, recycle_destroy(t) PROVE Protected(w, n)'
  BY <1>16, EBRParameters, <1>0, SMTT(40) DEF recycle_destroy
<1>17. ASSUME NEW t \in Reclaimer, detach(t) PROVE Protected(w, n)'
  BY <1>17, EBRParameters, <1>0, SMTT(40) DEF detach
<1>18. ASSUME NEW t \in Reclaimer, sync(t) PROVE Protected(w, n)'
  BY <1>18, EBRParameters, <1>0, SMTT(40) DEF sync
<1>19. ASSUME NEW t \in Reclaimer, sync_advance(t) PROVE Protected(w, n)'
  BY <1>19, EBRParameters, <1>0, SMTT(40) DEF sync_advance, Advance, Synced, Syncing
<1>20. ASSUME NEW t \in Reclaimer, sync_free(t) PROVE Protected(w, n)'
  BY <1>20, EBRParameters, <1>0 DEF sync_free
<1>21. CASE UNCHANGED ebr_vars
  BY <1>0, <1>21 DEF ebr_vars
<1>. QED
  BY <1>1, <1>2, <1>3, <1>4, <1>5, <1>6, <1>7, <1>8, <1>9, <1>10, <1>11, <1>12, <1>13,
     <1>14, <1>15, <1>16, <1>17, <1>18, <1>19, <1>20, <1>21, Zenon
  DEF EBRNext, Finish, Reclaim

LEMMA EBRInvStep ==
    ASSUME OneReclaimer, EBRInv, [EBRNext]_ebr_vars PROVE EBRInv'
BY EBRTypeStep, ShapeStep, ReaderStep, EpochStep, HomeStep, RetiredStep DEF EBRInv

\* A node with one place has one home.
LEMMA OneHome ==
    ASSUME EBRTypeOK, HomeInv, NEW n \in SmrNode PROVE Cardinality(Homes(n)) = 1
<1>1. PICK kind \in Kinds, at \in Spots : Placed(kind, at)
  BY DEF HomeInv
<1>. DEFINE L == {<<"list", i>> : i \in {j \in 0 .. 2 : n \in retired_lst[j]}}
            H == {<<"head", t>> : t \in {u \in Reclaimer : n \in head[u]}}
            N == {<<"node", t>> : t \in {u \in Thread : n = node[u]}}
            T == IF n = top THEN {<<"top", n>>} ELSE {}
            F == IF n \in free THEN {<<"free", n>>} ELSE {}
<1>2. \E home : Homes(n) = {home}
  <2>1. CASE kind[n] = "list"
    <3>1. L = {<<"list", at[n]>>}
      BY <1>1, <2>1 DEF Placed
    <3>2. H = {} /\ N = {} /\ T = {} /\ F = {}
      BY <1>1, <2>1 DEF Placed
    <3>. QED
      BY <3>1, <3>2, Zenon DEF Homes
  <2>2. CASE kind[n] = "head"
    <3>1. H = {<<"head", at[n]>>}
      BY <1>1, <2>2 DEF Placed
    <3>2. L = {} /\ N = {} /\ T = {} /\ F = {}
      BY <1>1, <2>2 DEF Placed
    <3>. QED
      BY <3>1, <3>2, Zenon DEF Homes
  <2>3. CASE kind[n] = "node"
    <3>1. N = {<<"node", at[n]>>}
      BY <1>1, <2>3 DEF Placed
    <3>2. L = {} /\ H = {} /\ T = {} /\ F = {}
      BY <1>1, <2>3 DEF Placed
    <3>. QED
      BY <3>1, <3>2, Zenon DEF Homes
  <2>4. CASE kind[n] = "top"
    <3>1. T = {<<"top", n>>}
      BY <1>1, <2>4 DEF Placed
    <3>2. L = {} /\ H = {} /\ N = {} /\ F = {}
      BY <1>1, <2>4 DEF Placed
    <3>. QED
      BY <3>1, <3>2, Zenon DEF Homes
  <2>5. CASE kind[n] = "free"
    <3>1. F = {<<"free", n>>}
      BY <1>1, <2>5 DEF Placed
    <3>2. L = {} /\ H = {} /\ N = {} /\ T = {}
      BY <1>1, <2>5 DEF Placed
    <3>. QED
      BY <3>1, <3>2, Zenon DEF Homes
  <2>. QED
    BY <1>1, <2>1, <2>2, <2>3, <2>4, <2>5, Zenon DEF Kinds
<1>. QED
  BY <1>2, FS_Singleton

\* Reclamation with one reclaimer is safe: nobody holds a reference to a node that has been
\* freed, and a node is in one place, so that none is freed twice and none is lost, however
\* many threads, nodes and epochs there are and however deep critical sections nest.
THEOREM EBRSafeReclamation == ASSUME OneReclaimer PROVE EBRSpec => []SafeReclamation
<1>1. EBRInv => SafeReclamation
  <2>. SUFFICES ASSUME EBRInv PROVE SafeReclamation
    OBVIOUS
  <2>1. NoUseAfterFree
    BY DEF EBRInv, RetiredInv, Protected, NoUseAfterFree
  <2>. QED
    BY <2>1, OneHome DEF EBRInv, SafeReclamation
<1>. QED
  BY <1>1, EBRInvInit, EBRInvStep, PTL DEF EBRSpec

=============================================================================
