------------------------------ MODULE PrioHeap ------------------------------
(***************************************************************************)
(* include/vsync/queue/vqueue_prio_heap_based.h: a priority queue in a     *)
(* binary heap with a lock per node, and that of the unused node 0 for the *)
(* heap.  A datum is its priority; the score of an empty node is never     *)
(* read.  All accesses are under locks, so a step takes one lock and goes  *)
(* on until the next one is needed.                                        *)
(***************************************************************************)
EXTENDS Control, Naturals, Sequences, FiniteSets

CONSTANTS Prio,
          Capacity,     \* VQUEUE_PRIO_HEAP_CAPACITY, a power of two
          Nil

VARIABLES next,         \* the first unused node
          heap,         \* heap[i]: tag, score and owner of node i
          lock,         \* lock[i]: the thread that holds the lock of node i
          loc,          \* loc[t]: the nodes t works on, and the datum it adds or removes
          conf          \* the linearizations of the calls so far

vars == <<pc, next, heap, lock, loc, conf>>

ROOT == 1
Index == 0 .. Capacity
Remove == 0      \* the operation; that of an add is its priority
EmptyNode == [tag |-> "EMPTY", score |-> 0, owner |-> Nil]

TypeOK == /\ pc \in [Thread -> {"idle", "add_child", "add_parent", "add_lock", "add_root",
                                "rm_root", "rm_bottom", "rm_left", "rm_right"}]
          /\ next \in ROOT .. Capacity + 1
          /\ heap \in [Index -> [tag : {"EMPTY", "AVAILABLE", "BUSY"}, score : Prio \cup {0},
                                 owner : Thread \cup {Nil}]]
          /\ lock \in [Index -> Thread \cup {Nil}]
          /\ loc \in [Thread -> [at : Index, data : Prio \cup {0}]]

\* the sequential queue: its data in the order of their priorities
Apply(s, op) ==
    LET before(p) == p <= op
        behind(p) == p > op
    IN IF op = Remove
       THEN {IF s = <<>> THEN [s |-> s, res |-> 0] ELSE [s |-> Tail(s), res |-> Head(s)]}
       ELSE {e \in {[s |-> SelectSeq(s, before) \o <<op>> \o SelectSeq(s, behind), res |-> TRUE]} :
                Len(s) < Capacity}

\* the places taken by the data and by adds that have begun
Taken(c) == Len(c.s) + Cardinality({u \in Pending(c) : c.p[u][2] # Remove})

\* vqueue_prio_init
Init == /\ pc = [t \in Thread |-> "idle"]
        /\ next = ROOT
        /\ heap = [i \in Index |-> EmptyNode]
        /\ lock = [i \in Index |-> Nil]
        /\ loc = [t \in Thread |-> [at |-> 0, data |-> 0]]
        /\ conf = Unused(<<>>, Thread)

Free(t, i) == lock[i] \in {Nil, t}
\* t holds the locks of the nodes I after the step
Holds(t, I) == lock' = [i \in Index |-> IF i \in I THEN t
                                        ELSE IF lock[i] = t THEN Nil ELSE lock[i]]

Continues(t, to, at, data) == /\ Goto(t, to)
                              /\ loc' = [loc EXCEPT ![t] = [at |-> at, data |-> data]]
                              /\ UNCHANGED conf

Returns(t, r) == /\ Goto(t, "idle")
                 /\ Holds(t, {})
                 /\ loc' = [loc EXCEPT ![t] = [at |-> 0, data |-> 0]]
                 /\ conf' = Return(conf, t, r, Apply)

\* _vqueue_prio_node_am_owner, _vqueue_prio_node_swap
am_owner(t, i) == heap[i].tag = "BUSY" /\ heap[i].owner = t
node_swap(h, i, j) == [h EXCEPT ![i] = h[j], ![j] = h[i]]
Settle(h, i) == [h EXCEPT ![i].tag = "AVAILABLE", ![i].owner = Nil]

-----------------------------------------------------------------------------
\* vqueue_prio_add
add(t) == \E p \in Prio :
    /\ pc[t] = "idle" /\ Free(t, 0)
    /\ \/ /\ next > Capacity
          /\ conf' = {c \in conf : Taken(c) >= Capacity}
          /\ UNCHANGED <<pc, next, lock, loc>>
       \/ /\ next <= Capacity
          /\ next' = next + 1
          /\ Holds(t, {0})
          /\ Goto(t, "add_child")
          /\ loc' = [loc EXCEPT ![t] = [at |-> next, data |-> p]]
          /\ conf' = Invoke(conf, t, p)
    /\ UNCHANGED heap

Climb(t, i) == Continues(t, IF i > ROOT THEN "add_parent" ELSE "add_root", i, 0)

add_child(t) == LET c == loc[t].at IN
    /\ pc[t] = "add_child" /\ Free(t, c)
    /\ heap' = [heap EXCEPT ![c] = [tag |-> "BUSY", score |-> loc[t].data, owner |-> t]]
    /\ Holds(t, {})
    /\ Climb(t, c)
    /\ UNCHANGED next

add_parent(t) == LET p == loc[t].at \div 2 IN
    /\ Step(t, "add_parent", "add_lock") /\ Free(t, p)
    /\ Holds(t, {p})
    /\ UNCHANGED <<next, heap, loc, conf>>

\* mutation: the child moves up although its parent has not settled
add_lock_eager(t) == LET c == loc[t].at
                         p == c \div 2
                     IN /\ pc[t] = "add_lock" /\ Free(t, c)
                        /\ \/ /\ am_owner(t, c) /\ heap[c].score < heap[p].score
                              /\ heap' = node_swap(heap, c, p)
                              /\ Holds(t, {}) /\ Climb(t, p)
                           \/ /\ am_owner(t, c) /\ heap[c].score >= heap[p].score
                              /\ heap' = Settle(heap, c)
                              /\ Returns(t, TRUE)
                           \/ /\ ~am_owner(t, c)
                              /\ Holds(t, {}) /\ Climb(t, p)
                              /\ UNCHANGED heap
                        /\ UNCHANGED next

add_lock(t) == LET c == loc[t].at
                   p == c \div 2
                   ready == heap[p].tag = "AVAILABLE" /\ am_owner(t, c)
               IN /\ pc[t] = "add_lock" /\ Free(t, c)
                  /\ \/ /\ ready /\ heap[c].score < heap[p].score
                        /\ heap' = node_swap(heap, c, p)
                        /\ Holds(t, {}) /\ Climb(t, p)
                     \/ /\ ready /\ heap[c].score >= heap[p].score
                        /\ heap' = Settle(heap, c)
                        /\ Returns(t, TRUE)
                     \/ /\ ~ready
                        /\ Holds(t, {}) /\ Climb(t, IF am_owner(t, c) THEN c ELSE p)
                        /\ UNCHANGED heap
                  /\ UNCHANGED next

add_root(t) == /\ pc[t] = "add_root" /\ Free(t, ROOT)
               /\ heap' = IF am_owner(t, ROOT) THEN Settle(heap, ROOT) ELSE heap
               /\ Returns(t, TRUE)
               /\ UNCHANGED next

-----------------------------------------------------------------------------
\* vqueue_prio_remove_min
remove_min(t) == /\ pc[t] = "idle" /\ Free(t, 0)
                 /\ \/ /\ next = ROOT
                       /\ conf' = Call(conf, t, Remove, 0, Apply)
                       /\ UNCHANGED <<pc, next, lock, loc>>
                    \/ /\ next > ROOT
                       /\ next' = next - 1
                       /\ Holds(t, {0})
                       /\ Goto(t, "rm_root")
                       /\ loc' = [loc EXCEPT ![t].at = next - 1]
                       /\ conf' = Invoke(conf, t, Remove)
                 /\ UNCHANGED heap

rm_root(t) == /\ Step(t, "rm_root", "rm_bottom") /\ Free(t, ROOT)
              /\ Holds(t, {0, ROOT})
              /\ UNCHANGED <<next, heap, loc, conf>>

\* the node in p is percolated down, unless p has no children
Sink(t, p, data) == \/ p < Capacity \div 2 /\ Holds(t, {p}) /\ Continues(t, "rm_left", p, data)
                    \/ p >= Capacity \div 2 /\ Returns(t, data)

\* mutation: without the "quick-fix" of a node that its owner has not moved up yet
rm_bottom_busy(t) ==
    LET b == loc[t].at
        h == node_swap([heap EXCEPT ![ROOT] = EmptyNode], b, ROOT)
    IN /\ pc[t] = "rm_bottom" /\ Free(t, b)
       /\ heap' = IF heap[ROOT].tag = "EMPTY" THEN heap ELSE h
       /\ IF heap'[ROOT].tag = "EMPTY" THEN Returns(t, heap[ROOT].score)
                                       ELSE Sink(t, ROOT, heap[ROOT].score)
       /\ UNCHANGED next

\* the bottom node, which its owner may not have moved up yet, replaces the root
rm_bottom(t) ==
    LET b == loc[t].at
        taken == [heap EXCEPT ![ROOT] = EmptyNode]
        h == node_swap(IF taken[b].tag = "BUSY" THEN Settle(taken, b) ELSE taken, b, ROOT)
    IN /\ pc[t] = "rm_bottom" /\ Free(t, b)
       /\ heap' = IF heap[ROOT].tag = "EMPTY" THEN heap ELSE h
       /\ IF heap'[ROOT].tag = "EMPTY" THEN Returns(t, heap[ROOT].score)
                                       ELSE Sink(t, ROOT, heap[ROOT].score)
       /\ UNCHANGED next

rm_left(t) == LET p == loc[t].at IN
    /\ Step(t, "rm_left", "rm_right") /\ Free(t, 2 * p)
    /\ Holds(t, {p, 2 * p})
    /\ UNCHANGED <<next, heap, loc, conf>>

rm_right(t) ==
    LET p == loc[t].at
        l == 2 * p
        r == 2 * p + 1
        c == IF heap[r].tag = "EMPTY" \/ heap[l].score < heap[r].score THEN l ELSE r
    IN /\ pc[t] = "rm_right" /\ Free(t, r)
       /\ \/ /\ heap[l].tag # "EMPTY" /\ heap[c].score < heap[p].score
             /\ heap' = node_swap(heap, p, c)
             /\ Sink(t, c, loc[t].data)
          \/ /\ heap[l].tag = "EMPTY" \/ heap[c].score >= heap[p].score
             /\ UNCHANGED heap
             /\ Returns(t, loc[t].data)
       /\ UNCHANGED next

Progress(t) == \/ add_child(t) \/ add_parent(t) \/ add_lock(t) \/ add_root(t)
               \/ rm_root(t) \/ rm_bottom(t) \/ rm_left(t) \/ rm_right(t)

Next == \E t \in Thread : add(t) \/ remove_min(t) \/ Progress(t)

Spec == Init /\ [][Next]_vars

-----------------------------------------------------------------------------
Quiet == \A t \in Thread : pc[t] = "idle"

\* Between calls the data are the first nodes, and no child is before its parent, as
\* _vqueue_prio_visit asserts; the last place of all, which Sink never compares, is the
\* exception.  A remove_min that has claimed a bottom node finds something at the root.
HeapIntact ==
    /\ Quiet => \A i \in Index \ {0} :
          /\ heap[i].tag = IF i < next THEN "AVAILABLE" ELSE "EMPTY"
          /\ i \in ROOT + 1 .. next - 1 /\ i < Capacity => heap[i].score >= heap[i \div 2].score
    /\ \A t \in Thread : pc[t] = "rm_bottom" => heap[ROOT].tag # "EMPTY"
=============================================================================
