-------------------------- MODULE UnboundedQueueLF --------------------------
(***************************************************************************)
(* include/vsync/queue/unbounded_queue_lf.h and unbounded_queue_lf_        *)
(* recycle.h: the Michael-Scott queue.  A node of lf that a dequeue hands  *)
(* to the SMR scheme can be enqueued again once the critical sections that *)
(* were open then have ended; every call is in one, but vqueue_ub_empty    *)
(* may be made outside of it.  recycle needs no SMR: its pointers have a   *)
(* stamp, which grows with every change, and a retired node may be         *)
(* enqueued again at once.  A pointer is [p |-> node, stamp |-> number];   *)
(* the stamps of lf stay 0, and its nodes carry themselves as data.        *)
(***************************************************************************)
EXTENDS Control, Naturals, Sequences, FiniteSets

CONSTANTS Kind,             \* "lf" or "recycle"
          Observer,         \* the threads that ask whether it is empty, and for its length
          Node, Sentinel, Nil,
          Freed,            \* the nodes that come back once they are retired
          MaxStamp          \* bound on the enqueues of recycle, below the 2^7 of the stamps

VARIABLES head, tail, next, data,
          retired,              \* the nodes passed to the callback `retire` that SMR has not
                                \* freed, and the threads it waits for
          qnode,                \* qnode[t]: the node t enqueues, or the datum it has read
          first, last, succ,    \* the pointers t has read; succ[t] is its `next`
          count,                \* count[t]: the nodes t has counted
          conf                  \* the linearizations of the calls so far

queue == <<head, tail, next, data, retired>>
local == <<qnode, first, last, succ, count>>
vars == <<pc, queue, local, conf>>

Cell == Node \cup {Sentinel}
Ptr == Cell \cup {Nil}
Ref == [p : Ptr, stamp : 0 .. MaxStamp + 1]
Null == [p |-> Nil, stamp |-> 0]

TypeOK == /\ pc \in [Thread -> {"idle", "enq_set", "enq_tail", "enq_next", "enq_check",
                                "enq_link", "enq_swing", "enq_help", "deq_head", "deq_tail",
                                "deq_next", "deq_check", "deq_help", "deq_data", "deq_cas",
                                "retire", "empty_tail", "peek_tail", "len_tail", "len_walk"}]
          /\ head \in Ref /\ tail \in Ref
          /\ next \in [Cell -> Ref]
          /\ data \in [Cell -> Node \cup {Nil}]
          /\ retired \subseteq [node : Node, seen : SUBSET Thread]
          /\ qnode \in [Thread -> Ptr]
          /\ {first, last, succ} \subseteq [Thread -> Ref]
          /\ count \in [Thread -> 0 .. Cardinality(Node)]

\* mutation: the stamp stays
To_unstamped(old, new) == [p |-> new, stamp |-> old.stamp]

\* vatomicptr_stamped_cmpxchg(r, old, new, old.stamp + 1)
To(old, new) == [p |-> new, stamp |-> IF Kind = "lf" THEN 0 ELSE old.stamp + 1]

\* The sequential queue.  Its length may be overestimated; and an "empty" from outside of a
\* critical section "might return empty when the queue is not empty", never the converse.
Apply(s, op) ==
    IF op = "len"
    THEN {[s |-> s, res |-> n] : n \in Len(s) .. Cardinality(Node)}
    ELSE IF op = "peek?"
    THEN {[s |-> s, res |-> e] : e \in {TRUE, s = <<>>}}
    ELSE
    {CASE op = "deq" /\ s = <<>> -> [s |-> s, res |-> Nil]
       [] op = "deq" /\ s # <<>> -> [s |-> Tail(s), res |-> Head(s)]
       [] op = "empty?" -> [s |-> s, res |-> s = <<>>]
       [] op \in Node -> [s |-> Append(s, op), res |-> "ok"]}

\* vqueue_ub_init
Init == /\ pc = [t \in Thread |-> "idle"]
        /\ head = [p |-> Sentinel, stamp |-> 0] /\ tail = head
        /\ next = [n \in Cell |-> Null] /\ data = [n \in Cell |-> Nil]
        /\ retired = {}
        /\ qnode = [t \in Thread |-> Nil]
        /\ first = [t \in Thread |-> Null]
        /\ last = [t \in Thread |-> Null]
        /\ succ = [t \in Thread |-> Null]
        /\ count = [t \in Thread |-> 0]
        /\ conf = Unused(<<>>, Thread)

RECURSIVE Walk(_, _)
Walk(n, seen) == IF n \in seen \cup {Nil} THEN seen ELSE Walk(next[n].p, seen \cup {n})
From(n) == Walk(n, {})

Enqueuing == {t \in Thread : At(t, {"enq_set", "enq_tail", "enq_next", "enq_check",
                                    "enq_link", "enq_swing", "enq_help"})}

\* the nodes the callers have for an enqueue: all that are neither in the queue, nor about
\* to be linked, nor on their way to be freed
Fresh == Node \ (From(head.p) \cup {r.node : r \in retired}
                   \cup {qnode[t] : t \in {u \in Enqueuing : pc[u] # "enq_swing"}}
                   \cup {first[t].p : t \in {u \in Thread : pc[u] = "retire"}})

InSection == {t \in Thread : Kind = "lf" /\ ~At(t, {"idle", "peek_tail"})}

\* t retires the nodes N and leaves its critical section: what no thread can see is freed
EndSection(t, N) ==
    LET held == {[r EXCEPT !.seen = @ \ {t}] : r \in retired}
                  \cup {[node |-> n, seen |-> InSection \ {t}] : n \in N}
    IN retired' = {r \in held : r.seen # {} \/ r.node \notin Freed}

\* forget the pointers: before another round, and at the end of a call
Again(t, to) == /\ Goto(t, to)
                /\ first' = [first EXCEPT ![t] = Null]
                /\ last' = [last EXCEPT ![t] = Null]
                /\ succ' = [succ EXCEPT ![t] = Null]
                /\ count' = [count EXCEPT ![t] = 0]

Finish(t, r) == /\ Again(t, "idle")
                /\ qnode' = [qnode EXCEPT ![t] = Nil]
                /\ conf' = Return(conf, t, r, Apply)

\* vqueue_ub_enq
enq(t) == \E n \in Fresh, d \in Node :
              /\ Kind = "lf" => d = n
              /\ Kind = "recycle" => tail.stamp + Cardinality(Enqueuing) < MaxStamp
              /\ Step(t, "idle", IF Kind = "lf" THEN "enq_tail" ELSE "enq_set")
              /\ qnode' = [qnode EXCEPT ![t] = n]
              /\ data' = [data EXCEPT ![n] = d]
              /\ next' = IF Kind = "lf" THEN [next EXCEPT ![n] = Null] ELSE next
              /\ conf' = Invoke(conf, t, d)
              /\ UNCHANGED <<head, tail, retired, first, last, succ, count>>

\* the stamp of a node that is enqueued again stays
enq_set(t) == /\ Step(t, "enq_set", "enq_tail")
              /\ next' = [next EXCEPT ![qnode[t]].p = Nil]
              /\ UNCHANGED <<head, tail, data, retired, local, conf>>

enq_tail(t) == /\ Step(t, "enq_tail", "enq_next")
               /\ last' = [last EXCEPT ![t] = tail]
               /\ UNCHANGED <<queue, qnode, first, succ, count, conf>>

enq_next(t) == /\ Step(t, "enq_next", "enq_check")
               /\ succ' = [succ EXCEPT ![t] = next[last[t].p]]
               /\ UNCHANGED <<queue, qnode, first, last, count, conf>>

enq_check(t) == /\ pc[t] = "enq_check"
                /\ \/ last[t] # tail /\ Again(t, "enq_tail")
                   \/ /\ last[t] = tail
                      /\ Goto(t, IF succ[t].p = Nil THEN "enq_link" ELSE "enq_help")
                      /\ UNCHANGED <<first, last, succ, count>>
                /\ UNCHANGED <<queue, qnode, conf>>

enq_link(t) == /\ pc[t] = "enq_link"
               /\ \/ /\ next[last[t].p] = succ[t]
                     /\ next' = [next EXCEPT ![last[t].p] = To(succ[t], qnode[t])]
                     /\ Goto(t, "enq_swing")
                     /\ UNCHANGED <<first, last, succ, count>>
                  \/ /\ next[last[t].p] # succ[t]
                     /\ Again(t, "enq_tail")
                     /\ UNCHANGED next
               /\ UNCHANGED <<head, tail, data, retired, qnode, conf>>

\* a cmpxchg on the tail that may fail
SwingTail(t, new) == tail' = IF tail = last[t] THEN To(last[t], new) ELSE tail

\* mutation: the tail is stored, also when others have moved it on
enq_swing_store(t) == /\ pc[t] = "enq_swing"
                      /\ tail' = To(last[t], qnode[t])
                      /\ Finish(t, "ok") /\ EndSection(t, {})
                      /\ UNCHANGED <<head, next, data>>

enq_swing(t) == /\ pc[t] = "enq_swing"
                /\ SwingTail(t, qnode[t])
                /\ Finish(t, "ok") /\ EndSection(t, {})
                /\ UNCHANGED <<head, next, data>>

\* mutation: the tail is not moved on
enq_help_not(t) == /\ pc[t] = "enq_help"
                   /\ Again(t, "enq_tail")
                   /\ UNCHANGED <<queue, qnode, conf>>

enq_help(t) == /\ pc[t] = "enq_help"
               /\ SwingTail(t, succ[t].p)
               /\ Again(t, "enq_tail")
               /\ UNCHANGED <<head, next, data, retired, qnode, conf>>

\* vqueue_ub_deq
deq(t) == /\ Step(t, "idle", "deq_head")
          /\ conf' = Invoke(conf, t, "deq")
          /\ UNCHANGED <<queue, local>>

deq_head(t) == /\ Step(t, "deq_head", "deq_tail")
               /\ first' = [first EXCEPT ![t] = head]
               /\ UNCHANGED <<queue, qnode, last, succ, count, conf>>

deq_tail(t) == /\ Step(t, "deq_tail", "deq_next")
               /\ last' = [last EXCEPT ![t] = tail]
               /\ UNCHANGED <<queue, qnode, first, succ, count, conf>>

deq_next(t) == /\ Step(t, "deq_next", "deq_check")
               /\ succ' = [succ EXCEPT ![t] = next[first[t].p]]
               /\ UNCHANGED <<queue, qnode, first, last, count, conf>>

deq_check(t) == LET same == first[t].p = last[t].p IN
                /\ pc[t] = "deq_check"
                /\ \/ /\ first[t] # head /\ Again(t, "deq_head")
                      /\ UNCHANGED <<qnode, conf, retired>>
                   \/ /\ first[t] = head /\ same /\ succ[t].p = Nil
                      /\ Finish(t, Nil) /\ EndSection(t, {})
                   \/ /\ first[t] = head /\ ~(same /\ succ[t].p = Nil)
                      /\ Goto(t, IF same THEN "deq_help" ELSE "deq_data")
                      /\ UNCHANGED <<local, conf, retired>>
                /\ UNCHANGED <<head, tail, next, data>>

deq_help(t) == /\ pc[t] = "deq_help"
               /\ SwingTail(t, succ[t].p)
               /\ Again(t, "deq_head")
               /\ UNCHANGED <<head, next, data, retired, qnode, conf>>

deq_data(t) == /\ Step(t, "deq_data", "deq_cas")
               /\ qnode' = [qnode EXCEPT ![t] = data[succ[t].p]]
               /\ UNCHANGED <<queue, first, last, succ, count, conf>>

deq_cmpxchg(t) == /\ pc[t] = "deq_cas"
                  /\ \/ head = first[t] /\ head' = To(first[t], succ[t].p)
                        /\ Goto(t, "retire") /\ UNCHANGED local
                     \/ head # first[t] /\ UNCHANGED head /\ Again(t, "deq_head")
                        /\ qnode' = [qnode EXCEPT ![t] = Nil]
                  /\ UNCHANGED <<tail, next, data, retired, conf>>

deq_retire(t) == /\ pc[t] = "retire"
                 /\ EndSection(t, {first[t].p} \ {Sentinel})
                 /\ Finish(t, qnode[t])
                 /\ UNCHANGED <<head, tail, next, data>>

\* vqueue_ub_empty, in a critical section and (that of recycle always) outside of one
empty_head(t) == /\ t \in Observer
                 /\ \/ /\ Kind = "lf" /\ Step(t, "idle", "empty_tail")
                       /\ conf' = Invoke(conf, t, "empty?")
                    \/ /\ Step(t, "idle", "peek_tail")
                       /\ conf' = Invoke(conf, t, "peek?")
                 /\ first' = [first EXCEPT ![t] = head]
                 /\ UNCHANGED <<queue, qnode, last, succ, count>>

empty_tail(t) == /\ At(t, {"empty_tail", "peek_tail"})
                 /\ Finish(t, first[t].p = tail.p) /\ EndSection(t, {})
                 /\ UNCHANGED <<head, tail, next, data>>

\* vqueue_ub_get_length
len_head(t) == /\ Step(t, "idle", "len_tail") /\ t \in Observer /\ Kind = "lf"
               /\ first' = [first EXCEPT ![t] = head]
               /\ conf' = Invoke(conf, t, "len")
               /\ UNCHANGED <<queue, qnode, last, succ, count>>

len_tail(t) == /\ Step(t, "len_tail", "len_walk")
               /\ last' = [last EXCEPT ![t] = tail]
               /\ UNCHANGED <<queue, qnode, first, succ, count, conf>>

len_walk(t) == /\ pc[t] = "len_walk"
               /\ \/ first[t].p = last[t].p /\ Finish(t, count[t]) /\ EndSection(t, {})
                  \/ /\ first[t].p # last[t].p
                     /\ first' = [first EXCEPT ![t] = next[first[t].p]]
                     /\ count' = [count EXCEPT ![t] = @ + 1]
                     /\ UNCHANGED <<pc, qnode, last, succ, conf, retired>>
               /\ UNCHANGED <<head, tail, next, data>>

Progress(t) == \/ enq_set(t) \/ enq_tail(t) \/ enq_next(t) \/ enq_check(t) \/ enq_link(t)
               \/ enq_swing(t) \/ enq_help(t)
               \/ deq_head(t) \/ deq_tail(t) \/ deq_next(t) \/ deq_check(t)
               \/ deq_help(t) \/ deq_data(t) \/ deq_cmpxchg(t) \/ deq_retire(t)
               \/ empty_tail(t) \/ len_tail(t) \/ len_walk(t)

Next == \E t \in Thread : enq(t) \/ deq(t) \/ empty_head(t) \/ len_head(t) \/ Progress(t)

Spec == Init /\ [][Next]_vars

-----------------------------------------------------------------------------
\* What SMR relies on: once a node has been retired, no call that begins later can reach it
\* from head or tail.  What it gives in return: no call in a critical section holds a
\* pointer to a node that the callers have got back.
RetiredUnreachable ==
    /\ (Fresh \cup {r.node : r \in retired}) \cap (From(head.p) \cup From(tail.p)) = {}
    /\ \A t \in InSection : {first[t].p, last[t].p, succ[t].p} \cap Fresh = {}

\* ASSERT of vqueue_ub_deq: there is a successor to take when the queue is not empty.
NextNotNull == \A t \in Thread : At(t, {"deq_data", "deq_cas"}) => succ[t].p # Nil
=============================================================================
