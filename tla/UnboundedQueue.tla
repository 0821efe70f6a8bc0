--------------------------- MODULE UnboundedQueue ---------------------------
(***************************************************************************)
(* include/vsync/queue/unbounded_queue_total.h and mpsc.h: linked queues   *)
(* that need no SMR.  total has a lock at either end.  mpsc has one        *)
(* consumer, which waits for a producer that has moved the tail and not    *)
(* linked its node yet.  A node a dequeue lets go of is free at once, and  *)
(* is enqueued again.                                                      *)
(***************************************************************************)
EXTENDS Control, Naturals, Sequences, FiniteSets

CONSTANTS Kind,             \* "total" or "mpsc"
          Consumer,         \* the threads that dequeue and ask for the length
          Node, Sentinel,   \* the callers' nodes and the queue's own one
          Val, Nil

VARIABLES head, tail, next, data,
          lock,             \* the holders of enq_l and deq_l
          free,             \* the nodes the callers may enqueue or destroy
          mine,             \* mine[t]: the node t enqueues
          ptr,              \* ptr[t]: the pointer t has read
          val,              \* val[t]: what t enqueues, or is going to return
          conf              \* the linearizations of the calls so far

queue == <<head, tail, next, data, free>>
local == <<mine, ptr, val>>
vars == <<pc, queue, lock, local, conf>>

Cell == Node \cup {Sentinel}
Ptr == Cell \cup {Nil}

TypeOK == /\ pc \in [Thread -> {"idle", "write", "advance", "link", "read", "tail", "await",
                                "take", "release", "empty_read", "empty_next", "len_lock",
                                "len_walk", "len_unlock"}]
          /\ head \in Cell /\ tail \in Cell
          /\ next \in [Cell -> Ptr]
          /\ data \in [Cell -> Val \cup {Nil}]
          /\ lock \in [{"enq_l", "deq_l"} -> Thread \cup {Nil}]
          /\ free \subseteq Node
          /\ mine \in [Thread -> Ptr] /\ ptr \in [Thread -> Ptr]

\* the sequential queue; mpsc does not count what is behind an unlinked node
Apply(s, op) ==
    CASE op = "deq" -> {IF s = <<>> THEN [s |-> s, res |-> Nil]
                                    ELSE [s |-> Tail(s), res |-> Head(s)]}
      [] op = "empty?" -> {[s |-> s, res |-> s = <<>>]}
      [] op = "len" -> {[s |-> s, res |-> n]
                          : n \in IF Kind = "total" THEN {Len(s)} ELSE 0 .. Len(s)}
      [] op \in Val -> {[s |-> Append(s, op), res |-> "ok"]}

\* vqueue_ub_init, vmpsc_init
Init == /\ pc = [t \in Thread |-> "idle"]
        /\ head = Sentinel /\ tail = Sentinel
        /\ next = [n \in Cell |-> Nil] /\ data = [n \in Cell |-> Nil]
        /\ lock = [l \in {"enq_l", "deq_l"} |-> Nil]
        /\ free = Node
        /\ mine = [t \in Thread |-> Nil]
        /\ ptr = [t \in Thread |-> Nil]
        /\ val = [t \in Thread |-> Nil]
        /\ conf = Unused(<<>>, Thread)

Acquire(t, l) == lock[l] = Nil /\ lock' = [lock EXCEPT ![l] = t]
Release(l) == lock' = [lock EXCEPT ![l] = Nil]

Returns(t, r) == /\ Goto(t, "idle")
                 /\ mine' = [mine EXCEPT ![t] = Nil]
                 /\ ptr' = [ptr EXCEPT ![t] = Nil]
                 /\ val' = [val EXCEPT ![t] = Nil]
                 /\ conf' = Return(conf, t, r, Apply)

\* the caller's node n gets the datum v
Enqueues(t, n, v) == /\ free' = free \ {n}
                     /\ mine' = [mine EXCEPT ![t] = n]
                     /\ val' = [val EXCEPT ![t] = v]
                     /\ conf' = Invoke(conf, t, v)

-----------------------------------------------------------------------------
\* vqueue_ub_enq of total
enq_acquire(t) == /\ Kind = "total"
                  /\ Step(t, "idle", "write") /\ Acquire(t, "enq_l")
                  /\ \E n \in free, v \in Val : Enqueues(t, n, v)
                  /\ UNCHANGED <<head, tail, next, data, ptr>>

enq_write(t) == /\ Step(t, "write", "advance")
                /\ data' = [data EXCEPT ![mine[t]] = val[t]]
                /\ next' = [next EXCEPT ![mine[t]] = Nil, ![tail] = mine[t]]
                /\ UNCHANGED <<head, tail, lock, free, local, conf>>

enq_release(t) == /\ pc[t] = "advance"
                  /\ tail' = mine[t]
                  /\ Release("enq_l")
                  /\ Returns(t, "ok")
                  /\ UNCHANGED <<head, next, data, free>>

\* vmpsc_enq
enq_xchg(t) == /\ Kind = "mpsc"
               /\ Step(t, "idle", "link")
               /\ \E n \in free, v \in Val :
                     /\ Enqueues(t, n, v)
                     /\ data' = [data EXCEPT ![n] = v]
                     /\ next' = [next EXCEPT ![n] = Nil]
                     /\ tail' = n
               /\ ptr' = [ptr EXCEPT ![t] = tail]
               /\ UNCHANGED <<head, lock>>

enq_link(t) == /\ pc[t] = "link"
               /\ next' = [next EXCEPT ![ptr[t]] = mine[t]]
               /\ Returns(t, "ok")
               /\ UNCHANGED <<head, tail, data, lock, free>>

-----------------------------------------------------------------------------
\* vqueue_ub_deq, vqueue_ub_empty and vqueue_ub_get_length of total take deq_l first
deq_acquire(t) == /\ Kind = "total" /\ t \in Consumer
                  /\ pc[t] = "idle" /\ Acquire(t, "deq_l")
                  /\ \/ Goto(t, "read") /\ conf' = Invoke(conf, t, "deq")
                     \/ Goto(t, "empty_read") /\ conf' = Invoke(conf, t, "empty?")
                     \/ Goto(t, "len_lock") /\ conf' = Invoke(conf, t, "len")
                  /\ UNCHANGED <<queue, local>>

deq_read(t) == /\ pc[t] = "read"
               /\ Goto(t, IF next[head] = Nil THEN "release" ELSE "take")
               /\ ptr' = [ptr EXCEPT ![t] = next[head]]
               /\ UNCHANGED <<queue, lock, mine, val, conf>>

\* mutation: the node that is dequeued is retired, not the one before it
TakeNextFree(t) == /\ head' = ptr[t]
                   /\ free' = free \cup {ptr[t]}

\* head moves on, and its old node is the caller's again
TakeNext(t) == /\ head' = ptr[t]
               /\ free' = free \cup ({head} \ {Sentinel})

deq_take(t) == /\ Kind = "total"
               /\ Step(t, "take", "release")
               /\ TakeNext(t)
               /\ val' = [val EXCEPT ![t] = data[ptr[t]]]
               /\ UNCHANGED <<tail, next, data, lock, mine, ptr, conf>>

empty_read(t) == /\ Step(t, "empty_read", "release")
                 /\ val' = [val EXCEPT ![t] = next[head] = Nil]
                 /\ UNCHANGED <<queue, lock, mine, ptr, conf>>

deq_release(t) == /\ pc[t] = "release"
                  /\ Release("deq_l")
                  /\ Returns(t, val[t])
                  /\ UNCHANGED queue

len_lock(t) == /\ Step(t, "len_lock", "len_walk")
               /\ Acquire(t, "enq_l")
               /\ ptr' = [ptr EXCEPT ![t] = head]
               /\ val' = [val EXCEPT ![t] = 0]
               /\ UNCHANGED <<queue, mine, conf>>

\* another node, also of vmpsc_length
len_walk(t) == /\ pc[t] = "len_walk" /\ next[ptr[t]] # Nil
               /\ ptr' = [ptr EXCEPT ![t] = next[@]]
               /\ val' = [val EXCEPT ![t] = @ + 1]
               /\ UNCHANGED <<pc, queue, lock, mine, conf>>

len_unlock(t) == /\ Kind = "total"
                 /\ Step(t, "len_walk", "release") /\ next[ptr[t]] = Nil
                 /\ Release("enq_l")
                 /\ UNCHANGED <<queue, local, conf>>

-----------------------------------------------------------------------------
\* vmpsc_deq
mpsc_read(t) == /\ Kind = "mpsc" /\ t \in Consumer
                /\ Step(t, "idle", IF next[head] = Nil THEN "tail" ELSE "take")
                /\ ptr' = [ptr EXCEPT ![t] = next[head]]
                /\ conf' = Invoke(conf, t, "deq")
                /\ UNCHANGED <<queue, lock, mine, val>>

\* mutation: the queue is empty when nothing is linked
mpsc_tail_empty(t) == /\ pc[t] = "tail"
                      /\ Returns(t, Nil)
                      /\ UNCHANGED <<queue, lock>>

mpsc_tail(t) == /\ pc[t] = "tail"
                /\ \/ tail = head /\ Returns(t, Nil)
                   \/ tail # head /\ Goto(t, "await") /\ UNCHANGED <<local, conf>>
                /\ UNCHANGED <<queue, lock>>

mpsc_await(t) == /\ Step(t, "await", "take")
                 /\ next[head] # Nil
                 /\ ptr' = [ptr EXCEPT ![t] = next[head]]
                 /\ UNCHANGED <<queue, lock, mine, val, conf>>

mpsc_take(t) == /\ Kind = "mpsc" /\ pc[t] = "take"
                /\ TakeNext(t)
                /\ data' = [data EXCEPT ![ptr[t]] = Nil]
                /\ Returns(t, data[ptr[t]])
                /\ UNCHANGED <<tail, next, lock>>

\* vmpsc_empty
mpsc_empty(t) == /\ Kind = "mpsc" /\ t \in Consumer
                 /\ Step(t, "idle", "empty_next")
                 /\ ptr' = [ptr EXCEPT ![t] = tail]
                 /\ conf' = Invoke(conf, t, "empty?")
                 /\ UNCHANGED <<queue, lock, mine, val>>

empty_next(t) == /\ pc[t] = "empty_next"
                 /\ Returns(t, next[ptr[t]] = Nil /\ head = ptr[t])
                 /\ UNCHANGED <<queue, lock>>

\* vmpsc_length
mpsc_length(t) == /\ Kind = "mpsc" /\ t \in Consumer
                  /\ Step(t, "idle", "len_walk")
                  /\ ptr' = [ptr EXCEPT ![t] = head]
                  /\ val' = [val EXCEPT ![t] = 0]
                  /\ conf' = Invoke(conf, t, "len")
                  /\ UNCHANGED <<queue, lock, mine>>

len_return(t) == /\ Kind = "mpsc" /\ pc[t] = "len_walk" /\ next[ptr[t]] = Nil
                 /\ Returns(t, val[t])
                 /\ UNCHANGED <<queue, lock>>

Progress(t) == \/ enq_write(t) \/ enq_release(t) \/ enq_link(t)
               \/ deq_read(t) \/ deq_take(t) \/ empty_read(t) \/ deq_release(t)
               \/ len_lock(t) \/ len_walk(t) \/ len_unlock(t) \/ len_return(t)
               \/ mpsc_tail(t) \/ mpsc_await(t) \/ mpsc_take(t) \/ empty_next(t)

Next == \E t \in Thread : \/ enq_acquire(t) \/ enq_xchg(t) \/ deq_acquire(t)
                          \/ mpsc_read(t) \/ mpsc_empty(t) \/ mpsc_length(t)
                          \/ Progress(t)

Spec == Init /\ [][Next]_vars

-----------------------------------------------------------------------------
\* the nodes t is about to read or write
Touched(t) == CASE pc[t] = "write" -> {tail, mine[t]}
                [] At(t, {"link", "take", "len_walk", "empty_next"}) -> {ptr[t]}
                [] At(t, {"read", "empty_read", "await"}) -> {head}
                [] OTHER -> {}

\* "Why is SMR not needed here?": no thread is going to touch a node that a dequeue has
\* let go of, although the tail may still point to it for a while; nor is it in the queue.
FreeUntouched == /\ \A t \in Thread : Touched(t) \cap free = {}
                 /\ head \notin free

\* assert(entry) of vmpsc_deq
EntryThere == \A t \in Thread : pc[t] = "take" => data[ptr[t]] # Nil
=============================================================================
