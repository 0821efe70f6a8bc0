---------------------------- MODULE BoundedRing ----------------------------
(***************************************************************************)
(* include/vsync/queue/bounded_spsc.h (Kind is "spsc"), a ring buffer for  *)
(* one producer and one consumer, and include/vsync/queue/bounded_locked.h *)
(* ("locked"), a ring buffer behind a caslock, where enq and deq give up   *)
(* when they do not get the lock and empty waits for it.  The lock is      *)
(* CASLock's.  The 32-bit counters wrap at Wrap.                           *)
(***************************************************************************)
EXTENDS Control, Naturals, Sequences

CONSTANTS Kind, Producer, Consumer, Val, Size, Wrap, Null

VARIABLES buf, head, tail, lock,
          v,                \* v[t]: the value t enqueues or has dequeued, or its call
          conf              \* the linearizations of the calls so far

vars == <<pc, buf, head, tail, lock, v, conf>>

Counter == 0 .. Wrap - 1
Inc(n) == (n + 1) % Wrap

\* tail - head, in 32 bits
Used == (Wrap + tail - head) % Wrap

TypeOK == /\ pc \in [Thread -> {"idle", "buf", "tail", "head", "locked", "wait", "unlock"}]
          /\ buf \in [0 .. Size - 1 -> Val \cup {Null}]
          /\ head \in Counter /\ tail \in Counter
          /\ lock \in Thread \cup {Null}
          /\ v \in [Thread -> Val \cup {"deq", "empty?", Null}]

\* the sequential queue of Size places
Apply(s, o) ==
    {IF o = "empty?" THEN [s |-> s, res |-> IF s = <<>> THEN "yes" ELSE "no"]
     ELSE IF o = "deq"
     THEN IF s = <<>> THEN [s |-> s, res |-> "empty"] ELSE [s |-> Tail(s), res |-> Head(s)]
     ELSE IF Len(s) = Size THEN [s |-> s, res |-> "full"]
                           ELSE [s |-> Append(s, o), res |-> "ok"]}

\* bounded_spsc_init, bounded_locked_init
Init == /\ pc = [t \in Thread |-> "idle"]
        /\ buf = [i \in 0 .. Size - 1 |-> Null]
        /\ head = 0 /\ tail = 0 /\ lock = Null
        /\ v = [t \in Thread |-> Null]
        /\ conf = Unused(<<>>, Thread)

-----------------------------------------------------------------------------
\* mutation: one more than there is room for
spsc_enq_read_late(t, x) ==
    /\ t = Producer /\ pc[t] = "idle"
    /\ \/ /\ Used = Size + 1
          /\ conf' = Call(conf, t, x, "full", Apply)
          /\ UNCHANGED <<pc, v>>
       \/ /\ Used # Size + 1
          /\ conf' = Invoke(conf, t, x)
          /\ v' = [v EXCEPT ![t] = x]
          /\ Goto(t, "buf")
    /\ UNCHANGED <<buf, head, tail, lock>>

\* bounded_spsc_enq(x): only the producer writes tail
spsc_enq_read(t, x) ==
    /\ t = Producer /\ pc[t] = "idle"
    /\ \/ /\ Used = Size
          /\ conf' = Call(conf, t, x, "full", Apply)
          /\ UNCHANGED <<pc, v>>
       \/ /\ Used # Size
          /\ conf' = Invoke(conf, t, x)
          /\ v' = [v EXCEPT ![t] = x]
          /\ Goto(t, "buf")
    /\ UNCHANGED <<buf, head, tail, lock>>

spsc_enq_buf(t) == /\ Step(t, "buf", "tail")
                   /\ t = Producer
                   /\ buf' = [buf EXCEPT ![tail % Size] = v[t]]
                   /\ UNCHANGED <<head, tail, lock, v, conf>>

spsc_enq_tail(t) == /\ Step(t, "tail", "idle")
                    /\ tail' = Inc(tail)
                    /\ v' = [v EXCEPT ![t] = Null]
                    /\ conf' = Return(conf, t, "ok", Apply)
                    /\ UNCHANGED <<buf, head, lock>>

\* bounded_spsc_deq: only the consumer writes head
spsc_deq_read(t) ==
    /\ t = Consumer /\ pc[t] = "idle"
    /\ \/ /\ Used = 0
          /\ conf' = Call(conf, t, "deq", "empty", Apply)
          /\ UNCHANGED pc
       \/ /\ Used # 0
          /\ conf' = Invoke(conf, t, "deq")
          /\ Goto(t, "buf")
    /\ UNCHANGED <<buf, head, tail, lock, v>>

spsc_deq_buf(t) == /\ Step(t, "buf", "head")
                   /\ t = Consumer
                   /\ v' = [v EXCEPT ![t] = buf[head % Size]]
                   /\ UNCHANGED <<buf, head, tail, lock, conf>>

spsc_deq_head(t) == /\ Step(t, "head", "idle")
                    /\ head' = Inc(head)
                    /\ v' = [v EXCEPT ![t] = Null]
                    /\ conf' = Return(conf, t, v[t], Apply)
                    /\ UNCHANGED <<buf, tail, lock>>

-----------------------------------------------------------------------------
\* the caslock_tryacquire of enq and deq: QUEUE_BOUNDED_AGAIN leaves all as it is
tryacquire(t, o) == /\ pc[t] = "idle"
                    /\ lock = Null
                    /\ lock' = t /\ Goto(t, "locked")
                    /\ v' = [v EXCEPT ![t] = o]
                    /\ conf' = Invoke(conf, t, o)
                    /\ UNCHANGED <<buf, head, tail>>

\* the caslock_acquire of empty
empty_call(t) == /\ Step(t, "idle", "wait")
                 /\ v' = [v EXCEPT ![t] = "empty?"]
                 /\ conf' = Invoke(conf, t, "empty?")
                 /\ UNCHANGED <<buf, head, tail, lock>>

empty_acquire(t) == /\ Step(t, "wait", "locked")
                    /\ lock = Null /\ lock' = t
                    /\ UNCHANGED <<buf, head, tail, v, conf>>

\* the critical section ends with result r, and the lock is released
Finish(t, r) == /\ Goto(t, "unlock")
                /\ v' = [v EXCEPT ![t] = Null]
                /\ conf' = Return(conf, t, r, Apply)
                /\ UNCHANGED lock

\* mutation: overwrites the oldest value of a full queue
enq_over(t) == /\ Step(t, "locked", "tail")
               /\ v[t] \in Val
               /\ buf' = [buf EXCEPT ![tail % Size] = v[t]]
               /\ UNCHANGED <<head, tail, lock, v, conf>>

enq(t) == /\ pc[t] = "locked" /\ v[t] \in Val
          /\ \/ /\ Used = Size
                /\ Finish(t, "full")
                /\ UNCHANGED buf
             \/ /\ Used # Size
                /\ Goto(t, "tail")
                /\ buf' = [buf EXCEPT ![tail % Size] = v[t]]
                /\ UNCHANGED <<lock, v, conf>>
          /\ UNCHANGED <<head, tail>>

enq_tail(t) == /\ pc[t] = "tail"
               /\ Finish(t, "ok")
               /\ tail' = Inc(tail)
               /\ UNCHANGED <<buf, head>>

\* The two assertions "head > tail" of deq and empty compare the counters themselves and are
\* left out: between the wrap of tail and that of head they fail of a queue that is all right.
deq(t) == /\ pc[t] = "locked" /\ v[t] = "deq"
          /\ \/ Used = 0 /\ Finish(t, "empty") /\ UNCHANGED head
             \/ /\ Used # 0
                /\ Finish(t, buf[head % Size])
                /\ head' = Inc(head)
          /\ UNCHANGED <<buf, tail>>

empty(t) == /\ pc[t] = "locked" /\ v[t] = "empty?"
            /\ Finish(t, IF tail = head THEN "yes" ELSE "no")
            /\ UNCHANGED <<buf, head, tail>>

release(t) == /\ Step(t, "unlock", "idle")
              /\ lock' = Null
              /\ UNCHANGED <<buf, head, tail, v, conf>>

Next == \E t \in Thread :
           \/ /\ Kind = "spsc"
              /\ \/ \E x \in Val : spsc_enq_read(t, x)
                 \/ spsc_enq_buf(t) \/ spsc_enq_tail(t)
                 \/ spsc_deq_read(t) \/ spsc_deq_buf(t) \/ spsc_deq_head(t)
           \/ /\ Kind = "locked"
              /\ \/ \E o \in Val \cup {"deq"} : tryacquire(t, o)
                 \/ empty_call(t) \/ empty_acquire(t)
                 \/ enq(t) \/ enq_tail(t) \/ deq(t) \/ empty(t) \/ release(t)

Spec == Init /\ [][Next]_vars

-----------------------------------------------------------------------------
\* ASSERT "inconsistent state": never more values than slots, wrapped or not.
StateConsistent == Used <= Size
=============================================================================
