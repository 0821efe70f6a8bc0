------------------------------ MODULE ChaseLev ------------------------------
(***************************************************************************)
(* include/vsync/queue/chaselev.h: a deque whose owner pushes and pops at  *)
(* the bottom while the other threads steal from the top.  The array and   *)
(* its size never change.                                                  *)
(***************************************************************************)
EXTENDS Control, Integers, Sequences

CONSTANTS Owner, Val, Size, Null,
          MaxPush           \* the counters are bounded: nothing is pushed above MaxPush

VARIABLES buffer, top, bottom,
          ltop, lbottom, obj,   \* the threads' top, bottom and object
          conf                  \* the linearizations of the calls so far

shared == <<buffer, top, bottom>>
local == <<ltop, lbottom, obj>>
vars == <<pc, shared, local, conf>>

TypeOK == /\ pc \in [Thread -> {"idle", "push_buf", "push_bottom", "pop_write", "pop_top",
                                "pop_buf", "pop_cas", "pop_restore", "steal_bottom",
                                "steal_buf", "steal_cas"}]
          /\ buffer \in [0 .. Size - 1 -> Val \cup {Null}]
          /\ top \in 0 .. MaxPush + 1 /\ bottom \in 0 .. MaxPush + 1
          /\ ltop \in [Thread -> 0 .. MaxPush + 1]
          /\ lbottom \in [Thread -> 0 .. MaxPush + 1]
          /\ obj \in [Thread -> Val \cup {"empty", Null}]

\* the sequential deque of Size places, its bottom the end of the sequence
Apply(s, op) ==
    {CASE op = "pop" /\ s # <<>>   -> [s |-> SubSeq(s, 1, Len(s) - 1), res |-> s[Len(s)]]
       [] op = "steal" /\ s # <<>> -> [s |-> Tail(s), res |-> Head(s)]
       [] op \in {"pop", "steal"} /\ s = <<>> -> [s |-> s, res |-> "empty"]
       [] op \in Val /\ Len(s) = Size -> [s |-> s, res |-> "full"]
       [] op \in Val /\ Len(s) < Size -> [s |-> Append(s, op), res |-> "ok"]}

\* vdeque_init
Init == /\ pc = [t \in Thread |-> "idle"]
        /\ buffer = [i \in 0 .. Size - 1 |-> Null]
        /\ top = 0 /\ bottom = 0
        /\ ltop = [t \in Thread |-> 0]
        /\ lbottom = [t \in Thread |-> 0]
        /\ obj = [t \in Thread |-> Null]
        /\ conf = Unused(<<>>, Thread)

\* leave the call with the locals forgotten
Leave(t) == /\ Goto(t, "idle")
            /\ ltop' = [ltop EXCEPT ![t] = 0]
            /\ lbottom' = [lbottom EXCEPT ![t] = 0]
            /\ obj' = [obj EXCEPT ![t] = Null]

Finish(t, r) == Leave(t) /\ conf' = Return(conf, t, r, Apply)

\* vdeque_push_bottom(x): only the owner writes bottom
push_read(t, x) ==
    /\ t = Owner /\ pc[t] = "idle" /\ bottom < MaxPush
    /\ \/ /\ bottom - top > Size - 1
          /\ conf' = Call(conf, t, x, "full", Apply)
          /\ UNCHANGED <<pc, obj>>
       \/ /\ bottom - top <= Size - 1
          /\ conf' = Invoke(conf, t, x)
          /\ obj' = [obj EXCEPT ![t] = x]
          /\ Goto(t, "push_buf")
    /\ UNCHANGED <<shared, ltop, lbottom>>

push_buffer(t) == /\ Step(t, "push_buf", "push_bottom")
                  /\ buffer' = [buffer EXCEPT ![bottom % Size] = obj[t]]
                  /\ UNCHANGED <<top, bottom, local, conf>>

push_bottom(t) == /\ pc[t] = "push_bottom"
                  /\ bottom' = bottom + 1
                  /\ Finish(t, "ok")
                  /\ UNCHANGED <<buffer, top>>

\* vdeque_pop_bottom
pop_read(t) ==
    /\ t = Owner /\ pc[t] = "idle"
    /\ \/ /\ bottom = 0
          /\ conf' = Call(conf, t, "pop", "empty", Apply)
          /\ UNCHANGED <<pc, lbottom>>
       \/ /\ bottom # 0
          /\ lbottom' = [lbottom EXCEPT ![t] = bottom - 1]
          /\ conf' = Invoke(conf, t, "pop")
          /\ Goto(t, "pop_write")
    /\ UNCHANGED <<shared, ltop, obj>>

pop_write(t) == /\ Step(t, "pop_write", "pop_top")
                /\ bottom' = lbottom[t]
                /\ UNCHANGED <<buffer, top, local, conf>>

pop_top(t) == /\ pc[t] = "pop_top"
              /\ ltop' = [ltop EXCEPT ![t] = top]
              /\ \/ top <= lbottom[t] /\ Goto(t, "pop_buf") /\ UNCHANGED obj
                 \/ /\ top > lbottom[t] /\ Goto(t, "pop_restore")
                    /\ obj' = [obj EXCEPT ![t] = "empty"]
              /\ UNCHANGED <<shared, lbottom, conf>>

\* mutation: the last object is taken like any other
pop_buffer_last(t) ==
    /\ pc[t] = "pop_buf"
    /\ Finish(t, buffer[lbottom[t] % Size])
    /\ UNCHANGED shared

pop_buffer(t) ==
    LET x == buffer[lbottom[t] % Size] IN
    /\ pc[t] = "pop_buf"
    /\ \/ ltop[t] # lbottom[t] /\ Finish(t, x)
       \/ /\ ltop[t] = lbottom[t] /\ Goto(t, "pop_cas")
          /\ obj' = [obj EXCEPT ![t] = x]
          /\ UNCHANGED <<ltop, lbottom, conf>>
    /\ UNCHANGED shared

pop_cmpxchg(t) == /\ Step(t, "pop_cas", "pop_restore")
                  /\ \/ top = ltop[t] /\ top' = top + 1 /\ UNCHANGED obj
                     \/ /\ top # ltop[t] /\ UNCHANGED top
                        /\ obj' = [obj EXCEPT ![t] = "empty"]
                  /\ UNCHANGED <<buffer, bottom, ltop, lbottom, conf>>

pop_restore(t) == /\ pc[t] = "pop_restore"
                  /\ bottom' = lbottom[t] + 1
                  /\ Finish(t, obj[t])
                  /\ UNCHANGED <<buffer, top>>

\* vdeque_steal
steal_top(t) == /\ t # Owner
                /\ Step(t, "idle", "steal_bottom")
                /\ ltop' = [ltop EXCEPT ![t] = top]
                /\ conf' = Invoke(conf, t, "steal")
                /\ UNCHANGED <<shared, lbottom, obj>>

steal_bottom(t) == /\ pc[t] = "steal_bottom"
                   /\ \/ ltop[t] >= bottom /\ Finish(t, "empty")
                      \/ /\ ltop[t] < bottom /\ Goto(t, "steal_buf")
                         /\ UNCHANGED <<local, conf>>
                   /\ UNCHANGED shared

steal_buffer(t) == /\ Step(t, "steal_buf", "steal_cas")
                   /\ obj' = [obj EXCEPT ![t] = buffer[ltop[t] % Size]]
                   /\ UNCHANGED <<shared, ltop, lbottom, conf>>

\* a lost race is VDEQUE_STATE_ABORT: nothing was stolen
steal_cmpxchg(t) == /\ pc[t] = "steal_cas"
                    /\ \/ top = ltop[t] /\ top' = top + 1 /\ Finish(t, obj[t])
                       \/ /\ top # ltop[t] /\ UNCHANGED top
                          /\ Leave(t) /\ conf' = Abort(conf, t)
                    /\ UNCHANGED <<buffer, bottom>>

Next == \E t \in Thread :
           \/ \E x \in Val : push_read(t, x)
           \/ push_buffer(t) \/ push_bottom(t)
           \/ pop_read(t) \/ pop_write(t) \/ pop_top(t) \/ pop_buffer(t)
           \/ pop_cmpxchg(t) \/ pop_restore(t)
           \/ steal_top(t) \/ steal_bottom(t) \/ steal_buffer(t) \/ steal_cmpxchg(t)

Spec == Init /\ [][Next]_vars

-----------------------------------------------------------------------------
\* Between the owner's calls top is at most bottom, at a distance of at most Size.
IdleBounds == pc[Owner] = "idle" => top <= bottom /\ bottom - top <= Size
=============================================================================
