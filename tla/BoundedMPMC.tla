----------------------------- MODULE BoundedMPMC -----------------------------
(***************************************************************************)
(* include/vsync/queue/bounded_mpmc.h: producers reserve a slot of the     *)
(* ring buffer at phead and publish it at ptail, in order; consumers do    *)
(* the same with chead and ctail.  The 32-bit counters wrap at Wrap.       *)
(***************************************************************************)
EXTENDS Control, Naturals, Sequences, FiniteSets

CONSTANTS Size, Wrap, Null,
          Start, MaxEnq     \* MaxEnq values are enqueued from the counters Start on

VARIABLES buf, phead, ptail, chead, ctail,
          curr, v,          \* locals of the threads
          conf              \* the linearizations of the calls so far

shared == <<buf, phead, ptail, chead, ctail>>
vars == <<pc, shared, curr, v, conf>>

Inc(n) == (n + 1) % Wrap
Minus(a, b) == (Wrap + a - b) % Wrap
Counter == 0 .. Wrap - 1

TypeOK == /\ pc \in [Thread -> {"idle", "enq_ctail", "enq_cas", "enq_buf", "enq_await",
                                "deq_ptail", "deq_cas", "deq_buf", "deq_await"}]
          /\ buf \in [0 .. Size - 1 -> Thread \cup {Null}]
          /\ phead \in Counter /\ ptail \in Counter
          /\ chead \in Counter /\ ctail \in Counter
          /\ curr \in [Thread -> Counter]
          /\ v \in [Thread -> Thread \cup {Null}]

\* the sequential queue of Size places
Apply(s, op) ==
    IF op = "deq"
    THEN {IF s = <<>> THEN [s |-> s, res |-> "empty"] ELSE [s |-> Tail(s), res |-> Head(s)]}
    ELSE {e \in {[s |-> Append(s, op), res |-> "ok"]} : Len(s) < Size}

\* the places that are taken when t looks: those of the values in the queue, of enqueues that
\* have begun, and of dequeues that have got a value and not returned
Taken(c, t) ==
    LET holds(u) == c.p[u] # <<>> /\ IF c.p[u][1] = "call" THEN c.p[u][2] # "deq"
                                     ELSE c.p[u][2] = "deq" /\ c.p[u][3] # "empty"
    IN Len(c.s) + Cardinality({u \in Thread \ {t} : holds(u)})

\* bounded_mpmc_init, and then Start values have come and gone
Init == /\ pc = [t \in Thread |-> "idle"]
        /\ buf = [i \in 0 .. Size - 1 |-> Null]
        /\ phead = Start /\ ptail = Start /\ chead = Start /\ ctail = Start
        /\ curr = [t \in Thread |-> 0]
        /\ v = [t \in Thread |-> Null]
        /\ conf = Unused(<<>>, Thread)

\* End of a call with result r.  One that returns "again" has had no effect; nor has one
\* that returns "full", for which all places must be taken.
Finish(t, r) == /\ Goto(t, "idle")
                /\ curr' = [curr EXCEPT ![t] = 0]
                /\ v' = [v EXCEPT ![t] = Null]
                /\ conf' = CASE r = "again" -> Abort(conf, t)
                             [] r = "full" -> Abort({c \in conf : Taken(c, t) >= Size}, t)
                             [] OTHER -> Return(conf, t, r, Apply)

\* bounded_mpmc_enq of a value of the thread's own
enq_phead(t) == /\ Step(t, "idle", "enq_ctail")
                /\ Minus(phead, Start) < MaxEnq
                /\ curr' = [curr EXCEPT ![t] = phead]
                /\ v' = [v EXCEPT ![t] = t]
                /\ conf' = Invoke(conf, t, t)
                /\ UNCHANGED shared

\* mutation: room is looked for among the slots that are being read
enq_ctail_chead(t) == /\ pc[t] = "enq_ctail"
                      /\ \/ Minus(curr[t], chead) = Size /\ Finish(t, "full")
                         \/ /\ Minus(curr[t], chead) # Size
                            /\ Goto(t, "enq_cas") /\ UNCHANGED <<curr, v, conf>>
                      /\ UNCHANGED shared

\* mutation: one place is kept free
enq_ctail_early(t) == /\ pc[t] = "enq_ctail"
                      /\ \/ Minus(curr[t], ctail) >= Size - 1 /\ Finish(t, "full")
                         \/ /\ Minus(curr[t], ctail) < Size - 1
                            /\ Goto(t, "enq_cas") /\ UNCHANGED <<curr, v, conf>>
                      /\ UNCHANGED shared

enq_ctail(t) == /\ pc[t] = "enq_ctail"
                /\ \/ Minus(curr[t], ctail) = Size /\ Finish(t, "full")
                   \/ /\ Minus(curr[t], ctail) # Size
                      /\ Goto(t, "enq_cas") /\ UNCHANGED <<curr, v, conf>>
                /\ UNCHANGED shared

\* mutation: the counter is not 32 bits wide
enq_cmpxchg_wide(t) ==
    /\ pc[t] = "enq_cas"
    /\ \/ phead # curr[t] /\ Finish(t, "again") /\ UNCHANGED phead
       \/ /\ phead = curr[t]
          /\ phead' = phead + 1
          /\ Goto(t, "enq_buf") /\ UNCHANGED <<curr, v, conf>>
    /\ UNCHANGED <<buf, ptail, chead, ctail>>

enq_cmpxchg(t) == /\ pc[t] = "enq_cas"
                  /\ \/ phead # curr[t] /\ Finish(t, "again") /\ UNCHANGED phead
                     \/ /\ phead = curr[t]
                        /\ phead' = Inc(curr[t])
                        /\ Goto(t, "enq_buf") /\ UNCHANGED <<curr, v, conf>>
                  /\ UNCHANGED <<buf, ptail, chead, ctail>>

enq_buf(t) == /\ Step(t, "enq_buf", "enq_await")
              /\ buf' = [buf EXCEPT ![curr[t] % Size] = v[t]]
              /\ UNCHANGED <<phead, ptail, chead, ctail, curr, v, conf>>

enq_await(t) == /\ pc[t] = "enq_await"
                /\ ptail = curr[t]
                /\ ptail' = Inc(curr[t])
                /\ Finish(t, "ok")
                /\ UNCHANGED <<buf, phead, chead, ctail>>

\* bounded_mpmc_deq
deq_chead(t) == /\ Step(t, "idle", "deq_ptail")
                /\ curr' = [curr EXCEPT ![t] = chead]
                /\ conf' = Invoke(conf, t, "deq")
                /\ UNCHANGED <<shared, v>>

deq_ptail(t) == /\ pc[t] = "deq_ptail"
                /\ \/ curr[t] = ptail /\ Finish(t, "empty")
                   \/ /\ curr[t] # ptail
                      /\ Goto(t, "deq_cas") /\ UNCHANGED <<curr, v, conf>>
                /\ UNCHANGED shared

deq_cmpxchg(t) == /\ pc[t] = "deq_cas"
                  /\ \/ chead # curr[t] /\ Finish(t, "again") /\ UNCHANGED chead
                     \/ /\ chead = curr[t]
                        /\ chead' = Inc(curr[t])
                        /\ Goto(t, "deq_buf") /\ UNCHANGED <<curr, v, conf>>
                  /\ UNCHANGED <<buf, phead, ptail, ctail>>

deq_buf(t) == /\ Step(t, "deq_buf", "deq_await")
              /\ v' = [v EXCEPT ![t] = buf[curr[t] % Size]]
              /\ UNCHANGED <<shared, curr, conf>>

\* mutation: the tail is advanced by adding to it, after the wait for a turn that
\* is the next one's
deq_await_next(t) == /\ pc[t] = "deq_await"
                     /\ ctail = curr[t] \/ Inc(ctail) = curr[t]
                     /\ ctail' = Inc(curr[t])
                     /\ Finish(t, v[t])
                     /\ UNCHANGED <<buf, phead, ptail, chead>>

deq_await(t) == /\ pc[t] = "deq_await"
                /\ ctail = curr[t]
                /\ ctail' = Inc(curr[t])
                /\ Finish(t, v[t])
                /\ UNCHANGED <<buf, phead, ptail, chead>>

Progress(t) == \/ enq_ctail(t) \/ enq_cmpxchg(t) \/ enq_buf(t) \/ enq_await(t)
               \/ deq_ptail(t) \/ deq_cmpxchg(t) \/ deq_buf(t) \/ deq_await(t)

Next == \E t \in Thread : \/ enq_phead(t) \/ deq_chead(t) \/ Progress(t)

Spec == Init /\ [][Next]_vars

-----------------------------------------------------------------------------
\* Around the ring, ctail <= chead <= ptail <= phead <= ctail + Size.
CountersInOrder == /\ Minus(chead, ctail) <= Minus(ptail, ctail)
                   /\ Minus(ptail, ctail) <= Minus(phead, ctail)
                   /\ Minus(phead, ctail) <= Size
=============================================================================
