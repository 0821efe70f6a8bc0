------------------------------ MODULE Control ------------------------------
(***************************************************************************)
(* The control state shared by the specifications of the library's         *)
(* algorithms: a set of threads, each at a label of the function it is     *)
(* executing.  One step is one atomic access of the code (or one library   *)
(* call that blocks), together with the local computation around it.       *)
(***************************************************************************)
LOCAL INSTANCE Naturals
LOCAL INSTANCE FiniteSets

CONSTANT Thread

VARIABLE pc

At(t, labels) == pc[t] \in labels

Goto(t, to) == pc' = [pc EXCEPT ![t] = to]

Step(t, from, to) == pc[t] = from /\ Goto(t, to)

(***************************************************************************)
(* What "@ingroup linearizable" means.  The history of calls and returns   *)
(* is summed up in the set of configurations that some linearization of it *)
(* can have reached: the state s of the sequential object, and for every   *)
(* thread p[t] = <<>> between calls, <<"call", op>> during a call that has *)
(* not taken effect, <<"ret", op, res>> once it has, with the result res.  *)
(* The history is linearizable as long as that set is not empty.           *)
(*                                                                         *)
(* Apply(s, op) is the set of the effects [s |-> state, res |-> result] a  *)
(* call of op can have on the sequential object in state s.  The           *)
(* specifications call Invoke with the first access of an operation and    *)
(* Return with the last one, so a call never lasts longer than in the code.*)
(***************************************************************************)
Unused(s, T) == {[s |-> s, p |-> [t \in T |-> <<>>]]}

Invoke(conf, t, op) == {[c EXCEPT !.p[t] = <<"call", op>>] : c \in conf}

Pending(c) == {t \in DOMAIN c.p : c.p[t] # <<>> /\ c.p[t][1] = "call"}

\* the pending call of one of the threads T takes effect
Effects(conf, T, Apply(_, _)) ==
    UNION {UNION {{[s |-> e.s, p |-> [c.p EXCEPT ![t] = <<"ret", c.p[t][2], e.res>>]]
                     : e \in Apply(c.s, c.p[t][2])} : t \in Pending(c) \cap T} : c \in conf}

\* Pending calls take effect as late as possible: when a call returns that has
\* not taken effect yet, k of the others may, in any order, and then it does.
Linearize(conf, t, Apply(_, _)) ==
    LET T == UNION {Pending(c) : c \in conf} \ {t}
        after[k \in 0 .. Cardinality(T)] ==
            IF k = 0 THEN conf ELSE Effects(after[k - 1], T, Apply)
    IN Effects(UNION {after[k] : k \in 0 .. Cardinality(T)}, {t}, Apply)

Return(conf, t, res, Apply(_, _)) ==
    {[c EXCEPT !.p[t] = <<>>] :
        c \in {d \in conf \cup Linearize(conf, t, Apply) :
                   d.p[t][1] = "ret" /\ d.p[t][3] = res}}

\* a call that returns without having had an effect
Abort(conf, t) == {[c EXCEPT !.p[t] = <<>>] : c \in {d \in conf : t \in Pending(d)}}

\* a call whose accesses are one step
Call(conf, t, op, res, Apply(_, _)) == Return(Invoke(conf, t, op), t, res, Apply)
=============================================================================
