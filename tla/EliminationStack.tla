-------------------------- MODULE EliminationStack --------------------------
(***************************************************************************)
(* include/vsync/stack/internal/stack_core.h, and on top of it             *)
(* include/vsync/stack/elimination_stack.h (Exchangers # {}: after a failed      *)
(* attempt try to meet a thread in one of the exchangers of the range) and *)
(* include/vsync/stack/xbo_stack.h (Exchangers = {}: sleep, which touches        *)
(* nothing here).  A popped node is pushed again only when no popper has a *)
(* pointer to it, which is what the SMR critical section guarantees.       *)
(***************************************************************************)
EXTENDS Exchanger, Naturals, Sequences

VARIABLES top, next,
          node,                 \* node[t]: the node t pushes, or NULL for a pop
          old,                  \* old[t]: the top that t has read
          range,                \* range[t]: the policy's range of exchangers
          conf

stack == <<top, next>>
vars == <<pc, xvars, stack, node, old, range, conf>>

MaxRange == IF Exchangers = {} THEN 0 ELSE CHOOSE n \in Exchangers : \A m \in Exchangers : m <= n

TypeOK == /\ pc \in [Thread -> {"idle", "push_read", "push_cas", "pop_read", "pop_cas"}
                               \cup XLabels]
          /\ XTypeOK
          /\ top \in Item \cup {NULL}
          /\ next \in [Item -> Item \cup {NULL}]
          /\ node \in [Thread -> Item \cup {NULL}] /\ old \in [Thread -> Item \cup {NULL}]
          /\ range \in [Thread -> 0 .. MaxRange]

\* the sequential stack; op is a node to push, or "pop"
Apply(s, op) ==
    {CASE op = "pop" /\ s = <<>> -> [s |-> s, res |-> NULL]
       [] op = "pop" /\ s # <<>> -> [s |-> Tail(s), res |-> Head(s)]
       [] OTHER -> [s |-> <<op>> \o s, res |-> "ok"]}

\* vstack_init
Init == /\ pc = [t \in Thread |-> "idle"]
        /\ XInit
        /\ top = NULL /\ next = [n \in Item |-> NULL]
        /\ node = [t \in Thread |-> NULL] /\ old = [t \in Thread |-> NULL]
        /\ range = [t \in Thread |-> 0]
        /\ conf = Unused(<<>>, Thread)

RECURSIVE Chain(_)
Chain(n) == IF n = NULL THEN {} ELSE {n} \cup Chain(next[n])

\* What SMR protects: the nodes some thread may still follow a pointer to.
Protected == {node[t] : t \in Thread} \cup {old[t] : t \in Thread}
             \cup {your_item[t] : t \in Thread} \cup {slot[x].addr : x \in Exchangers}

Fresh == Item \ (Chain(top) \cup Protected)

Returns(t, r) == /\ node' = [node EXCEPT ![t] = NULL]
                 /\ old' = [old EXCEPT ![t] = NULL]
                 /\ range' = [range EXCEPT ![t] = 0]
                 /\ conf' = Return(conf, t, r, Apply)

\* vstack_push
push(t) == \E n \in Fresh : /\ Step(t, "idle", "push_read")
                            /\ node' = [node EXCEPT ![t] = n]
                            /\ range' = [range EXCEPT ![t] = MaxRange]
                            /\ conf' = Invoke(conf, t, n)
                            /\ UNCHANGED <<xvars, stack, old>>

\* vstack_core_try_push
push_read(t) == /\ Step(t, "push_read", "push_cas")
                /\ old' = [old EXCEPT ![t] = top]
                /\ next' = [next EXCEPT ![node[t]] = top]
                /\ UNCHANGED <<xvars, top, node, range, conf>>

\* after a failed attempt: _vstack_rendezvous in an exchanger at random from the range,
\* or back-off
Retry(t, again) == /\ \/ \E x \in Exchangers : x <= range[t] /\ xchg(t, x, node[t])
                      \/ Exchangers = {} /\ Goto(t, again) /\ UNCHANGED xvars
                   /\ old' = [old EXCEPT ![t] = NULL]
                   /\ UNCHANGED <<stack, node, range, conf>>

push_cmpxchg(t) == /\ pc[t] = "push_cas"
                   /\ \/ /\ top = old[t]
                         /\ top' = node[t]
                         /\ Goto(t, "idle") /\ Returns(t, "ok")
                         /\ UNCHANGED <<next, xvars>>
                      \/ top # old[t] /\ Retry(t, "push_read")

\* vstack_pop
pop(t) == /\ Step(t, "idle", "pop_read")
          /\ range' = [range EXCEPT ![t] = MaxRange]
          /\ conf' = Invoke(conf, t, "pop")
          /\ UNCHANGED <<xvars, stack, node, old>>

\* vstack_core_try_pop; next does not change while the node is protected
pop_read(t) == /\ pc[t] = "pop_read"
               /\ \/ top = NULL /\ Goto(t, "idle") /\ Returns(t, NULL)
                  \/ /\ top # NULL /\ Goto(t, "pop_cas")
                     /\ old' = [old EXCEPT ![t] = top]
                     /\ UNCHANGED <<node, range, conf>>
               /\ UNCHANGED <<xvars, stack>>

\* mutation: a failed pop counts as one that found the stack empty
pop_cmpxchg_empty(t) == /\ Step(t, "pop_cas", "idle")
                        /\ top' = IF top = old[t] THEN next[old[t]] ELSE top
                        /\ Returns(t, IF top = old[t] THEN old[t] ELSE NULL)
                        /\ UNCHANGED <<xvars, next>>

pop_cmpxchg(t) == /\ pc[t] = "pop_cas"
                  /\ \/ /\ top = old[t]
                        /\ top' = next[old[t]]
                        /\ Goto(t, "idle") /\ Returns(t, old[t])
                        /\ UNCHANGED <<next, xvars>>
                     \/ top # old[t] /\ Retry(t, "pop_read")

exchange(t) == Exchanging(t) /\ UNCHANGED <<stack, node, old, range, conf>>

Attempt(t) == IF node[t] = NULL THEN "pop_read" ELSE "push_read"

\* mutation: any exchange ends a push
exchanged_any(t) == /\ Step(t, "x_won", "idle")
                    /\ node[t] # NULL \/ your_item[t] # NULL
                    /\ Returns(t, IF node[t] = NULL THEN your_item[t] ELSE "ok")
                    /\ Forget(t)
                    /\ UNCHANGED stack

\* A push met a pop, or the other way round: the call is done, and with it the policy
\* object of the call, so range_policy_record_success has no effect.
exchanged(t) == /\ Step(t, "x_won", "idle")
                /\ (node[t] = NULL) # (your_item[t] = NULL)
                /\ Returns(t, IF node[t] = NULL THEN your_item[t] ELSE "ok")
                /\ Forget(t)
                /\ UNCHANGED stack

\* two pushes or two pops met
same_kind(t) == /\ pc[t] = "x_won" /\ (node[t] = NULL) = (your_item[t] = NULL)
                /\ Goto(t, Attempt(t))
                /\ Forget(t)
                /\ UNCHANGED <<stack, node, old, range, conf>>

\* mutation: the range shrinks past 0
timed_out_wrap(t) == /\ pc[t] = "x_lost"
                     /\ Goto(t, Attempt(t))
                     /\ range' = [range EXCEPT ![t] = @ - 1]
                     /\ Forget(t)
                     /\ UNCHANGED <<stack, node, old, conf>>

\* range_policy_record_fail
timed_out(t) == /\ pc[t] = "x_lost"
                /\ Goto(t, Attempt(t))
                /\ range' = [range EXCEPT ![t] = IF @ > 0 THEN @ - 1 ELSE 0]
                /\ Forget(t)
                /\ UNCHANGED <<stack, node, old, conf>>

Next == \E t \in Thread : \/ push(t) \/ push_read(t) \/ push_cmpxchg(t)
                          \/ pop(t) \/ pop_read(t) \/ pop_cmpxchg(t)
                          \/ exchange(t)
                          \/ exchanged(t) \/ same_kind(t) \/ timed_out(t)

Spec == Init /\ [][Next]_vars

\* "@ingroup linearizable": also when pushes and pops eliminate each other.
Linearizable == conf # {}
=============================================================================
