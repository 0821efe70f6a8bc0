------------------------------- MODULE Quack -------------------------------
(***************************************************************************)
(* include/vsync/stack/quack.h: a Treiber stack whose consumers take the   *)
(* whole list.  It needs no SMR: a node may be pushed again as soon as the *)
(* consumer that got it is done with it.                                   *)
(***************************************************************************)
EXTENDS Control, Naturals, Sequences, FiniteSets

CONSTANTS Node, Nil

VARIABLES head, next,
          node,                 \* node[t]: the node t pushes
          seen,                 \* the head a pusher has read; `curr` of quack_reverse
          prev,                 \* `prev` of quack_reverse
          conf

local == <<node, seen, prev>>
vars == <<pc, head, next, local, conf>>

TypeOK == /\ pc \in [Thread -> {"idle", "push", "cas", "reverse"}]
          /\ head \in Node \cup {Nil}
          /\ next \in [Node -> Node \cup {Nil}]
          /\ node \in [Thread -> Node \cup {Nil}]
          /\ seen \in [Thread -> Node \cup {Nil}] /\ prev \in [Thread -> Node \cup {Nil}]

RECURSIVE List(_)
List(n) == IF n = Nil THEN <<>> ELSE <<n>> \o List(next[n])
Nodes(n) == {List(n)[i] : i \in 1 .. Len(List(n))}

\* the sequential object, newest node first; popall returns it oldest first
Reversed(s) == [i \in 1 .. Len(s) |-> s[Len(s) + 1 - i]]
Apply(s, op) == {CASE op = "popall" -> [s |-> <<>>, res |-> Reversed(s)]
                   [] op = "empty?" -> [s |-> s, res |-> s = <<>>]
                   [] OTHER -> [s |-> <<op>> \o s, res |-> "ok"]}

\* quack_init
Init == /\ pc = [t \in Thread |-> "idle"]
        /\ head = Nil /\ next = [n \in Node |-> Nil]
        /\ node = [t \in Thread |-> Nil]
        /\ seen = [t \in Thread |-> Nil] /\ prev = [t \in Thread |-> Nil]
        /\ conf = Unused(<<>>, Thread)

Used == Nodes(head) \cup {node[t] : t \in Thread}
        \cup UNION {Nodes(seen[t]) \cup Nodes(prev[t]) : t \in {u \in Thread : pc[u] = "reverse"}}

\* quack_push
push(t) == \E n \in Node \ Used :
    /\ Step(t, "idle", "push")
    /\ node' = [node EXCEPT ![t] = n]
    /\ conf' = Invoke(conf, t, n)
    /\ UNCHANGED <<head, next, seen, prev>>

push_read(t) == /\ Step(t, "push", "cas")
                /\ seen' = [seen EXCEPT ![t] = head]
                /\ next' = [next EXCEPT ![node[t]] = head]
                /\ UNCHANGED <<head, node, prev, conf>>

\* mutation: a failed compare-and-exchange is taken for a success
push_cmpxchg_once(t) == /\ Step(t, "cas", "idle")
                        /\ head' = IF head = seen[t] THEN node[t] ELSE head
                        /\ seen' = [seen EXCEPT ![t] = Nil]
                        /\ node' = [node EXCEPT ![t] = Nil]
                        /\ conf' = Return(conf, t, "ok", Apply)
                        /\ UNCHANGED <<next, prev>>

push_cmpxchg(t) == /\ pc[t] = "cas"
                   /\ seen' = [seen EXCEPT ![t] = Nil]
                   /\ \/ /\ head = seen[t]
                         /\ head' = node[t]
                         /\ Goto(t, "idle")
                         /\ node' = [node EXCEPT ![t] = Nil]
                         /\ conf' = Return(conf, t, "ok", Apply)
                      \/ /\ head # seen[t]
                         /\ Goto(t, "push")
                         /\ UNCHANGED <<head, node, conf>>
                   /\ UNCHANGED <<next, prev>>

\* quack_is_empty: TRUE if there is no element (the comment of the source, "true if there is
\* an element in quack, false otherwise", has it the other way round)
is_empty(t) == /\ pc[t] = "idle"
               /\ conf' = Call(conf, t, "empty?", head = Nil, Apply)
               /\ UNCHANGED <<pc, head, next, node, seen, prev>>

\* quack_popall, whose caller goes on to reverse the list
popall(t) == /\ Step(t, "idle", "reverse")
             /\ seen' = [seen EXCEPT ![t] = head]
             /\ head' = Nil
             /\ conf' = Invoke(conf, t, "popall")
             /\ UNCHANGED <<next, node, prev>>

\* quack_reverse
reverse(t) == /\ pc[t] = "reverse" /\ seen[t] # Nil
              /\ seen' = [seen EXCEPT ![t] = next[seen[t]]]
              /\ next' = [next EXCEPT ![seen[t]] = prev[t]]
              /\ prev' = [prev EXCEPT ![t] = seen[t]]
              /\ UNCHANGED <<pc, head, node, conf>>

reverse_done(t) == /\ Step(t, "reverse", "idle")
                   /\ seen[t] = Nil
                   /\ conf' = Return(conf, t, List(prev[t]), Apply)
                   /\ prev' = [prev EXCEPT ![t] = Nil]
                   /\ UNCHANGED <<head, next, node, seen>>

Progress(t) == push_read(t) \/ push_cmpxchg(t) \/ reverse(t) \/ reverse_done(t)

Next == \E t \in Thread : push(t) \/ is_empty(t) \/ popall(t) \/ Progress(t)

Spec == Init /\ [][Next]_vars

-----------------------------------------------------------------------------
\* "@ingroup lock_free linearizable", without SMR: consumers get every node once and, after
\* quack_reverse, in the order of the pushes, also when nodes are pushed again at once.
Linearizable == conf # {}
=============================================================================
