----------------------------- MODULE ListSetLF -----------------------------
(***************************************************************************)
(* include/vsync/map/listset_lf.h: the lock-free sorted list.  The nodes   *)
(* of a key k are <<k, 1>>, <<k, 2>>, ...; a failed add gives its node     *)
(* back, a node that was in the list is not used again (SMR protects it    *)
(* from the calls that can still see it).                                  *)
(***************************************************************************)
EXTENDS Control, Naturals, FiniteSets

CONSTANTS Key,                  \* an interval of numbers
          Copies,               \* nodes per key: bounds the successful adds
          Nil,
          Lenient               \* whether add may fail although the key is absent

Node == Key \X (1 .. Copies)
Head == <<0, 0>>
Tail == <<0, 1>>                \* compared by address only
All == Node \cup {Head, Tail}

VARIABLES next,                 \* next[n]: [p, m], a pointer with its mark
          retired,              \* how often the callback got each node
          op, key,              \* the call of a thread
          node,                 \* the node t adds
          pred, curr, succ,
          conf

list == <<next, retired>>
call == <<op, key, node>>
path == <<pred, curr, succ>>
vars == <<pc, list, call, path, conf>>

Link(p, m) == [p |-> p, m |-> m]

TypeOK == /\ pc \in [Thread -> {"idle", "find", "next", "snip", "link", "succ", "mark",
                                "detach", "get", "get_mark"}]
          /\ next \in [All -> [p : All \cup {Nil}, m : BOOLEAN]]
          /\ retired \in [Node -> 0 .. 1]
          /\ op \in [Thread -> {Nil, "add", "remove", "get"}]
          /\ key \in [Thread -> Key \cup {Nil}]
          /\ node \in [Thread -> Node \cup {Nil}]
          /\ pred \in [Thread -> All \cup {Nil}] /\ curr \in [Thread -> All \cup {Nil}]
          /\ succ \in [Thread -> All \cup {Nil}]

\* the sequential map: the node of each key, or Nil
Apply(s, c) ==
    {CASE c.op = "get" -> [s |-> s, res |-> s[c.key]]
       [] c.op = "add" /\ s[c.key] = Nil ->
            [s |-> [s EXCEPT ![c.key] = c.node], res |-> TRUE]
       [] c.op = "remove" /\ s[c.key] # Nil -> [s |-> [s EXCEPT ![c.key] = Nil], res |-> TRUE]
       [] OTHER -> [s |-> s, res |-> FALSE]}
    \cup {[s |-> s, res |-> FALSE] : x \in {y \in {c} : Lenient /\ y.op = "add"}}

\* vlistset_init, and some nodes added
Init == \E K \in SUBSET Key :
    LET First(k) == IF \E j \in K : j > k
                    THEN <<CHOOSE j \in K : j > k /\ \A i \in K : i > k => j <= i, 1>>
                    ELSE Tail
    IN /\ pc = [t \in Thread |-> "idle"]
       /\ next = [n \in All |-> CASE n = Head -> Link(First(0), FALSE)
                                  [] n[1] \in K /\ n[2] = 1 -> Link(First(n[1]), FALSE)
                                  [] OTHER -> Link(Nil, FALSE)]
       /\ retired = [n \in Node |-> 0]
       /\ op = [t \in Thread |-> Nil] /\ key = [t \in Thread |-> Nil]
       /\ node = [t \in Thread |-> Nil]
       /\ pred = [t \in Thread |-> Nil] /\ curr = [t \in Thread |-> Nil]
       /\ succ = [t \in Thread |-> Nil]
       /\ conf = Unused([k \in Key |-> IF k \in K THEN <<k, 1>> ELSE Nil], Thread)

-----------------------------------------------------------------------------
Returns(t, r) == /\ Goto(t, "idle")
                 /\ op' = [op EXCEPT ![t] = Nil] /\ key' = [key EXCEPT ![t] = Nil]
                 /\ node' = [node EXCEPT ![t] = Nil]
                 /\ pred' = [pred EXCEPT ![t] = Nil] /\ curr' = [curr EXCEPT ![t] = Nil]
                 /\ succ' = [succ EXCEPT ![t] = Nil]
                 /\ conf' = Return(conf, t, r, Apply)

\* goes on at a label with these pointers
Continue(t, to, p, c, s) == /\ Goto(t, to)
                            /\ pred' = [pred EXCEPT ![t] = p]
                            /\ curr' = [curr EXCEPT ![t] = c]
                            /\ succ' = [succ EXCEPT ![t] = s]
                            /\ UNCHANGED <<call, conf>>

\* VLISTSET_CMP(lst, n, key) == 0
Has(n, t) == n # Tail /\ n[1] = key[t]

\* _vlistset_find has ended with *out_pred = p and *out_curr = c
Found(t, p, c) == \/ op[t] = "add" /\ Has(c, t) /\ Returns(t, FALSE)
                  \/ op[t] = "add" /\ ~Has(c, t) /\ Continue(t, "link", p, c, Nil)
                  \/ op[t] = "remove" /\ ~Has(c, t) /\ Returns(t, FALSE)
                  \/ op[t] = "remove" /\ Has(c, t) /\ Continue(t, "succ", p, c, Nil)

\* the test at the end of the loop of _vlistset_find_loop, then the one at its start
Advance(t, p, c, s) == \/ (c = Tail \/ c[1] >= key[t]) /\ Found(t, p, c)
                       \/ c # Tail /\ c[1] < key[t] /\ s = Tail /\ Found(t, c, s)
                       \/ c # Tail /\ c[1] < key[t] /\ s # Tail /\ Continue(t, "next", c, s, Nil)

RECURSIVE From(_)
From(n) == IF n = Nil THEN {} ELSE {n} \cup From(next[n].p)

\* vlistset_add, vlistset_remove, vlistset_get
start(t, o, k) ==
    LET spare == {i \in 1 .. Copies : /\ next[<<k, i>>].p = Nil
                                      /\ \A u \in Thread : node[u] # <<k, i>>}
        n == IF o = "add" THEN <<k, CHOOSE i \in spare : \A j \in spare : i <= j>> ELSE Nil
    IN /\ Step(t, "idle", IF o = "get" THEN "get" ELSE "find")
       /\ o = "add" => spare # {}
       /\ op' = [op EXCEPT ![t] = o] /\ key' = [key EXCEPT ![t] = k]
       /\ node' = [node EXCEPT ![t] = n]
       /\ curr' = [curr EXCEPT ![t] = IF o = "get" THEN Head ELSE Nil]
       /\ conf' = Invoke(conf, t, [op |-> o, key |-> k, node |-> n])
       /\ UNCHANGED <<list, pred, succ>>

\* _vlistset_find_loop
find_head(t) == LET c == next[Head].p IN
    /\ pc[t] = "find"
    /\ IF c = Tail THEN Found(t, Head, c) ELSE Continue(t, "next", Head, c, Nil)
    /\ UNCHANGED list

find_next(t) == LET l == next[curr[t]] IN
    /\ pc[t] = "next"
    /\ \/ l.m /\ Continue(t, "snip", pred[t], curr[t], l.p)
       \/ ~l.m /\ Advance(t, pred[t], curr[t], l.p)
    /\ UNCHANGED list

\* vatomicptr_markable_cmpxchg
Swap(n, old, new) == next[n] = old /\ next' = [next EXCEPT ![n] = new]

Retire(n) == retired' = [retired EXCEPT ![n] = @ + 1]

\* mutation: goes on from the node that could not be unlinked
find_snip_stay(t) ==
    /\ pc[t] = "snip"
    /\ \/ /\ Swap(pred[t], Link(curr[t], FALSE), Link(succ[t], FALSE))
          /\ Retire(curr[t])
          /\ IF succ[t] = Tail THEN Advance(t, pred[t], curr[t], succ[t])
                               ELSE Continue(t, "next", pred[t], succ[t], Nil)
       \/ /\ next[pred[t]] # Link(curr[t], FALSE)
          /\ Continue(t, "next", pred[t], curr[t], Nil)
          /\ UNCHANGED list

\* After the break the marked node, which is the last one, is still curr.
find_snip(t) ==
    /\ pc[t] = "snip"
    /\ \/ /\ Swap(pred[t], Link(curr[t], FALSE), Link(succ[t], FALSE))
          /\ Retire(curr[t])
          /\ IF succ[t] = Tail THEN Advance(t, pred[t], curr[t], succ[t])
                               ELSE Continue(t, "next", pred[t], succ[t], Nil)
       \/ /\ next[pred[t]] # Link(curr[t], FALSE)
          /\ Continue(t, "find", Nil, Nil, Nil)
          /\ UNCHANGED list

\* mutation: the node is linked behind whatever follows pred by now
add_link_late(t) ==
    /\ pc[t] = "link" /\ ~next[pred[t]].m
    /\ next' = [next EXCEPT ![node[t]] = next[pred[t]],
                            ![pred[t]] = Link(node[t], FALSE)]
    /\ Returns(t, TRUE)
    /\ UNCHANGED retired

add_link(t) ==
    /\ pc[t] = "link"
    /\ \/ /\ next[pred[t]] = Link(curr[t], FALSE)
          /\ next' = [next EXCEPT ![node[t]] = Link(curr[t], FALSE),
                                  ![pred[t]] = Link(node[t], FALSE)]
          /\ Returns(t, TRUE)
       \/ /\ next[pred[t]] # Link(curr[t], FALSE)
          /\ Continue(t, "find", Nil, Nil, Nil)
          /\ UNCHANGED next
    /\ UNCHANGED retired

remove_succ(t) == /\ pc[t] = "succ"
                  /\ Continue(t, "mark", pred[t], curr[t], next[curr[t]].p)
                  /\ UNCHANGED list

\* mutation: attempt_mark, which succeeds for a node that is marked already
remove_mark_attempt(t) ==
    /\ pc[t] = "mark"
    /\ \/ /\ next[curr[t]].p = succ[t]
          /\ next' = [next EXCEPT ![curr[t]].m = TRUE]
          /\ Continue(t, "detach", pred[t], curr[t], succ[t])
       \/ /\ next[curr[t]].p # succ[t]
          /\ Continue(t, "find", Nil, Nil, Nil)
          /\ UNCHANGED next
    /\ UNCHANGED retired

remove_mark(t) ==
    /\ pc[t] = "mark"
    /\ \/ /\ Swap(curr[t], Link(succ[t], FALSE), Link(succ[t], TRUE))
          /\ Continue(t, "detach", pred[t], curr[t], succ[t])
       \/ /\ next[curr[t]] # Link(succ[t], FALSE)
          /\ Continue(t, "find", Nil, Nil, Nil)
          /\ UNCHANGED next
    /\ UNCHANGED retired

\* mutation: the node is retired also when it is still linked
remove_detach_retire(t) ==
    /\ pc[t] = "detach"
    /\ \/ Swap(pred[t], Link(curr[t], FALSE), Link(succ[t], FALSE))
       \/ next[pred[t]] # Link(curr[t], FALSE) /\ UNCHANGED next
    /\ Retire(curr[t])
    /\ Returns(t, TRUE)

remove_detach(t) ==
    /\ pc[t] = "detach"
    /\ \/ Swap(pred[t], Link(curr[t], FALSE), Link(succ[t], FALSE)) /\ Retire(curr[t])
       \/ next[pred[t]] # Link(curr[t], FALSE) /\ UNCHANGED list
    /\ Returns(t, TRUE)

get_next(t) == LET c == next[curr[t]].p IN
    /\ pc[t] = "get"
    /\ \/ c # Tail /\ c[1] < key[t] /\ Continue(t, "get", Nil, c, Nil)
       \/ Has(c, t) /\ Continue(t, "get_mark", Nil, c, Nil)
       \/ (c = Tail \/ c[1] > key[t]) /\ Returns(t, Nil)
    /\ UNCHANGED list

get_mark(t) == /\ pc[t] = "get_mark"
               /\ Returns(t, IF next[curr[t]].m THEN Nil ELSE curr[t])
               /\ UNCHANGED list

Progress(t) == \/ find_head(t) \/ find_next(t) \/ find_snip(t) \/ add_link(t)
               \/ remove_succ(t) \/ remove_mark(t) \/ remove_detach(t)
               \/ get_next(t) \/ get_mark(t)

Next == \E t \in Thread : Progress(t) \/ \E o \in {"add", "remove", "get"}, k \in Key : start(t, o, k)

Spec == Init /\ [][Next]_vars

-----------------------------------------------------------------------------
\* "@ingroup linearizable".  With Lenient, an add may also fail for no reason.
Linearizable == conf # {}

\* What SMR relies on: a node is retired once, and a call that begins later cannot
\* reach it.
RetiredOnce == \A n \in Node : retired[n] > 0 => retired[n] = 1 /\ n \notin From(Head)

\* The list stays sorted, with one unmarked node per key, whatever is inserted or
\* removed next to what.
Sorted == \A n \in From(Head) \ {Head, Tail} :
    /\ next[n].p # Tail => n[1] <= next[n].p[1]
    /\ ~next[n].m /\ next[n].p # Tail => n[1] < next[n].p[1]
=============================================================================
