------------------------------ MODULE SkipList ------------------------------
(***************************************************************************)
(* include/vsync/map/skiplist_lf.h and internal/skiplist: the lock-free    *)
(* skiplist.  A node of height h is in the sorted lists of the levels 0 .. *)
(* h - 1; it belongs to the set from the cmpxchg that links it on level 0  *)
(* to the one that marks it there.  The nodes of a key k are <<k, 1>>,     *)
(* <<k, 2>>, ..., each used once as long as SMR may have to protect it.    *)
(*                                                                         *)
(* Searches start on level max_height - 1, which no node ever reaches      *)
(* (_vskiplist_get_rand_height): that level, and the link of the tail,     *)
(* which is constant too, are not read here.                               *)
(***************************************************************************)
EXTENDS Control, Naturals, FiniteSets

CONSTANTS Key,                  \* an interval of numbers from 1
          Copies,               \* nodes per key: bounds the successful adds
          Height,               \* the possible heights, 1 .. max_height - 1
          Nil

VARIABLES next,                 \* next[n][l]: [p, m], the link of n on level l, with its mark
          height,               \* height[n], 0 before the first add of n
          non_snipped,          \* non_snipped[n]: non_snipped_level
          retired,              \* how often the callback got each node
          loc,                  \* loc[t]: the call of t and its local variables
          conf                  \* the linearizations of the calls so far

list == <<next, height, non_snipped, retired>>
vars == <<pc, list, loc, conf>>

Node == Key \X (1 .. Copies)
Head == <<0, 0>>
Tail == <<0, 1>>                \* compared by address only
All == Node \cup {Head, Tail}
Max == CHOOSE k \in Key : \A j \in Key : j <= k
Level == {h - 1 : h \in Height}
Top == CHOOSE l \in Level : \A i \in Level : i <= l

Link(p, m) == [p |-> p, m |-> m]
Path == [l \in Level |-> Nil]

\* phase: what the search is for: the first one of a call, one that finds the upper levels
\* again, or one that unlinks the node.  level: where the search or the marking is; link: the
\* level on which node is linked next; preds and succs are kept as long as they are needed.
Idle == [op |-> Nil, key |-> 0, node |-> Nil, h |-> 0, phase |-> Nil, level |-> 0, link |-> 0,
         pred |-> Nil, curr |-> Nil, succ |-> Nil, mark |-> FALSE, preds |-> Path, succs |-> Path]

TypeOK ==
    /\ pc \in [Thread -> {"idle", "down", "next", "snip", "dec", "link", "get", "fix", "connect",
                          "mark_get", "mark", "skip"}]
    /\ next \in [All -> [Level -> [p : All \cup {Nil}, m : BOOLEAN]]]
    /\ height \in [Node -> {0} \cup Height] /\ non_snipped \in [Node -> {0} \cup Height]
    /\ retired \in [Node -> 0 .. 1]
    /\ loc \in [Thread -> [op : {Nil, "add", "remove", "lookup", "cleanup"}, key : 0 .. Max + 1,
                           node : Node \cup {Nil}, h : {0} \cup Height,
                           phase : {Nil, "first", "again", "detach"}, level : Level,
                           link : Level, pred : All \cup {Nil}, curr : All \cup {Nil},
                           succ : All \cup {Nil}, mark : BOOLEAN,
                           preds : [Level -> All \cup {Nil}], succs : [Level -> All \cup {Nil}]]]

\* the sequential map: the node of each key, or Nil
Apply(s, c) ==
    {CASE c.op = "lookup" -> [s |-> s, res |-> s[c.key]]
       [] c.op = "add" /\ s[c.key] = Nil -> [s |-> [s EXCEPT ![c.key] = c.node], res |-> TRUE]
       [] c.op = "remove" /\ s[c.key] # Nil -> [s |-> [s EXCEPT ![c.key] = Nil], res |-> TRUE]
       [] OTHER -> [s |-> s, res |-> FALSE]}

\* vskiplist_init
Init == /\ pc = [t \in Thread |-> "idle"]
        /\ next = [n \in All |-> [l \in Level |-> Link(IF n = Head THEN Tail ELSE Nil, FALSE)]]
        /\ height = [n \in Node |-> 0] /\ non_snipped = [n \in Node |-> 0]
        /\ retired = [n \in Node |-> 0]
        /\ loc = [t \in Thread |-> Idle]
        /\ conf = Unused([k \in Key |-> Nil], Thread)

-----------------------------------------------------------------------------
Continue(t, to, l) == /\ Goto(t, to)
                      /\ loc' = [loc EXCEPT ![t] = l]
                      /\ UNCHANGED conf

Returns(t, r) == /\ Goto(t, "idle")
                 /\ loc' = [loc EXCEPT ![t] = Idle]
                 /\ conf' = Return(conf, t, r, Apply)

\* fun_cmp(n, key) < 0 and == 0
Before(n, l) == n # Tail /\ n[1] < l.key
Has(n, l) == n # Tail /\ n[1] = l.key

\* a search begins at the head, and does so again after RETRY
Search(l, phase) == [l EXCEPT !.phase = phase, !.level = Top, !.pred = Head, !.curr = Nil,
                              !.succ = Nil]

\* the search has ended with l.curr on level 0, and the call goes on
Found(t, l) ==
    \/ l.op = "lookup" /\ Returns(t, IF Has(l.curr, l) THEN l.curr ELSE Nil)
    \/ l.op = "cleanup" /\ Returns(t, FALSE)
    \/ l.op # "lookup" /\ l.phase = "first" /\ (l.op = "add") = Has(l.curr, l) /\ Returns(t, FALSE)
    \/ /\ l.op = "add" /\ l.phase = "first" /\ ~Has(l.curr, l)
       /\ Continue(t, "link", [l EXCEPT !.pred = Nil, !.curr = Nil])
    \/ /\ l.op = "add" /\ l.phase = "again"
       /\ Continue(t, "get", [l EXCEPT !.pred = Nil, !.curr = Nil])
    \/ /\ l.op = "remove" /\ l.phase = "first" /\ Has(l.curr, l)
       /\ Continue(t, "mark_get", [Idle EXCEPT !.op = "remove", !.key = l.key, !.node = l.curr,
                                               !.level = height[l.curr] - 1])
    \/ l.op = "remove" /\ l.phase = "detach" /\ Returns(t, TRUE)

\* the search leaves its level between l.pred and l.curr
Descend(t, l) ==
    LET kept == l.op = "add" /\ l.level < l.h /\ l.level >= l.link
        m == IF kept THEN [l EXCEPT !.preds[l.level] = l.pred, !.succs[l.level] = l.curr] ELSE l
    IN IF l.level = 0 THEN Found(t, m)
       ELSE Continue(t, "down", [m EXCEPT !.level = @ - 1, !.curr = Nil])

\* the search goes on with the neighbours p and c
Arrive(t, p, c) == LET l == [loc[t] EXCEPT !.pred = p, !.curr = c, !.succ = Nil]
                   IN IF c = Tail THEN Descend(t, l) ELSE Continue(t, "next", l)

\* vskiplist_add, with the height of calc_node_sz; vskiplist_remove, _lookup, _cleanup
start(t, o, k) ==
    LET spare == {i \in 1 .. Copies : /\ height[<<k, i>>] = 0
                                      /\ \A u \in Thread : loc[u].node # <<k, i>>}
        n == IF o = "add" THEN <<k, CHOOSE i \in spare : \A j \in spare : i <= j>> ELSE Nil
    IN /\ Step(t, "idle", "down")
       /\ o = "add" => spare # {}
       /\ \E h \in IF o = "add" THEN Height ELSE {0} :
             loc' = [loc EXCEPT ![t] =
                        Search([Idle EXCEPT !.op = o, !.key = k, !.node = n, !.h = h], "first")]
       /\ conf' = Invoke(conf, t, [op |-> o, key |-> k, node |-> n])
       /\ UNCHANGED list

-----------------------------------------------------------------------------
\* _vskiplist_find, vskiplist_cleanup, which looks for a key behind all others, and
\* _vskiplist_lookup, which skips the marked nodes that the others unlink
find_down(t) == LET l == loc[t] IN
    /\ pc[t] = "down"
    /\ Arrive(t, l.pred, next[l.pred][l.level].p)
    /\ UNCHANGED list

find_next(t) == LET l == loc[t]
                    n == next[l.curr][l.level] IN
    /\ pc[t] = "next"
    /\ \/ n.m /\ l.op = "lookup" /\ Continue(t, "skip", l)
       \/ n.m /\ l.op # "lookup" /\ Continue(t, "snip", [l EXCEPT !.succ = n.p])
       \/ ~n.m /\ Before(l.curr, l) /\ Arrive(t, l.curr, n.p)
       \/ ~n.m /\ ~Before(l.curr, l) /\ Descend(t, l)
    /\ UNCHANGED list

lookup_skip(t) == LET l == loc[t] IN
    /\ pc[t] = "skip"
    /\ Arrive(t, l.pred, next[l.curr][l.level].p)
    /\ UNCHANGED list

\* vatomicptr_markable_cmpxchg
Swap(n, l, old, new) == next[n][l] = old /\ next' = [next EXCEPT ![n][l] = new]

find_snip(t) == LET l == loc[t] IN
    /\ pc[t] = "snip"
    /\ \/ /\ Swap(l.pred, l.level, Link(l.curr, FALSE), Link(l.succ, FALSE))
          /\ Continue(t, "dec", [l EXCEPT !.succ = Nil])
       \/ /\ next[l.pred][l.level] # Link(l.curr, FALSE)
          /\ Continue(t, "down", Search(l, l.phase))
          /\ UNCHANGED next
    /\ UNCHANGED <<height, non_snipped, retired>>

\* mutation: the level that removes the node from the set retires it
find_dec_bottom(t) == LET l == loc[t] IN
    /\ pc[t] = "dec"
    /\ non_snipped' = [non_snipped EXCEPT ![l.curr] = @ - 1]
    /\ retired' = [retired EXCEPT ![l.curr] = IF l.level = 0 THEN @ + 1 ELSE @]
    /\ Continue(t, "down", [l EXCEPT !.curr = Nil])
    /\ UNCHANGED <<next, height>>

\* the last level to let go of the node retires it
find_dec(t) == LET l == loc[t] IN
    /\ pc[t] = "dec"
    /\ non_snipped' = [non_snipped EXCEPT ![l.curr] = @ - 1]
    /\ retired' = [retired EXCEPT ![l.curr] = IF non_snipped[l.curr] = 1 THEN @ + 1 ELSE @]
    /\ Continue(t, "down", [l EXCEPT !.curr = Nil])
    /\ UNCHANGED <<next, height>>

-----------------------------------------------------------------------------
\* vskiplist_add: the node, with the links of all its levels, appears on level 0
add_link(t) == LET l == loc[t] IN
    /\ pc[t] = "link"
    /\ \/ /\ next[l.preds[0]][0] = Link(l.succs[0], FALSE)
          /\ next' = [next EXCEPT
                        ![l.preds[0]][0] = Link(l.node, FALSE),
                        ![l.node] = [i \in Level |-> Link(l.succs[i], FALSE)]]
          /\ height' = [height EXCEPT ![l.node] = l.h]
          /\ non_snipped' = [non_snipped EXCEPT ![l.node] = l.h]
          /\ \/ l.h = 1 /\ Returns(t, TRUE)
             \/ /\ l.h > 1
                /\ Continue(t, "get", [l EXCEPT !.preds[0] = Nil, !.succs[0] = Nil, !.link = 1])
       \/ /\ next[l.preds[0]][0] # Link(l.succs[0], FALSE)
          /\ Continue(t, "down", Search([l EXCEPT !.preds = Path, !.succs = Path], "first"))
          /\ UNCHANGED <<next, height, non_snipped>>
    /\ UNCHANGED retired

\* mutation: the node keeps the successor of the first search
add_get_stale(t) == Step(t, "get", "connect") /\ UNCHANGED <<list, loc, conf>>

\* the link of the node on its next level must be the successor found
add_get(t) == LET l == loc[t]
                  n == next[l.node][l.link] IN
    /\ pc[t] = "get"
    /\ \/ n.p = l.succs[l.link] /\ Continue(t, "connect", l)
       \/ n.p # l.succs[l.link] /\ Continue(t, "fix", [l EXCEPT !.succ = n.p, !.mark = n.m])
    /\ UNCHANGED list

add_fix(t) == LET l == loc[t]
                  m == [l EXCEPT !.succ = Nil, !.mark = FALSE] IN
    /\ pc[t] = "fix"
    /\ \/ /\ Swap(l.node, l.link, Link(l.succ, l.mark), Link(l.succs[l.link], l.mark))
          /\ Continue(t, "connect", m)
       \/ /\ next[l.node][l.link] # Link(l.succ, l.mark)
          /\ Continue(t, "get", m)
          /\ UNCHANGED next
    /\ UNCHANGED <<height, non_snipped, retired>>

add_connect(t) == LET l == loc[t] IN
    /\ pc[t] = "connect"
    /\ \/ /\ Swap(l.preds[l.link], l.link, Link(l.succs[l.link], FALSE), Link(l.node, FALSE))
          /\ \/ l.link + 1 = l.h /\ Returns(t, TRUE)
             \/ /\ l.link + 1 < l.h
                /\ Continue(t, "get", [l EXCEPT !.preds[l.link] = Nil, !.succs[l.link] = Nil,
                                                !.link = @ + 1])
       \/ /\ next[l.preds[l.link]][l.link] # Link(l.succs[l.link], FALSE)
          /\ Continue(t, "down", Search([l EXCEPT !.preds = Path, !.succs = Path], "again"))
          /\ UNCHANGED next
    /\ UNCHANGED <<height, non_snipped, retired>>

-----------------------------------------------------------------------------
\* _vskiplist_logically_remove_node goes down a level; who marks level 0 has removed the node
Marked(t, l, i_marked_it) ==
    \/ l.level > 0 /\ Continue(t, "mark_get", [l EXCEPT !.level = @ - 1, !.succ = Nil])
    \/ l.level = 0 /\ i_marked_it /\ Continue(t, "down", Search(l, "detach"))
    \/ l.level = 0 /\ ~i_marked_it /\ Returns(t, FALSE)

\* mutation: a mark that another thread has set counts as its own
mark_get_any(t) == LET l == loc[t]
                       n == next[l.node][l.level] IN
    /\ pc[t] = "mark_get"
    /\ \/ n.m /\ Marked(t, l, TRUE)
       \/ ~n.m /\ Continue(t, "mark", [l EXCEPT !.succ = n.p])
    /\ UNCHANGED list

mark_get(t) == LET l == loc[t]
                   n == next[l.node][l.level] IN
    /\ pc[t] = "mark_get"
    /\ \/ n.m /\ Marked(t, l, FALSE)
       \/ ~n.m /\ Continue(t, "mark", [l EXCEPT !.succ = n.p])
    /\ UNCHANGED list

mark(t) == LET l == loc[t] IN
    /\ pc[t] = "mark"
    /\ \/ /\ Swap(l.node, l.level, Link(l.succ, FALSE), Link(l.succ, TRUE))
          /\ Marked(t, l, TRUE)
       \/ /\ next[l.node][l.level] # Link(l.succ, FALSE)
          /\ Continue(t, "mark_get", [l EXCEPT !.succ = Nil])
          /\ UNCHANGED next
    /\ UNCHANGED <<height, non_snipped, retired>>

Progress(t) == \/ find_down(t) \/ find_next(t) \/ find_snip(t) \/ find_dec(t) \/ lookup_skip(t)
               \/ add_link(t) \/ add_get(t) \/ add_fix(t) \/ add_connect(t)
               \/ mark_get(t) \/ mark(t)

Next == \E t \in Thread : \/ Progress(t) \/ start(t, "cleanup", Max + 1)
                          \/ \E o \in {"add", "remove", "lookup"}, k \in Key : start(t, o, k)

Spec == Init /\ [][Next]_vars

-----------------------------------------------------------------------------
RECURSIVE From(_, _)
From(n, l) == IF n \in {Tail, Nil} THEN {} ELSE {n} \cup From(next[n][l].p, l)

\* the levels on which n is in a list; is still to be linked; is unlinked but not yet counted
In(n) == {l \in Level : n \in From(Head, l)}
ToLink(n) == UNION {{i \in Level : i >= loc[t].link /\ i < loc[t].h} :
                       t \in {u \in Thread : loc[u].node = n /\ loc[u].link > 0}}
Snipping(n) == {t \in Thread : pc[t] = "dec" /\ loc[t].curr = n}

\* "@ingroup linearizable" of the map; see vskiplist_add, _remove and _lookup.
Linearizable == conf # {}

\* Every level is sorted, with one unmarked node per key, whatever is linked or unlinked
\* next to what.  (A marked node may stay behind a new one of its key.)
Sorted == \A l \in Level : \A n \in From(Head, l) \ {Head} :
    LET s == next[n][l].p
    IN /\ l < height[n]
       /\ s # Tail => n[1] <= s[1]
       /\ s # Tail /\ ~next[n][l].m /\ ~next[s][l].m => n[1] < s[1]

\* non_snipped_level is the number of levels that can still lead to the node, now or once the
\* thread that adds it has linked it there.  So a node is retired once, and when no call
\* that begins later can reach it.
SnipCount == \A n \in Node : height[n] > 0 =>
    /\ non_snipped[n] = Cardinality(In(n)) + Cardinality(ToLink(n)) + Cardinality(Snipping(n))
    /\ In(n) \cap ToLink(n) = {}
    /\ retired[n] = IF non_snipped[n] = 0 THEN 1 ELSE 0
=============================================================================
