------------------------------- MODULE TreeSet -------------------------------
(***************************************************************************)
(* include/vsync/map/treeset_rb_fine.h, treeset_bst_fine.h (Balanced is    *)
(* FALSE) and the _coarse ones, which run the same code under one lock.    *)
(* The elements are the external nodes; an internal node only leads to     *)
(* them: keys below its own to the left, the others to the right.          *)
(*                                                                         *)
(* A step acquires a lock and does what follows until the next acquire,    *)
(* releases included.  LocksProtect says why no finer steps are needed:    *)
(* only the holder of a node changes its children and their colours.       *)
(* Values are left out.                                                    *)
(***************************************************************************)
EXTENDS Control, Integers, FiniteSets, FiniteSetsExt

CONSTANTS Balanced,         \* red-black tree or plain search tree
          OneLock,          \* one lock for the tree or one per node
          Key, Nil

VARIABLES node,             \* the nodes: key, external, red, child[1 .. 2]
          lock,             \* lock[n]: the threads that hold it; several only if they read
          loc,              \* loc[t]: the call of t, its key and its pointers
          conf              \* the linearizations of the calls so far

vars == <<pc, node, lock, loc, conf>>

Head == 0                   \* head_sentinel
Tree == -1                  \* the coarse lock
Nodes == Key \cup {-1 - k : k \in Key}
Ops == {"add", "remove", "contains"}

Free == [key |-> 0, ext |-> FALSE, red |-> FALSE, child |-> <<Nil, Nil>>]
Idle == [op |-> Nil, key |-> 0, gg |-> Nil, g |-> Nil, f |-> Nil, x |-> Nil, y |-> Nil,
         f_red |-> FALSE]

TypeOK ==
    /\ pc \in [Thread -> {"idle", "enter", "head", "root", "x", "red", "y", "f", "sibling",
                          "brother", "nephew", "unlink"}]
    /\ node \in [Nodes \cup {Head} -> [key : Key \cup {0}, ext : BOOLEAN, red : BOOLEAN,
                                       child : (Nodes \cup {Nil}) \X (Nodes \cup {Nil})]]
    /\ lock \in [Nodes \cup {Head, Tree} -> SUBSET Thread]
    /\ loc \in [Thread -> [op : Ops \cup {Nil}, key : Key \cup {0},
                           gg : Nodes \cup {Head, Nil}, g : Nodes \cup {Head, Nil},
                           f : Nodes \cup {Head, Nil}, x : Nodes \cup {Nil},
                           y : Nodes \cup {Nil}, f_red : BOOLEAN]]

\* treeset_init
Init == /\ pc = [t \in Thread |-> "idle"]
        /\ node = [n \in Nodes \cup {Head} |-> Free]
        /\ lock = [n \in Nodes \cup {Head, Tree} |-> {}]
        /\ loc = [t \in Thread |-> Idle]
        /\ conf = Unused({}, Thread)

\* the sequential set
Apply(s, o) == {CASE o[1] = "add" -> [s |-> s \cup {o[2]}, res |-> o[2] \notin s]
                  [] o[1] = "remove" -> [s |-> s \ {o[2]}, res |-> o[2] \in s]
                  [] o[1] = "contains" -> [s |-> s, res |-> o[2] \in s]}

-----------------------------------------------------------------------------
\* c##n of the code: the child of n on the path to k; everything is left of the head
Dir(T, n, k) == IF n # Head /\ T[n].key <= k THEN 2 ELSE 1
Other(c) == 3 - c
Child(T, n, k) == T[n].child[Dir(T, n, k)]
Sibling(T, n, k) == T[n].child[Other(Dir(T, n, k))]
Red(T, n) == {c \in 1 .. 2 : T[T[n].child[c]].red}

External(k) == [key |-> k, ext |-> TRUE, red |-> FALSE, child |-> <<Nil, Nil>>]

\* _treeset_get_node: an address is taken to depend on the key and kind of the node; TreeIntact
\* says that no node with both is there already
Outer(k) == k
Inner(k) == -1 - k

\* _treeset_rebalance: f and x, a child of f, are red; g is above them, then gg
Rebalance(T, gg, g, f, x, k) ==
    LET cgg == Dir(T, gg, k)
        cg == Dir(T, g, k)
    IN IF cg = Dir(T, f, k)
       THEN [T EXCEPT ![g] = [@ EXCEPT !.child[cg] = T[f].child[Other(cg)], !.red = TRUE],
                      ![f] = [@ EXCEPT !.child[Other(cg)] = g, !.red = FALSE],
                      ![gg].child[cgg] = f]
       ELSE [T EXCEPT ![g] = [@ EXCEPT !.child[cg] = T[x].child[Other(cg)], !.red = TRUE],
                      ![f].child[Other(cg)] = T[x].child[cg],
                      ![x] = [@ EXCEPT !.child = [c \in 1 .. 2 |-> IF c = cg THEN f ELSE g],
                                       !.red = FALSE],
                      ![gg].child[cgg] = x]

\* the node _treeset_rebalance has locked when it goes on to y
Kept(T, g, f, x, k) == IF Dir(T, g, k) = Dir(T, f, k) THEN x
                       ELSE IF Dir(T, x, k) = Dir(T, g, k) THEN f ELSE g

-----------------------------------------------------------------------------
Held(t) == {n \in DOMAIN lock : t \in lock[n]}
Reads(t) == loc[t].op = "contains"

\* l_acquire or l_reader_acquire of n succeeds
Obtains(t, n) == lock[n] = {} \/ (Reads(t) /\ \A u \in lock[n] : Reads(u))

\* t holds the locks of the nodes S and no others
Holding(t, S) == lock' = [n \in DOMAIN lock |-> IF n \in S THEN lock[n] \cup {t}
                                                          ELSE lock[n] \ {t}]

\* the same with node locks, which a tree with one lock for all does not have
Acquires(t, n) == OneLock \/ Obtains(t, n)
Keeping(t, S) == IF OneLock THEN UNCHANGED lock ELSE Holding(t, S)

Descend(t, to, l) == /\ Goto(t, to)
                     /\ loc' = [loc EXCEPT ![t] = l]
                     /\ UNCHANGED conf

\* the call returns r and has released every lock
Finish(t, r) == /\ Goto(t, "idle")
                /\ loc' = [loc EXCEPT ![t] = Idle]
                /\ Holding(t, {})
                /\ conf' = Return(conf, t, r, Apply)

begin(t) == \E op \in Ops, k \in Key :
    /\ Step(t, "idle", IF OneLock THEN "enter" ELSE "head")
    /\ loc' = [loc EXCEPT ![t] = [Idle EXCEPT !.op = op, !.key = k]]
    /\ conf' = Invoke(conf, t, <<op, k>>)
    /\ UNCHANGED <<node, lock>>

\* the coarse lock
enter(t) == /\ Step(t, "enter", "head")
            /\ Obtains(t, Tree)
            /\ Holding(t, {Tree})
            /\ UNCHANGED <<node, loc, conf>>

\* the head, and the tree without elements
head(t) ==
    LET l == loc[t]
        x == node[Head].child[1]
    IN /\ pc[t] = "head"
       /\ Acquires(t, Head)
       /\ \/ /\ x = Nil /\ l.op = "add"
             /\ node' = [node EXCEPT ![Head].child[1] = Outer(l.key),
                                     ![Outer(l.key)] = External(l.key)]
             /\ Finish(t, TRUE)
          \/ /\ x = Nil /\ l.op # "add"
             /\ Finish(t, FALSE)
             /\ UNCHANGED node
          \/ /\ x # Nil
             /\ Descend(t, IF l.op = "remove" THEN "root" ELSE "x",
                        [l EXCEPT !.f = Head, !.x = x])
             /\ Keeping(t, {Head})
             /\ UNCHANGED node

-----------------------------------------------------------------------------
\* treeset_contains
contains_x(t) ==
    LET l == loc[t]
    IN /\ pc[t] = "x" /\ l.op = "contains"
       /\ Acquires(t, l.x)
       /\ \/ node[l.x].ext /\ Finish(t, node[l.x].key = l.key)
          \/ /\ ~node[l.x].ext
             /\ Descend(t, "x", [l EXCEPT !.f = l.x, !.x = Child(node, l.x, l.key)])
             /\ Keeping(t, {l.x})
       /\ UNCHANGED node

-----------------------------------------------------------------------------
\* treeset_add: the search has ended at the external node x
add_leaf(t) ==
    LET l == loc[t]
        new == Outer(l.key)
        mid == [key |-> Max({l.key, node[l.x].key}), ext |-> FALSE,
                red |-> Balanced /\ l.f # Head,
                child |-> IF node[l.x].key < l.key THEN <<l.x, new>> ELSE <<new, l.x>>]
        T == [node EXCEPT ![new] = External(l.key), ![Inner(mid.key)] = mid,
                          ![l.f].child[Dir(node, l.f, l.key)] = Inner(mid.key)]
    IN /\ pc[t] = "x" /\ l.op = "add" /\ node[l.x].ext
       /\ Acquires(t, l.x)
       /\ \/ /\ node[l.x].key = l.key
             /\ Finish(t, FALSE)
             /\ UNCHANGED node
          \/ /\ node[l.x].key # l.key
             /\ Finish(t, TRUE)
             /\ node' = IF l.f_red THEN Rebalance(T, l.gg, l.g, l.f, Inner(mid.key), l.key) ELSE T

\* cases 3 and 4: both children are red, and x becomes so instead of them
add_split(t) ==
    LET l == loc[t]
        y == Child(node, l.x, l.key)
        T == [node EXCEPT ![node[l.x].child[1]].red = FALSE,
                          ![node[l.x].child[2]].red = FALSE, ![l.x].red = l.f # Head]
        x == IF l.f_red THEN Kept(T, l.g, l.f, l.x, l.key) ELSE l.x
    IN /\ pc[t] = "x" /\ l.op = "add" /\ ~node[l.x].ext
       /\ Red(node, l.x) = {1, 2}
       /\ Acquires(t, l.x)
       /\ node' = IF l.f_red THEN Rebalance(T, l.gg, l.g, l.f, l.x, l.key) ELSE T
       /\ Descend(t, "y", [Idle EXCEPT !.op = "add", !.key = l.key, !.x = x, !.y = y])
       /\ Keeping(t, {x})

\* mutation: the father of x is released although a rotation below x may have to change it
add_down_early(t) ==
    LET l == loc[t]
        y == Child(node, l.x, l.key)
    IN /\ pc[t] = "x" /\ l.op = "add" /\ ~node[l.x].ext
       /\ Red(node, l.x) # {1, 2}
       /\ Acquires(t, l.x)
       /\ \/ /\ node[y].red
             /\ Descend(t, "red", [l EXCEPT !.gg = l.f, !.g = l.x, !.x = y])
             /\ Keeping(t, {l.x})
          \/ /\ ~node[y].red
             /\ Descend(t, "x", [Idle EXCEPT !.op = "add", !.key = l.key, !.f = l.x, !.x = y])
             /\ Keeping(t, {l.x})
       /\ UNCHANGED node

\* cases 1 and 2: on to the red child, keeping the nodes a rotation may need, or to the black one
add_down(t) ==
    LET l == loc[t]
        y == Child(node, l.x, l.key)
    IN /\ pc[t] = "x" /\ l.op = "add" /\ ~node[l.x].ext
       /\ Red(node, l.x) # {1, 2}
       /\ Acquires(t, l.x)
       /\ \/ /\ node[y].red
             /\ Descend(t, "red", [l EXCEPT !.gg = l.f, !.g = l.x, !.x = y])
             /\ Keeping(t, {l.f, l.x})
          \/ /\ ~node[y].red
             /\ Descend(t, "x", [Idle EXCEPT !.op = "add", !.key = l.key, !.f = l.x, !.x = y])
             /\ Keeping(t, {l.x})
       /\ UNCHANGED node

add_red(t) ==
    LET l == loc[t]
    IN /\ pc[t] = "red"
       /\ Acquires(t, l.x)
       /\ Descend(t, "x", [l EXCEPT !.f = l.x, !.x = Child(node, l.x, l.key), !.f_red = TRUE])
       /\ Keeping(t, {l.gg, l.g, l.x})
       /\ UNCHANGED node

add_y(t) ==
    LET l == loc[t]
    IN /\ pc[t] = "y"
       /\ Acquires(t, l.y)
       /\ Descend(t, "x", [l EXCEPT !.f = l.y, !.x = Child(node, l.y, l.key), !.y = Nil])
       /\ Keeping(t, {l.y})
       /\ UNCHANGED node

-----------------------------------------------------------------------------
\* treeset_remove: x is external; if it is the one, its sibling takes the place of its father
remove_leaf(t) ==
    LET l == loc[t]
    IN /\ node[l.x].ext
       /\ \/ node[l.x].key # l.key /\ Finish(t, FALSE)
          \/ /\ node[l.x].key = l.key
             /\ Descend(t, "unlink", [l EXCEPT !.y = Sibling(node, l.f, l.key)])
             /\ Keeping(t, {l.g, l.f, l.x})
       /\ UNCHANGED node

\* from x to its child without a change of the tree
Down(l) == [l EXCEPT !.g = l.f, !.f = l.x, !.x = Child(node, l.x, l.key)]

remove_down(t) == LET l == loc[t]
                  IN Descend(t, "x", Down(l)) /\ Keeping(t, {l.f, l.x}) /\ UNCHANGED node

\* the father of the next x has to be red: the child of x on the path is, or the other one
remove_red(t) ==
    LET l == loc[t]
        y == Child(node, l.x, l.key)
        s == Sibling(node, l.x, l.key)
    IN /\ \/ /\ node[y].red
             /\ Descend(t, "f", [l EXCEPT !.g = l.x, !.f = y])
             /\ Keeping(t, {l.x})
          \/ /\ ~node[y].red /\ node[s].red
             /\ Descend(t, "sibling", [l EXCEPT !.g = Nil, !.y = s])
             /\ Keeping(t, {l.f, l.x})
       /\ UNCHANGED node

remove_root(t) ==
    LET l == loc[t]
        x == node[l.x]
    IN /\ pc[t] = "root"
       /\ Acquires(t, l.x)
       /\ \/ x.ext /\ x.key # l.key /\ Finish(t, FALSE) /\ UNCHANGED node
          \/ /\ x.ext /\ x.key = l.key
             /\ node' = [node EXCEPT ![Head].child[1] = Nil, ![l.x] = Free]
             /\ Finish(t, TRUE)
          \/ ~x.ext /\ Red(node, l.x) = {} /\ remove_down(t)
          \/ ~x.ext /\ Red(node, l.x) # {} /\ remove_red(t)

remove_x(t) ==
    LET l == loc[t]
    IN /\ pc[t] = "x" /\ l.op = "remove"
       /\ Acquires(t, l.x)
       /\ \/ remove_leaf(t)
          \/ ~node[l.x].ext /\ ~Balanced /\ remove_down(t)
          \/ ~node[l.x].ext /\ Balanced /\ Red(node, l.x) # {} /\ remove_red(t)
          \/ /\ ~node[l.x].ext /\ Balanced /\ Red(node, l.x) = {}
             /\ Descend(t, "brother", [l EXCEPT !.y = Sibling(node, l.f, l.key)])
             /\ Keeping(t, {l.g, l.f, l.x})
             /\ UNCHANGED node

\* case 1
remove_f(t) ==
    LET l == loc[t]
    IN /\ pc[t] = "f"
       /\ Acquires(t, l.f)
       /\ Descend(t, "x", [l EXCEPT !.x = Child(node, l.f, l.key)])
       /\ Keeping(t, {l.g, l.f})
       /\ UNCHANGED node

\* case 2: the red sibling of the path goes above x
remove_sibling(t) ==
    LET l == loc[t]
        cx == Dir(node, l.x, l.key)
    IN /\ pc[t] = "sibling"
       /\ Acquires(t, l.y)
       /\ node' = [node EXCEPT
             ![l.x] = [@ EXCEPT !.child[Other(cx)] = node[l.y].child[cx], !.red = TRUE],
             ![l.y] = [@ EXCEPT !.child[cx] = l.x, !.red = FALSE],
             ![l.f].child[Dir(node, l.f, l.key)] = l.y]
       /\ Descend(t, "x", [Down(l) EXCEPT !.g = l.y, !.y = Nil])
       /\ Keeping(t, {l.y, l.x})

\* cases 3 and 4: x and its brother y have no red child, or the brother has one
remove_brother(t) ==
    LET l == loc[t]
        cf == Dir(node, l.f, l.key)
    IN /\ pc[t] = "brother"
       /\ Acquires(t, l.y)
       /\ \/ /\ Red(node, l.y) = {}
             /\ node' = [node EXCEPT ![l.f].red = FALSE, ![l.x].red = TRUE, ![l.y].red = TRUE]
             /\ Descend(t, "x", [Down(l) EXCEPT !.y = Nil])
             /\ Keeping(t, {l.f, l.x})
          \/ /\ cf \in Red(node, l.y)
             /\ Descend(t, "nephew", [l EXCEPT !.gg = l.y, !.y = node[l.y].child[cf]])
             /\ Keeping(t, {l.g, l.f, l.x, l.y})
             /\ UNCHANGED node
          \/ /\ Red(node, l.y) = {Other(cf)}
             /\ node' = [node EXCEPT
                   ![l.f] = [@ EXCEPT !.child[Other(cf)] = node[l.y].child[cf], !.red = FALSE],
                   ![l.y] = [@ EXCEPT !.child[cf] = l.f, !.red = l.g # Head],
                   ![node[l.y].child[Other(cf)]].red = FALSE,
                   ![l.g].child[Dir(node, l.g, l.key)] = l.y,
                   ![l.x].red = TRUE]
             /\ Descend(t, "x", [Down(l) EXCEPT !.y = Nil])
             /\ Keeping(t, {l.f, l.x})

\* mutation: the nephew is red above the root as well
remove_nephew_red(t) ==
    LET l == loc[t]
        cf == Dir(node, l.f, l.key)
    IN /\ pc[t] = "nephew"
       /\ Acquires(t, l.y)
       /\ node' = [node EXCEPT
             ![l.gg].child[cf] = node[l.y].child[Other(cf)],
             ![l.f] = [@ EXCEPT !.child[Other(cf)] = node[l.y].child[cf], !.red = FALSE],
             ![l.y].child = [c \in 1 .. 2 |-> IF c = cf THEN l.f ELSE l.gg],
             ![l.g].child[Dir(node, l.g, l.key)] = l.y,
             ![l.x].red = TRUE]
       /\ Descend(t, "x", [Down(l) EXCEPT !.gg = Nil, !.y = Nil])
       /\ Keeping(t, {l.f, l.x})

\* case 4b: the red nephew y, a child of the brother gg, goes above both
remove_nephew(t) ==
    LET l == loc[t]
        cf == Dir(node, l.f, l.key)
    IN /\ pc[t] = "nephew"
       /\ Acquires(t, l.y)
       /\ node' = [node EXCEPT
             ![l.gg].child[cf] = node[l.y].child[Other(cf)],
             ![l.f] = [@ EXCEPT !.child[Other(cf)] = node[l.y].child[cf], !.red = FALSE],
             ![l.y] = [@ EXCEPT !.child = [c \in 1 .. 2 |-> IF c = cf THEN l.f ELSE l.gg],
                                !.red = l.g # Head],
             ![l.g].child[Dir(node, l.g, l.key)] = l.y,
             ![l.x].red = TRUE]
       /\ Descend(t, "x", [Down(l) EXCEPT !.gg = Nil, !.y = Nil])
       /\ Keeping(t, {l.f, l.x})

remove_unlink(t) ==
    LET l == loc[t]
    IN /\ pc[t] = "unlink"
       /\ Acquires(t, l.y)
       /\ node' = [node EXCEPT ![l.g].child[Dir(node, l.g, l.key)] = l.y,
                               ![l.f] = Free, ![l.x] = Free]
       /\ Finish(t, TRUE)

Progress(t) == \/ enter(t) \/ head(t) \/ contains_x(t)
               \/ add_leaf(t) \/ add_split(t) \/ add_down(t) \/ add_red(t) \/ add_y(t)
               \/ remove_x(t) \/ remove_root(t) \/ remove_f(t) \/ remove_sibling(t)
               \/ remove_brother(t) \/ remove_nephew(t) \/ remove_unlink(t)

Next == \E t \in Thread : begin(t) \/ Progress(t)

Spec == Init /\ [][Next]_vars

-----------------------------------------------------------------------------
RECURSIVE Below(_)
Below(n) == IF n = Nil THEN {} ELSE {n} \cup Below(node[n].child[1]) \cup Below(node[n].child[2])

\* the number of black nodes on each path from n down; -1 if they differ or two reds meet
RECURSIVE BlackHeight(_, _)
BlackHeight(n, f_red) ==
    IF node[n].ext THEN IF node[n].red THEN -1 ELSE 0
    ELSE LET l == BlackHeight(node[n].child[1], node[n].red)
             r == BlackHeight(node[n].child[2], node[n].red)
         IN IF l # r \/ l = -1 \/ (f_red /\ node[n].red) THEN -1
            ELSE IF node[n].red THEN l ELSE l + 1

\* the node whose lock t waits for
Wanted(t) == CASE pc[t] = "enter" -> Tree
               [] pc[t] = "head" -> Head
               [] pc[t] = "f" -> loc[t].f
               [] pc[t] \in {"root", "x", "red"} -> loc[t].x
               [] OTHER -> loc[t].y
BlockedBy(t) == IF pc[t] = "idle" \/ (OneLock /\ pc[t] # "enter") \/ Obtains(t, Wanted(t))
                THEN {} ELSE lock[Wanted(t)]

\* _treeset_verify, and more of it while calls go on.  An internal node separates the keys
\* below it and no node is lost or freed too early, at any time; the balance holds whenever
\* no call that changes the tree is under way.
TreeIntact ==
    LET S == Below(node[Head].child[1])
    IN /\ S = {n \in Nodes : node[n] # Free}
       /\ \A n \in {m \in S : ~node[m].ext} :
             /\ \A m \in Below(node[n].child[1]) : node[m].key < node[n].key
             /\ \A m \in Below(node[n].child[2]) : node[n].key <= node[m].key
             /\ Below(node[n].child[1]) \cap Below(node[n].child[2]) = {}
       /\ Balanced /\ S # {} /\ (\A t \in Thread : loc[t].op \in {Nil, "contains"}) =>
             BlackHeight(node[Head].child[1], TRUE) # -1

\* A thread holds what its next steps rely on: the nodes it has pointers to and, of those it
\* only wants, none; and no threads wait for each other's locks in a circle.
LocksInOrder ==
    /\ \A t \in Thread : ~OneLock =>
         Held(t) = ({loc[t].gg, loc[t].g, loc[t].f, loc[t].x, loc[t].y} \ {Nil})
                      \ (IF pc[t] = "idle" THEN {} ELSE {Wanted(t)})
    /\ \A S \in SUBSET Thread \ {{}} : \E t \in S : BlockedBy(t) \cap S = {}

\* The assertions of treeset_remove and treeset_add about the nodes they meet.
Asserts ==
    \A t \in Thread :
        LET l == loc[t]
        IN /\ pc[t] = "brother" => /\ l.g # Nil /\ l.f # Head
                                   /\ ~node[l.y].ext /\ ~node[l.y].red
           /\ pc[t] = "nephew" => node[l.y].red
           /\ pc[t] = "unlink" => l.g # Nil
           /\ At(t, {"x", "root"}) /\ l.op # "contains" => ~node[l.x].red

Father(T, n) == {m \in DOMAIN T : n \in {T[m].child[1], T[m].child[2]}}

\* Only the holder of a node changes its children and their colours in a step.
LocksProtect ==
    \A n \in Nodes : node[n] # Free =>
        /\ node[n].child # node'[n].child =>
              \E t \in Thread : pc'[t] # pc[t] /\ (t \in lock[n] \/ n = Wanted(t))
        /\ node[n].red # node'[n].red =>
              \E t \in Thread : pc'[t] # pc[t] /\
                 \A m \in Father(node, n) : t \in lock[m] \/ m = Wanted(t)
=============================================================================
