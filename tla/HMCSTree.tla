------------------------------ MODULE HMCSTree ------------------------------
(***************************************************************************)
(* How hmcslock_init lays the tree of locks out in the caller's array, and *)
(* how hmcslock_which_lock finds a core's leaf in it.  The tree is built   *)
(* for every sequence of up to MaxLevels level sizes, and every core is    *)
(* looked up.                                                              *)
(***************************************************************************)
EXTENDS Integers, Sequences, FiniteSets

CONSTANTS MaxLevels, MaxNodes, MaxCores

VARIABLES spec,     \* spec[k]: num_nodes_per_parent of level k - 1; spec[1] is 1
          locks,    \* the array; empty until hmcslock_init has run
          core, cores_per_node, leaf    \* a call of hmcslock_which_lock

vars == <<spec, locks, core, cores_per_node, leaf>>

NoLeaf == -1

RECURSIVE Product(_, _), count_nodes(_, _), init_level(_, _, _, _)
Product(s, k) == IF k = 0 THEN 1 ELSE s[k] * Product(s, k - 1)

\* _hmcslock_count_nodes
count_nodes(s, k) == IF k = 0 THEN 0 ELSE Product(s, k) + count_nodes(s, k - 1)

\* mutation: is_leaf is set at every level
init_level_leaves(s, parent, arr, level) ==
    [p \in 1 .. count_nodes(s, Len(s)) |-> [parent |-> p - 2, leaf |-> TRUE]]

\* _hmcslock_init_level: the locks are numbered from 0 in the order in which the
\* recursion reaches them; the parent of the root is -1.
init_level(s, parent, arr, level) ==
    IF level = Len(s) THEN arr
    ELSE LET one(a) == init_level(s, Len(a),
                                  Append(a, [parent |-> parent, leaf |-> level + 1 = Len(s)]),
                                  level + 1)
             rounds[p \in 0 .. s[level + 1]] == IF p = 0 THEN arr ELSE one(rounds[p - 1])
         IN rounds[s[level + 1]]

Init == /\ \E k \in 1 .. MaxLevels : spec \in [1 .. k -> 1 .. MaxNodes]
        /\ spec[1] = 1
        /\ locks = <<>>
        /\ core = 0 /\ cores_per_node = 1 /\ leaf = NoLeaf

hmcslock_init == /\ locks = <<>>
                 /\ locks' = init_level(spec, -1, <<>>, 0)
                 /\ UNCHANGED <<spec, core, cores_per_node, leaf>>

\* the indices of the leaves, in order
Leaves == SelectSeq([i \in 1 .. Len(locks) |-> i - 1], LAMBDA i : locks[i + 1].leaf)

\* the index among the leaves
which_lock(c, n) == (c \div n) % Product(spec, Len(spec))

\* hmcslock_which_lock
hmcslock_which_lock == /\ locks # <<>>
                       /\ core' \in 0 .. MaxCores
                       /\ cores_per_node' \in 1 .. 3
                       /\ LET i == which_lock(core', cores_per_node') IN
                          leaf' = IF i < Len(Leaves) THEN Leaves[i + 1] ELSE NoLeaf
                       /\ UNCHANGED <<spec, locks>>

Next == hmcslock_init \/ hmcslock_which_lock

Spec == Init /\ [][Next]_vars

-----------------------------------------------------------------------------
Depth(i) == LET d[k \in 0 .. MaxLevels] ==      \* is i at depth k?
                   IF k = 0 THEN {j \in 0 .. Len(locks) - 1 : locks[j + 1].parent = -1}
                   ELSE LET above == d[k - 1]
                        IN {j \in 0 .. Len(locks) - 1 : locks[j + 1].parent \in above}
            IN {k \in 0 .. MaxLevels : i \in d[k]}

\* The array holds the tree the level sizes describe: the size the assertions of
\* hmcslock_init demand, one root, every lock at one depth with the children
\* of its level, and the leaves are the locks of the last level.
TreeShape ==
    locks # <<>> =>
      /\ Len(locks) = count_nodes(spec, Len(spec))
      /\ \A i \in 0 .. Len(locks) - 1 : \E d \in 0 .. Len(spec) - 1 :
            /\ Depth(i) = {d}
            /\ locks[i + 1].leaf <=> d = Len(spec) - 1
            /\ Cardinality({j \in 1 .. Len(locks) : locks[j].parent = i})
                  = IF d = Len(spec) - 1 THEN 0 ELSE spec[d + 2]

\* "you got over the boundary of leaf nodes" never fires: in front of each lock of
\* the array there are fewer leaves than the tree has.
LeafBoundary ==
    \A i \in 1 .. Len(locks) :
        Cardinality({j \in 1 .. i - 1 : locks[j].leaf}) < Product(spec, Len(spec))

\* Every core has a leaf.  Neighbouring cores share it, and cores whose nodes are
\* not a multiple of the number of leaves apart do not.
CoresSpread ==
    \A c \in 0 .. MaxCores : locks # <<>> =>
        /\ leaf = NoLeaf \/ locks[leaf + 1].leaf
        /\ leaf = NoLeaf => core = 0 /\ cores_per_node = 1
        /\ which_lock(c, cores_per_node) = which_lock(core, cores_per_node)
              <=> \E k \in -MaxCores .. MaxCores :
                     c \div cores_per_node
                        = core \div cores_per_node + k * Len(Leaves)
=============================================================================
