------------------------------ MODULE CNALock ------------------------------
(***************************************************************************)
(* include/vsync/spinlock/cnalock.h: an MCS queue whose holder moves the   *)
(* waiters of other NUMA nodes to a secondary queue, and the secondary     *)
(* queue back every Period-th contended release.  The secondary queue is   *)
(* a circular list; the holder's `spin` field points at its last member,   *)
(* or is One when the queue is empty.                                      *)
(***************************************************************************)
EXTENDS Control, Naturals, FiniteSets

CONSTANTS Numa,         \* Numa[t]: the NUMA node t runs on
          Period,       \* INITIAL_VAL, 128 * 128 in the code
          Nil, One      \* the null pointer and the pointer (void *)1

VARIABLES tail,               \* the word of the lock
          next, spin, node,   \* the fields of the threads' nodes
          prev,               \* prev[t]: what the exchange of tail returned
          succ, value,        \* what t, in release, will hand to whom
          cnt                 \* the static counter of keep_lock_local

vars == <<pc, tail, next, spin, node, prev, succ, value, cnt>>

Ptr == Thread \cup {Nil}

Unset == "unset"

Nodes == {Numa[t] : t \in Thread}

TypeOK == /\ pc \in [Thread -> {"idle", "xchg", "node", "link", "await", "cs", "cas",
                                "cas_sec", "wake_sec", "restore", "await_next",
                                "choose", "grant"}]
          /\ tail \in Ptr
          /\ next \in [Thread -> Ptr]
          /\ spin \in [Thread -> Ptr \cup {One}]
          /\ node \in [Thread -> Nodes \cup {Unset}]
          /\ prev \in [Thread -> Ptr]
          /\ succ \in [Thread -> Ptr]
          /\ value \in [Thread -> Ptr \cup {One}]
          /\ cnt \in 0 .. Period - 1

Init == /\ pc = [t \in Thread |-> "idle"]
        /\ tail = Nil
        /\ next = [t \in Thread |-> Nil]
        /\ spin = [t \in Thread |-> Nil]
        /\ node = [t \in Thread |-> Unset]
        /\ prev = [t \in Thread |-> Nil]
        /\ succ = [t \in Thread |-> Nil]
        /\ value = [t \in Thread |-> Nil]
        /\ cnt = 0

\* Release returns; the fields of the node are dead until the next acquire
\* writes them.
Finish(t, sp) == /\ spin' = [sp EXCEPT ![t] = Nil]
                 /\ next' = [next EXCEPT ![t] = Nil]
                 /\ node' = [node EXCEPT ![t] = Unset]
                 /\ succ' = [succ EXCEPT ![t] = Nil]
                 /\ value' = [value EXCEPT ![t] = Nil]

\* cnalock_acquire: the node is private until tail is exchanged
acquire_reset(t) == /\ Step(t, "idle", "xchg")
                    /\ spin' = [spin EXCEPT ![t] = Nil]
                    /\ next' = [next EXCEPT ![t] = Nil]
                    /\ node' = [node EXCEPT ![t] = Unset]
                    /\ UNCHANGED <<tail, prev, succ, value, cnt>>

acquire_xchg(t) == /\ \/ /\ tail = Nil
                         /\ Step(t, "xchg", "cs")
                         /\ spin' = [spin EXCEPT ![t] = One]
                      \/ /\ tail # Nil
                         /\ Step(t, "xchg", "node")
                         /\ UNCHANGED spin
                   /\ prev' = [prev EXCEPT ![t] = tail]
                   /\ tail' = t
                   /\ UNCHANGED <<next, node, succ, value, cnt>>

acquire_set_node(t) == /\ Step(t, "node", "link")
                       /\ node' = [node EXCEPT ![t] = Numa[t]]
                       /\ UNCHANGED <<tail, next, spin, prev, succ, value, cnt>>

acquire_link(t) == /\ Step(t, "link", "await")
                   /\ next' = [next EXCEPT ![prev[t]] = t]
                   /\ prev' = [prev EXCEPT ![t] = Nil]
                   /\ UNCHANGED <<tail, spin, node, succ, value, cnt>>

acquire_await(t) == /\ Step(t, "await", "cs")
                    /\ spin[t] # Nil
                    /\ UNCHANGED <<tail, next, spin, node, prev, succ, value, cnt>>

\* cnalock_release: read next; spin is only written by its owner by now.  With
\* no successor in the main queue the secondary queue is detached (its last
\* member's next is exchanged with null), ready to become the main queue.
release_read_next(t) ==
    /\ \/ next[t] # Nil /\ Step(t, "cs", "choose") /\ UNCHANGED <<next, succ>>
       \/ next[t] = Nil /\ spin[t] = One /\ Step(t, "cs", "cas") /\ UNCHANGED <<next, succ>>
       \/ /\ next[t] = Nil /\ spin[t] # One
          /\ Step(t, "cs", "cas_sec")
          /\ succ' = [succ EXCEPT ![t] = next[spin[t]]]
          /\ next' = [next EXCEPT ![spin[t]] = Nil]
    /\ UNCHANGED <<tail, spin, node, prev, value, cnt>>

release_cmpxchg(t) == /\ \/ /\ tail = t
                            /\ Step(t, "cas", "idle")
                            /\ tail' = Nil
                            /\ Finish(t, spin)
                         \/ /\ tail # t
                            /\ Step(t, "cas", "await_next")
                            /\ UNCHANGED <<tail, next, spin, node, succ, value>>
                      /\ UNCHANGED <<prev, cnt>>

release_cmpxchg_sec(t) == /\ \/ /\ tail = t
                                /\ Step(t, "cas_sec", "wake_sec")
                                /\ tail' = spin[t]
                             \/ /\ tail # t
                                /\ Step(t, "cas_sec", "restore")
                                /\ UNCHANGED tail
                          /\ UNCHANGED <<next, spin, node, prev, succ, value, cnt>>

release_wake_sec(t) == /\ Step(t, "wake_sec", "idle")
                       /\ Finish(t, [spin EXCEPT ![succ[t]] = One])
                       /\ UNCHANGED <<tail, prev, cnt>>

release_restore_sec(t) == /\ Step(t, "restore", "await_next")
                          /\ next' = [next EXCEPT ![spin[t]] = succ[t]]
                          /\ succ' = [succ EXCEPT ![t] = Nil]
                          /\ UNCHANGED <<tail, spin, node, prev, value, cnt>>

release_await_next(t) == /\ Step(t, "await_next", "choose")
                         /\ next[t] # Nil
                         /\ UNCHANGED <<tail, next, spin, node, prev, succ, value, cnt>>

\* The main queue behind t, as far as it is linked, padded with Nil.
Main(t) ==
    LET q[i \in 1 .. Cardinality(Thread)] ==
          IF i = 1 THEN next[t] ELSE IF q[i - 1] = Nil THEN Nil ELSE next[q[i - 1]]
    IN q

\* The positions in it of the waiters of t's own NUMA node.
Local(t) ==
    LET my_node == IF node[t] = Unset THEN Numa[t] ELSE node[t]
    IN {i \in DOMAIN Main(t) : Main(t)[i] # Nil /\ node[Main(t)[i]] = my_node}

\* _cnalock_find_successor: the first local waiter, behind those that are moved
\* to the end of the secondary queue.  Every next field the walk follows is
\* stable once it is not null, and the secondary queue is the holder's own.
find_successor(t) ==
    LET q == Main(t)
        i == CHOOSE i \in Local(t) : \A j \in Local(t) : i <= j
        sec_tail == IF i = 1 THEN spin[t] ELSE q[i - 1]
    IN /\ Local(t) # {}
       /\ succ' = [succ EXCEPT ![t] = q[i]]
       /\ next' = IF i = 1 THEN next
                  ELSE IF spin[t] = One THEN [next EXCEPT ![sec_tail] = q[1]]
                  ELSE [next EXCEPT ![spin[t]] = q[1], ![sec_tail] = next[spin[t]]]
       /\ spin' = [spin EXCEPT ![t] = sec_tail]
       /\ value' = [value EXCEPT ![t] = sec_tail]

\* mutation: the secondary queue is forgotten when the lock leaves the node
splice_main(t) == /\ succ' = [succ EXCEPT ![t] = next[t]]
                  /\ value' = [value EXCEPT ![t] = One]
                  /\ UNCHANGED <<next, spin>>

\* No local waiter, or it is time to be fair: the secondary queue, if any, goes
\* in front of the main queue.
splice(t) ==
    /\ \/ /\ spin[t] # One
          /\ succ' = [succ EXCEPT ![t] = next[spin[t]]]
          /\ next' = [next EXCEPT ![spin[t]] = next[t]]
       \/ /\ spin[t] = One
          /\ succ' = [succ EXCEPT ![t] = next[t]]
          /\ UNCHANGED next
    /\ value' = [value EXCEPT ![t] = One]
    /\ UNCHANGED spin

\* mutation: the counter does not come round to zero, so it never is time
keep_lock_always == cnt' = 1

\* _cnalock_keep_lock_local; the lock is kept local when cnt' # 0
keep_lock_local == cnt' = (cnt + 1) % Period

release_choose(t) == /\ Step(t, "choose", "grant")
                     /\ keep_lock_local
                     /\ \/ cnt' # 0 /\ find_successor(t)
                        \/ (cnt' = 0 \/ Local(t) = {}) /\ splice(t)
                     /\ UNCHANGED <<tail, node, prev>>

release_grant(t) == /\ Step(t, "grant", "idle")
                    /\ Finish(t, [spin EXCEPT ![succ[t]] = value[t]])
                    /\ UNCHANGED <<tail, prev, cnt>>

Progress(t) == \/ acquire_xchg(t) \/ acquire_set_node(t) \/ acquire_link(t)
               \/ acquire_await(t)
               \/ release_read_next(t) \/ release_cmpxchg(t) \/ release_cmpxchg_sec(t)
               \/ release_wake_sec(t) \/ release_restore_sec(t)
               \/ release_await_next(t) \/ release_choose(t) \/ release_grant(t)

Next == \E t \in Thread : acquire_reset(t) \/ Progress(t)

Spec == Init /\ [][Next]_vars /\ \A t \in Thread : WF_vars(Progress(t))

-----------------------------------------------------------------------------
Waiting == {t \in Thread : At(t, {"node", "link", "await"})}

\* the holder, or the waiter the lock has been handed to
Holder == {t \in Thread : At(t, {"cs"}) \/ (pc[t] = "await" /\ spin[t] # Nil)}

\* The nodes reachable from p through next fields.
Reach(p) ==
    LET r[i \in 0 .. Cardinality(Thread)] ==
          IF i = 0 THEN {p} \ {Nil, One}
                   ELSE r[i - 1] \cup ({next[n] : n \in r[i - 1]} \ {Nil})
    IN r[Cardinality(Thread)]

\* No waiter is lost or queued twice when the queues are rearranged: seen from
\* the holder, the linked waiters are the disjoint union of the main queue
\* and the secondary circle.
QueuesPartition ==
    \A t \in Holder :
        LET main == Reach(next[t]) \ {t}
            second == Reach(spin[t])
            unlinked == {v \in Waiting : pc[v] # "await"}
        IN /\ main \cap second = {}
           /\ main \cup second \subseteq Waiting \ {t}
           /\ unlinked = {} => main \cup second = Waiting \ {t}
           /\ spin[t] \in Thread => spin[t] \in Reach(next[spin[t]])

Abstract == [t \in Thread |->
                CASE pc[t] = "idle" -> "out"
                  [] At(t, {"xchg", "node", "link", "await"}) -> "wait"
                  [] OTHER -> "in"]
=============================================================================
