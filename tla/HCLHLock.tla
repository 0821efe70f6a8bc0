------------------------------ MODULE HCLHLock ------------------------------
(***************************************************************************)
(* include/vsync/spinlock/hclhlock.h: threads queue up in the local queue  *)
(* of their cluster; the first of them, the cluster master, splices the    *)
(* local queue onto the global one.  On release a thread takes over the    *)
(* queue node of its predecessor.  The bit fields of a node's state word   *)
(* are the fields of a record.                                             *)
(***************************************************************************)
EXTENDS Control, Naturals, FiniteSets

CONSTANTS Cluster,      \* Cluster[t]: the cluster of thread t
          Zero,         \* the cluster the initial node claims to be of
          Head, Nil

VARIABLES local,        \* local[c]: the tail of the local queue of cluster c
          global,       \* the tail of the global queue
          state,        \* state[q]: the word of queue node q
          qnode, pred,  \* the fields of the threads' tnodes (pred: see `pred`)
          tail,         \* tail[t]: the local tail t splices
          s             \* s[t]: a state word t has read and will write back

vars == <<pc, local, global, state, qnode, pred, tail, s>>

Clusters == {Cluster[t] : t \in Thread}
Qnode == Thread \cup {Head}
Ptr == Qnode \cup {Nil}

\* SMW: the successor must wait; TWS: was the tail when the queue was spliced
State == [cluster : Clusters \cup {Zero}, smw : BOOLEAN, tws : BOOLEAN]

default_state(c) == [cluster |-> c, smw |-> TRUE, tws |-> FALSE]

TypeOK == /\ pc \in [Thread -> {"idle", "await_local", "read_tail", "splice", "tws",
                                "tws_write", "await_global", "cs", "release", "hijack"}]
          /\ local \in [Clusters -> Ptr]
          /\ global \in Ptr
          /\ state \in [Qnode -> State]
          /\ qnode \in [Thread -> Qnode]
          /\ pred \in [Thread -> Ptr]
          /\ tail \in [Thread -> Ptr]
          /\ s \in [Thread -> State]

\* hclhlock_init and, for every thread, hclhlock_init_tnode
Init == /\ pc = [t \in Thread |-> "idle"]
        /\ local = [c \in Clusters |-> Nil]
        /\ global = Head
        /\ state = [q \in Qnode |-> IF q = Head
                                    THEN [cluster |-> Zero, smw |-> FALSE, tws |-> FALSE]
                                    ELSE default_state(Cluster[q])]
        /\ qnode = [t \in Thread |-> t]
        /\ pred = [t \in Thread |-> Nil]
        /\ tail = [t \in Thread |-> Nil]
        /\ s = [t \in Thread |-> default_state(Zero)]

\* hclhlock_acquire: the cmpxchg loop exchanges the tail of the local queue
acquire_local(t) ==
    LET c == state[qnode[t]].cluster IN
    /\ \/ local[c] = Nil /\ Step(t, "idle", "read_tail")
       \/ local[c] # Nil /\ Step(t, "idle", "await_local")
    /\ pred' = [pred EXCEPT ![t] = local[c]]
    /\ local' = [local EXCEPT ![c] = qnode[t]]
    /\ UNCHANGED <<global, state, qnode, tail, s>>

\* mutation: the predecessor is not recorded when the lock is granted
await_pred_lost(t) ==
    LET p == state[pred[t]]
        c == state[qnode[t]].cluster
    IN /\ pc[t] = "await_local"
       /\ \/ p = [default_state(c) EXCEPT !.smw = FALSE] /\ Goto(t, "cs")
          \/ (p.cluster # c \/ p.tws) /\ Goto(t, "read_tail")
       /\ pred' = [pred EXCEPT ![t] = Nil]
       /\ UNCHANGED <<local, global, state, qnode, tail, s>>

\* _hclh_await_grant_or_cluster_master
await_grant_or_cluster_master(t) ==
    LET p == state[pred[t]]
        c == state[qnode[t]].cluster
    IN /\ pc[t] = "await_local"
       /\ \/ /\ p = [default_state(c) EXCEPT !.smw = FALSE]
             /\ Goto(t, "cs") /\ UNCHANGED pred
          \/ /\ p.cluster # c \/ p.tws
             /\ Goto(t, "read_tail") /\ pred' = [pred EXCEPT ![t] = Nil]
       /\ UNCHANGED <<local, global, state, qnode, tail, s>>

\* The master reads the local tail and makes it the global one, if the global
\* tail is still pred[t], which is null in the first round.
acquire_read_tail(t) == /\ Step(t, "read_tail", "splice")
                        /\ tail' = [tail EXCEPT ![t] = local[state[qnode[t]].cluster]]
                        /\ UNCHANGED <<local, global, state, qnode, pred, s>>

acquire_splice(t) == /\ \/ /\ global = pred[t]
                           /\ Step(t, "splice", "tws")
                           /\ global' = tail[t]
                           /\ UNCHANGED <<pred, tail>>
                        \/ /\ global # pred[t]
                           /\ Step(t, "splice", "read_tail")
                           /\ pred' = [pred EXCEPT ![t] = global]
                           /\ tail' = [tail EXCEPT ![t] = Nil]
                           /\ UNCHANGED global
                     /\ UNCHANGED <<local, state, qnode, s>>

\* set TWS of the spliced tail: a read and a write
acquire_tws_read(t) == /\ Step(t, "tws", "tws_write")
                       /\ s' = [s EXCEPT ![t] = state[tail[t]]]
                       /\ UNCHANGED <<local, global, state, qnode, pred, tail>>

acquire_tws_write(t) == /\ Step(t, "tws_write", "await_global")
                        /\ state' = [state EXCEPT ![tail[t]] = [s[t] EXCEPT !.tws = TRUE]]
                        /\ tail' = [tail EXCEPT ![t] = Nil]
                        /\ s' = [s EXCEPT ![t] = default_state(Zero)]
                        /\ UNCHANGED <<local, global, qnode, pred>>

\* mutation: enters without waiting for the global predecessor
acquire_await_none(t) == /\ Step(t, "await_global", "cs")
                         /\ UNCHANGED <<local, global, state, qnode, pred, tail, s>>

acquire_await_global(t) == /\ Step(t, "await_global", "cs")
                           /\ ~state[pred[t]].smw
                           /\ UNCHANGED <<local, global, state, qnode, pred, tail, s>>

\* hclhlock_release: read the own word and write it back without SMW
release_read(t) == /\ Step(t, "cs", "release")
                   /\ s' = [s EXCEPT ![t] = state[qnode[t]]]
                   /\ UNCHANGED <<local, global, state, qnode, pred, tail>>

release_write(t) == /\ Step(t, "release", "hijack")
                    /\ state' = [state EXCEPT ![qnode[t]] = [s[t] EXCEPT !.smw = FALSE]]
                    /\ UNCHANGED <<local, global, qnode, pred, tail, s>>

\* mutation: the own node is reset instead and kept
hijack_own(t) == /\ Step(t, "hijack", "idle")
                 /\ state' = [state EXCEPT ![qnode[t]] = default_state(s[t].cluster)]
                 /\ pred' = [pred EXCEPT ![t] = Nil]
                 /\ s' = [s EXCEPT ![t] = default_state(Zero)]
                 /\ UNCHANGED <<local, global, qnode, tail>>

\* _hclhlock_qnode_hijack: the cmpxchg loop resets the predecessor's word
qnode_hijack(t) == /\ Step(t, "hijack", "idle")
                   /\ state' = [state EXCEPT ![pred[t]] = default_state(s[t].cluster)]
                   /\ qnode' = [qnode EXCEPT ![t] = pred[t]]
                   /\ pred' = [pred EXCEPT ![t] = Nil]
                   /\ s' = [s EXCEPT ![t] = default_state(Zero)]
                   /\ UNCHANGED <<local, global, tail>>

Progress(t) == \/ await_grant_or_cluster_master(t)
               \/ acquire_read_tail(t) \/ acquire_splice(t)
               \/ acquire_tws_read(t) \/ acquire_tws_write(t)
               \/ acquire_await_global(t)
               \/ release_read(t) \/ release_write(t) \/ qnode_hijack(t)

Next == \E t \in Thread : acquire_local(t) \/ Progress(t)

\* The loop around the cmpxchg of the global tail goes on, but need not succeed.
Spec == Init /\ [][Next]_vars /\ \A t \in Thread : WF_vars(Progress(t))

-----------------------------------------------------------------------------
InCS == {t \in Thread : At(t, {"cs", "release"})}

\* Queue nodes travel from thread to thread but never have two users.  Among the
\* threads that still use their own node (one at "hijack" has passed it on), all
\* nodes differ; and the node a thread in the critical section will take over
\* is in use by nobody and awaited by nobody else.
NodesExclusive ==
    LET Using == {t \in Thread : pc[t] # "hijack"} IN
    /\ \A t, v \in Using : qnode[t] = qnode[v] => t = v
    /\ \A t \in Thread : At(t, {"cs", "release", "hijack"}) =>
          /\ \A v \in Using : qnode[v] # pred[t]
          /\ \A v \in Thread : At(v, {"await_global", "cs"}) /\ v # t => pred[v] # pred[t]

\* The non-atomic update of the spliced tail's word overwrites nothing: the
\* word does not change between the read and the write back.
NoLostUpdate ==
    \A t \in Thread : /\ pc[t] = "tws_write" => s[t] = state[tail[t]]
                      /\ pc[t] = "release" => s[t] = state[qnode[t]]

Abstract == [t \in Thread |-> IF At(t, {"idle", "hijack"}) THEN "out"
                              ELSE IF t \in InCS THEN "in" ELSE "wait"]
=============================================================================
