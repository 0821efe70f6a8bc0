------------------------------ MODULE SimpleHT ------------------------------
(***************************************************************************)
(* include/vsync/map/simpleht.h: an open-addressing hashtable.  Threads    *)
(* add, get and mark entries as removed while they hold a reader-writer    *)
(* lock for reading; a thread that has removed an entry takes the lock for *)
(* writing, resettles the entries and destroys the value.  Of the lock,    *)
(* wb is the writer bit and rs the semaphore with Resources resources.     *)
(***************************************************************************)
EXTENDS Control, Naturals

CONSTANTS Key, Val, Null,
          Capacity, Threshold,  \* Threshold = Capacity / VSIMPLEHT_RELATIVE_THRESHOLD
          Hash,                 \* of the keys
          Resources             \* RWLOCK_N: more than there are threads

VARIABLES key, value, deleted_count, wb, rs,
          free, held,           \* values the clients can add, the last one a thread got
          loc, conf

table == <<key, value, deleted_count>>
lock == <<wb, rs>>
vars == <<pc, table, lock, free, held, loc, conf>>

Slots == 0 .. Capacity - 1

\* The locals of a call: the operation and its arguments, the slot, how many slots were
\* probed, and where the thread goes on once it has acquired the lock for reading again.
Locals == [op : {"none", "add", "get", "remove"}, k : Key \cup {0}, v : Val \cup {Null},
           index : Slots, cnt : Slots, then : {"none", "idle", "probe", "removed"}]
NoCall == [op |-> "none", k |-> 0, v |-> Null, index |-> 0, cnt |-> 0, then |-> "none"]

TypeOK == /\ pc \in [Thread -> {"out", "idle", "chance", "await_wb", "read_acquire", "probe",
                                "cas_key", "cas_value", "read_value", "cas_removed", "inc",
                                "read_release", "await_set", "write_acquire", "cleanup",
                                "clear_wb", "write_release"}]
          /\ key \in [Slots -> Key \cup {0}] /\ value \in [Slots -> Val \cup {Null}]
          /\ deleted_count \in 0 .. Capacity
          /\ wb \in {0, 1} /\ rs \in 0 .. Resources
          /\ free \subseteq Val /\ held \in [Thread -> Val \cup {Null}]
          /\ loc \in [Thread -> Locals]

\* the sequential map
Apply(s, op) ==
    {CASE op[1] = "add" /\ s[op[2]] = Null -> [s |-> [s EXCEPT ![op[2]] = op[3]], res |-> "ok"]
       [] op[1] = "add" /\ s[op[2]] # Null -> [s |-> s, res |-> "exists"]
       [] op[1] = "get" -> [s |-> s, res |-> <<s[op[2]]>>]
       [] op[1] = "remove" -> [s |-> [s EXCEPT ![op[2]] = Null],
                               res |-> IF s[op[2]] = Null THEN "dne" ELSE "ok"]}

Init == /\ pc = [t \in Thread |-> "out"]
        /\ key = [i \in Slots |-> 0] /\ value = [i \in Slots |-> Null]
        /\ deleted_count = 0
        /\ wb = 0 /\ rs = Resources
        /\ free = Val /\ held = [t \in Thread |-> Null]
        /\ loc = [t \in Thread |-> NoCall]
        /\ conf = Unused([k \in Key |-> Null], Thread)

Finish(t, res) == /\ Goto(t, "idle")
                  /\ loc' = [loc EXCEPT ![t] = NoCall]
                  /\ conf' = Return(conf, t, res, Apply)

-----------------------------------------------------------------------------
\* vsimpleht_thread_register and deregister
thread_register(t) == /\ Step(t, "out", "await_wb")
                      /\ loc' = [loc EXCEPT ![t].then = "idle"]
                      /\ UNCHANGED <<table, lock, free, held, conf>>

thread_deregister(t) == /\ Step(t, "idle", "out")
                        /\ rs' = rs + 1
                        /\ held' = [held EXCEPT ![t] = Null]
                        /\ UNCHANGED <<table, wb, free, loc, conf>>

\* A call, up to the test of _vsimpleht_give_cleanup_a_chance.  The value of an earlier
\* get is not used any more.
Begin(t, op, k, v) ==
    /\ pc[t] = "idle"
    /\ Goto(t, IF wb > 0 THEN "chance" ELSE "probe")
    /\ loc' = [loc EXCEPT ![t] = [NoCall EXCEPT !.op = op, !.k = k, !.v = v,
                                                !.index = Hash[k] % Capacity]]
    /\ held' = [held EXCEPT ![t] = Null]
    /\ conf' = Invoke(conf, t, <<op, k, v>>)
    /\ UNCHANGED <<table, lock>>

add(t) == \E k \in Key, v \in free : Begin(t, "add", k, v) /\ free' = free \ {v}
get(t) == \E k \in Key : Begin(t, "get", k, Null) /\ UNCHANGED free
remove(t) == \E k \in Key : Begin(t, "remove", k, Null) /\ UNCHANGED free

\* the rest of _vsimpleht_give_cleanup_a_chance: rwlock_read_release ...
chance_release(t) == /\ Step(t, "chance", "await_wb")
                     /\ rs' = rs + 1
                     /\ loc' = [loc EXCEPT ![t].then = "probe"]
                     /\ UNCHANGED <<table, wb, free, held, conf>>

\* ... and rwlock_read_acquire, which also ends a registration and a removal
read_await(t) == /\ Step(t, "await_wb", "read_acquire")
                 /\ wb = 0
                 /\ UNCHANGED <<table, lock, free, held, loc, conf>>

read_acquire(t) ==
    /\ pc[t] = "read_acquire"
    /\ rs > 0 /\ rs' = rs - 1
    /\ \/ loc[t].then = "removed" /\ Finish(t, "ok")
       \/ /\ loc[t].then # "removed" /\ Goto(t, loc[t].then)
          /\ loc' = [loc EXCEPT ![t].then = "none"]
          /\ UNCHANGED conf
    /\ UNCHANGED <<table, wb, free, held>>

-----------------------------------------------------------------------------
\* The loops go on in the next slot: that of add ends after Capacity slots, that of remove
\* when it is back at the hash, which is not reduced modulo the capacity, and that of get
\* never.  None of the ends is reached while a slot is empty, so that add reports a full table
\* only of one that is.
Advance(t) ==
    LET i == (loc[t].index + 1) % Capacity
    IN IF loc[t].op = "add" /\ loc[t].cnt + 1 = Capacity
       THEN /\ Goto(t, "idle") /\ loc' = [loc EXCEPT ![t] = NoCall]
            /\ conf' = Abort({c \in conf : 0 \notin {key[j] : j \in DOMAIN key}}, t)
            /\ free' = free \cup {loc[t].v}
       ELSE IF loc[t].op = "remove" /\ i = Hash[loc[t].k]
       THEN Finish(t, "dne") /\ UNCHANGED free
       ELSE /\ Goto(t, "probe") /\ UNCHANGED <<conf, free>>
            /\ loc' = [loc EXCEPT ![t].index = i,
                                  ![t].cnt = IF loc[t].op = "add" THEN @ + 1 ELSE 0]

\* the first access of an iteration: read the key
probe(t) ==
    LET k == key[loc[t].index]
        op == loc[t].op
    IN /\ pc[t] = "probe"
       /\ \/ /\ k = 0 /\ op = "add" /\ Goto(t, "cas_key")
             /\ UNCHANGED <<loc, conf, free>>
          \/ k = 0 /\ op = "get" /\ Finish(t, <<Null>>) /\ UNCHANGED free
          \/ k = 0 /\ op = "remove" /\ Finish(t, "dne") /\ UNCHANGED free
          \/ /\ k = loc[t].k /\ Goto(t, IF op = "add" THEN "cas_value" ELSE "read_value")
             /\ UNCHANGED <<loc, conf, free>>
          \/ k \notin {0, loc[t].k} /\ Advance(t)
       /\ UNCHANGED <<table, lock, held>>

\* mutation: the slot is taken whatever key came first
add_cas_key_blind(t) ==
    /\ pc[t] = "cas_key"
    /\ key' = [key EXCEPT ![loc[t].index] = loc[t].k]
    /\ Goto(t, "cas_value") /\ UNCHANGED <<loc, conf>>
    /\ UNCHANGED <<value, deleted_count, lock, free, held>>

add_cas_key(t) ==
    LET i == loc[t].index
    IN /\ pc[t] = "cas_key"
       /\ key' = [key EXCEPT ![i] = IF @ = 0 THEN loc[t].k ELSE @]
       /\ \/ /\ key'[i] = loc[t].k /\ Goto(t, "cas_value")
             /\ UNCHANGED <<loc, conf, free>>
          \/ key'[i] # loc[t].k /\ Advance(t)
       /\ UNCHANGED <<value, deleted_count, lock, held>>

add_cas_value(t) ==
    LET i == loc[t].index
    IN /\ pc[t] = "cas_value"
       /\ \/ /\ value[i] = Null /\ Finish(t, "ok")
             /\ value' = [value EXCEPT ![i] = loc[t].v] /\ UNCHANGED free
          \/ /\ value[i] # Null /\ Finish(t, "exists")
             /\ free' = free \cup {loc[t].v} /\ UNCHANGED value
       /\ UNCHANGED <<key, deleted_count, lock, held>>

read_value(t) ==
    LET v == value[loc[t].index]
    IN /\ pc[t] = "read_value"
       /\ \/ /\ loc[t].op = "get" /\ Finish(t, <<v>>)
             /\ held' = [held EXCEPT ![t] = v]
          \/ /\ loc[t].op = "remove" /\ v = Null /\ Finish(t, "dne") /\ UNCHANGED held
          \/ /\ loc[t].op = "remove" /\ v # Null /\ Goto(t, "cas_removed")
             /\ loc' = [loc EXCEPT ![t].v = v]
             /\ UNCHANGED <<held, conf>>
       /\ UNCHANGED <<table, lock, free>>

remove_cas(t) ==
    LET i == loc[t].index
    IN /\ pc[t] = "cas_removed"
       /\ \/ value[i] # loc[t].v /\ Finish(t, "dne") /\ UNCHANGED value
          \/ /\ value[i] = loc[t].v /\ Goto(t, "inc")
             /\ value' = [value EXCEPT ![i] = Null]
             /\ UNCHANGED <<loc, conf>>
       /\ UNCHANGED <<key, deleted_count, lock, free, held>>

remove_inc(t) == /\ Step(t, "inc", "read_release")
                 /\ deleted_count' = deleted_count + 1
                 /\ UNCHANGED <<key, value, lock, free, held, loc, conf>>

-----------------------------------------------------------------------------
\* _vsimpleht_trigger_cleanup and the lock of _vsimpleht_cleanup
cleanup_release(t) == /\ Step(t, "read_release", "await_set")
                      /\ rs' = rs + 1
                      /\ UNCHANGED <<table, wb, free, held, loc, conf>>

write_await(t) == /\ Step(t, "await_set", "write_acquire")
                  /\ wb = 0 /\ wb' = 1
                  /\ UNCHANGED <<table, rs, free, held, loc, conf>>

\* mutation: the cleaner does not wait for the readers
write_acquire_not(t) == /\ Step(t, "write_acquire", "cleanup")
                        /\ UNCHANGED <<table, lock, free, held, loc, conf>>

write_acquire(t) == /\ Step(t, "write_acquire", "cleanup")
                    /\ rs >= Resources /\ rs' = rs - Resources
                    /\ UNCHANGED <<table, wb, free, held, loc, conf>>

\* mutation: the scan starts in the middle of a bucket
StartIndex_zero == 0

\* the beginning of a bucket
StartIndex == LET empty == {e \in Slots : key[e] = 0}
              IN IF empty = {} THEN Capacity - 1
                 ELSE CHOOSE e \in empty : \A d \in empty : e <= d

\* the slot in which _vsimpleht_add finds k, or a place for it, in the table tab
Place(tab, k) ==
    LET at(c) == (Hash[k] + c) % Capacity
    IN at(CHOOSE c \in Slots : /\ tab.key[at(c)] \in {0, k}
                               /\ \A d \in 0 .. c - 1 : tab.key[at(d)] \notin {0, k})

Settle(tab, i) ==
    LET k == tab.key[i]
        j == Place(tab, k)
    IN CASE k = 0 -> tab
         [] k # 0 /\ tab.value[i] = Null -> [tab EXCEPT !.key[i] = 0]
         [] k # 0 /\ tab.value[i] # Null ->
              IF tab.value[j] # Null THEN tab
              ELSE [key |-> [tab.key EXCEPT ![j] = k, ![i] = 0],
                    value |-> [tab.value EXCEPT ![j] = tab.value[i], ![i] = Null]]

\* the table after the entries are resettled, from the start index around
Resettled ==
    LET start == StartIndex
        after[n \in 0 .. Capacity] ==
            IF n = 0 THEN [key |-> key, value |-> value]
                     ELSE Settle(after[n - 1], (start + n - 1) % Capacity)
    IN after[Capacity]

\* The table is the writer's own (Exclusive), so this is one step.
cleanup(t) == /\ Step(t, "cleanup", "clear_wb")
              /\ IF deleted_count < Threshold THEN UNCHANGED table
                 ELSE /\ key' = Resettled.key /\ value' = Resettled.value
                      /\ deleted_count' = 0
              /\ free' = free \cup {loc[t].v}
              /\ UNCHANGED <<lock, held, loc, conf>>

clear_wb(t) == /\ Step(t, "clear_wb", "write_release")
               /\ wb' = 0
               /\ UNCHANGED <<table, rs, free, held, loc, conf>>

write_release(t) == /\ Step(t, "write_release", "await_wb")
                    /\ rs' = rs + Resources
                    /\ loc' = [loc EXCEPT ![t].then = "removed"]
                    /\ UNCHANGED <<table, wb, free, held, conf>>

Next == \E t \in Thread :
           \/ thread_register(t) \/ thread_deregister(t) \/ add(t) \/ get(t) \/ remove(t)
           \/ chance_release(t) \/ read_await(t) \/ read_acquire(t) \/ probe(t)
           \/ add_cas_key(t) \/ add_cas_value(t) \/ read_value(t) \/ remove_cas(t)
           \/ remove_inc(t) \/ cleanup_release(t) \/ write_await(t) \/ write_acquire(t)
           \/ cleanup(t) \/ clear_wb(t) \/ write_release(t)

Spec == Init /\ [][Next]_vars

-----------------------------------------------------------------------------
\* A key has one slot, and no empty slot keeps a search from an entry that is there.
Reachable == \A i \in Slots : key[i] # 0 /\ value[i] # Null => Place([key |-> key], key[i]) = i

\* Nobody looks at the table while a thread resettles it.
Exclusive == \A t \in Thread : pc[t] = "cleanup" =>
                \A u \in Thread \ {t} : pc[u] \in {"out", "await_wb", "read_acquire",
                                                   "await_set", "write_acquire", "write_release"}

\* A value that vsimpleht_get has returned is not destroyed before the next call.
HeldAlive == \A t \in Thread : held[t] \notin free

TableIntact == Reachable /\ Exclusive /\ HeldAlive
=============================================================================
