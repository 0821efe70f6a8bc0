--------------------------- MODULE ListSetLocked ---------------------------
(***************************************************************************)
(* The sorted lists with locks, include/vsync/map/listset_{coarse,fine,    *)
(* opt,lazy}.h.  coarse: one lock, here that of Head; fine: a lock per     *)
(* node, taken hand over hand; opt and lazy: walk without locks, lock two  *)
(* neighbours and validate.  The nodes of a key k are <<k, 1>>, <<k, 2>>,  *)
(* ...; SMR protects the retired nodes of opt and lazy, which are not used *)
(* again, while those of coarse and fine are added again at once.          *)
(***************************************************************************)
EXTENDS Control, Naturals, FiniteSets

CONSTANTS Kind,                 \* "coarse", "fine", "opt" or "lazy"
          Key,                  \* a set of positive numbers
          Copies,               \* nodes per key
          Nil

Node == Key \X (1 .. Copies)
Head == <<0, 0>>
Tail == <<0, 1>>                \* compared by address only
All == Node \cup {Head, Tail}

VARIABLES next, marked,         \* marked is used by lazy
          lock,                 \* lock[n]: the owner, or Nil
          home,                 \* who has a node: its caller, the list, or the SMR
          loc,                  \* loc[t]: the call of t and its local variables
          conf

vars == <<pc, next, marked, lock, home, loc, conf>>

Handed == Kind \in {"coarse", "fine"}   \* walks under locks

Locals == [op : {Nil, "add", "remove", "get"}, key : Key \cup {Nil}, node : Node \cup {Nil},
           pred : All \cup {Nil}, curr : All \cup {Nil},
           scan : All \cup {Nil},           \* `node` of _vlistset_validate
           stop : BOOLEAN, success : BOOLEAN]
Clear == [op |-> Nil, key |-> Nil, node |-> Nil, pred |-> Nil, curr |-> Nil, scan |-> Nil,
          stop |-> FALSE, success |-> FALSE]

TypeOK == /\ pc \in [Thread -> {"idle", "first", "lock_pred", "lock_curr", "hand_over", "walk",
                                "validate", "scan", "update", "get_mark", "unlock", "unlock2",
                                "retire"}]
          /\ next \in [All -> All \cup {Nil}]
          /\ marked \in [All -> BOOLEAN]
          /\ lock \in [All -> Thread \cup {Nil}]
          /\ home \in [Node -> {"caller", "list", "smr"}]
          /\ loc \in [Thread -> Locals]

\* the sequential map: the node of each key, or Nil
Apply(s, c) ==
    {CASE c.op = "get" -> [s |-> s, res |-> s[c.key]]
       [] c.op = "add" /\ s[c.key] = Nil -> [s |-> [s EXCEPT ![c.key] = c.node], res |-> TRUE]
       [] c.op = "remove" /\ s[c.key] # Nil -> [s |-> [s EXCEPT ![c.key] = Nil], res |-> TRUE]
       [] OTHER -> [s |-> s, res |-> FALSE]}

\* vlistset_init, and a node of each key in K added
Init == \E K \in SUBSET Key :
    LET First(k) == IF \E j \in K : j > k
                    THEN <<CHOOSE j \in K : j > k /\ \A i \in K : i > k => j <= i, 1>>
                    ELSE Tail
        In(n) == n[1] \in K /\ n[2] = 1
    IN /\ pc = [t \in Thread |-> "idle"]
       /\ next = [n \in All |-> IF n = Head \/ In(n) THEN First(n[1]) ELSE Nil]
       /\ marked = [n \in All |-> FALSE]
       /\ lock = [n \in All |-> Nil]
       /\ home = [n \in Node |-> IF In(n) THEN "list" ELSE "caller"]
       /\ loc = [t \in Thread |-> Clear]
       /\ conf = Unused([k \in Key |-> IF k \in K THEN <<k, 1>> ELSE Nil], Thread)

-----------------------------------------------------------------------------
\* the loop test of the walks; VLISTSET_CMP(curr, key) == 0
Before(n, k) == n # Tail /\ n[1] < k
Has(n, k) == n # Tail /\ n[1] = k

Set(t, to, r) == Goto(t, to) /\ loc' = [loc EXCEPT ![t] = r]
Returns(t, r) == Set(t, "idle", Clear) /\ conf' = Return(conf, t, r, Apply)

\* vlistset_add, vlistset_remove, vlistset_get
start(t, o, k) ==
    LET spare == {n \in {k} \X (1 .. Copies) : /\ home[n] = "caller"
                                              /\ \A u \in Thread : loc[u].node # n}
        node == IF o = "add" THEN CHOOSE n \in spare : \A m \in spare : n[2] <= m[2] ELSE Nil
    IN /\ pc[t] = "idle"
       /\ o = "add" => spare # {}
       /\ Set(t, IF Handed THEN "first" ELSE "walk",
              [Clear EXCEPT !.op = o, !.key = k, !.node = node, !.pred = Head])
       /\ conf' = Invoke(conf, t, [op |-> o, key |-> k, node |-> node])
       /\ UNCHANGED <<next, marked, lock, home>>

Acquire(t, n) == lock[n] = Nil /\ lock' = [lock EXCEPT ![n] = t]
Release(n) == lock' = [lock EXCEPT ![n] = Nil]

-----------------------------------------------------------------------------
\* coarse and fine: the loop test, which fine comes to with curr locked
Test(t, c) == IF Before(c, loc[t].key) THEN "hand_over" ELSE "update"
Look(t, p, c) == Set(t, IF Kind = "fine" THEN "lock_curr" ELSE Test(t, c),
                     [loc[t] EXCEPT !.pred = p, !.curr = c])

lock_first(t) == /\ pc[t] = "first"
                 /\ Acquire(t, Head)
                 /\ Look(t, Head, next[Head])
                 /\ UNCHANGED <<next, marked, home, conf>>

\* the body of the loop
hand_over(t) == /\ pc[t] = "hand_over"
                /\ IF Kind = "fine" THEN Release(loc[t].pred) ELSE UNCHANGED lock
                /\ Look(t, loc[t].curr, next[loc[t].curr])
                /\ UNCHANGED <<next, marked, home, conf>>

\* opt and lazy; vlistset_get of lazy returns from here
walk(t) == LET c == next[loc[t].pred]
               k == loc[t].key
               get == Kind = "lazy" /\ loc[t].op = "get"
    IN /\ pc[t] = "walk"
       /\ \/ Before(c, k) /\ Set(t, "walk", [loc[t] EXCEPT !.pred = c]) /\ UNCHANGED conf
          \/ /\ ~Before(c, k) /\ (get => Has(c, k))
             /\ Set(t, IF get THEN "get_mark" ELSE "lock_pred", [loc[t] EXCEPT !.curr = c])
             /\ UNCHANGED conf
          \/ ~Before(c, k) /\ get /\ ~Has(c, k) /\ Returns(t, Nil)
       /\ UNCHANGED <<next, marked, lock, home>>

get_mark(t) == /\ pc[t] = "get_mark"
               /\ Returns(t, IF marked[loc[t].curr] THEN Nil ELSE loc[t].curr)
               /\ UNCHANGED <<next, marked, lock, home>>

lock_pred(t) == /\ Step(t, "lock_pred", "lock_curr")
                /\ Acquire(t, loc[t].pred)
                /\ UNCHANGED <<next, marked, home, loc, conf>>

\* mutation: only pred is locked
lock_curr_not(t) == /\ Step(t, "lock_curr", IF Handed THEN Test(t, loc[t].curr) ELSE "validate")
                    /\ UNCHANGED <<next, marked, lock, home, loc, conf>>

lock_curr(t) == /\ Step(t, "lock_curr", IF Handed THEN Test(t, loc[t].curr) ELSE "validate")
                /\ Acquire(t, loc[t].curr)
                /\ UNCHANGED <<next, marked, home, loc, conf>>

Validated(t, ok) == Set(t, IF ok THEN "update" ELSE "unlock",
                        [loc[t] EXCEPT !.scan = Nil])

\* mutation: checks only that pred and curr are neighbours
validate_next(t) == /\ pc[t] = "validate"
                    /\ Validated(t, next[loc[t].pred] = loc[t].curr)
                    /\ UNCHANGED <<next, marked, lock, home, conf>>

\* _vlistset_validate: what it reads of pred and curr cannot change under their locks
validate(t) == LET p == loc[t].pred IN
    /\ pc[t] = "validate"
    /\ IF Kind = "lazy" \/ p = Head
       THEN Validated(t, ~marked[p] /\ ~marked[loc[t].curr] /\ next[p] = loc[t].curr)
       ELSE Set(t, "scan", [loc[t] EXCEPT !.scan = next[Head]])
    /\ UNCHANGED <<next, marked, lock, home, conf>>

\* opt looks for pred in the list
scan(t) == LET n == loc[t].scan IN
    /\ pc[t] = "scan"
    /\ CASE ~Before(n, loc[t].key) -> Validated(t, FALSE)
         [] Before(n, loc[t].key) /\ n = loc[t].pred -> Validated(t, next[n] = loc[t].curr)
         [] OTHER -> Set(t, "scan", [loc[t] EXCEPT !.scan = next[n]])
    /\ UNCHANGED <<next, marked, lock, home, conf>>

-----------------------------------------------------------------------------
\* a node that is retired twice has no home
Retire(n) == home' = [home EXCEPT ![n] = IF @ # "list" THEN "freed twice"
                                         ELSE IF Handed THEN "caller" ELSE "smr"]

\* what curr means for the call
insert(t) == LET l == loc[t] IN
    /\ pc[t] = "update" /\ l.op = "add" /\ ~Has(l.curr, l.key)
    /\ next' = [next EXCEPT ![l.node] = l.curr, ![l.pred] = l.node]
    /\ marked' = [marked EXCEPT ![l.node] = FALSE]
    /\ lock' = [lock EXCEPT ![l.node] = Nil]
    /\ home' = [home EXCEPT ![l.node] = "list"]
    /\ Set(t, "unlock", [l EXCEPT !.stop = TRUE, !.success = TRUE])
    /\ UNCHANGED conf

\* lazy removes logically first
mark(t) == LET l == loc[t] IN
    /\ pc[t] = "update" /\ l.op = "remove" /\ Has(l.curr, l.key)
    /\ Kind = "lazy" /\ ~marked[l.curr]
    /\ marked' = [marked EXCEPT ![l.curr] = TRUE]
    /\ UNCHANGED <<pc, next, lock, home, loc, conf>>

unlink(t) == LET l == loc[t] IN
    /\ pc[t] = "update" /\ l.op = "remove" /\ Has(l.curr, l.key)
    /\ Kind = "lazy" => marked[l.curr]
    /\ next' = [next EXCEPT ![l.pred] = next[l.curr]]
    /\ IF Kind \in {"coarse", "lazy"} THEN Retire(l.curr) ELSE UNCHANGED home
    /\ Set(t, "unlock", [l EXCEPT !.stop = TRUE, !.success = TRUE,
                                !.curr = IF Kind = "coarse" THEN Nil ELSE @])
    /\ UNCHANGED <<marked, lock, conf>>

no_change(t) == LET l == loc[t] IN
    /\ pc[t] = "update"
    /\ (l.op = "add") = Has(l.curr, l.key) \/ l.op = "get"
    /\ Set(t, "unlock", [l EXCEPT !.stop = TRUE,
                                  !.success = l.op = "get" /\ Has(l.curr, l.key)])
    /\ UNCHANGED <<next, marked, lock, home, conf>>

\* after the last release: start over, retire the node, or return
Ended(t) == LET l == loc[t]
                late == l.op = "remove" /\ l.success /\ Kind \in {"fine", "opt"}
    IN \/ /\ ~l.stop
          /\ Set(t, "walk", [l EXCEPT !.pred = Head, !.curr = Nil])
          /\ UNCHANGED conf
       \/ l.stop /\ late /\ Set(t, "retire", [l EXCEPT !.pred = Nil]) /\ UNCHANGED conf
       \/ /\ l.stop /\ ~late
          /\ Returns(t, IF l.op = "get" THEN IF l.success THEN l.curr ELSE Nil ELSE l.success)

unlock(t) == /\ pc[t] = "unlock"
             /\ \/ Kind = "coarse" /\ Release(Head) /\ Ended(t)
                \/ /\ Kind # "coarse"
                   /\ Release(IF Kind = "fine" THEN loc[t].curr ELSE loc[t].pred)
                   /\ Goto(t, "unlock2")
                   /\ UNCHANGED <<loc, conf>>
             /\ UNCHANGED <<next, marked, home>>

unlock2(t) == /\ pc[t] = "unlock2"
              /\ Release(IF Kind = "fine" THEN loc[t].pred ELSE loc[t].curr)
              /\ Ended(t)
              /\ UNCHANGED <<next, marked, home>>

retire(t) == /\ pc[t] = "retire"
             /\ Retire(loc[t].curr)
             /\ Returns(t, TRUE)
             /\ UNCHANGED <<next, marked, lock>>

Progress(t) == \/ lock_first(t) \/ hand_over(t) \/ walk(t) \/ get_mark(t)
               \/ lock_pred(t) \/ lock_curr(t) \/ validate(t) \/ scan(t)
               \/ insert(t) \/ mark(t) \/ unlink(t) \/ no_change(t)
               \/ unlock(t) \/ unlock2(t) \/ retire(t)

Next == \E t \in Thread : Progress(t) \/ \E o \in {"add", "remove", "get"}, k \in Key : start(t, o, k)

Spec == Init /\ [][Next]_vars

-----------------------------------------------------------------------------
\* "@ingroup linearizable"
Linearizable == conf # {}

RECURSIVE From(_)
From(n) == IF n = Nil THEN {} ELSE {n} \cup From(next[n])

\* The list from the head sentinel is sorted by key and leads to the tail; what is in it
\* is not retired, and what coarse and fine have retired nobody uses: "SMR is not
\* necessary as long as no dereferencing of the returned address occurs".
ListIntact ==
    /\ Tail \in From(Head)
    /\ \A n \in From(Head) \ {Head, Tail} : /\ home[n] = "list"
                                            /\ next[n] # Tail => n[1] < next[n][1]
    /\ Handed => \A t \in Thread : \A n \in {loc[t].pred, loc[t].curr} \cap Node : home[n] = "list"
=============================================================================
