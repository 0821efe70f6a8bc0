--------------------------- MODULE VAtomicMachine ---------------------------
(***************************************************************************)
(* A processor that runs a short program of vatomic calls, one instruction *)
(* of a body per step, while other threads write the location the call     *)
(* under test works on.                                                    *)
(*                                                                         *)
(* Inside a call instructions execute in program order.  Instructions of a *)
(* later call may overtake those of an earlier one unless a barrier, an    *)
(* acquire, a release or (for a store) an unresolved branch keeps them     *)
(* back.  A read that ran ahead down a path that is then not taken is      *)
(* squashed and repeated.  The exclusive monitor is lost when another      *)
(* thread writes, a store-exclusive may also fail for no reason, and       *)
(* losing an armed monitor is the only event that other threads send.      *)
(***************************************************************************)
EXTENDS VAtomicGeneric

CONSTANT MaxFails   \* how often a store-exclusive fails although the monitor is held

VARIABLES prog, plan, mem,
    pc,         \* next instruction of each call, 0 at the end of its body
    reg,        \* the register of each call that holds the value last read
    last,       \* the value await_eq remembers from the read before
    rd, wr,     \* the read and the write of a call have been performed
    eff,        \* the call has taken effect
    excl,       \* the exclusive monitor of "x" is held
    event,      \* the event register
    bound,      \* a later store is visible: the store-exclusive before it will succeed
    fails       \* store-exclusives that failed for no reason

vars == <<prog, plan, mem, pc, reg, last, rd, wr, eff, excl, event, bound, fails>>

Calls == DOMAIN prog
Body(i) == prog[i].fn.code
At(i) == Body(i)[pc[i]]

TypeOK ==
    /\ mem \in [{"x", "y", "z"} -> 0 .. 15]
    /\ pc \in [Calls -> 0 .. 6] /\ \A i \in Calls : pc[i] <= Len(Body(i))
    /\ reg \in [Calls -> 0 .. 15] /\ last \in [Calls -> 0 .. 15]
    /\ {rd, wr, eff} \subseteq [Calls -> BOOLEAN]
    /\ {excl, event, bound} \subseteq BOOLEAN
    /\ fails \in 0 .. MaxFails

(* A program is about to run, "x" holds v and others will write it. *)
Start(calls, v, others) ==
    /\ prog = calls /\ plan = others
    /\ mem = [l \in {"x", "y", "z"} |-> IF l = "x" THEN v ELSE 0]
    /\ pc = [i \in Calls |-> 1]
    /\ reg = [i \in Calls |-> prog[i].exp] /\ last = reg
    /\ rd = [i \in Calls |-> FALSE] /\ wr = rd /\ eff = rd
    /\ excl = FALSE /\ event = FALSE /\ bound = FALSE /\ fails = 0

------------------------------------------------------------------------------
(* Order between calls *)

(* Instruction b of a later call must wait for a of an earlier one. *)
Before(a, b) ==
    \/ /\ a.op = "dmb"
       /\ a.alu \in {"ish", "ishld"} \/ (a.alu = "release" /\ Writes(b))
    \/ /\ b.op = "dmb"
       /\ \/ b.alu \in {"ish", "release"} /\ (Reads(a) \/ Writes(a))
          \/ b.alu = "ishld" /\ Reads(a)
    \/ Reads(a) /\ a.ord.acq
    \/ Writes(b) /\ b.ord.rel
    \/ a.ord.sc /\ b.ord.sc

Successors(a) == CASE a.op \in {"ld", "ldx"} -> {a.yes, a.no}
                   [] a.op = "stx" -> {a.ok, a.no}
                   [] a.op = "cas" -> {a.ok, a.yes, a.no}
                   [] OTHER -> {a.ok}

Depends(a) == Reads(a) /\ a.op # "rmw" /\ Successors(a) # {0} /\ a.test # <<>>

(* Some way from n to the end of an earlier body has nothing b waits for;  *)
(* a store also waits for the reads that branches depend on.               *)
RECURSIVE Passes(_, _, _, _)
Passes(body, n, b, seen) ==
    n # 0 => /\ n \notin seen
             /\ ~Before(body[n], b)
             /\ ~(Writes(b) /\ Depends(body[n]))
             /\ \E t \in Successors(body[n]) : Passes(body, t, b, seen \cup {n})

Pass(j, n, b) == Passes(Body(j), n, b, {})

(* A store overtakes a pending store-exclusive only if that one succeeds. *)
Pairs(j) == pc[j] # 0 /\ \E n \in pc[j] .. Len(Body(j)) : Body(j)[n].op = "stx"

Ready(i) ==
    /\ pc[i] # 0
    /\ \A j \in 1 .. i - 1 :
        /\ Pass(j, pc[j], At(i))
        /\ Writes(At(i)) /\ Pairs(j) /\ At(j).op = "stx" => excl

Binds(i) == Writes(At(i)) /\ \E j \in 1 .. i - 1 : Pairs(j)

(* The reads of later calls that ran ahead although b, reached after all,  *)
(* is in their way.  The calls around the one under test do not branch.    *)
Executed(k) == {Body(k)[n] : n \in 1 .. (IF pc[k] = 0 THEN Len(Body(k)) ELSE pc[k] - 1)}
Squashed(i, t) ==
    {k \in Calls : k > i /\ ~wr[k] /\ \E b \in Executed(k) : ~Pass(i, t, b)}

------------------------------------------------------------------------------
(* One instruction of call i.  Advance moves i to t and squashes what ran  *)
(* ahead in vain; got and put say whether the read and the write of the    *)
(* call are performed after the step, done whether it has taken effect.    *)
Advance(i, t, got, put, done) ==
    LET S == Squashed(i, t)
    IN  /\ pc' = [k \in Calls |-> IF k = i THEN t ELSE IF k \in S THEN 1 ELSE pc[k]]
        /\ rd' = [k \in Calls |-> IF k = i THEN got ELSE rd[k] /\ k \notin S]
        /\ eff' = [k \in Calls |-> IF k = i THEN done ELSE eff[k] /\ k \notin S]
        /\ wr' = [wr EXCEPT ![i] = put]
        /\ bound' = (bound \/ Binds(i))
        /\ UNCHANGED <<prog, plan>>

Meets(i, v) ==
    \A n \in DOMAIN At(i).test :
        Holds(At(i).test[n][1], v,
              CASE At(i).test[n][2] = "e" -> prog[i].exp
                [] At(i).test[n][2] = "v" -> prog[i].arg
                [] At(i).test[n][2] = "r" -> reg[i])

(* The value the instruction writes when the location holds v. *)
Stored(i, v) ==
    LET m == Modulus(prog[i].fn.ty)
        w == Operand(At(i).src, m, prog[i].arg)
    IN  IF At(i).pair THEN PairAlu(At(i).alu, v, w) ELSE Alu(At(i).alu, m, v, w)

(* What a read of v does to call i: v is in the register, and if no other  *)
(* access to the location follows the call has taken effect.               *)
Fetch(i, v) ==
    LET t == IF Meets(i, v) THEN At(i).yes ELSE At(i).no
        final == t = 0 \/ Body(i)[t].op \in {"stx", "dmb"}
    IN  /\ reg' = [reg EXCEPT ![i] = v]
        /\ last' = IF prog[i].fn.ret = "last" /\ ~Meets(i, v)
                   THEN [last EXCEPT ![i] = v] ELSE last
        /\ Advance(i, t, final, FALSE, t = 0 \/ Body(i)[t].op = "dmb")

LoadStep(i) ==
    /\ At(i).op \in {"ld", "ldx"}
    /\ Fetch(i, mem[prog[i].loc])
    /\ excl' = (excl \/ At(i).op = "ldx")
    /\ UNCHANGED <<mem, event, fails>>

Put(i, v) ==
    /\ mem' = [mem EXCEPT ![prog[i].loc] = Stored(i, v)]
    /\ Advance(i, At(i).ok, Reads(At(i)) \/ rd[i], TRUE, TRUE)

StoreStep(i) ==
    /\ At(i).op = "st"
    /\ Put(i, reg[i])
    /\ UNCHANGED <<reg, last, excl, event, fails>>

StoreExclusive(i) ==
    /\ At(i).op = "stx" /\ excl
    /\ Put(i, reg[i])
    /\ excl' = FALSE
    /\ UNCHANGED <<reg, last, event, fails>>

StoreExclusiveFails(i) ==
    /\ At(i).op = "stx" /\ (excl => fails < MaxFails /\ ~bound)
    /\ fails' = IF excl THEN fails + 1 ELSE fails
    /\ excl' = FALSE
    /\ Advance(i, At(i).no, FALSE, FALSE, FALSE)
    /\ UNCHANGED <<mem, reg, last, event>>

Modify(i) ==
    LET v == mem[prog[i].loc]
        expected == IF At(i).with = "e" THEN prog[i].exp ELSE reg[i]
    IN  /\ At(i).op \in {"rmw", "cas"}
        /\ IF At(i).op = "rmw" \/ v = expected
           THEN Put(i, v) /\ reg' = [reg EXCEPT ![i] = v] /\ UNCHANGED last
           ELSE Fetch(i, v) /\ UNCHANGED mem
        /\ UNCHANGED <<excl, event, fails>>

(* A barrier, sevl, and wfe, which sleeps until the event register is set. *)
Hint(i) ==
    /\ \/ At(i).op = "dmb" /\ UNCHANGED event
       \/ At(i).op = "sevl" /\ event' = TRUE
       \/ At(i).op = "wfe" /\ event /\ event' = FALSE
    /\ Advance(i, At(i).ok, rd[i], wr[i], eff[i] \/ prog[i].fn.sig = fence)
    /\ UNCHANGED <<mem, reg, last, excl, fails>>

Exec(i) ==
    /\ i \in {k \in Calls : Ready(k)}
    /\ LoadStep(i) \/ StoreStep(i) \/ StoreExclusive(i) \/ StoreExclusiveFails(i)
         \/ Modify(i) \/ Hint(i)

(* Another thread writes "x". *)
Env ==
    /\ plan # <<>> /\ ~(bound /\ excl)
    /\ mem' = [mem EXCEPT !["x"] = Head(plan)]
    /\ plan' = Tail(plan)
    /\ excl' = FALSE
    /\ event' = (event \/ excl)
    /\ UNCHANGED <<prog, pc, reg, last, rd, wr, eff, bound, fails>>

Returned == \A i \in Calls : pc[i] = 0

Next == Env \/ \E i \in Calls : Exec(i)

(* The processor keeps executing, and the other threads write what they    *)
(* are going to write.                                                     *)
Fairness == WF_vars(Env) /\ \A i \in 1 .. 3 : WF_vars(Exec(i))

------------------------------------------------------------------------------
(* The programs: every function of vatomic, one at a time, alone against   *)
(* other threads that write its location, and between two calls on other   *)
(* locations whose order it has to keep or may leave open.                 *)
Of(fns, sig, mo) == CHOOSE f \in fns : f.sig = sig /\ f.mo = mo /\ f.ty = "32"

Do(f, loc, arg, exp) == [fn |-> f, loc |-> loc, arg |-> arg, exp |-> exp]

(* A value the awaited condition holds of, and one it does not hold of. *)
Good(cc, m, e) == CHOOSE v \in 0 .. m - 1 : Holds(cc, v, e)
Bad(cc, m, e) == CHOOSE v \in 0 .. m - 1 : ~Holds(cc, v, e)

(* The values of a call: what is in memory, the argument, the operand of   *)
(* the compare or the wait.  They wrap, carry, borrow, match and differ.   *)
Values(f) ==
    LET m == Modulus(f.ty)
        h == m \div 2
    IN  IF f.sig.await # "any"
        THEN {<<v, 1, h>> : v \in {Good(f.sig.await, m, h), Bad(f.sig.await, m, h)}}
        ELSE {<<v, w, e>> : v \in {m - 1, h}, w \in {1, (h + 1) % m},
                            e \in IF f.sig.cmp THEN {h, m - 1} ELSE {h}}

(* What other threads write meanwhile: nothing, another value, another     *)
(* value and then the old one.  A wait is always satisfied in the end.     *)
Plans(f, v) ==
    LET m == Modulus(f.ty)
        good == Good(f.sig.await, m, m \div 2)
        bad == Bad(f.sig.await, m, m \div 2)
    IN  IF f.sig.await # "any"
        THEN {<<good>>, <<bad, good>>} \cup (IF v = good THEN {<<>>} ELSE {})
        ELSE {<<>>, <<(v + 1) % m>>, <<0, v>>}

Alone(f) ==
    /\ f.sig # fence
    /\ \E s \in Values(f) : \E p \in Plans(f, s[1]) :
          Start(<<Do(f, "x", s[2], s[3])>>, s[1], p)

(* The calls before and after: nothing keeps them in order by itself, or   *)
(* everything does.                                                        *)
Around(base) ==
    {<<Of(base, read, "rlx"), Of(base, write, "rlx")>>,
     <<Of(base, write, "rlx"), Of(base, read, "rlx")>>,
     <<Of(base, write, "seq"), Of(base, read, "seq")>>}

Between(f, base) ==
    \E a \in Around(base), s \in Values(f) :
        /\ f.sig.await # "any" => Holds(f.sig.await, s[1], s[3])
        /\ Start(<<Do(a[1], "y", 1, 0), Do(f, "x", s[2], s[3]), Do(a[2], "z", 1, 0)>>,
                 s[1], <<>>)

Init ==
    \E t \in {<<ARM64, ARM64>>, <<ARM32v7, ARM32v7>>, <<ARM32v8, ARM32v8>>,
              <<Builtins, Builtins>>, <<Fallback, Builtins>>, <<RemappedSC, Builtins>>} :
        \E f \in t[1] : Alone(f) \/ Between(f, t[2])

Spec == Init /\ [][Next]_vars /\ Fairness

(* The waits of fallback.h for a value. *)
AwaitEqInit == \E f \in await_eq : Alone(f)
AwaitEqSpec == AwaitEqInit /\ [][Next]_vars /\ Fairness

------------------------------------------------------------------------------
(* Correctness *)

Tested == CHOOSE i \in Calls : prog[i].loc = "x"

(* What the C body returns. *)
Value(i) ==
    LET fn == prog[i].fn
        m == Modulus(fn.ty)
    IN  CASE fn.ret = "none" -> reg[i]
          [] fn.ret = "last" -> last[i]
          [] OTHER -> Alu(fn.ret, m, reg[i], Operand(fn.src, m, prog[i].arg))

Abs == INSTANCE VAtomic WITH
    prog <- <<prog[Tested]>>,
    mem <- [x |-> mem["x"]],
    res <- <<CASE ~eff[Tested] -> -2
               [] prog[Tested].fn.sig.ret = "void" -> -1
               [] OTHER -> Value(Tested)>>

(* Every function takes effect in one indivisible step, with the value it  *)
(* promises to write and to return: no failed or repeated store-exclusive, *)
(* no write of another thread between the load and the store, no lost      *)
(* carry between the words of a pair and no wrap-around makes a difference *)
(* (the bodies of arm64*.h, arm32_v*.h, builtins.h and fallback.h).        *)
Atomic == Abs!Spec

(* The accesses of calls j and k, in this order in the program, that the   *)
(* memory model keeps in order (vmm.cat, bob).  The read of a function     *)
(* that returns nothing is not visible.                                    *)
Seen(i, e) == IF e = "R"
              THEN prog[i].fn.sig.ret # "void" \/ prog[i].fn.sig.await # "any"
              ELSE prog[i].fn.sig.op # "none"
Performed(i, e) == IF e = "R" THEN rd[i] ELSE wr[i]

Required(j, d, k, e) ==
    LET mo(i) == prog[i].fn.mo
    IN  \/ d = "R" /\ AcqOf(mo(j))
        \/ e = "W" /\ RelOf(mo(k))
        \/ mo(j) = "seq" /\ mo(k) = "seq"
        \/ \E f \in j + 1 .. k - 1 :
               /\ prog[f].fn.sig = fence
               /\ \/ mo(f) = "seq"
                  \/ mo(f) = "acq" /\ d = "R"
                  \/ mo(f) = "rel" /\ e = "W"

(* No access is performed while one that the memory model orders before it *)
(* is still outstanding: the acquire, release and exclusive forms and the  *)
(* barriers the headers choose for each memory order are strong enough.    *)
OrderKept ==
    \A k \in Calls : \A j \in 1 .. k - 1 : \A d, e \in {"R", "W"} :
        Seen(j, d) /\ Seen(k, e) /\ Required(j, d, k, e) /\ Performed(k, e)
            => Performed(j, d) \/ pc[j] = 0

(* Every call returns: a loop around a store-exclusive gets through once   *)
(* it is left alone, and an await that sleeps in wfe is woken by the write *)
(* that makes its condition true, whenever that write comes.               *)
Returns == <>Returned

(* An await returns a value that satisfies the condition waited for        *)
(* (await_u32.h, await_u64.h, await_ptr.h).                                *)
AwaitReturnsAwaited ==
    \A i \in Calls :
        pc[i] = 0 /\ prog[i].fn.sig.await # "any"
            => Holds(prog[i].fn.sig.await, Value(i), prog[i].exp)
==============================================================================
