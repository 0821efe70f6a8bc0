------------------------------- MODULE VAtomic -------------------------------
(***************************************************************************)
(* What vatomic promises of values: a call takes effect in one step, which *)
(* reads the location, waits for nothing but its own condition, writes the *)
(* promised value and fixes the value the call returns.  Other threads     *)
(* write the location between such steps.                                  *)
(***************************************************************************)
EXTENDS VAtomicARM

VARIABLES
    prog,   \* the calls of one thread: function, location, argument, compare operand
    plan,   \* the values other threads are still going to write to "x"
    mem,    \* the value of each location
    res     \* what each call returned, Pending before it took effect

vars == <<prog, plan, mem, res>>

Pending == -2
Nothing == -1

(* The value a function of the interface leaves behind. *)
Apply(op, m, v, w) ==
    CASE op = "none" -> v
      [] op = "set" -> w
      [] op = "max" -> IF v < w THEN w ELSE v
      [] op = "and" -> v & w
      [] op = "or"  -> v | w
      [] op = "xor" -> v ^^ w
      [] op = "add" -> (v + w) % m
      [] op = "sub" -> (v + (m - w)) % m
      [] op = "inc" -> (v + 1) % m
      [] op = "dec" -> (v + (m - 1)) % m

Init == res = [i \in DOMAIN prog |-> Pending]

Call(i) ==
    LET c == prog[i]
        sig == c.fn.sig
        old == mem[c.loc]
        new == IF sig.cmp /\ old # c.exp
               THEN old
               ELSE Apply(sig.op, Modulus(c.fn.ty), old, c.arg)
    IN  /\ res[i] = Pending
        /\ sig.await = "any" \/ Holds(sig.await, old, c.exp)
        /\ mem' = [mem EXCEPT ![c.loc] = new]
        /\ res' = [res EXCEPT ![i] = CASE sig.ret = "old" -> old
                                       [] sig.ret = "new" -> new
                                       [] sig.ret = "void" -> Nothing]
        /\ UNCHANGED <<prog, plan>>

Env ==
    /\ plan # <<>>
    /\ mem' = [mem EXCEPT !["x"] = Head(plan)]
    /\ plan' = Tail(plan)
    /\ UNCHANGED <<prog, res>>

Next == Env \/ \E i \in DOMAIN prog : Call(i)

Spec == Init /\ [][Next]_vars
==============================================================================
