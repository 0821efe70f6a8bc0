----------------------------- MODULE VAtomicARM -----------------------------
(***************************************************************************)
(* The vocabulary in which the bodies of the vatomic functions are written *)
(* down: memory orders, operand widths, the instructions that touch memory *)
(* or order it, and what a function promises (its signature).              *)
(*                                                                         *)
(* A body is a sequence of instructions.  Register arithmetic, compares    *)
(* and branches are folded into the memory access they follow, so that one *)
(* instruction here is one access, one barrier or one event hint.  A       *)
(* branch target is the index of an instruction; 0 is the end of the body. *)
(*                                                                         *)
(* Then vatomic on AArch64: arm64.h (fences, reads, writes, awaits) and    *)
(* the three implementations of the read-modify-write functions it chooses *)
(* from: load/store-exclusive loops (arm64_llsc.h), single instructions of *)
(* the large system extension (arm64_lse.h), and one exclusive attempt     *)
(* that falls back to a single instruction (arm64_lxe.h).  Each definition *)
(* is one block of functions of a header: those of one family and one      *)
(* operand type and, where the header is laid out by order, of one order.  *)
(***************************************************************************)
EXTENDS Integers, Sequences, Bitwise

Orders == {"seq", "acq", "rel", "rlx"}

AcqOf(mo) == mo \in {"seq", "acq"}
RelOf(mo) == mo \in {"seq", "rel"}

(* Operand widths, scaled down: an 8-bit operand is one bit, a 16- or      *)
(* 32-bit one two bits, a 64-bit, size or pointer one four bits.  A 64-bit *)
(* operand is still a pair of 32-bit words.                                *)
Modulus(ty) == CASE ty = "8" -> 2 [] ty \in {"16", "32"} -> 4 [] OTHER -> 16
Word == Modulus("32")

------------------------------------------------------------------------------
\* mutation: the sum is not cut to the width of the operand
AluNoWrap(f, m, v, w) ==
    CASE f = "none" -> v
      [] f \in {"mov", "swp"} -> w
      [] f = "and" -> v & w
      [] f = "clr" -> v & (m - 1 - w)
      [] f \in {"orr", "set"} -> v | w
      [] f = "eor" -> v ^^ w
      [] f = "add" -> v + w
      [] f = "sub" -> (v + m - w) % m
      [] f = "umax" -> IF v >= w THEN v ELSE w

(* Arithmetic of one register, and of a pair of 32-bit registers with the  *)
(* carry (adds, adc) or the borrow (subs, sbc) between them.               *)
Alu(f, m, v, w) ==
    CASE f = "none" -> v
      [] f \in {"mov", "swp"} -> w
      [] f = "and" -> v & w
      [] f = "clr" -> v & (m - 1 - w)
      [] f \in {"orr", "set"} -> v | w
      [] f = "eor" -> v ^^ w
      [] f = "add" -> (v + w) % m
      [] f = "sub" -> (v + m - w) % m
      [] f = "umax" -> IF v >= w THEN v ELSE w

\* mutation: the high words are added without the carry (add for adc)
PairAluNoCarry(f, v, w) ==
    Alu(f, Word, v \div Word, w \div Word) * Word + Alu(f, Word, v % Word, w % Word)

PairAlu(f, v, w) ==
    LET lo(x) == x % Word
        hi(x) == x \div Word
        carry == IF lo(v) + lo(w) >= Word THEN 1 ELSE 0
        borrow == IF lo(v) < lo(w) THEN 1 ELSE 0
        low == Alu(f, Word, lo(v), lo(w))
        high == CASE f = "add" -> (hi(v) + hi(w) + carry) % Word
                  [] f = "sub" -> (hi(v) + 2 * Word - hi(w) - borrow) % Word
                  [] OTHER -> Alu(f, Word, hi(v), hi(w))
    IN  high * Word + low

Operand(src, m, w) ==
    CASE src = "v" -> w
      [] src = "mvn" -> m - 1 - w
      [] src = "neg" -> (m - w) % m
      [] src = "1U" -> 1

(* Condition codes of an unsigned compare. *)
Holds(cc, v, w) ==
    CASE cc = "eq" -> v = w
      [] cc = "ne" -> v # w
      [] cc = "lo" -> v < w
      [] cc = "ls" -> v <= w
      [] cc = "hi" -> v > w
      [] cc = "hs" -> v >= w

------------------------------------------------------------------------------
(* Instructions.  ord says which half of an access is ordered: acq the     *)
(* read, rel the write; sc marks the accesses that stay in order among     *)
(* themselves.  An Arm acquire or release access is always of that kind,   *)
(* a compiler builtin only when it is sequentially consistent.             *)
Arm(acq, rel) == [acq |-> acq, rel |-> rel, sc |-> acq \/ rel]
C11(mo) == [acq |-> AcqOf(mo), rel |-> RelOf(mo), sc |-> mo = "seq"]

Plain == [op |-> "nop", ord |-> Arm(FALSE, FALSE), test |-> <<>>, alu |-> "none",
          src |-> "v", pair |-> FALSE, with |-> "e", ok |-> 0, yes |-> 0, no |-> 0]

(* A load, then a jump to yes if every <<condition, operand>> of the test  *)
(* holds of the loaded value, to no otherwise.                             *)
Load(op, ord, test, yes, no) ==
    [Plain EXCEPT !.op = op, !.ord = ord, !.test = test, !.yes = yes, !.no = no]
Ld(ord, test, yes, no) == Load("ld", ord, test, yes, no)
Ldx(ord, test, yes, no) == Load("ldx", ord, test, yes, no)

St(ord, next) == [Plain EXCEPT !.op = "st", !.ord = ord, !.alu = "mov", !.ok = next]

(* A store-exclusive of alu(old, v): to ok if it succeeds, no otherwise. *)
Stx(ord, alu, pair, ok, no) ==
    [Plain EXCEPT !.op = "stx", !.ord = ord, !.alu = alu, !.pair = pair,
                  !.ok = ok, !.no = no]

(* A single-instruction read-modify-write; a compare-and-swap that expects *)
(* the operand `with' and, when it fails, branches as a load does.         *)
Rmw(ord, alu, src, next) ==
    [Plain EXCEPT !.op = "rmw", !.ord = ord, !.alu = alu, !.src = src, !.ok = next]
Cas(ord, with, alu, test, ok, yes, no) ==
    [Plain EXCEPT !.op = "cas", !.ord = ord, !.with = with, !.alu = alu,
                  !.test = test, !.ok = ok, !.yes = yes, !.no = no]

(* dmb ish orders everything, dmb ishld earlier reads, the release fence   *)
(* of the compiler later writes; "none" is the line the templates leave    *)
(* empty.                                                                  *)
Dmb(kind, next) == [Plain EXCEPT !.op = "dmb", !.alu = kind, !.ok = next]

Sevl(next) == [Plain EXCEPT !.op = "sevl", !.ok = next]
Wfe(next) == [Plain EXCEPT !.op = "wfe", !.ok = next]

Reads(i) == i.op \in {"ld", "ldx", "rmw", "cas"}
Writes(i) == i.op \in {"st", "stx", "rmw", "cas"}

------------------------------------------------------------------------------
(* What a function promises: to wait for the condition `await' on c, to    *)
(* write only if the value is e (cmp), to apply `op' and to return the old *)
(* value, the new one or nothing.                                          *)
Sig(await, cmp, op, ret) == [await |-> await, cmp |-> cmp, op |-> op, ret |-> ret]

read == Sig("any", FALSE, "none", "old")
write == Sig("any", FALSE, "set", "void")
xchg == Sig("any", FALSE, "set", "old")
cmpxchg == Sig("any", TRUE, "set", "old")
fence == Sig("any", FALSE, "none", "void")
get(op) == Sig("any", FALSE, op, "old")
op_get(op) == Sig("any", FALSE, op, "new")
void(op) == Sig("any", FALSE, op, "void")
await(c) == Sig(c, FALSE, "none", IF c = "eq" THEN "void" ELSE "old")
await_op(c, op) == Sig(c, FALSE, op, "old")

(* A function of the library: operand type, memory order, promise, body,   *)
(* and how the value it returns is made: the value last read, that value   *)
(* combined with an operand, or (last) the value read before it.           *)
FnNew(ty, mo, sig, code, alu, src) ==
    [ty |-> ty, mo |-> mo, sig |-> sig, code |-> code, ret |-> alu, src |-> src]
Fn(ty, mo, sig, code) == FnNew(ty, mo, sig, code, "none", "v")

ArithOps == {"and", "or", "xor", "add", "sub"}

------------------------------------------------------------------------------
Acq(mo) == Arm(AcqOf(mo), FALSE)
Rel(mo) == Arm(FALSE, RelOf(mo))
AcqRel(mo) == Arm(AcqOf(mo), RelOf(mo))

NoAcq == Orders \ {"acq"}
NoRel == Orders \ {"rel"}
------------------------------------------------------------------------------
(* arm64_llsc.h.  The register instruction of each arithmetic function,    *)
(* and the loop all functions share: an early exit of the compare skips    *)
(* the store, a failed store repeats the load.                             *)
Ins == [and |-> "and", or |-> "orr", xor |-> "eor", add |-> "add", sub |-> "sub"]

\* mutation: the load of the loop is never an acquire (ldxr for ldaxr)
LLSCPlainLoad(mo, exit, alu) ==
    <<Ldx(Acq("rlx"), exit, IF exit = <<>> THEN 2 ELSE 0, 2),
      Stx(Rel(mo), alu, FALSE, 0, 1)>>

LLSC(mo, exit, alu) ==
    <<Ldx(Acq(mo), exit, IF exit = <<>> THEN 2 ELSE 0, 2), Stx(Rel(mo), alu, FALSE, 0, 1)>>

llsc_xchg32 == {Fn("32", mo, xchg, LLSC(mo, <<>>, "mov")) : mo \in Orders}
llsc_xchg64 == {Fn("64", mo, xchg, LLSC(mo, <<>>, "mov")) : mo \in Orders}
llsc_xchgptr == {Fn("ptr", mo, xchg, LLSC(mo, <<>>, "mov")) : mo \in Orders}
llsc_cmpxchg32 ==
    {Fn("32", mo, cmpxchg, LLSC(mo, <<<<"ne", "e">>>>, "mov")) : mo \in Orders}
llsc_cmpxchg64 ==
    {Fn("64", mo, cmpxchg, LLSC(mo, <<<<"ne", "e">>>>, "mov")) : mo \in Orders}
llsc_cmpxchgptr ==
    {Fn("ptr", mo, cmpxchg, LLSC(mo, <<<<"ne", "e">>>>, "mov")) : mo \in Orders}
llsc_get_max32 ==
    {Fn("32", mo, get("max"), LLSC(mo, <<<<"hs", "v">>>>, "mov")) : mo \in Orders}
llsc_get_max64 ==
    {Fn("64", mo, get("max"), LLSC(mo, <<<<"hs", "v">>>>, "mov")) : mo \in Orders}
llsc_max32 ==
    {Fn("32", mo, void("max"), LLSC(mo, <<<<"hs", "v">>>>, "mov")) : mo \in NoAcq}
llsc_max64 ==
    {Fn("64", mo, void("max"), LLSC(mo, <<<<"hs", "v">>>>, "mov")) : mo \in NoAcq}
llsc_get32_seq ==
    {Fn("32", "seq", get(op), LLSC("seq", <<>>, Ins[op])) : op \in ArithOps}
llsc_get32_acq ==
    {Fn("32", "acq", get(op), LLSC("acq", <<>>, Ins[op])) : op \in ArithOps}
llsc_get32_rel ==
    {Fn("32", "rel", get(op), LLSC("rel", <<>>, Ins[op])) : op \in ArithOps}
llsc_get32_rlx ==
    {Fn("32", "rlx", get(op), LLSC("rlx", <<>>, Ins[op])) : op \in ArithOps}
llsc_get64_seq ==
    {Fn("64", "seq", get(op), LLSC("seq", <<>>, Ins[op])) : op \in ArithOps}
llsc_get64_acq ==
    {Fn("64", "acq", get(op), LLSC("acq", <<>>, Ins[op])) : op \in ArithOps}
llsc_get64_rel ==
    {Fn("64", "rel", get(op), LLSC("rel", <<>>, Ins[op])) : op \in ArithOps}
llsc_get64_rlx ==
    {Fn("64", "rlx", get(op), LLSC("rlx", <<>>, Ins[op])) : op \in ArithOps}
llsc_void32_seq ==
    {Fn("32", "seq", void(op), LLSC("seq", <<>>, Ins[op])) : op \in ArithOps}
llsc_void32_rel ==
    {Fn("32", "rel", void(op), LLSC("rel", <<>>, Ins[op])) : op \in ArithOps}
llsc_void32_rlx ==
    {Fn("32", "rlx", void(op), LLSC("rlx", <<>>, Ins[op])) : op \in ArithOps}
llsc_void64_seq ==
    {Fn("64", "seq", void(op), LLSC("seq", <<>>, Ins[op])) : op \in ArithOps}
llsc_void64_rel ==
    {Fn("64", "rel", void(op), LLSC("rel", <<>>, Ins[op])) : op \in ArithOps}
llsc_void64_rlx ==
    {Fn("64", "rlx", void(op), LLSC("rlx", <<>>, Ins[op])) : op \in ArithOps}
------------------------------------------------------------------------------
(* arm64_lse.h.  The instruction of each arithmetic function and how its   *)
(* operand is prepared.  The void functions store and return nothing       *)
(* (stadd, stclr, ...): such an instruction has no acquire form.           *)
LSE == [and |-> <<"clr", "mvn">>, or |-> <<"set", "v">>, xor |-> <<"eor", "v">>,
        add |-> <<"add", "v">>, sub |-> <<"add", "neg">>]

LdOp(mo, op) == Rmw(AcqRel(mo), LSE[op][1], LSE[op][2], 0)
StOp(mo, op) == Rmw(Rel(mo), LSE[op][1], LSE[op][2], 0)
Swp(mo) == Rmw(AcqRel(mo), "swp", "v", 0)
CasE(mo) == Cas(AcqRel(mo), "e", "mov", <<>>, 0, 0, 0)
LdUMax(mo) == Rmw(AcqRel(mo), "umax", "v", 0)
StUMax(mo) == Rmw(Rel(mo), "umax", "v", 0)

lse_xchg32 == {Fn("32", mo, xchg, <<Swp(mo)>>) : mo \in Orders}
lse_xchg64 == {Fn("64", mo, xchg, <<Swp(mo)>>) : mo \in Orders}
lse_xchgptr == {Fn("ptr", mo, xchg, <<Swp(mo)>>) : mo \in Orders}
lse_cmpxchg32 == {Fn("32", mo, cmpxchg, <<CasE(mo)>>) : mo \in Orders}
lse_cmpxchg64 == {Fn("64", mo, cmpxchg, <<CasE(mo)>>) : mo \in Orders}
lse_cmpxchgptr == {Fn("ptr", mo, cmpxchg, <<CasE(mo)>>) : mo \in Orders}
lse_get_max32 == {Fn("32", mo, get("max"), <<LdUMax(mo)>>) : mo \in Orders}
lse_get_max64 == {Fn("64", mo, get("max"), <<LdUMax(mo)>>) : mo \in Orders}
lse_max32 == {Fn("32", mo, void("max"), <<StUMax(mo)>>) : mo \in NoAcq}
lse_max64 == {Fn("64", mo, void("max"), <<StUMax(mo)>>) : mo \in NoAcq}
lse_get32_seq == {Fn("32", "seq", get(op), <<LdOp("seq", op)>>) : op \in ArithOps}
lse_get32_acq == {Fn("32", "acq", get(op), <<LdOp("acq", op)>>) : op \in ArithOps}
lse_get32_rel == {Fn("32", "rel", get(op), <<LdOp("rel", op)>>) : op \in ArithOps}
lse_get32_rlx == {Fn("32", "rlx", get(op), <<LdOp("rlx", op)>>) : op \in ArithOps}
lse_get64_seq == {Fn("64", "seq", get(op), <<LdOp("seq", op)>>) : op \in ArithOps}
lse_get64_acq == {Fn("64", "acq", get(op), <<LdOp("acq", op)>>) : op \in ArithOps}
lse_get64_rel == {Fn("64", "rel", get(op), <<LdOp("rel", op)>>) : op \in ArithOps}
lse_get64_rlx == {Fn("64", "rlx", get(op), <<LdOp("rlx", op)>>) : op \in ArithOps}
lse_void32_seq == {Fn("32", "seq", void(op), <<StOp("seq", op)>>) : op \in ArithOps}
lse_void32_rel == {Fn("32", "rel", void(op), <<StOp("rel", op)>>) : op \in ArithOps}
lse_void32_rlx == {Fn("32", "rlx", void(op), <<StOp("rlx", op)>>) : op \in ArithOps}
lse_void64_seq == {Fn("64", "seq", void(op), <<StOp("seq", op)>>) : op \in ArithOps}
lse_void64_rel == {Fn("64", "rel", void(op), <<StOp("rel", op)>>) : op \in ArithOps}
lse_void64_rlx == {Fn("64", "rlx", void(op), <<StOp("rlx", op)>>) : op \in ArithOps}
------------------------------------------------------------------------------
(* arm64_lxe.h: one exclusive attempt, and the instruction to fall back to *)
(* when the store-exclusive fails.                                         *)
LXE(mo, exit, alu, otherwise) ==
    <<Ldx(Acq(mo), exit, IF exit = <<>> THEN 2 ELSE 0, 2), Stx(Rel(mo), alu, FALSE, 0, 3),
      otherwise>>

lxe_xchg32 == {Fn("32", mo, xchg, LXE(mo, <<>>, "mov", Swp(mo))) : mo \in Orders}
lxe_xchg64 == {Fn("64", mo, xchg, LXE(mo, <<>>, "mov", Swp(mo))) : mo \in Orders}
lxe_xchgptr == {Fn("ptr", mo, xchg, LXE(mo, <<>>, "mov", Swp(mo))) : mo \in Orders}
lxe_cmpxchg32 ==
    {Fn("32", mo, cmpxchg, LXE(mo, <<<<"ne", "e">>>>, "mov", CasE(mo))) : mo \in Orders}
lxe_cmpxchg64 ==
    {Fn("64", mo, cmpxchg, LXE(mo, <<<<"ne", "e">>>>, "mov", CasE(mo))) : mo \in Orders}
lxe_cmpxchgptr ==
    {Fn("ptr", mo, cmpxchg, LXE(mo, <<<<"ne", "e">>>>, "mov", CasE(mo))) : mo \in Orders}
lxe_get_max32 ==
    {Fn("32", mo, get("max"), LXE(mo, <<<<"hs", "v">>>>, "mov", LdUMax(mo))) : mo \in Orders}
lxe_get_max64 ==
    {Fn("64", mo, get("max"), LXE(mo, <<<<"hs", "v">>>>, "mov", LdUMax(mo))) : mo \in Orders}
lxe_max32 ==
    {Fn("32", mo, void("max"), LXE(mo, <<<<"hs", "v">>>>, "mov", StUMax(mo))) : mo \in NoAcq}
lxe_max64 ==
    {Fn("64", mo, void("max"), LXE(mo, <<<<"hs", "v">>>>, "mov", StUMax(mo))) : mo \in NoAcq}
lxe_get32_seq ==
    {Fn("32", "seq", get(op), LXE("seq", <<>>, Ins[op], LdOp("seq", op))) : op \in ArithOps}
lxe_get32_acq ==
    {Fn("32", "acq", get(op), LXE("acq", <<>>, Ins[op], LdOp("acq", op))) : op \in ArithOps}
lxe_get32_rel ==
    {Fn("32", "rel", get(op), LXE("rel", <<>>, Ins[op], LdOp("rel", op))) : op \in ArithOps}
lxe_get32_rlx ==
    {Fn("32", "rlx", get(op), LXE("rlx", <<>>, Ins[op], LdOp("rlx", op))) : op \in ArithOps}
lxe_get64_seq ==
    {Fn("64", "seq", get(op), LXE("seq", <<>>, Ins[op], LdOp("seq", op))) : op \in ArithOps}
lxe_get64_acq ==
    {Fn("64", "acq", get(op), LXE("acq", <<>>, Ins[op], LdOp("acq", op))) : op \in ArithOps}
lxe_get64_rel ==
    {Fn("64", "rel", get(op), LXE("rel", <<>>, Ins[op], LdOp("rel", op))) : op \in ArithOps}
lxe_get64_rlx ==
    {Fn("64", "rlx", get(op), LXE("rlx", <<>>, Ins[op], LdOp("rlx", op))) : op \in ArithOps}
lxe_void32_seq ==
    {Fn("32", "seq", void(op), LXE("seq", <<>>, Ins[op], StOp("seq", op))) : op \in ArithOps}
lxe_void32_rel ==
    {Fn("32", "rel", void(op), LXE("rel", <<>>, Ins[op], StOp("rel", op))) : op \in ArithOps}
lxe_void32_rlx ==
    {Fn("32", "rlx", void(op), LXE("rlx", <<>>, Ins[op], StOp("rlx", op))) : op \in ArithOps}
lxe_void64_seq ==
    {Fn("64", "seq", void(op), LXE("seq", <<>>, Ins[op], StOp("seq", op))) : op \in ArithOps}
lxe_void64_rel ==
    {Fn("64", "rel", void(op), LXE("rel", <<>>, Ins[op], StOp("rel", op))) : op \in ArithOps}
lxe_void64_rlx ==
    {Fn("64", "rlx", void(op), LXE("rlx", <<>>, Ins[op], StOp("rlx", op))) : op \in ArithOps}
------------------------------------------------------------------------------
(* arm64.h.  Without VATOMIC_DISABLE_POLITE_AWAIT a thread waits in wfe    *)
(* for the event that clearing its exclusive monitor raises; with it, it   *)
(* spins on the load.                                                      *)
Dmbs == [seq |-> "ish", acq |-> "ishld", rel |-> "ish", rlx |-> "none"]

\* mutation: the polite wait does not send itself the first event
AwaitNoSevl(mo, cc, polite) ==
    IF polite
    THEN <<Ld(Acq(mo), <<<<cc, "e">>>>, 0, 2), Wfe(3), Ldx(Acq(mo), <<<<cc, "e">>>>, 0, 2)>>
    ELSE <<Ld(Acq(mo), <<<<cc, "e">>>>, 0, 1)>>

Await(mo, cc, polite) ==
    IF polite
    THEN <<Ld(Acq(mo), <<<<cc, "e">>>>, 0, 2), Sevl(3), Wfe(4),
           Ldx(Acq(mo), <<<<cc, "e">>>>, 0, 3)>>
    ELSE <<Ld(Acq(mo), <<<<cc, "e">>>>, 0, 1)>>

Awaiting(ty, mo, ccs) ==
    {Fn(ty, mo, await(cc), Await(mo, cc, polite)) : cc \in ccs, polite \in BOOLEAN}

arm64_fence == {Fn("32", mo, fence, <<Dmb(Dmbs[mo], 0)>>) : mo \in Orders}
arm64_read ==
    {Fn(ty, mo, read, <<Ld(Acq(mo), <<>>, 0, 0)>>) : ty \in {"32", "64", "ptr"}, mo \in NoRel}
arm64_write ==
    {Fn(ty, mo, write, <<St(Rel(mo), 0)>>) : ty \in {"32", "64", "ptr"}, mo \in NoAcq}
arm64_await_eq32_seq == Awaiting("32", "seq", {"eq", "ne"})
arm64_await32_seq == Awaiting("32", "seq", {"lo", "ls", "hi", "hs"})
arm64_await_eq32_acq == Awaiting("32", "acq", {"eq", "ne"})
arm64_await32_acq == Awaiting("32", "acq", {"lo", "ls", "hi", "hs"})
arm64_await_eq32_rlx == Awaiting("32", "rlx", {"eq", "ne"})
arm64_await32_rlx == Awaiting("32", "rlx", {"lo", "ls", "hi", "hs"})
arm64_await_eq64_seq == Awaiting("64", "seq", {"eq", "ne"})
arm64_await64_seq == Awaiting("64", "seq", {"lo", "ls", "hi", "hs"})
arm64_await_eq64_acq == Awaiting("64", "acq", {"eq", "ne"})
arm64_await64_acq == Awaiting("64", "acq", {"lo", "ls", "hi", "hs"})
arm64_await_eq64_rlx == Awaiting("64", "rlx", {"eq", "ne"})
arm64_await64_rlx == Awaiting("64", "rlx", {"lo", "ls", "hi", "hs"})
arm64_await_eqptr_seq == Awaiting("ptr", "seq", {"eq", "ne"})
arm64_await_eqptr_acq == Awaiting("ptr", "acq", {"eq", "ne"})
arm64_await_eqptr_rlx == Awaiting("ptr", "rlx", {"eq", "ne"})
------------------------------------------------------------------------------
ARM64 == UNION
   {llsc_xchg32, llsc_xchg64, llsc_xchgptr, llsc_cmpxchg32, llsc_cmpxchg64,
    llsc_cmpxchgptr, llsc_get_max32, llsc_get_max64, llsc_max32, llsc_max64,
    llsc_get32_seq, llsc_get32_acq, llsc_get32_rel, llsc_get32_rlx,
    llsc_get64_seq, llsc_get64_acq, llsc_get64_rel, llsc_get64_rlx,
    llsc_void32_seq, llsc_void32_rel, llsc_void32_rlx, llsc_void64_seq,
    llsc_void64_rel, llsc_void64_rlx, lse_xchg32, lse_xchg64, lse_xchgptr,
    lse_cmpxchg32, lse_cmpxchg64, lse_cmpxchgptr, lse_get_max32,
    lse_get_max64, lse_max32, lse_max64, lse_get32_seq, lse_get32_acq,
    lse_get32_rel, lse_get32_rlx, lse_get64_seq, lse_get64_acq,
    lse_get64_rel, lse_get64_rlx, lse_void32_seq, lse_void32_rel,
    lse_void32_rlx, lse_void64_seq, lse_void64_rel, lse_void64_rlx,
    lxe_xchg32, lxe_xchg64, lxe_xchgptr, lxe_cmpxchg32, lxe_cmpxchg64,
    lxe_cmpxchgptr, lxe_get_max32, lxe_get_max64, lxe_max32, lxe_max64,
    lxe_get32_seq, lxe_get32_acq, lxe_get32_rel, lxe_get32_rlx,
    lxe_get64_seq, lxe_get64_acq, lxe_get64_rel, lxe_get64_rlx,
    lxe_void32_seq, lxe_void32_rel, lxe_void32_rlx, lxe_void64_seq,
    lxe_void64_rel, lxe_void64_rlx, arm64_fence, arm64_read, arm64_write,
    arm64_await_eq32_seq, arm64_await32_seq, arm64_await_eq32_acq,
    arm64_await32_acq, arm64_await_eq32_rlx, arm64_await32_rlx,
    arm64_await_eq64_seq, arm64_await64_seq, arm64_await_eq64_acq,
    arm64_await64_acq, arm64_await_eq64_rlx, arm64_await64_rlx,
    arm64_await_eqptr_seq, arm64_await_eqptr_acq, arm64_await_eqptr_rlx}
------------------------------------------------------------------------------
(***************************************************************************)
(* 32-bit Arm: arm32_v7.h, where every order is a dmb before or after a    *)
(* relaxed exclusive loop, and arm32_v8.h, which has acquire loads and     *)
(* release stores.  A 64-bit operand is a pair of registers: it is loaded  *)
(* and stored by exclusive double-word accesses and its arithmetic carries *)
(* from the low word to the high one.                                      *)
(***************************************************************************)
Rlx == Arm(FALSE, FALSE)

Types32 == {"32", "ptr"}
------------------------------------------------------------------------------
(* arm32_v7.h.  The leading barrier makes a release, the trailing one an   *)
(* acquire; a compare that fails still reaches the trailing barrier.       *)
Leading(mo) == Dmb(IF RelOf(mo) THEN "ish" ELSE "none", 2)
Trailing(mo) == Dmb(IF AcqOf(mo) THEN "ish" ELSE "none", 0)

v7Loop(mo, exit, alu, pair) ==
    <<Leading(mo), Ldx(Rlx, exit, IF exit = <<>> THEN 3 ELSE 4, 3),
      Stx(Rlx, alu, pair, 4, 2), Trailing(mo)>>

v7Get(ty, mo) ==
    {Fn(ty, mo, get(op), v7Loop(mo, <<>>, Ins[op], ty = "64")) : op \in ArithOps}

v7_fence ==
    {Fn("32", mo, fence, <<Dmb(IF mo = "rlx" THEN "none" ELSE "ish", 0)>>) : mo \in Orders}
v7_read ==
    {Fn(ty, mo, read, <<Load(IF ty = "64" THEN "ldx" ELSE "ld", Rlx, <<>>, 2, 2), Trailing(mo)>>)
        : ty \in {"32", "64", "ptr"}, mo \in NoRel}
v7_write32 ==
    {Fn(ty, mo, write, <<Leading(mo), St(Rlx, 3), Trailing(mo)>>) : ty \in Types32, mo \in NoAcq}
v7_write64 == {Fn("64", mo, write, v7Loop(mo, <<>>, "mov", TRUE)) : mo \in NoAcq}
v7_xchg32 == {Fn("32", mo, xchg, v7Loop(mo, <<>>, "mov", FALSE)) : mo \in Orders}
v7_xchgptr == {Fn("ptr", mo, xchg, v7Loop(mo, <<>>, "mov", FALSE)) : mo \in Orders}
v7_xchg64 == {Fn("64", mo, xchg, v7Loop(mo, <<>>, "mov", TRUE)) : mo \in Orders}
v7_cmpxchg32 ==
    {Fn("32", mo, cmpxchg, v7Loop(mo, <<<<"ne", "e">>>>, "mov", FALSE)) : mo \in Orders}
v7_cmpxchgptr ==
    {Fn("ptr", mo, cmpxchg, v7Loop(mo, <<<<"ne", "e">>>>, "mov", FALSE)) : mo \in Orders}
v7_cmpxchg64 ==
    {Fn("64", mo, cmpxchg, v7Loop(mo, <<<<"ne", "e">>>>, "mov", TRUE)) : mo \in Orders}
v7_get32_seq == v7Get("32", "seq")
v7_get32_acq == v7Get("32", "acq")
v7_get32_rel == v7Get("32", "rel")
v7_get32_rlx == v7Get("32", "rlx")
v7_get64_seq == v7Get("64", "seq")
v7_get64_acq == v7Get("64", "acq")
v7_get64_rel == v7Get("64", "rel")
v7_get64_rlx == v7Get("64", "rlx")
------------------------------------------------------------------------------
(* arm32_v8.h *)
v8Loop(mo, exit, alu, pair) ==
    <<Ldx(Acq(mo), exit, IF exit = <<>> THEN 2 ELSE 0, 2),
      Stx(Rel(mo), alu, pair, 0, 1)>>

v8Get(ty, mo) ==
    {Fn(ty, mo, get(op), v8Loop(mo, <<>>, Ins[op], ty = "64")) : op \in ArithOps}

v8Dmbs == [seq |-> "ish", acq |-> "ishld", rel |-> "ish", rlx |-> "none"]

v8_fence == {Fn("32", mo, fence, <<Dmb(v8Dmbs[mo], 0)>>) : mo \in Orders}
v8_read ==
    {Fn(ty, mo, read, <<Load(IF ty = "64" THEN "ldx" ELSE "ld", Acq(mo), <<>>, 0, 0)>>)
        : ty \in {"32", "64", "ptr"}, mo \in NoRel}
v8_write32 ==
    {Fn(ty, mo, write, <<St(Rel(mo), 0)>>) : ty \in Types32, mo \in NoAcq}
v8_write64 == {Fn("64", mo, write, v8Loop(mo, <<>>, "mov", TRUE)) : mo \in NoAcq}
v8_xchg32 == {Fn("32", mo, xchg, v8Loop(mo, <<>>, "mov", FALSE)) : mo \in Orders}
v8_xchgptr == {Fn("ptr", mo, xchg, v8Loop(mo, <<>>, "mov", FALSE)) : mo \in Orders}
v8_xchg64 == {Fn("64", mo, xchg, v8Loop(mo, <<>>, "mov", TRUE)) : mo \in Orders}
v8_cmpxchg32 ==
    {Fn("32", mo, cmpxchg, v8Loop(mo, <<<<"ne", "e">>>>, "mov", FALSE)) : mo \in Orders}
v8_cmpxchgptr ==
    {Fn("ptr", mo, cmpxchg, v8Loop(mo, <<<<"ne", "e">>>>, "mov", FALSE)) : mo \in Orders}
v8_cmpxchg64 ==
    {Fn("64", mo, cmpxchg, v8Loop(mo, <<<<"ne", "e">>>>, "mov", TRUE)) : mo \in Orders}
v8_get32_seq == v8Get("32", "seq")
v8_get32_acq == v8Get("32", "acq")
v8_get32_rel == v8Get("32", "rel")
v8_get32_rlx == v8Get("32", "rlx")
v8_get64_seq == v8Get("64", "seq")
v8_get64_acq == v8Get("64", "acq")
v8_get64_rel == v8Get("64", "rel")
v8_get64_rlx == v8Get("64", "rlx")
------------------------------------------------------------------------------
ARM32v7 == UNION
   {v7_fence, v7_read, v7_write32, v7_write64, v7_xchg32, v7_xchgptr,
    v7_xchg64, v7_cmpxchg32, v7_cmpxchgptr, v7_cmpxchg64, v7_get32_seq,
    v7_get32_acq, v7_get32_rel, v7_get32_rlx, v7_get64_seq, v7_get64_acq,
    v7_get64_rel, v7_get64_rlx}

ARM32v8 == UNION
   {v8_fence, v8_read, v8_write32, v8_write64, v8_xchg32, v8_xchgptr,
    v8_xchg64, v8_cmpxchg32, v8_cmpxchgptr, v8_cmpxchg64, v8_get32_seq,
    v8_get32_acq, v8_get32_rel, v8_get32_rlx, v8_get64_seq, v8_get64_acq,
    v8_get64_rel, v8_get64_rlx}
==============================================================================
