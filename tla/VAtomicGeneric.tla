--------------------------- MODULE VAtomicGeneric ---------------------------
(***************************************************************************)
(* The portable part of vatomic: builtins.h, where a function is one       *)
(* __atomic builtin of the compiler, and fallback.h, which builds the      *)
(* functions an architecture header lacks from the ones it has.  A call of *)
(* such a base function is one atomic access with the order it was asked   *)
(* for; VAtomicARM shows that the bodies behind it keep that promise.      *)
(***************************************************************************)
EXTENDS VAtomicARM

ReadOrders == Orders \ {"rel"}
WriteOrders == Orders \ {"acq"}

Base == [and |-> "and", or |-> "orr", xor |-> "eor", add |-> "add", sub |-> "sub",
         max |-> "umax", set |-> "mov"]
------------------------------------------------------------------------------
(* builtins.h *)
Fences == [seq |-> "ish", acq |-> "ishld", rel |-> "release", rlx |-> "none"]
LoadN(ty, mo) == Fn(ty, mo, read, <<Ld(C11(mo), <<>>, 0, 0)>>)
StoreN(ty, mo) == Fn(ty, mo, write, <<St(C11(mo), 0)>>)
ExchangeN(ty, mo) == Fn(ty, mo, xchg, <<Rmw(C11(mo), "swp", "v", 0)>>)
CompareN(ty, mo) == Fn(ty, mo, cmpxchg, <<Cas(C11(mo), "e", "mov", <<>>, 0, 0, 0)>>)
FetchN(ty, mo, op) == Fn(ty, mo, get(op), <<Rmw(C11(mo), Base[op], "v", 0)>>)

builtin_fence == {Fn("32", mo, fence, <<Dmb(Fences[mo], 0)>>) : mo \in Orders}
builtin_read8_16_32 == {LoadN(ty, mo) : ty \in {"8", "16", "32"}, mo \in ReadOrders}
builtin_read64_sz_ptr ==
    {LoadN(ty, mo) : ty \in {"64", "sz", "ptr"}, mo \in ReadOrders}
builtin_write8_16_32 ==
    {StoreN(ty, mo) : ty \in {"8", "16", "32"}, mo \in WriteOrders}
builtin_write64_sz_ptr ==
    {StoreN(ty, mo) : ty \in {"64", "sz", "ptr"}, mo \in WriteOrders}
builtin_xchg8_16 == {ExchangeN(ty, mo) : ty \in {"8", "16"}, mo \in Orders}
builtin_xchg32_64 == {ExchangeN(ty, mo) : ty \in {"32", "64"}, mo \in Orders}
builtin_xchgsz_ptr == {ExchangeN(ty, mo) : ty \in {"sz", "ptr"}, mo \in Orders}
builtin_cmpxchg8_16 == {CompareN(ty, mo) : ty \in {"8", "16"}, mo \in Orders}
builtin_cmpxchg32_64 == {CompareN(ty, mo) : ty \in {"32", "64"}, mo \in Orders}
builtin_cmpxchgsz_ptr == {CompareN(ty, mo) : ty \in {"sz", "ptr"}, mo \in Orders}
builtin_get_and8_16 == {FetchN(ty, mo, "and") : ty \in {"8", "16"}, mo \in Orders}
builtin_get_and32_64 == {FetchN(ty, mo, "and") : ty \in {"32", "64"}, mo \in Orders}
builtin_get_andsz == {FetchN(ty, mo, "and") : ty \in {"sz"}, mo \in Orders}
builtin_get_or8_16 == {FetchN(ty, mo, "or") : ty \in {"8", "16"}, mo \in Orders}
builtin_get_or32_64 == {FetchN(ty, mo, "or") : ty \in {"32", "64"}, mo \in Orders}
builtin_get_orsz == {FetchN(ty, mo, "or") : ty \in {"sz"}, mo \in Orders}
builtin_get_xor8_16 == {FetchN(ty, mo, "xor") : ty \in {"8", "16"}, mo \in Orders}
builtin_get_xor32_64 == {FetchN(ty, mo, "xor") : ty \in {"32", "64"}, mo \in Orders}
builtin_get_xorsz == {FetchN(ty, mo, "xor") : ty \in {"sz"}, mo \in Orders}
builtin_get_add8_16 == {FetchN(ty, mo, "add") : ty \in {"8", "16"}, mo \in Orders}
builtin_get_add32_64 == {FetchN(ty, mo, "add") : ty \in {"32", "64"}, mo \in Orders}
builtin_get_addsz == {FetchN(ty, mo, "add") : ty \in {"sz"}, mo \in Orders}
builtin_get_sub8_16 == {FetchN(ty, mo, "sub") : ty \in {"8", "16"}, mo \in Orders}
builtin_get_sub32_64 == {FetchN(ty, mo, "sub") : ty \in {"32", "64"}, mo \in Orders}
builtin_get_subsz == {FetchN(ty, mo, "sub") : ty \in {"sz"}, mo \in Orders}
------------------------------------------------------------------------------
(* fallback.h, arithmetic.  X_get computes its result from the old value   *)
(* get_X returned; the void form drops it.  get_max is a compare-exchange  *)
(* loop that stops as soon as the value is large enough.                   *)
Relaxed(mo) == IF mo = "rel" THEN "rlx" ELSE mo
MaxLoop(mo) ==
    <<Ld(C11(Relaxed(mo)), <<<<"hs", "v">>>>, 0, 2),
      Cas(C11(mo), "r", "mov", <<<<"hs", "v">>>>, 0, 0, 2)>>
One(mo, op, src) == <<Rmw(C11(mo), Base[op], src, 0)>>

GetMax(ty, mo) == Fn(ty, mo, get("max"), MaxLoop(mo))
MaxGet(ty, mo) == FnNew(ty, mo, op_get("max"), MaxLoop(mo), "umax", "v")
Max(ty, mo) == Fn(ty, mo, void("max"), MaxLoop(mo))
OpGet(ty, mo, op) == FnNew(ty, mo, op_get(op), One(mo, op, "v"), Base[op], "v")
Op(ty, mo, op) == Fn(ty, mo, void(op), One(mo, op, "v"))
GetStep(ty, mo, op, by) == Fn(ty, mo, get(op), One(mo, by, "1U"))
StepGet(ty, mo, op, by) == FnNew(ty, mo, op_get(op), One(mo, by, "1U"), by, "1U")
Step(ty, mo, op, by) == Fn(ty, mo, void(op), One(mo, by, "1U"))

get_max_8_16 == {GetMax(ty, mo) : ty \in {"8", "16"}, mo \in Orders}
get_max_32_64 == {GetMax(ty, mo) : ty \in {"32", "64"}, mo \in Orders}
get_max_sz == {GetMax(ty, mo) : ty \in {"sz"}, mo \in Orders}
max_get_8_16_32 == {MaxGet(ty, mo) : ty \in {"8", "16", "32"}, mo \in Orders}
max_get_64_sz == {MaxGet(ty, mo) : ty \in {"64", "sz"}, mo \in Orders}
max_8_16 == {Max(ty, mo) : ty \in {"8", "16"}, mo \in WriteOrders}
max_32_64_sz == {Max(ty, mo) : ty \in {"32", "64", "sz"}, mo \in WriteOrders}
and_get_8_16_32 == {OpGet(ty, mo, "and") : ty \in {"8", "16", "32"}, mo \in Orders}
and_get_64_sz == {OpGet(ty, mo, "and") : ty \in {"64", "sz"}, mo \in Orders}
and_8_16 == {Op(ty, mo, "and") : ty \in {"8", "16"}, mo \in WriteOrders}
and_32_64_sz == {Op(ty, mo, "and") : ty \in {"32", "64", "sz"}, mo \in WriteOrders}
or_get_8_16_32 == {OpGet(ty, mo, "or") : ty \in {"8", "16", "32"}, mo \in Orders}
or_get_64_sz == {OpGet(ty, mo, "or") : ty \in {"64", "sz"}, mo \in Orders}
or_8_16 == {Op(ty, mo, "or") : ty \in {"8", "16"}, mo \in WriteOrders}
or_32_64_sz == {Op(ty, mo, "or") : ty \in {"32", "64", "sz"}, mo \in WriteOrders}
xor_get_8_16_32 == {OpGet(ty, mo, "xor") : ty \in {"8", "16", "32"}, mo \in Orders}
xor_get_64_sz == {OpGet(ty, mo, "xor") : ty \in {"64", "sz"}, mo \in Orders}
xor_8_16 == {Op(ty, mo, "xor") : ty \in {"8", "16"}, mo \in WriteOrders}
xor_32_64_sz == {Op(ty, mo, "xor") : ty \in {"32", "64", "sz"}, mo \in WriteOrders}
add_get_8_16_32 == {OpGet(ty, mo, "add") : ty \in {"8", "16", "32"}, mo \in Orders}
add_get_64_sz == {OpGet(ty, mo, "add") : ty \in {"64", "sz"}, mo \in Orders}
add_8_16 == {Op(ty, mo, "add") : ty \in {"8", "16"}, mo \in WriteOrders}
add_32_64_sz == {Op(ty, mo, "add") : ty \in {"32", "64", "sz"}, mo \in WriteOrders}
get_inc_8_16_32 ==
    {GetStep(ty, mo, "inc", "add") : ty \in {"8", "16", "32"}, mo \in Orders}
get_inc_64_sz ==
    {GetStep(ty, mo, "inc", "add") : ty \in {"64", "sz"}, mo \in Orders}
inc_get_8_16_32 ==
    {StepGet(ty, mo, "inc", "add") : ty \in {"8", "16", "32"}, mo \in Orders}
inc_get_64_sz ==
    {StepGet(ty, mo, "inc", "add") : ty \in {"64", "sz"}, mo \in Orders}
inc_8_16_32 ==
    {Step(ty, mo, "inc", "add") : ty \in {"8", "16", "32"}, mo \in Orders}
inc_64_sz == {Step(ty, mo, "inc", "add") : ty \in {"64", "sz"}, mo \in Orders}
sub_get_8_16_32 == {OpGet(ty, mo, "sub") : ty \in {"8", "16", "32"}, mo \in Orders}
sub_get_64_sz == {OpGet(ty, mo, "sub") : ty \in {"64", "sz"}, mo \in Orders}
sub_8_16_32 == {Op(ty, mo, "sub") : ty \in {"8", "16", "32"}, mo \in Orders}
sub_64_sz == {Op(ty, mo, "sub") : ty \in {"64", "sz"}, mo \in Orders}
get_dec_8_16_32 ==
    {GetStep(ty, mo, "dec", "sub") : ty \in {"8", "16", "32"}, mo \in Orders}
get_dec_64_sz ==
    {GetStep(ty, mo, "dec", "sub") : ty \in {"64", "sz"}, mo \in Orders}
dec_get_8_16_32 ==
    {StepGet(ty, mo, "dec", "sub") : ty \in {"8", "16", "32"}, mo \in Orders}
dec_get_64_sz ==
    {StepGet(ty, mo, "dec", "sub") : ty \in {"64", "sz"}, mo \in Orders}
dec_8_16_32 ==
    {Step(ty, mo, "dec", "sub") : ty \in {"8", "16", "32"}, mo \in Orders}
dec_64_sz == {Step(ty, mo, "dec", "sub") : ty \in {"64", "sz"}, mo \in Orders}
init == {StoreN(ty, "seq") : ty \in {"8", "16", "32", "64", "sz", "ptr"}}
------------------------------------------------------------------------------
(* fallback.h, awaits.  await_neq and await_eq spin on a read; await_eq    *)
(* returns the last value it read before the awaited one (the awaited one  *)
(* if the first read found it).  The ordered awaits wait for a change of   *)
(* the value they saw.  The modifying awaits retry a compare-exchange on   *)
(* the value they waited for, with the order asked for; the wait itself is *)
(* relaxed unless the function is sequentially consistent.                 *)
Wait(mo) == IF mo = "seq" THEN "seq" ELSE "rlx"
AwaitNeq(ty, mo) == Fn(ty, mo, await("ne"), <<Ld(C11(mo), <<<<"ne", "e">>>>, 0, 1)>>)
AwaitEq(ty, mo) ==
    FnNew(ty, mo, await("eq"), <<Ld(C11(mo), <<<<"eq", "e">>>>, 0, 1)>>, "last", "v")
AwaitCmp(ty, mo, cc) ==
    Fn(ty, mo, await(cc), <<Ld(C11(mo), <<<<cc, "e">>>>, 0, 2),
                            Ld(C11(mo), <<<<"ne", "r">>, <<cc, "e">>>>, 0, 2)>>)
AwaitCmpOp(ty, mo, cc, op) ==
    Fn(ty, mo, await_op(cc, op),
       <<Ld(C11(Wait(mo)), <<<<cc, "e">>>>, 3, 2),
         Ld(C11(Wait(mo)), <<<<"ne", "r">>, <<cc, "e">>>>, 3, 2),
         Cas(C11(mo), "r", Base[op], <<<<cc, "e">>>>, 0, 3, 2)>>)
AwaitNeqOp(ty, mo, op) ==
    Fn(ty, mo, await_op("ne", op),
       <<Ld(C11(Wait(mo)), <<<<"ne", "e">>>>, 2, 1),
         Cas(C11(mo), "r", Base[op], <<>>, 0, 1, 1)>>)
AwaitEqOp(ty, mo, op) ==
    Fn(ty, mo, await_op("eq", op),
       <<Ld(C11(Wait(mo)), <<<<"eq", "e">>>>, 2, 1),
         Cas(C11(mo), "e", Base[op], <<>>, 0, 1, 1)>>)

await_neq == {AwaitNeq(ty, mo) : ty \in {"32", "64", "ptr"}, mo \in ReadOrders}
await_eq == {AwaitEq(ty, mo) : ty \in {"32", "64", "ptr"}, mo \in ReadOrders}
await_le_lt32 == {AwaitCmp("32", mo, cc) : mo \in ReadOrders, cc \in {"ls", "lo"}}
await_ge_gt32 == {AwaitCmp("32", mo, cc) : mo \in ReadOrders, cc \in {"hs", "hi"}}
await_le_lt64 == {AwaitCmp("64", mo, cc) : mo \in ReadOrders, cc \in {"ls", "lo"}}
await_ge_gt64 == {AwaitCmp("64", mo, cc) : mo \in ReadOrders, cc \in {"hs", "hi"}}
await_le_arith32 ==
    {AwaitCmpOp("32", mo, "ls", op) : mo \in Orders, op \in {"add", "sub"}}
await_le_set32 == {AwaitCmpOp("32", mo, "ls", "set") : mo \in Orders}
await_lt_arith32 ==
    {AwaitCmpOp("32", mo, "lo", op) : mo \in Orders, op \in {"add", "sub"}}
await_lt_set32 == {AwaitCmpOp("32", mo, "lo", "set") : mo \in Orders}
await_ge_arith32 ==
    {AwaitCmpOp("32", mo, "hs", op) : mo \in Orders, op \in {"add", "sub"}}
await_ge_set32 == {AwaitCmpOp("32", mo, "hs", "set") : mo \in Orders}
await_gt_arith32 ==
    {AwaitCmpOp("32", mo, "hi", op) : mo \in Orders, op \in {"add", "sub"}}
await_gt_set32 == {AwaitCmpOp("32", mo, "hi", "set") : mo \in Orders}
await_le_arith64 ==
    {AwaitCmpOp("64", mo, "ls", op) : mo \in Orders, op \in {"add", "sub"}}
await_le_set64 == {AwaitCmpOp("64", mo, "ls", "set") : mo \in Orders}
await_lt_arith64 ==
    {AwaitCmpOp("64", mo, "lo", op) : mo \in Orders, op \in {"add", "sub"}}
await_lt_set64 == {AwaitCmpOp("64", mo, "lo", "set") : mo \in Orders}
await_ge_arith64 ==
    {AwaitCmpOp("64", mo, "hs", op) : mo \in Orders, op \in {"add", "sub"}}
await_ge_set64 == {AwaitCmpOp("64", mo, "hs", "set") : mo \in Orders}
await_gt_arith64 ==
    {AwaitCmpOp("64", mo, "hi", op) : mo \in Orders, op \in {"add", "sub"}}
await_gt_set64 == {AwaitCmpOp("64", mo, "hi", "set") : mo \in Orders}
await_neq_arith32 ==
    {AwaitNeqOp("32", mo, op) : mo \in Orders, op \in {"add", "sub"}}
await_neq_set32 == {AwaitNeqOp("32", mo, "set") : mo \in Orders}
await_neq_arith64 ==
    {AwaitNeqOp("64", mo, op) : mo \in Orders, op \in {"add", "sub"}}
await_neq_set64 == {AwaitNeqOp("64", mo, "set") : mo \in Orders}
await_neq_setptr == {AwaitNeqOp("ptr", mo, "set") : mo \in Orders}
await_eq_arith32 == {AwaitEqOp("32", mo, op) : mo \in Orders, op \in {"add", "sub"}}
await_eq_set32 == {AwaitEqOp("32", mo, "set") : mo \in Orders}
await_eq_arith64 == {AwaitEqOp("64", mo, op) : mo \in Orders, op \in {"add", "sub"}}
await_eq_set64 == {AwaitEqOp("64", mo, "set") : mo \in Orders}
await_eq_setptr == {AwaitEqOp("ptr", mo, "set") : mo \in Orders}
------------------------------------------------------------------------------
Builtins == UNION
   {builtin_fence, builtin_read8_16_32, builtin_read64_sz_ptr,
    builtin_write8_16_32, builtin_write64_sz_ptr, builtin_xchg8_16,
    builtin_xchg32_64, builtin_xchgsz_ptr, builtin_cmpxchg8_16,
    builtin_cmpxchg32_64, builtin_cmpxchgsz_ptr, builtin_get_and8_16,
    builtin_get_and32_64, builtin_get_andsz, builtin_get_or8_16,
    builtin_get_or32_64, builtin_get_orsz, builtin_get_xor8_16,
    builtin_get_xor32_64, builtin_get_xorsz, builtin_get_add8_16,
    builtin_get_add32_64, builtin_get_addsz, builtin_get_sub8_16,
    builtin_get_sub32_64, builtin_get_subsz}

Fallback == UNION
   {get_max_8_16, get_max_32_64, get_max_sz, max_get_8_16_32, max_get_64_sz,
    max_8_16, max_32_64_sz, and_get_8_16_32, and_get_64_sz, and_8_16,
    and_32_64_sz, or_get_8_16_32, or_get_64_sz, or_8_16, or_32_64_sz,
    xor_get_8_16_32, xor_get_64_sz, xor_8_16, xor_32_64_sz, add_get_8_16_32,
    add_get_64_sz, add_8_16, add_32_64_sz, get_inc_8_16_32, get_inc_64_sz,
    inc_get_8_16_32, inc_get_64_sz, inc_8_16_32, inc_64_sz, sub_get_8_16_32,
    sub_get_64_sz, sub_8_16_32, sub_64_sz, get_dec_8_16_32, get_dec_64_sz,
    dec_get_8_16_32, dec_get_64_sz, dec_8_16_32, dec_64_sz, init, await_neq,
    await_eq, await_le_lt32, await_ge_gt32, await_le_lt64, await_ge_gt64,
    await_le_arith32, await_le_set32, await_lt_arith32, await_lt_set32,
    await_ge_arith32, await_ge_set32, await_gt_arith32, await_gt_set32,
    await_le_arith64, await_le_set64, await_lt_arith64, await_lt_set64,
    await_ge_arith64, await_ge_set64, await_gt_arith64, await_gt_set64,
    await_neq_arith32, await_neq_set32, await_neq_arith64, await_neq_set64,
    await_neq_setptr, await_eq_arith32, await_eq_set32, await_eq_arith64,
    await_eq_set64, await_eq_setptr}
------------------------------------------------------------------------------
(* remap_*_sc.h, included by core.h under VATOMIC_ENABLE_ATOMIC_SC: every  *)
(* weaker function calls the sequentially consistent one.  A void function *)
(* has no acquire form to remap.                                           *)
Portable == Builtins \cup Fallback

Remapped(f) ==
    [f EXCEPT !.code = (CHOOSE g \in Portable :
                            g.ty = f.ty /\ g.sig = f.sig /\ g.mo = "seq").code]
Weaker(ty, awaits) ==
    {f \in Portable : /\ f.ty = ty /\ f.mo # "seq" /\ f.sig # fence
                      /\ (f.sig.await # "any") = awaits
                      /\ f.sig.ret = "void" /\ ~awaits => f.mo # "acq"}
RemapSC(ty, awaits) == {Remapped(f) : f \in Weaker(ty, awaits)}

remap_fnc_sc == {Remapped(f) : f \in {g \in builtin_fence : g.mo # "seq"}}
remap_u8_sc == RemapSC("8", FALSE)
remap_u16_sc == RemapSC("16", FALSE)
remap_u32_sc == RemapSC("32", FALSE)
remap_u64_sc == RemapSC("64", FALSE)
remap_sz_sc == RemapSC("sz", FALSE)
remap_ptr_sc == RemapSC("ptr", FALSE) \cup RemapSC("ptr", TRUE)
remap_u32_await_sc == RemapSC("32", TRUE)
remap_u64_await_sc == RemapSC("64", TRUE)

RemappedSC == UNION
   {remap_fnc_sc, remap_u8_sc, remap_u16_sc, remap_u32_sc, remap_u64_sc,
    remap_sz_sc, remap_ptr_sc, remap_u32_await_sc, remap_u64_await_sc}
==============================================================================
