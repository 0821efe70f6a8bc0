--------------------------------- MODULE BBQ ---------------------------------
(***************************************************************************)
(* include/vsync/queue/bbq_mpmc.h and bbq_spsc.h: a bounded queue in       *)
(* Blocks blocks of BlockSize entries.  A block has cursors that say how   *)
(* far it is allocated, committed, reserved and consumed, each made of a   *)
(* version, which grows every time the block is used again, and a space.   *)
(* Spaces count entries from the first one: the header in front of it and  *)
(* the size of an entry are left out.                                      *)
(***************************************************************************)
EXTENDS Control, Naturals, Sequences
LOCAL INSTANCE FiniteSetsExt

CONSTANTS Kind,                   \* "mpmc" or "spsc"
          Producer, Consumer,     \* the threads that enqueue and those that dequeue
          Blocks, BlockSize,
          Space,                  \* 2^BBQ_LOCAL_SPACE_BIT: spaces never get that large
          Batch, MaxEnq,          \* Batch entries per call, MaxEnq in all calls
          Wait,                   \* the values of the parameter `wait`
          Null

VARIABLES widx, ridx, blk, sent, loc,
          conf                    \* the linearizations of the calls so far

vars == <<pc, widx, ridx, blk, sent, loc, conf>>

BBQ_LOCAL_IDX(v) == v % Space
BBQ_LOCAL_VSN(v) == v \div Space
BBQ_LOCAL_COMPOSE(h, l) == h * Space + l
BBQ_GLOBAL_IDX(v) == v % Blocks
BBQ_GLOBAL_VSN(v) == v \div Blocks

Cursors == IF Kind = "mpmc" THEN {"allocated", "committed", "reserved", "consumed"}
                            ELSE {"committed", "consumed"}

\* The locals of a call: how many entries it still has to move, whether it waits, the
\* block index, the cursor and the committed space it has read, how many entries it moves
\* now, and their copies; and whether an inner dequeue of mpmc has met no other call so far.
Locals == [op : {"idle", "enqueue", "dequeue"}, rest : 0 .. Batch, wait : BOOLEAN, idx : Nat,
           cur : Nat, com : 0 .. BlockSize, n : 0 .. Batch, got : Seq(Thread),
           alone : BOOLEAN]
NoCall == [op |-> "idle", rest |-> 0, wait |-> FALSE, idx |-> 0, cur |-> 0, com |-> 0, n |-> 0,
           got |-> <<>>, alone |-> FALSE]

TypeOK == /\ pc \in [Thread -> {"idle", "enqueue", "allocated", "get_add", "copy_in", "commit",
                                "next_consumed", "reset_committed", "reset_allocated", "widx",
                                "dequeue", "reserved", "committed", "check_allocated", "cmpxchg",
                                "copy_out", "consume", "next_committed", "reset_consumed",
                                "reset_reserved", "ridx", "spsc_commit", "spsc_widx",
                                "spsc_ridx"}]
          /\ widx \in Nat /\ ridx \in Nat
          /\ \A b \in 0 .. Blocks - 1 :
                /\ \A k \in Cursors : blk[b][k] \in Nat
                /\ blk[b].entry \in [0 .. BlockSize - 1 -> Thread \cup {Null}]
          /\ sent \in 0 .. MaxEnq
          /\ \A t \in Thread : loc[t] \in Locals

-----------------------------------------------------------------------------
\* The sequential queue: a call moves a prefix of its batch at once.
Apply(s, op) ==
    IF op[1] = "enq"
    THEN {[s |-> s \o [i \in 1 .. k |-> op[2]], res |-> k] :
             k \in {j \in 1 .. op[3] : Len(s) + j <= Blocks * BlockSize}}
    ELSE {[s |-> SubSeq(s, k + 1, Len(s)), res |-> SubSeq(s, 1, k)] :
             k \in {j \in 0 .. op[3] : j <= Len(s) /\ (j = 0 => s = <<>>)}}

\* only the first block starts empty
block_init(b) == LET init_value == IF b = 0 THEN 0 ELSE BlockSize
                 IN [k \in Cursors \cup {"entry"} |->
                       IF k = "entry" THEN [i \in 0 .. BlockSize - 1 |-> Null]
                                      ELSE init_value]

Init == /\ pc = [t \in Thread |-> "idle"]
        /\ widx = 0 /\ ridx = 0 /\ sent = 0
        /\ blk = [b \in 0 .. Blocks - 1 |-> block_init(b)]
        /\ loc = [t \in Thread |-> NoCall]
        /\ conf = Unused(<<>>, Thread)

-----------------------------------------------------------------------------
Here(t) == BBQ_GLOBAL_IDX(loc[t].idx)
There(t) == BBQ_GLOBAL_IDX(loc[t].idx + 1)
Least(a, b) == IF a < b THEN a ELSE b

Access(t, label) == pc[t] = label /\ UNCHANGED sent
Quiet == UNCHANGED <<widx, ridx, blk>>

Add(b, k, n) == blk' = [blk EXCEPT ![b][k] = @ + n] /\ UNCHANGED <<widx, ridx>>

\* mutation: a late helper resets the cursor once more
Reset_write(t, k, vsn) == /\ blk' = [blk EXCEPT ![There(t)][k] = BBQ_LOCAL_COMPOSE(vsn, 0)]
                          /\ UNCHANGED <<widx, ridx, loc, conf>>

\* bbq_reset_block_cursor_heavy of the next block
Reset(t, k, vsn) ==
    LET new == BBQ_LOCAL_COMPOSE(vsn, 0)
    IN /\ blk' = [blk EXCEPT ![There(t)][k] = IF @ < new THEN new ELSE @]
       /\ UNCHANGED <<widx, ridx, loc, conf>>

\* BBQ_BLOCK_FULLY_CONSUMED_WITH_VSN of the next block
FullyConsumed(t) ==
    LET consumed == blk[There(t)].consumed
        vsn == BBQ_GLOBAL_VSN(loc[t].idx)
    IN \/ BBQ_LOCAL_IDX(consumed) = BlockSize /\ BBQ_LOCAL_VSN(consumed) = vsn
       \/ BBQ_LOCAL_VSN(consumed) > vsn

\* The inner call has moved n entries and returns `retry`: the outer one repeats it as long
\* as it returns true, or if it waits and has entries left.
Loop(t, retry, n) ==
    LET rest == loc[t].rest - n
        again == rest > 0 /\ (retry \/ loc[t].wait)
    IN /\ Goto(t, IF again THEN loc[t].op ELSE "idle")
       /\ loc' = [loc EXCEPT ![t] =
                    IF again THEN [NoCall EXCEPT !.op = loc[t].op, !.rest = rest, !.wait = loc[t].wait]
                             ELSE NoCall]

\* An enqueue may fail when the entries, and those of enqueues that have begun, reach into
\* every block, or when a dequeue that has got entries has not finished with their block.
MayFail(c, t) ==
    LET begun == {u \in Pending(c) \ {t} : c.p[u][2][1] = "enq"}
        entries(u) == c.p[u][2][3]
        got(u) == c.p[u] # <<>> /\ c.p[u][1] = "ret" /\ c.p[u][2][1] = "deq" /\ c.p[u][3] # <<>>
    IN \/ Len(c.s) + MapThenSumSet(entries, begun) > (Blocks - 1) * BlockSize
       \/ \E u \in Thread : got(u)

\* the threads in an inner call; t begins one with op, which the others meet
Inside == {u \in Thread : ~At(u, {"idle", "enqueue", "dequeue"})}
Begin(t, op, idx) ==
    /\ loc' = [u \in Thread |->
                 IF u # t THEN [loc[u] EXCEPT !.alone = FALSE]
                 ELSE [loc[t] EXCEPT !.idx = idx, !.alone = op = "deq" /\ Inside = {}]]
    /\ conf' = Invoke(conf, t, <<op, t, loc[t].rest>>)

\* An inner call that moves entries takes effect.  So does one that finds the queue empty;
\* but one of mpmc may do so wrongly if it meets another call.
Moved(t, n, res) == Loop(t, TRUE, n) /\ conf' = Return(conf, t, res, Apply)
Retry(t) == Loop(t, TRUE, 0) /\ conf' = Abort(conf, t)
Fail(t) == Loop(t, FALSE, 0) /\ conf' = Abort({c \in conf : MayFail(c, t)}, t)
Empty(t) == /\ Loop(t, FALSE, 0)
            /\ conf' = IF Kind = "spsc" \/ loc[t].alone THEN Return(conf, t, <<>>, Apply)
                       ELSE Abort(conf, t)

-----------------------------------------------------------------------------
\* A call of bbq_*_enqueue with n entries, or of bbq_*_dequeue for n.
enqueue(t) == /\ t \in Producer /\ Step(t, "idle", "enqueue")
              /\ \E n \in 1 .. Least(Batch, MaxEnq - sent), w \in Wait :
                    /\ loc' = [loc EXCEPT ![t].op = "enqueue", ![t].rest = n, ![t].wait = w]
                    /\ sent' = sent + n
              /\ UNCHANGED conf /\ Quiet

dequeue(t) == /\ t \in Consumer /\ Step(t, "idle", "dequeue")
              /\ \E n \in 1 .. Batch, w \in Wait :
                    loc' = [loc EXCEPT ![t].op = "dequeue", ![t].rest = n, ![t].wait = w]
              /\ UNCHANGED <<sent, conf>> /\ Quiet

\* _bbq_mpmc_enqueue
enq_widx(t) == /\ Access(t, "enqueue") /\ Goto(t, "allocated")
               /\ Begin(t, "enq", widx)
               /\ Quiet

enq_allocated(t) ==
    /\ Access(t, "allocated")
    /\ Goto(t, IF BBQ_LOCAL_IDX(blk[Here(t)].allocated) < BlockSize THEN "get_add"
                                                                    ELSE "next_consumed")
    /\ UNCHANGED <<loc, conf>> /\ Quiet

enq_get_add(t) ==
    LET old == BBQ_LOCAL_IDX(blk[Here(t)].allocated)
    IN /\ Access(t, "get_add")
       /\ Add(Here(t), "allocated", loc[t].rest)
       /\ \/ /\ old < BlockSize /\ Goto(t, "copy_in")
             /\ loc' = [loc EXCEPT ![t].cur = old,
                                   ![t].n = Least(loc[t].rest, BlockSize - old)]
          \/ /\ old >= BlockSize /\ Goto(t, "next_consumed")
             /\ UNCHANGED loc
       /\ UNCHANGED conf

CopyIn(entry, t, at, n) ==
    [i \in DOMAIN entry |-> IF i \in at .. at + n - 1 THEN t ELSE entry[i]]

enq_copy(t) == /\ Access(t, "copy_in") /\ Goto(t, "commit")
               /\ blk' = [blk EXCEPT ![Here(t)].entry = CopyIn(@, t, loc[t].cur, loc[t].n)]
               /\ UNCHANGED <<widx, ridx, loc, conf>>

enq_commit(t) == /\ Access(t, "commit")
                 /\ Add(Here(t), "committed", loc[t].n)
                 /\ Moved(t, loc[t].n, loc[t].n)

\* mutation: the next block may still hold entries
enq_next_any(t) == /\ Access(t, "next_consumed") /\ Goto(t, "reset_committed")
                   /\ UNCHANGED <<loc, conf>> /\ Quiet

\* mutation: the next block is taken for one in use
enq_next_none(t) == /\ Access(t, "next_consumed") /\ Fail(t)
                    /\ Quiet

enq_next(t) == /\ Access(t, "next_consumed")
               /\ \/ ~FullyConsumed(t) /\ Fail(t)
                  \/ /\ FullyConsumed(t) /\ Goto(t, "reset_committed")
                     /\ UNCHANGED <<loc, conf>>
               /\ Quiet

enq_reset_committed(t) == /\ Access(t, "reset_committed") /\ Goto(t, "reset_allocated")
                          /\ Reset(t, "committed", BBQ_GLOBAL_VSN(loc[t].idx) + 1)

enq_reset_allocated(t) == /\ Access(t, "reset_allocated") /\ Goto(t, "widx")
                          /\ Reset(t, "allocated", BBQ_GLOBAL_VSN(loc[t].idx) + 1)

\* BBQ_ADVANCE_HEAD
enq_advance(t) == /\ Access(t, "widx")
                  /\ widx' = IF widx < loc[t].idx + 1 THEN loc[t].idx + 1 ELSE widx
                  /\ Retry(t)
                  /\ UNCHANGED <<ridx, blk>>

-----------------------------------------------------------------------------
\* _bbq_mpmc_dequeue
deq_ridx(t) == /\ Access(t, "dequeue") /\ Goto(t, "reserved")
               /\ Begin(t, "deq", ridx)
               /\ Quiet

deq_reserved(t) ==
    /\ Access(t, "reserved")
    /\ loc' = [loc EXCEPT ![t].cur = blk[Here(t)].reserved]
    /\ Goto(t, IF BBQ_LOCAL_IDX(loc'[t].cur) < BlockSize THEN "committed"
                                                         ELSE "next_committed")
    /\ UNCHANGED conf /\ Quiet

\* the entries between the cursor and what is committed
deq_committed(t) ==
    LET committed_space == BBQ_LOCAL_IDX(blk[Here(t)].committed)
        reserved_space == BBQ_LOCAL_IDX(loc[t].cur)
    IN /\ Access(t, "committed")
       /\ \/ reserved_space >= committed_space /\ Empty(t)
          \/ /\ reserved_space < committed_space
             /\ loc' = [loc EXCEPT ![t].n = Least(loc[t].rest, committed_space - reserved_space),
                                   ![t].com = committed_space]
             /\ Goto(t, IF committed_space # BlockSize THEN "check_allocated" ELSE "cmpxchg")
             /\ UNCHANGED conf
       /\ Quiet

\* mutation: an entry may be missing among the committed ones
deq_allocated_not(t) == /\ Access(t, "check_allocated") /\ Goto(t, "cmpxchg")
                        /\ UNCHANGED <<loc, conf>> /\ Quiet

deq_allocated(t) ==
    LET same == BBQ_LOCAL_IDX(blk[Here(t)].allocated) = loc[t].com
    IN /\ Access(t, "check_allocated")
       /\ \/ ~same /\ Empty(t)
          \/ same /\ Goto(t, "cmpxchg") /\ UNCHANGED <<loc, conf>>
       /\ Quiet

deq_cmpxchg(t) == /\ Access(t, "cmpxchg")
                  /\ \/ /\ blk[Here(t)].reserved # loc[t].cur
                        /\ Retry(t) /\ Quiet
                     \/ /\ blk[Here(t)].reserved = loc[t].cur
                        /\ Add(Here(t), "reserved", loc[t].n)
                        /\ Goto(t, "copy_out") /\ UNCHANGED <<loc, conf>>

CopyOut(t) == LET at == BBQ_LOCAL_IDX(loc[t].cur)
              IN loc' = [loc EXCEPT ![t].got =
                           [i \in 1 .. loc[t].n |-> blk[Here(t)].entry[at + i - 1]]]

deq_copy(t) == /\ Access(t, "copy_out") /\ Goto(t, "consume")
               /\ CopyOut(t) /\ UNCHANGED conf /\ Quiet

deq_consume(t) == /\ Access(t, "consume")
                  /\ Add(Here(t), "consumed", loc[t].n)
                  /\ Moved(t, loc[t].n, loc[t].got)

\* the version the next block is consumed with
ConsumerVsn(t) == BBQ_LOCAL_VSN(loc[t].cur) - IF Here(t) # 0 THEN 1 ELSE 0

deq_next(t) ==
    LET ready == BBQ_LOCAL_VSN(blk[There(t)].committed) = ConsumerVsn(t) + 1
    IN /\ Access(t, "next_committed")
       /\ \/ ~ready /\ Empty(t)
          \/ ready /\ Goto(t, "reset_consumed") /\ UNCHANGED <<loc, conf>>
       /\ Quiet

deq_reset_consumed(t) == /\ Access(t, "reset_consumed") /\ Goto(t, "reset_reserved")
                         /\ Reset(t, "consumed", ConsumerVsn(t) + 1)

deq_reset_reserved(t) == /\ Access(t, "reset_reserved") /\ Goto(t, "ridx")
                         /\ Reset(t, "reserved", ConsumerVsn(t) + 1)

deq_advance(t) == /\ Access(t, "ridx")
                  /\ ridx' = IF ridx < loc[t].idx + 1 THEN loc[t].idx + 1 ELSE ridx
                  /\ Retry(t)
                  /\ UNCHANGED <<widx, blk>>

mpmc(t) ==
    /\ Kind = "mpmc"
    /\ \/ enq_widx(t) \/ enq_allocated(t) \/ enq_get_add(t) \/ enq_copy(t) \/ enq_commit(t)
       \/ enq_next(t) \/ enq_reset_committed(t) \/ enq_reset_allocated(t) \/ enq_advance(t)
       \/ deq_ridx(t) \/ deq_reserved(t) \/ deq_committed(t) \/ deq_allocated(t)
       \/ deq_cmpxchg(t) \/ deq_copy(t) \/ deq_consume(t)
       \/ deq_next(t) \/ deq_reset_consumed(t) \/ deq_reset_reserved(t) \/ deq_advance(t)

-----------------------------------------------------------------------------
\* _bbq_spsc_enqueue: widx and the committed cursors are the producer's own
spsc_enq(t) ==
    LET at == BBQ_LOCAL_IDX(blk[BBQ_GLOBAL_IDX(widx)].committed)
        n == Least(loc[t].rest, BlockSize - at)
    IN /\ Access(t, "enqueue")
       /\ loc' = [loc EXCEPT ![t].idx = widx, ![t].n = n]
       /\ conf' = Invoke(conf, t, <<"enq", t, loc[t].rest>>)
       /\ \/ at = BlockSize /\ Goto(t, "next_consumed") /\ Quiet
          \/ /\ at < BlockSize /\ Goto(t, "spsc_commit")
             /\ blk' = [blk EXCEPT ![BBQ_GLOBAL_IDX(widx)].entry = CopyIn(@, t, at, n)]
             /\ UNCHANGED <<widx, ridx>>

spsc_enq_commit(t) == /\ Access(t, "spsc_commit")
                      /\ Add(Here(t), "committed", loc[t].n)
                      /\ Moved(t, loc[t].n, loc[t].n)

spsc_enq_next(t) == /\ Access(t, "next_consumed")
                    /\ \/ ~FullyConsumed(t) /\ Fail(t)
                       \/ FullyConsumed(t) /\ Goto(t, "spsc_widx") /\ UNCHANGED <<loc, conf>>
                    /\ Quiet

spsc_enq_advance(t) ==
    /\ Access(t, "spsc_widx")
    /\ blk' = [blk EXCEPT ![There(t)].committed =
                 BBQ_LOCAL_COMPOSE(BBQ_GLOBAL_VSN(loc[t].idx) + 1, 0)]
    /\ widx' = widx + 1 /\ UNCHANGED ridx
    /\ Retry(t)

\* _bbq_spsc_dequeue: ridx and the consumed cursors are the consumer's own
spsc_deq(t) ==
    LET b == BBQ_GLOBAL_IDX(ridx)
        at == BBQ_LOCAL_IDX(blk[b].consumed)
    IN /\ Access(t, "dequeue")
       /\ Goto(t, IF at < BlockSize THEN "committed" ELSE "next_committed")
       /\ loc' = [loc EXCEPT ![t].idx = ridx, ![t].cur = blk[b].consumed]
       /\ conf' = Invoke(conf, t, <<"deq", t, loc[t].rest>>)
       /\ Quiet

spsc_deq_committed(t) ==
    LET committed_space == BBQ_LOCAL_IDX(blk[Here(t)].committed)
        consumed_space == BBQ_LOCAL_IDX(loc[t].cur)
    IN /\ Access(t, "committed")
       /\ \/ consumed_space >= committed_space /\ Empty(t)
          \/ /\ consumed_space < committed_space /\ Goto(t, "copy_out")
             /\ loc' = [loc EXCEPT ![t].n = Least(loc[t].rest, committed_space - consumed_space)]
             /\ UNCHANGED conf
       /\ Quiet

\* mutation: the next block may be entered in its last round
spsc_deq_next_old(t) ==
    LET ready == BBQ_LOCAL_VSN(blk[There(t)].committed) >= BBQ_GLOBAL_VSN(loc[t].idx)
    IN /\ Access(t, "next_committed")
       /\ \/ ~ready /\ Empty(t)
          \/ ready /\ Goto(t, "spsc_ridx") /\ UNCHANGED <<loc, conf>>
       /\ Quiet

spsc_deq_next(t) ==
    LET ready == BBQ_LOCAL_VSN(blk[There(t)].committed) = BBQ_GLOBAL_VSN(loc[t].idx) + 1
    IN /\ Access(t, "next_committed")
       /\ \/ ~ready /\ Empty(t)
          \/ ready /\ Goto(t, "spsc_ridx") /\ UNCHANGED <<loc, conf>>
       /\ Quiet

spsc_deq_advance(t) ==
    /\ Access(t, "spsc_ridx")
    /\ blk' = [blk EXCEPT ![There(t)].consumed =
                 BBQ_LOCAL_COMPOSE(BBQ_GLOBAL_VSN(loc[t].idx) + 1, 0)]
    /\ ridx' = ridx + 1 /\ UNCHANGED widx
    /\ Retry(t)

spsc(t) ==
    /\ Kind = "spsc"
    /\ \/ spsc_enq(t) \/ spsc_enq_commit(t) \/ spsc_enq_next(t) \/ spsc_enq_advance(t)
       \/ spsc_deq(t) \/ spsc_deq_committed(t) \/ deq_copy(t) \/ deq_consume(t)
       \/ spsc_deq_next(t) \/ spsc_deq_advance(t)

Next == \E t \in Thread : \/ enqueue(t) \/ dequeue(t)
                           \/ mpmc(t) \/ spsc(t)

Spec == Init /\ [][Next]_vars

-----------------------------------------------------------------------------
\* No block is used again before it is consumed: the writers are in the same round of a block
\* as the readers or, once all of it is consumed, in the next one, however far ridx lags
\* behind.  Readers are at most in the block the writers are about to enter, and what is
\* reserved of a block was committed in the same round, as _bbq_mpmc_dequeue asserts.
BlocksInOrder ==
    /\ ridx <= widx + 1
    /\ \A b \in 0 .. Blocks - 1 :
          LET writing == BBQ_LOCAL_VSN(blk[b].committed)
              reading == BBQ_LOCAL_VSN(blk[b].consumed)
          IN /\ \/ writing = reading
                \/ writing = reading + 1 /\ BBQ_LOCAL_IDX(blk[b].consumed) = BlockSize
             /\ (IF Kind = "mpmc" THEN blk[b].reserved ELSE blk[b].consumed) <= blk[b].committed
=============================================================================
