----------------------------- MODULE Exchanger -----------------------------
(***************************************************************************)
(* include/vsync/utils/exchanger.h: two threads swap objects through one   *)
(* word that holds an address and a state.  The bound on the number of     *)
(* trials is left open: a thread may give up whenever it has made a trial. *)
(* XNext: threads that call exchanger_xchg again and again, with an object *)
(* or only to consume.                                                     *)
(***************************************************************************)
EXTENDS Control, TLAPS

CONSTANTS Exchangers,
          Item, NULL            \* what is exchanged; a consumer gives NULL

VARIABLES slot,                 \* slot[x]: [addr, state]
          at,                   \* at[t]: the exchanger t uses, or NULL
          my_item, your_item,
          given                 \* given[t]: what t has been given in this call

xvars == <<slot, at, my_item, your_item, given>>

Word(items) == [addr : items \cup {NULL}, state : {"empty", "waiting", "busy"}]
Empty == [addr |-> NULL, state |-> "empty"]
Waiting(i) == [addr |-> i, state |-> "waiting"]
Busy(i) == [addr |-> i, state |-> "busy"]

XLabels == {"x_get", "x_place", "x_wait", "x_cancel", "x_late", "x_reset", "x_take",
            "x_won", "x_lost"}

XTypeOK == /\ slot \in [Exchangers -> Word(Item)]
           /\ at \in [Thread -> Exchangers \cup {NULL}]
           /\ my_item \in [Thread -> Item \cup {NULL}]
           /\ your_item \in [Thread -> Item \cup {NULL}]
           /\ given \in [Thread -> SUBSET (Item \cup {NULL})]

\* exchanger_reset
XInit == /\ slot = [x \in Exchangers |-> Empty]
         /\ at = [t \in Thread |-> NULL]
         /\ my_item = [t \in Thread |-> NULL]
         /\ your_item = [t \in Thread |-> NULL]
         /\ given = [t \in Thread |-> {}]

\* exchanger_xchg on an exchanger x
xchg(t, x, i) == /\ Goto(t, "x_get")
                 /\ at' = [at EXCEPT ![t] = x]
                 /\ my_item' = [my_item EXCEPT ![t] = i]
                 /\ UNCHANGED <<slot, your_item, given>>

\* The caller has looked at the result.
Forget(t) == /\ at' = [at EXCEPT ![t] = NULL]
             /\ my_item' = [my_item EXCEPT ![t] = NULL]
             /\ your_item' = [your_item EXCEPT ![t] = NULL]
             /\ given' = [given EXCEPT ![t] = {}]
             /\ UNCHANGED slot

\* _exchanger_slot_get, then the switch; or the trials are used up
xchg_get(t) == LET w == slot[at[t]] IN
    /\ pc[t] = "x_get"
    /\ \/ w.state = "empty" /\ Goto(t, "x_place")
       \/ w.state = "waiting" /\ Goto(t, "x_take")
       \/ w.state = "busy" /\ Goto(t, "x_get")
    /\ your_item' = [your_item EXCEPT ![t] = w.addr]
    /\ UNCHANGED <<slot, at, my_item, given>>

xchg_give_up(t) == /\ Step(t, "x_get", "x_lost")
                   /\ your_item' = [your_item EXCEPT ![t] = NULL]
                   /\ UNCHANGED <<slot, at, my_item, given>>

\* _exchanger_slot_cmpxchg
Cmpxchg(t, expected, new, won, lost) ==
    /\ IF slot[at[t]] = expected
       THEN slot' = [slot EXCEPT ![at[t]] = new] /\ Goto(t, won)
       ELSE UNCHANGED slot /\ Goto(t, lost)
    /\ UNCHANGED <<at, my_item, your_item>>

xchg_place(t) == /\ pc[t] = "x_place"
                 /\ Cmpxchg(t, Empty, Waiting(my_item[t]), "x_wait", "x_get")
                 /\ UNCHANGED given

xchg_wait(t) == LET w == slot[at[t]] IN
    /\ pc[t] = "x_wait"
    /\ Goto(t, IF w.state = "busy" THEN "x_reset" ELSE "x_wait")
    /\ your_item' = [your_item EXCEPT ![t] = w.addr]
    /\ UNCHANGED <<slot, at, my_item, given>>

xchg_wait_over(t) == Step(t, "x_wait", "x_cancel") /\ UNCHANGED xvars

\* mutation: the waiter withdraws its object without a compare
xchg_cancel_store(t) == /\ Step(t, "x_cancel", "x_lost")
                        /\ slot' = [slot EXCEPT ![at[t]] = Empty]
                        /\ UNCHANGED <<at, my_item, your_item, given>>

xchg_cancel(t) == /\ pc[t] = "x_cancel"
                  /\ Cmpxchg(t, Waiting(my_item[t]), Empty, "x_lost", "x_late")
                  /\ UNCHANGED given

xchg_late(t) == /\ Step(t, "x_late", "x_reset")
                /\ your_item' = [your_item EXCEPT ![t] = slot[at[t]].addr]
                /\ UNCHANGED <<slot, at, my_item, given>>

xchg_reset(t) == /\ Step(t, "x_reset", "x_won")
                 /\ slot' = [slot EXCEPT ![at[t]] = Empty]
                 /\ UNCHANGED <<at, my_item, your_item, given>>

WaitLabels == {"x_wait", "x_cancel", "x_late", "x_reset"}
Waiter(x) == {u \in Thread : at[u] = x /\ pc[u] \in WaitLabels}

xchg_take(t) == LET W == Waiter(at[t]) IN
    /\ pc[t] = "x_take"
    /\ Cmpxchg(t, Waiting(your_item[t]), Busy(my_item[t]), "x_won", "x_get")
    /\ given' = IF slot[at[t]] # Waiting(your_item[t]) THEN given
                ELSE [u \in Thread |-> CASE u = t -> given[u] \cup {my_item[w] : w \in W}
                                          [] u \in W \ {t} -> given[u] \cup {my_item[t]}
                                          [] OTHER -> given[u]]

Exchanging(t) == \/ xchg_get(t) \/ xchg_give_up(t) \/ xchg_place(t) \/ xchg_wait(t)
                 \/ xchg_wait_over(t) \/ xchg_cancel(t) \/ xchg_late(t)
                 \/ xchg_reset(t) \/ xchg_take(t)

-----------------------------------------------------------------------------
XClients == /\ pc \in [Thread -> {"idle"} \cup XLabels]
            /\ XTypeOK

XStart == pc = [t \in Thread |-> "idle"] /\ XInit

call(t) == pc[t] = "idle" /\ \E x \in Exchangers, i \in Item \cup {NULL} : xchg(t, x, i)

finish(t) == pc[t] \in {"x_won", "x_lost"} /\ Goto(t, "idle") /\ Forget(t)

XNext == \E t \in Thread : call(t) \/ Exchanging(t) \/ finish(t)

XSpec == XStart /\ [][XNext]_<<pc, xvars>>

\* What the waiter t finds in the slot x: its own object, or the one it has been given.
Held(t, x) == \/ /\ given[t] = {} /\ slot[x] = Waiting(my_item[t])
                 /\ pc[t] \in {"x_wait", "x_cancel"}
              \/ \E i \in given[t] : given[t] = {i} /\ slot[x] = Busy(i)

\* A slot has one waiter, and holds what the waiter put there until another thread takes
\* it, and then what that thread gave, until the waiter has read it: so the assertion
\* `slot_state == SLOT_STATE_BUSY` of a waiter that is late holds.
OneWaiter == \A x \in Exchangers : \A t \in Waiter(x) : Waiter(x) = {t} /\ Held(t, x)

\* exchanger_xchg, "they will atomically exchange the provided pointers": besides, a call
\* that succeeds returns the one object it has been given, be it that of the waiter it
\* met or of the thread that met it, even if its time was up by then; a call that fails
\* has been given none, and so has nobody taken its object.
AtomicExchange == /\ OneWaiter
                  /\ \A t \in {u \in Thread : at[u] # NULL} :
                        /\ pc[t] = "x_won" => given[t] = {your_item[t]}
                        /\ pc[t] = "x_lost" => given[t] = {}

-----------------------------------------------------------------------------
\* The inductive invariant.  A thread in exchanger_xchg has an exchanger, and has been
\* given something when it has won, or is about to reset the slot after having read it.
ThreadInv(t) == /\ pc[t] \in XLabels => at[t] \in Exchangers
                /\ pc[t] \in {"x_won", "x_reset"} => given[t] = {your_item[t]}
                /\ pc[t] \in {"idle", "x_get", "x_place", "x_take", "x_lost"} => given[t] = {}

\* A slot has at most one waiter, and nothing in it without one.
SlotInv(x) == /\ \A t, u \in Waiter(x) : t = u
              /\ \A t \in Waiter(x) : Held(t, x)
              /\ Waiter(x) = {} => slot[x] = Empty

XInv == /\ XClients
        /\ \A t \in Thread : ThreadInv(t)
        /\ \A x \in Exchangers : SlotInv(x)

-----------------------------------------------------------------------------
\* The three states of a slot are told apart, and so are the objects in it.
LEMMA SlotStates ==
    /\ \A i, j : Waiting(i) = Waiting(j) => i = j
    /\ \A i, j : Waiting(i) # Busy(j) /\ Waiting(i) # Empty /\ Busy(i) # Empty
    /\ \A i : Busy(i).addr = i /\ Waiting(i).addr = i
    /\ \A i : Busy(i).state = "busy" /\ Waiting(i).state = "waiting"
    /\ Empty.state = "empty"
BY DEF Waiting, Busy, Empty

\* The invariant gives what the run checks.
LEMMA XInvExchange == XInv => AtomicExchange
<1>. SUFFICES ASSUME XInv PROVE AtomicExchange
  OBVIOUS
<1>1. OneWaiter
  <2>. SUFFICES ASSUME NEW x \in Exchangers, NEW t \in Waiter(x)
                PROVE  Waiter(x) = {t} /\ Held(t, x)
    BY DEF OneWaiter
  <2>. QED
    BY DEF XInv, SlotInv
<1>2. QED
  BY <1>1 DEF XInv, ThreadInv, AtomicExchange

LEMMA XInvInit == XStart => XInv
<1>. SUFFICES ASSUME XStart PROVE XInv
  OBVIOUS
<1>1. XClients
  BY DEF XStart, XInit, XClients, XTypeOK, XLabels, Word, Empty
<1>2. \A t \in Thread : ThreadInv(t)
  BY DEF XStart, XInit, ThreadInv, XLabels
<1>3. \A x \in Exchangers : SlotInv(x)
  BY DEF XStart, XInit, SlotInv, Waiter, WaitLabels
<1>. QED
  BY <1>1, <1>2, <1>3 DEF XInv

\* A slot that is not written keeps its invariant as long as its waiters stay and keep
\* their objects.
LEMMA SlotKept ==
    ASSUME NEW x \in Exchangers, SlotInv(x), slot'[x] = slot[x], Waiter(x)' = Waiter(x),
           \A u \in Waiter(x) : /\ given'[u] = given[u] /\ my_item'[u] = my_item[u]
                                /\ pc'[u] = pc[u] \/ pc'[u] \in {"x_wait", "x_cancel"}
                                                  \/ given[u] # {}
    PROVE  SlotInv(x)'
<1>1. ASSUME NEW u \in Waiter(x) PROVE Held(u, x)'
  <2>1. Held(u, x)
    BY DEF SlotInv
  <2>2. CASE given[u] = {}
    BY <2>1, <2>2 DEF Held
  <2>3. CASE given[u] # {}
    BY <2>1, <2>3 DEF Held
  <2>. QED
    BY <2>2, <2>3
<1>. QED
  BY <1>1 DEF SlotInv

\* The word of a slot that nobody waits at, or whose waiter has or has not been met.
LEMMA SlotCases ==
    ASSUME XInv, NEW x \in Exchangers
    PROVE  /\ slot[x] = Empty => Waiter(x) = {}
           /\ \A t \in Waiter(x) : /\ Waiter(x) = {t}
                                   /\ slot[x].state = "busy" => slot[x] = Busy(slot[x].addr)
                                                                /\ given[t] = {slot[x].addr}
                                   /\ slot[x] = Waiting(my_item[t]) => given[t] = {}
                                   /\ slot[x] # Waiting(my_item[t]) => slot[x].state = "busy"
           /\ \A i : slot[x] = Waiting(i) => \E t \in Waiter(x) : my_item[t] = i /\ given[t] = {}
<1>1. SlotInv(x)
  BY DEF XInv
<1>2. ASSUME NEW t \in Waiter(x)
      PROVE  /\ Waiter(x) = {t}
             /\ slot[x] # Empty
             /\ slot[x].state = "busy" => slot[x] = Busy(slot[x].addr)
                                          /\ given[t] = {slot[x].addr}
             /\ slot[x] = Waiting(my_item[t]) => given[t] = {}
             /\ slot[x] # Waiting(my_item[t]) => slot[x].state = "busy"
             /\ \A i : slot[x] = Waiting(i) => my_item[t] = i /\ given[t] = {}
  <2>1. Held(t, x) /\ Waiter(x) = {t}
    BY <1>1 DEF SlotInv
  <2>2. CASE given[t] = {} /\ slot[x] = Waiting(my_item[t])
    BY <2>1, <2>2, SlotStates
  <2>3. CASE \E i \in given[t] : given[t] = {i} /\ slot[x] = Busy(i)
    BY <2>1, <2>3, SlotStates
  <2>. QED
    BY <2>1, <2>2, <2>3 DEF Held
<1>3. ASSUME NEW i, slot[x] = Waiting(i)
      PROVE  \E t \in Waiter(x) : my_item[t] = i /\ given[t] = {}
  BY <1>1, <1>2, <1>3, SlotStates DEF SlotInv
<1>. QED
  BY <1>2, <1>3

\* A step of t within exchanger_xchg that writes no slot and makes t neither a waiter nor
\* one no more.
LEMMA XInvQuiet ==
    ASSUME XInv, NEW t \in Thread, pc[t] \in XLabels, NEW l \in XLabels,
           pc[t] \in WaitLabels <=> l \in WaitLabels,
           l \in {"x_late", "x_reset"} => given[t] # {},
           Goto(t, l), UNCHANGED <<slot, at, my_item, given>>,
           your_item' \in [Thread -> Item \cup {NULL}],
           \A u \in Thread \ {t} : your_item'[u] = your_item[u],
           ThreadInv(t)'
    PROVE  XInv'
<1>0. XClients /\ pc' = [pc EXCEPT ![t] = l]
  BY DEF XInv, Goto
<1>1. XClients'
  BY <1>0 DEF XClients, XTypeOK
<1>2. ASSUME NEW u \in Thread PROVE ThreadInv(u)'
  <2>1. ThreadInv(u)
    BY DEF XInv
  <2>. QED
    BY <1>0, <2>1 DEF ThreadInv, XClients
<1>3. ASSUME NEW x \in Exchangers PROVE SlotInv(x)'
  <2>1. Waiter(x)' = Waiter(x)
    BY <1>0 DEF Waiter, XClients
  <2>2. ASSUME NEW u \in Waiter(x)
        PROVE  pc'[u] = pc[u] \/ pc'[u] \in {"x_wait", "x_cancel"} \/ given[u] # {}
    BY <1>0, <2>1 DEF Waiter, XClients, WaitLabels
  <2>3. SlotInv(x)
    BY DEF XInv
  <2>. QED
    BY <2>1, <2>2, <2>3, SlotKept
<1>. QED
  BY <1>1, <1>2, <1>3 DEF XInv

\* A step of t that writes the slot it uses, and with which t starts or stops waiting.
LEMMA XInvWrite ==
    ASSUME XInv, NEW t \in Thread, pc[t] \in XLabels, NEW l \in XLabels,
           NEW w \in Word(Item), NEW x \in Exchangers, at[t] = x,
           Goto(t, l), slot' = [slot EXCEPT ![x] = w],
           UNCHANGED <<at, my_item, your_item, given>>,
           ThreadInv(t)',
           SlotInv(x)'
    PROVE  XInv'
<1>0. XClients /\ pc' = [pc EXCEPT ![t] = l]
  BY DEF XInv, Goto
<1>1. XClients'
  BY <1>0 DEF XClients, XTypeOK
<1>2. ASSUME NEW u \in Thread PROVE ThreadInv(u)'
  <2>1. ThreadInv(u)
    BY DEF XInv
  <2>. QED
    BY <1>0, <2>1 DEF ThreadInv, XClients
<1>3. ASSUME NEW y \in Exchangers, y # x PROVE SlotInv(y)'
  <2>1. Waiter(y)' = Waiter(y) /\ t \notin Waiter(y)
    BY <1>0, <1>3 DEF Waiter, XClients
  <2>2. ASSUME NEW u \in Waiter(y) PROVE pc'[u] = pc[u]
    BY <1>0, <2>1 DEF Waiter, XClients
  <2>3. SlotInv(y) /\ slot'[y] = slot[y]
    BY <1>0, <1>3 DEF XInv, XClients, XTypeOK
  <2>. QED
    BY <2>1, <2>2, <2>3, SlotKept
<1>. QED
  BY <1>1, <1>2, <1>3 DEF XInv

LEMMA XInvCall == ASSUME XInv, NEW t \in Thread, call(t) PROVE XInv'
<1>0. PICK x \in Exchangers, i \in Item \cup {NULL} : xchg(t, x, i)
  BY DEF call
<1>1. /\ XClients /\ pc[t] = "idle" /\ pc' = [pc EXCEPT ![t] = "x_get"]
      /\ at' = [at EXCEPT ![t] = x] /\ my_item' = [my_item EXCEPT ![t] = i]
      /\ UNCHANGED <<slot, your_item, given>>
  BY <1>0 DEF XInv, call, xchg, Goto
<1>2. XClients'
  BY <1>1 DEF XClients, XTypeOK, XLabels
<1>3. ASSUME NEW u \in Thread PROVE ThreadInv(u)'
  <2>1. ThreadInv(u)
    BY DEF XInv
  <2>. QED
    BY <1>1, <2>1 DEF ThreadInv, XClients, XTypeOK
<1>4. ASSUME NEW y \in Exchangers PROVE SlotInv(y)'
  <2>1. Waiter(y)' = Waiter(y) /\ t \notin Waiter(y)
    BY <1>1 DEF Waiter, XClients, XTypeOK, WaitLabels
  <2>2. ASSUME NEW u \in Waiter(y) PROVE pc'[u] = pc[u] /\ my_item'[u] = my_item[u]
    BY <1>1, <2>1 DEF Waiter, XClients, XTypeOK
  <2>3. SlotInv(y)
    BY DEF XInv
  <2>. QED
    BY <1>1, <2>1, <2>2, <2>3, SlotKept
<1>. QED
  BY <1>2, <1>3, <1>4 DEF XInv

LEMMA XInvFinish == ASSUME XInv, NEW t \in Thread, finish(t) PROVE XInv'
<1>1. /\ XClients /\ pc[t] \in {"x_won", "x_lost"} /\ pc' = [pc EXCEPT ![t] = "idle"]
      /\ at' = [at EXCEPT ![t] = NULL] /\ my_item' = [my_item EXCEPT ![t] = NULL]
      /\ your_item' = [your_item EXCEPT ![t] = NULL] /\ given' = [given EXCEPT ![t] = {}]
      /\ slot' = slot
  BY DEF XInv, finish, Forget, Goto
<1>2. XClients'
  BY <1>1 DEF XClients, XTypeOK, XLabels
<1>3. ASSUME NEW u \in Thread PROVE ThreadInv(u)'
  <2>1. ThreadInv(u)
    BY DEF XInv
  <2>. QED
    BY <1>1, <2>1 DEF ThreadInv, XClients, XTypeOK, XLabels
<1>4. ASSUME NEW y \in Exchangers PROVE SlotInv(y)'
  <2>1. Waiter(y)' = Waiter(y) /\ t \notin Waiter(y)
    BY <1>1 DEF Waiter, XClients, XTypeOK, WaitLabels
  <2>2. ASSUME NEW u \in Waiter(y)
        PROVE  pc'[u] = pc[u] /\ my_item'[u] = my_item[u] /\ given'[u] = given[u]
    BY <1>1, <2>1 DEF Waiter, XClients, XTypeOK
  <2>3. SlotInv(y)
    BY DEF XInv
  <2>. QED
    BY <1>1, <2>1, <2>2, <2>3, SlotKept
<1>. QED
  BY <1>2, <1>3, <1>4 DEF XInv

LEMMA XInvPlace ==
    ASSUME XInv, NEW t \in Thread, NEW x \in Exchangers, at[t] = x, pc[t] = "x_place",
           slot[x] = Empty, Goto(t, "x_wait"), slot' = [slot EXCEPT ![x] = Waiting(my_item[t])],
           UNCHANGED <<at, my_item, your_item, given>>
    PROVE  XInv'
<1>0. /\ XClients /\ pc' = [pc EXCEPT ![t] = "x_wait"] /\ Waiting(my_item[t]) \in Word(Item)
      /\ ThreadInv(t) /\ Waiter(x) = {} /\ slot'[x] = Waiting(my_item[t])
  BY SlotCases DEF XInv, XClients, XTypeOK, Waiting, Word, Goto
<1>1. ThreadInv(t)'
  BY <1>0 DEF ThreadInv, XLabels, XClients
<1>2. Waiter(x)' = {t}
  BY <1>0 DEF Waiter, XClients, WaitLabels
<1>3. Held(t, x)'
  BY <1>0 DEF Held, ThreadInv, XClients
<1>4. SlotInv(x)'
  BY <1>2, <1>3 DEF SlotInv
<1>. QED
  BY <1>0, <1>1, <1>4, XInvWrite DEF XLabels

\* The waiter leaves with the slot empty: it has withdrawn its object, or read the other's.
LEMMA XInvLeave ==
    ASSUME XInv, NEW t \in Thread, NEW x \in Exchangers, at[t] = x,
           slot' = [slot EXCEPT ![x] = Empty], UNCHANGED <<at, my_item, your_item, given>>,
           \/ pc[t] = "x_reset" /\ Goto(t, "x_won")
           \/ pc[t] = "x_cancel" /\ slot[x] = Waiting(my_item[t]) /\ Goto(t, "x_lost")
    PROVE  XInv'
<1>0. /\ XClients /\ Empty \in Word(Item) /\ ThreadInv(t) /\ t \in Waiter(x)
      /\ slot'[x] = Empty
  BY DEF XInv, XClients, XTypeOK, Empty, Word, Waiter, WaitLabels
<1>1. Waiter(x) = {t} /\ (slot[x] = Waiting(my_item[t]) => given[t] = {})
  BY <1>0, SlotCases
<1>2. PICK l \in {"x_won", "x_lost"} : /\ pc' = [pc EXCEPT ![t] = l]
                                       /\ l = "x_won" => given[t] = {your_item[t]}
                                       /\ l = "x_lost" => given[t] = {}
  BY <1>0, <1>1 DEF Goto, ThreadInv
<1>3. ThreadInv(t)'
  BY <1>0, <1>2 DEF ThreadInv, XLabels, XClients
<1>4. Waiter(x)' = {}
  BY <1>0, <1>1, <1>2 DEF Waiter, XClients, WaitLabels
<1>5. SlotInv(x)'
  BY <1>0, <1>4 DEF SlotInv
<1>. QED
  BY <1>0, <1>2, <1>3, <1>5, XInvWrite DEF XLabels, Goto

\* A thread meets the waiter, and each is given the other's object.
LEMMA XInvTake ==
    ASSUME XInv, NEW t \in Thread, NEW x \in Exchangers, at[t] = x, xchg_take(t),
           slot[x] = Waiting(your_item[t])
    PROVE  XInv'
<1>0. /\ XClients /\ ThreadInv(t) /\ pc[t] = "x_take" /\ pc' = [pc EXCEPT ![t] = "x_won"]
      /\ slot' = [slot EXCEPT ![x] = Busy(my_item[t])]
      /\ UNCHANGED <<at, my_item, your_item>>
  BY DEF XInv, xchg_take, Cmpxchg, Goto
<1>1. PICK w \in Waiter(x) : my_item[w] = your_item[t] /\ given[w] = {}
  BY SlotCases
<1>2. Waiter(x) = {w} /\ w \in Thread /\ w # t /\ pc[w] \in {"x_wait", "x_cancel"}
  <2>1. Held(w, x) /\ Waiter(x) = {w}
    BY SlotCases, <1>1 DEF XInv, SlotInv
  <2>. QED
    BY <1>0, <1>1, <2>1, SlotStates DEF Held, Waiter, WaitLabels
<1>3. /\ given' \in [Thread -> SUBSET (Item \cup {NULL})]
      /\ given'[t] = {your_item[t]} /\ given'[w] = {my_item[t]}
      /\ \A u \in Thread \ {t, w} : given'[u] = given[u]
  <2>1. given' = [u \in Thread |->
                    CASE u = t -> given[u] \cup {my_item[v] : v \in Waiter(x)}
                      [] u \in Waiter(x) \ {t} -> given[u] \cup {my_item[t]}
                      [] OTHER -> given[u]]
    BY DEF xchg_take
  <2>2. given[t] = {} /\ {my_item[v] : v \in Waiter(x)} = {your_item[t]}
    BY <1>0, <1>1, <1>2 DEF ThreadInv
  <2>3. given' = [u \in Thread |-> IF u = t THEN {your_item[t]}
                                   ELSE IF u = w THEN {my_item[t]} ELSE given[u]]
    BY <1>1, <1>2, <2>1, <2>2
  <2>. QED
    BY <1>0, <1>2, <2>3 DEF XClients, XTypeOK
<1>4. XClients'
  BY <1>0, <1>3 DEF XClients, XTypeOK, XLabels, Word, Busy
<1>5. ASSUME NEW u \in Thread PROVE ThreadInv(u)'
  <2>1. ThreadInv(u)
    BY DEF XInv
  <2>. QED
    BY <1>0, <1>2, <1>3, <2>1 DEF ThreadInv, XClients, XTypeOK, XLabels
<1>6. ASSUME NEW y \in Exchangers PROVE Waiter(y)' = Waiter(y) /\ t \notin Waiter(y)
  BY <1>0 DEF Waiter, XClients, WaitLabels
<1>7. SlotInv(x)'
  <2>1. Held(w, x)'
    BY <1>0, <1>3 DEF Held, XClients, XTypeOK
  <2>. QED
    BY <1>2, <1>6, <2>1 DEF SlotInv
<1>8. ASSUME NEW y \in Exchangers, y # x PROVE SlotInv(y)'
  <2>1. SlotInv(y) /\ slot'[y] = slot[y]
    BY <1>0, <1>8 DEF XInv, XClients, XTypeOK
  <2>2. ASSUME NEW u \in Waiter(y)
        PROVE  given'[u] = given[u] /\ my_item'[u] = my_item[u] /\ pc'[u] = pc[u]
    <3>1. u \in Thread /\ u # t /\ u # w
      BY <1>1, <1>6, <1>8 DEF Waiter
    <3>. QED
      BY <1>0, <1>3, <3>1 DEF XClients
  <2>. QED
    BY <1>6, <2>1, <2>2, SlotKept
<1>. QED
  BY <1>4, <1>5, <1>7, <1>8 DEF XInv

\* Every step of a thread in exchanger_xchg keeps the invariant.
LEMMA XInvExchanging == ASSUME XInv, NEW t \in Thread, Exchanging(t) PROVE XInv'
<1>0. /\ XClients /\ ThreadInv(t) /\ pc[t] \in XLabels
  BY DEF XInv, Exchanging, xchg_get, xchg_give_up, xchg_place, xchg_wait, xchg_wait_over,
         xchg_cancel, xchg_late, xchg_reset, xchg_take, Step, XLabels
<1>1. PICK x \in Exchangers : at[t] = x
  BY <1>0 DEF ThreadInv
<1>2. /\ slot[x].addr \in Item \cup {NULL}
      /\ your_item \in [Thread -> Item \cup {NULL}]
      /\ \A i \in Item \cup {NULL} :
            [your_item EXCEPT ![t] = i] \in [Thread -> Item \cup {NULL}]
  BY <1>0 DEF XClients, XTypeOK, Word
<1>3. CASE xchg_get(t) \/ xchg_give_up(t)
  <2>1. PICK l \in {"x_get", "x_place", "x_take", "x_lost"}, i \in Item \cup {NULL} :
           Goto(t, l) /\ your_item' = [your_item EXCEPT ![t] = i]
    BY <1>1, <1>2, <1>3 DEF xchg_get, xchg_give_up, Step
  <2>2. pc[t] = "x_get" /\ UNCHANGED <<slot, at, my_item, given>>
    BY <1>3 DEF xchg_get, xchg_give_up, Step
  <2>3. ThreadInv(t)'
    BY <1>0, <2>1, <2>2 DEF ThreadInv, Goto, XClients, XLabels
  <2>. QED
    BY <1>0, <1>2, <2>1, <2>2, <2>3, XInvQuiet DEF XLabels, WaitLabels
<1>4. CASE xchg_wait(t) \/ xchg_late(t)
  <2>1. /\ t \in Waiter(x) /\ your_item' = [your_item EXCEPT ![t] = slot[x].addr]
        /\ pc[t] \in {"x_wait", "x_late"} /\ UNCHANGED <<slot, at, my_item, given>>
    BY <1>1, <1>4 DEF xchg_wait, xchg_late, Waiter, Step, WaitLabels
  <2>2. pc[t] = "x_late" => slot[x].state = "busy"
    <3>1. Held(t, x)
      BY <2>1 DEF XInv, SlotInv
    <3>. QED
      BY <3>1, SlotStates DEF Held
  <2>3. PICK l \in {"x_wait", "x_reset"} :
           Goto(t, l) /\ (l = "x_reset" => given[t] = {slot[x].addr})
    BY <1>1, <1>4, <2>1, <2>2, SlotCases DEF xchg_wait, xchg_late, Step
  <2>4. ThreadInv(t)'
    BY <1>0, <2>1, <2>3 DEF ThreadInv, Goto, XClients, XTypeOK, XLabels
  <2>. QED
    BY <1>0, <1>2, <2>1, <2>3, <2>4, XInvQuiet DEF XLabels, WaitLabels
<1>5. CASE xchg_wait_over(t)
  <2>1. pc[t] = "x_wait" /\ Goto(t, "x_cancel") /\ UNCHANGED xvars
    BY <1>5 DEF xchg_wait_over, Step
  <2>2. ThreadInv(t)'
    BY <1>0, <2>1 DEF ThreadInv, Goto, XClients, XLabels, xvars
  <2>. QED
    BY <1>0, <1>2, <2>1, <2>2, XInvQuiet DEF XLabels, WaitLabels, xvars
<1>6. CASE xchg_place(t)
  <2>1. CASE slot[x] = Empty
    BY <1>1, <1>6, <2>1, XInvPlace DEF xchg_place, Cmpxchg
  <2>2. CASE slot[x] # Empty
    <3>1. pc[t] = "x_place" /\ Goto(t, "x_get") /\ UNCHANGED xvars
      BY <1>1, <1>6, <2>2 DEF xchg_place, Cmpxchg, xvars
    <3>2. ThreadInv(t)'
      BY <1>0, <3>1 DEF ThreadInv, Goto, XClients, XLabels, xvars
    <3>. QED
      BY <1>0, <1>2, <3>1, <3>2, XInvQuiet DEF XLabels, WaitLabels, xvars
  <2>. QED
    BY <2>1, <2>2
<1>7. CASE xchg_cancel(t)
  <2>1. CASE slot[x] = Waiting(my_item[t])
    BY <1>1, <1>7, <2>1, XInvLeave DEF xchg_cancel, Cmpxchg
  <2>2. CASE slot[x] # Waiting(my_item[t])
    <3>1. pc[t] = "x_cancel" /\ Goto(t, "x_late") /\ UNCHANGED xvars
      BY <1>1, <1>7, <2>2 DEF xchg_cancel, Cmpxchg, xvars
    <3>2. t \in Waiter(x)
      BY <1>1, <3>1 DEF Waiter, WaitLabels
    <3>3. given[t] # {}
      BY <2>2, <3>2, SlotCases
    <3>4. ThreadInv(t)'
      BY <1>0, <3>1 DEF ThreadInv, Goto, XClients, XLabels, xvars
    <3>. QED
      BY <1>0, <1>2, <3>1, <3>3, <3>4, XInvQuiet DEF XLabels, WaitLabels, xvars
  <2>. QED
    BY <2>1, <2>2
<1>8. CASE xchg_reset(t)
  BY <1>1, <1>8, XInvLeave DEF xchg_reset, Step
<1>9. CASE xchg_take(t)
  <2>1. CASE slot[x] = Waiting(your_item[t])
    BY <1>1, <1>9, <2>1, XInvTake
  <2>2. CASE slot[x] # Waiting(your_item[t])
    <3>1. pc[t] = "x_take" /\ Goto(t, "x_get") /\ UNCHANGED xvars
      BY <1>1, <1>9, <2>2 DEF xchg_take, Cmpxchg, xvars
    <3>2. ThreadInv(t)'
      BY <1>0, <3>1 DEF ThreadInv, Goto, XClients, XLabels, xvars
    <3>. QED
      BY <1>0, <1>2, <3>1, <3>2, XInvQuiet DEF XLabels, WaitLabels, xvars
  <2>. QED
    BY <2>1, <2>2
<1>. QED
  BY <1>3, <1>4, <1>5, <1>6, <1>7, <1>8, <1>9 DEF Exchanging

\* exchanger_xchg, for any number of threads and exchangers and any objects: whoever meets
\* swaps, nobody else does, and a waiter whose time is up is not left without the object of
\* a thread that came in the last moment.
THEOREM ExchangerAtomic == XSpec => []AtomicExchange
<1>1. XStart => XInv
  BY XInvInit
<1>2. XInv /\ [XNext]_<<pc, xvars>> => XInv'
  <2>. SUFFICES ASSUME XInv, [XNext]_<<pc, xvars>> PROVE XInv'
    OBVIOUS
  <2>1. ASSUME NEW t \in Thread, call(t) \/ Exchanging(t) \/ finish(t) PROVE XInv'
    BY <2>1, XInvCall, XInvExchanging, XInvFinish
  <2>2. CASE UNCHANGED <<pc, xvars>>
    BY <2>2 DEF XInv, XClients, XTypeOK, ThreadInv, SlotInv, Held, Waiter, xvars
  <2>. QED
    BY <2>1, <2>2 DEF XNext
<1>. QED
  BY <1>1, <1>2, XInvExchange, PTL DEF XSpec
=============================================================================
