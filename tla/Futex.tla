------------------------------- MODULE Futex -------------------------------
(***************************************************************************)
(* The Linux futex calls that include/vsync/thread/internal/futex.h makes: *)
(* FUTEX_WAIT compares the word and goes to sleep in one step, FUTEX_WAKE  *)
(* wakes up to n of the threads asleep on the address.                     *)
(***************************************************************************)
EXTENDS Control, Naturals, FiniteSets

VARIABLE asleep     \* asleep[a]: the threads asleep on the word at address a

Awake(t) == \A a \in DOMAIN asleep : t \notin asleep[a]

\* vfutex_wait on a word: EAGAIN and a wake-up both just return, at pc `to`.  Any other error,
\* EINTR for instance, would end the whole program: there is no step after it.
vfutex_wait(t, a, word, v, to) ==
    /\ Goto(t, to)
    /\ asleep' = IF word = v THEN [asleep EXCEPT ![a] = @ \cup {t}] ELSE asleep

vfutex_wake(a, n) ==
    \E S \in SUBSET asleep[a] :
        /\ Cardinality(S) = n \/ (Cardinality(S) < n /\ S = asleep[a])
        /\ asleep' = [asleep EXCEPT ![a] = @ \ S]

\* FUTEX_WAIT may return without a FUTEX_WAKE
SpuriousWakeup(t) == /\ ~Awake(t)
                     /\ asleep' = [a \in DOMAIN asleep |-> asleep[a] \ {t}]
=============================================================================
