------------------------------- MODULE Budget -------------------------------
(***************************************************************************)
(* What the rate limiter promises about tokens, without its mechanism.     *)
(* Tokens of a tenant are drawn from its bucket into the hands of workers, *)
(* are spent on requests, each at most once, or are lost: on the way, with *)
(* a worker, by expiry.  No other step brings tokens about.                *)
(*                                                                         *)
(* An observer looks from some moment on: base is what workers held then,  *)
(* drawn and spent what was drawn and admitted since.                      *)
(***************************************************************************)
EXTENDS Integers

CONSTANTS
    Tenants,
    Lease       \* the most that is drawn at once

VARIABLES held, observed, base, drawn, spent

budgetVars == <<held, observed, base, drawn, spent>>

Init ==
    /\ held = [t \in Tenants |-> 0] /\ observed = FALSE
    /\ base = held /\ drawn = held /\ spent = held

\* n more, if somebody looks.
Noted(count, t, n) == IF observed THEN [count EXCEPT ![t] = @ + n] ELSE count

\* Tokens expire, or whatever held them is gone.
Lose ==
    /\ UNCHANGED <<observed, base, drawn, spent>>
    /\ held' \in [Tenants -> Nat] /\ \A t \in Tenants : held'[t] <= held[t]

\* A lease is debited; nobody may be there to receive it.
Draw(t, n) ==
    /\ drawn' = Noted(drawn, t, n)
    /\ UNCHANGED <<observed, base, spent>>
    /\ held' = [held EXCEPT ![t] = @ + n] \/ UNCHANGED held

\* A request is admitted.
Spend(t, n) ==
    /\ spent' = Noted(spent, t, n)
    /\ UNCHANGED <<observed, base, drawn>>
    /\ n <= held[t] /\ held' = [held EXCEPT ![t] = @ - n]

Observe ==
    /\ ~observed /\ observed' = TRUE
    /\ UNCHANGED <<drawn, spent>>
    /\ base' = held /\ UNCHANGED held

Next == \/ Lose \/ Observe
        \/ \E t \in Tenants, n \in 1..Lease : Draw(t, n)
        \/ \E t \in Tenants : \E n \in 1..held[t] : Spend(t, n)

Spec == Init /\ [][Next]_budgetVars

-----------------------------------------------------------------------------

TypeOK ==
    /\ held \in [Tenants -> Nat] /\ observed \in BOOLEAN
    /\ base \in [Tenants -> Nat] /\ drawn \in [Tenants -> Nat] /\ spent \in [Tenants -> Nat]

\* Whatever was admitted was held at first or has been drawn since, and so
\* was whatever can still be admitted.
Backed == observed => \A t \in Tenants : spent[t] + held[t] <= base[t] + drawn[t]
=============================================================================
