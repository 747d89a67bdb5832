------------------------- MODULE ReservationBudget -------------------------
(***************************************************************************)
(* What the ledger promises its callers, without entries, locks, sessions  *)
(* or balances: each reference has a state, moves only along the           *)
(* reservation lifecycle, and a reservation is admitted only if what the   *)
(* mandate's live reservations add up to stays within its cap.             *)
(***************************************************************************)
EXTENDS Naturals, FiniteSets, FiniteSetsExt

CONSTANTS Mandates, Refs, MandateOf, AmountOf, MaxTotal

VARIABLE state      \* lifecycle state of each reference

States == {"NONE", "HELD", "CAPTURED", "RELEASED", "EXPIRED", "REVERSED"}

\* References whose amount counts against mandate m's cap.
Live(m) == {r \in Refs : MandateOf[r] = m /\ state[r] \in {"HELD", "CAPTURED"}}
Total(m) == MapThenSumSet(LAMBDA r : AmountOf[r], Live(m))

Init == state = [r \in Refs |-> "NONE"]

Move(r, from, to) == state[r] = from /\ state' = [state EXCEPT ![r] = to]

Reserve(r) ==
    /\ Total(MandateOf[r]) + AmountOf[r] <= MaxTotal[MandateOf[r]]
    /\ Move(r, "NONE", "HELD")

Capture(r) == Move(r, "HELD", "CAPTURED")
Release(r) == Move(r, "HELD", "RELEASED")
Reverse(r) == Move(r, "CAPTURED", "REVERSED")

\* One sweep expires any number of held references together.
Expire(S) ==
    /\ \A r \in S : state[r] = "HELD"
    /\ state' = [r \in Refs |-> IF r \in S THEN "EXPIRED" ELSE state[r]]

Next ==
    \/ \E r \in Refs : Reserve(r) \/ Capture(r) \/ Release(r) \/ Reverse(r)
    \/ \E S \in SUBSET Refs : Expire(S)

Spec == Init /\ [][Next]_state
=============================================================================
