------------------------------ MODULE MCLedger ------------------------------
(***************************************************************************)
(* Ledger on small instances, against the abstract ReservationBudget.      *)
(* The safety instance has one mandate whose cap (4) admits the first      *)
(* reference with either of the others, or all but the second.  The        *)
(* liveness instance has one reference on each of two mandates, so that    *)
(* two sweeps can lock the mandates in opposite orders.                    *)
(***************************************************************************)
EXTENDS LedgerBudget, TLC

CONSTANTS m1, m2, r1, r2, r3, t1, t2

MCMandateOf == [r \in Refs |-> IF r = r3 THEN CHOOSE m \in Mandates : m # m1 \/ Mandates = {m1}
                               ELSE m1]
MCAmountOf == [r \in Refs |-> CASE r = r1 -> 1 [] r = r2 -> 3 [] r = r3 -> 2]
MCMaxTotal == [m \in Mandates |-> 4]

\* Sessions are interchangeable; used for the safety run only.
TxnSymmetry == Permutations(Txns)
=============================================================================
