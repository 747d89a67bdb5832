--------------------------- MODULE MCPaymentSaga ---------------------------
(***************************************************************************)
(* PaymentSaga on small instances.                                         *)
(***************************************************************************)
EXTENDS PaymentSaga, TLC

CONSTANTS m1, k1, k2, q1, q2, w1

MCMandateOf == [k \in Keys |-> m1]
MCAmountOf == [k \in Keys |-> 2]
MCMaxTotal == [m \in Mandates |-> 3]

RequestSymmetry == Permutations(Requests)
=============================================================================
