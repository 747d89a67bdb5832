---------------------------- MODULE MCAuditChain ----------------------------
(***************************************************************************)
(* AuditChain with a checkpoint every two entries and two of them in the   *)
(* log: two sessions race for the chain while the verifier reads any       *)
(* range.                                                                  *)
(***************************************************************************)
EXTENDS AuditChain, TLC

CONSTANTS s1, s2, a, b

SessionSymmetry == Permutations(Sessions)
PayloadSymmetry == Permutations(Payloads)
ChainSymmetry == SessionSymmetry \cup PayloadSymmetry
=============================================================================
