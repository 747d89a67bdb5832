---------------------------- MODULE MCEnvelopes ----------------------------
(***************************************************************************)
(* Envelopes with an order of one agent, an envelope whose key belongs to  *)
(* somebody else, and a stray error message.                               *)
(***************************************************************************)
EXTENDS Envelopes, TLC

CONSTANTS buyer, other, order, foreign, stray, d1, d2

MCFrom == [e \in Envelopes |-> buyer]
MCKeyOwner == [e \in Envelopes |-> IF e = foreign THEN other ELSE buyer]
MCProtocol == [e \in Envelopes |-> TRUE]
MCAlg == [e \in Envelopes |-> "Ed25519"]
MCValid == [e \in Envelopes |-> TRUE]
MCTs == order :> 1 @@ foreign :> 1 @@ stray :> 3
MCType == order :> "order.propose" @@ foreign :> "order.propose"
          @@ stray :> "error"
MCNotBefore == [a \in Agents |-> 0]
MCExpiresAt == [a \in Agents |-> 5]
=============================================================================
