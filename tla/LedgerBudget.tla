---------------------------- MODULE LedgerBudget ----------------------------
(***************************************************************************)
(* The ledger against the abstract ReservationBudget: what its entries say *)
(* of each reference, and what its netted balances add up to.              *)
(***************************************************************************)
EXTENDS Ledger, FiniteSets, FiniteSetsExt

\* A reference is a sha256 digest.
ASSUME RefsAreFinite == IsFiniteSet(Refs)

\* The abstract state of a reference, read off its committed entries.
StateIn(entries) ==
    IF entries["reverse"] > 0 THEN "REVERSED" ELSE state_of(entries)
ReservationState(r) == StateIn(posted[r])

Budget == INSTANCE ReservationBudget WITH state <- [r \in Refs |-> ReservationState(r)]

(***************************************************************************)
(* ledger_service implements the reservation lifecycle with an exact cap:  *)
(* each commit is one abstract step, all else stutters.  In particular the *)
(* cap check on netted balances admits nothing the live reservations'      *)
(* amounts would not.                                                      *)
(***************************************************************************)
ImplementsBudget == Budget!Spec

Amount(S) == MapThenSumSet(LAMBDA r : AmountOf[r], S)
InState(m, st) == {r \in Refs : MandateOf[r] = m /\ ReservationState(r) = st}

(***************************************************************************)
(* The netted account balances are exactly the amounts of the references   *)
(* in each state, so net_balance over all entries of an account (what G4   *)
(* reads) can be trusted and no bucket is ever negative.                   *)
(***************************************************************************)
BooksMatchStates ==
    \A m \in Mandates :
        /\ balance[m]["reserved"] = Amount(InState(m, "HELD"))
        /\ balance[m]["settled"] = Amount(InState(m, "CAPTURED"))

-----------------------------------------------------------------------------
(* Why they hold, for the proofs (LedgerProofs): a session x nets exactly  *)
(* the pairs it has pending, and these are one operation's.                *)

Posting(pairs, types, m) ==
    {r \in Refs : MandateOf[r] = m /\ \E ty \in types : <<ty, r>> \in pairs}

NetIsPending(net, pairs) ==
    \A m \in Mandates :
        /\ net[m]["reserved"] = Amount(Posting(pairs, {"reservation"}, m))
                              - Amount(Posting(pairs, {"capture", "release", "expire"}, m))
        /\ net[m]["settled"] = Amount(Posting(pairs, {"capture"}, m))
                             - Amount(Posting(pairs, {"reverse"}, m))

OneOperation(op, ref, pairs) ==
    \A ty \in RefTypes, r \in Refs : <<ty, r>> \in pairs =>
        ty = PostsType(op) /\ (op # "sweep" => r = ref)

SessionBooks(x) ==
    NetIsPending(x.net, x.pending) /\ OneOperation(x.op, x.ref, x.pending)

AllSessionBooks == \A t \in Txns : SessionBooks(txn[t])

BudgetInv == IndInv /\ AnswersStand /\ AllSessionBooks /\ BooksMatchStates
=============================================================================
