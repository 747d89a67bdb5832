------------------------------- MODULE Policy -------------------------------
(***************************************************************************)
(* The policy engine of domain/policy: twelve rules over a mandate m, a    *)
(* purchase intent i and a context c, all of which always run, in a fixed  *)
(* order.  A rule answers OK or its reason code.                           *)
(*                                                                         *)
(* A hash is modelled by what it is used for: two hashes are equal exactly *)
(* when all the hashed fields are, so the hash of an intent is the record  *)
(* of those fields and the spec hash of a mandate is its identity.         *)
(***************************************************************************)
EXTENDS Integers, Sequences

\* _outcome
Outcome(ok, code) == IF ok THEN "OK" ELSE code

\* The enriched order: the terms the quote pinned, and the live price.
PurchaseIntent(m, item, quote, live) ==
    [currency |-> m.currency, category |-> item.category, merchant |-> item.merchant,
     unit |-> quote.unit, total |-> quote.unit * quote.nights, nights |-> quote.nights,
     rooms |-> m.rooms, refundable |-> item.refundable, current |-> live * quote.nights,
     version |-> quote.version, spec |-> m.spec]

currency_match(m, i, c) == Outcome(i.currency = m.currency, "CURRENCY_MISMATCH")
category_allow(m, i, c) == Outcome(i.category \in m.allowed_categories, "CATEGORY_NOT_ALLOWED")
merchant_block(m, i, c) == Outcome(i.merchant \notin m.blocked_merchants, "MERCHANT_BLOCKED")

temporal_window(m, i, c) ==
    IF c.now < m.not_before THEN "MANDATE_NOT_YET_VALID"
    ELSE Outcome(c.now < m.expires_at, "MANDATE_EXPIRED")

cap_unit(m, i, c) == Outcome(i.unit <= m.max_unit, "UNIT_CAP_EXCEEDED")
cap_total(m, i, c) == Outcome(c.reserved + i.total <= m.max_total, "BUDGET_EXCEEDED")
cap_count(m, i, c) == Outcome(c.txn_count < m.max_transactions, "TXN_LIMIT_EXCEEDED")
quantity_match(m, i, c) ==
    Outcome(i.nights = m.nights /\ i.rooms = m.rooms, "QUANTITY_MISMATCH")
policy_refundable(m, i, c) ==
    Outcome(m.require_refundable => i.refundable, "REFUND_POLICY_VIOLATION")

Distance(a, b) == IF a < b THEN b - a ELSE a - b

\* The change of the live total against the quoted one, rounded down.
delta_bps(i) ==
    IF i.total = 0 THEN (IF i.current = 0 THEN 0 ELSE 10000)
    ELSE (Distance(i.current, i.total) * 10000) \div i.total

price_delta(m, i, c) == Outcome(delta_bps(i) <= m.max_price_delta_bps, "PRICE_DRIFT")
catalog_freshness(m, i, c) == Outcome(i.version = c.version, "STALE_PRICE")

\* The intent's own hash is computed from it by every caller of evaluate.
integrity_binding(m, i, c) == Outcome(i.spec = m.spec, "INTENT_MISMATCH")

RULES(m, i, c) ==
    << currency_match(m, i, c), category_allow(m, i, c), merchant_block(m, i, c),
       temporal_window(m, i, c), cap_unit(m, i, c), cap_total(m, i, c), cap_count(m, i, c),
       quantity_match(m, i, c), policy_refundable(m, i, c), price_delta(m, i, c),
       catalog_freshness(m, i, c), integrity_binding(m, i, c) >>

\* Every rule runs: the codes of those that fail, in order; one denies.
evaluate(m, i, c) ==
    LET codes == RULES(m, i, c) IN
    [verdict |-> IF \E n \in DOMAIN codes : codes[n] # "OK" THEN "DENY" ELSE "ALLOW",
     reason_codes |-> SelectSeq(codes, LAMBDA code : code # "OK")]
=============================================================================
