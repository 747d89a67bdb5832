---------------------------- MODULE MCAdvisory ----------------------------
(***************************************************************************)
(* Two requests over two texts: one that says everything, with a budget    *)
(* restated ("10k" after "9.5") and an "infant", one that says a number of *)
(* nights and no budget.  Groq claims the right words, a part of a         *)
(* numeral, the number of nights, a numeral that is not there or one that  *)
(* is not finite, and orders the two feasible items rightly, one of them   *)
(* twice, or with one that was not offered.  The bucket's key lives as     *)
(* long as the bucket takes to fill and a claim to arrive.                 *)
(***************************************************************************)
EXTENDS Advisory

CONSTANTS r1, r2

Num(milli, k) == [milli |-> milli, k |-> k]
Word(slot, whole, parts) == [slot |-> slot, whole |-> whole, spans |-> {whole} \cup parts]
Plain(slot, spans) == [slot |-> slot, whole |-> None, spans |-> spans]

Full == <<Plain("category", {}), Plain("location", {}), Plain("check_in", {}),
          Word("nights", Num(2000, FALSE), {}), Plain("rooms", {}),
          Word("max_total_minor", Num(9500, FALSE), {Num(9000, FALSE), Num(5000, FALSE)}),
          Word("max_total_minor", Num(10000, TRUE), {Num(10000, FALSE), Num(0, TRUE)}),
          Plain("none", {NonFinite})>>
Vague == <<Plain("location", {}), Word("nights", Num(3000, FALSE), {})>>
MCTexts == [t \in {"full", "vague"} |-> IF t = "full" THEN Full ELSE Vague]

All == Range(REQUIRED_SLOTS) \ {"max_total_minor"}
Said(i) == [at |-> i, span |-> Full[i].whole]
Part == [at |-> 7, span |-> Num(10000, FALSE)]
Infinite == [at |-> 8, span |-> NonFinite]
Invented == [at |-> 2, span |-> Num(50000, TRUE)]
MCClaims ==
    {[present |-> All, total |-> Said(7), unit |-> None],
     [present |-> All, total |-> Part, unit |-> Said(4)],
     [present |-> All, total |-> Invented, unit |-> Said(6)],
     [present |-> All, total |-> Said(7), unit |-> Infinite]}

Item(price, rating) ==
    [category |-> "travel.hotel", merchant_id |-> 1, unit_price_minor |-> price,
     available_units |-> 1, refundable |-> TRUE, city |-> "goa", rating |-> rating]
MCItems == <<Item(30, 5), Item(20, 4), Item(90, 5), [Item(10, 5) EXCEPT !.available_units = 0]>>
MCMandate == [allowed_categories |-> {"travel.hotel"}, blocked_merchants |-> {},
              max_unit_minor |-> 50, require_refundable |-> TRUE, city |-> "goa"]
MCOrders == {<<1, 2>>, <<1, 1>>, <<1, 3>>}
=============================================================================
