----------------------------- MODULE MCTrustLab -----------------------------
(* A second run of a card while the first proposes; a run beside another    *)
(* that moves the catalog's version, with a fault; a run beside a customer; *)
(* a run that moves the version under a session of the simulation; and the  *)
(* simulation alone, killed at some step or not, with the metrics read all  *)
(* the while.                                                               *)
EXTENDS GrowthMetrics
CONSTANTS r1, r2, c1
Pair(first, second) == (r1 :> first) @@ (r2 :> second)
Situation(cards, meets, customers, simulates, faultsAllowed) ==
    [cards |-> cards, meets |-> meets, customers |-> customers, sim |-> simulates,
     faults |-> faultsAllowed, reads |-> simulates /\ faultsAllowed > 0]
MCCasts ==
    {Situation(Pair({"stale_price"}, {"stale_price"}), Pair({}, {"hash"}), {}, FALSE, 0),
     Situation(Pair({"stale_price"}, {"declined", "verify_chain"}), Pair({}, {"sweep_quote"}), {},
               FALSE, 1),
     Situation(Pair({"declined", "verify_chain"}, {"declined"}), Pair({}, {}), {}, FALSE, 0),
     Situation(Pair({"llm_down"}, {}), Pair({}, {}), {c1}, FALSE, 1),
     Situation(Pair({"stale_price"}, {}), Pair({"offer"}, {}), {}, TRUE, 0),
     Situation(Pair({}, {}), Pair({}, {}), {}, TRUE, 1)}
=============================================================================
