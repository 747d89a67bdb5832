---------------------------- MODULE MCStorefront ----------------------------
(***************************************************************************)
(* Storefront with a room and an add-on, two sessions of one buyer under   *)
(* one mandate, one of them re-quoting, and two clicks on the add-on.      *)
(***************************************************************************)
EXTENDS Storefront

CONSTANTS room, spa, b1, b2, a1, a2, m1

MCItem ==
    room :> [category |-> "travel.hotel", merchant |-> "goa", refundable |-> TRUE,
             stock |-> 1, rank |-> 1] @@
    spa :> [category |-> "travel.addon.per_night", merchant |-> "goa", refundable |-> FALSE,
            stock |-> 1, rank |-> 2]

MCSkuOf == [q \in Requests |-> IF q \in Buyers THEN room ELSE spa]
MCMandateOf == [q \in Requests |-> IF q \in Buyers THEN m1 ELSE q]

\* The clicks on the add-on are interchangeable.
AddonSymmetry == Permutations(Addons)
=============================================================================
