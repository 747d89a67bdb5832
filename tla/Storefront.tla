----------------------------- MODULE Storefront -----------------------------
(***************************************************************************)
(* What leads to a purchase: the catalog and its quotes, a buyer's         *)
(* proposal through the merchant agent, the policy engine and the gate,    *)
(* the one re-quote after a stale price, the add-ons offered on a settled  *)
(* booking, and the paged catalog listing.                                 *)
(*                                                                         *)
(* A step reads or writes the database once where the order matters: the   *)
(* transactions are READ COMMITTED, so a price change may fall between two *)
(* reads of one transaction.  What a request read is kept in its record.   *)
(* What the saga does after the gate is in PaymentSaga; here it answers.   *)
(*                                                                         *)
(* Time is not counted: a reading of the clock may find the deadline of a  *)
(* mandate, a decision or a quote passed (`late` says which) or none.      *)
(***************************************************************************)
EXTENDS Policy, FiniteSets, FiniteSetsExt, SequencesExt

CONSTANTS
    Skus,          \* catalog_items
    Item,          \* per sku: category, merchant, refundable, stock, its rank in sku order
    Prices,        \* unit prices an admin may set
    SeedPrice,     \* the price of every item at first
    Buyers,        \* buyers' sessions: quote, propose, check out
    Requoting,     \* those that go through propose_with_one_requote_on_stale_price
    Addons,        \* requests to purchase an add-on; each mints its own mandate
    SkuOf,         \* what a request wants
    MandateOf,     \* the mandate a request acts under
    Base,          \* the buyer whose settled order the add-ons belong to
    Budget,        \* max_total_minor asked for at create_mandate
    Nights, Rooms,
    PageSize,      \* query.limit
    Nothing,       \* no mandate, no quote, no intent
    MaxVersion,    \* bound: price changes
    MaxFaults      \* bound: processes that die and revocations

ASSUME StorefrontConstants ==
    /\ Item \in [Skus -> [category : STRING, merchant : STRING, refundable : BOOLEAN,
                          stock : Nat, rank : Nat]]
    /\ IsFiniteSet(Skus)
    /\ \A s, t \in Skus : Item[s].rank = Item[t].rank => s = t
    /\ Requoting \subseteq Buyers /\ Base \in Buyers
    /\ Buyers \cap Addons = {}
    /\ Prices \subseteq Nat \ {0} /\ SeedPrice \in Nat \ {0}
    /\ \A q \in Buyers \cup Addons : SkuOf[q] \in Skus
    /\ \A a \in Addons : MandateOf[a] = a
    /\ \A b \in Buyers : MandateOf[b] \notin Addons
    /\ {Nights, Rooms, PageSize, MaxVersion} \subseteq Nat \ {0}
    /\ {Budget, MaxFaults} \subseteq Nat

VARIABLES
    price,      \* catalog_items.unit_price_minor
    version,    \* catalog_meta.version
    mandate,    \* mandates, Nothing before they are added
    purchase,   \* sagas and what they reserved: per mandate and intent, and whose
                \* call claimed the key
    addon,      \* addon_purchases of the base order, per sku: status and owner
    req,        \* the requests
    walk,       \* the buyer paging through the catalog
    faults

vars == <<price, version, mandate, purchase, addon, req, walk, faults>>

Requests == Buyers \cup Addons
Mandates == {MandateOf[q] : q \in Requests}
AddonSkus == {SkuOf[a] : a \in Addons}
Sku(q) == SkuOf[q]
M(q) == mandate[MandateOf[q]]

Deadlines == {"none", "mandate", "decision", "quote"}

Idle ==
    [pc |-> "idle", seen |-> 0, quote |-> Nothing, intent |-> Nothing, requoted |-> FALSE]

NewWalk == [cursor |-> <<0, 0>>, got |-> <<>>, touched |-> {}, more |-> TRUE]
NoWalk == [NewWalk EXCEPT !.more = FALSE]

Init ==
    /\ price = [s \in Skus |-> SeedPrice]
    /\ version = 1
    /\ mandate = [m \in Mandates |-> Nothing]
    /\ purchase = {}
    /\ addon = [s \in AddonSkus |-> [status |-> "none", owner |-> Nothing]]
    /\ req = [q \in Requests |-> Idle]
    /\ walk = NewWalk
    /\ faults = 0

-----------------------------------------------------------------------------
At(q, pc) == req[q].pc = pc
Goto(q, pc) == req' = [req EXCEPT ![q].pc = pc]
Saw(q, pc, value) == req' = [req EXCEPT ![q].pc = pc, ![q].seen = value]
\* The response, whose code no other request reads.
Answer(q, code) == req' = [req EXCEPT ![q] = [Idle EXCEPT !.pc = "done"]]

\* _build_mandate: what create_mandate and purchase_upsell fill in.
NewMandate(id, category, nights, rooms, total, refundable) ==
    [spec |-> id, status |-> "LOCKED", currency |-> "INR", allowed_categories |-> {category},
     blocked_merchants |-> {}, not_before |-> 0, expires_at |-> 1,
     max_unit |-> Max({total \div nights, 1}), max_total |-> total, max_transactions |-> 1,
     nights |-> nights, rooms |-> rooms, require_refundable |-> refundable,
     max_price_delta_bps |-> 1000]

\* POST /buyer/v1/mandate: locked at once.
CreateMandate(b) ==
    /\ M(b) = Nothing
    /\ mandate' = [mandate EXCEPT ![MandateOf[b]] =
           NewMandate(MandateOf[b], "travel.hotel", Nights, Rooms, Budget, TRUE)]
    /\ UNCHANGED <<price, version, purchase, addon, req, walk, faults>>

\* An item whose price changes while the catalog is being listed.
Touch(s) == IF walk.more THEN [walk EXCEPT !.touched = @ \cup {s}] ELSE walk

\* mutate_price_demo_only: the price and the global version in one transaction.
mutate_price(s, p) ==
    /\ version < MaxVersion
    /\ price' = [price EXCEPT ![s] = p]
    /\ version' = version + 1
    /\ walk' = Touch(s)
    /\ UNCHANGED <<mandate, purchase, addon, req, faults>>

\* An operator revokes a mandate, whatever its status (update_status; nothing
\* in the program calls it with REVOKED).
Revoke(m) ==
    /\ mandate[m] # Nothing
    /\ faults < MaxFaults
    /\ faults' = faults + 1
    /\ mandate' = [mandate EXCEPT ![m].status = "REVOKED"]
    /\ UNCHANGED <<price, version, purchase, addon, req, walk>>

-----------------------------------------------------------------------------
(* create_quote.                                                           *)

\* The mandate and the item are read; no stock, no quote.  Bound: the listing
\* is over when the first quote is asked for, and forgotten then.
QuoteRead(b) ==
    /\ req[b].pc \in {"idle", "requote"}
    /\ M(b) # Nothing
    /\ ~walk.more
    /\ walk' = NoWalk
    /\ IF Item[Sku(b)].stock > 0 THEN Saw(b, "pin", price[Sku(b)]) ELSE Answer(b, "STALE_PRICE")
    /\ UNCHANGED <<price, version, mandate, purchase, addon, faults>>

Quote(q, nights) ==
    [unit |-> req[q].seen, nights |-> nights, version |-> version]

\* The version is read by another statement; the quote is added and committed.
QuotePin(b) ==
    /\ At(b, "pin")
    /\ req' = [req EXCEPT ![b].pc = "hash", ![b].quote = Quote(b, Nights)]
    /\ UNCHANGED <<price, version, mandate, purchase, addon, walk, faults>>

-----------------------------------------------------------------------------
(* Add-ons on the settled base order.                                      *)

\* _load_base_context
BaseSettled == \E p \in purchase : p.mandate = MandateOf[Base] /\ p.status = "COMPLETED"

\* _pricing_multiplier: 0 stands for None and for a quantity that is not positive.
_pricing_multiplier(category) ==
    CASE category = "travel.addon.flat" -> 1
      [] category = "travel.addon.per_night" -> Nights
      [] category = "travel.addon.per_guest_per_night" -> Nights * Rooms
      [] OTHER -> 0

\* _to_offer answers None, or what price_offer_for_purchase returns.
Offered(s) == BaseSettled /\ Item[s].stock > 0 /\ _pricing_multiplier(Item[s].category) > 0

\* INSERT ... ON CONFLICT DO NOTHING
record_offered(s) ==
    IF addon[s].status = "none" THEN [status |-> "offered", owner |-> Nothing] ELSE addon[s]

\* GET /buyer/v1/upsell/offers
list_eligible_offers ==
    /\ \E s \in AddonSkus : Offered(s) /\ addon[s].status = "none"
    /\ addon' = [s \in AddonSkus |-> IF Offered(s) THEN record_offered(s) ELSE addon[s]]
    /\ UNCHANGED <<price, version, mandate, purchase, req, walk, faults>>

decline_all_offered ==
    /\ \E s \in AddonSkus : addon[s].status = "offered"
    /\ addon' = [s \in AddonSkus |->
           IF addon[s].status = "offered" THEN [addon[s] EXCEPT !.status = "declined"]
           ELSE addon[s]]
    /\ UNCHANGED <<price, version, mandate, purchase, req, walk, faults>>

\* purchase_upsell: the price, from the live catalog.
AddonPrice(a) ==
    /\ At(a, "idle")
    /\ IF Offered(Sku(a)) THEN Saw(a, "claim", price[Sku(a)]) ELSE Answer(a, "OFFER_NOT_AVAILABLE")
    /\ UNCHANGED <<price, version, mandate, purchase, addon, walk, faults>>

\* Mutant: a failed add-on may be tried again.
ClaimableAgain(s) == addon[s].status \in {"none", "offered", "pending", "failed"}

\* try_mark_pending: the row is inserted, or moves from offered.
Claimable(s) == addon[s].status \in {"none", "offered"}

\* The rest of the transaction: the claim, the mandate, the quote at the
\* price read (the session returns the row it has) and the version read now.
AddonClaim(a) ==
    /\ At(a, "claim")
    /\ LET s == Sku(a)
           n == _pricing_multiplier(Item[s].category) IN
       IF Claimable(s)
       THEN /\ addon' = [addon EXCEPT ![s] = [status |-> "pending", owner |-> a]]
            /\ mandate' = [mandate EXCEPT ![a] =
                   NewMandate(a, Item[s].category, n, 1, req[a].seen * n, Item[s].refundable)]
            /\ req' = [req EXCEPT ![a].pc = "hash", ![a].quote = Quote(a, n)]
       ELSE Answer(a, "ALREADY_PURCHASED") /\ UNCHANGED <<addon, mandate>>
    /\ UNCHANGED <<price, version, purchase, walk, faults>>

-----------------------------------------------------------------------------
(* handle_order_propose.                                                   *)

Intent(q, live) == PurchaseIntent(M(q), Item[Sku(q)], req[q].quote, live)

\* The buyer's side: the hash of the intent at the price it reads itself.
BuyerHash(q) ==
    /\ At(q, "hash")
    /\ req' = [req EXCEPT ![q].pc = "propose", ![q].intent = Intent(q, price[Sku(q)])]
    /\ UNCHANGED <<price, version, mandate, purchase, addon, walk, faults>>

\* _reject, and what its caller does: an add-on's row must be failed; recovery
\* re-quotes once, on STALE_PRICE only.
Reject(q, code) ==
    IF q \in Addons THEN Goto(q, "failed")
    ELSE IF q \in Requoting /\ code = "STALE_PRICE" /\ ~req[q].requoted
    THEN req' = [req EXCEPT ![q] = [Idle EXCEPT !.pc = "requote", !.requoted = TRUE]]
    ELSE Answer(q, code)

\* The mandate's own checks, the same here and in G1.
MandateCheck(m, late) ==
    CASE m.status = "REVOKED" -> "MANDATE_REVOKED"
      [] m.status \notin {"LOCKED", "EXECUTING", "REVOKED"} -> "MANDATE_INVALID"
      [] m.status \in {"LOCKED", "EXECUTING"} ->
            IF late = "mandate" THEN "MANDATE_EXPIRED" ELSE "OK"

\* The mandate, the quote and the item are read.
ProposeRead(q, late) ==
    /\ At(q, "propose")
    /\ IF MandateCheck(M(q), late) = "OK" THEN Saw(q, "evaluate", price[Sku(q)])
       ELSE Reject(q, MandateCheck(M(q), late))
    /\ UNCHANGED <<price, version, mandate, purchase, addon, walk, faults>>

\* What the ledger has committed for a mandate.  RUNNING stands for a saga
\* whose reservation is made; DENIED for one that says FAILED while it stands.
Claimed == {"RUNNING", "DENIED"}
Holding == Claimed \cup {"AWAITING_AUTHORIZATION", "COMPLETED"}
committed_total(m) ==
    MapThenSumSet(LAMBDA p : p.intent.total, {p \in purchase : p.mandate = m /\ p.status \in Holding})

\* The version and the ledger are read, the intent is rebuilt and compared,
\* the engine decides, the decision is stored.
Evaluate(q, late) ==
    /\ At(q, "evaluate")
    /\ LET i == Intent(q, req[q].seen)
           ctx == [now |-> IF late = "mandate" THEN 1 ELSE 0,
                   reserved |-> committed_total(MandateOf[q]), txn_count |-> 0,
                   version |-> version]
           decision == evaluate(M(q), i, ctx) IN
       IF i # req[q].intent THEN Reject(q, "INTENT_MISMATCH")
       ELSE IF decision.verdict = "DENY" THEN Reject(q, decision.reason_codes[1])
       ELSE Goto(q, "gate")
    /\ UNCHANGED <<price, version, mandate, purchase, addon, walk, faults>>

-----------------------------------------------------------------------------
(* begin_purchase, the gate and the saga's answer.                         *)

\* The idempotency key: the mandate and the intent's hash.
Of(q, p) == p.mandate = MandateOf[q] /\ p.intent = req[q].intent
Known(q) == \E p \in purchase : Of(q, p)
Row(q) == CHOOSE p \in purchase : Of(q, p)

Record(q, status, by) ==
    purchase' = {p \in purchase : ~Of(q, p)} \cup
        {[mandate |-> MandateOf[q], intent |-> req[q].intent, status |-> status, by |-> by]}

SetMandate(q, from, to) ==
    mandate' = [mandate EXCEPT ![MandateOf[q]].status = IF @ = from THEN to ELSE @]

\* Mutant: the reservation does not look at the cap again.
G4Unchecked(q) == TRUE

\* G4, under the mandate's row lock; a key that has its reservation keeps it.
G4(q) == Known(q) \/ committed_total(MandateOf[q]) + req[q].intent.total <= M(q).max_total

\* Mutant: the policy engine has already looked at the version.
G5WithoutVersion(q, late) == IF late = "quote" THEN "QUOTE_EXPIRED" ELSE "OK"

G5(q, late) ==
    IF late = "quote" THEN "QUOTE_EXPIRED"
    ELSE IF req[q].quote.version # version THEN "STALE_PRICE" ELSE "OK"

\* G1 to G5, at the moment G5 reads the version.
GateCode(q, late) ==
    IF MandateCheck(M(q), late) # "OK" THEN MandateCheck(M(q), late)
    ELSE IF late = "decision" THEN "DECISION_STALE"
    ELSE IF ~G4(q) THEN "BUDGET_EXCEEDED"
    ELSE G5(q, late)

\* A saga that is not RUNNING answers; it keeps no reason.
Replay(q) ==
    /\ At(q, "gate") /\ Known(q) /\ Row(q).status # "RUNNING"
    /\ IF Row(q).status = "AWAITING_AUTHORIZATION" THEN Goto(q, "accepted")
       ELSE Reject(q, "INTERNAL_ERROR")
    /\ UNCHANGED <<price, version, mandate, purchase, addon, walk, faults>>

\* What a denial writes: the reservation of another call for the key stands.
RecordDenied(q) ==
    IF Known(q) THEN Record(q, "DENIED", Row(q).by) ELSE Record(q, "FAILED", q)

Deny(q, late) ==
    /\ At(q, "gate") /\ (Known(q) => Row(q).status = "RUNNING")
    /\ GateCode(q, late) # "OK"
    /\ RecordDenied(q)
    /\ Reject(q, GateCode(q, late))
    /\ UNCHANGED <<price, version, mandate, addon, walk, faults>>

\* Another call holds the key's claim, here or in a process that died: its
\* outcome is not known when the polling ends.
InFlight(q) ==
    /\ At(q, "gate") /\ Known(q) /\ Row(q).status = "RUNNING"
    /\ GateCode(q, "none") = "OK"
    /\ RecordDenied(q)
    /\ Reject(q, "PROVIDER_TRANSIENT")
    /\ UNCHANGED <<price, version, mandate, addon, walk, faults>>

\* G1 to G5 pass: the budget is reserved, the mandate executes.
Admit(q) ==
    /\ At(q, "gate") /\ ~Known(q)
    /\ GateCode(q, "none") = "OK"
    /\ Record(q, "RUNNING", q)
    /\ SetMandate(q, "LOCKED", "EXECUTING")
    /\ Goto(q, "order")
    /\ UNCHANGED <<price, version, addon, walk, faults>>

\* The order is created, whatever another call wrote in the saga meanwhile ...
OrderCreated(q) ==
    /\ At(q, "order")
    /\ Record(q, "AWAITING_AUTHORIZATION", q)
    /\ Goto(q, "accepted")
    /\ UNCHANGED <<price, version, mandate, addon, walk, faults>>

\* ... or its creation fails, and C1 gives the budget back.
OrderFails(q) ==
    /\ At(q, "order")
    /\ Record(q, "FAILED", q)
    /\ SetMandate(q, "EXECUTING", "COMPENSATED")
    /\ Reject(q, "PROVIDER_TERMINAL")
    /\ UNCHANGED <<price, version, addon, walk, faults>>

\* checkout, and the last part of purchase_upsell: complete_purchase settles
\* or compensates what awaits authorization, and answers a resolved saga.
Complete(q) ==
    /\ At(q, "accepted")
    /\ \/ /\ Row(q).status = "AWAITING_AUTHORIZATION"
          /\ Record(q, "COMPLETED", q)
          /\ SetMandate(q, "EXECUTING", "SETTLED")
          /\ IF q \in Addons THEN Goto(q, "paid") ELSE Answer(q, "OK")
       \/ /\ Row(q).status = "AWAITING_AUTHORIZATION"
          /\ Record(q, "COMPENSATED", q)
          /\ SetMandate(q, "EXECUTING", "COMPENSATED")
          /\ IF q \in Addons THEN Goto(q, "failed") ELSE Answer(q, "PROVIDER_DECLINED")
       \/ /\ Row(q).status # "AWAITING_AUTHORIZATION"
          /\ IF q \in Buyers THEN Answer(q, Row(q).status)
             ELSE Goto(q, IF Row(q).status = "COMPLETED" THEN "paid" ELSE "failed")
          /\ UNCHANGED <<purchase, mandate>>
    /\ UNCHANGED <<price, version, addon, walk, faults>>

\* Mutant: the answer is given and the row forgotten.
NotReadyForgotten(a) ==
    /\ At(a, "accepted")
    /\ Answer(a, "PAYMENT_NOT_READY")
    /\ UNCHANGED <<price, version, mandate, purchase, addon, walk, faults>>

\* No order, no payment yet, or a provider that cannot sign a checkout.
NotReady(a) ==
    /\ At(a, "accepted")
    /\ Goto(a, "failed")
    /\ UNCHANGED <<price, version, mandate, purchase, addon, walk, faults>>

\* The request ends without an answer: the locals are gone, the rows stay.
Abort(q) == req' = [req EXCEPT ![q] = [Idle EXCEPT !.pc = "aborted"]]

\* fetch_payments raises, in purchase_upsell or in complete_purchase, and
\* nothing catches it.  (A checkout in which it raises changes nothing.)
ProviderRaises(a) ==
    /\ At(a, "accepted")
    /\ Abort(a)
    /\ UNCHANGED <<price, version, mandate, purchase, addon, walk, faults>>

\* The row's status, written in a transaction of its own.
mark_failed(s) == addon' = [addon EXCEPT ![s].status = "failed"]
mark_settled(s) == addon' = [addon EXCEPT ![s].status = "settled"]

MarkFailed(a) ==
    /\ At(a, "failed")
    /\ mark_failed(Sku(a))
    /\ Answer(a, "reject")
    /\ UNCHANGED <<price, version, mandate, purchase, walk, faults>>

MarkSettled(a) ==
    /\ At(a, "paid")
    /\ mark_settled(Sku(a))
    /\ Answer(a, "accept")
    /\ UNCHANGED <<price, version, mandate, purchase, walk, faults>>

\* The process dies: what the request had not committed is gone.
Crash(q) ==
    /\ req[q].pc \notin {"idle", "done", "aborted"}
    /\ faults < MaxFaults
    /\ faults' = faults + 1
    /\ Abort(q)
    /\ UNCHANGED <<price, version, mandate, purchase, addon, walk>>

-----------------------------------------------------------------------------
(* list_catalog, page after page.                                          *)

Position(s) == <<price[s], Item[s].rank>>

\* Mutant: the cursor compares prices only.
AfterByPrice(x, y) == x[1] > y[1]

\* (unit_price_minor, sku) > cursor
After(x, y) == x[1] > y[1] \/ (x[1] = y[1] /\ x[2] > y[2])

\* What is after the cursor, ORDER BY (unit_price_minor, sku).
Rows ==
    CHOOSE rows \in SetToSeqs({s \in Skus : After(Position(s), walk.cursor)}) :
        \A i, j \in DOMAIN rows : i < j => ~After(Position(rows[i]), Position(rows[j]))

NextPage ==
    /\ walk.more
    /\ LET rows == Rows
           page == SubSeq(rows, 1, Min({PageSize, Len(rows)})) IN
       walk' = [walk EXCEPT !.got = @ \o page,
                            !.more = Len(rows) > PageSize,
                            !.cursor = IF page = <<>> THEN @ ELSE Position(Last(page))]
    /\ UNCHANGED <<price, version, mandate, purchase, addon, req, faults>>

-----------------------------------------------------------------------------
Step(q) ==
    \/ BuyerHash(q) \/ Replay(q) \/ InFlight(q) \/ Admit(q)
    \/ OrderCreated(q) \/ OrderFails(q) \/ Complete(q)
    \/ \E late \in Deadlines : ProposeRead(q, late) \/ Evaluate(q, late) \/ Deny(q, late)
BuyerStep(b) == QuoteRead(b) \/ QuotePin(b) \/ Step(b)
AddonStep(a) ==
    \/ AddonPrice(a) \/ AddonClaim(a) \/ Step(a) \/ NotReady(a) \/ ProviderRaises(a)
    \/ MarkFailed(a) \/ MarkSettled(a)

Next ==
    \/ \E b \in Buyers : CreateMandate(b) \/ BuyerStep(b)
    \/ \E a \in Addons : AddonStep(a)
    \/ \E q \in Requests : Crash(q)
    \/ \E m \in Mandates : Revoke(m)
    \/ \E s \in Skus, p \in Prices : mutate_price(s, p)
    \/ list_eligible_offers \/ decline_all_offered \/ NextPage

Spec == Init /\ [][Next]_vars

-----------------------------------------------------------------------------
Places ==
    {"idle", "pin", "requote", "claim", "hash", "propose", "evaluate", "gate", "order",
     "accepted", "paid", "failed", "done", "aborted"}

Categories == {"travel.hotel"} \cup {Item[s].category : s \in Skus}

MandateRecords ==
    [spec : Mandates, status : {"LOCKED", "EXECUTING", "SETTLED", "COMPENSATED", "REVOKED"},
     currency : {"INR"}, allowed_categories : SUBSET Categories, blocked_merchants : SUBSET STRING,
     not_before : Nat, expires_at : Nat, max_unit : Nat, max_total : Nat, max_transactions : Nat,
     nights : Nat, rooms : Nat, require_refundable : BOOLEAN, max_price_delta_bps : Nat]
QuoteRecords == [unit : Nat, nights : Nat, version : Nat]
IntentRecords ==
    [currency : {"INR"}, category : Categories, merchant : STRING, unit : Nat, total : Nat,
     nights : Nat, rooms : Nat, refundable : BOOLEAN, current : Nat, version : Nat, spec : Mandates]
PurchaseRecords ==
    [mandate : Mandates, intent : IntentRecords, status : Holding \cup {"FAILED", "COMPENSATED"},
     by : Requests]
AddonRecords ==
    [status : {"none", "offered", "pending", "settled", "failed", "declined"},
     owner : Addons \cup {Nothing}]
RequestRecords ==
    [pc : Places, seen : Nat, quote : QuoteRecords \cup {Nothing},
     intent : IntentRecords \cup {Nothing}, requoted : BOOLEAN]

ASSUME NothingAssumption ==
    /\ Nothing \notin MandateRecords /\ Nothing \notin QuoteRecords
    /\ Nothing \notin IntentRecords

\* Type invariant of the storefront's tables and requests.
TypeOK ==
    /\ price \in [Skus -> Prices \cup {SeedPrice}]
    /\ version \in 1..MaxVersion /\ faults \in 0..MaxFaults
    /\ mandate \in [Mandates -> MandateRecords \cup {Nothing}]
    /\ purchase \in SUBSET PurchaseRecords
    /\ addon \in [AddonSkus -> AddonRecords]
    /\ req \in [Requests -> RequestRecords]

(***************************************************************************)
(* Whatever is admitted is admitted near the price that is live at that    *)
(* moment: within the mandate's max_price_delta_bps (rounded down, so less *)
(* than one basis point above it), although create_quote reads the price   *)
(* and the version apart, the merchant reads them apart again, and neither *)
(* the decision nor the gate holds a lock on the catalog.                  *)
(***************************************************************************)
AdmittedAtLivePrice ==
    [][\A q \in Requests : At(q, "gate") /\ At(q, "order")' =>
        LET i == req[q].intent IN
        Distance(price[Sku(q)] * i.nights, i.total) * 10000
            < (M(q).max_price_delta_bps + 1) * i.total]_vars

(***************************************************************************)
(* What a mandate's purchases hold never exceeds its cap, and none exceeds *)
(* its unit cap, for any number of sessions that propose under it with a   *)
(* committed total read before the others reserved.                        *)
(***************************************************************************)
WithinMandate ==
    \A m \in Mandates : mandate[m] # Nothing =>
        /\ committed_total(m) <= mandate[m].max_total
        /\ \A p \in purchase : p.mandate = m /\ p.status \in Holding =>
               p.intent.unit <= mandate[m].max_unit

(***************************************************************************)
(* However many clicks, tabs, retries and crashes: an add-on is paid for   *)
(* at most once per booking ("makes a concurrent duplicate attempt fail    *)
(* closed before any mandate is even built").                              *)
(***************************************************************************)
AddonBoughtOnce ==
    \A s \in AddonSkus :
        Cardinality({a \in Addons : SkuOf[a] = s /\ mandate[a] # Nothing}) <= 1

(***************************************************************************)
(* The row an add-on leaves is true: settled only if its order completed,  *)
(* declined only if no mandate was ever minted for it, pending only while  *)
(* a request will still resolve it or after that request ended without an  *)
(* answer, its process dead or an error of the provider raised through     *)
(* purchase_upsell (nothing sweeps the row it leaves): whatever the buyer  *)
(* is told, the row says too.  And the state is well typed.                *)
(***************************************************************************)
AddonRowIsTrue ==
    /\ TypeOK
    /\ \A s \in AddonSkus :
        /\ addon[s].status = "pending" =>
               req[addon[s].owner].pc \notin {"idle", "claim", "done"}
        /\ addon[s].status = "settled" =>
               \E p \in purchase : p.mandate = addon[s].owner /\ p.status = "COMPLETED"
        /\ addon[s].status = "declined" =>
               \A a \in Addons : SkuOf[a] = s => mandate[a] = Nothing

(***************************************************************************)
(* A buyer who pages through the catalog while prices change sees every    *)
(* item whose price stayed, and sees it once; and sees only items.         *)
(***************************************************************************)
PagesShowUntouchedOnce ==
    walk # NoWalk => Range(walk.got) \subseteq Skus /\ \A s \in Skus \ walk.touched :
        LET seen == Cardinality({i \in DOMAIN walk.got : walk.got[i] = s}) IN
        seen <= 1 /\ (~walk.more => seen = 1)

-----------------------------------------------------------------------------
(* Why they hold: the inductive invariant behind the theorems of           *)
(* StorefrontProofs.                                                       *)

Quoted == {"hash", "propose", "evaluate", "gate", "order", "accepted"}
Proposed == {"propose", "evaluate", "gate", "order", "accepted"}
Minted == Quoted \cup {"paid", "failed"}

\* The intent is made of the terms of the quote.
IsOfQuote(i, quote) ==
    /\ i.unit = quote.unit /\ i.nights = quote.nights /\ i.version = quote.version
    /\ i.total = quote.unit * quote.nights

\* What a proposal has read is good as long as the catalog has the quote's
\* version: no price changes without it.
TermsAreLive(q, x) ==
    /\ x.pc \in {"pin", "claim"} => x.seen > 0
    /\ x.pc = "claim" => _pricing_multiplier(Item[Sku(q)].category) > 0
    /\ x.pc \in Quoted =>
        /\ x.quote # Nothing /\ x.quote.version <= version
        /\ x.quote.unit > 0 /\ x.quote.nights > 0
    /\ x.pc \in Proposed => x.intent # Nothing /\ IsOfQuote(x.intent, x.quote)
    /\ x.pc = "evaluate" => (x.quote.version = version => x.seen = price[Sku(q)])
    /\ x.pc = "gate" =>
        (x.quote.version = version => x.intent.current = price[Sku(q)] * x.intent.nights)

\* What was decided stays so: the mandate's bounds do not change.
IsAllowed(q, x) ==
    /\ x.pc \in Minted \cup {"pin", "requote"} => M(q) # Nothing
    /\ x.pc \in {"gate", "order", "accepted"} => x.intent.unit <= M(q).max_unit
    /\ x.pc = "gate" => delta_bps(x.intent) <= M(q).max_price_delta_bps

HasCompleted(m) == \E p \in purchase : p.mandate = m /\ p.status = "COMPLETED"

\* A request past the gate has its row; past the claim, an add-on's is its own.
HasRows(q, x) ==
    /\ x.pc = "accepted" =>
        \E p \in purchase : p.mandate = MandateOf[q] /\ p.intent = x.intent
    /\ q \in Addons /\ x.pc \in Minted => addon[Sku(q)] = [status |-> "pending", owner |-> q]
    /\ q \in Addons /\ x.pc = "paid" => HasCompleted(q)

RequestOK(q, x) == TermsAreLive(q, x) /\ IsAllowed(q, x) /\ HasRows(q, x)

\* Sagas: one for a key, and only of mandates there are.
PurchasesAreKeyed ==
    /\ IsFiniteSet(purchase)
    /\ \A p \in purchase : mandate[p.mandate] # Nothing
    /\ \A p, o \in purchase : p.mandate = o.mandate /\ p.intent = o.intent => p = o

\* A call that creates the order holds its key's claim, whatever the others
\* that found it in flight have written.
HoldsClaim(q, x) ==
    x.pc = "order" => \E p \in purchase :
        /\ p.mandate = MandateOf[q] /\ p.intent = x.intent
        /\ p.status \in Claimed /\ p.by = q
ClaimsHeld == \A q \in Requests : HoldsClaim(q, req[q])

\* An add-on's row is whose mandate was minted.
AddonRowOK(s) ==
    /\ addon[s].status \in {"none", "offered", "declined"} =>
           \A a \in Addons : SkuOf[a] = s => mandate[a] = Nothing
    /\ addon[s].status \in {"pending", "settled", "failed"} =>
           /\ addon[s].owner \in Addons /\ SkuOf[addon[s].owner] = s
           /\ \A a \in Addons : SkuOf[a] = s /\ mandate[a] # Nothing => a = addon[s].owner
    /\ addon[s].status = "pending" => req[addon[s].owner].pc \in Minted \cup {"aborted"}
    /\ addon[s].status = "settled" => HasCompleted(addon[s].owner)

IndInv ==
    /\ TypeOK
    /\ PurchasesAreKeyed
    /\ WithinMandate
    /\ \A s \in AddonSkus : AddonRowOK(s)
    /\ \A q \in Requests : RequestOK(q, req[q])
    /\ ClaimsHeld

\* An item the walk has shown, and no more than once.
ShownOnce(s) ==
    \E i \in DOMAIN walk.got : walk.got[i] = s /\ \A j \in DOMAIN walk.got : walk.got[j] = s => j = i

\* Of the items whose price stayed, the walk has shown those up to its cursor.
WalkOK ==
    /\ walk \in [cursor : Nat \X Nat, got : Seq(Skus), touched : SUBSET Skus, more : BOOLEAN]
    /\ walk.more => \A s \in Skus \ walk.touched :
           IF After(Position(s), walk.cursor)
           THEN \A i \in DOMAIN walk.got : walk.got[i] # s
           ELSE ShownOnce(s)
    /\ ~walk.more /\ walk # NoWalk => \A s \in Skus \ walk.touched : ShownOnce(s)
=============================================================================
