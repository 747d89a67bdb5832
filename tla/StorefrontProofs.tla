-------------------------- MODULE StorefrontProofs --------------------------
(***************************************************************************)
(* The storefront's purchases stay within their mandates and near the live *)
(* price, and an add-on is bought once, for any catalog, prices, buyers,   *)
(* add-ons and mandates.                                                   *)
(*                                                                         *)
(* The argument: what a request knows (RequestOK) depends on the tables in *)
(* ways no other step undoes (RequestStays): a mandate's bounds do not     *)
(* change, a price changes only with the version, a saga's row is replaced *)
(* but never lost, and an add-on's pending row is its claimant's.          *)
(***************************************************************************)
EXTENDS Storefront, FiniteSetTheorems, TLAPS

-----------------------------------------------------------------------------
(* Sums of the totals of purchases.                                        *)

Total(S) == MapThenSumSet(LAMBDA p : p.intent.total, S)

\* Finitely many purchases with totals.
CanAddUp(U) == IsFiniteSet(U) /\ \A p \in U : p.intent.total \in Nat

\* Among sets of them there is one that contains no other of them.
LEMMA SmallestIn ==
    ASSUME NEW U, IsFiniteSet(U), NEW Bad, Bad \subseteq SUBSET U, Bad # {}
    PROVE  \E s \in Bad : \A u \in Bad : u \subseteq s => u = s
<1> DEFINE R == StrictSubsetOrdering(U)
<1>1. IsWellFoundedOn(R, SUBSET U)
    BY FS_FiniteSubsetsOfFinite, FS_StrictSubsetOrderingWellFounded
<1>2. \A u, s \in SUBSET U : u \subseteq s /\ u # s => <<u, s>> \in R
    BY DEF StrictSubsetOrdering
<1> HIDE DEF R
<1>3. PICK s \in Bad : \A u \in Bad : ~ (<<u, s>> \in R)
    BY <1>1, WFMin
<1> QED
    BY <1>2, <1>3

\* And among sets of purchases.
LEMMA Smallest ==
    ASSUME NEW U, CanAddUp(U), NEW Bad, Bad \subseteq SUBSET U, Bad # {}
    PROVE  \E s \in Bad : \A u \in Bad : u \subseteq s => u = s
BY SmallestIn DEF CanAddUp

\* The sums of the subsets of S, as the fold computes them.
Pick(s) == CHOOSE x \in s : TRUE
SumOf(f, s) == IF s = {} THEN 0 ELSE Pick(s).intent.total + f[s \ {Pick(s)}]
IsSum(f, S) == f = [s \in SUBSET S |-> SumOf(f, s)]

\* What Total is, by the definition of the fold.
LEMMA TotalIs ==
    ASSUME NEW S
    PROVE  Total(S) = (CHOOSE f : IsSum(f, S))[S]
BY Zenon DEF Total, MapThenSumSet, MapThenFoldSet, IsSum, SumOf, Pick

\* A set that is not empty holds what is picked from it.
LEMMA PickIn ==
    ASSUME NEW s, s # {}
    PROVE  Pick(s) \in s
BY DEF Pick

\* Sums of the subsets of S include the total of each.
LEMMA TotalFromSum ==
    ASSUME NEW U, CanAddUp(U), NEW S, S \subseteq U, NEW g, IsSum(g, S)
    PROVE  \A s \in SUBSET S : Total(s) = g[s]
<1> SUFFICES ASSUME NEW s \in SUBSET S PROVE Total(s) = g[s]
    OBVIOUS
<1>1. \A u \in SUBSET S : g[u] = SumOf(g, u)
    BY DEF IsSum
<1>2. PICK k : k = [u \in SUBSET s |-> g[u]]
    OBVIOUS
<1>3. IsSum(k, s)
    <2>1. ASSUME NEW u \in SUBSET s PROVE k[u] = SumOf(k, u)
        <3>1. CASE u = {}
            BY <1>1, <1>2, <3>1 DEF SumOf
        <3>2. CASE u # {}
            <4>1. u \ {Pick(u)} \in SUBSET s
                OBVIOUS
            <4> QED
                BY <1>1, <1>2, <3>2, <4>1 DEF SumOf
        <3> QED
            BY <3>1, <3>2
    <2> QED
        BY <1>2, <2>1 DEF IsSum
<1>4. PICK h : h = CHOOSE f : IsSum(f, s)
    OBVIOUS
<1>5. IsSum(h, s)
    BY <1>3, <1>4, Zenon
<1>6. \A u \in SUBSET s : h[u] = SumOf(h, u)
    BY <1>5 DEF IsSum
<1> DEFINE Bad == {u \in SUBSET s : h[u] # g[u]}
<1>7. Bad = {}
    <2> SUFFICES ASSUME Bad # {} PROVE FALSE
        OBVIOUS
    <2>1. PICK u \in Bad : \A v \in Bad : v \subseteq u => v = u
        <3>1. Bad \subseteq SUBSET U
            OBVIOUS
        <3> HIDE DEF Bad
        <3> QED
            BY <3>1, Smallest
    <2>2. u \in SUBSET s /\ u \in SUBSET S /\ h[u] # g[u]
        OBVIOUS
    <2>3. CASE u = {}
        BY <1>1, <1>6, <2>2, <2>3 DEF SumOf
    <2>4. CASE u # {}
        <3>1. PICK v : v = u \ {Pick(u)}
            OBVIOUS
        <3>2. v \subseteq u /\ v # u /\ v \in SUBSET s
            BY <2>2, <2>4, <3>1, PickIn
        <3>3. h[v] = g[v]
            BY <2>1, <3>2
        <3>4. h[u] = Pick(u).intent.total + h[v] /\ g[u] = Pick(u).intent.total + g[v]
            BY <1>1, <1>6, <2>2, <2>4, <3>1 DEF SumOf
        <3> QED
            BY <2>2, <3>3, <3>4
    <2> QED
        BY <2>3, <2>4
<1>8. h[s] = g[s]
    BY <1>7
<1> QED
    BY <1>4, <1>8, TotalIs

Adds(g, S, U) == CanAddUp(U) /\ S \subseteq U /\ IsSum(g, S)

\* The same, with its hypotheses as one.
LEMMA AddsUp ==
    ASSUME NEW U, NEW S, NEW g, Adds(g, S, U)
    PROVE  \A s \in SUBSET S : Total(s) = g[s]
BY TotalFromSum DEF Adds

\* There are sums of the subsets of such a set.
LEMMA SumExists ==
    ASSUME NEW U, CanAddUp(U), NEW S, S \subseteq U
    PROVE  \E f : IsSum(f, S)
<1> DEFINE Bad == {u \in SUBSET U : ~ \E f : IsSum(f, u)}
<1> SUFFICES ASSUME Bad # {} PROVE FALSE
    OBVIOUS
<1>1. PICK s \in Bad : \A u \in Bad : u \subseteq s => u = s
    <2>1. Bad \subseteq SUBSET U
        OBVIOUS
    <2> HIDE DEF Bad
    <2> QED
        BY <2>1, Smallest
<1>2. s \subseteq U /\ ~ \E f : IsSum(f, s)
    BY <1>1
<1>3. ASSUME NEW u, u \subseteq s, u # s PROVE \E f : IsSum(f, u)
    <2>1. u \notin Bad /\ u \in SUBSET U
        <3> HIDE DEF Bad
        <3> QED
            BY <1>1, <1>2, <1>3
    <2> QED
        BY <2>1
<1>4. PICK k : k = [u \in SUBSET s |-> IF u = s /\ s # {} THEN Pick(s).intent.total + Total(s \ {Pick(s)})
                                      ELSE IF u = {} THEN 0 ELSE Total(u)]
    OBVIOUS
<1>5. ASSUME NEW u \in SUBSET s, u # s, s # {} PROVE k[u] = Total(u) /\ Total({}) = 0
    <2>1. PICK g : IsSum(g, {})
        BY <1>3, <1>5
    <2>2. g[{}] = 0
        BY <2>1 DEF IsSum, SumOf
    <2>3. Total({}) = 0
        BY <2>1, <2>2, TotalFromSum
    <2> QED
        BY <1>4, <1>5, <2>3
<1>6. ASSUME NEW u \in SUBSET s PROVE k[u] = SumOf(k, u)
    <2>1. CASE u = {}
        BY <1>4, <2>1 DEF SumOf
    <2>2. CASE u # {} /\ u = s
        <3>1. s \ {Pick(s)} \in SUBSET s /\ s \ {Pick(s)} # s
            BY <2>2, PickIn
        <3>2. k[s \ {Pick(s)}] = Total(s \ {Pick(s)})
            BY <1>5, <2>2, <3>1
        <3> QED
            BY <1>4, <2>2, <3>2 DEF SumOf
    <2>3. CASE u # {} /\ u # s
        <3>1. PICK g : IsSum(g, u)
            BY <1>3, <2>3
        <3>2. PICK v : v = u \ {Pick(u)}
            OBVIOUS
        <3>3. v \subseteq u /\ v \in SUBSET s /\ v # s /\ s # {}
            BY <2>3, <3>2
        <3>4. u \subseteq U
            BY <1>2
        <3>5. \A x \in SUBSET u : Total(x) = g[x]
            <4>1. Adds(g, u, U)
                BY <3>1, <3>4 DEF Adds
            <4> QED
                BY <4>1, AddsUp
        <3>6. Total(u) = g[u] /\ Total(v) = g[v]
            BY <3>3, <3>5
        <3>7. g[u] = Pick(u).intent.total + g[v]
            BY <2>3, <3>1, <3>2 DEF IsSum, SumOf
        <3>8. k[u] = Total(u) /\ k[v] = Total(v)
            BY <1>5, <2>3, <3>3
        <3> QED
            BY <2>3, <3>2, <3>6, <3>7, <3>8 DEF SumOf
    <2> QED
        BY <2>1, <2>2, <2>3
<1>7. IsSum(k, s)
    BY <1>4, <1>6 DEF IsSum
<1> QED
    BY <1>2, <1>7

\* What Total is, set by set.
LEMMA TotalStep ==
    ASSUME NEW U, CanAddUp(U), NEW s, s \subseteq U
    PROVE  /\ s = {} => Total(s) = 0
           /\ s # {} => Total(s) = Pick(s).intent.total + Total(s \ {Pick(s)})
<1>1. PICK g : IsSum(g, s)
    BY SumExists
<1>2. PICK v : v = s \ {Pick(s)}
    OBVIOUS
<1>3. Total(s) = g[s] /\ Total(v) = g[v]
    BY <1>1, <1>2, TotalFromSum
<1>4. g[s] = SumOf(g, s)
    BY <1>1 DEF IsSum
<1> QED
    BY <1>2, <1>3, <1>4 DEF SumOf

\* A total is a natural number.
LEMMA TotalNat ==
    ASSUME NEW U, CanAddUp(U), NEW s, s \subseteq U
    PROVE  Total(s) \in Nat
<1> DEFINE Bad == {u \in SUBSET U : Total(u) \notin Nat}
<1> SUFFICES ASSUME Bad # {} PROVE FALSE
    OBVIOUS
<1>1. PICK u \in Bad : \A v \in Bad : v \subseteq u => v = u
    <2>1. Bad \subseteq SUBSET U
        OBVIOUS
    <2> HIDE DEF Bad
    <2> QED
        BY <2>1, Smallest
<1>2. u \subseteq U /\ Total(u) \notin Nat
    BY <1>1
<1>3. u # {}
    <2>1. u = {} => Total(u) = 0
        BY <1>2, TotalStep
    <2> HIDE DEF Bad
    <2> QED
        BY <1>2, <2>1
<1>4. PICK v : v = u \ {Pick(u)}
    OBVIOUS
<1>5. v \subseteq u /\ v # u /\ Pick(u) \in U
    BY <1>2, <1>3, <1>4, PickIn
<1>6. Total(v) \in Nat
    <2>1. v \notin Bad
        <3> HIDE DEF Bad
        <3> QED
            BY <1>1, <1>5
    <2> QED
        BY <1>2, <1>5, <2>1
<1>7. Total(u) = Pick(u).intent.total + Total(v)
    BY <1>2, <1>3, <1>4, TotalStep
<1> QED
    BY <1>2, <1>5, <1>6, <1>7 DEF CanAddUp

\* One purchase more, whichever the fold picks first.
LEMMA TotalAdd ==
    ASSUME NEW U, CanAddUp(U), NEW s, s \subseteq U, NEW r \in U, r \notin s
    PROVE  Total(s \cup {r}) = Total(s) + r.intent.total
<1> DEFINE Bad == {u \in SUBSET U : \E x \in U \ u : Total(u \cup {x}) # Total(u) + x.intent.total}
<1> SUFFICES ASSUME Bad # {} PROVE FALSE
    OBVIOUS
<1>1. PICK u \in Bad : \A v \in Bad : v \subseteq u => v = u
    <2>1. Bad \subseteq SUBSET U
        OBVIOUS
    <2> HIDE DEF Bad
    <2> QED
        BY <2>1, Smallest
<1>2. PICK x \in U \ u : Total(u \cup {x}) # Total(u) + x.intent.total
    BY <1>1
<1>3. u \subseteq U
    BY <1>1
<1>4. PICK w : w = u \cup {x}
    OBVIOUS
<1>5. PICK c : c = Pick(w)
    OBVIOUS
<1>6. w \subseteq U /\ w # {} /\ c \in w /\ c \in U
    BY <1>2, <1>3, <1>4, <1>5, PickIn
<1>7. Total(w) = c.intent.total + Total(w \ {c})
    BY <1>5, <1>6, TotalStep
<1>8. x.intent.total \in Nat /\ c.intent.total \in Nat /\ Total(u) \in Nat
    BY <1>2, <1>3, <1>6, TotalNat DEF CanAddUp
<1>9. CASE c = x
    <2>1. w \ {c} = u
        BY <1>2, <1>4, <1>9
    <2>2. Total(w) = x.intent.total + Total(u)
        BY <1>7, <1>9, <2>1
    <2> HIDE DEF Bad
    <2> QED
        BY <1>2, <1>4, <1>8, <2>2
<1>10. CASE c # x
    <2>1. PICK v : v = u \ {c}
        OBVIOUS
    <2>2. c \in u /\ v \subseteq u /\ v # u /\ v \subseteq U /\ x \notin v /\ c \notin v
        BY <1>2, <1>3, <1>4, <1>6, <1>10, <2>1
    <2>3. v \notin Bad
        <3> HIDE DEF Bad
        <3> QED
            BY <1>1, <2>2
    <2>4. Total(v \cup {x}) = Total(v) + x.intent.total /\ Total(v \cup {c}) = Total(v) + c.intent.total
        BY <1>2, <1>6, <2>2, <2>3
    <2>5. v \cup {x} = w \ {c} /\ v \cup {c} = u
        BY <1>2, <1>4, <1>10, <2>1, <2>2
    <2>6. Total(v) \in Nat
        BY <2>2, TotalNat
    <2>7. PICK tx, tc, tv : tx = x.intent.total /\ tc = c.intent.total /\ tv = Total(v)
        OBVIOUS
    <2>8. tx \in Nat /\ tc \in Nat /\ tv \in Nat
        BY <1>8, <2>6, <2>7
    <2>9. Total(w) = tc + (tv + tx)
        BY <1>7, <2>4, <2>5, <2>7
    <2>10. Total(u) = tv + tc
        BY <2>4, <2>5, <2>7
    <2>11. Total(w) # Total(u) + tx
        BY <1>2, <1>4, <2>7
    <2> HIDE DEF Bad
    <2> QED
        BY <2>8, <2>9, <2>10, <2>11
<1> QED
    BY <1>9, <1>10

-----------------------------------------------------------------------------
(* What other steps leave of what a request knows.                         *)

\* No price changes without the version.
CatalogKept ==
    \/ version' = version /\ price' = price
    \/ version' = version + 1

\* A mandate stays, with its bounds.
SameBounds(m, n) ==
    /\ n # Nothing
    /\ n.max_unit = m.max_unit /\ n.max_total = m.max_total
    /\ n.max_price_delta_bps = m.max_price_delta_bps
MandatesKept == \A m \in Mandates : mandate[m] # Nothing => SameBounds(mandate[m], mandate'[m])

\* Purchases stay, and what completed stays completed.
PurchasesKept ==
    \A p \in purchase : \E o \in purchase' :
        /\ o.mandate = p.mandate /\ o.intent = p.intent
        /\ p.status = "COMPLETED" => o.status = "COMPLETED"

RowKept(u) ==
    u \in Addons /\ addon[Sku(u)] = [status |-> "pending", owner |-> u]
        => addon'[Sku(u)] = addon[Sku(u)]

TablesKept == CatalogKept /\ MandatesKept /\ PurchasesKept

\* The mandates of requests.
LEMMA OwnMandate ==
    ASSUME NEW q \in Requests
    PROVE  /\ MandateOf[q] \in Mandates
           /\ q \in Addons => MandateOf[q] = q /\ Sku(q) \in AddonSkus
           /\ Sku(q) \in Skus
BY StorefrontConstants DEF Requests, Mandates, Sku, AddonSkus

\* What has completed stays so.
LEMMA CompletedStays ==
    ASSUME PurchasesKept, NEW m, HasCompleted(m)
    PROVE  HasCompleted(m)'
BY DEF PurchasesKept, HasCompleted

\* What a request knows stays true.
LEMMA RequestStays ==
    ASSUME TypeOK, TablesKept, NEW u \in Requests, NEW y \in RequestRecords, RowKept(u),
           RequestOK(u, y)
    PROVE  RequestOK(u, y)'
<1>1. TermsAreLive(u, y)'
    <2>1. version \in Nat /\ (y.quote # Nothing => y.quote.version \in Nat)
        BY DEF TypeOK, RequestRecords, QuoteRecords
    <2>2. CASE version' = version /\ price' = price
        BY <2>2 DEF RequestOK, TermsAreLive
    <2>3. CASE version' = version + 1
        <3>1. TermsAreLive(u, y)
            BY DEF RequestOK
        <3>2. y.pc \in Quoted => y.quote # Nothing /\ y.quote.version <= version' /\ y.quote.version # version'
            BY <2>1, <2>3, <3>1 DEF TermsAreLive
        <3>3. y.pc = "evaluate" \/ y.pc = "gate" => y.pc \in Quoted
            BY DEF Quoted
        <3> QED
            BY <3>1, <3>2, <3>3 DEF TermsAreLive
    <2> QED
        BY <2>2, <2>3 DEF TablesKept, CatalogKept
<1>2. IsAllowed(u, y)'
    <2>1. M(u) # Nothing => SameBounds(M(u), M(u)')
        BY OwnMandate DEF TablesKept, MandatesKept, M
    <2>2. y.pc \in {"gate", "order", "accepted"} => M(u) # Nothing
        BY DEF RequestOK, IsAllowed, Minted, Quoted
    <2> QED
        BY <2>1, <2>2 DEF RequestOK, IsAllowed, SameBounds
<1>3. HasRows(u, y)'
    <2>1. u \in Addons /\ y.pc = "paid" => HasCompleted(u)'
        BY CompletedStays DEF RequestOK, HasRows, TablesKept
    <2>2. u \in Addons /\ y.pc \in Minted => (addon[Sku(u)] = [status |-> "pending", owner |-> u])'
        BY DEF RequestOK, HasRows, RowKept
    <2>3. y.pc = "accepted" =>
              \E p \in purchase' : p.mandate = MandateOf[u] /\ p.intent = y.intent
        BY DEF RequestOK, HasRows, TablesKept, PurchasesKept
    <2> QED
        BY <2>1, <2>2, <2>3 DEF HasRows
<1> QED
    BY <1>1, <1>2, <1>3 DEF RequestOK

\* What a mandate holds.
Held(m) == {p \in purchase : p.mandate = m /\ p.status \in Holding}

\* The ledger's sum is their total.
LEMMA CommittedIsTotal ==
    ASSUME NEW m
    PROVE  committed_total(m) = Total(Held(m))
BY Zenon DEF committed_total, Total, Held

\* The same, after a step.
LEMMA CommittedIsTotalNext ==
    ASSUME NEW m, NEW h, h = Held(m)'
    PROVE  committed_total(m)' = Total(h)
<1>1. committed_total(m)' = Total(Held(m)')
    BY Zenon DEF committed_total, Total, Held, MapThenSumSet, MapThenFoldSet
<1> QED
    BY <1>1

\* Purchases can be added up.
LEMMA PurchasesAddUp ==
    ASSUME IndInv
    PROVE  CanAddUp(purchase)
BY DEF IndInv, TypeOK, PurchasesAreKeyed, PurchaseRecords, IntentRecords, CanAddUp

\* Steps that leave the purchases alone leave every mandate within its caps.
LEMMA WithinStays ==
    ASSUME IndInv, TypeOK', purchase' = purchase, MandatesKept
    PROVE  PurchasesAreKeyed' /\ WithinMandate'
<1>1. PurchasesAreKeyed'
    BY DEF IndInv, TypeOK, PurchaseRecords, PurchasesAreKeyed, MandatesKept, SameBounds
<1>2. ASSUME NEW m \in Mandates, mandate'[m] # Nothing
      PROVE  /\ committed_total(m)' <= mandate'[m].max_total
             /\ \A p \in purchase' : p.mandate = m /\ p.status \in Holding =>
                    p.intent.unit <= mandate'[m].max_unit
    <2>1. PICK h : h = Held(m)
        OBVIOUS
    <2>2. committed_total(m) = Total(h) /\ committed_total(m)' = Total(h)
        BY <2>1, CommittedIsTotal, CommittedIsTotalNext DEF Held
    <2>3. CASE mandate[m] # Nothing
        BY <2>2, <2>3 DEF IndInv, WithinMandate, MandatesKept, SameBounds
    <2>4. CASE mandate[m] = Nothing
        <3>1. h = {} /\ \A p \in purchase : p.mandate # m
            BY <2>1, <2>4 DEF Held, IndInv, PurchasesAreKeyed
        <3>2. Total(h) = 0
            BY <3>1, PurchasesAddUp, TotalStep
        <3>3. mandate'[m].max_total \in Nat
            BY <1>2 DEF TypeOK, MandateRecords
        <3> QED
            BY <2>2, <3>1, <3>2, <3>3
    <2> QED
        BY <2>3, <2>4
<1> QED
    BY <1>1, <1>2 DEF WithinMandate

-----------------------------------------------------------------------------
(* Steps of one request.                                                   *)

\* The add-on's row is still going to be resolved, or its request was cut short.
Unresolved == Minted \cup {"aborted"}

\* Request q becomes z.
Becomes(q, z) == req' = [req EXCEPT ![q] = z]
Stands(q, z) ==
    /\ z \in RequestRecords /\ Becomes(q, z)
    /\ q \in Addons /\ req[q].pc \in Unresolved => z.pc \in Unresolved
    /\ HoldsClaim(q, z)'

\* A request's record.
LEMMA RequestType ==
    ASSUME TypeOK, NEW q \in Requests
    PROVE  /\ req[q] \in RequestRecords
           /\ req[q] = [pc |-> req[q].pc, seen |-> req[q].seen, quote |-> req[q].quote,
                        intent |-> req[q].intent, requoted |-> req[q].requoted]
BY DEF TypeOK, RequestRecords

\* What Goto leaves.
LEMMA GotoBecomes ==
    ASSUME TypeOK, NEW q \in Requests, NEW pc \in Places, Goto(q, pc)
    PROVE  \E z \in RequestRecords :
               /\ Becomes(q, z) /\ z.pc = pc /\ z.seen = req[q].seen
               /\ z.quote = req[q].quote /\ z.intent = req[q].intent
<1>1. PICK z : z = [req[q] EXCEPT !.pc = pc]
    OBVIOUS
<1>2. z \in RequestRecords /\ z.pc = pc /\ z.seen = req[q].seen
      /\ z.quote = req[q].quote /\ z.intent = req[q].intent
    BY <1>1, RequestType DEF RequestRecords
<1> QED
    BY <1>1, <1>2 DEF Goto, Becomes

\* What Saw leaves.
LEMMA SawBecomes ==
    ASSUME TypeOK, NEW q \in Requests, NEW pc \in Places, NEW v \in Nat, Saw(q, pc, v)
    PROVE  \E z \in RequestRecords :
               /\ Becomes(q, z) /\ z.pc = pc /\ z.seen = v
               /\ z.quote = req[q].quote /\ z.intent = req[q].intent
<1>1. PICK z : z = [req[q] EXCEPT !.pc = pc, !.seen = v]
    OBVIOUS
<1>2. z \in RequestRecords /\ z.pc = pc /\ z.seen = v
      /\ z.quote = req[q].quote /\ z.intent = req[q].intent
    BY <1>1, RequestType DEF RequestRecords
<1>3. Becomes(q, z)
    BY <1>1 DEF Saw, Becomes, TypeOK
<1> QED
    BY <1>2, <1>3

\* What an answer, a crash and a re-quote leave.
LEMMA IdleBecomes ==
    ASSUME NEW pc \in Places
    PROVE  /\ \E z \in RequestRecords : z = [Idle EXCEPT !.pc = pc] /\ z.pc = pc
           /\ \E z \in RequestRecords :
                  z = [Idle EXCEPT !.pc = pc, !.requoted = TRUE] /\ z.pc = pc
<1>1. PICK z : z = [Idle EXCEPT !.pc = pc]
    OBVIOUS
<1>2. z \in RequestRecords /\ z.pc = pc
    BY <1>1 DEF Idle, RequestRecords
<1>3. PICK y : y = [Idle EXCEPT !.pc = pc, !.requoted = TRUE]
    OBVIOUS
<1>4. y \in RequestRecords /\ y.pc = pc
    BY <1>3 DEF Idle, RequestRecords
<1> QED
    BY <1>1, <1>2, <1>3, <1>4

\* What a rejection leaves.
LEMMA RejectBecomes ==
    ASSUME TypeOK, NEW q \in Requests, NEW code, Reject(q, code)
    PROVE  \E z \in RequestRecords :
               /\ Becomes(q, z)
               /\ z.pc \in {"failed", "requote", "done"}
               /\ q \in Addons => z.pc = "failed"
<1>1. CASE q \in Addons
    BY <1>1, GotoBecomes DEF Reject, Places
<1>2. CASE q \notin Addons /\ q \in Requoting /\ code = "STALE_PRICE" /\ ~req[q].requoted
    <2>1. PICK z \in RequestRecords :
              z = [Idle EXCEPT !.pc = "requote", !.requoted = TRUE] /\ z.pc = "requote"
        BY IdleBecomes DEF Places
    <2> QED
        BY <1>2, <2>1 DEF Reject, Becomes
<1>3. CASE q \notin Addons /\ ~(q \in Requoting /\ code = "STALE_PRICE" /\ ~req[q].requoted)
    <2>1. PICK z \in RequestRecords :
              z = [Idle EXCEPT !.pc = "done"] /\ z.pc = "done"
        BY IdleBecomes DEF Places
    <2> QED
        BY <1>3, <2>1 DEF Reject, Answer, Becomes
<1> QED
    BY <1>1, <1>2, <1>3

\* A rejected request has its mandate still, and an add-on its row.
LEMMA RejectedOK ==
    ASSUME IndInv, NEW q \in Requests, req[q].pc \in Quoted, MandatesKept, addon' = addon,
           NEW z, z.pc \in {"failed", "requote", "done"}
    PROVE  RequestOK(q, z)'
<1>1. M(q) # Nothing /\ (q \in Addons => addon[Sku(q)] = [status |-> "pending", owner |-> q])
    BY DEF IndInv, RequestOK, IsAllowed, HasRows, Minted
<1>2. M(q)' # Nothing
    BY <1>1, OwnMandate DEF M, MandatesKept, SameBounds
<1> QED
    BY <1>1, <1>2 DEF RequestOK, TermsAreLive, IsAllowed, HasRows, Quoted, Proposed, Minted

\* Add-ons whose mandate is not minted yet.
NoneMinted == \A a \in Addons : mandate[a] = Nothing => mandate'[a] = Nothing

\* The claims held stay held while no saga changes.
LEMMA ClaimsStay ==
    ASSUME IndInv, purchase' = purchase, NEW q \in Requests, NEW z, Becomes(q, z),
           HoldsClaim(q, z)'
    PROVE  ClaimsHeld'
<1>1. ASSUME NEW u \in Requests PROVE HoldsClaim(u, req[u])'
    <2>1. CASE u = q
        <3>1. req'[u] = z
            BY <2>1 DEF Becomes, IndInv, TypeOK
        <3> QED
            BY <2>1, <3>1 DEF HoldsClaim
    <2>2. CASE u # q
        <3>1. req'[u] = req[u] /\ HoldsClaim(u, req[u])
            BY <2>2 DEF Becomes, IndInv, TypeOK, ClaimsHeld
        <3> QED
            BY <3>1 DEF HoldsClaim
    <2> QED
        BY <2>1, <2>2
<1> QED
    BY <1>1 DEF ClaimsHeld

\* So they do when no request moves.
LEMMA ClaimsStand ==
    ASSUME IndInv, purchase' = purchase, req' = req
    PROVE  ClaimsHeld'
BY DEF IndInv, ClaimsHeld, HoldsClaim

\* The step of one request that changes no add-on's row.
LEMMA RequestStep ==
    ASSUME IndInv, TypeOK', TablesKept, NoneMinted, addon' = addon,
           NEW q \in Requests, NEW z, Stands(q, z), RequestOK(q, z)'
    PROVE  /\ (\A s \in AddonSkus : AddonRowOK(s))'
           /\ (\A u \in Requests : RequestOK(u, req[u]))'
<1>1. ASSUME NEW s \in AddonSkus PROVE AddonRowOK(s)'
    <2>1. AddonRowOK(s) /\ addon[s] \in AddonRecords
        BY DEF IndInv, TypeOK
    <2>2. addon[s].status = "pending" => req'[addon[s].owner].pc \in Unresolved
        <3>1. req' = [req EXCEPT ![q] = z] /\ DOMAIN req = Requests
            BY DEF Stands, Becomes, IndInv, TypeOK
        <3>2. addon[s].status = "pending" =>
                  addon[s].owner \in Addons /\ req[addon[s].owner].pc \in Unresolved
            BY <2>1 DEF AddonRowOK, Unresolved
        <3>3. Addons \subseteq Requests
            BY DEF Requests
        <3> QED
            BY <3>1, <3>2, <3>3 DEF Stands
    <2>3. addon[s].status = "settled" => HasCompleted(addon[s].owner)'
        <3>1. PICK o : o = addon[s].owner
            OBVIOUS
        <3>2. addon[s].status = "settled" => HasCompleted(o)
            BY <2>1, <3>1 DEF AddonRowOK
        <3>3. HasCompleted(o) => HasCompleted(o)'
            BY CompletedStays DEF TablesKept
        <3> QED
            BY <3>1, <3>2, <3>3 DEF HasCompleted
    <2> QED
        BY <2>1, <2>2, <2>3 DEF AddonRowOK, NoneMinted, Unresolved
<1>2. ASSUME NEW u \in Requests PROVE RequestOK(u, req[u])'
    <2>1. CASE u = q
        <3>1. req'[u] = z
            BY <2>1 DEF Stands, Becomes, IndInv, TypeOK
        <3> QED
            BY <2>1, <3>1 DEF RequestOK, TermsAreLive, IsAllowed, HasRows
    <2>2. CASE u # q
        <3>1. PICK y : y = req[u]
            OBVIOUS
        <3>2. req'[u] = y
            BY <2>2, <3>1 DEF Stands, Becomes, IndInv, TypeOK
        <3>3. RequestOK(u, y)'
            BY <3>1, RequestType, RequestStays DEF IndInv, RowKept
        <3> QED
            BY <3>2, <3>3 DEF RequestOK, TermsAreLive, IsAllowed, HasRows
    <2> QED
        BY <2>1, <2>2
<1> QED
    BY <1>1, <1>2

-----------------------------------------------------------------------------
(* Steps that change a request and no table.                               *)

Quiet == price' = price /\ version' = version /\ mandate' = mandate
         /\ purchase' = purchase /\ addon' = addon

\* Tables that do not change are kept.
LEMMA QuietKeeps ==
    ASSUME Quiet
    PROVE  TablesKept /\ NoneMinted /\ \A u : RowKept(u)
<1>1. PurchasesKept
    BY DEF Quiet, PurchasesKept
<1>2. CatalogKept /\ MandatesKept /\ NoneMinted /\ \A u : RowKept(u)
    BY DEF Quiet, CatalogKept, MandatesKept, SameBounds, NoneMinted, RowKept
<1> QED
    BY <1>1, <1>2 DEF TablesKept

\* A request becomes one that knows what is true then.
LEMMA QuietNext ==
    ASSUME IndInv, Quiet, faults' \in 0..MaxFaults, NEW q \in Requests, NEW z, Stands(q, z),
           RequestOK(q, z)'
    PROVE  IndInv'
<1>1. TypeOK'
    <2>1. req' \in [Requests -> RequestRecords]
        BY DEF Stands, Becomes, IndInv, TypeOK
    <2> QED
        BY <2>1 DEF IndInv, TypeOK, Quiet
<1>2. PurchasesAreKeyed' /\ WithinMandate'
    BY <1>1, QuietKeeps, WithinStays DEF Quiet, TablesKept
<1>3. (\A s \in AddonSkus : AddonRowOK(s))' /\ (\A u \in Requests : RequestOK(u, req[u]))'
    BY <1>1, QuietKeeps, RequestStep DEF Quiet
<1>4. ClaimsHeld'
    BY ClaimsStay DEF Quiet, Stands
<1> QED
    BY <1>1, <1>2, <1>3, <1>4 DEF IndInv

\* The same for what is true already.
LEMMA QuietNow ==
    ASSUME IndInv, Quiet, faults' = faults, NEW q \in Requests, NEW z, Stands(q, z),
           RequestOK(q, z)
    PROVE  IndInv'
<1>1. RequestOK(q, z)'
    BY QuietKeeps, RequestStays DEF IndInv, Stands
<1> QED
    BY <1>1, QuietNext DEF IndInv, TypeOK

\* A rejection.
LEMMA QuietReject ==
    ASSUME IndInv, Quiet, faults' = faults, NEW q \in Requests, req[q].pc \in Quoted, NEW code,
           Reject(q, code)
    PROVE  IndInv'
<1>1. PICK z \in RequestRecords :
          /\ Becomes(q, z) /\ z.pc \in {"failed", "requote", "done"}
          /\ q \in Addons => z.pc = "failed"
    BY RejectBecomes DEF IndInv
<1>2. Stands(q, z)
    BY <1>1 DEF Stands, Unresolved, Minted, HoldsClaim
<1>3. RequestOK(q, z)'
    BY <1>1, QuietKeeps, RejectedOK DEF Quiet, TablesKept
<1> QED
    BY <1>2, <1>3, QuietNext DEF IndInv, TypeOK

\* An answer, of a request whose add-on's row is resolved or not its own.
LEMMA QuietAnswer ==
    ASSUME IndInv, Quiet, faults' = faults, NEW q \in Requests, NEW code, Answer(q, code),
           q \in Buyers \/ req[q].pc \notin Unresolved
    PROVE  IndInv'
<1>1. PICK z \in RequestRecords : z = [Idle EXCEPT !.pc = "done"] /\ z.pc = "done"
    BY IdleBecomes DEF Places
<1>2. Stands(q, z)
    BY <1>1, StorefrontConstants DEF Stands, Answer, Becomes, HoldsClaim
<1>3. RequestOK(q, z)
    BY <1>1 DEF RequestOK, TermsAreLive, IsAllowed, HasRows, Quoted, Proposed, Minted
<1> QED
    BY <1>2, <1>3, QuietNow

\* What a request's pc says it knows.
LEMMA Knows ==
    ASSUME IndInv, NEW q \in Requests
    PROVE  /\ RequestOK(q, req[q]) /\ req[q] \in RequestRecords
           /\ price[Sku(q)] \in Nat /\ price[Sku(q)] > 0
           /\ version \in Nat
           /\ M(q) # Nothing => M(q) \in MandateRecords
           /\ Item[Sku(q)] \in [category : STRING, merchant : STRING, refundable : BOOLEAN,
                                stock : Nat, rank : Nat]
<1>1. price[Sku(q)] \in Prices \cup {SeedPrice}
    BY OwnMandate DEF IndInv, TypeOK
<1>2. price[Sku(q)] \in Nat /\ price[Sku(q)] > 0
    <2>1. Prices \subseteq Nat \ {0} /\ SeedPrice \in Nat \ {0}
        BY StorefrontConstants
    <2>2. PICK p : p = price[Sku(q)]
        OBVIOUS
    <2>3. p \in Nat /\ p # 0
        BY <1>1, <2>1, <2>2
    <2> QED
        BY <2>2, <2>3
<1>3. M(q) # Nothing => M(q) \in MandateRecords
    BY OwnMandate DEF IndInv, TypeOK, M
<1>4. Item[Sku(q)] \in [category : STRING, merchant : STRING, refundable : BOOLEAN,
                        stock : Nat, rank : Nat]
    BY OwnMandate, StorefrontConstants
<1> QED
    BY <1>2, <1>3, <1>4, RequestType DEF IndInv, TypeOK

\* create_quote reads the item.
LEMMA QuoteReadStep ==
    ASSUME IndInv, NEW b \in Buyers, QuoteRead(b)
    PROVE  IndInv'
<1>1. b \in Requests /\ b \notin Addons /\ Quiet /\ faults' = faults
    BY StorefrontConstants DEF Requests, Quiet, QuoteRead
<1>2. CASE Answer(b, "STALE_PRICE")
    BY <1>1, <1>2, QuietAnswer
<1>3. CASE Saw(b, "pin", price[Sku(b)])
    <2>1. PICK z \in RequestRecords : Becomes(b, z) /\ z.pc = "pin" /\ z.seen = price[Sku(b)]
        BY <1>1, <1>3, Knows, SawBecomes DEF IndInv, Places
    <2>2. Stands(b, z)
        BY <1>1, <2>1 DEF Stands, HoldsClaim
    <2>3. RequestOK(b, z)
        BY <1>1, <2>1, Knows
           DEF RequestOK, TermsAreLive, IsAllowed, HasRows, Quoted, Proposed, Minted, QuoteRead
    <2> QED
        BY <1>1, <2>2, <2>3, QuietNow
<1> QED
    BY <1>2, <1>3 DEF QuoteRead

\* The quote is of the version read now.
LEMMA QuoteType ==
    ASSUME IndInv, NEW q \in Requests, NEW n \in Nat
    PROVE  /\ Quote(q, n) \in QuoteRecords /\ Quote(q, n) # Nothing
           /\ Quote(q, n).unit = req[q].seen /\ Quote(q, n).nights = n
           /\ Quote(q, n).version = version
<1>1. req[q].seen \in Nat /\ version \in Nat
    BY Knows DEF RequestRecords
<1> QED
    BY <1>1, NothingAssumption DEF Quote, QuoteRecords

\* What a quote leaves.
LEMMA QuoteBecomes ==
    ASSUME TypeOK, NEW q \in Requests, NEW quote \in QuoteRecords,
           req' = [req EXCEPT ![q].pc = "hash", ![q].quote = quote]
    PROVE  \E z \in RequestRecords : Becomes(q, z) /\ z.pc = "hash" /\ z.quote = quote
<1>1. PICK z : z = [req[q] EXCEPT !.pc = "hash", !.quote = quote]
    OBVIOUS
<1>2. z \in RequestRecords /\ z.pc = "hash" /\ z.quote = quote
    BY <1>1, RequestType DEF RequestRecords, Places
<1>3. Becomes(q, z)
    BY <1>1 DEF Becomes, TypeOK
<1> QED
    BY <1>2, <1>3

\* create_quote reads the version and commits.
LEMMA QuotePinStep ==
    ASSUME IndInv, NEW b \in Buyers, QuotePin(b)
    PROVE  IndInv'
<1>1. b \in Requests /\ b \notin Addons /\ Quiet /\ faults' = faults
    BY StorefrontConstants DEF Requests, Quiet, QuotePin
<1>2. Nights \in Nat /\ Nights > 0
    BY StorefrontConstants
<1>3. PICK z \in RequestRecords : Becomes(b, z) /\ z.pc = "hash" /\ z.quote = Quote(b, Nights)
    BY <1>1, <1>2, QuoteType, QuoteBecomes DEF IndInv, QuotePin
<1>4. Stands(b, z)
    BY <1>1, <1>3 DEF Stands, HoldsClaim
<1>5. M(b) # Nothing /\ req[b].seen > 0
    BY <1>1, Knows DEF RequestOK, TermsAreLive, IsAllowed, QuotePin, At
<1>6. z.quote # Nothing /\ z.quote.version <= version /\ z.quote.unit > 0 /\ z.quote.nights > 0
    BY <1>1, <1>2, <1>3, <1>5, Knows, QuoteType
<1>7. RequestOK(b, z)
    BY <1>1, <1>3, <1>5, <1>6
       DEF RequestOK, TermsAreLive, IsAllowed, HasRows, Proposed, Minted
<1> QED
    BY <1>1, <1>4, <1>7, QuietNow

\* An add-on's price is read.
LEMMA AddonPriceStep ==
    ASSUME IndInv, NEW a \in Addons, AddonPrice(a)
    PROVE  IndInv'
<1>1. a \in Requests /\ req[a].pc = "idle" /\ Quiet /\ faults' = faults
    BY DEF Requests, Quiet, AddonPrice, At
<1>2. req[a].pc \notin Unresolved
    BY <1>1 DEF Unresolved, Minted, Quoted
<1>3. CASE Answer(a, "OFFER_NOT_AVAILABLE")
    BY <1>1, <1>2, <1>3, QuietAnswer
<1>4. CASE Offered(Sku(a)) /\ Saw(a, "claim", price[Sku(a)])
    <2>1. PICK z \in RequestRecords : Becomes(a, z) /\ z.pc = "claim" /\ z.seen = price[Sku(a)]
        BY <1>1, <1>4, Knows, SawBecomes DEF IndInv, Places
    <2>2. Stands(a, z)
        BY <1>2, <2>1 DEF Stands, HoldsClaim
    <2>3. RequestOK(a, z)
        BY <1>1, <1>4, <2>1, Knows
           DEF RequestOK, TermsAreLive, IsAllowed, HasRows, Quoted, Proposed, Minted, Offered
    <2> QED
        BY <1>1, <2>2, <2>3, QuietNow
<1> QED
    BY <1>3, <1>4 DEF AddonPrice

\* Intents are typed, and of the quote.
LEMMA IntentType ==
    ASSUME IndInv, NEW q \in Requests, req[q].pc \in Quoted, NEW live \in Nat
    PROVE  /\ Intent(q, live) \in IntentRecords
           /\ IsOfQuote(Intent(q, live), req[q].quote)
           /\ Intent(q, live).current = live * Intent(q, live).nights
<1>1. M(q) \in MandateRecords
    BY Knows DEF RequestOK, IsAllowed, Minted
<1>2. req[q].quote \in QuoteRecords
    BY Knows DEF RequestOK, TermsAreLive, RequestRecords
<1>3. PICK u, n : u = req[q].quote.unit /\ n = req[q].quote.nights
    OBVIOUS
<1>4. u \in Nat /\ n \in Nat /\ req[q].quote.version \in Nat
    BY <1>2, <1>3 DEF QuoteRecords
<1>5. u * n \in Nat /\ live * n \in Nat
    BY <1>4
<1>6. M(q).currency \in {"INR"} /\ M(q).rooms \in Nat /\ M(q).spec \in Mandates
    BY <1>1 DEF MandateRecords
<1>7. /\ Item[Sku(q)].category \in Categories /\ Item[Sku(q)].merchant \in STRING
      /\ Item[Sku(q)].refundable \in BOOLEAN
    BY Knows, OwnMandate DEF Categories
<1>8. Intent(q, live) =
        [currency |-> M(q).currency, category |-> Item[Sku(q)].category,
         merchant |-> Item[Sku(q)].merchant, unit |-> u, total |-> u * n, nights |-> n,
         rooms |-> M(q).rooms, refundable |-> Item[Sku(q)].refundable, current |-> live * n,
         version |-> req[q].quote.version, spec |-> M(q).spec]
    BY <1>3 DEF Intent, PurchaseIntent
<1>9. Intent(q, live) \in IntentRecords
    BY <1>4, <1>5, <1>6, <1>7, <1>8 DEF IntentRecords
<1> QED
    BY <1>3, <1>8, <1>9 DEF IsOfQuote

\* The buyer's side hashes the intent.
LEMMA BuyerHashStep ==
    ASSUME IndInv, NEW q \in Requests, BuyerHash(q)
    PROVE  IndInv'
<1>1. req[q].pc = "hash" /\ req[q].pc \in Quoted /\ Quiet /\ faults' = faults
    BY DEF Quiet, BuyerHash, At, Quoted
<1>2. PICK i : i = Intent(q, price[Sku(q)])
    OBVIOUS
<1>3. i \in IntentRecords /\ IsOfQuote(i, req[q].quote)
    BY <1>1, <1>2, Knows, IntentType
<1>4. PICK z : z = [req[q] EXCEPT !.pc = "propose", !.intent = i]
    OBVIOUS
<1>5. z \in RequestRecords /\ z.pc = "propose" /\ z.intent = i /\ z.quote = req[q].quote
    BY <1>3, <1>4, Knows DEF RequestRecords, Places
<1>6. Becomes(q, z)
    BY <1>2, <1>4 DEF Becomes, IndInv, TypeOK, BuyerHash
<1>7. Stands(q, z)
    BY <1>5, <1>6 DEF Stands, Unresolved, Minted, Quoted, HoldsClaim
<1>8. RequestOK(q, z)
    <2>1. RequestOK(q, req[q]) /\ i # Nothing
        BY <1>3, Knows, NothingAssumption
    <2> QED
        BY <1>1, <1>3, <1>5, <2>1
           DEF RequestOK, TermsAreLive, IsAllowed, HasRows, Quoted, Proposed, Minted
<1> QED
    BY <1>1, <1>7, <1>8, QuietNow

\* The proposal's mandate, quote and item are read.
LEMMA ProposeReadStep ==
    ASSUME IndInv, NEW q \in Requests, NEW late, ProposeRead(q, late)
    PROVE  IndInv'
<1>1. req[q].pc = "propose" /\ req[q].pc \in Quoted /\ Quiet /\ faults' = faults
    BY DEF Quiet, ProposeRead, At, Quoted
<1>2. CASE Reject(q, MandateCheck(M(q), late))
    BY <1>1, <1>2, QuietReject
<1>3. CASE Saw(q, "evaluate", price[Sku(q)])
    <2>1. PICK z \in RequestRecords :
              /\ Becomes(q, z) /\ z.pc = "evaluate" /\ z.seen = price[Sku(q)]
              /\ z.quote = req[q].quote /\ z.intent = req[q].intent
        BY <1>3, Knows, SawBecomes DEF IndInv, Places
    <2>2. Stands(q, z)
        BY <2>1 DEF Stands, Unresolved, Minted, Quoted, HoldsClaim
    <2>3. RequestOK(q, z)
        BY <1>1, <2>1, Knows
           DEF RequestOK, TermsAreLive, IsAllowed, HasRows, Quoted, Proposed, Minted
    <2> QED
        BY <1>1, <2>2, <2>3, QuietNow
<1> QED
    BY <1>2, <1>3 DEF ProposeRead

\* What the engine allows keeps the unit cap and the price delta.
LEMMA AllowedIsBounded ==
    ASSUME NEW m, NEW i, NEW c, evaluate(m, i, c).verdict # "DENY"
    PROVE  i.unit <= m.max_unit /\ delta_bps(i) <= m.max_price_delta_bps
<1>1. PICK codes : codes = RULES(m, i, c)
    OBVIOUS
<1>2. \A n \in DOMAIN codes : codes[n] = "OK"
    BY <1>1 DEF evaluate
<1>3. 5 \in DOMAIN codes /\ 10 \in DOMAIN codes
    BY <1>1 DEF RULES
<1>4. codes[5] = cap_unit(m, i, c) /\ codes[10] = price_delta(m, i, c)
    BY <1>1 DEF RULES
<1>5. cap_unit(m, i, c) = "OK" /\ price_delta(m, i, c) = "OK"
    BY <1>2, <1>3, <1>4
<1> QED
    BY <1>5 DEF cap_unit, price_delta, Outcome

\* The engine decides.
LEMMA EvaluateStep ==
    ASSUME IndInv, NEW q \in Requests, NEW late, Evaluate(q, late)
    PROVE  IndInv'
<1>1. req[q].pc = "evaluate" /\ req[q].pc \in Quoted /\ Quiet /\ faults' = faults
    BY DEF Quiet, Evaluate, At, Quoted
<1>2. PICK i, c : /\ i = Intent(q, req[q].seen)
                  /\ \/ \E code : Reject(q, code)
                     \/ /\ i = req[q].intent /\ evaluate(M(q), i, c).verdict # "DENY"
                        /\ Goto(q, "gate")
    BY DEF Evaluate
<1>3. CASE \E code : Reject(q, code)
    BY <1>1, <1>3, QuietReject
<1>4. CASE i = req[q].intent /\ evaluate(M(q), i, c).verdict # "DENY" /\ Goto(q, "gate")
    <2>1. PICK z \in RequestRecords :
              /\ Becomes(q, z) /\ z.pc = "gate" /\ z.seen = req[q].seen
              /\ z.quote = req[q].quote /\ z.intent = req[q].intent
        BY <1>4, GotoBecomes DEF IndInv, Places
    <2>2. Stands(q, z)
        BY <2>1 DEF Stands, Unresolved, Minted, Quoted, HoldsClaim
    <2>3. i.unit <= M(q).max_unit /\ delta_bps(i) <= M(q).max_price_delta_bps
        BY <1>4, AllowedIsBounded
    <2>4. i.current = req[q].seen * i.nights
        BY <1>1, <1>2, Knows, IntentType DEF RequestRecords
    <2>5. z.quote.version = version => req[q].seen = price[Sku(q)]
        BY <1>1, <2>1, Knows DEF RequestOK, TermsAreLive
    <2>6. TermsAreLive(q, z)
        BY <1>1, <1>4, <2>1, <2>4, <2>5, Knows DEF RequestOK, TermsAreLive, Quoted, Proposed
    <2>7. IsAllowed(q, z)
        BY <1>1, <1>4, <2>1, <2>3, Knows DEF RequestOK, IsAllowed, Quoted, Minted
    <2>8. HasRows(q, z)
        BY <1>1, <2>1, Knows DEF RequestOK, HasRows, Quoted, Minted
    <2> QED
        BY <1>1, <2>2, <2>6, <2>7, <2>8, QuietNow DEF RequestOK
<1> QED
    BY <1>2, <1>3, <1>4

\* A saga of the same key answers.
LEMMA ReplayStep ==
    ASSUME IndInv, NEW q \in Requests, Replay(q)
    PROVE  IndInv'
<1>1. req[q].pc = "gate" /\ req[q].pc \in Quoted /\ Known(q) /\ Quiet /\ faults' = faults
    BY DEF Quiet, Replay, At, Quoted
<1>2. CASE Reject(q, "INTERNAL_ERROR")
    <2>1. PICK code : code = "INTERNAL_ERROR"
        OBVIOUS
    <2>2. Reject(q, code)
        BY <1>2, <2>1, Zenon
    <2> QED
        BY <1>1, <2>2, QuietReject
<1>3. CASE Goto(q, "accepted")
    <2>1. PICK z \in RequestRecords :
              /\ Becomes(q, z) /\ z.pc = "accepted" /\ z.seen = req[q].seen
              /\ z.quote = req[q].quote /\ z.intent = req[q].intent
        BY <1>3, GotoBecomes DEF IndInv, Places
    <2>2. Stands(q, z)
        BY <2>1 DEF Stands, Unresolved, Minted, Quoted, HoldsClaim
    <2>3. RequestOK(q, z)
        BY <1>1, <2>1, Knows
           DEF RequestOK, TermsAreLive, IsAllowed, HasRows, Quoted, Proposed, Minted, Known, Of
    <2> QED
        BY <1>1, <2>2, <2>3, QuietNow
<1> QED
    BY <1>2, <1>3 DEF Replay

\* An add-on that cannot be paid for now fails.
LEMMA NotReadyStep ==
    ASSUME IndInv, NEW a \in Addons, NotReady(a)
    PROVE  IndInv'
<1>1. a \in Requests /\ req[a].pc = "accepted" /\ Quiet /\ faults' = faults
    BY DEF Quiet, NotReady, At, Requests
<1>2. PICK z \in RequestRecords : Becomes(a, z) /\ z.pc = "failed"
    BY <1>1, GotoBecomes DEF IndInv, Places, NotReady
<1>3. Stands(a, z)
    BY <1>2 DEF Stands, Unresolved, Minted, Quoted, HoldsClaim
<1>4. RequestOK(a, z)
    BY <1>1, <1>2, Knows
       DEF RequestOK, TermsAreLive, IsAllowed, HasRows, Quoted, Proposed, Minted
<1> QED
    BY <1>1, <1>3, <1>4, QuietNow

\* A request ends without an answer: a process dies, or the provider raises.
LEMMA AbortStep ==
    ASSUME IndInv, NEW q \in Requests, Crash(q) \/ ProviderRaises(q)
    PROVE  IndInv'
<1>1. Quiet /\ faults' \in 0..MaxFaults /\ Abort(q)
    BY StorefrontConstants DEF Quiet, Crash, ProviderRaises, IndInv, TypeOK
<1>2. PICK z \in RequestRecords : z = [Idle EXCEPT !.pc = "aborted"] /\ z.pc = "aborted"
    BY IdleBecomes DEF Places
<1>3. Stands(q, z)
    BY <1>1, <1>2 DEF Stands, Becomes, Abort, Unresolved, HoldsClaim
<1>4. RequestOK(q, z)'
    BY <1>2 DEF RequestOK, TermsAreLive, IsAllowed, HasRows, Quoted, Proposed, Minted
<1> QED
    BY <1>1, <1>3, <1>4, QuietNext

\* The saga's row of a request that has one.
LEMMA RowOf ==
    ASSUME IndInv, NEW q \in Requests, Known(q)
    PROVE  /\ Row(q) \in purchase /\ Of(q, Row(q))
           /\ \A p \in purchase : Of(q, p) => p = Row(q)
<1>1. Row(q) \in purchase /\ Of(q, Row(q))
    BY DEF Known, Row
<1>2. \A p, o \in purchase : p.mandate = o.mandate /\ p.intent = o.intent => p = o
    BY DEF IndInv, PurchasesAreKeyed
<1> QED
    BY <1>1, <1>2 DEF Of

\* A request past the gate has one.
LEMMA AcceptedIsKnown ==
    ASSUME IndInv, NEW q \in Requests, req[q].pc = "accepted"
    PROVE  Known(q)
BY Knows DEF RequestOK, HasRows, Known, Of

\* A resolved saga is answered from.
CompleteResolved(q) ==
    /\ At(q, "accepted") /\ Row(q).status # "AWAITING_AUTHORIZATION"
    /\ IF q \in Buyers THEN Answer(q, Row(q).status)
       ELSE Goto(q, IF Row(q).status = "COMPLETED" THEN "paid" ELSE "failed")
    /\ Quiet /\ faults' = faults

\* What it answers is true.
LEMMA ResolvedStep ==
    ASSUME IndInv, NEW q \in Requests, CompleteResolved(q)
    PROVE  IndInv'
<1>1. req[q].pc = "accepted" /\ Quiet /\ faults' = faults /\ Known(q)
    BY AcceptedIsKnown DEF CompleteResolved, At
<1>2. CASE q \in Buyers
    BY <1>1, <1>2, QuietAnswer DEF CompleteResolved
<1>3. CASE q \notin Buyers
    <2>1. q \in Addons /\ MandateOf[q] = q
        BY <1>3, StorefrontConstants DEF Requests
    <2>2. PICK pc : /\ pc = IF Row(q).status = "COMPLETED" THEN "paid" ELSE "failed"
                    /\ Goto(q, pc)
        BY <1>3 DEF CompleteResolved
    <2>3. pc \in {"paid", "failed"} /\ pc \in Places
        BY <2>2 DEF Places
    <2>4. PICK z \in RequestRecords : Becomes(q, z) /\ z.pc = pc
        BY <2>2, <2>3, GotoBecomes DEF IndInv
    <2>5. Stands(q, z)
        BY <2>3, <2>4 DEF Stands, Unresolved, Minted, HoldsClaim
    <2>6. pc = "paid" => HasCompleted(q)
        BY <1>1, <2>1, <2>2, RowOf DEF HasCompleted, Of
    <2>7. RequestOK(q, z)
        BY <1>1, <2>3, <2>4, <2>6, Knows
           DEF RequestOK, TermsAreLive, IsAllowed, HasRows, Quoted, Proposed, Minted
    <2> QED
        BY <1>1, <2>5, <2>7, QuietNow
<1> QED
    BY <1>2, <1>3

-----------------------------------------------------------------------------
(* Steps that record a saga's outcome.                                     *)

Outcomes == Holding \cup {"FAILED", "COMPENSATED"}

\* A mandate's status may change; its bounds do not, and none is created.
NoneCreated == \A m \in Mandates : mandate[m] = Nothing => mandate'[m] = Nothing
StatusOnly ==
    /\ mandate' \in [Mandates -> MandateRecords \cup {Nothing}]
    /\ MandatesKept /\ NoneCreated

\* A new status leaves a mandate's bounds alone.
LEMMA StatusChange ==
    ASSUME TypeOK, NEW m \in Mandates, mandate[m] # Nothing,
           NEW s \in {"LOCKED", "EXECUTING", "SETTLED", "COMPENSATED", "REVOKED"},
           mandate' = [mandate EXCEPT ![m].status = s]
    PROVE  StatusOnly
<1>1. mandate[m] \in MandateRecords
    BY DEF TypeOK
<1>2. PICK n : n = [mandate[m] EXCEPT !.status = s]
    OBVIOUS
<1>3. n \in MandateRecords /\ n.max_unit = mandate[m].max_unit
      /\ n.max_total = mandate[m].max_total
      /\ n.max_price_delta_bps = mandate[m].max_price_delta_bps
    BY <1>1, <1>2 DEF MandateRecords
<1>4. n # Nothing
    BY <1>3, NothingAssumption
<1>5. mandate' = [mandate EXCEPT ![m] = n]
    BY <1>2
<1> QED
    BY <1>3, <1>4, <1>5 DEF StatusOnly, MandatesKept, NoneCreated, SameBounds, TypeOK

\* SetMandate is one.
LEMMA SetMandateChange ==
    ASSUME TypeOK, NEW q \in Requests, M(q) # Nothing, NEW from,
           NEW to \in {"EXECUTING", "SETTLED", "COMPENSATED"}, SetMandate(q, from, to)
    PROVE  StatusOnly
<1>1. MandateOf[q] \in Mandates /\ mandate[MandateOf[q]] # Nothing
    BY OwnMandate DEF M
<1>2. mandate[MandateOf[q]] \in MandateRecords
    BY <1>1 DEF TypeOK
<1>3. PICK s : s = IF mandate[MandateOf[q]].status = from THEN to
                   ELSE mandate[MandateOf[q]].status
    OBVIOUS
<1>4. s \in {"LOCKED", "EXECUTING", "SETTLED", "COMPENSATED", "REVOKED"}
    BY <1>2, <1>3 DEF MandateRecords
<1>5. mandate' = [mandate EXCEPT ![MandateOf[q]].status = s]
    BY <1>3 DEF SetMandate
<1> QED
    BY <1>1, <1>4, <1>5, StatusChange

\* Unchanged mandates.
LEMMA SameStatus ==
    ASSUME TypeOK, mandate' = mandate
    PROVE  StatusOnly
BY DEF TypeOK, StatusOnly, MandatesKept, NoneCreated, SameBounds

\* A request with an intent that the engine allowed.
LEMMA ProposalIs ==
    ASSUME IndInv, NEW q \in Requests, req[q].pc \in {"gate", "order", "accepted"}
    PROVE  /\ req[q].intent \in IntentRecords /\ req[q].intent.total \in Nat
           /\ M(q) # Nothing /\ M(q) \in MandateRecords
           /\ req[q].intent.unit <= M(q).max_unit
           /\ MandateOf[q] \in Mandates
<1>1. req[q].intent \in IntentRecords
    BY Knows DEF RequestOK, TermsAreLive, RequestRecords, Proposed
<1>2. req[q].intent.total \in Nat
    BY <1>1 DEF IntentRecords
<1>3. M(q) # Nothing /\ req[q].intent.unit <= M(q).max_unit
    BY Knows DEF RequestOK, IsAllowed, Minted, Quoted
<1> QED
    BY <1>1, <1>2, <1>3, Knows, OwnMandate

\* The row of q's key becomes one of another outcome, or is new.
MayRecord(q, status, by) ==
    /\ \A p \in purchase : Of(q, p) => p.status # "COMPLETED"
    /\ status \in Holding => \/ \E r \in purchase : Of(q, r) /\ r.status \in Holding
                             \/ ~Known(q) /\ G4(q)
    /\ \A p \in purchase : Of(q, p) /\ p.status \in Claimed =>
           p.by = q \/ (status \in Claimed /\ by = p.by)

\* Recording an outcome loses no saga, keeps one for a key, types them.
LEMMA RecordKeeps ==
    ASSUME IndInv, NEW q \in Requests, req[q].pc \in {"gate", "order", "accepted"},
           NEW status \in Outcomes, NEW by \in Requests, Record(q, status, by),
           MayRecord(q, status, by), StatusOnly
    PROVE  /\ purchase' \in SUBSET PurchaseRecords
           /\ PurchasesKept /\ PurchasesAreKeyed'
           /\ \E p \in purchase' : /\ p.mandate = MandateOf[q] /\ p.intent = req[q].intent
                                   /\ p.status = status /\ p.by = by
<1>1. PICK n : n = [mandate |-> MandateOf[q], intent |-> req[q].intent, status |-> status,
                    by |-> by]
    OBVIOUS
<1>2. /\ n \in PurchaseRecords /\ n.mandate = MandateOf[q] /\ n.intent = req[q].intent
      /\ n.status = status /\ n.by = by
    BY <1>1, ProposalIs DEF PurchaseRecords, Outcomes
<1>3. purchase' = {p \in purchase : ~Of(q, p)} \cup {n}
    BY <1>1 DEF Record
<1>4. purchase' \in SUBSET PurchaseRecords
    BY <1>2, <1>3 DEF IndInv, TypeOK
<1>5. PurchasesKept
    <2>1. ASSUME NEW p \in purchase
          PROVE  \E o \in purchase' : /\ o.mandate = p.mandate /\ o.intent = p.intent
                                      /\ p.status = "COMPLETED" => o.status = "COMPLETED"
        <3>1. CASE Of(q, p)
            BY <1>2, <1>3, <3>1 DEF Of, MayRecord
        <3>2. CASE ~Of(q, p)
            BY <1>3, <3>2
        <3> QED
            BY <3>1, <3>2
    <2> QED
        BY <2>1 DEF PurchasesKept
<1>6. PurchasesAreKeyed'
    <2>1. IsFiniteSet(purchase')
        <3>1. IsFiniteSet(purchase)
            BY DEF IndInv, PurchasesAreKeyed
        <3>2. {p \in purchase : ~Of(q, p)} \subseteq purchase
            OBVIOUS
        <3>3. IsFiniteSet({p \in purchase : ~Of(q, p)})
            BY <3>1, <3>2, FS_Subset
        <3> QED
            BY <1>3, <3>3, FS_AddElement
    <2>2. ASSUME NEW p \in purchase' PROVE mandate'[p.mandate] # Nothing
        <3>1. p.mandate \in Mandates
            BY <1>4 DEF PurchaseRecords
        <3>2. mandate[p.mandate] # Nothing
            BY <1>2, <1>3, ProposalIs DEF IndInv, PurchasesAreKeyed, M
        <3> QED
            BY <3>1, <3>2 DEF StatusOnly, MandatesKept, SameBounds
    <2>3. ASSUME NEW p \in purchase', NEW o \in purchase', p.mandate = o.mandate,
                 p.intent = o.intent
          PROVE  p = o
        <3>1. p \in purchase /\ o \in purchase => p = o
            BY <2>3 DEF IndInv, PurchasesAreKeyed
        <3>2. p = n => o = n
            BY <1>2, <1>3, <2>3 DEF Of
        <3>3. o = n => p = n
            BY <1>2, <1>3, <2>3 DEF Of
        <3> QED
            BY <1>3, <3>1, <3>2, <3>3
    <2> QED
        BY <2>1, <2>2, <2>3 DEF PurchasesAreKeyed
<1> QED
    BY <1>2, <1>3, <1>4, <1>5, <1>6

\* One purchase less holds no more.
LEMMA TotalWithout ==
    ASSUME NEW U, CanAddUp(U), NEW A, A \subseteq U, NEW B,
           B = A \/ \E r \in A : B = A \ {r}
    PROVE  Total(B) <= Total(A) /\ B \subseteq U
<1>1. CASE B = A
    <2>1. Total(A) \in Nat
        BY TotalNat
    <2> QED
        BY <1>1, <2>1
<1>2. ASSUME NEW r \in A, B = A \ {r} PROVE Total(B) <= Total(A) /\ B \subseteq U
    <2>1. B \subseteq U /\ r \in U /\ r \notin B /\ A = B \cup {r}
        BY <1>2
    <2>2. Total(B) \in Nat /\ r.intent.total \in Nat
        BY <2>1, TotalNat DEF CanAddUp
    <2>3. Total(B \cup {r}) = Total(B) + r.intent.total
        BY <2>1, TotalAdd
    <2> QED
        BY <2>1, <2>2, <2>3
<1> QED
    BY <1>1, <1>2

\* Recording an outcome keeps every mandate within its caps.
LEMMA RecordWithin ==
    ASSUME IndInv, NEW q \in Requests, req[q].pc \in {"gate", "order", "accepted"},
           NEW status \in Outcomes, NEW by \in Requests, Record(q, status, by),
           MayRecord(q, status, by), StatusOnly
    PROVE  WithinMandate'
<1>1. PICK n : n = [mandate |-> MandateOf[q], intent |-> req[q].intent, status |-> status,
                    by |-> by]
    OBVIOUS
<1>2. /\ n.mandate = MandateOf[q] /\ n.intent = req[q].intent /\ n.status = status
      /\ n.intent.total \in Nat
    BY <1>1, ProposalIs
<1>3. purchase' = {p \in purchase : ~Of(q, p)} \cup {n}
    BY <1>1 DEF Record
<1>4. PICK U : U = purchase \cup {n}
    OBVIOUS
<1>5. CanAddUp(U) /\ purchase \subseteq U /\ n \in U
    <2>1. CanAddUp(purchase)
        BY PurchasesAddUp
    <2>2. IsFiniteSet(U)
        BY <1>4, <2>1, FS_AddElement DEF CanAddUp
    <2> QED
        BY <1>2, <1>4, <2>1, <2>2 DEF CanAddUp
<1>6. ASSUME NEW m \in Mandates, mandate'[m] # Nothing
      PROVE  /\ committed_total(m)' <= mandate'[m].max_total
             /\ \A p \in purchase' : p.mandate = m /\ p.status \in Holding =>
                    p.intent.unit <= mandate'[m].max_unit
    <2>1. mandate[m] # Nothing /\ SameBounds(mandate[m], mandate'[m])
        BY <1>6 DEF StatusOnly, NoneCreated, MandatesKept
    <2>2. PICK cap, unit : cap = mandate[m].max_total /\ unit = mandate[m].max_unit
        OBVIOUS
    <2>3. cap \in Nat /\ mandate'[m].max_total = cap /\ mandate'[m].max_unit = unit
        BY <2>1, <2>2 DEF SameBounds, IndInv, TypeOK, MandateRecords
    <2>4. PICK A, B, H : A = Held(m) /\ B = {p \in A : ~Of(q, p)} /\ H = Held(m)'
        OBVIOUS
    <2>5. committed_total(m) = Total(A) /\ committed_total(m)' = Total(H) /\ A \subseteq U
        BY <1>5, <2>4, CommittedIsTotal, CommittedIsTotalNext DEF Held
    <2>6. Total(A) <= cap /\ \A p \in A : p.intent.unit <= unit
        BY <2>1, <2>2, <2>4, <2>5 DEF IndInv, WithinMandate, Held
    <2>7. B = A \/ \E r \in A : B = A \ {r}
        <3>1. \A p, o \in purchase : Of(q, p) /\ Of(q, o) => p = o
            BY DEF Of, IndInv, PurchasesAreKeyed
        <3> QED
            BY <2>4, <3>1 DEF Held
    <2>8. Total(B) <= Total(A) /\ B \subseteq U
        BY <1>5, <2>5, <2>7, TotalWithout
    <2>9. Total(A) \in Nat /\ Total(B) \in Nat
        BY <1>5, <2>5, <2>8, TotalNat
    <2>10. n \notin B
        BY <1>2, <2>4 DEF Of
    <2>11. CASE m = MandateOf[q] /\ status \in Holding
        <3>1. H = B \cup {n}
            BY <1>2, <1>3, <2>4, <2>11 DEF Held
        <3>2. Total(H) = Total(B) + n.intent.total
            BY <1>5, <2>8, <2>10, <3>1, TotalAdd
        <3>3. Total(B) + n.intent.total <= cap
            <4>1. CASE ~Known(q) /\ G4(q)
                <5>1. committed_total(m) + n.intent.total <= cap
                    BY <1>2, <2>2, <2>11, <4>1 DEF G4, M
                <5> QED
                    BY <1>2, <2>3, <2>5, <2>8, <2>9, <5>1
            <4>2. CASE \E r \in purchase : Of(q, r) /\ r.status \in Holding
                <5>1. PICK r \in purchase : Of(q, r) /\ r.status \in Holding
                    BY <4>2
                <5>2. r \in A /\ r \notin B /\ r.intent = n.intent /\ r \in U
                    BY <1>2, <1>5, <2>4, <2>11, <5>1 DEF Held, Of
                <5>3. A = B \cup {r}
                    BY <2>4, <2>7, <5>2
                <5>4. Total(A) = Total(B) + r.intent.total
                    BY <1>5, <2>8, <5>2, <5>3, TotalAdd
                <5> QED
                    BY <2>6, <5>2, <5>4
            <4> QED
                BY <2>11, <4>1, <4>2 DEF MayRecord
        <3>4. n.intent.unit <= unit
            BY <1>2, <2>2, <2>11, ProposalIs DEF M
        <3>5. \A p \in purchase' : p.mandate = m /\ p.status \in Holding => p.intent.unit <= unit
            BY <2>4, <2>6, <3>1, <3>4 DEF Held
        <3> QED
            BY <2>3, <2>5, <3>2, <3>3, <3>5
    <2>12. CASE ~(m = MandateOf[q] /\ status \in Holding)
        <3>1. H = B
            BY <1>2, <1>3, <2>4, <2>12 DEF Held
        <3>2. Total(H) <= cap
            BY <2>3, <2>6, <2>8, <2>9, <3>1
        <3>3. \A p \in purchase' : p.mandate = m /\ p.status \in Holding => p.intent.unit <= unit
            BY <2>4, <2>6, <3>1 DEF Held
        <3> QED
            BY <2>3, <2>5, <3>2, <3>3
    <2> QED
        BY <2>11, <2>12
<1> QED
    BY <1>6 DEF WithinMandate

\* Recording an outcome leaves every claim with the call that holds it.
LEMMA RecordClaims ==
    ASSUME IndInv, NEW q \in Requests, NEW status, NEW by, Record(q, status, by),
           MayRecord(q, status, by), NEW z, Becomes(q, z), HoldsClaim(q, z)'
    PROVE  ClaimsHeld'
<1>1. PICK n : n = [mandate |-> MandateOf[q], intent |-> req[q].intent, status |-> status,
                    by |-> by]
    OBVIOUS
<1>2. n.mandate = MandateOf[q] /\ n.intent = req[q].intent /\ n.status = status /\ n.by = by
    BY <1>1
<1>3. purchase' = {p \in purchase : ~Of(q, p)} \cup {n}
    BY <1>1 DEF Record
<1>4. ASSUME NEW u \in Requests PROVE HoldsClaim(u, req[u])'
    <2>1. CASE u = q
        <3>1. req'[u] = z
            BY <2>1 DEF Becomes, IndInv, TypeOK
        <3> QED
            BY <2>1, <3>1 DEF HoldsClaim
    <2>2. CASE u # q
        <3>1. PICK x : x = req[u]
            OBVIOUS
        <3>2. req'[u] = x /\ HoldsClaim(u, x)
            BY <2>2, <3>1 DEF Becomes, IndInv, TypeOK, ClaimsHeld
        <3>3. ASSUME x.pc = "order"
              PROVE  \E p \in purchase' : /\ p.mandate = MandateOf[u] /\ p.intent = x.intent
                                          /\ p.status \in Claimed /\ p.by = u
            <4>1. PICK p \in purchase : /\ p.mandate = MandateOf[u] /\ p.intent = x.intent
                                        /\ p.status \in Claimed /\ p.by = u
                BY <3>2, <3>3 DEF HoldsClaim
            <4>2. CASE ~Of(q, p)
                BY <1>3, <4>1, <4>2
            <4>3. CASE Of(q, p)
                <5>1. status \in Claimed /\ by = u
                    BY <2>2, <4>1, <4>3 DEF MayRecord
                <5>2. n.mandate = MandateOf[u] /\ n.intent = x.intent
                    BY <1>2, <4>1, <4>3 DEF Of
                <5> QED
                    BY <1>2, <1>3, <5>1, <5>2
            <4> QED
                BY <4>2, <4>3
        <3> QED
            BY <3>2, <3>3 DEF HoldsClaim
    <2> QED
        BY <2>1, <2>2
<1> QED
    BY <1>4 DEF ClaimsHeld

\* A step that records an outcome and answers the request.
LEMMA RecordNext ==
    ASSUME IndInv, NEW q \in Requests, req[q].pc \in {"gate", "order", "accepted"},
           NEW status \in Outcomes, NEW by \in Requests, Record(q, status, by),
           MayRecord(q, status, by), StatusOnly,
           UNCHANGED <<price, version, addon, faults>>,
           NEW z, Stands(q, z), RequestOK(q, z)'
    PROVE  IndInv'
<1>1. purchase' \in SUBSET PurchaseRecords /\ PurchasesKept /\ PurchasesAreKeyed'
    BY RecordKeeps
<1>2. WithinMandate'
    BY RecordWithin
<1>3. TypeOK'
    <2>1. req' \in [Requests -> RequestRecords]
        BY DEF Stands, Becomes, IndInv, TypeOK
    <2> QED
        BY <1>1, <2>1 DEF IndInv, TypeOK, StatusOnly
<1>4. TablesKept
    BY <1>1 DEF TablesKept, CatalogKept, StatusOnly
<1>5. NoneMinted
    <2>1. \A a \in Addons : a \in Mandates
        BY StorefrontConstants DEF Mandates, Requests
    <2> QED
        BY <2>1 DEF StatusOnly, NoneCreated, NoneMinted
<1>6. (\A s \in AddonSkus : AddonRowOK(s))' /\ (\A u \in Requests : RequestOK(u, req[u]))'
    BY <1>3, <1>4, <1>5, RequestStep
<1>7. ClaimsHeld'
    BY RecordClaims DEF Stands
<1> QED
    BY <1>1, <1>2, <1>3, <1>6, <1>7 DEF IndInv

\* What q knows after it recorded an outcome.
LEMMA KnowsNext ==
    ASSUME IndInv, NEW q \in Requests, req[q].pc \in {"gate", "order", "accepted"},
           NEW status \in Outcomes, NEW by \in Requests, Record(q, status, by),
           MayRecord(q, status, by), StatusOnly, UNCHANGED <<price, version, addon, faults>>
    PROVE  \E y \in RequestRecords : y = req[q] /\ RequestOK(q, y)'
<1>1. PurchasesKept
    BY RecordKeeps
<1>2. TablesKept /\ RowKept(q)
    BY <1>1 DEF TablesKept, CatalogKept, StatusOnly, RowKept
<1>3. PICK y : y = req[q]
    OBVIOUS
<1>4. y \in RequestRecords /\ RequestOK(q, y)
    BY <1>3, Knows
<1>5. RequestOK(q, y)'
    BY <1>2, <1>4, RequestStays DEF IndInv
<1> QED
    BY <1>3, <1>4, <1>5

\* A step that records an outcome for q.
Records(q, status, by) ==
    /\ req[q].pc \in {"gate", "order", "accepted"}
    /\ status \in Outcomes /\ by \in Requests
    /\ Record(q, status, by) /\ MayRecord(q, status, by) /\ StatusOnly
    /\ UNCHANGED <<price, version, addon, faults>>

\* What it leaves.
LEMMA Recorded ==
    ASSUME IndInv, NEW q \in Requests, NEW status, NEW by, Records(q, status, by)
    PROVE  /\ \E p \in purchase' : /\ p.mandate = MandateOf[q] /\ p.intent = req[q].intent
                                   /\ p.status = status /\ p.by = by
           /\ \E y \in RequestRecords : y = req[q] /\ RequestOK(q, y)'
BY RecordKeeps, KnowsNext DEF Records

\* It keeps the invariant if the request becomes one that knows what is true.
LEMMA RecordedNext ==
    ASSUME IndInv, NEW q \in Requests, NEW status, NEW by, Records(q, status, by),
           NEW z, Stands(q, z), RequestOK(q, z)'
    PROVE  IndInv'
BY RecordNext DEF Records

\* A saga of a key that another call has claimed, or of none.
MayExecute(q) == req[q].pc = "gate" /\ (Known(q) => Row(q).status = "RUNNING")

\* A denial leaves the reservation of the call that holds the claim.
LEMMA DeniedRecords ==
    ASSUME IndInv, NEW q \in Requests, MayExecute(q), RecordDenied(q), StatusOnly,
           UNCHANGED <<price, version, addon, faults>>
    PROVE  \E status, by : Records(q, status, by)
<1>1. CASE Known(q)
    <2>1. /\ Row(q) \in purchase /\ Of(q, Row(q)) /\ Row(q).status = "RUNNING"
          /\ \A p \in purchase : Of(q, p) => p = Row(q)
        BY <1>1, RowOf DEF MayExecute
    <2>2. PICK status, by : status = "DENIED" /\ by = Row(q).by
        OBVIOUS
    <2>3. by \in Requests
        BY <2>1, <2>2 DEF IndInv, TypeOK, PurchaseRecords
    <2>4. Record(q, status, by)
        BY <1>1, <2>2, Zenon DEF RecordDenied, Record
    <2>5. MayRecord(q, status, by)
        BY <2>1, <2>2 DEF MayRecord, Holding, Claimed
    <2> QED
        BY <2>2, <2>3, <2>4, <2>5 DEF Records, MayExecute, Outcomes, Holding, Claimed
<1>2. CASE ~Known(q)
    <2>1. PICK status, by : status = "FAILED" /\ by = q
        OBVIOUS
    <2>2. Record(q, status, by)
        BY <1>2, <2>1, Zenon DEF RecordDenied, Record
    <2>3. MayRecord(q, status, by)
        BY <1>2, <2>1 DEF MayRecord, Known, Holding, Claimed
    <2> QED
        BY <2>1, <2>2, <2>3 DEF Records, MayExecute, Outcomes, Holding, Claimed
<1> QED
    BY <1>1, <1>2

\* A step that records an outcome and rejects the request.
LEMMA RecordReject ==
    ASSUME IndInv, NEW q \in Requests, NEW status, NEW by, Records(q, status, by), NEW code,
           Reject(q, code)
    PROVE  IndInv'
<1>1. req[q].pc \in Quoted /\ StatusOnly /\ addon' = addon
    BY DEF Records, Quoted
<1>2. PICK z \in RequestRecords :
          /\ Becomes(q, z) /\ z.pc \in {"failed", "requote", "done"}
          /\ q \in Addons => z.pc = "failed"
    BY RejectBecomes DEF IndInv
<1>3. Stands(q, z)
    BY <1>2 DEF Stands, Unresolved, Minted, HoldsClaim
<1>4. RequestOK(q, z)'
    BY <1>1, <1>2, RejectedOK DEF StatusOnly
<1> QED
    BY <1>3, <1>4, RecordedNext

\* The gate denies.
LEMMA DenyStep ==
    ASSUME IndInv, NEW q \in Requests, NEW late, Deny(q, late)
    PROVE  IndInv'
<1>1. /\ MayExecute(q) /\ RecordDenied(q)
      /\ UNCHANGED <<price, version, mandate, addon, faults>>
    BY DEF Deny, At, MayExecute
<1>2. PICK code : code = GateCode(q, late)
    OBVIOUS
<1>3. Reject(q, code)
    BY <1>2 DEF Deny
<1>4. StatusOnly
    BY <1>1, SameStatus DEF IndInv
<1>5. PICK status, by : Records(q, status, by)
    BY <1>1, <1>4, DeniedRecords
<1> QED
    BY <1>3, <1>5, RecordReject

\* Another call is in flight for the key.
LEMMA InFlightStep ==
    ASSUME IndInv, NEW q \in Requests, InFlight(q)
    PROVE  IndInv'
<1>1. /\ MayExecute(q) /\ RecordDenied(q)
      /\ UNCHANGED <<price, version, mandate, addon, faults>>
    BY DEF InFlight, At, MayExecute
<1>2. StatusOnly
    BY <1>1, SameStatus DEF IndInv
<1>3. PICK status, by : Records(q, status, by)
    BY <1>1, <1>2, DeniedRecords
<1>4. PICK code : code = "PROVIDER_TRANSIENT"
    OBVIOUS
<1>5. Reject(q, code)
    BY <1>4, Zenon DEF InFlight
<1> QED
    BY <1>3, <1>5, RecordReject

\* The call that creates the order records its outcome.
LEMMA OrderRecords ==
    ASSUME IndInv, NEW q \in Requests, req[q].pc = "order",
           NEW status \in {"AWAITING_AUTHORIZATION", "FAILED"}, Record(q, status, q), StatusOnly,
           UNCHANGED <<price, version, addon, faults>>
    PROVE  Records(q, status, q)
<1>1. PICK r \in purchase : Of(q, r) /\ r.status \in Claimed /\ r.by = q
    BY DEF IndInv, ClaimsHeld, HoldsClaim, Of
<1>2. \A p \in purchase : Of(q, p) => p = r
    BY <1>1 DEF Of, IndInv, PurchasesAreKeyed
<1>3. MayRecord(q, status, q)
    BY <1>1, <1>2 DEF MayRecord, Holding, Claimed
<1> QED
    BY <1>3 DEF Records, Outcomes, Holding

\* The order cannot be created.
LEMMA OrderFailsStep ==
    ASSUME IndInv, NEW q \in Requests, OrderFails(q)
    PROVE  IndInv'
<1>1. req[q].pc = "order" /\ UNCHANGED <<price, version, addon, faults>>
    BY DEF OrderFails, At
<1>2. StatusOnly
    <2>1. M(q) # Nothing /\ SetMandate(q, "EXECUTING", "COMPENSATED")
        BY <1>1, ProposalIs DEF OrderFails
    <2> QED
        BY <2>1, SetMandateChange DEF IndInv
<1>3. PICK status, code : status = "FAILED" /\ code = "PROVIDER_TERMINAL"
    OBVIOUS
<1>4. Record(q, status, q) /\ Reject(q, code)
    BY <1>3, Zenon DEF OrderFails
<1>5. Records(q, status, q)
    BY <1>1, <1>2, <1>3, <1>4, OrderRecords
<1> QED
    BY <1>4, <1>5, RecordReject

\* A request goes on towards the payment.
LEMMA RecordGoto ==
    ASSUME IndInv, NEW q \in Requests, NEW status, Records(q, status, q),
           req[q].pc \in {"gate", "order"}, NEW pc \in {"order", "accepted"}, Goto(q, pc),
           pc = "order" => status \in Claimed
    PROVE  IndInv'
<1>1. PICK z \in RequestRecords :
          /\ Becomes(q, z) /\ z.pc = pc /\ z.seen = req[q].seen
          /\ z.quote = req[q].quote /\ z.intent = req[q].intent
    BY GotoBecomes DEF IndInv, Places
<1>2. PICK y \in RequestRecords : y = req[q] /\ RequestOK(q, y)'
    BY Recorded
<1>3. \E p \in purchase' : /\ p.mandate = MandateOf[q] /\ p.intent = z.intent
                            /\ p.status = status /\ p.by = q
    BY <1>1, Recorded
<1>4. Stands(q, z)
    <2>1. HoldsClaim(q, z)'
        BY <1>1, <1>3 DEF HoldsClaim
    <2> QED
        BY <1>1, <2>1 DEF Stands, Unresolved, Minted, Quoted
<1>5. RequestOK(q, z)'
    <2>1. y.pc \in {"gate", "order"} /\ y.quote = z.quote /\ y.intent = z.intent
        BY <1>1, <1>2
    <2>2. TermsAreLive(q, z)'
        BY <1>1, <1>2, <2>1 DEF RequestOK, TermsAreLive, Quoted, Proposed
    <2>3. IsAllowed(q, z)'
        BY <1>1, <1>2, <2>1 DEF RequestOK, IsAllowed, Quoted, Minted
    <2>4. HasRows(q, z)'
        BY <1>1, <1>2, <1>3, <2>1 DEF RequestOK, HasRows, Quoted, Minted
    <2> QED
        BY <2>2, <2>3, <2>4 DEF RequestOK
<1> QED
    BY <1>4, <1>5, RecordedNext

\* The gate admits.
LEMMA AdmitStep ==
    ASSUME IndInv, NEW q \in Requests, Admit(q)
    PROVE  IndInv'
<1>1. req[q].pc = "gate" /\ ~Known(q) /\ UNCHANGED <<price, version, addon, faults>>
    BY DEF Admit, At
<1>2. StatusOnly
    BY <1>1, ProposalIs, SetMandateChange DEF IndInv, Admit
<1>3. G4(q)
    BY DEF Admit, GateCode
<1>4. PICK status, pc : status = "RUNNING" /\ pc = "order"
    OBVIOUS
<1>5. Record(q, status, q) /\ Goto(q, pc)
    BY <1>4, Zenon DEF Admit
<1>6. MayRecord(q, status, q)
    BY <1>1, <1>3 DEF MayRecord, Known
<1>7. Records(q, status, q)
    BY <1>1, <1>2, <1>4, <1>5, <1>6 DEF Records, Holding, Claimed, Outcomes
<1> QED
    BY <1>1, <1>4, <1>5, <1>7, RecordGoto DEF Claimed

\* The order is created.
LEMMA OrderCreatedStep ==
    ASSUME IndInv, NEW q \in Requests, OrderCreated(q)
    PROVE  IndInv'
<1>1. req[q].pc = "order" /\ UNCHANGED <<price, version, addon, faults>>
    BY DEF OrderCreated, At
<1>2. StatusOnly
    BY SameStatus DEF IndInv, OrderCreated
<1>3. PICK status, pc : status = "AWAITING_AUTHORIZATION" /\ pc = "accepted"
    OBVIOUS
<1>4. Record(q, status, q) /\ Goto(q, pc)
    BY <1>3, Zenon DEF OrderCreated
<1>5. Records(q, status, q)
    BY <1>1, <1>2, <1>3, <1>4, OrderRecords
<1> QED
    BY <1>1, <1>3, <1>4, <1>5, RecordGoto

\* A saga that awaited authorization is resolved.
Resolves(q, status, to, answer) ==
    /\ req[q].pc = "accepted" /\ Row(q).status = "AWAITING_AUTHORIZATION"
    /\ status \in {"COMPLETED", "COMPENSATED"}
    /\ to \in {"SETTLED", "COMPENSATED"}
    /\ Record(q, status, q) /\ SetMandate(q, "EXECUTING", to)
    /\ IF q \in Addons THEN Goto(q, IF status = "COMPLETED" THEN "paid" ELSE "failed")
       ELSE Answer(q, answer)
    /\ UNCHANGED <<price, version, addon, faults>>

\* Its outcome is recorded and answered.
LEMMA ResolveStep ==
    ASSUME IndInv, NEW q \in Requests, NEW status, NEW to, NEW answer,
           Resolves(q, status, to, answer)
    PROVE  IndInv'
<1>1. Known(q)
    BY AcceptedIsKnown DEF Resolves
<1>2. StatusOnly
    <2>1. M(q) # Nothing
        BY ProposalIs DEF Resolves
    <2>2. PICK from : from = "EXECUTING"
        OBVIOUS
    <2>3. SetMandate(q, from, to) /\ to \in {"EXECUTING", "SETTLED", "COMPENSATED"}
        BY <2>2 DEF Resolves
    <2> QED
        BY <2>1, <2>3, SetMandateChange DEF IndInv
<1>3. Records(q, status, q)
    <2>1. Row(q) \in purchase /\ Of(q, Row(q)) /\ \A p \in purchase : Of(q, p) => p = Row(q)
        BY <1>1, RowOf
    <2> QED
        BY <1>2, <2>1 DEF Records, Resolves, MayRecord, Holding, Claimed, Outcomes
<1>4. CASE q \in Addons
    <2>1. PICK pc : pc = IF status = "COMPLETED" THEN "paid" ELSE "failed"
        OBVIOUS
    <2>2. pc \in {"paid", "failed"} /\ pc \in Places /\ Goto(q, pc)
        BY <1>4, <2>1 DEF Places, Resolves
    <2>3. PICK z \in RequestRecords : Becomes(q, z) /\ z.pc = pc
        BY <2>2, GotoBecomes DEF IndInv
    <2>4. Stands(q, z)
        BY <2>2, <2>3 DEF Stands, Unresolved, Minted, HoldsClaim
    <2>5. PICK y \in RequestRecords : y = req[q] /\ RequestOK(q, y)'
        BY <1>3, Recorded
    <2>6. pc = "paid" => HasCompleted(q)'
        <3>1. \E p \in purchase' : p.mandate = MandateOf[q] /\ p.status = status
            BY <1>3, Recorded
        <3>2. MandateOf[q] = q
            BY <1>4, OwnMandate
        <3> QED
            BY <2>1, <3>1, <3>2 DEF HasCompleted
    <2>7. y.pc = "accepted"
        BY <2>5 DEF Resolves
    <2>8. RequestOK(q, z)'
        BY <2>2, <2>3, <2>5, <2>6, <2>7
           DEF RequestOK, TermsAreLive, IsAllowed, HasRows, Quoted, Proposed, Minted
    <2> QED
        BY <1>3, <2>4, <2>8, RecordedNext
<1>5. CASE q \notin Addons
    <2>1. PICK z \in RequestRecords : z = [Idle EXCEPT !.pc = "done"] /\ z.pc = "done"
        BY IdleBecomes DEF Places
    <2>2. Stands(q, z)
        BY <1>5, <2>1 DEF Stands, Answer, Becomes, Resolves, HoldsClaim
    <2>3. RequestOK(q, z)'
        BY <2>1 DEF RequestOK, TermsAreLive, IsAllowed, HasRows, Quoted, Proposed, Minted
    <2> QED
        BY <1>3, <2>2, <2>3, RecordedNext
<1> QED
    BY <1>4, <1>5

\* complete_purchase.
LEMMA CompleteStep ==
    ASSUME IndInv, NEW q \in Requests, Complete(q)
    PROVE  IndInv'
<1>1. req[q].pc = "accepted" /\ UNCHANGED <<price, version, addon, faults>>
    BY DEF Complete, At
<1>2. CASE /\ Row(q).status = "AWAITING_AUTHORIZATION"
           /\ Record(q, "COMPLETED", q)
           /\ SetMandate(q, "EXECUTING", "SETTLED")
           /\ IF q \in Addons THEN Goto(q, "paid") ELSE Answer(q, "OK")
    <2>1. PICK status, to, answer :
              status = "COMPLETED" /\ to = "SETTLED" /\ answer = "OK"
        OBVIOUS
    <2>2. Resolves(q, status, to, answer)
        <3>1. Record(q, status, q)
            BY <1>2, <2>1 DEF Record
        <3>2. SetMandate(q, "EXECUTING", to)
            BY <1>2, <2>1 DEF SetMandate
        <3>3. IF q \in Addons THEN Goto(q, IF status = "COMPLETED" THEN "paid" ELSE "failed")
              ELSE Answer(q, answer)
            BY <1>2, <2>1 DEF Goto, Answer
        <3> QED
            BY <1>1, <1>2, <2>1, <3>1, <3>2, <3>3 DEF Resolves
    <2> QED
        BY <2>2, ResolveStep
<1>3. CASE /\ Row(q).status = "AWAITING_AUTHORIZATION"
           /\ Record(q, "COMPENSATED", q)
           /\ SetMandate(q, "EXECUTING", "COMPENSATED")
           /\ IF q \in Addons THEN Goto(q, "failed") ELSE Answer(q, "PROVIDER_DECLINED")
    <2>1. PICK status, to, answer :
              status = "COMPENSATED" /\ to = "COMPENSATED" /\ answer = "PROVIDER_DECLINED"
        OBVIOUS
    <2>2. Resolves(q, status, to, answer)
        <3>1. Record(q, status, q)
            BY <1>3, <2>1 DEF Record
        <3>2. SetMandate(q, "EXECUTING", to)
            BY <1>3, <2>1 DEF SetMandate
        <3>3. IF q \in Addons THEN Goto(q, IF status = "COMPLETED" THEN "paid" ELSE "failed")
              ELSE Answer(q, answer)
            BY <1>3, <2>1 DEF Goto, Answer
        <3> QED
            BY <1>1, <1>3, <2>1, <3>1, <3>2, <3>3 DEF Resolves
    <2> QED
        BY <2>2, ResolveStep
<1>4. CASE /\ Row(q).status # "AWAITING_AUTHORIZATION"
           /\ IF q \in Buyers THEN Answer(q, Row(q).status)
              ELSE Goto(q, IF Row(q).status = "COMPLETED" THEN "paid" ELSE "failed")
           /\ UNCHANGED <<purchase, mandate>>
    BY <1>1, <1>4, ResolvedStep DEF CompleteResolved, Quiet, At
<1> QED
    BY <1>2, <1>3, <1>4 DEF Complete

-----------------------------------------------------------------------------
(* Steps of no request.                                                    *)

\* What requests know stays, and the rows too.
LEMMA NoRequestStep ==
    ASSUME IndInv, TypeOK', TablesKept, NoneMinted, addon' = addon, req' = req,
           purchase' = purchase
    PROVE  /\ (\A s \in AddonSkus : AddonRowOK(s))'
           /\ (\A u \in Requests : RequestOK(u, req[u]))'
<1>1. PICK q \in Requests : TRUE
    BY StorefrontConstants DEF Requests
<1>2. PICK z : z = req[q]
    OBVIOUS
<1>3. z \in RequestRecords /\ RequestOK(q, z)
    BY <1>2, Knows
<1>4. Stands(q, z)
    BY <1>2, <1>3 DEF Stands, Becomes, IndInv, TypeOK, ClaimsHeld, HoldsClaim
<1>5. RequestOK(q, z)'
    BY <1>3, RequestStays DEF IndInv, RowKept
<1> QED
    BY <1>4, <1>5, RequestStep

\* A step that changes none of this.
LEMMA NothingStep ==
    ASSUME IndInv, Quiet, req' = req, faults' = faults
    PROVE  IndInv'
<1>1. TypeOK'
    BY DEF IndInv, TypeOK, Quiet
<1>2. TablesKept /\ NoneMinted
    BY QuietKeeps
<1>3. PurchasesAreKeyed' /\ WithinMandate'
    BY <1>1, <1>2, WithinStays DEF Quiet, TablesKept
<1>4. (\A s \in AddonSkus : AddonRowOK(s))' /\ (\A u \in Requests : RequestOK(u, req[u]))'
    BY <1>1, <1>2, NoRequestStep DEF Quiet
<1> QED
    BY <1>1, <1>3, <1>4, ClaimsStand DEF IndInv, Quiet

\* New mandates are typed.
LEMMA NewMandateType ==
    ASSUME NEW id \in Mandates, NEW category \in Categories, NEW nights \in Nat \ {0},
           NEW rooms \in Nat, NEW total \in Nat, NEW refundable \in BOOLEAN
    PROVE  NewMandate(id, category, nights, rooms, total, refundable) \in MandateRecords
<1>1. PICK d : d = total \div nights
    OBVIOUS
<1>2. d \in Nat
    BY <1>1
<1>3. PICK u : u = Max({d, 1})
    OBVIOUS
<1>4. u \in Nat
    <2>1. \E x \in {d, 1} : \A y \in {d, 1} : x >= y
        BY <1>2
    <2>2. u \in {d, 1}
        BY <1>3, <2>1 DEF Max
    <2> QED
        BY <1>2, <2>2
<1>5. NewMandate(id, category, nights, rooms, total, refundable) =
        [spec |-> id, status |-> "LOCKED", currency |-> "INR",
         allowed_categories |-> {category}, blocked_merchants |-> {}, not_before |-> 0,
         expires_at |-> 1, max_unit |-> u, max_total |-> total, max_transactions |-> 1,
         nights |-> nights, rooms |-> rooms, require_refundable |-> refundable,
         max_price_delta_bps |-> 1000]
    BY <1>1, <1>3 DEF NewMandate
<1>6. {category} \in SUBSET Categories /\ {} \in SUBSET STRING
    OBVIOUS
<1> QED
    BY <1>4, <1>5, <1>6 DEF MandateRecords

\* A buyer's mandate.
LEMMA CreateMandateStep ==
    ASSUME IndInv, NEW b \in Buyers, CreateMandate(b)
    PROVE  IndInv'
<1>1. PICK n : n = NewMandate(MandateOf[b], "travel.hotel", Nights, Rooms, Budget, TRUE)
    OBVIOUS
<1>2. b \in Requests /\ MandateOf[b] \in Mandates /\ MandateOf[b] \notin Addons
    BY OwnMandate, StorefrontConstants DEF Requests
<1>3. n \in MandateRecords
    <2>1. PICK c : c = "travel.hotel"
        OBVIOUS
    <2>2. c \in Categories
        BY <2>1 DEF Categories
    <2>3. Nights \in Nat \ {0} /\ Rooms \in Nat /\ Budget \in Nat
        BY StorefrontConstants
    <2>4. NewMandate(MandateOf[b], c, Nights, Rooms, Budget, TRUE) \in MandateRecords
        BY <1>2, <2>2, <2>3, NewMandateType
    <2> QED
        BY <1>1, <2>1, <2>4
<1>4. mandate[MandateOf[b]] = Nothing /\ mandate' = [mandate EXCEPT ![MandateOf[b]] = n]
    BY <1>1 DEF CreateMandate, M
<1>5. UNCHANGED <<price, version, purchase, addon, req, walk, faults>>
    BY DEF CreateMandate
<1>6. TypeOK'
    <2>1. mandate' \in [Mandates -> MandateRecords \cup {Nothing}]
        BY <1>2, <1>3, <1>4 DEF IndInv, TypeOK
    <2> QED
        BY <1>5, <2>1 DEF IndInv, TypeOK
<1>7. \A m \in Mandates \ {MandateOf[b]} : mandate'[m] = mandate[m]
    BY <1>4 DEF IndInv, TypeOK
<1>8. MandatesKept
    BY <1>4, <1>7 DEF MandatesKept, SameBounds
<1>9. NoneMinted
    <2>1. Addons \subseteq Mandates \ {MandateOf[b]}
        BY <1>2, StorefrontConstants DEF Mandates, Requests
    <2> QED
        BY <1>7, <2>1 DEF NoneMinted
<1>10. TablesKept
    <2>1. PurchasesKept
        BY <1>5 DEF PurchasesKept
    <2> QED
        BY <1>5, <1>8, <2>1 DEF TablesKept, CatalogKept
<1>11. PurchasesAreKeyed' /\ WithinMandate'
    BY <1>5, <1>6, <1>8, WithinStays
<1>12. (\A s \in AddonSkus : AddonRowOK(s))' /\ (\A u \in Requests : RequestOK(u, req[u]))'
    BY <1>5, <1>6, <1>9, <1>10, NoRequestStep
<1> QED
    BY <1>5, <1>6, <1>11, <1>12, ClaimsStand DEF IndInv

\* A revocation changes a status only.
LEMMA RevokeStep ==
    ASSUME IndInv, NEW m \in Mandates, Revoke(m)
    PROVE  IndInv'
<1>1. StatusOnly
    <2>1. PICK s : s = "REVOKED"
        OBVIOUS
    <2>2. s \in {"LOCKED", "EXECUTING", "SETTLED", "COMPENSATED", "REVOKED"}
          /\ mandate' = [mandate EXCEPT ![m].status = s] /\ mandate[m] # Nothing
        BY <2>1 DEF Revoke
    <2> QED
        BY <2>2, StatusChange DEF IndInv
<1>2. UNCHANGED <<price, version, purchase, addon, req, walk>> /\ faults' \in 0..MaxFaults
    BY StorefrontConstants DEF Revoke, IndInv, TypeOK
<1>3. TypeOK'
    BY <1>1, <1>2 DEF StatusOnly, IndInv, TypeOK
<1>4. NoneMinted
    <2>1. Addons \subseteq Mandates
        BY StorefrontConstants DEF Mandates, Requests
    <2> QED
        BY <1>1, <2>1 DEF StatusOnly, NoneCreated, NoneMinted
<1>5. TablesKept
    <2>1. PurchasesKept
        BY <1>2 DEF PurchasesKept
    <2> QED
        BY <1>1, <1>2, <2>1 DEF TablesKept, CatalogKept, StatusOnly
<1>6. PurchasesAreKeyed' /\ WithinMandate'
    BY <1>1, <1>2, <1>3, WithinStays DEF StatusOnly
<1>7. (\A s \in AddonSkus : AddonRowOK(s))' /\ (\A u \in Requests : RequestOK(u, req[u]))'
    BY <1>2, <1>3, <1>4, <1>5, NoRequestStep
<1> QED
    BY <1>2, <1>3, <1>6, <1>7, ClaimsStand DEF IndInv

\* A price changes with the version.
LEMMA PriceStep ==
    ASSUME IndInv, NEW s \in Skus, NEW p \in Prices, mutate_price(s, p)
    PROVE  IndInv'
<1>1. UNCHANGED <<mandate, purchase, addon, req, faults>> /\ version' = version + 1
    BY DEF mutate_price
<1>2. TypeOK'
    <2>1. price' \in [Skus -> Prices \cup {SeedPrice}]
        BY DEF mutate_price, IndInv, TypeOK
    <2>2. version' \in 1..MaxVersion
        BY StorefrontConstants DEF mutate_price, IndInv, TypeOK
    <2> QED
        BY <1>1, <2>1, <2>2 DEF IndInv, TypeOK
<1>3. TablesKept /\ NoneMinted
    <2>1. PurchasesKept
        BY <1>1 DEF PurchasesKept
    <2> QED
        BY <1>1, <2>1 DEF TablesKept, CatalogKept, MandatesKept, SameBounds, NoneMinted
<1>4. PurchasesAreKeyed' /\ WithinMandate'
    BY <1>1, <1>2, <1>3, WithinStays DEF TablesKept
<1>5. (\A x \in AddonSkus : AddonRowOK(x))' /\ (\A u \in Requests : RequestOK(u, req[u]))'
    BY <1>1, <1>2, <1>3, NoRequestStep
<1> QED
    BY <1>1, <1>2, <1>4, <1>5, ClaimsStand DEF IndInv

-----------------------------------------------------------------------------
(* Steps that change the rows of add-ons.                                  *)

\* Rows that nobody has claimed may be offered or declined.
LEMMA OfferStep ==
    ASSUME IndInv, UNCHANGED <<price, version, mandate, purchase, req, faults>>,
           addon' \in [AddonSkus -> AddonRecords],
           \A s \in AddonSkus :
               \/ addon'[s] = addon[s]
               \/ /\ addon[s].status \in {"none", "offered"}
                  /\ addon'[s].status \in {"offered", "declined"}
    PROVE  IndInv'
<1>1. TypeOK'
    BY DEF IndInv, TypeOK
<1>2. TablesKept
    <2>1. PurchasesKept
        BY DEF PurchasesKept
    <2> QED
        BY <2>1 DEF TablesKept, CatalogKept, MandatesKept, SameBounds
<1>3. PurchasesAreKeyed' /\ WithinMandate'
    BY <1>1, <1>2, WithinStays DEF TablesKept
<1>4. ASSUME NEW s \in AddonSkus PROVE AddonRowOK(s)'
    <2>1. AddonRowOK(s)
        BY DEF IndInv
    <2>2. CASE addon'[s] = addon[s]
        BY <2>1, <2>2 DEF AddonRowOK, HasCompleted
    <2>3. CASE addon[s].status \in {"none", "offered"} /\ addon'[s].status \in {"offered", "declined"}
        BY <2>1, <2>3 DEF AddonRowOK
    <2> QED
        BY <2>2, <2>3
<1>5. ASSUME NEW u \in Requests PROVE RequestOK(u, req[u])'
    <2>1. PICK y : y = req[u]
        OBVIOUS
    <2>2. y \in RequestRecords /\ RequestOK(u, y)
        BY <2>1, Knows
    <2>3. RowKept(u)
        <3>1. u \in Addons => Sku(u) \in AddonSkus
            BY OwnMandate
        <3> QED
            BY <3>1 DEF RowKept
    <2>4. RequestOK(u, y)'
        BY <1>2, <2>2, <2>3, RequestStays DEF IndInv
    <2>5. req'[u] = y
        BY <2>1
    <2> QED
        BY <2>4, <2>5 DEF RequestOK, TermsAreLive, IsAllowed, HasRows
<1> QED
    BY <1>1, <1>3, <1>4, <1>5, ClaimsStand DEF IndInv

\* The offers of a booking are listed.
LEMMA ListStep ==
    ASSUME IndInv, list_eligible_offers
    PROVE  IndInv'
<1>1. \A s \in AddonSkus : addon[s] \in AddonRecords
    BY DEF IndInv, TypeOK
<1>2. \A s \in AddonSkus : record_offered(s) \in AddonRecords
    BY <1>1 DEF record_offered, AddonRecords
<1>3. addon' = [s \in AddonSkus |-> IF Offered(s) THEN record_offered(s) ELSE addon[s]]
    BY DEF list_eligible_offers
<1>4. addon' \in [AddonSkus -> AddonRecords]
    BY <1>1, <1>2, <1>3
<1>5. ASSUME NEW s \in AddonSkus
      PROVE  \/ addon'[s] = addon[s]
             \/ /\ addon[s].status \in {"none", "offered"}
                /\ addon'[s].status \in {"offered", "declined"}
    BY <1>3 DEF record_offered
<1> QED
    BY <1>4, <1>5, OfferStep DEF list_eligible_offers

\* The offers not taken are declined.
LEMMA DeclineStep ==
    ASSUME IndInv, decline_all_offered
    PROVE  IndInv'
<1>1. \A s \in AddonSkus : addon[s] \in AddonRecords
    BY DEF IndInv, TypeOK
<1>2. ASSUME NEW s \in AddonSkus
      PROVE  /\ [addon[s] EXCEPT !.status = "declined"] \in AddonRecords
             /\ [addon[s] EXCEPT !.status = "declined"].status = "declined"
    BY <1>1 DEF AddonRecords
<1>3. addon' = [s \in AddonSkus |->
                  IF addon[s].status = "offered" THEN [addon[s] EXCEPT !.status = "declined"]
                  ELSE addon[s]]
    BY DEF decline_all_offered
<1>4. addon' \in [AddonSkus -> AddonRecords]
    BY <1>1, <1>2, <1>3
<1>5. ASSUME NEW s \in AddonSkus
      PROVE  \/ addon'[s] = addon[s]
             \/ /\ addon[s].status \in {"none", "offered"}
                /\ addon'[s].status \in {"offered", "declined"}
    BY <1>2, <1>3
<1> QED
    BY <1>4, <1>5, OfferStep DEF decline_all_offered

\* Request a resolves the row it has claimed.
ResolvesRow(a, row) ==
    /\ addon' = [addon EXCEPT ![Sku(a)] = row]
    /\ row.owner = a /\ row.status \in {"settled", "failed"}
    /\ row.status = "settled" => req[a].pc = "paid"
    /\ req[a].pc \in {"paid", "failed"}
    /\ req' = [req EXCEPT ![a] = [Idle EXCEPT !.pc = "done"]]
    /\ UNCHANGED <<price, version, mandate, purchase, faults>>

\* It leaves a row that is true.
LEMMA ResolveRowStep ==
    ASSUME IndInv, NEW a \in Addons, NEW row \in AddonRecords, ResolvesRow(a, row)
    PROVE  IndInv'
<1>1. PICK z \in RequestRecords : z = [Idle EXCEPT !.pc = "done"] /\ z.pc = "done"
    BY IdleBecomes DEF Places
<1>2. req' = [req EXCEPT ![a] = z] /\ a \in Requests /\ Sku(a) \in AddonSkus
    BY <1>1, OwnMandate DEF ResolvesRow, Requests
<1>3. TypeOK'
    <2>1. req' \in [Requests -> RequestRecords]
        BY <1>2 DEF IndInv, TypeOK
    <2>2. addon' \in [AddonSkus -> AddonRecords]
        BY DEF IndInv, TypeOK, ResolvesRow
    <2> QED
        BY <2>1, <2>2 DEF IndInv, TypeOK, ResolvesRow
<1>4. TablesKept
    <2>1. PurchasesKept
        BY DEF PurchasesKept, ResolvesRow
    <2> QED
        BY <2>1 DEF TablesKept, CatalogKept, MandatesKept, SameBounds, ResolvesRow
<1>5. PurchasesAreKeyed' /\ WithinMandate'
    BY <1>3, <1>4, WithinStays DEF TablesKept, ResolvesRow
<1>6. /\ addon[Sku(a)] = [status |-> "pending", owner |-> a]
      /\ row.status = "settled" => HasCompleted(a)
    BY <1>2, Knows DEF RequestOK, HasRows, Minted, ResolvesRow
<1>7. ASSUME NEW s \in AddonSkus PROVE AddonRowOK(s)'
    <2>1. AddonRowOK(s)
        BY DEF IndInv
    <2>2. CASE s = Sku(a)
        <3>1. addon'[s] = row
            BY <1>2, <2>2 DEF ResolvesRow, IndInv, TypeOK
        <3>2. row.owner = a /\ row.status \in {"settled", "failed"} /\ a \in Addons
            BY DEF ResolvesRow
        <3>3. SkuOf[a] = s /\ \A x \in Addons : SkuOf[x] = s /\ mandate[x] # Nothing => x = a
            BY <1>6, <2>1, <2>2 DEF AddonRowOK, Sku
        <3>4. row.status = "settled" => HasCompleted(a)'
            BY <1>6 DEF HasCompleted, ResolvesRow
        <3>5. mandate' = mandate
            BY DEF ResolvesRow
        <3> QED
            BY <3>1, <3>2, <3>3, <3>4, <3>5 DEF AddonRowOK, HasCompleted
    <2>3. CASE s # Sku(a)
        <3>1. addon'[s] = addon[s] /\ mandate' = mandate /\ purchase' = purchase
            BY <2>3 DEF ResolvesRow, IndInv, TypeOK
        <3>2. addon[s].status = "pending" =>
                  addon[s].owner \in Addons /\ req'[addon[s].owner] = req[addon[s].owner]
            <4>1. addon[s].status = "pending" => addon[s].owner \in Addons /\ addon[s].owner # a
                BY <2>1, <2>3 DEF AddonRowOK, Sku
            <4> QED
                BY <1>2, <4>1 DEF IndInv, TypeOK, Requests
        <3> QED
            BY <2>1, <3>1, <3>2 DEF AddonRowOK, HasCompleted
    <2> QED
        BY <2>2, <2>3
<1>8. ASSUME NEW u \in Requests PROVE RequestOK(u, req[u])'
    <2>1. CASE u = a
        <3>1. req'[u] = z
            BY <1>2, <2>1 DEF IndInv, TypeOK
        <3> QED
            BY <1>1, <3>1
               DEF RequestOK, TermsAreLive, IsAllowed, HasRows, Quoted, Proposed, Minted
    <2>2. CASE u # a
        <3>1. PICK y : y = req[u]
            OBVIOUS
        <3>2. y \in RequestRecords /\ RequestOK(u, y)
            BY <3>1, Knows
        <3>3. RowKept(u)
            <4>1. u \in Addons => Sku(u) \in AddonSkus
                BY OwnMandate
            <4>2. addon[Sku(u)] = [status |-> "pending", owner |-> u] => Sku(u) # Sku(a)
                BY <1>6, <2>2
            <4> QED
                BY <4>1, <4>2 DEF RowKept, ResolvesRow, IndInv, TypeOK
        <3>4. RequestOK(u, y)'
            BY <1>4, <3>2, <3>3, RequestStays DEF IndInv
        <3>5. req'[u] = y
            BY <1>2, <2>2, <3>1 DEF IndInv, TypeOK
        <3> QED
            BY <3>4, <3>5 DEF RequestOK, TermsAreLive, IsAllowed, HasRows
    <2> QED
        BY <2>1, <2>2
<1>9. ClaimsHeld'
    <2>1. Becomes(a, z) /\ HoldsClaim(a, z)'
        BY <1>1, <1>2 DEF Becomes, HoldsClaim
    <2> QED
        BY <1>2, <2>1, ClaimsStay DEF ResolvesRow
<1> QED
    BY <1>3, <1>5, <1>7, <1>8, <1>9 DEF IndInv

\* The row of an add-on that was paid for, or was not.
LEMMA MarkStep ==
    ASSUME IndInv, NEW a \in Addons, MarkFailed(a) \/ MarkSettled(a)
    PROVE  IndInv'
<1>1. a \in Requests /\ Sku(a) \in AddonSkus
    BY OwnMandate DEF Requests
<1>2. addon[Sku(a)] = [status |-> "pending", owner |-> a]
    BY <1>1, Knows DEF RequestOK, HasRows, Minted, MarkFailed, MarkSettled, At
<1>3. PICK failed, settled : /\ failed = [status |-> "failed", owner |-> a]
                             /\ settled = [status |-> "settled", owner |-> a]
    OBVIOUS
<1>4. failed \in AddonRecords /\ settled \in AddonRecords
    BY <1>3 DEF AddonRecords
<1>5. CASE MarkFailed(a)
    <2>1. addon' = [addon EXCEPT ![Sku(a)] = failed]
        <3>1. failed = [addon[Sku(a)] EXCEPT !.status = "failed"]
            BY <1>2, <1>3
        <3>2. addon' = [addon EXCEPT ![Sku(a)].status = "failed"]
            BY <1>5 DEF MarkFailed, mark_failed
        <3> QED
            BY <3>1, <3>2
    <2>2. ResolvesRow(a, failed)
        BY <1>3, <1>5, <2>1 DEF ResolvesRow, MarkFailed, Answer, At
    <2> QED
        BY <1>4, <2>2, ResolveRowStep
<1>6. CASE MarkSettled(a)
    <2>1. addon' = [addon EXCEPT ![Sku(a)] = settled]
        <3>1. settled = [addon[Sku(a)] EXCEPT !.status = "settled"]
            BY <1>2, <1>3
        <3>2. addon' = [addon EXCEPT ![Sku(a)].status = "settled"]
            BY <1>6 DEF MarkSettled, mark_settled
        <3> QED
            BY <3>1, <3>2
    <2>2. ResolvesRow(a, settled)
        BY <1>3, <1>6, <2>1 DEF ResolvesRow, MarkSettled, Answer, At
    <2> QED
        BY <1>4, <2>2, ResolveRowStep
<1> QED
    BY <1>5, <1>6

\* An add-on is claimed: its row, its mandate and its quote in one step.
LEMMA ClaimStep ==
    ASSUME IndInv, NEW a \in Addons, AddonClaim(a)
    PROVE  IndInv'
<1>1. PICK s, n, k, quote :
          /\ s = Sku(a) /\ k = _pricing_multiplier(Item[s].category)
          /\ n = NewMandate(a, Item[s].category, k, 1, req[a].seen * k, Item[s].refundable)
          /\ quote = Quote(a, k)
    OBVIOUS
<1>2. /\ a \in Requests /\ a \in Mandates /\ s \in AddonSkus /\ s \in Skus /\ MandateOf[a] = a
      /\ req[a].pc = "claim" /\ req[a].pc \notin Unresolved
    BY <1>1, OwnMandate DEF Requests, AddonClaim, At, Unresolved, Minted, Quoted
<1>3. UNCHANGED <<price, version, purchase, walk, faults>>
    BY DEF AddonClaim
<1>4. CASE ~Claimable(s)
    BY <1>1, <1>2, <1>4, QuietAnswer DEF AddonClaim, Quiet
<1>5. CASE Claimable(s)
    <2>1. /\ addon' = [addon EXCEPT ![s] = [status |-> "pending", owner |-> a]]
          /\ mandate' = [mandate EXCEPT ![a] = n]
          /\ req' = [req EXCEPT ![a].pc = "hash", ![a].quote = quote]
        BY <1>1, <1>5 DEF AddonClaim
    <2>2. k \in Nat /\ k > 0
        <3>1. k > 0
            BY <1>1, <1>2, Knows DEF RequestOK, TermsAreLive
        <3>2. Nights \in Nat /\ Rooms \in Nat
            BY StorefrontConstants
        <3>3. Nights * Rooms \in Nat
            BY <3>2
        <3> QED
            BY <1>1, <3>1, <3>2, <3>3 DEF _pricing_multiplier
    <2>3. req[a].seen \in Nat /\ req[a].seen > 0
        BY <1>2, Knows DEF RequestOK, TermsAreLive, RequestRecords
    <2>4. n \in MandateRecords /\ n # Nothing
        <3>1. Item[s].category \in Categories /\ Item[s].refundable \in BOOLEAN
            BY <1>1, <1>2, Knows DEF Categories
        <3>2. PICK total : total = req[a].seen * k
            OBVIOUS
        <3>3. total \in Nat /\ k \in Nat \ {0} /\ 1 \in Nat
            BY <2>2, <2>3, <3>2
        <3>4. n = NewMandate(a, Item[s].category, k, 1, total, Item[s].refundable)
            BY <1>1, <3>2
        <3>5. n \in MandateRecords
            BY <1>2, <3>1, <3>3, <3>4, NewMandateType
        <3> QED
            BY <3>5, NothingAssumption
    <2>5. /\ quote \in QuoteRecords /\ quote # Nothing /\ quote.unit = req[a].seen
          /\ quote.nights = k /\ quote.version = version
        BY <1>1, <1>2, <2>2, QuoteType
    <2>6. PICK z \in RequestRecords : Becomes(a, z) /\ z.pc = "hash" /\ z.quote = quote
        BY <1>2, <2>1, <2>5, QuoteBecomes DEF IndInv
    <2>7. req' = [req EXCEPT ![a] = z]
        BY <2>6 DEF Becomes
    <2>8. TypeOK'
        <3>1. req' \in [Requests -> RequestRecords]
            BY <2>6, <2>7 DEF IndInv, TypeOK
        <3>2. mandate' \in [Mandates -> MandateRecords \cup {Nothing}]
            BY <2>1, <2>4 DEF IndInv, TypeOK
        <3>3. addon' \in [AddonSkus -> AddonRecords]
            <4>1. [status |-> "pending", owner |-> a] \in AddonRecords
                BY DEF AddonRecords
            <4> QED
                BY <2>1, <4>1 DEF IndInv, TypeOK
        <3> QED
            BY <1>3, <3>1, <3>2, <3>3 DEF IndInv, TypeOK
    <2>9. \A x \in Addons : SkuOf[x] = s => mandate[x] = Nothing
        BY <1>2, <1>5 DEF IndInv, AddonRowOK, Claimable
    <2>10. mandate[a] = Nothing /\ \A m \in Mandates \ {a} : mandate'[m] = mandate[m]
        BY <1>1, <2>1, <2>9 DEF Sku, IndInv, TypeOK
    <2>11. TablesKept
        <3>1. PurchasesKept
            BY <1>3 DEF PurchasesKept
        <3>2. MandatesKept
            BY <2>10 DEF MandatesKept, SameBounds
        <3> QED
            BY <1>3, <3>1, <3>2 DEF TablesKept, CatalogKept
    <2>12. PurchasesAreKeyed' /\ WithinMandate'
        BY <1>3, <2>8, <2>11, WithinStays DEF TablesKept
    <2>13. mandate'[a] = n
        BY <1>2, <2>1 DEF IndInv, TypeOK
    <2>14. ASSUME NEW t \in AddonSkus PROVE AddonRowOK(t)'
        <3>1. AddonRowOK(t)
            BY DEF IndInv
        <3>2. Addons \subseteq Mandates /\ Addons \subseteq Requests
            BY StorefrontConstants DEF Mandates, Requests
        <3>3. CASE t = s
            <4>1. addon'[t].status = "pending" /\ addon'[t].owner = a
                BY <1>2, <2>1, <3>3 DEF IndInv, TypeOK
            <4>2. \A x \in Addons : SkuOf[x] = t /\ mandate'[x] # Nothing => x = a
                BY <2>9, <2>10, <3>2, <3>3
            <4>3. SkuOf[a] = t
                BY <1>1, <3>3 DEF Sku
            <4>4. req'[a].pc \in Minted
                BY <1>2, <2>6, <2>7 DEF IndInv, TypeOK, Minted, Quoted
            <4> QED
                BY <4>1, <4>2, <4>3, <4>4 DEF AddonRowOK
        <3>4. CASE t # s
            <4>1. addon'[t] = addon[t]
                BY <2>1, <3>4 DEF IndInv, TypeOK
            <4>2. \A x \in Addons : SkuOf[x] = t => mandate'[x] = mandate[x]
                BY <1>1, <2>10, <3>2, <3>4 DEF Sku
            <4>3. addon[t].status = "pending" => req'[addon[t].owner] = req[addon[t].owner]
                <5>1. addon[t].status = "pending" => addon[t].owner \in Addons /\ addon[t].owner # a
                    BY <1>2, <3>1 DEF AddonRowOK, Unresolved
                <5> QED
                    BY <2>7, <3>2, <5>1 DEF IndInv, TypeOK
            <4> QED
                BY <1>3, <3>1, <4>1, <4>2, <4>3 DEF AddonRowOK, HasCompleted
        <3> QED
            BY <3>3, <3>4
    <2>15. ASSUME NEW u \in Requests PROVE RequestOK(u, req[u])'
        <3>1. CASE u = a
            <4>1. req'[u] = z /\ M(u)' # Nothing
                BY <1>2, <2>4, <2>7, <2>13, <3>1 DEF IndInv, TypeOK, M
            <4>2. addon'[Sku(u)] = [status |-> "pending", owner |-> u]
                BY <1>1, <1>2, <2>1, <3>1 DEF IndInv, TypeOK
            <4>3. version' = version /\ version \in Nat
                BY <1>3, <1>2, Knows
            <4>4. z.quote # Nothing /\ z.quote.version <= version' /\ z.quote.unit > 0 /\ z.quote.nights > 0
                BY <2>2, <2>3, <2>5, <2>6, <4>3
            <4> QED
                BY <2>6, <4>1, <4>2, <4>4
                   DEF RequestOK, TermsAreLive, IsAllowed, HasRows, Proposed, Minted
        <3>2. CASE u # a
            <4>1. PICK y : y = req[u]
                OBVIOUS
            <4>2. y \in RequestRecords /\ RequestOK(u, y)
                BY <4>1, Knows
            <4>3. RowKept(u)
                <5>1. addon[s].status # "pending"
                    BY <1>5 DEF Claimable
                <5>2. addon[Sku(u)] = [status |-> "pending", owner |-> u] => Sku(u) # s
                    BY <5>1
                <5>3. u \in Addons => Sku(u) \in AddonSkus
                    BY OwnMandate
                <5> QED
                    BY <2>1, <5>2, <5>3 DEF RowKept, IndInv, TypeOK
            <4>4. RequestOK(u, y)'
                BY <2>11, <4>2, <4>3, RequestStays DEF IndInv
            <4>5. req'[u] = y
                BY <2>7, <3>2, <4>1 DEF IndInv, TypeOK
            <4> QED
                BY <4>4, <4>5 DEF RequestOK, TermsAreLive, IsAllowed, HasRows
        <3> QED
            BY <3>1, <3>2
    <2>16. ClaimsHeld'
        <3>1. HoldsClaim(a, z)'
            BY <2>6 DEF HoldsClaim
        <3> QED
            BY <1>2, <1>3, <2>6, <3>1, ClaimsStay
    <2> QED
        BY <2>8, <2>12, <2>14, <2>15, <2>16 DEF IndInv
<1> QED
    BY <1>4, <1>5

-----------------------------------------------------------------------------
(* The theorems.                                                           *)

\* The storefront starts with nothing sold.
LEMMA InitOK ==
    ASSUME Init
    PROVE  IndInv
<1>1. TypeOK
    <2>1. Idle \in RequestRecords
        BY DEF Idle, RequestRecords, Places
    <2>2. price \in [Skus -> Prices \cup {SeedPrice}] /\ version \in 1..MaxVersion
          /\ faults \in 0..MaxFaults
        BY StorefrontConstants DEF Init
    <2>3. addon \in [AddonSkus -> AddonRecords]
        BY DEF Init, AddonRecords
    <2> QED
        BY <2>1, <2>2, <2>3 DEF Init, TypeOK
<1>2. PurchasesAreKeyed
    BY FS_EmptySet DEF Init, PurchasesAreKeyed
<1>3. WithinMandate
    BY DEF Init, WithinMandate
<1>4. \A s \in AddonSkus : AddonRowOK(s)
    <2>1. \A a \in Addons : mandate[a] = Nothing
        BY StorefrontConstants DEF Init, Mandates, Requests
    <2> QED
        BY <2>1 DEF Init, AddonRowOK
<1>5. \A q \in Requests : RequestOK(q, req[q])
    <2>1. \A q \in Requests : req[q].pc = "idle"
        BY DEF Init, Idle
    <2> QED
        BY <2>1 DEF RequestOK, TermsAreLive, IsAllowed, HasRows, Quoted, Proposed, Minted
<1>6. ClaimsHeld
    BY DEF Init, Idle, ClaimsHeld, HoldsClaim
<1> QED
    BY <1>1, <1>2, <1>3, <1>4, <1>5, <1>6 DEF IndInv

\* Every step keeps the invariant.
LEMMA NextOK ==
    ASSUME IndInv, [Next]_vars
    PROVE  IndInv'
<1>1. ASSUME NEW q \in Requests, Step(q) PROVE IndInv'
    BY <1>1, BuyerHashStep, ReplayStep, InFlightStep, AdmitStep, OrderCreatedStep,
       OrderFailsStep, CompleteStep,
       ProposeReadStep, EvaluateStep, DenyStep DEF Step
<1>2. ASSUME NEW b \in Buyers, CreateMandate(b) \/ BuyerStep(b) PROVE IndInv'
    <2>1. b \in Requests
        BY DEF Requests
    <2> QED
        BY <1>1, <1>2, <2>1, CreateMandateStep, QuoteReadStep, QuotePinStep DEF BuyerStep
<1>3. ASSUME NEW a \in Addons, AddonStep(a) PROVE IndInv'
    <2>1. a \in Requests
        BY DEF Requests
    <2> QED
        BY <1>1, <1>3, <2>1, AddonPriceStep, ClaimStep, NotReadyStep,
           AbortStep, MarkStep DEF AddonStep
<1>4. CASE NextPage
    BY <1>4, NothingStep DEF NextPage, Quiet
<1>5. CASE UNCHANGED vars
    BY <1>5, NothingStep DEF vars, Quiet
<1> QED
    BY <1>2, <1>3, <1>4, <1>5, AbortStep, RevokeStep, PriceStep, ListStep, DeclineStep DEF Next

\* What the tables hold and what each request has read always agree, whatever
\* the interleaving, the price changes, the revocations and the crashes.
THEOREM StorefrontInvariant == Spec => []IndInv
<1>1. Init => IndInv
    BY InitOK
<1>2. IndInv /\ [Next]_vars => IndInv'
    BY NextOK
<1> QED
    BY <1>1, <1>2, PTL DEF Spec

\* What a mandate's purchases hold never exceeds its cap or its unit cap, for
\* any number of sessions proposing under it: G4 adds up what is held now.
THEOREM PurchasesStayWithinMandates == Spec => []WithinMandate
<1>1. IndInv => WithinMandate
    BY DEF IndInv
<1> QED
    BY <1>1, StorefrontInvariant, PTL

\* An add-on of a booking is paid for at most once: the row that
\* try_mark_pending claims belongs to the one request that minted a mandate.
THEOREM AddonsAreBoughtOnce == Spec => []AddonBoughtOnce
<1>1. ASSUME IndInv, NEW s \in AddonSkus
      PROVE  Cardinality({a \in Addons : SkuOf[a] = s /\ mandate[a] # Nothing}) <= 1
    <2>1. PICK D, o : /\ D = {a \in Addons : SkuOf[a] = s /\ mandate[a] # Nothing}
                      /\ o = addon[s].owner
        OBVIOUS
    <2>2. D \subseteq {o}
        <3>1. AddonRowOK(s) /\ addon[s] \in AddonRecords
            BY <1>1 DEF IndInv, TypeOK
        <3>2. \A a \in Addons : SkuOf[a] = s /\ mandate[a] # Nothing => a = o
            BY <2>1, <3>1 DEF AddonRowOK, AddonRecords
        <3> QED
            BY <2>1, <3>2
    <2>3. IsFiniteSet({o}) /\ Cardinality({o}) = 1
        BY FS_Singleton
    <2>4. Cardinality(D) <= Cardinality({o})
        BY <2>2, <2>3, FS_Subset
    <2> QED
        BY <2>1, <2>3, <2>4
<1>2. IndInv => AddonBoughtOnce
    BY <1>1 DEF AddonBoughtOnce
<1> QED
    BY <1>2, StorefrontInvariant, PTL

\* The row an add-on leaves is true, and the tables are well typed.
THEOREM AddonRowsAreTrue == Spec => []AddonRowIsTrue
<1>1. ASSUME IndInv, NEW s \in AddonSkus
      PROVE  /\ addon[s].status = "pending" =>
                    req[addon[s].owner].pc \notin {"idle", "claim", "done"}
             /\ addon[s].status = "settled" =>
                    \E p \in purchase : p.mandate = addon[s].owner /\ p.status = "COMPLETED"
             /\ addon[s].status = "declined" =>
                    \A a \in Addons : SkuOf[a] = s => mandate[a] = Nothing
    <2>1. AddonRowOK(s)
        BY <1>1 DEF IndInv
    <2> QED
        BY <2>1 DEF AddonRowOK, HasCompleted, Minted, Quoted
<1>2. IndInv => AddonRowIsTrue
    BY <1>1 DEF AddonRowIsTrue, IndInv
<1> QED
    BY <1>2, StorefrontInvariant, PTL

-----------------------------------------------------------------------------
(* The price at which a purchase is admitted.                              *)

\* A quotient rounded down is less than one off.
LEMMA RoundedDown ==
    ASSUME NEW n \in Nat, NEW t \in Nat \ {0}, NEW bps \in Nat, n \div t <= bps
    PROVE  n < (bps + 1) * t
<1>1. PICK k : k = n \div t
    OBVIOUS
<1>2. k \in Nat /\ k <= bps
    BY <1>1
<1>3. n < (k + 1) * t
    BY <1>1
<1>4. (k + 1) * t <= (bps + 1) * t
    BY <1>2
<1>5. (k + 1) * t \in Nat /\ (bps + 1) * t \in Nat
    BY <1>2
<1> QED
    BY <1>3, <1>4, <1>5

\* The gate admits an intent whose quote has the catalog's version.
LEMMA AdmitIsLive ==
    ASSUME IndInv, NEW q \in Requests, Admit(q)
    PROVE  LET i == req[q].intent IN
           Distance(price[Sku(q)] * i.nights, i.total) * 10000
               < (M(q).max_price_delta_bps + 1) * i.total
<1>1. req[q].pc = "gate" /\ req[q].quote.version = version
    BY DEF Admit, At, GateCode, G5
<1>2. PICK i, bps, live, t :
          /\ i = req[q].intent /\ bps = M(q).max_price_delta_bps
          /\ live = price[Sku(q)] * i.nights /\ t = i.total
    OBVIOUS
<1>3. i.current = live
    BY <1>1, <1>2, Knows DEF RequestOK, TermsAreLive
<1>4. delta_bps(i) <= bps
    BY <1>1, <1>2, Knows DEF RequestOK, IsAllowed
<1>5. bps \in Nat
    BY <1>1, <1>2, ProposalIs DEF MandateRecords
<1>6. live \in Nat /\ t \in Nat /\ t > 0
    <2>1. PICK u, n, p : u = req[q].quote.unit /\ n = req[q].quote.nights /\ p = price[Sku(q)]
        OBVIOUS
    <2>2. u \in Nat /\ n \in Nat /\ u > 0 /\ n > 0 /\ p \in Nat
        BY <1>1, <2>1, Knows DEF RequestOK, TermsAreLive, RequestRecords, QuoteRecords, Quoted
    <2>3. i.nights = n /\ t = u * n
        BY <1>1, <1>2, <2>1, Knows DEF RequestOK, TermsAreLive, IsOfQuote, Proposed
    <2>4. live = p * n
        BY <1>2, <2>1, <2>3
    <2> QED
        BY <2>2, <2>3, <2>4
<1>7. PICK d : d = Distance(live, t) * 10000
    OBVIOUS
<1>8. d \in Nat
    BY <1>6, <1>7 DEF Distance
<1>9. d \div t <= bps
    BY <1>2, <1>3, <1>4, <1>6, <1>7 DEF delta_bps
<1>10. d < (bps + 1) * t
    BY <1>5, <1>6, <1>8, <1>9, RoundedDown
<1> QED
    BY <1>2, <1>7, <1>10

\* No other step takes a request from the gate to the order.
LEMMA OnlyAdmitOrders ==
    ASSUME IndInv, [Next]_vars, NEW q \in Requests, req[q].pc = "gate", req'[q].pc = "order"
    PROVE  Admit(q)
<1>1. ASSUME NEW r \in Requests, NEW z, Becomes(r, z), r # q PROVE FALSE
    BY <1>1 DEF Becomes, IndInv, TypeOK
<1>2. ASSUME NEW z, Becomes(q, z), z.pc # "order" PROVE FALSE
    BY <1>2 DEF Becomes, IndInv, TypeOK
<1>3. ASSUME NEW r \in Requests, NEW code, Reject(r, code) PROVE FALSE
    <2>1. PICK z \in RequestRecords : Becomes(r, z) /\ z.pc \in {"failed", "requote", "done"}
        BY <1>3, RejectBecomes DEF IndInv
    <2> QED
        BY <1>1, <1>2, <2>1
<1>4. ASSUME NEW r \in Requests, NEW pc \in Places \ {"order"}, Goto(r, pc) PROVE FALSE
    <2>1. PICK z \in RequestRecords : Becomes(r, z) /\ z.pc = pc
        BY <1>4, GotoBecomes DEF IndInv
    <2> QED
        BY <1>1, <1>2, <1>4, <2>1
<1>5. ASSUME NEW r \in Requests, NEW code, Answer(r, code) PROVE FALSE
    <2>1. PICK z \in RequestRecords : z = [Idle EXCEPT !.pc = "done"] /\ z.pc = "done"
        BY IdleBecomes DEF Places
    <2>2. Becomes(r, z)
        BY <1>5, <2>1 DEF Answer, Becomes
    <2> QED
        BY <1>1, <1>2, <2>1, <2>2
<1>6. ASSUME NEW r \in Requests, Step(r) PROVE Admit(q)
    <2>1. CASE At(r, "gate") \/ At(r, "order") \/ At(r, "accepted")
        <3>1. CASE Admit(r)
            <4>1. PICK z : Becomes(r, z)
                BY <3>1 DEF Admit, Goto, Becomes
            <4> QED
                BY <1>1, <3>1, <4>1
        <3>2. CASE ~Admit(r)
            <4>1. \/ \E code : Reject(r, code) \/ Answer(r, code)
                  \/ \E pc \in {"accepted", "paid", "failed"} : Goto(r, pc)
                <5>1. CASE Replay(r)
                    BY <5>1, Zenon DEF Replay
                <5>2. CASE InFlight(r) \/ OrderFails(r) \/ \E late \in Deadlines : Deny(r, late)
                    BY <5>2, Zenon DEF InFlight, OrderFails, Deny
                <5>3. CASE OrderCreated(r)
                    BY <5>3 DEF OrderCreated
                <5>4. CASE Complete(r)
                    BY <5>4 DEF Complete
                <5> QED
                    BY <1>6, <2>1, <3>2, <5>1, <5>2, <5>3, <5>4
                       DEF Step, At, BuyerHash, ProposeRead, Evaluate
            <4> QED
                BY <1>3, <1>4, <1>5, <4>1 DEF Places
        <3> QED
            BY <3>1, <3>2
    <2>2. CASE ~(At(r, "gate") \/ At(r, "order") \/ At(r, "accepted"))
        <3>1. PICK z : Becomes(r, z)
            <4>1. ASSUME NEW pc, Goto(r, pc) PROVE \E z : Becomes(r, z)
                BY <4>1 DEF Goto, Becomes
            <4>2. ASSUME NEW code, Answer(r, code) PROVE \E z : Becomes(r, z)
                BY <4>2 DEF Answer, Becomes
            <4>3. ASSUME NEW code, Reject(r, code) PROVE \E z : Becomes(r, z)
                BY <4>1, <4>2, <4>3 DEF Reject, Becomes
            <4>4. BuyerHash(r) \/ \E late \in Deadlines : ProposeRead(r, late) \/ Evaluate(r, late)
                BY <1>6, <2>2 DEF Step, At, Replay, InFlight, Admit, OrderCreated, OrderFails,
                   Complete, Deny
            <4> QED
                BY <4>1, <4>3, <4>4 DEF BuyerHash, ProposeRead, Evaluate, Saw, Becomes
        <3>2. r # q
            BY <2>2 DEF At
        <3> QED
            BY <1>1, <3>1, <3>2
    <2> QED
        BY <2>1, <2>2
<1>7. Buyers \subseteq Requests /\ Addons \subseteq Requests
    BY DEF Requests
<1>8. ASSUME NEW r \in Requests, ~At(r, "gate"),
             QuoteRead(r) \/ QuotePin(r) \/ AddonPrice(r) \/ AddonClaim(r) \/ NotReady(r)
             \/ ProviderRaises(r) \/ MarkFailed(r) \/ MarkSettled(r)
      PROVE  FALSE
    <2>1. \E z : Becomes(r, z)
        BY <1>8 DEF QuoteRead, QuotePin, AddonPrice, AddonClaim, NotReady, ProviderRaises,
           MarkFailed, MarkSettled, Goto, Saw, Answer, Abort, Becomes
    <2> QED
        BY <1>1, <1>8, <2>1 DEF At
<1>9. ASSUME NEW r \in Requests, Crash(r) PROVE FALSE
    <2>1. PICK z \in RequestRecords : z = [Idle EXCEPT !.pc = "aborted"] /\ z.pc = "aborted"
        BY IdleBecomes DEF Places
    <2>2. Becomes(r, z)
        BY <1>9, <2>1 DEF Crash, Abort, Becomes
    <2> QED
        BY <1>1, <1>2, <2>1, <2>2
<1>10. req' # req
    OBVIOUS
<1>11. CASE \E b \in Buyers : BuyerStep(b)
    BY <1>6, <1>7, <1>8, <1>11 DEF BuyerStep, QuoteRead, QuotePin, At
<1>12. CASE \E a \in Addons : AddonStep(a)
    BY <1>6, <1>7, <1>8, <1>12 DEF AddonStep, AddonPrice, AddonClaim, NotReady, ProviderRaises,
       MarkFailed, MarkSettled, At
<1> QED
    BY <1>9, <1>10, <1>11, <1>12 DEF Next, vars, CreateMandate, Revoke, mutate_price,
       list_eligible_offers, decline_all_offered, NextPage

\* Whatever the gate admits is near the price that is live at that moment,
\* although no step holds a lock on the catalog: a price changes only with
\* the version, which G5 compares.
THEOREM AdmissionIsNearLivePrice == Spec => AdmittedAtLivePrice
<1>1. ASSUME IndInv, [Next]_vars, NEW q \in Requests,
             At(q, "gate") /\ At(q, "order")'
      PROVE  LET i == req[q].intent IN
             Distance(price[Sku(q)] * i.nights, i.total) * 10000
                 < (M(q).max_price_delta_bps + 1) * i.total
    <2>1. Admit(q)
        BY <1>1, OnlyAdmitOrders DEF At
    <2> QED
        BY <1>1, <2>1, AdmitIsLive
<1>2. IndInv /\ [Next]_vars =>
          [\A q \in Requests : At(q, "gate") /\ At(q, "order")' =>
              LET i == req[q].intent IN
              Distance(price[Sku(q)] * i.nights, i.total) * 10000
                  < (M(q).max_price_delta_bps + 1) * i.total]_vars
    BY <1>1
<1> QED
    BY <1>2, StorefrontInvariant, PTL DEF Spec, AdmittedAtLivePrice

-----------------------------------------------------------------------------
(* The catalog, page after page.                                           *)

\* Item s is listed after item t.
Later(s, t) == After(Position(s), Position(t))

\* Items are listed in one order: by price, and by SKU where prices are equal.
LEMMA LaterOrders ==
    ASSUME TypeOK
    PROVE  /\ \A s, t \in Skus : s # t => Later(s, t) \/ Later(t, s)
           /\ \A s, t \in Skus : Later(s, t) => ~Later(t, s)
           /\ \A s, t, u \in Skus : Later(s, t) /\ Later(t, u) => Later(s, u)
<1>1. \A s \in Skus : price[s] \in Nat /\ Item[s].rank \in Nat
    BY StorefrontConstants DEF TypeOK
<1>2. \A s, t \in Skus : Item[s].rank = Item[t].rank => s = t
    BY StorefrontConstants
<1>3. \A s, t : Later(s, t) <=>
          (price[s] > price[t] \/ (price[s] = price[t] /\ Item[s].rank > Item[t].rank))
    BY DEF Later, After, Position
<1> QED
    BY <1>1, <1>2, <1>3

\* A set of items that is not empty has a last one.
LEMMA LastExists ==
    ASSUME TypeOK, NEW S, S \subseteq Skus, S # {}
    PROVE  \E m \in S : \A a \in S : ~Later(a, m)
<1> DEFINE Bad == {u \in SUBSET S : u # {} /\ \A m \in u : \E a \in u : Later(a, m)}
<1> SUFFICES ASSUME S \in Bad PROVE FALSE
    OBVIOUS
<1>1. PICK s \in Bad : \A u \in Bad : u \subseteq s => u = s
  <2>1. Bad # {} /\ Bad \subseteq SUBSET Skus
    OBVIOUS
  <2> HIDE DEF Bad
  <2> QED BY <2>1, SmallestIn, StorefrontConstants
<1>2. PICK x \in s : TRUE
    OBVIOUS
<1> DEFINE t == s \ {x}
<1>3. s \subseteq Skus /\ \A m \in s : \E a \in s : Later(a, m)
    OBVIOUS
<1>4. PICK y \in s : Later(y, x)
    BY <1>2, <1>3
<1>5. y # x
    BY <1>3, <1>4, LaterOrders
<1>6. ASSUME NEW m \in t PROVE \E a \in t : Later(a, m)
  <2>1. PICK a \in s : Later(a, m)
    BY <1>3
  <2>2. CASE a # x
    BY <2>1, <2>2
  <2>3. CASE a = x
    <3>1. Later(y, m)
      BY <2>1, <2>3, <1>3, <1>4, LaterOrders
    <3> QED
      BY <3>1, <1>4, <1>5
  <2> QED
    BY <2>2, <2>3
<1>7. t \in Bad
    BY <1>4, <1>5, <1>6
<1> QED
    BY <1>1, <1>2, <1>7

IsListed(rows) == \A i, j \in DOMAIN rows : i < j => ~Later(rows[i], rows[j])

\* Every set of items can be listed in order.
LEMMA ListExists ==
    ASSUME TypeOK, NEW S, S \subseteq Skus
    PROVE  \E s \in SetToSeqs(S) : IsListed(s)
<1> DEFINE Bad == {u \in SUBSET S : ~ \E s \in SetToSeqs(u) : IsListed(s)}
<1> SUFFICES ASSUME S \in Bad PROVE FALSE
    OBVIOUS
<1>1. PICK u \in Bad : \A t \in Bad : t \subseteq u => t = u
  <2>1. Bad # {} /\ Bad \subseteq SUBSET Skus
    OBVIOUS
  <2> HIDE DEF Bad
  <2> QED BY <2>1, SmallestIn, StorefrontConstants
<1>2. u \subseteq S /\ u \subseteq Skus /\ ~ \E s \in SetToSeqs(u) : IsListed(s)
    OBVIOUS
<1>3. IsFiniteSet(u)
    BY <1>2, StorefrontConstants, FS_Subset
<1>4. CASE u = {}
  <2>1. Cardinality(u) = 0
    BY <1>4, FS_EmptySet
  <2>2. PICK e : e = [i \in 1..0 |-> 0]
    OBVIOUS
  <2>3. e \in [1..0 -> u] /\ DOMAIN e = {}
    BY <2>2
  <2>4. e \in SetToSeqs(u)
    BY <2>1, <2>3 DEF SetToSeqs
  <2>5. IsListed(e)
    BY <2>3 DEF IsListed
  <2> QED
    BY <1>2, <2>4, <2>5
<1>5. CASE u # {}
  <2>1. PICK m \in u : \A a \in u : ~Later(a, m)
    BY <1>2, <1>5, LastExists
  <2>2. PICK t : t = u \ {m}
    OBVIOUS
  <2>3. t \notin Bad /\ t \subseteq S
    BY <1>1, <1>2, <2>1, <2>2
  <2>4. PICK s \in SetToSeqs(t) : IsListed(s)
    BY <2>3
  <2>5. PICK n \in Nat : n = Cardinality(t) /\ Cardinality(u) = n + 1
    <3>1. IsFiniteSet(t) /\ Cardinality(t) = Cardinality(u) - 1
      BY <1>3, <2>1, <2>2, FS_RemoveElement
    <3>2. Cardinality(t) \in Nat /\ Cardinality(u) \in Nat
      BY <1>3, <3>1, FS_CardinalityType
    <3> QED
      BY <3>1, <3>2
  <2>6. s \in [1..n -> t] /\ \A i, j \in 1..n : i # j => s[i] # s[j]
    BY <2>4, <2>5 DEF SetToSeqs
  <2>7. PICK z : z = [i \in 1..n+1 |-> IF i = n + 1 THEN m ELSE s[i]]
    OBVIOUS
  <2>8. DOMAIN z = 1..n+1 /\ z[n+1] = m /\ \A i \in 1..n : z[i] = s[i] /\ s[i] \in t
    BY <2>6, <2>7
  <2>9. z \in [1..n+1 -> u] /\ \A i, j \in 1..n+1 : i # j => z[i] # z[j]
    <3>1. \A i \in 1..n+1 : i = n + 1 \/ i \in 1..n
      OBVIOUS
    <3>2. z \in [1..n+1 -> u]
      BY <2>1, <2>2, <2>7, <2>8, <3>1
    <3>3. \A i \in 1..n : z[i] # m
      BY <2>2, <2>8
    <3> QED
      BY <2>6, <2>8, <3>1, <3>2, <3>3
  <2>10. z \in SetToSeqs(u)
    BY <2>5, <2>9 DEF SetToSeqs
  <2>11. IsListed(z)
    <3> SUFFICES ASSUME NEW i \in 1..n+1, NEW j \in 1..n+1, i < j PROVE ~Later(z[i], z[j])
      BY <2>8 DEF IsListed
    <3>1. i \in 1..n /\ z[i] \in u
      BY <2>2, <2>8
    <3>2. CASE j = n + 1
      BY <2>1, <2>8, <3>1, <3>2
    <3>3. CASE j # n + 1
      <4>1. j \in 1..n /\ DOMAIN s = 1..n
        BY <3>3, <2>6
      <4> QED
        BY <2>4, <2>8, <3>1, <4>1 DEF IsListed
    <3> QED
      BY <3>2, <3>3
  <2> QED
    BY <1>2, <2>10, <2>11
<1> QED
    BY <1>4, <1>5

\* The items after the cursor.
Left == {s \in Skus : After(Position(s), walk.cursor)}

\* The n rows of a page query: each item after the cursor once, in order.
AreRows(rows, n) ==
    /\ rows \in [1..n -> Left] /\ rows \in Seq(Skus) /\ Len(rows) = n
    /\ \A i, j \in 1..n : i # j => rows[i] # rows[j]
    /\ \A s \in Left : \E i \in 1..n : rows[i] = s
    /\ \A i, j \in 1..n : i < j => Later(rows[j], rows[i])

LEMMA RowsAre ==
    ASSUME TypeOK
    PROVE  \E n \in Nat : AreRows(Rows, n)
<1> DEFINE S == Left
<1>1. S \subseteq Skus /\ IsFiniteSet(S)
    BY StorefrontConstants, FS_Subset DEF Left
<1>2. Rows \in SetToSeqs(S) /\ IsListed(Rows)
  <2>1. \E s \in SetToSeqs(S) : IsListed(s)
    BY <1>1, ListExists
  <2> QED
    BY <2>1, Zenon DEF Rows, IsListed, Later, Left
<1>3. PICK rows, n : rows = Rows /\ n = Cardinality(S) /\ n \in Nat
    BY <1>1, FS_CardinalityType
<1>4. rows \in [1..n -> S] /\ \A i, j \in 1..n : i # j => rows[i] # rows[j]
    BY <1>2, <1>3 DEF SetToSeqs
<1>5. rows \in Seq(Skus) /\ Len(rows) = n /\ DOMAIN rows = 1..n
    BY <1>1, <1>3, <1>4
<1>6. \A s \in S : \E i \in 1..n : rows[i] = s
  <2>1. rows \in Injection(1..n, S)
    BY <1>4 DEF Injection, IsInjective
  <2>2. Cardinality(1..n) = n
    BY <1>3, FS_Interval
  <2>3. rows \in Surjection(1..n, S)
    BY <1>1, <1>3, <2>1, <2>2, FS_Injection
  <2> QED
    BY <2>3, <1>4 DEF Surjection
<1>7. \A i, j \in 1..n : i < j => Later(rows[j], rows[i])
  <2> SUFFICES ASSUME NEW i \in 1..n, NEW j \in 1..n, i < j PROVE Later(rows[j], rows[i])
    OBVIOUS
  <2>1. rows[i] \in Skus /\ rows[j] \in Skus /\ rows[i] # rows[j]
    BY <1>1, <1>4
  <2>2. ~Later(rows[i], rows[j])
    BY <1>2, <1>3, <1>5 DEF IsListed
  <2> QED
    BY <2>1, <2>2, LaterOrders
<1> QED
    BY <1>3, <1>4, <1>5, <1>6, <1>7 DEF AreRows

\* Appending a page to what was shown: an item is shown once if one of the two
\* parts shows it once and the other does not show it.
Shown(seq, s) == \E i \in DOMAIN seq : seq[i] = s /\ \A j \in DOMAIN seq : seq[j] = s => j = i
Hidden(seq, s) == \A i \in DOMAIN seq : seq[i] # s

LEMMA AppendedShown ==
    ASSUME NEW got \in Seq(Skus), NEW page \in Seq(Skus), NEW s \in Skus
    PROVE  /\ Shown(got, s) /\ Hidden(page, s) => Shown(got \o page, s)
           /\ Hidden(got, s) /\ Shown(page, s) => Shown(got \o page, s)
           /\ Hidden(got, s) /\ Hidden(page, s) => Hidden(got \o page, s)
<1>1. PICK m \in Nat, k \in Nat : /\ m = Len(got) /\ k = Len(page)
                                 /\ DOMAIN got = 1..m /\ DOMAIN page = 1..k
    OBVIOUS
<1>2. PICK all : all = got \o page
    OBVIOUS
<1>3. DOMAIN all = 1..(m + k)
    BY <1>1, <1>2
<1>4. \A i \in 1..m : all[i] = got[i]
    BY <1>1, <1>2
<1>5. \A i \in 1..k : all[m + i] = page[i]
    BY <1>1, <1>2
<1>6. \A i \in 1..(m + k) : i \in 1..m \/ (i - m \in 1..k /\ all[i] = page[i - m] /\ i = m + (i - m))
  <2> SUFFICES ASSUME NEW i \in 1..(m + k), i \notin 1..m
               PROVE  i - m \in 1..k /\ all[i] = page[i - m] /\ i = m + (i - m)
    OBVIOUS
  <2>1. i - m \in 1..k /\ i = m + (i - m)
    OBVIOUS
  <2> QED
    BY <1>5, <2>1
<1>7. ASSUME Shown(got, s), Hidden(page, s) PROVE Shown(all, s)
  <2>1. PICK i \in 1..m : got[i] = s /\ \A j \in 1..m : got[j] = s => j = i
    BY <1>1, <1>7, Zenon DEF Shown
  <2>2. \A j \in 1..k : page[j] # s
    BY <1>1, <1>7 DEF Hidden
  <2>3. i \in 1..(m + k)
    OBVIOUS
  <2>4. \A j \in 1..(m + k) : all[j] = s <=> j = i
    <3> SUFFICES ASSUME NEW j \in 1..(m + k) PROVE all[j] = s <=> j = i
      OBVIOUS
    <3>1. CASE j \in 1..m
      BY <3>1, <2>1, <1>4
    <3>2. CASE j \notin 1..m
      BY <3>2, <2>2, <1>6
    <3> QED
      BY <3>1, <3>2
  <2>5. all[i] = s /\ \A j \in 1..(m + k) : all[j] = s => j = i
    BY <2>3, <2>4
  <2> QED
    BY <1>3, <2>3, <2>5, Zenon DEF Shown
<1>8. ASSUME Hidden(got, s), Shown(page, s) PROVE Shown(all, s)
  <2>1. PICK i \in 1..k : page[i] = s /\ \A j \in 1..k : page[j] = s => j = i
    BY <1>1, <1>8, Zenon DEF Shown
  <2>2. \A j \in 1..m : got[j] # s
    BY <1>1, <1>8 DEF Hidden
  <2>3. m + i \in 1..(m + k) /\ m + i \notin 1..m
    OBVIOUS
  <2>4. \A j \in 1..(m + k) : all[j] = s <=> j = m + i
    <3> SUFFICES ASSUME NEW j \in 1..(m + k) PROVE all[j] = s <=> j = m + i
      OBVIOUS
    <3>1. CASE j \in 1..m
      BY <3>1, <2>2, <2>3, <1>4
    <3>2. CASE j \notin 1..m
      <4>1. j - m \in 1..k /\ all[j] = page[j - m] /\ j = m + (j - m)
        BY <3>2, <1>6
      <4>2. all[j] = s <=> j - m = i
        BY <4>1, <2>1
      <4> QED
        BY <4>2
    <3> QED
      BY <3>1, <3>2
  <2>5. all[m + i] = s /\ \A j \in 1..(m + k) : all[j] = s => j = m + i
    BY <2>3, <2>4
  <2> QED
    BY <1>3, <2>3, <2>5, Zenon DEF Shown
<1>9. ASSUME Hidden(got, s), Hidden(page, s) PROVE Hidden(all, s)
  <2>1. \A j \in 1..m : got[j] # s
    BY <1>1, <1>9 DEF Hidden
  <2>2. \A j \in 1..k : page[j] # s
    BY <1>1, <1>9 DEF Hidden
  <2> QED
    BY <1>3, <1>4, <1>6, <2>1, <2>2 DEF Hidden
<1> QED
    BY <1>2, <1>7, <1>8, <1>9

\* What a page does to the walk: it shows the first k rows, all of them when
\* it is the last page, and the cursor is at the last row shown.
LEMMA PageIs ==
    ASSUME TypeOK, WalkOK, NextPage
    PROVE  \E rows \in Seq(Skus), page \in Seq(Skus), k \in Nat :
             /\ rows = Rows /\ k <= Len(rows) /\ Len(page) = k /\ \A i \in 1..k : page[i] = rows[i]
             /\ k = Len(rows) \/ (Len(rows) > k /\ k = PageSize /\ k > 0)
             /\ walk' = [cursor |-> IF k = 0 THEN walk.cursor ELSE Position(rows[k]),
                         got |-> walk.got \o page, touched |-> walk.touched,
                         more |-> Len(rows) > PageSize]
             /\ Len(rows) > PageSize <=> Len(rows) # k
<1>1. PICK rows \in Seq(Skus) : rows = Rows
    BY RowsAre DEF AreRows
<1>2. PageSize \in Nat \ {0} /\ Len(rows) \in Nat
    BY StorefrontConstants
<1>3. PICK k : k = Min({PageSize, Len(rows)})
    OBVIOUS
<1>4. /\ k \in Nat /\ k <= Len(rows)
      /\ (k = Len(rows) /\ ~(Len(rows) > PageSize)) \/ (Len(rows) > PageSize /\ k = PageSize)
  <2>1. \E x \in {PageSize, Len(rows)} : \A y \in {PageSize, Len(rows)} : x <= y
    BY <1>2
  <2>2. k \in {PageSize, Len(rows)} /\ k <= PageSize /\ k <= Len(rows)
    BY <1>3, <2>1, Zenon DEF Min
  <2> QED
    BY <1>2, <2>2
<1>5. PICK page : page = SubSeq(rows, 1, k)
    OBVIOUS
<1>6. page \in Seq(Skus) /\ Len(page) = k /\ \A i \in 1..k : page[i] = rows[i]
    BY <1>1, <1>2, <1>4, <1>5
<1>7. page = <<>> <=> k = 0
    BY <1>4, <1>6
<1>8. k # 0 => Last(page) = rows[k]
    BY <1>2, <1>4, <1>6 DEF Last
<1>9. walk' = [walk EXCEPT !.got = @ \o page,
                           !.more = Len(rows) > PageSize,
                           !.cursor = IF page = <<>> THEN @ ELSE Position(Last(page))]
    BY <1>1, <1>3, <1>5, Zenon DEF NextPage
<1>10. PICK c : c = IF page = <<>> THEN walk.cursor ELSE Position(Last(page))
    OBVIOUS
<1>11. c = IF k = 0 THEN walk.cursor ELSE Position(rows[k])
    BY <1>7, <1>8, <1>10
<1>12. walk' = [cursor |-> c, got |-> walk.got \o page, touched |-> walk.touched,
                more |-> Len(rows) > PageSize]
  <2>1. walk' = [walk EXCEPT !.got = walk.got \o page, !.more = Len(rows) > PageSize, !.cursor = c]
    BY <1>9, <1>10, Zenon
  <2> QED
    BY <2>1 DEF WalkOK
<1>13. walk' = [cursor |-> IF k = 0 THEN walk.cursor ELSE Position(rows[k]),
                got |-> walk.got \o page, touched |-> walk.touched,
                more |-> Len(rows) > PageSize]
    BY <1>11, <1>12, Zenon
<1>14. /\ k = Len(rows) \/ (Len(rows) > k /\ k = PageSize /\ k > 0)
       /\ Len(rows) > PageSize <=> Len(rows) # k
    BY <1>2, <1>4
<1> QED
    BY <1>1, <1>4, <1>6, <1>13, <1>14, Zenon

\* A page keeps the walk's account: it shows the items after the old cursor
\* and up to the new one, and none that was shown.
LEMMA PageStep ==
    ASSUME TypeOK, WalkOK, NextPage
    PROVE  WalkOK'
<1>1. PICK rows \in Seq(Skus), page \in Seq(Skus), k \in Nat :
             /\ rows = Rows /\ k <= Len(rows) /\ Len(page) = k /\ \A i \in 1..k : page[i] = rows[i]
             /\ k = Len(rows) \/ (Len(rows) > k /\ k = PageSize /\ k > 0)
             /\ walk' = [cursor |-> IF k = 0 THEN walk.cursor ELSE Position(rows[k]),
                         got |-> walk.got \o page, touched |-> walk.touched,
                         more |-> Len(rows) > PageSize]
             /\ Len(rows) > PageSize <=> Len(rows) # k
    BY PageIs
<1>2. PICK S : S = Left
    OBVIOUS
<1>3. PICK n \in Nat :
          /\ rows \in [1..n -> S] /\ Len(rows) = n
          /\ \A i, j \in 1..n : i # j => rows[i] # rows[j]
          /\ \A s \in S : \E i \in 1..n : rows[i] = s
          /\ \A i, j \in 1..n : i < j => Later(rows[j], rows[i])
  <2>1. PICK n \in Nat : AreRows(Rows, n)
    BY RowsAre
  <2>2. AreRows(rows, n)
    BY <1>1, <2>1
  <2> QED
    BY <1>2, <2>2 DEF AreRows
<1>4. PICK got \in Seq(Skus), c \in Nat \X Nat, t \in SUBSET Skus :
          got = walk.got /\ c = walk.cursor /\ t = walk.touched
    BY DEF WalkOK
<1>5. walk.more
    BY DEF NextPage
<1>6. \A s \in Skus \ t : IF s \in S THEN Hidden(got, s) ELSE Shown(got, s)
    BY <1>2, <1>4, <1>5 DEF WalkOK, Left, Hidden, Shown, ShownOnce
<1>7. DOMAIN page = 1..k /\ k <= n /\ k \in Nat
    BY <1>1, <1>3
<1>8. PICK all, d : all = got \o page /\ d = IF k = 0 THEN c ELSE Position(rows[k])
    OBVIOUS
<1>9. walk' = [cursor |-> d, got |-> all, touched |-> t, more |-> n # k]
  <2>1. (Len(rows) > PageSize) = (n # k)
    BY <1>1, <1>3
  <2> QED
    BY <1>1, <1>4, <1>8, <2>1, Zenon
<1>10. \A s \in Skus \ t : s \notin S => Shown(all, s)
  <2> SUFFICES ASSUME NEW s \in Skus \ t, s \notin S PROVE Shown(all, s)
    OBVIOUS
  <2>1. Hidden(page, s)
    BY <1>1, <1>3, <1>7 DEF Hidden
  <2> QED
    BY <1>6, <1>8, <2>1, AppendedShown
<1>11. ASSUME NEW h \in 1..k, rows[h] \in Skus \ t PROVE Shown(all, rows[h])
  <2>1. rows[h] \in S
    BY <1>3, <1>7
  <2>2. page[h] = rows[h] /\ \A j \in 1..k : page[j] = rows[h] => j = h
    BY <1>1, <1>3, <1>7
  <2>3. Shown(page, rows[h])
    BY <1>7, <2>2, Zenon DEF Shown
  <2> QED
    BY <1>6, <1>8, <1>11, <2>1, <2>3, AppendedShown
<1>12. ASSUME NEW h \in 1..n, h > k, rows[h] \in Skus \ t PROVE Hidden(all, rows[h])
  <2>1. rows[h] \in S
    BY <1>3
  <2>2. Hidden(page, rows[h])
    BY <1>1, <1>3, <1>7, <1>12 DEF Hidden
  <2> QED
    BY <1>6, <1>8, <1>12, <2>1, <2>2, AppendedShown
<1>13. \A s \in Skus : price[s] \in Nat /\ Item[s].rank \in Nat
    BY StorefrontConstants DEF TypeOK
<1>14. d \in Nat \X Nat
  <2>1. k # 0 => rows[k] \in Skus
    BY <1>1, <1>3, <1>7
  <2> QED
    BY <1>4, <1>8, <1>13, <2>1 DEF Position
<1>15. walk' \in [cursor : Nat \X Nat, got : Seq(Skus), touched : SUBSET Skus, more : BOOLEAN]
  <2>1. all \in Seq(Skus)
    BY <1>8
  <2> QED
    BY <1>4, <1>9, <1>14, <2>1
<1>16. \A s : Position(s)' = Position(s)
    BY DEF NextPage, Position
<1>17. ASSUME n # k, NEW s \in Skus \ t
       PROVE  IF After(Position(s), d) THEN Hidden(all, s) ELSE Shown(all, s)
  <2>1. k \in 1..n /\ k > 0 /\ rows[k] \in S /\ rows[k] \in Skus
    BY <1>1, <1>2, <1>3, <1>7, <1>17 DEF Left
  <2>2. d = Position(rows[k])
    BY <1>8, <2>1
  <2>3. After(Position(s), d) <=> Later(s, rows[k])
    BY <2>2 DEF Later
  <2>4. CASE s \notin S
    <3>1. ~After(Position(s), c) /\ After(Position(rows[k]), c)
      BY <1>2, <1>4, <2>1, <2>4 DEF Left
    <3>2. PICK x \in Nat, y \in Nat : c = <<x, y>>
      BY <1>4
    <3>3. PICK r \in Skus : r = rows[k]
      BY <2>1
    <3>4. /\ ~(price[s] > x \/ (price[s] = x /\ Item[s].rank > y))
          /\ price[r] > x \/ (price[r] = x /\ Item[r].rank > y)
      BY <3>1, <3>2, <3>3 DEF After, Position
    <3>5. ~(price[s] > price[r] \/ (price[s] = price[r] /\ Item[s].rank > Item[r].rank))
      BY <1>13, <3>4
    <3>6. ~Later(s, rows[k])
      BY <3>3, <3>5 DEF Later, After, Position
    <3> QED
      BY <1>10, <2>3, <2>4, <3>6
  <2>5. CASE s \in S
    <3>1. PICK h \in 1..n : rows[h] = s
      BY <1>3, <2>5
    <3>2. CASE h <= k
      <4>1. h = k \/ Later(rows[k], s)
        BY <1>3, <2>1, <3>1, <3>2
      <4>2. ~Later(s, rows[k])
        BY <2>1, <3>1, <4>1, LaterOrders
      <4>3. h \in 1..k
        BY <1>7, <3>2
      <4> QED
        BY <1>11, <2>3, <3>1, <4>2, <4>3
    <3>3. CASE h > k
      BY <1>3, <1>12, <2>1, <2>3, <3>1, <3>3
    <3> QED
      BY <1>7, <3>2, <3>3
  <2> QED
    BY <2>4, <2>5
<1>18. ASSUME n = k, NEW s \in Skus \ t PROVE Shown(all, s)
  <2>1. CASE s \in S
    BY <1>3, <1>11, <1>18, <2>1
  <2> QED
    BY <1>10, <2>1
<1>19. /\ walk'.more = (n # k) /\ walk'.touched = t
       /\ \A s : ShownOnce(s)' <=> Shown(all, s)
       /\ \A s : After(Position(s), walk.cursor)' <=> After(Position(s), d)
       /\ \A s : (\A i \in DOMAIN walk'.got : walk'.got[i] # s) <=> Hidden(all, s)
  <2>1. walk'.more = (n # k) /\ walk'.touched = t /\ walk'.got = all /\ walk'.cursor = d
    BY <1>9
  <2>2. \A s : ShownOnce(s)' <=> Shown(all, s)
    BY <2>1, Zenon DEF Shown, ShownOnce
  <2>3. \A s : (\A i \in DOMAIN walk'.got : walk'.got[i] # s) <=> Hidden(all, s)
    BY <2>1, Zenon DEF Hidden
  <2>4. \A s : After(Position(s), walk.cursor)' <=> After(Position(s), d)
    BY <1>16, <2>1, Zenon DEF After
  <2> QED
    BY <2>1, <2>2, <2>3, <2>4
<1>20. walk'.more => \A s \in Skus \ walk'.touched :
           IF After(Position(s), walk.cursor)'
           THEN \A i \in DOMAIN walk'.got : walk'.got[i] # s
           ELSE ShownOnce(s)'
    BY <1>17, <1>19, Zenon
<1>21. ~walk'.more => \A s \in Skus \ walk'.touched : ShownOnce(s)'
    BY <1>18, <1>19, Zenon
<1> QED
    BY <1>15, <1>20, <1>21, Zenon DEF WalkOK

\* A price change touches its item while the walk goes on, and moves no other.
LEMMA TouchStep ==
    ASSUME TypeOK, WalkOK, NEW s \in Skus, NEW p \in Prices, mutate_price(s, p)
    PROVE  WalkOK'
<1>1. price' = [price EXCEPT ![s] = p] /\ walk' = Touch(s)
    BY DEF mutate_price
<1>2. \A x \in Skus : x # s => Position(x)' = Position(x)
    BY <1>1 DEF TypeOK, Position
<1>3. CASE walk.more
  <2>1. PICK w : w = [walk EXCEPT !.touched = walk.touched \cup {s}]
    OBVIOUS
  <2>2. walk' = w
    BY <1>1, <1>3, <2>1, Zenon DEF Touch
  <2>3. /\ w \in [cursor : Nat \X Nat, got : Seq(Skus), touched : SUBSET Skus, more : BOOLEAN]
        /\ w.more /\ w.got = walk.got /\ w.cursor = walk.cursor
        /\ w.touched = walk.touched \cup {s}
    BY <1>3, <2>1 DEF WalkOK
  <2>4. ASSUME NEW x \in Skus \ w.touched
        PROVE  IF After(Position(x), walk.cursor)'
               THEN \A i \in DOMAIN walk'.got : walk'.got[i] # x
               ELSE ShownOnce(x)'
    <3>1. x \in Skus \ walk.touched /\ x # s /\ x \in Skus
      BY <2>3
    <3>2. After(Position(x), walk.cursor)' <=> After(Position(x), walk.cursor)
      BY <1>2, <2>2, <2>3, <3>1, Zenon DEF After
    <3>3. ShownOnce(x)' <=> ShownOnce(x)
      BY <2>2, <2>3, Zenon DEF ShownOnce
    <3>4. IF After(Position(x), walk.cursor)
          THEN \A i \in DOMAIN walk.got : walk.got[i] # x
          ELSE ShownOnce(x)
      BY <1>3, <3>1, Zenon DEF WalkOK
    <3>5. walk'.got = walk.got
      BY <2>2, <2>3
    <3> QED
      BY <3>2, <3>3, <3>4, <3>5, Zenon
  <2> QED
    BY <2>2, <2>3, <2>4, Zenon DEF WalkOK
<1>4. CASE ~walk.more
  <2>1. walk' = walk
    BY <1>1, <1>4 DEF Touch
  <2>2. \A x : ShownOnce(x)' <=> ShownOnce(x)
    BY <2>1, Zenon DEF ShownOnce
  <2> QED
    BY <1>4, <2>1, <2>2, Zenon DEF WalkOK, NoWalk, NewWalk
<1> QED
    BY <1>3, <1>4

\* A walk that is over is forgotten.
LEMMA ForgetStep ==
    ASSUME walk' = NoWalk
    PROVE  WalkOK'
<1>1. NewWalk \in [cursor : Nat \X Nat, got : Seq(Skus), touched : SUBSET Skus, more : BOOLEAN]
    BY DEF NewWalk
<1>2. PICK w : w = NoWalk
    OBVIOUS
<1>3. /\ w \in [cursor : Nat \X Nat, got : Seq(Skus), touched : SUBSET Skus, more : BOOLEAN]
      /\ ~w.more
    BY <1>1, <1>2 DEF NoWalk
<1>4. NoWalk' = NoWalk
    BY Zenon DEF NoWalk, NewWalk
<1> QED
    BY <1>2, <1>3, <1>4, Zenon DEF WalkOK

\* Neither the catalog nor the walk moves.
LEMMA QuietStep ==
    ASSUME WalkOK, UNCHANGED <<price, walk>>
    PROVE  WalkOK'
<1>1. price' = price /\ walk' = walk
    OBVIOUS
<1>2. \A s : ShownOnce(s)' <=> ShownOnce(s)
    BY <1>1, Zenon DEF ShownOnce
<1>3. \A s : After(Position(s), walk.cursor)' <=> After(Position(s), walk.cursor)
    BY <1>1, Zenon DEF After, Position
<1>4. NoWalk' = NoWalk
    BY Zenon DEF NoWalk, NewWalk
<1> QED
    BY <1>1, <1>2, <1>3, <1>4, Zenon DEF WalkOK

\* Prices are positive: every item is after the first cursor.
LEMMA WalkBegins ==
    ASSUME Init
    PROVE  WalkOK
<1>1. walk = [cursor |-> <<0, 0>>, got |-> <<>>, touched |-> {}, more |-> TRUE]
    BY DEF Init, NewWalk
<1>2. /\ walk \in [cursor : Nat \X Nat, got : Seq(Skus), touched : SUBSET Skus, more : BOOLEAN]
      /\ walk.more /\ DOMAIN walk.got = {} /\ walk.cursor = <<0, 0>>
    BY <1>1
<1>3. \A s \in Skus : price[s] > 0
    BY StorefrontConstants DEF Init
<1>4. \A s \in Skus : After(Position(s), walk.cursor)
    BY <1>2, <1>3 DEF After, Position
<1> QED
    BY <1>2, <1>4 DEF WalkOK

\* Only a page, a change of price and a new quote concern the walk.
LEMMA WalkSteps ==
    ASSUME [Next]_vars
    PROVE  \/ NextPage
           \/ \E s \in Skus, p \in Prices : mutate_price(s, p)
           \/ walk' = NoWalk
           \/ UNCHANGED <<price, walk>>
<1>1. ASSUME NEW q, Step(q) PROVE UNCHANGED <<price, walk>>
    BY <1>1 DEF Step, BuyerHash, Replay, InFlight, Admit, OrderCreated, OrderFails, Complete,
       ProposeRead, Evaluate, Deny
<1>2. ASSUME NEW b, BuyerStep(b) PROVE walk' = NoWalk \/ UNCHANGED <<price, walk>>
    BY <1>1, <1>2 DEF BuyerStep, QuoteRead, QuotePin
<1>3. ASSUME NEW a, AddonStep(a) PROVE UNCHANGED <<price, walk>>
    BY <1>1, <1>3 DEF AddonStep, AddonPrice, AddonClaim, NotReady, ProviderRaises, MarkFailed,
       MarkSettled
<1> QED
    BY <1>2, <1>3 DEF Next, vars, CreateMandate, Crash, Revoke, list_eligible_offers,
       decline_all_offered

\* What the pages have shown, item by item.
THEOREM WalkInvariant == Spec => []WalkOK
<1>1. Init => WalkOK
    BY WalkBegins
<1>2. IndInv /\ WalkOK /\ [Next]_vars => WalkOK'
    BY WalkSteps, PageStep, TouchStep, ForgetStep, QuietStep, Zenon DEF IndInv
<1> QED
    BY <1>1, <1>2, StorefrontInvariant, PTL DEF Spec

\* A buyer who pages through the catalog while prices change sees every item
\* whose price stayed, and sees it once, for every catalog, page size and
\* sequence of changes: the cursor is the position of the last row shown, and
\* no two items have the same position.
THEOREM PagesShowEachUntouchedItemOnce == Spec => []PagesShowUntouchedOnce
<1>1. ASSUME WalkOK, walk # NoWalk PROVE Range(walk.got) \subseteq Skus
  <2>1. PICK got \in Seq(Skus) : got = walk.got
    BY <1>1 DEF WalkOK
  <2>2. \A i \in DOMAIN got : got[i] \in Skus
    OBVIOUS
  <2> QED
    BY <2>1, <2>2 DEF Range
<1>2. ASSUME NEW s \in Skus, ShownOnce(s)
      PROVE  Cardinality({i \in DOMAIN walk.got : walk.got[i] = s}) = 1
  <2>1. PICK i \in DOMAIN walk.got :
            walk.got[i] = s /\ \A j \in DOMAIN walk.got : walk.got[j] = s => j = i
    BY <1>2, Zenon DEF ShownOnce
  <2>2. {j \in DOMAIN walk.got : walk.got[j] = s} = {i}
    BY <2>1, Zenon
  <2>3. Cardinality({i}) = 1
    BY FS_Singleton
  <2> QED
    BY <2>2, <2>3, Zenon
<1>3. ASSUME NEW s \in Skus, \A i \in DOMAIN walk.got : walk.got[i] # s
      PROVE  Cardinality({i \in DOMAIN walk.got : walk.got[i] = s}) = 0
  <2>1. {i \in DOMAIN walk.got : walk.got[i] = s} = {}
    BY <1>3, Zenon
  <2> QED
    BY <2>1, FS_EmptySet, Zenon
<1>4. ASSUME WalkOK, walk # NoWalk, NEW s \in Skus \ walk.touched,
             NEW seen, seen = Cardinality({i \in DOMAIN walk.got : walk.got[i] = s})
      PROVE  seen <= 1 /\ (~walk.more => seen = 1)
  <2>1. s \in Skus /\ walk.more \in BOOLEAN
    BY <1>4 DEF WalkOK
  <2>2. CASE ~walk.more
    <3>1. ShownOnce(s)
      BY <1>4, <2>2, Zenon DEF WalkOK
    <3>2. seen = 1
      BY <1>2, <1>4, <2>1, <3>1
    <3> QED
      BY <3>2
  <2>3. CASE walk.more
    <3>1. ShownOnce(s) \/ \A i \in DOMAIN walk.got : walk.got[i] # s
      BY <1>4, <2>3, Zenon DEF WalkOK
    <3>2. seen = 1 \/ seen = 0
      BY <1>2, <1>3, <1>4, <2>1, <3>1, Zenon
    <3> QED
      BY <2>3, <3>2
  <2> QED
    BY <2>1, <2>2, <2>3
<1>5. WalkOK => PagesShowUntouchedOnce
  <2> SUFFICES ASSUME WalkOK, walk # NoWalk
               PROVE  /\ Range(walk.got) \subseteq Skus
                      /\ \A s \in Skus \ walk.touched :
                            LET seen == Cardinality({i \in DOMAIN walk.got : walk.got[i] = s}) IN
                            seen <= 1 /\ (~walk.more => seen = 1)
    BY DEF PagesShowUntouchedOnce
  <2>1. ASSUME NEW s \in Skus \ walk.touched
        PROVE  LET seen == Cardinality({i \in DOMAIN walk.got : walk.got[i] = s}) IN
               seen <= 1 /\ (~walk.more => seen = 1)
    BY <1>4
  <2> QED
    BY <1>1, <2>1
<1> QED
    BY <1>5, WalkInvariant, PTL
=============================================================================
