--------------------------- MODULE AdvisoryProofs ---------------------------
(***************************************************************************)
(* Proofs about Advisory, for any requests, texts, catalog and mandate,    *)
(* whatever Groq answers, and for any size of the bucket.                  *)
(***************************************************************************)
EXTENDS Advisory, FiniteSetTheorems, WellFoundedInduction, TLAPS

-----------------------------------------------------------------------------
(* Least and greatest numbers.                                             *)

\* A set of naturals that is not empty has a least element.
LEMMA LeastExists ==
    ASSUME NEW S, S \subseteq Nat, S # {}
    PROVE  \E m \in S : \A j \in S : m <= j
<1>1. PICK m \in S : \A j \in S : ~ (<<j, m>> \in OpToRel(<, Nat))
    BY NatLessThanWellFounded, WFMin
<1>2. \A j \in S : ~(j < m)
    BY <1>1 DEF OpToRel
<1> QED
    BY <1>2

\* One that is bounded has a greatest.
LEMMA GreatestExists ==
    ASSUME NEW S, S \subseteq Nat, S # {}, NEW n \in Nat, \A i \in S : i <= n
    PROVE  \E m \in S : \A j \in S : j <= m
<1> DEFINE B == {k \in Nat : \A j \in S : j <= k}
<1>1. PICK m \in B : \A k \in B : m <= k
  <2>1. n \in B
    OBVIOUS
  <2>2. B \subseteq Nat
    OBVIOUS
  <2> HIDE DEF B
  <2> QED
    BY <2>1, <2>2, LeastExists
<1>2. m \in S
  <2> SUFFICES ASSUME m \notin S PROVE FALSE
    OBVIOUS
  <2>1. \A j \in S : j <= m - 1
    OBVIOUS
  <2>2. m - 1 \in Nat
    <3>1. PICK j \in S : j \in Nat
      OBVIOUS
    <3> QED
      BY <2>1, <3>1
  <2>3. m - 1 \in B
    BY <2>1, <2>2
  <2> QED
    BY <2>3, <1>1
<1> QED
    BY <1>1, <1>2

-----------------------------------------------------------------------------
(* Drafts.                                                                 *)

\* The budget is a slot that must be filled, and the currency is one.
LEMMA SlotNames == "max_total_minor" \in Slots /\ "currency" \in Slots
<1>1. REQUIRED_SLOTS[7] = "max_total_minor" /\ REQUIRED_SLOTS[6] = "currency"
    BY DEF REQUIRED_SLOTS
<1>2. 6 \in DOMAIN REQUIRED_SLOTS /\ 7 \in DOMAIN REQUIRED_SLOTS
    BY DEF REQUIRED_SLOTS
<1> QED
    BY <1>1, <1>2 DEF Slots, Range

\* Every slot to ask for is one that must be filled.
LEMMA PrioritiesAreSlots ==
    \A i \in DOMAIN _QUESTION_PRIORITY : _QUESTION_PRIORITY[i] \in Slots
<1>1. DOMAIN REQUIRED_SLOTS = 1..7 /\ DOMAIN _QUESTION_PRIORITY = 1..7
    BY DEF REQUIRED_SLOTS, _QUESTION_PRIORITY
<1>2. \A i \in 1..7 : \E j \in 1..7 : _QUESTION_PRIORITY[i] = REQUIRED_SLOTS[j]
    BY DEF REQUIRED_SLOTS, _QUESTION_PRIORITY
<1> QED
    BY <1>1, <1>2 DEF Slots, Range

\* A question asks for a slot.
LEMMA QuestionType ==
    ASSUME NEW missing
    PROVE  _next_questions(missing) \in {None} \cup Slots
<1> DEFINE open == {i \in DOMAIN _QUESTION_PRIORITY : _QUESTION_PRIORITY[i] \in missing}
<1>1. CASE open = {}
    BY <1>1 DEF _next_questions
<1>2. CASE open # {}
  <2>1. open \subseteq Nat
    BY DEF _QUESTION_PRIORITY
  <2>2. \E m \in open : \A j \in open : m <= j
    <3> HIDE DEF open
    <3> QED BY <1>2, <2>1, LeastExists
  <2>3. (CHOOSE i \in open : \A j \in open : i <= j) \in open
    BY <2>2
  <2> QED
    BY <1>2, <2>3, PrioritiesAreSlots DEF _next_questions
<1> QED
    BY <1>1, <1>2

\* The value of a numeral is an amount.
LEMMA MinorType ==
    ASSUME NEW n \in Finite
    PROVE  Minor(n) \in {None} \cup Nat
<1>1. n.milli \in Int /\ n.k \in BOOLEAN
    BY DEF Finite
<1>2. PICK m \in Int : m = n.milli * (IF n.k THEN 1000 ELSE 1)
    BY <1>1
<1>3. m > 0 => m \div 10 \in Nat
    BY <1>2
<1> QED
    BY <1>2, <1>3 DEF Minor

\* What is verified, and does not raise, is what characters of the text read as.
LEMMA VerifiedIsSaid ==
    ASSUME NEW text \in Seq(Words), NEW ev \in Evidence
    PROVE  LET v == verify_money_evidence(text, ev) IN
           /\ v \in {None, Raised} \cup Nat
           /\ v \notin {None, Raised} => v \in {Minor(n) : n \in Readings(text)}
<1>1. CASE ev.at \in DOMAIN text /\ ev.span \in text[ev.at].spans
  <2>1. text[ev.at] \in Words
    BY <1>1
  <2>2. ev.span \in Numerals
    BY <1>1, <2>1 DEF Words
  <2>3. verify_money_evidence(text, ev) = Value(ev.span)
    BY <1>1 DEF verify_money_evidence
  <2>4. CASE ev.span = NonFinite
    BY <2>3, <2>4 DEF Value
  <2>5. CASE ev.span # NonFinite
    <3>1. ev.span \in Finite
      BY <2>2, <2>5 DEF Numerals
    <3>2. Value(ev.span) = Minor(ev.span)
      BY <2>5 DEF Value
    <3>3. Minor(ev.span) \in {None} \cup Nat
      BY <3>1, MinorType
    <3>4. ev.span \in Readings(text)
      BY <1>1, <2>5 DEF Readings
    <3>5. PICK v : v = Minor(ev.span)
      OBVIOUS
    <3>6. v \in {None} \cup Nat /\ v \in {Minor(n) : n \in Readings(text)}
      BY <3>3, <3>4, <3>5, Zenon
    <3>7. verify_money_evidence(text, ev) = v
      BY <2>3, <3>2, <3>5, Zenon
    <3> QED
      BY <3>6, <3>7
  <2> QED
    BY <2>4, <2>5
<1>2. CASE ~(ev.at \in DOMAIN text /\ ev.span \in text[ev.at].spans)
    BY <1>2 DEF verify_money_evidence
<1> QED
    BY <1>1, <1>2

\* A draft says only what the text reads as, whatever the slots claim.
LEMMA DraftIsSaid ==
    ASSUME NEW text \in Seq(Words), NEW slots \in DraftSlots
    PROVE  \/ build_draft(text, slots) = Raised
           \/ build_draft(text, slots) \in Drafts /\ IsDraftOf(text, build_draft(text, slots))
<1> DEFINE Said == {Minor(n) : n \in Readings(text)}
           verified(ev) == IF ev = None THEN None ELSE verify_money_evidence(text, ev)
           total == verified(slots.total)
           unit == verified(slots.unit)
           missing == missing_required_slots(slots) \cup
                        (IF total = None THEN {"max_total_minor"} ELSE {})
           bound == IF missing = {} THEN unit ELSE None
<1>1. slots.total \in {None} \cup Evidence /\ slots.unit \in {None} \cup Evidence
    BY DEF DraftSlots
<1>2. \A ev \in {None} \cup Evidence :
        /\ verified(ev) \in {None, Raised} \cup Nat
        /\ verified(ev) \notin {None, Raised} => verified(ev) \in Said
    BY VerifiedIsSaid
<1>3. total \in {None, Raised} \cup Nat /\ (total \notin {None, Raised} => total \in Said)
    BY <1>1, <1>2
<1>4. unit \in {None, Raised} \cup Nat /\ (unit \notin {None, Raised} => unit \in Said)
    BY <1>1, <1>2
<1>5. missing \subseteq Slots
    BY SlotNames DEF missing_required_slots
<1>6. _next_questions(missing) \in {None} \cup Slots
    BY QuestionType
<1>7. build_draft(text, slots) =
        IF Raised \in {total, unit} THEN Raised
        ELSE [missing_slots |-> missing, question |-> _next_questions(missing),
              max_total_minor |-> total, max_unit_minor |-> bound]
    BY DEF build_draft
<1> HIDE DEF Said, total, missing, unit
<1>8. CASE total # Raised /\ unit # Raised
  <2>1. build_draft(text, slots) =
          [missing_slots |-> missing, question |-> _next_questions(missing),
           max_total_minor |-> total, max_unit_minor |-> bound]
    BY <1>7, <1>8
  <2>2. bound \in {None} \cup Nat /\ (bound # None => bound \in Said)
    BY <1>4, <1>8
  <2>3. total \in {None} \cup Nat /\ (total # None => total \in Said)
    BY <1>3, <1>8
  <2> HIDE DEF bound
  <2> QED
    BY <1>5, <1>6, <2>1, <2>2, <2>3 DEF Drafts, IsDraftOf, Bounds, Said
<1> QED
    BY <1>7, <1>8

\* The form the fallback fills in is one the model could have filled in.
LEMMA FallbackSlots ==
    ASSUME NEW t \in DOMAIN Texts
    PROVE  deterministic_slots_from_text(Texts[t]) \in DraftSlots
<1>0. PICK text \in Seq(Words) :
        /\ text = Texts[t]
        /\ \A i \in DOMAIN text : text[i].slot = "max_total_minor" => text[i].whole # None
    BY TextsAndClaims
<1> DEFINE money == {i \in DOMAIN text : text[i].slot = "max_total_minor"}
           last == CHOOSE i \in money : \A j \in money : j <= i
           total == IF money = {} THEN None ELSE [at |-> last, span |-> text[last].whole]
           present == ({text[i].slot : i \in DOMAIN text} \ {"max_total_minor", "none"})
                        \cup {"currency"}
<1>1. \A i \in DOMAIN text : text[i] \in Words /\ i \in Nat \ {0} /\ i <= Len(text)
    OBVIOUS
<1>2. present \subseteq Slots
    BY <1>1, SlotNames DEF Words
<1>3. total \in {None} \cup Evidence
  <2>1. CASE money = {}
    BY <2>1
  <2>2. CASE money # {}
    <3>1. money \subseteq Nat /\ Len(text) \in Nat /\ \A i \in money : i <= Len(text)
      BY <1>1
    <3>2. \E m \in money : \A j \in money : j <= m
      <4> HIDE DEF money
      <4> QED BY <2>2, <3>1, GreatestExists
    <3>3. last \in money
      BY <3>2
    <3>4. last \in DOMAIN text
      BY <3>3
    <3> HIDE DEF last
    <3> QED
      BY <2>2, <3>4, <1>1 DEF Evidence, Words, Numerals
  <2> QED
    BY <2>1, <2>2
<1>4. deterministic_slots_from_text(text) = [present |-> present, total |-> total, unit |-> None]
    BY DEF deterministic_slots_from_text
<1> HIDE DEF present, total
<1> QED
    BY <1>0, <1>2, <1>3, <1>4 DEF DraftSlots

-----------------------------------------------------------------------------
(* Rankings.                                                               *)

\* Among the sets of SKUs there is one that contains no other of them.
LEMMA Smallest ==
    ASSUME NEW Bad, Bad \subseteq SUBSET (DOMAIN Items), Bad # {}
    PROVE  \E s \in Bad : \A u \in Bad : u \subseteq s => u = s
<1> DEFINE R == StrictSubsetOrdering(DOMAIN Items)
<1>1. IsWellFoundedOn(R, SUBSET (DOMAIN Items))
    BY CatalogAndOrders, FS_FiniteSubsetsOfFinite, FS_StrictSubsetOrderingWellFounded
<1>2. \A u, s \in SUBSET (DOMAIN Items) : u \subseteq s /\ u # s => <<u, s>> \in R
    BY DEF StrictSubsetOrdering
<1> HIDE DEF R
<1>3. PICK s \in Bad : \A u \in Bad : ~ (<<u, s>> \in R)
    BY <1>1, WFMin
<1> QED
    BY <1>2, <1>3

\* _sort_key orders the SKUs.
LEMMA SortKeyOrders ==
    /\ \A a, b \in DOMAIN Items : a # b => _sort_key(a, b) \/ _sort_key(b, a)
    /\ \A a, b \in DOMAIN Items : _sort_key(a, b) => ~_sort_key(b, a)
    /\ \A a, b, c \in DOMAIN Items :
           _sort_key(a, b) /\ _sort_key(b, c) => _sort_key(a, c)
<1>1. \A a \in DOMAIN Items :
        a \in Int /\ Items[a].unit_price_minor \in Int /\ Items[a].rating \in Int
    BY CatalogAndOrders
<1> QED
    BY <1>1 DEF _sort_key

\* A set of SKUs that is not empty has one that no other comes after.
LEMMA LastExists ==
    ASSUME NEW S, S \subseteq DOMAIN Items, S # {}
    PROVE  \E m \in S : \A a \in S : ~_sort_key(m, a)
<1> DEFINE Bad == {u \in SUBSET S : u # {} /\ \A m \in u : \E a \in u : _sort_key(m, a)}
<1> SUFFICES ASSUME S \in Bad PROVE FALSE
    OBVIOUS
<1>1. PICK s \in Bad : \A u \in Bad : u \subseteq s => u = s
  <2>1. Bad # {} /\ Bad \subseteq SUBSET (DOMAIN Items)
    OBVIOUS
  <2> HIDE DEF Bad
  <2> QED BY <2>1, Smallest
<1>2. PICK x \in s : TRUE
    OBVIOUS
<1> DEFINE t == s \ {x}
<1>3. s \subseteq DOMAIN Items /\ \A m \in s : \E a \in s : _sort_key(m, a)
    OBVIOUS
<1>4. PICK y \in s : _sort_key(x, y)
    BY <1>2, <1>3
<1>5. y # x
    BY <1>3, <1>4, SortKeyOrders
<1>6. ASSUME NEW m \in t PROVE \E a \in t : _sort_key(m, a)
  <2>1. PICK a \in s : _sort_key(m, a)
    BY <1>3
  <2>2. CASE a # x
    BY <2>1, <2>2
  <2>3. CASE a = x
    <3>1. _sort_key(m, y)
      BY <2>1, <2>3, <1>3, <1>4, SortKeyOrders
    <3> QED
      BY <3>1, <1>4, <1>5
  <2> QED
    BY <2>2, <2>3
<1>7. t \in Bad
    BY <1>4, <1>5, <1>6
<1> QED
    BY <1>1, <1>2, <1>7

IsInOrder(s) == \A i, j \in DOMAIN s : i < j => ~_sort_key(s[j], s[i])

\* Every set of SKUs has a sorted sequence of its elements.
LEMMA SortExists ==
    ASSUME NEW S, S \subseteq DOMAIN Items
    PROVE  \E s \in SetToSeqs(S) : IsInOrder(s)
<1> DEFINE Bad == {u \in SUBSET S : ~ \E s \in SetToSeqs(u) : IsInOrder(s)}
<1> SUFFICES ASSUME S \in Bad PROVE FALSE
    OBVIOUS
<1>1. PICK u \in Bad : \A t \in Bad : t \subseteq u => t = u
  <2>1. Bad # {} /\ Bad \subseteq SUBSET (DOMAIN Items)
    OBVIOUS
  <2> HIDE DEF Bad
  <2> QED BY <2>1, Smallest
<1>2. u \subseteq S /\ u \subseteq DOMAIN Items /\ ~ \E s \in SetToSeqs(u) : IsInOrder(s)
    OBVIOUS
<1>3. IsFiniteSet(u)
    BY <1>2, CatalogAndOrders, FS_Subset
<1>4. CASE u = {}
  <2>1. Cardinality(u) = 0
    BY <1>4, FS_EmptySet
  <2>2. PICK e : e = [i \in 1..0 |-> 0]
    OBVIOUS
  <2>3. e \in [1..0 -> u] /\ DOMAIN e = {}
    BY <2>2
  <2>4. e \in SetToSeqs(u)
    BY <2>1, <2>3 DEF SetToSeqs
  <2>5. IsInOrder(e)
    BY <2>3 DEF IsInOrder
  <2> QED
    BY <1>2, <2>4, <2>5
<1>5. CASE u # {}
  <2>1. PICK m \in u : \A a \in u : ~_sort_key(m, a)
    BY <1>2, <1>5, LastExists
  <2>2. PICK t : t = u \ {m}
    OBVIOUS
  <2>3. t \notin Bad /\ t \subseteq S
    BY <1>1, <1>2, <2>1, <2>2
  <2>4. PICK s \in SetToSeqs(t) : IsInOrder(s)
    BY <2>3
  <2>5. PICK n \in Nat : n = Cardinality(t) /\ Cardinality(u) = n + 1
    <3>1. IsFiniteSet(t) /\ Cardinality(t) = Cardinality(u) - 1
      BY <1>3, <2>1, <2>2, FS_RemoveElement
    <3>2. Cardinality(t) \in Nat /\ Cardinality(u) \in Nat
      BY <1>3, <3>1, FS_CardinalityType
    <3> QED
      BY <3>1, <3>2
  <2>6. s \in [1..n -> t] /\ \A i, j \in 1..n : i # j => s[i] # s[j]
    BY <2>4, <2>5 DEF SetToSeqs
  <2>7. PICK z : z = [i \in 1..n+1 |-> IF i = n + 1 THEN m ELSE s[i]]
    OBVIOUS
  <2>8. DOMAIN z = 1..n+1 /\ z[n+1] = m /\ \A i \in 1..n : z[i] = s[i] /\ s[i] \in t
    BY <2>6, <2>7
  <2>9. z \in [1..n+1 -> u] /\ \A i, j \in 1..n+1 : i # j => z[i] # z[j]
    <3>1. \A i \in 1..n+1 : i = n + 1 \/ i \in 1..n
      OBVIOUS
    <3>2. z \in [1..n+1 -> u]
      BY <2>1, <2>2, <2>7, <2>8, <3>1
    <3>3. \A i \in 1..n : z[i] # m
      BY <2>2, <2>8
    <3> QED
      BY <2>6, <2>8, <3>1, <3>2, <3>3
  <2>10. z \in SetToSeqs(u)
    BY <2>5, <2>9 DEF SetToSeqs
  <2>11. IsInOrder(z)
    <3> SUFFICES ASSUME NEW i \in 1..n+1, NEW j \in 1..n+1, i < j PROVE ~_sort_key(z[j], z[i])
      BY <2>8 DEF IsInOrder
    <3>1. i \in 1..n /\ z[i] \in u
      BY <2>2, <2>8
    <3>2. CASE j = n + 1
      BY <2>1, <2>8, <3>1, <3>2
    <3>3. CASE j # n + 1
      <4>1. j \in 1..n /\ DOMAIN s = 1..n
        BY <3>3, <2>6
      <4> QED
        BY <2>4, <2>8, <3>1, <4>1 DEF IsInOrder
    <3> QED
      BY <3>2, <3>3
  <2> QED
    BY <1>2, <2>10, <2>11
<1> QED
    BY <1>4, <1>5

\* The candidates are SKUs of the catalog.
LEMMA CandidatesAreItems ==
    /\ filter_candidates \subseteq DOMAIN Items
    /\ IsFiniteSet(filter_candidates)
    /\ Cardinality(filter_candidates) \in Nat
<1>1. filter_candidates \subseteq DOMAIN Items
    BY DEF filter_candidates
<1> QED
    BY <1>1, CatalogAndOrders, FS_Subset, FS_CardinalityType

\* As many different candidates as there are candidates are all of them.
LEMMA AllCandidates ==
    ASSUME NEW s \in Seq(Int), Len(s) = Cardinality(filter_candidates),
           Cardinality(Range(s)) = Len(s), Range(s) \subseteq filter_candidates
    PROVE  s \in Seq(DOMAIN Items) /\ IsRanking(s)
<1>1. Range(s) = filter_candidates
    BY CandidatesAreItems, FS_Subset
<1>2. \A i \in DOMAIN s : s[i] \in DOMAIN Items
    BY <1>1, CandidatesAreItems DEF Range
<1> QED
    BY <1>1, <1>2 DEF IsRanking

\* The deterministic ranking shows each candidate once, cheapest first.
LEMMA RankedIsRanking ==
    Ranked \in Seq(DOMAIN Items) /\ IsRanking(Ranked) /\ IsCheapestFirst(Ranked)
<1> DEFINE F == filter_candidates
           n == Cardinality(F)
<1>1. Ranked \in SetToSeqs(F) /\ IsInOrder(Ranked)
  <2>1. \E s \in SetToSeqs(F) : IsInOrder(s)
    BY CandidatesAreItems, SortExists
  <2> QED
    BY <2>1, Zenon DEF Ranked, rank, IsInOrder
<1>2. PICK s : s = Ranked
    OBVIOUS
<1>3. n \in Nat /\ s \in [1..n -> F] /\ \A i, j \in 1..n : i # j => s[i] # s[j]
    BY <1>1, <1>2, CandidatesAreItems DEF SetToSeqs
<1>4. s \in Seq(DOMAIN Items) /\ Len(s) = n /\ DOMAIN s = 1..n
    BY <1>3, CandidatesAreItems
<1>5. Range(s) = F
  <2>1. s \in Injection(1..n, F)
    BY <1>3 DEF Injection, IsInjective
  <2>2. Cardinality(1..n) = n
    BY <1>3, FS_Interval
  <2>3. s \in Surjection(1..n, F)
    BY <2>1, <2>2, FS_Injection, CandidatesAreItems
  <2> QED
    BY <2>3, <1>3 DEF Surjection, Range
<1>6. IsCheapestFirst(s)
  <2> SUFFICES ASSUME NEW i \in 1..n, NEW j \in 1..n, i < j
               PROVE  Items[s[i]].unit_price_minor <= Items[s[j]].unit_price_minor
    BY <1>4 DEF IsCheapestFirst
  <2>1. s[i] \in DOMAIN Items /\ s[j] \in DOMAIN Items
    BY <1>3, CandidatesAreItems
  <2>2. ~_sort_key(s[j], s[i])
    BY <1>1, <1>2, <1>4 DEF IsInOrder
  <2> QED
    BY <2>1, <2>2, CatalogAndOrders DEF _sort_key
<1> QED
    BY <1>2, <1>4, <1>5, <1>6 DEF IsRanking

-----------------------------------------------------------------------------
(* How a request is answered.                                              *)

\* Request x is answered, as z.
Final(x, z) ==
    /\ IsRequest(z) /\ z.pc = "done" /\ z.prompt = x.prompt /\ z.now = 0
    /\ IsAnswered(z)

\* Request x asks again, as z.
AsksAgain(x, z) ==
    /\ x.prompt.attempt = 1
    /\ z = [x EXCEPT !.pc = "get", !.prompt.attempt = 2, !.answer = None]

\* The answer is one to p, if there is one.
ToPrompt(p, answer) == answer # None => answer.asked = p /\ answer.said \in Answers(p)

\* A prompt is for one use or the other, and an extraction has its text.
LEMMA PromptUses ==
    ASSUME NEW p \in Prompts
    PROVE  /\ p.use = "extract" \/ p.use = "rank"
           /\ p.use = "extract" => p.text \in DOMAIN Texts /\ Texts[p.text] \in Seq(Words)
           /\ p.attempt \in 1..2
           /\ [p EXCEPT !.attempt = 2] \in Prompts
BY TextsAndClaims DEF Prompts

\* A draft from any slots, verified against the request's own text.
LEMMA DraftEnds ==
    ASSUME NEW r \in Requests, req[r].prompt \in Prompts, req[r].prompt.use = "extract",
           NEW slots \in DraftSlots, NEW answer, ToPrompt(req[r].prompt, answer),
           Draft(r, slots, answer)
    PROVE  \E z : req' = [req EXCEPT ![r] = z] /\ Final(req[r], z)
<1>1. PICK p \in Prompts : p = req[r].prompt
    OBVIOUS
<1>2. PICK text \in Seq(Words) : text = Texts[p.text]
    BY <1>1, PromptUses
<1>3. PICK draft : /\ draft = build_draft(text, slots)
                   /\ draft = Raised \/ (draft \in Drafts /\ IsDraftOf(text, draft))
    BY DraftIsSaid
<1>4. PICK z : z = [Idle EXCEPT !.pc = "done", !.prompt = p, !.result = draft, !.answer = answer]
    OBVIOUS
<1>5. req' = [req EXCEPT ![r] = z]
    BY <1>1, <1>2, <1>3, <1>4, Zenon DEF Draft, Finish, TextOf
<1>6. IsRequest(z)
    BY <1>1, <1>3, <1>4 DEF IsRequest, Idle, ToPrompt
<1>7. IsAnswered(z)
    BY <1>1, <1>2, <1>3, <1>4 DEF IsAnswered, ToPrompt, Idle
<1> QED
    BY <1>1, <1>4, <1>5, <1>6, <1>7 DEF Final, Idle

\* A ranking of the candidates.
LEMMA RankingEnds ==
    ASSUME NEW r \in Requests, req[r].prompt \in Prompts, req[r].prompt.use = "rank",
           NEW items \in Seq(DOMAIN Items), IsRanking(items), NEW degraded \in BOOLEAN,
           degraded => IsCheapestFirst(items),
           NEW answer, ToPrompt(req[r].prompt, answer), Ranking(r, items, degraded, answer)
    PROVE  \E z : req' = [req EXCEPT ![r] = z] /\ Final(req[r], z)
<1>1. PICK p \in Prompts : p = req[r].prompt
    OBVIOUS
<1>2. PICK ranking : ranking = [items |-> items, degraded |-> degraded]
    OBVIOUS
<1>3. ranking \in Rankings /\ ranking.items = items /\ ranking.degraded = degraded
    BY <1>2 DEF Rankings
<1>4. PICK z : z = [Idle EXCEPT !.pc = "done", !.prompt = p, !.result = ranking, !.answer = answer]
    OBVIOUS
<1>5. req' = [req EXCEPT ![r] = z]
    BY <1>1, <1>2, <1>4, Zenon DEF Ranking, Finish
<1>6. IsRequest(z)
    BY <1>1, <1>3, <1>4 DEF IsRequest, Idle, ToPrompt
<1>7. IsAnswered(z)
    BY <1>1, <1>3, <1>4 DEF IsAnswered, ToPrompt, Idle
<1> QED
    BY <1>1, <1>4, <1>5, <1>6, <1>7 DEF Final, Idle

\* Without Groq the text and the catalog answer.
LEMMA FallbackEnds ==
    ASSUME NEW r \in Requests, req[r].prompt \in Prompts, Fallback(r)
    PROVE  \E z : req' = [req EXCEPT ![r] = z] /\ Final(req[r], z)
<1>1. ToPrompt(req[r].prompt, None)
    BY DEF ToPrompt
<1>2. CASE req[r].prompt.use = "extract"
  <2>1. PICK t \in DOMAIN Texts : TextOf(r) = Texts[t]
    BY <1>2, PromptUses DEF TextOf
  <2>2. PICK slots \in DraftSlots : slots = deterministic_slots_from_text(TextOf(r))
    BY <2>1, FallbackSlots
  <2> QED
    BY <1>1, <1>2, <2>2, DraftEnds DEF Fallback
<1>3. CASE req[r].prompt.use = "rank"
  <2>1. Ranking(r, Ranked, TRUE, None)
    BY <1>3 DEF Fallback
  <2> QED
    BY <1>1, <1>3, <2>1, RankedIsRanking, RankingEnds
<1> QED
    BY <1>2, <1>3, PromptUses

\* Whatever Groq or the cache answered, the request is answered or asks once
\* more.
LEMMA ReceivedEnds ==
    ASSUME NEW r \in Requests, req[r].prompt \in Prompts,
           NEW answer, answer.asked = req[r].prompt, answer.said \in Answers(req[r].prompt),
           Received(r, answer)
    PROVE  \E z : req' = [req EXCEPT ![r] = z] /\ (Final(req[r], z) \/ AsksAgain(req[r], z))
<1>1. ToPrompt(req[r].prompt, answer)
    BY DEF ToPrompt
<1>2. CASE Fallback(r)
    BY <1>2, FallbackEnds
<1>3. CASE Repair(r)
  <2>1. CASE req[r].prompt.attempt = 1
    <3>1. req' = [req EXCEPT ![r] = [req[r] EXCEPT !.pc = "get", !.prompt.attempt = 2, !.answer = None]]
      BY <1>3, <2>1, Zenon DEF Repair
    <3> QED
      BY <2>1, <3>1 DEF AsksAgain
  <2>2. CASE req[r].prompt.attempt # 1
    BY <1>3, <2>2, FallbackEnds DEF Repair
  <2> QED
    BY <2>1, <2>2
<1>4. CASE Advised(r, answer) /\ answer.said # NotAnObject /\ answer.said # DoesNotFit
  <2>1. CASE req[r].prompt.use = "extract"
    <3>1. answer.said \in DraftSlots
      BY <1>4, <2>1, TextsAndClaims DEF Answers
    <3>2. Draft(r, answer.said, answer)
      BY <1>4, <2>1 DEF Advised
    <3> QED
      BY <1>1, <2>1, <3>1, <3>2, DraftEnds
  <2>2. CASE req[r].prompt.use = "rank"
    <3>1. answer.said \in Seq(Int)
      BY <1>4, <2>2, CatalogAndOrders DEF Answers
    <3>2. PICK items : items = apply_llm_ranking(filter_candidates, answer.said)
      OBVIOUS
    <3>3. CASE items = None
      BY <1>4, <2>2, <3>2, <3>3, FallbackEnds DEF Advised
    <3>4. CASE items # None
      <4>1. items = answer.said /\ items \in Seq(DOMAIN Items) /\ IsRanking(items)
        BY <3>1, <3>2, <3>4, AllCandidates DEF apply_llm_ranking
      <4>2. Ranking(r, items, FALSE, answer)
        BY <1>4, <2>2, <3>2, <3>4 DEF Advised
      <4> QED
        BY <1>1, <2>2, <4>1, <4>2, RankingEnds
    <3> QED
      BY <3>3, <3>4
  <2> QED
    BY <2>1, <2>2, PromptUses
<1> QED
    BY <1>2, <1>3, <1>4 DEF Received

-----------------------------------------------------------------------------
(* One request moves, the others stay.                                     *)

\* The steps a request has left, by its place.
LEMMA LeftAt ==
    ASSUME NEW x
    PROVE  LET more == IF x.prompt.attempt = 1 THEN 5 ELSE 0 IN
           /\ x.pc = "get" => StepsLeft(x) = 5 + more
           /\ x.pc = "acquire" => StepsLeft(x) = 4 + more
           /\ x.pc = "claim" => StepsLeft(x) = 3 + more
           /\ x.pc = "call" => StepsLeft(x) = 2 + more
           /\ x.pc = "set" => StepsLeft(x) = 1 + more
           /\ x.pc = "done" => StepsLeft(x) = 0
BY DEF StepsLeft

\* Request r becomes z, which is nearer to its answer.
Moves(r, z) ==
    /\ req' = [req EXCEPT ![r] = z]
    /\ req[r].pc # "idle" => StepsLeft(z) < StepsLeft(req[r])

\* The tables that a request relies on: a bucket does not go away and no
\* token is granted without one.
Keeps == UNCHANGED time /\ (bucket' = None => bucket = None /\ granted' = granted)

\* What is so of the others stays so.
LEMMA OthersStay ==
    ASSUME IndInv, NEW r \in Requests, NEW z, req' = [req EXCEPT ![r] = z], Keeps, RequestOK(z)'
    PROVE  DOMAIN req' = Requests /\ \A q \in Requests : RequestOK(req[q])'
<1>1. DOMAIN req = Requests /\ \A q \in Requests : RequestOK(req[q])
    BY DEF IndInv
<1>2. ASSUME NEW q \in Requests, q # r PROVE RequestOK(req[q])'
  <2>1. req'[q] = req[q]
    BY <1>1, <1>2
  <2>2. PICK x : x = req[q]
    OBVIOUS
  <2>3. RequestOK(x)
    BY <1>1, <2>2
  <2>4. RequestOK(x)'
    BY <2>3 DEF RequestOK, Keeps
  <2> QED
    BY <2>1, <2>2, <2>4
<1>3. req'[r] = z /\ DOMAIN req' = Requests
    BY <1>1
<1> QED
    BY <1>2, <1>3

\* The calls under way, when one request moves.
LEMMA CallsAre ==
    ASSUME IndInv, NEW r \in Requests, NEW z, req' = [req EXCEPT ![r] = z]
    PROVE  /\ IsFiniteSet(Calling') /\ Cardinality(Calling) \in Nat
           /\ req[r].pc # "call" /\ z.pc # "call" =>
                  Cardinality(Calling') = Cardinality(Calling)
           /\ req[r].pc # "call" /\ z.pc = "call" =>
                  Cardinality(Calling') = Cardinality(Calling) + 1
           /\ req[r].pc = "call" /\ z.pc # "call" =>
                  Cardinality(Calling') = Cardinality(Calling) - 1
<1>1. DOMAIN req = Requests /\ IsFiniteSet(Calling)
    BY DEF IndInv, CallsArePaid
<1>2. \A q \in Requests : req'[q].pc = IF q = r THEN z.pc ELSE req[q].pc
    BY <1>1
<1>3. PICK C : C = Calling
    OBVIOUS
<1>4. PICK D : D = Calling'
    OBVIOUS
<1>5. r \in C <=> req[r].pc = "call"
    BY <1>3 DEF Calling, At
<1>6. D = IF z.pc = "call" THEN C \cup {r} ELSE C \ {r}
    BY <1>2, <1>3, <1>4 DEF Calling, At
<1>7. /\ IsFiniteSet(C) /\ Cardinality(C) \in Nat
      /\ IsFiniteSet(C \cup {r}) /\ IsFiniteSet(C \ {r})
      /\ Cardinality(C \cup {r}) = IF r \in C THEN Cardinality(C) ELSE Cardinality(C) + 1
      /\ Cardinality(C \ {r}) = IF r \in C THEN Cardinality(C) - 1 ELSE Cardinality(C)
    BY <1>1, <1>3, FS_AddElement, FS_RemoveElement, FS_CardinalityType
<1>8. IsFiniteSet(D)
    BY <1>6, <1>7
<1> HIDE <1>1, <1>2
<1> QED
    BY <1>3, <1>4, <1>5, <1>6, <1>7, <1>8

\* A request that calls nobody and leaves the tables alone.
LEMMA QuietMove ==
    ASSUME IndInv, NEW r \in Requests, NEW z, req' = [req EXCEPT ![r] = z],
           UNCHANGED <<bucket, time, granted, unspent>>, CacheIsKeyed',
           RequestOK(z), req[r].pc # "call", z.pc # "call"
    PROVE  IndInv'
<1>1. RequestOK(z)' /\ Keeps
    BY DEF RequestOK, Keeps
<1>2. DOMAIN req' = Requests /\ \A q \in Requests : RequestOK(req[q])'
    BY <1>1, OthersStay
<1>3. CallsArePaid'
    BY CallsAre DEF CallsArePaid, IndInv
<1>4. BucketIsWithinRate'
    BY DEF IndInv, BucketIsWithinRate
<1> QED
    BY <1>2, <1>3, <1>4 DEF IndInv

\* A request that spends its token, or gives it up, on a call.
LEMMA CallMove ==
    ASSUME IndInv, NEW r \in Requests, NEW z, req' = [req EXCEPT ![r] = z],
           UNCHANGED <<cache, bucket, time, granted>>, unspent' \in {unspent, unspent - 1},
           RequestOK(z), req[r].pc = "call", z.pc # "call"
    PROVE  IndInv'
<1>1. RequestOK(z)' /\ Keeps
    BY DEF RequestOK, Keeps
<1>2. DOMAIN req' = Requests /\ \A q \in Requests : RequestOK(req[q])'
    BY <1>1, OthersStay
<1>3. CallsArePaid'
  <2>1. IsFiniteSet(Calling') /\ Cardinality(Calling') = Cardinality(Calling) - 1
        /\ Cardinality(Calling) \in Nat
    BY CallsAre
  <2>2. unspent \in Int /\ unspent >= Cardinality(Calling)
    BY DEF IndInv, CallsArePaid
  <2>3. unspent' \in Int /\ unspent' >= Cardinality(Calling')
    BY <2>1, <2>2
  <2> QED
    BY <2>1, <2>3 DEF CallsArePaid
<1>4. BucketIsWithinRate'
    BY DEF IndInv, BucketIsWithinRate
<1>5. CacheIsKeyed'
    BY DEF IndInv, CacheIsKeyed
<1> QED
    BY <1>2, <1>3, <1>4, <1>5 DEF IndInv

\* A request under way has its prompt, and no result yet.
LEMMA UnderWay ==
    ASSUME IndInv, NEW r \in Requests, NEW x, x = req[r], x.pc \notin {"idle", "done"}
    PROVE  /\ RequestOK(x) /\ IsRequest(x) /\ x.prompt \in Prompts /\ x.result = None
           /\ x.pc \in {"get", "acquire", "claim", "call", "set"}
           /\ StepsLeft(x) > 0 /\ StepsLeft(x) \in Nat
           /\ time \in Nat
<1>1. RequestOK(x) /\ time \in Nat
    BY AdvisoryConstants DEF IndInv, BucketIsWithinRate
<1>2. IsRequest(x) /\ x.prompt \in Prompts /\ x.result = None
      /\ x.pc \in {"get", "acquire", "claim", "call", "set"}
    BY <1>1 DEF RequestOK, IsRequest
<1> QED
    BY <1>1, <1>2, LeftAt

\* An answered request.
LEMMA EndsWell ==
    ASSUME IndInv, NEW r \in Requests, req[r].pc \notin {"idle", "done"},
           NEW z, Final(req[r], z)
    PROVE  RequestOK(z) /\ z.pc = "done" /\ StepsLeft(z) < StepsLeft(req[r])
<1>1. PICK x : x = req[r]
    OBVIOUS
<1>2. x.prompt \in Prompts /\ StepsLeft(x) > 0 /\ time \in Nat
    BY <1>1, UnderWay
<1>3. StepsLeft(z) = 0
    BY LeftAt DEF Final
<1>4. RequestOK(z)
    BY <1>1, <1>2 DEF RequestOK, Final
<1> QED
    BY <1>1, <1>2, <1>3, <1>4 DEF Final

\* A request that asks again does so once.
LEMMA AsksAgainWell ==
    ASSUME IndInv, NEW r \in Requests, req[r].pc \in {"get", "set"},
           NEW z, AsksAgain(req[r], z)
    PROVE  RequestOK(z) /\ z.pc = "get" /\ StepsLeft(z) < StepsLeft(req[r])
<1>1. PICK x : x = req[r]
    OBVIOUS
<1>2. /\ RequestOK(x) /\ IsRequest(x) /\ x.prompt \in Prompts /\ x.result = None
      /\ x.pc \in {"get", "set"}
    BY <1>1, UnderWay
<1>3. PICK p \in Prompts : p = [x.prompt EXCEPT !.attempt = 2]
    BY <1>2, PromptUses
<1>4. p.attempt = 2
    BY <1>2, <1>3 DEF Prompts
<1>5. z = [x EXCEPT !.pc = "get", !.prompt = p, !.answer = None] /\ x.prompt.attempt = 1
    BY <1>1, <1>3 DEF AsksAgain
<1>6. /\ DOMAIN z = DOMAIN Idle /\ z.pc = "get" /\ z.prompt = p /\ z.answer = None
      /\ z.result = None /\ z.now = x.now
    BY <1>2, <1>5 DEF IsRequest, Idle
<1>7. IsRequest(z)
    BY <1>2, <1>6 DEF IsRequest
<1>8. RequestOK(z)
    BY <1>2, <1>6, <1>7 DEF RequestOK
<1>9. StepsLeft(z) = 5 /\ StepsLeft(x) > 5
  <2>1. z.prompt.attempt # 1
    BY <1>4, <1>6
  <2>2. StepsLeft(z) = 5
    BY <1>6, <2>1, LeftAt
  <2>3. StepsLeft(x) > 5
    BY <1>2, <1>5, LeftAt
  <2> QED
    BY <2>2, <2>3
<1> QED
    BY <1>1, <1>6, <1>8, <1>9

-----------------------------------------------------------------------------
(* The actions.                                                            *)

\* An extraction begins: extract_mandate.
LEMMA ExtractStep ==
    ASSUME IndInv, NEW r \in Requests, NEW t \in DOMAIN Texts, extract_mandate(r, t)
    PROVE  IndInv' /\ \E z : Moves(r, z)
<1>1. req[r] = Idle /\ req[r].pc = "idle"
    BY DEF IndInv, RequestOK, extract_mandate, At
<1>2. PICK p : p = [use |-> "extract", text |-> t, attempt |-> 1]
    OBVIOUS
<1>3. p \in Prompts
    BY <1>2 DEF Prompts
<1>4. PICK z : z = [Idle EXCEPT !.pc = "get", !.prompt = p]
    OBVIOUS
<1>5. req' = [req EXCEPT ![r] = z] /\ UNCHANGED <<cache, bucket, time, granted, unspent>>
    BY <1>1, <1>2, <1>4, Zenon DEF extract_mandate
<1>6. /\ DOMAIN z = DOMAIN Idle /\ z.pc = "get" /\ z.prompt = p /\ z.answer = None
      /\ z.result = None /\ z.now = 0
    BY <1>4 DEF Idle
<1>7. RequestOK(z)
    BY <1>3, <1>6, AdvisoryConstants DEF RequestOK, IsRequest, IndInv, BucketIsWithinRate
<1>8. CacheIsKeyed'
    BY <1>5 DEF IndInv, CacheIsKeyed
<1> QED
    BY <1>1, <1>5, <1>6, <1>7, <1>8, QuietMove DEF Moves

\* A ranking begins, or ends at once without candidates: rank_candidates.
LEMMA RankStep ==
    ASSUME IndInv, NEW r \in Requests, rank_candidates(r)
    PROVE  IndInv' /\ \E z : Moves(r, z)
<1>1. req[r] = Idle /\ req[r].pc = "idle"
    BY DEF IndInv, RequestOK, rank_candidates, At
<1>2. PICK p : p = [use |-> "rank", text |-> None, attempt |-> 1]
    OBVIOUS
<1>3. p \in Prompts /\ p.use = "rank"
    BY <1>2 DEF Prompts
<1>4. PICK none : none = [items |-> <<>>, degraded |-> FALSE]
    OBVIOUS
<1>5. PICK z : z = IF filter_candidates = {}
                   THEN [Idle EXCEPT !.pc = "done", !.prompt = p, !.result = none]
                   ELSE [Idle EXCEPT !.pc = "get", !.prompt = p]
    OBVIOUS
<1>6. req' = [req EXCEPT ![r] = z] /\ UNCHANGED <<cache, bucket, time, granted, unspent>>
    BY <1>1, <1>2, <1>4, <1>5, Zenon DEF rank_candidates
<1>7. time \in Nat
    BY AdvisoryConstants DEF IndInv, BucketIsWithinRate
<1>8. RequestOK(z) /\ z.pc # "call"
  <2>1. CASE filter_candidates = {}
    <3>1. /\ DOMAIN z = DOMAIN Idle /\ z.pc = "done" /\ z.prompt = p /\ z.answer = None
          /\ z.result = none /\ z.now = 0
      BY <1>5, <2>1 DEF Idle
    <3>2. none \in Rankings /\ none.items = <<>> /\ none.degraded = FALSE
      BY <1>4 DEF Rankings
    <3>3. IsRanking(none.items)
      BY <2>1, <3>2, FS_EmptySet DEF IsRanking, Range
    <3>4. IsAnswered(z)
      BY <1>3, <3>1, <3>2, <3>3 DEF IsAnswered
    <3> QED
      BY <1>3, <1>7, <3>1, <3>2, <3>4 DEF RequestOK, IsRequest
  <2>2. CASE filter_candidates # {}
    <3>1. /\ DOMAIN z = DOMAIN Idle /\ z.pc = "get" /\ z.prompt = p /\ z.answer = None
          /\ z.result = None /\ z.now = 0
      BY <1>5, <2>2 DEF Idle
    <3> QED
      BY <1>3, <1>7, <3>1 DEF RequestOK, IsRequest
  <2> QED
    BY <2>1, <2>2
<1>9. CacheIsKeyed'
    BY <1>6 DEF IndInv, CacheIsKeyed
<1> QED
    BY <1>1, <1>6, <1>8, <1>9, QuietMove DEF Moves

\* A hit is an answer to the same prompt; a miss goes on: SemanticCache.get.
LEMMA CacheGetStep ==
    ASSUME IndInv, NEW r \in Requests, CacheGet(r)
    PROVE  IndInv' /\ \E z : Moves(r, z)
<1>1. PICK x : x = req[r]
    OBVIOUS
<1>2. x.pc = "get" /\ UNCHANGED <<cache, bucket, time, granted, unspent>>
    BY <1>1 DEF CacheGet, At
<1>3. RequestOK(x) /\ IsRequest(x) /\ x.prompt \in Prompts /\ x.result = None
    BY <1>1, <1>2, UnderWay
<1>4. CacheIsKeyed'
    BY <1>2 DEF IndInv, CacheIsKeyed
<1>5. CASE x.prompt \in DOMAIN cache /\ Received(r, cache[x.prompt])
  <2>1. PICK answer : answer = cache[x.prompt]
    OBVIOUS
  <2>2. answer.asked = req[r].prompt /\ answer.said \in Answers(req[r].prompt)
        /\ Received(r, answer)
    BY <1>1, <1>5, <2>1 DEF IndInv, CacheIsKeyed
  <2>3. PICK z : req' = [req EXCEPT ![r] = z] /\ (Final(req[r], z) \/ AsksAgain(req[r], z))
    BY <1>1, <1>3, <2>2, ReceivedEnds
  <2>4. RequestOK(z) /\ z.pc # "call" /\ StepsLeft(z) < StepsLeft(req[r])
    BY <1>1, <1>2, <2>3, EndsWell, AsksAgainWell
  <2> QED
    BY <1>1, <1>2, <1>4, <2>3, <2>4, QuietMove DEF Moves
<1>6. CASE Goto(r, "acquire")
  <2>1. PICK z : z = [x EXCEPT !.pc = "acquire"]
    OBVIOUS
  <2>2. req' = [req EXCEPT ![r] = z]
    BY <1>1, <1>6, <2>1, Zenon DEF Goto
  <2>3. /\ DOMAIN z = DOMAIN Idle /\ z.pc = "acquire" /\ z.prompt = x.prompt
        /\ z.answer = x.answer /\ z.result = None /\ z.now = x.now
    BY <1>3, <2>1 DEF IsRequest, Idle
  <2>4. RequestOK(z)
    BY <1>3, <2>3 DEF RequestOK, IsRequest
  <2>5. StepsLeft(z) < StepsLeft(x)
    BY <1>2, <2>3, LeftAt
  <2> QED
    BY <1>1, <1>2, <1>4, <2>2, <2>3, <2>4, <2>5, QuietMove DEF Moves
<1> QED
    BY <1>1, <1>5, <1>6 DEF CacheGet, canonical_prompt_key

\* The clock is read: try_acquire.
LEMMA AcquireStep ==
    ASSUME IndInv, NEW r \in Requests, Acquire(r)
    PROVE  IndInv' /\ \E z : Moves(r, z)
<1>1. PICK x : x = req[r]
    OBVIOUS
<1>2. x.pc = "acquire" /\ UNCHANGED <<cache, bucket, time, granted, unspent>>
    BY <1>1 DEF Acquire, At
<1>3. RequestOK(x) /\ IsRequest(x) /\ x.prompt \in Prompts /\ x.result = None /\ time \in Nat
    BY <1>1, <1>2, UnderWay
<1>4. CacheIsKeyed' /\ (bucket = None => granted <= time)
    BY <1>2 DEF IndInv, CacheIsKeyed, BucketIsWithinRate
<1>5. PICK n \in Nat : n = time
    BY <1>3
<1>6. PICK z : z = [x EXCEPT !.pc = "claim", !.now = n]
    OBVIOUS
<1>7. req' = [req EXCEPT ![r] = z]
    BY <1>1, <1>5, <1>6, Zenon DEF Acquire
<1>8. /\ DOMAIN z = DOMAIN Idle /\ z.pc = "claim" /\ z.prompt = x.prompt
      /\ z.answer = x.answer /\ z.result = None /\ z.now = n
    BY <1>3, <1>6 DEF IsRequest, Idle
<1>9. RequestOK(z)
    BY <1>3, <1>4, <1>5, <1>8, AdvisoryConstants DEF RequestOK, IsRequest
<1>10. StepsLeft(z) < StepsLeft(x)
    BY <1>2, <1>8, LeftAt
<1> QED
    BY <1>1, <1>2, <1>4, <1>7, <1>8, <1>9, <1>10, QuietMove DEF Moves

\* The script keeps the bucket within the rate: what it grants, and what a
\* late claim sets the bucket's time back by, is what the bucket loses.
LEMMA ScriptStep ==
    ASSUME IndInv, NEW n \in Nat, n <= time, bucket = None => granted <= n,
           Script(n), UNCHANGED time
    PROVE  /\ BucketIsWithinRate' /\ bucket' # None
           /\ unspent' = unspent + (IF Refilled(n) >= 1 THEN 1 ELSE 0)
           /\ Keeps
<1>1. /\ capacity \in Nat \ {0} /\ time \in Nat /\ time <= MaxTime /\ MaxTime \in Nat
      /\ granted \in Int
    BY AdvisoryConstants DEF IndInv, BucketIsWithinRate
<1>2. PICK b : b = Bucket(n)
    OBVIOUS
<1>3. /\ b.tokens \in 0..capacity /\ b.ts \in Nat /\ b.ts <= time
      /\ granted + b.tokens <= capacity + b.ts
  <2>1. CASE bucket = None
    <3>1. b = [tokens |-> capacity, ts |-> n]
      BY <1>2, <2>1 DEF Bucket
    <3>2. b.tokens = capacity /\ b.ts = n
      BY <3>1
    <3> QED
      BY <1>1, <2>1, <3>2
  <2>2. CASE bucket # None
    <3>1. b = bucket
      BY <1>2, <2>2 DEF Bucket
    <3> QED
      BY <1>1, <2>2, <3>1 DEF IndInv, BucketIsWithinRate, Buckets
  <2> QED
    BY <2>1, <2>2
<1>4. PICK f : f = Refilled(n)
    OBVIOUS
<1>5. f \in 0..capacity /\ f <= b.tokens + (IF n >= b.ts THEN n - b.ts ELSE 0)
    BY <1>1, <1>2, <1>3, <1>4 DEF Refilled, Least, Most
<1>6. PICK a \in {0, 1} : a = (IF f >= 1 THEN 1 ELSE 0)
    OBVIOUS
<1>7. PICK g \in Int : g = granted + a - Most(b.ts - n, 0)
    BY <1>1, <1>3, <1>6 DEF Most
<1>8. /\ bucket' = [tokens |-> f - a, ts |-> n] /\ granted' = g
      /\ unspent' = unspent + a
    BY <1>2, <1>4, <1>6, <1>7 DEF Script
<1>9. f - a \in 0..capacity /\ n \in 0..MaxTime
    BY <1>1, <1>5, <1>6
<1>10. g + (f - a) <= capacity + n
    BY <1>1, <1>3, <1>5, <1>6, <1>7 DEF Most
<1>11. PICK c : c = [tokens |-> f - a, ts |-> n]
    OBVIOUS
<1>12. c \in Buckets /\ c.tokens = f - a /\ c.ts = n
    BY <1>9, <1>11 DEF Buckets
<1>13. c # None
    BY <1>12, NoneIsNothing
<1>14. bucket' = c
    BY <1>8, <1>11
<1>15. BucketIsWithinRate'
    BY <1>1, <1>8, <1>10, <1>12, <1>13, <1>14 DEF BucketIsWithinRate
<1> QED
    BY <1>4, <1>6, <1>8, <1>13, <1>14, <1>15 DEF Keeps

\* A claim gets a token and goes on to the call, or is answered without
\* Groq; if the script's answer is lost, so is the token: try_acquire.
LEMMA ClaimStep ==
    ASSUME IndInv, NEW r \in Requests, Claim(r)
    PROVE  IndInv' /\ \E z : Moves(r, z)
<1>1. PICK x : x = req[r]
    OBVIOUS
<1>2. x.pc = "claim" /\ UNCHANGED <<cache, time>> /\ Script(x.now)
    BY <1>1 DEF Claim, At
<1>3. /\ RequestOK(x) /\ IsRequest(x) /\ x.prompt \in Prompts /\ x.result = None
      /\ time \in Nat
    BY <1>1, <1>2, UnderWay
<1>4. PICK n \in Nat : n = x.now
    BY <1>3 DEF IsRequest
<1>5. n <= time /\ (bucket = None => granted <= n)
    BY <1>2, <1>3, <1>4 DEF RequestOK
<1>6. /\ BucketIsWithinRate' /\ bucket' # None /\ Keeps
      /\ unspent' = unspent + (IF Refilled(n) >= 1 THEN 1 ELSE 0)
    BY <1>2, <1>4, <1>5, ScriptStep
<1>7. CacheIsKeyed'
    BY <1>2 DEF IndInv, CacheIsKeyed
<1>8. unspent \in Int /\ unspent >= Cardinality(Calling)
    BY DEF IndInv, CallsArePaid
<1>9. CASE Refilled(n) >= 1 /\ ToCall(r)
  <2>1. PICK z : z = [x EXCEPT !.pc = "call", !.now = 0]
    OBVIOUS
  <2>2. req' = [req EXCEPT ![r] = z]
    BY <1>1, <1>9, <2>1, Zenon DEF ToCall
  <2>3. /\ DOMAIN z = DOMAIN Idle /\ z.pc = "call" /\ z.prompt = x.prompt
        /\ z.answer = x.answer /\ z.result = None /\ z.now = 0
    BY <1>3, <2>1 DEF IsRequest, Idle
  <2>4. RequestOK(z)'
    BY <1>2, <1>3, <2>3 DEF RequestOK, IsRequest
  <2>5. StepsLeft(z) < StepsLeft(x)
    BY <1>2, <2>3, LeftAt
  <2>6. IsFiniteSet(Calling') /\ Cardinality(Calling') = Cardinality(Calling) + 1
        /\ Cardinality(Calling) \in Nat
    BY <1>1, <1>2, <2>2, <2>3, CallsAre
  <2>7. CallsArePaid'
    BY <1>6, <1>8, <1>9, <2>6 DEF CallsArePaid
  <2>8. DOMAIN req' = Requests /\ \A q \in Requests : RequestOK(req[q])'
    BY <1>6, <2>2, <2>4, OthersStay
  <2> QED
    BY <1>1, <1>6, <1>7, <2>2, <2>5, <2>7, <2>8 DEF IndInv, Moves
<1>10. CASE Fallback(r)
  <2>1. PICK z : req' = [req EXCEPT ![r] = z] /\ Final(req[r], z)
    BY <1>1, <1>3, <1>10, FallbackEnds
  <2>2. RequestOK(z) /\ z.pc = "done" /\ StepsLeft(z) < StepsLeft(req[r])
    BY <1>1, <1>2, <2>1, EndsWell
  <2>3. RequestOK(z)'
    BY <1>2, <2>2 DEF RequestOK
  <2>4. IsFiniteSet(Calling') /\ Cardinality(Calling') = Cardinality(Calling)
        /\ Cardinality(Calling) \in Nat
    BY <1>1, <1>2, <2>1, <2>2, CallsAre
  <2>5. CallsArePaid'
    BY <1>6, <1>8, <2>4 DEF CallsArePaid
  <2>6. DOMAIN req' = Requests /\ \A q \in Requests : RequestOK(req[q])'
    BY <1>6, <2>1, <2>3, OthersStay
  <2> QED
    BY <1>6, <1>7, <2>1, <2>2, <2>5, <2>6 DEF IndInv, Moves
<1> QED
    BY <1>1, <1>4, <1>9, <1>10 DEF Claim, RateLimitUnavailable

\* Redis fails before the script runs: RateLimitUnavailable.
LEMMA ClaimFailsStep ==
    ASSUME IndInv, NEW r \in Requests, ClaimFails(r)
    PROVE  IndInv' /\ \E z : Moves(r, z)
<1>1. req[r].pc = "claim" /\ UNCHANGED <<cache, bucket, time, granted, unspent>> /\ Fallback(r)
    BY DEF ClaimFails, At, RateLimitUnavailable
<1>2. req[r].prompt \in Prompts
    BY <1>1, UnderWay
<1>3. PICK z : req' = [req EXCEPT ![r] = z] /\ Final(req[r], z)
    BY <1>1, <1>2, FallbackEnds
<1>4. RequestOK(z) /\ z.pc = "done" /\ StepsLeft(z) < StepsLeft(req[r])
    BY <1>1, <1>3, EndsWell
<1>5. CacheIsKeyed'
    BY <1>1 DEF IndInv, CacheIsKeyed
<1> QED
    BY <1>1, <1>3, <1>4, <1>5, QuietMove DEF Moves

\* Groq is not called, or the call fails: CircuitOpenError, APIError.
LEMMA NoAnswerStep ==
    ASSUME IndInv, NEW r \in Requests, Refused(r) \/ CallFails(r)
    PROVE  IndInv' /\ \E z : Moves(r, z)
<1>1. /\ req[r].pc = "call" /\ UNCHANGED <<cache, bucket, time, granted>> /\ Fallback(r)
      /\ unspent' \in {unspent, unspent - 1}
    BY DEF Refused, CallFails, At
<1>2. req[r].prompt \in Prompts
    BY <1>1, UnderWay
<1>3. PICK z : req' = [req EXCEPT ![r] = z] /\ Final(req[r], z)
    BY <1>1, <1>2, FallbackEnds
<1>4. RequestOK(z) /\ z.pc = "done" /\ StepsLeft(z) < StepsLeft(req[r])
    BY <1>1, <1>3, EndsWell
<1> QED
    BY <1>1, <1>3, <1>4, CallMove DEF Moves

\* Groq answers, anything: GroqClient._complete.
LEMMA CallStep ==
    ASSUME IndInv, NEW r \in Requests, Call(r)
    PROVE  IndInv' /\ \E z : Moves(r, z)
<1>1. PICK x : x = req[r]
    OBVIOUS
<1>2. x.pc = "call" /\ UNCHANGED <<cache, bucket, time, granted>> /\ unspent' = unspent - 1
    BY <1>1 DEF Call, At
<1>3. RequestOK(x) /\ IsRequest(x) /\ x.prompt \in Prompts /\ x.result = None /\ time \in Nat
    BY <1>1, <1>2, UnderWay
<1>4. PICK a \in Answers(x.prompt) :
        req' = [req EXCEPT ![r] =
                  [req[r] EXCEPT !.pc = "set", !.answer = [asked |-> req[r].prompt, said |-> a]]]
    BY <1>1, Zenon DEF Call
<1>5. PICK answer : answer = [asked |-> x.prompt, said |-> a]
    OBVIOUS
<1>6. answer.asked = x.prompt /\ answer.said = a
    BY <1>5
<1>7. PICK z : z = [x EXCEPT !.pc = "set", !.answer = answer]
    OBVIOUS
<1>8. req' = [req EXCEPT ![r] = z]
    BY <1>1, <1>4, <1>5, <1>7, Zenon
<1>9. /\ DOMAIN z = DOMAIN Idle /\ z.pc = "set" /\ z.prompt = x.prompt
      /\ z.answer = answer /\ z.result = None /\ z.now = x.now
    BY <1>3, <1>7 DEF IsRequest, Idle
<1>10. RequestOK(z)
    BY <1>3, <1>4, <1>6, <1>9 DEF RequestOK, IsRequest
<1>11. StepsLeft(z) < StepsLeft(x)
    BY <1>2, <1>9, LeftAt
<1> QED
    BY <1>1, <1>2, <1>8, <1>9, <1>10, <1>11, CallMove DEF Moves

\* The answer is cached under its own prompt, and then looked at:
\* SemanticCache.set.
LEMMA CacheSetStep ==
    ASSUME IndInv, NEW r \in Requests, CacheSet(r)
    PROVE  IndInv' /\ \E z : Moves(r, z)
<1>1. PICK x : x = req[r]
    OBVIOUS
<1>2. x.pc = "set" /\ UNCHANGED <<bucket, time, granted, unspent>>
    BY <1>1 DEF CacheSet, At
<1>3. RequestOK(x) /\ x.prompt \in Prompts
    BY <1>1, <1>2, UnderWay
<1>4. PICK answer : answer = x.answer
    OBVIOUS
<1>5. PICK p \in Prompts : p = x.prompt
    BY <1>3
<1>6. answer.asked = p /\ answer.said \in Answers(p)
    BY <1>2, <1>3, <1>4, <1>5 DEF RequestOK
<1>7. Received(r, answer)
    BY <1>1, <1>4 DEF CacheSet
<1>8. CacheIsKeyed'
  <2>1. \/ cache' = [k \in DOMAIN cache \cup {p} |-> IF k = p THEN answer ELSE cache[k]]
        \/ UNCHANGED cache
    BY <1>1, <1>4, <1>5 DEF CacheSet, canonical_prompt_key
  <2> QED
    BY <1>6, <2>1 DEF IndInv, CacheIsKeyed
<1>9. PICK z : req' = [req EXCEPT ![r] = z] /\ (Final(req[r], z) \/ AsksAgain(req[r], z))
    BY <1>1, <1>5, <1>6, <1>7, ReceivedEnds
<1>10. RequestOK(z) /\ z.pc # "call" /\ StepsLeft(z) < StepsLeft(req[r])
    BY <1>1, <1>2, <1>9, EndsWell, AsksAgainWell
<1> QED
    BY <1>1, <1>2, <1>8, <1>9, <1>10, QuietMove DEF Moves

\* Time passes; a claim is not older than MaxDelay.
LEMMA TickStep ==
    ASSUME IndInv, Tick
    PROVE  IndInv'
<1>1. /\ time \in Nat /\ time < MaxTime /\ time' = time + 1
      /\ UNCHANGED <<req, cache, bucket, granted, unspent>>
    BY AdvisoryConstants DEF Tick, IndInv, BucketIsWithinRate
<1>2. ASSUME NEW q \in Requests PROVE RequestOK(req[q])'
  <2>1. PICK x : x = req[q]
    OBVIOUS
  <2>2. RequestOK(x) /\ x.now \in Nat
    BY <2>1 DEF IndInv, RequestOK, IsRequest
  <2>3. x.pc = "claim" => time - x.now < MaxDelay
    BY <2>1 DEF Tick, At
  <2>4. RequestOK(x)'
    BY <1>1, <2>2, <2>3, AdvisoryConstants DEF RequestOK
  <2> QED
    BY <1>1, <2>1, <2>4
<1>3. BucketIsWithinRate'
    BY <1>1, AdvisoryConstants DEF IndInv, BucketIsWithinRate, Buckets
<1>4. CallsArePaid' /\ CacheIsKeyed' /\ DOMAIN req' = Requests
    BY <1>1 DEF IndInv, CallsArePaid, Calling, At, CacheIsKeyed
<1> QED
    BY <1>2, <1>3, <1>4 DEF IndInv

\* The bucket expires when it would be full at the time of any claim.
LEMMA ExpireStep ==
    ASSUME IndInv, Expire
    PROVE  IndInv'
<1>1. /\ bucket # None /\ time - bucket.ts >= ttl_s /\ bucket' = None
      /\ UNCHANGED <<req, cache, time, granted, unspent>>
    BY DEF Expire
<1>2. /\ granted \in Int /\ time \in Nat /\ bucket.tokens \in Nat /\ bucket.ts \in Nat
      /\ granted + bucket.tokens <= capacity + bucket.ts
    BY <1>1, AdvisoryConstants DEF IndInv, BucketIsWithinRate, Buckets
<1>3. granted + MaxDelay <= time
    BY <1>1, <1>2, AdvisoryConstants
<1>4. ASSUME NEW q \in Requests PROVE RequestOK(req[q])'
  <2>1. PICK x : x = req[q]
    OBVIOUS
  <2>2. RequestOK(x) /\ x.now \in Nat
    BY <2>1 DEF IndInv, RequestOK, IsRequest
  <2>3. x.pc = "claim" => granted <= x.now
    BY <1>2, <1>3, <2>2, AdvisoryConstants DEF RequestOK
  <2>4. RequestOK(x)'
    BY <1>1, <2>2, <2>3 DEF RequestOK
  <2> QED
    BY <1>1, <2>1, <2>4
<1>5. BucketIsWithinRate'
    BY <1>1, <1>2, <1>3, AdvisoryConstants DEF IndInv, BucketIsWithinRate
<1>6. CallsArePaid' /\ CacheIsKeyed' /\ DOMAIN req' = Requests
    BY <1>1 DEF IndInv, CallsArePaid, Calling, At, CacheIsKeyed
<1> QED
    BY <1>4, <1>5, <1>6 DEF IndInv

-----------------------------------------------------------------------------
(* The theorems.                                                           *)

\* Nothing was asked, granted or cached yet.
LEMMA InitOK == Init => IndInv
<1> SUFFICES ASSUME Init PROVE IndInv
    OBVIOUS
<1> USE DEF Init
<1>1. RequestOK(Idle)
    BY AdvisoryConstants DEF RequestOK, IsRequest, Idle
<1>2. DOMAIN req = Requests /\ \A r \in Requests : RequestOK(req[r])
    BY <1>1
<1>3. CacheIsKeyed
    BY DEF CacheIsKeyed
<1>4. Calling = {}
    BY DEF Calling, At, Idle
<1>5. CallsArePaid
    BY <1>4, FS_EmptySet DEF CallsArePaid
<1>6. BucketIsWithinRate
    BY AdvisoryConstants DEF BucketIsWithinRate
<1> QED
    BY <1>2, <1>3, <1>5, <1>6 DEF IndInv

\* A step of a request keeps the invariant and brings it nearer its answer.
LEMMA RequestStep ==
    ASSUME IndInv, NEW r \in Requests,
           rank_candidates(r) \/ Step(r) \/ \E t \in DOMAIN Texts : extract_mandate(r, t)
    PROVE  IndInv' /\ \E z : Moves(r, z)
BY RankStep, ExtractStep, CacheGetStep, AcquireStep, ClaimStep, ClaimFailsStep, NoAnswerStep,
   CallStep, CacheSetStep DEF Step

\* Every step keeps the invariant.
LEMMA NextOK == IndInv /\ [Next]_vars => IndInv'
<1> SUFFICES ASSUME IndInv, [Next]_vars PROVE IndInv'
    OBVIOUS
<1>1. CASE Next
    BY <1>1, RequestStep, TickStep, ExpireStep DEF Next
<1>2. CASE UNCHANGED vars
  <2>1. UNCHANGED <<req, cache, bucket, time, granted, unspent>>
    BY <1>2 DEF vars
  <2>2. \A q \in Requests : RequestOK(req[q])'
    BY <2>1 DEF IndInv, RequestOK
  <2> QED
    BY <2>1, <2>2 DEF IndInv, CacheIsKeyed, CallsArePaid, Calling, At, BucketIsWithinRate
<1> QED
    BY <1>1, <1>2

\* The inductive invariant of the adviser.
THEOREM Invariance == Spec => []IndInv
BY InitOK, NextOK, PTL DEF Spec

(***************************************************************************)
(* Whatever Groq answers, at once, from the cache or after a repair, a     *)
(* draft's budget is what characters of the user's own text read as.       *)
(***************************************************************************)
THEOREM DraftsAreSaid == Spec => []BudgetIsSaid
<1>1. IndInv => BudgetIsSaid
  <2> SUFFICES ASSUME IndInv, NEW r \in Requests, Extracted(r)
               PROVE  IsDraftOf(TextOf(r), req[r].result)
    BY Zenon DEF BudgetIsSaid, IsDraftOf
  <2> QED
    BY DEF IndInv, RequestOK, IsAnswered, TextOf, At, Extracted
<1> QED
    BY <1>1, Invariance, PTL

(***************************************************************************)
(* Whatever Groq answers, a ranking shows each candidate once, and without *)
(* Groq the cheapest first; and the state is well typed.                   *)
(***************************************************************************)
THEOREM RankingsAreOfCandidates == Spec => []RanksTheCandidates
<1>1. IndInv => RanksTheCandidates
  <2> SUFFICES ASSUME IndInv PROVE RanksTheCandidates
    OBVIOUS
  <2>1. TypeOK
    <3>1. ASSUME NEW r \in Requests
          PROVE  /\ IsRequest(req[r]) /\ req[r].now <= time
                 /\ At(r, "idle") <=> req[r].prompt = None
                 /\ At(r, "done") <=> req[r].result # None
      <4>1. PICK x : x = req[r]
        OBVIOUS
      <4>2. RequestOK(x)
        BY <4>1 DEF IndInv
      <4>3. IsRequest(x) /\ x.now <= time
        BY <4>2 DEF RequestOK
      <4>4. x.pc = "idle" <=> x.prompt = None
        BY <4>2, NoneIsNothing DEF RequestOK, Idle
      <4>5. x.pc = "done" => x.prompt \in Prompts /\ IsAnswered(x)
        BY <4>2 DEF RequestOK
      <4>6. x.pc = "done" <=> x.result # None
        BY <4>2, <4>5, PromptUses, NoneIsNothing DEF RequestOK, IsAnswered
      <4> QED
        BY <4>1, <4>3, <4>4, <4>6 DEF At
    <3>2. bucket # None => bucket.tokens \in 0..capacity /\ bucket.ts \in 0..time
      BY AdvisoryConstants DEF IndInv, BucketIsWithinRate, Buckets
    <3>3. {granted, unspent} \subseteq Int /\ time \in 0..MaxTime
      BY DEF IndInv, BucketIsWithinRate, CallsArePaid
    <3> QED
      BY <3>1, <3>2, <3>3 DEF TypeOK
  <2>2. ASSUME NEW r \in Requests, At(r, "done"), req[r].prompt.use = "rank"
        PROVE  /\ IsRanking(req[r].result.items)
               /\ req[r].result.degraded => IsCheapestFirst(req[r].result.items)
    BY <2>2 DEF IndInv, RequestOK, IsAnswered, At
  <2> QED
    BY <2>1, <2>2 DEF RanksTheCandidates, IsRanking, IsCheapestFirst
<1> QED
    BY <1>1, Invariance, PTL

(***************************************************************************)
(* The cache all requests share never hands one the answer to another's    *)
(* prompt.                                                                 *)
(***************************************************************************)
THEOREM AnswersAreOwn == Spec => []AnswersOwnPrompt
<1>1. IndInv => AnswersOwnPrompt
    BY DEF IndInv, RequestOK, IsAnswered, At, AnswersOwnPrompt
<1> QED
    BY <1>1, Invariance, PTL

(***************************************************************************)
(* No call without a token, and no more tokens than the rate, whatever     *)
(* Redis loses and however late, up to MaxDelay, a claim reaches it.       *)
(***************************************************************************)
THEOREM GrantsAreWithinRate == Spec => []GrantsWithinRate
<1>1. IndInv => GrantsWithinRate
  <2> SUFFICES ASSUME IndInv PROVE GrantsWithinRate
    OBVIOUS
  <2>1. unspent >= 0
    <3>1. Cardinality(Calling) \in Nat
      BY FS_CardinalityType DEF IndInv, CallsArePaid
    <3> QED
      BY <3>1 DEF IndInv, CallsArePaid
  <2>2. granted <= capacity + time
    BY AdvisoryConstants DEF IndInv, BucketIsWithinRate, Buckets
  <2> QED
    BY <2>1, <2>2 DEF GrantsWithinRate
<1> QED
    BY <1>1, Invariance, PTL

(***************************************************************************)
(* Each step of a request brings its answer closer, so that every request  *)
(* is answered after ten steps at most, with Groq and Redis gone or not.   *)
(***************************************************************************)
THEOREM StepsAreProgress == Spec => EveryStepIsProgress
<1> DEFINE Progress ==
      \A r \in Requests :
        req[r].pc # "idle" /\ req'[r] # req[r] => StepsLeft(req'[r]) < StepsLeft(req[r])
<1>1. IndInv /\ [Next]_vars => [Progress]_vars
  <2> SUFFICES ASSUME IndInv, [Next]_vars PROVE Progress
    OBVIOUS
  <2>1. CASE UNCHANGED req
    BY <2>1
  <2>2. ASSUME NEW r \in Requests,
               rank_candidates(r) \/ Step(r) \/ \E t \in DOMAIN Texts : extract_mandate(r, t)
        PROVE  Progress
    <3>1. PICK z : Moves(r, z)
      BY <2>2, RequestStep
    <3>2. DOMAIN req = Requests
      BY DEF IndInv
    <3> QED
      BY <3>1, <3>2 DEF Moves
  <2> QED
    BY <2>1, <2>2 DEF Next, vars, Tick, Expire
<1> QED
    BY <1>1, Invariance, PTL DEF Spec, EveryStepIsProgress
=============================================================================
