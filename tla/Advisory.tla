------------------------------ MODULE Advisory ------------------------------
(***************************************************************************)
(* The language model as an adviser: mandate extraction                    *)
(* (application/conversation/extraction.py, domain/mandate/draft.py) and   *)
(* the ranking of candidates (ranking.py, domain/agent/buyer.py), through  *)
(* the repair loop, GroqClient._complete, the semantic cache and the token *)
(* bucket, with Redis and Groq failing at any call.                        *)
(*                                                                         *)
(* Groq may answer anything.  A text is a sequence of words.  A word fills *)
(* a slot or none, is a numeral (milli: thousandths, k: the suffix) or     *)
(* not, and has runs of its characters that read as numerals themselves    *)
(* ("10" of "10k", "inf" of "infant"); a run with a space in it is none.   *)
(* The circuit breaker is module CircuitBreaker: here any call may be      *)
(* refused.  A call is one of the SDK's: the HTTP requests it repeats by   *)
(* itself are not seen.                                                    *)
(***************************************************************************)
EXTENDS Integers, Sequences, FiniteSets, SequencesExt

CONSTANTS
    Requests,
    Texts,          \* conversations: name to sequence of words
    Items,          \* the catalog: SKU to CatalogItem
    mandate,        \* whose bounds filter the candidates
    Claims,         \* slots Groq may answer an extraction with
    Orders,         \* orders of SKUs Groq may answer a ranking with
    capacity,       \* limit_per_min; one token comes back per unit of time
    None,
    NotAnObject,    \* answers that are no JSON object
    DoesNotFit,     \* or do not fit the schema
    NonFinite,      \* what Decimal reads "inf", "nan" and the like as
    Raised,         \* an exception that nothing catches: the request ends with it
    ttl_s,          \* _TTL_S, the bucket's time to live: twice what it takes to fill
    MaxDelay,       \* a claim's way to Redis
    MaxTime         \* bound: the clock

ASSUME AdvisoryConstants ==
    /\ capacity \in Nat \ {0} /\ MaxTime \in Nat
    /\ MaxDelay \in Nat /\ ttl_s \in Nat /\ capacity + MaxDelay <= ttl_s

VARIABLES
    req,        \* requests
    cache,      \* SemanticCache: key to the prompt asked and the answer
    bucket,     \* the limiter's hash in Redis, None when it expired
    time,
    granted,    \* tokens granted, less what late claims set the bucket's clock back by
    unspent     \* tokens granted, less calls that reached Groq

vars == <<req, cache, bucket, time, granted, unspent>>

Idle == [pc |-> "idle", prompt |-> None, now |-> 0, answer |-> None, result |-> None]

Init ==
    /\ req = [r \in Requests |-> Idle]
    /\ cache = [k \in {} |-> None]
    /\ bucket = None
    /\ time = 0
    /\ granted = 0 /\ unspent = 0

-----------------------------------------------------------------------------
(* domain/mandate/draft.py                                                 *)

REQUIRED_SLOTS ==
    <<"category", "location", "check_in", "nights", "rooms", "currency", "max_total_minor">>
_QUESTION_PRIORITY ==
    <<"max_total_minor", "location", "check_in", "nights", "rooms", "category", "currency">>

Slots == Range(REQUIRED_SLOTS)

\* The words of a text, a MoneyEvidence (None: characters that are no
\* numeral), and what fits MandateDraftSlots.
Finite == [milli : Int, k : BOOLEAN]
Numerals == Finite \cup {NonFinite}
Words == [slot : Slots \cup {"none"}, whole : {None} \cup Finite, spans : SUBSET Numerals]
Evidence == [at : Nat \ {0}, span : {None} \cup Numerals]
DraftSlots == [present : SUBSET Slots, total : {None} \cup Evidence, unit : {None} \cup Evidence]

ASSUME TextsAndClaims ==
    /\ Texts \in [DOMAIN Texts -> Seq(Words)]
    /\ \A t \in DOMAIN Texts : \A i \in DOMAIN Texts[t] :
         LET w == Texts[t][i] IN
         /\ w.whole # None => w.whole \in w.spans
         /\ w.slot = "max_total_minor" => w.whole # None
    /\ {None, NonFinite} \cap Finite = {} /\ None # NonFinite
    /\ Claims \subseteq DraftSlots

_next_questions(missing) ==
    LET open == {i \in DOMAIN _QUESTION_PRIORITY : _QUESTION_PRIORITY[i] \in missing}
    IN  IF open = {} THEN None
        ELSE _QUESTION_PRIORITY[CHOOSE i \in open : \A j \in open : i <= j]

missing_required_slots(slots) ==
    Slots \ (slots.present \cup
        IF slots.total = None THEN {} ELSE {"max_total_minor"})

\* The numeral's value in minor units, if it has one.
Minor(n) ==
    LET milli == n.milli * (IF n.k THEN 1000 ELSE 1)
    IN  IF milli > 0 /\ milli % 10 = 0 THEN milli \div 10 ELSE None

\* Decimal(numeral_text): what is not finite fails in the comparison with 0 or
\* in int(), outside of the try.
Value(n) == IF n = NonFinite THEN Raised ELSE Minor(n)

\* Mutant: the numeral is believed without looking at the text.
EvidenceUnchecked(text, ev) == IF ev.span = None THEN None ELSE Value(ev.span)

\* The characters at the place named are compared, and no more: they may be a
\* part of a numeral.
verify_money_evidence(text, ev) ==
    IF ev.at \in DOMAIN text /\ ev.span \in text[ev.at].spans THEN Value(ev.span) ELSE None

\* A MandateDraft if nothing is missing, else ClarificationNeeded.
build_draft(text, slots) ==
    LET verified(ev) == IF ev = None THEN None ELSE verify_money_evidence(text, ev)
        total == verified(slots.total)
        unit == verified(slots.unit)
        missing == missing_required_slots(slots) \cup
                     (IF total = None THEN {"max_total_minor"} ELSE {})
    IN  IF Raised \in {total, unit} THEN Raised
        ELSE [missing_slots |-> missing,
              question |-> _next_questions(missing),
              max_total_minor |-> total,
              max_unit_minor |-> IF missing = {} THEN unit ELSE None]

\* The last match wins, and only a whole numeral marked as money counts as a
\* budget.
deterministic_slots_from_text(text) ==
    LET money == {i \in DOMAIN text : text[i].slot = "max_total_minor"}
        last == CHOOSE i \in money : \A j \in money : j <= i
    IN  [present |-> ({text[i].slot : i \in DOMAIN text} \ {"max_total_minor", "none"})
                      \cup {"currency"},
         total |-> IF money = {} THEN None ELSE [at |-> last, span |-> text[last].whole],
         unit |-> None]

-----------------------------------------------------------------------------
(* domain/agent/buyer.py                                                   *)

\* A SKU is known by its place in the order of SKUs.
ASSUME CatalogAndOrders ==
    /\ IsFiniteSet(DOMAIN Items) /\ DOMAIN Items \subseteq Int
    /\ \A sku \in DOMAIN Items : {Items[sku].unit_price_minor, Items[sku].rating} \subseteq Int
    /\ Orders \subseteq Seq(Int)

is_feasible(item) ==
    /\ item.category \in mandate.allowed_categories
    /\ item.merchant_id \notin mandate.blocked_merchants
    /\ item.unit_price_minor <= mandate.max_unit_minor
    /\ item.available_units > 0
    /\ mandate.require_refundable => item.refundable
    /\ item.city = mandate.city

filter_candidates == {sku \in DOMAIN Items : is_feasible(Items[sku])}

_sort_key(a, b) ==
    \/ Items[a].unit_price_minor < Items[b].unit_price_minor
    \/ /\ Items[a].unit_price_minor = Items[b].unit_price_minor
       /\ \/ Items[a].rating > Items[b].rating
          \/ Items[a].rating = Items[b].rating /\ a < b

rank(skus) ==
    CHOOSE s \in SetToSeqs(skus) : \A i, j \in DOMAIN s : i < j => ~_sort_key(s[j], s[i])

Ranked == rank(filter_candidates)

\* Mutant: a repeated SKU is not noticed.
RankingWithRepeats(candidates, skus) ==
    IF Len(skus) = Cardinality(candidates) /\ Range(skus) \subseteq candidates
    THEN skus ELSE None

apply_llm_ranking(candidates, skus) ==
    IF /\ Len(skus) = Cardinality(candidates)
       /\ Cardinality(Range(skus)) = Len(skus)
       /\ Range(skus) \subseteq candidates
    THEN skus ELSE None

-----------------------------------------------------------------------------
(* What a request is answered.                                             *)

At(r, pc) == req[r].pc = pc
Goto(r, pc) == req' = [req EXCEPT ![r] = [@ EXCEPT !.pc = pc]]
Finish(r, result, answer) ==
    req' = [req EXCEPT ![r] = [Idle EXCEPT !.pc = "done", !.prompt = req[r].prompt,
                                           !.result = result, !.answer = answer]]

TextOf(r) == Texts[req[r].prompt.text]

Draft(r, slots, answer) == Finish(r, build_draft(TextOf(r), slots), answer)
Ranking(r, items, degraded, answer) ==
    Finish(r, [items |-> items, degraded |-> degraded], answer)

\* except LLMUnavailable, in extract_mandate_draft and rank_candidates.
Fallback(r) ==
    IF req[r].prompt.use = "extract"
    THEN Draft(r, deterministic_slots_from_text(TextOf(r)), None)
    ELSE Ranking(r, Ranked, TRUE, None)

\* A response that fits the schema.
Advised(r, answer) ==
    IF req[r].prompt.use = "extract" THEN Draft(r, answer.said, answer)
    ELSE LET items == apply_llm_ranking(filter_candidates, answer.said)
         IN  IF items = None THEN Fallback(r) ELSE Ranking(r, items, FALSE, answer)

\* Mutant: repaired until it fits.
RepairForever(r) ==
    req' = [req EXCEPT ![r] = [@ EXCEPT !.pc = "get", !.prompt.attempt = 2, !.answer = None]]

\* complete_json_with_repair, after a response that does not fit.
Repair(r) ==
    IF req[r].prompt.attempt = 1
    THEN req' = [req EXCEPT ![r] = [@ EXCEPT !.pc = "get", !.prompt.attempt = 2, !.answer = None]]
    ELSE Fallback(r)

\* complete_json: what is not an object is LLMUnavailable.
Received(r, answer) ==
    CASE answer.said = NotAnObject -> Fallback(r)
      [] answer.said = DoesNotFit -> Repair(r)
      [] OTHER -> Advised(r, answer)

-----------------------------------------------------------------------------
(* Requests.                                                               *)

extract_mandate(r, text) ==
    /\ At(r, "idle")
    /\ req' = [req EXCEPT ![r] =
                 [@ EXCEPT !.pc = "get",
                           !.prompt = [use |-> "extract", text |-> text, attempt |-> 1]]]
    /\ UNCHANGED <<cache, bucket, time, granted, unspent>>

\* get_buyer_catalog with a mandate; without candidates Groq is not asked.
rank_candidates(r) ==
    /\ At(r, "idle")
    /\ LET p == [use |-> "rank", text |-> None, attempt |-> 1] IN
       req' = [req EXCEPT ![r] =
                 IF filter_candidates = {}
                 THEN [@ EXCEPT !.pc = "done", !.prompt = p,
                                !.result = [items |-> <<>>, degraded |-> FALSE]]
                 ELSE [@ EXCEPT !.pc = "get", !.prompt = p]]
    /\ UNCHANGED <<cache, bucket, time, granted, unspent>>

\* Mutant: the key leaves the user's text out.
KeyWithoutText(p) == [p EXCEPT !.text = None]

canonical_prompt_key(p) == p

\* SemanticCache.get: a Redis error is a miss, an expired key is another.
CacheGet(r) ==
    /\ At(r, "get")
    /\ LET k == canonical_prompt_key(req[r].prompt) IN
       \/ k \in DOMAIN cache /\ Received(r, cache[k])
       \/ Goto(r, "acquire")
    /\ UNCHANGED <<cache, bucket, time, granted, unspent>>

\* try_acquire reads the clock, and then calls the script.
Acquire(r) ==
    /\ At(r, "acquire")
    /\ req' = [req EXCEPT ![r] = [@ EXCEPT !.pc = "claim", !.now = time]]
    /\ UNCHANGED <<cache, bucket, time, granted, unspent>>

Least(a, b) == IF a <= b THEN a ELSE b
Most(a, b) == IF a >= b THEN a ELSE b

Bucket(now) == IF bucket = None THEN [tokens |-> capacity, ts |-> now] ELSE bucket

Refilled(now) == Least(capacity, Bucket(now).tokens + Most(now - Bucket(now).ts, 0))

\* Mutant: the time of the refill is not written back.
ScriptKeepsTime(now) ==
    LET allowed == Refilled(now) >= 1 IN
    /\ bucket' = [tokens |-> Refilled(now) - (IF allowed THEN 1 ELSE 0), ts |-> Bucket(now).ts]
    /\ granted' = granted + (IF allowed THEN 1 ELSE 0) - Most(Bucket(now).ts - now, 0)
    /\ unspent' = unspent + (IF allowed THEN 1 ELSE 0)

\* The Lua script: one atomic step, at the caller's time.
Script(now) ==
    LET allowed == Refilled(now) >= 1 IN
    /\ bucket' = [tokens |-> Refilled(now) - (IF allowed THEN 1 ELSE 0), ts |-> now]
    /\ granted' = granted + (IF allowed THEN 1 ELSE 0) - Most(Bucket(now).ts - now, 0)
    /\ unspent' = unspent + (IF allowed THEN 1 ELSE 0)

ToCall(r) == req' = [req EXCEPT ![r] = [@ EXCEPT !.pc = "call", !.now = 0]]

RateLimitUnavailable(r) == Fallback(r)

Claim(r) ==
    /\ At(r, "claim")
    /\ Script(req[r].now)
    /\ \/ IF Refilled(req[r].now) >= 1 THEN ToCall(r) ELSE Fallback(r)
       \/ RateLimitUnavailable(r)                \* the script ran, its answer is lost
    /\ UNCHANGED <<cache, time>>

ClaimFails(r) ==
    /\ At(r, "claim")
    /\ RateLimitUnavailable(r)
    /\ UNCHANGED <<cache, bucket, time, granted, unspent>>

\* CircuitOpenError: Groq is not called.
Refused(r) ==
    /\ At(r, "call")
    /\ Fallback(r)
    /\ UNCHANGED <<cache, bucket, time, granted, unspent>>

\* APIError, a timeout, or text that is no JSON.
CallFails(r) ==
    /\ At(r, "call")
    /\ Fallback(r)
    /\ unspent' = unspent - 1
    /\ UNCHANGED <<cache, bucket, time, granted>>

Answers(p) ==
    {NotAnObject, DoesNotFit} \cup (IF p.use = "extract" THEN Claims ELSE Orders)

\* Groq answers; the answer is cached before it is looked at.
Call(r) ==
    /\ At(r, "call")
    /\ \E a \in Answers(req[r].prompt) :
         req' = [req EXCEPT ![r] =
                   [@ EXCEPT !.pc = "set", !.answer = [asked |-> req[r].prompt, said |-> a]]]
    /\ unspent' = unspent - 1
    /\ UNCHANGED <<cache, bucket, time, granted>>

\* SemanticCache.set: a Redis error is suppressed.
CacheSet(r) ==
    /\ At(r, "set")
    /\ LET k == canonical_prompt_key(req[r].prompt) IN
       \/ cache' = [x \in DOMAIN cache \cup {k} |-> IF x = k THEN req[r].answer ELSE cache[x]]
       \/ UNCHANGED cache
    /\ Received(r, req[r].answer)
    /\ UNCHANGED <<bucket, time, granted, unspent>>

-----------------------------------------------------------------------------
\* A claim reaches Redis within MaxDelay.
Tick ==
    /\ time < MaxTime
    /\ \A r \in Requests : At(r, "claim") => time - req[r].now < MaxDelay
    /\ time' = time + 1
    /\ UNCHANGED <<req, cache, bucket, granted, unspent>>

\* The bucket's key expires.
Expire ==
    /\ bucket # None /\ time - bucket.ts >= ttl_s
    /\ bucket' = None
    /\ UNCHANGED <<req, cache, time, granted, unspent>>

Step(r) ==
    \/ CacheGet(r) \/ Acquire(r) \/ Claim(r) \/ ClaimFails(r)
    \/ Refused(r) \/ CallFails(r) \/ Call(r) \/ CacheSet(r)

Next ==
    \/ \E r \in Requests : rank_candidates(r) \/ Step(r) \/ \E t \in DOMAIN Texts : extract_mandate(r, t)
    \/ Tick \/ Expire

Spec == Init /\ [][Next]_vars

-----------------------------------------------------------------------------
Prompts ==
    [use : {"extract"}, text : DOMAIN Texts, attempt : 1..2]
    \cup [use : {"rank"}, text : {None}, attempt : 1..2]
Drafts ==
    [missing_slots : SUBSET Slots, question : {None} \cup Slots,
     max_total_minor : {None} \cup Nat, max_unit_minor : {None} \cup Nat]
Rankings == [items : Seq(DOMAIN Items), degraded : BOOLEAN]
Buckets == [tokens : 0..capacity, ts : 0..MaxTime]
IsRequest(x) ==
    /\ DOMAIN x = DOMAIN Idle
    /\ x.pc \in {"idle", "get", "acquire", "claim", "call", "set", "done"}
    /\ x.prompt \in {None} \cup Prompts
    /\ x.answer # None => x.answer.said \in Answers(x.answer.asked)
    /\ x.result \in {None, Raised} \cup Drafts \cup Rankings
    /\ x.now \in Nat

ASSUME NoneIsNothing ==
    /\ None \notin Prompts \cup Drafts \cup Rankings \cup Buckets
    /\ Raised \notin {None} \cup Nat \cup Drafts

\* Type invariant; the bucket never holds more than it has room for.
TypeOK ==
    /\ \A r \in Requests :
         /\ IsRequest(req[r]) /\ req[r].now <= time
         /\ At(r, "idle") <=> req[r].prompt = None
         /\ At(r, "done") <=> req[r].result # None
    /\ bucket # None => bucket.tokens \in 0..capacity /\ bucket.ts \in 0..time
    /\ {granted, unspent} \subseteq Int /\ time \in 0..MaxTime

Extracted(r) == At(r, "done") /\ req[r].prompt.use = "extract" /\ req[r].result # Raised
Bounds(draft) == {draft.max_total_minor, draft.max_unit_minor} \ {None}

\* What the characters of a text read as.
Readings(text) == (UNION {text[i].spans : i \in DOMAIN text}) \ {NonFinite}

(***************************************************************************)
(* Whatever Groq answers, a draft's budget (and its unit bound) is what    *)
(* characters of the user's own text read as, and never an amount that     *)
(* Groq worked out, also when the answer came from the cache or the        *)
(* fallback filled the form.  (draft.py says "verbatim as a numeral"; the  *)
(* characters may be a part of one.)                                       *)
(***************************************************************************)
BudgetIsSaid ==
    \A r \in Requests : Extracted(r) =>
        Bounds(req[r].result) \subseteq {Minor(n) : n \in Readings(TextOf(r))}

(***************************************************************************)
(* Whatever Groq answers, a ranking shows each candidate the mandate       *)
(* admits once and nothing else; without Groq the cheapest comes first.    *)
(* And the state is well typed.                                            *)
(***************************************************************************)
RanksTheCandidates ==
    /\ TypeOK
    /\ \A r \in Requests : At(r, "done") /\ req[r].prompt.use = "rank" =>
        LET items == req[r].result.items IN
        /\ Range(items) = filter_candidates /\ Len(items) = Cardinality(filter_candidates)
        /\ req[r].result.degraded =>
             \A i, j \in DOMAIN items :
                i < j => Items[items[i]].unit_price_minor <= Items[items[j]].unit_price_minor

(***************************************************************************)
(* The answer a request uses was given to its own prompt: the cache shared *)
(* by all requests never hands one user's draft to another.                *)
(***************************************************************************)
AnswersOwnPrompt ==
    \A r \in Requests :
        At(r, "done") /\ req[r].answer # None => req[r].answer.asked = req[r].prompt

(***************************************************************************)
(* No call reaches Groq without a token ("never as 'call Groq anyway'"):   *)
(* a Redis failure before or after the script only loses tokens.  And over *)
(* any time the limiter grants the bucket's size and what came back since, *)
(* plus exactly what claims that reach Redis late set its clock back by:   *)
(* try_acquire passes its own reading of the clock, and the script takes   *)
(* it as it comes, so how much that adds is not bounded here.              *)
(***************************************************************************)
GrantsWithinRate == unspent >= 0 /\ granted <= capacity + time

\* At most how many steps a request has left.
StepsLeft(q) ==
    LET left == [get |-> 5, acquire |-> 4, claim |-> 3, call |-> 2, set |-> 1, done |-> 0]
    IN  left[q.pc] + (IF q.pc # "done" /\ q.prompt.attempt = 1 THEN 5 ELSE 0)

(***************************************************************************)
(* Every request is answered after ten steps at most, with Groq, Redis or  *)
(* both gone: each step brings the answer closer ("No unbounded retry      *)
(* loops"), and an answer, an error 500 included, is final.                *)
(***************************************************************************)
EveryStepIsProgress ==
    [][\A r \in Requests :
        req[r].pc # "idle" /\ req'[r] # req[r] => StepsLeft(req'[r]) < StepsLeft(req[r])]_vars

-----------------------------------------------------------------------------
(* Why they hold: the inductive invariant behind the theorems of           *)
(* AdvisoryProofs.                                                         *)

IsDraftOf(text, draft) ==
    Bounds(draft) \subseteq {Minor(n) : n \in Readings(text)}

IsRanking(items) ==
    Range(items) = filter_candidates /\ Len(items) = Cardinality(filter_candidates)

IsCheapestFirst(items) ==
    \A i, j \in DOMAIN items :
        i < j => Items[items[i]].unit_price_minor <= Items[items[j]].unit_price_minor

\* What a request that is answered was answered.
IsAnswered(x) ==
    /\ x.answer # None => x.answer.asked = x.prompt
    /\ x.prompt.use = "extract" =>
           \/ x.result = Raised
           \/ x.result \in Drafts /\ IsDraftOf(Texts[x.prompt.text], x.result)
    /\ x.prompt.use = "rank" =>
           /\ x.result \in Rankings /\ IsRanking(x.result.items)
           /\ x.result.degraded => IsCheapestFirst(x.result.items)

\* What is so of a request by the place it is at.  A claim that finds no
\* bucket fills one at its own time: no token may have been granted after it.
RequestOK(x) ==
    /\ IsRequest(x)
    /\ IF x.pc = "idle" THEN x = Idle ELSE x.prompt \in Prompts
    /\ x.pc # "done" => x.result = None
    /\ x.now <= time
    /\ x.pc = "claim" =>
           time - x.now <= MaxDelay /\ (bucket = None => granted <= x.now)
    /\ x.pc = "set" => x.answer.asked = x.prompt /\ x.answer.said \in Answers(x.prompt)
    /\ x.pc = "done" => IsAnswered(x)

\* Every key holds an answer to the prompt it is the key of.
CacheIsKeyed == \A k \in DOMAIN cache : k \in Prompts /\ cache[k].asked = k /\ cache[k].said \in Answers(k)

\* A token is spent once, and every call under way has one.
Calling == {r \in Requests : At(r, "call")}
CallsArePaid == IsFiniteSet(Calling) /\ unspent \in Int /\ unspent >= Cardinality(Calling)

\* The bucket holds at most what is left to be granted up to its own time.
BucketIsWithinRate ==
    /\ time \in 0..MaxTime /\ granted \in Int
    /\ bucket = None => granted <= time
    /\ bucket # None =>
           bucket \in Buckets /\ bucket.ts <= time /\ granted + bucket.tokens <= capacity + bucket.ts

IndInv ==
    /\ DOMAIN req = Requests
    /\ \A r \in Requests : RequestOK(req[r])
    /\ CacheIsKeyed
    /\ CallsArePaid
    /\ BucketIsWithinRate
=============================================================================
