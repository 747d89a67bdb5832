# A verification of ACTL

ACTL lets an agent buy on a user's behalf under a signed mandate. This directory
holds TLA+ modules translated from `src/src/actl`, TLC configurations that check
them on small instances, and TLAPS proofs of what matters most for every
instance. `PROJECT.json` lists components, runs, the source lines behind each
definition, mutants, hazards, findings and theorems.

To run: `tlc -config MCLedger.cfg MCLedger`, `tlapm LedgerProofs.tla`, and so on.

## Inventory

| Component | State | Operations | What makes it correct |
|---|---|---|---|
| Reservation ledger (`ledger_service`, `domain/ledger/model`) | `ledger_entries`, the mandate row lock | `reserve`, `capture`, `release`, `reverse_settlement`, `sweep` | never above the cap; one way out of HELD; books agree with states; an answer stands at the commit |
| Money action gate (`gate`) | none of its own; mandate status | halt check, G1 to G5 in one transaction, G6 and G7 around the provider | nothing reaches the provider unreserved, or far from the live price |
| Order creation (`payment_service`) | `idempotency_keys`, `orders` | claim, write-ahead, provider call with its tries, complete or fail, bounded wait | one request goes to the provider for a key; the order row comes first |
| Purchase saga (`orchestrator/saga`) | `sagas` | `begin_purchase`, `complete_purchase` | restart-safe; COMPLETED means settled |
| Compensations (`compensations`) | the tables above | C1, C2, C4, C5 | no false settlement, no lost charge |
| Webhooks and reconciler (`payment_service`, `worker`) | `webhook_events`, `orders` | deliver, apply, poll | orders follow the provider, eventually |
| Circuit breaker and retry (`platform`) | in memory, shared by coroutines | `call`, `retry_with_full_jitter` | opens at the threshold; never jams |
| Audit chain (`audit_service`) | `audit_log`, `audit_checkpoints`, advisory lock | append, checkpoint, verify | one gapless chain; no false alarm |
| Integrity halt (`integrity`) | `integrity_halt` | trip, read | one row that every process obeys |
| Mandates (`domain/mandate`) | `mandates.status` | mint, propose, settle, compensate, revoke, expire | revocation is final |
| Policy engine (`domain/policy`) | none | twelve rules, `evaluate` | admits only what the mandate allows |
| Merchant agent (`agents/merchant`) | `decisions` | quote, catalog, `order.propose` | a proposal is judged on what the merchant itself rebuilds |
| Envelopes (`agents/envelope_service`, `cache/nonce`) | Redis nonces, `agent_identities` | verify, claim, dispatch, revoke | acted on at most once, and only for its sender |
| Catalog and quotes (`catalog_service`) | `catalog_items`, `quotes` | quote, change a price, page | a stale quote buys nothing beyond the drift allowance |
| Add-on purchases (`upsell_service`, `routers/buyer`) | `addon_purchases` | offer, accept, decline | bought at most once; the row says what happened |
| Recovery (`application/recovery`) | none | one new quote after STALE_PRICE | one new quote at most |
| Checkpoint anchoring (`worker`, `anchor`, `chain/src`) | anchor columns, contract, transaction pool | submit, mark, conflict, verify | a root is recorded once; the outbox says what the chain says |
| Rate limiter (`cache/rate_limit`) | Redis token bucket | acquire | within the rate, whatever the callers' clocks |
| Drafting and ranking (`application/conversation`, `infrastructure/llm`) | prompt cache | extract, rank, repair, fall back | no budget but from the buyer's own characters; no invented candidate |
| Trust Lab and growth (`demo`, `demo_runs`, `growth`) | runs, `outbox`, `orders.source` | start a run, its cards, simulate, report | complete evidence; no demonstration counts as a sale; metrics of what was sold |
| HTTP, console, tracing, schema | | | not modelled: no state protocol of their own |

How they interact: a request runs `begin_purchase`, which calls the gate, which
reserves in the ledger and creates the provider order; the payer pays; a second
request runs `complete_purchase`, which captures and settles, or compensates.
The worker applies webhooks, polls the provider and anchors checkpoints; the
operator runs the sweeper and the verifier. Agents reach the merchant through
signed envelopes, browsers through the buyer's routes. They share nothing but
the database, Redis, the provider, the chain and, within a process, the breaker
and the id generator. Every unit of work is one Postgres READ COMMITTED
transaction, calls to other systems lie outside them, and a process may die
anywhere.

What is hard here: values read before a row lock and used after it, retries of
what may already have happened, answers lost after the other side has acted, two
requests for one saga or one add-on, late webhooks, clock readings that arrive
late, and late results meeting a breaker in another state. `PROJECT.json` lists
each of these at its line.

## Modules

- **Ledger**: one action per SQL statement of a ledger operation (`Lock`,
  `Check`, `SumReserved`, `SumSettled`, `Insert`, `Commit`), so that sessions
  interleave between statements. `posted` counts the committed movement pairs per
  reference and `ref_type`, `balance` is their net; what a transaction has
  written and not committed is in its `pending` and `net`. The sweeper holds the
  row locks of several mandates; Postgres breaks cycles (`DeadlockVictim`).
- **ReservationBudget**: what the ledger promises: each reference moves from
  NONE to HELD to one outcome, and what is live stays within the cap.
- **PaymentSaga**: gate, saga, order creation, capture, compensations, webhooks,
  reconciler and provider, on top of ReservationBudget (which Ledger implements,
  so a ledger operation is one step here). A step is one transaction or one
  provider call; a transaction that reads a row before it locks or writes it is
  split at the read, and `seen` keeps what was read. `creates` is a history
  variable: the orders that the provider has made for a key. A try of
  `_call_with_retry` that times out after it took effect is a step of its own
  (`RetryCall`) and makes one too.
- **Policy**: the twelve rules of `domain/policy/rules` and `evaluate`, as
  operators on an intent, a quote and a mandate.
- **Storefront**: catalog, quotes, `order.propose`, the gate's pure checks, the
  requote, the buyer's routes and add-ons, composed with Policy. A quote reads
  the price and the version in two statements; a proposal reads, decides, is
  admitted and has its order created in separate steps. A second call for a key
  in flight is denied and leaves the reservation (`InFlight`, status DENIED), and
  a provider that raises in `purchase_upsell` ends the request (`ProviderRaises`).
- **CircuitBreaker**: admission and outcome of an attempt are separate steps,
  since coroutines interleave only where they await.
- **AuditChain**: appends under the advisory lock, several per unit of work,
  checkpoints, the verifier's statements, and one change to the table behind the
  program. A hash is the sequence of payloads below it, so sha256 is taken to be
  free of collisions. `written` and `tampered` are history variables.
- **Envelopes**: `verify_envelope` with its reading of the identity and the
  clock, the nonce claim (which waits for Redis), the skew check after it, and
  dispatch; the clock, revocations and crashes interleave with them.
- **Anchoring**: the outbox rows, the worker's tick, the adapter's read, send
  and receipt, the contract, and a transaction pool that mines in order.
- **Advisory**: extraction and ranking as requests that pass the prompt cache,
  the token bucket and the model, with one repair attempt and the deterministic
  fallback; the model may answer anything. A text is a sequence of words, and a
  word has its `spans`: the runs of its characters that read as a numeral by
  themselves, which is what `verify_money_evidence` compares. A token is one call
  of the SDK, whose own HTTP retries (on by default, groq_client.py:69) are not
  seen. The order of slots and questions is there as the code has it; no property
  depends on it.
- **TrustLab**: the background runs and their cards, the one id generator that
  they seed and reset and that customers draw from too, customers, and the growth
  simulation with its events.
- **GrowthMetrics**: `compute_growth_metrics` beside TrustLab: ten SELECTs, five
  for an arm, each on the outbox as it is when the statement runs.
- **LedgerBudget**: the ledger against ReservationBudget: the refinement mapping,
  and what the netted balances add up to.
- **LedgerProofs**, **SagaProofs**, **StorefrontProofs**, **AuditProofs**,
  **AnchoringProofs**, **GuardProofs**, **AdvisoryProofs**, **TrustLabProofs**: the
  theorems. The inductive invariants they prove are at the end of the modules they
  are about, under "Why they hold".
- **MC\***: the instances.

Abstractions. Amounts and times are small numbers; signatures (a table of which
are valid), wording, metrics and tracing are left out. PaymentSaga and Storefront
do not count time: a TTL or a timeout may pass at any moment (`late` in
Storefront). G2, G3, G5 and the signature, hash and expiry checks of G1 can only
deny, so PaymentSaga has one nondeterministic denial for them and Storefront has
them as they are; in return the saga is its answer in Storefront, and its
purchases are taken whole in TrustLab. Audit entries are part of the
transactions that write them and are modelled in AuditChain alone, except for
those TrustLab counts as evidence. A worker takes webhook events and due orders
one at a time, where the code commits a batch together. In PaymentSaga
a capture leaves a refunded payment refunded, where the simulator would answer
captured: what is settled has to be charged all the same. In Envelopes the
identity and the clock are read in one step, and a nonce
belongs to an envelope (the code keys it by `msg_id`), and Redis keeps what it
was told until it expires. In Anchoring a call through an open breaker is
`Refused`. In TrustLab the policy decision and the gate are one step, and the
simulation's `complete_purchase` succeeds, as its simulator never declines. The
mutants in the modules are faulty variants of the definition that follows them;
no specification uses them.

## Runs that pass

| Run | Instance | Shows |
|---|---|---|
| `ledger` | 1 mandate, 3 references that do not all fit, 2 sessions | cap, life cycle, books equal to states, true answers (of a repeated `reserve` too), refinement of ReservationBudget |
| `ledger_live` | 2 mandates, 1 reference each, 2 sessions | the inductive invariant of the proofs; every transaction ends |
| `saga` | 1 purchase, 2 requests, 1 worker, 1 crash | settled means charged and COMPLETED means settled, one request at most orders, the code's assertions and its write-ahead, CAPTURED is true |
| `saga_live` | 1 purchase, 1 request, 1 worker, 1 crash | requests end; the reconciler finishes what the provider has finished |
| `storefront` | 2 sessions on one mandate, 2 clicks on one add-on, 1 price change, 1 crash or revocation | admitted sums stay within the mandate, an add-on is bought once and its row is true (with provider errors that nothing catches), paging shows an untouched item once, admission is near the live price: within the mandate's drift allowance |
| `breaker` | 3 callers, threshold 2, 2 attempts | open exactly at the threshold, no jam, the breaker closes again |
| `audit_chain` | 2 sessions, 4 entries, a checkpoint every 2, an edit or a deletion inside or at the end | one chain, no false alarm, ok covers what was read |
| `envelopes` | 3 envelopes, 2 identities, 2 deliveries at a time, 7 ticks | acted on once, only for its sender, and not after a revocation |
| `anchoring` | 2 checkpoints, 2 transactions each, 1 lost transaction, 1 crash, another writer | linked transactions are mined, the outbox is true, one event per range, every checkpoint settles |
| `advisory` | 2 requests, 2 texts, 4 items, a bucket of 2 tokens, 3 ticks | a budget is read from characters the buyer wrote, rankings are of the candidates, an answer belongs to its prompt, grants within the rate, a request always advances |
| `trust_lab` | 6 casts of 2 runs, a customer and one simulated session per arm, a failure or a crash; in one of them the metrics are read all the while | unique ids, complete evidence, sales are organic, metrics count what was sold, every run ends |

Bounds. Two sessions or requests are enough for every race between a check and
its use; the third reference makes the cap bind both for what is reserved and
for what is settled; one crash at any step is what the restart paths handle, and
a second request plays the restarted one. Two checkpoints of two entries let a
segment begin inside a unit of work. `MaxFailures` bounds failures counted in a
row above the threshold (breaker) and stops the count of a checkpoint's attempts
(anchoring), which no decision reads. `MaxSeq` bounds the log, `MaxVersion` the
price changes (to a price just within the drift allowance, or beyond it), and
`MaxFaults` the crashes and revocations of the storefront. With one price change
a new quote does not go stale again; two changes take more than the five minutes
a run should. Seven ticks are long enough for a nonce of four to expire and its
envelope to be delivered again; the timestamps lie in the past and in the future
of a delivery. `MaxTx` 2 lets a lost answer be followed by a second submission;
a third would meet the same contract. `max_retry_attempts` is 2 (the code's
default is 3): the second try is the one that can repeat an effect. In
`storefront` the first quote is asked for when the listing is over (`QuoteRead`),
so that paging meets price changes and not the whole of the purchases; none of
the properties relates the two. In `advisory`, `ttl_s = capacity +
MaxDelay`, so that a bucket that expires is full (the code has 120 s for a
refill of 60 s). `Casts` lists which cards and customers meet and what fails
between them: each cast is one interleaving question, since all four cards twice
is out of reach.

Deadlock is checked in `ledger`, `ledger_live`, `breaker` and `audit_chain`. The
others come to rest: requests finish, the clock and the log are bounded.
`ledger` uses the symmetry of sessions, `saga` of requests, `storefront` of
clicks, `audit_chain` of sessions and payloads; runs with a liveness property use none.

Fairness. Ledger: a session keeps executing; Postgres queues for a row lock, so a
lock freed again and again is obtained (strong fairness of `Lock`); its deadlock
detector runs. Saga: processes keep stepping; the worker's loops run for ever and
come back to every event and due order, and a poll that can be answered is
answered in the end. Breaker: time passes, calls keep coming, and the dependency
is not down for ever; with a dependency that never recovers the breaker need not
close. Anchoring: the loop ticks for ever and the chain mines (weak fairness); an
RPC node that answers again and again answers the read and takes the transaction
in the end (strong fairness). TrustLab: a started task keeps running.
`EveryStepIsProgress` of Advisory is an action property with a decreasing measure
and needs none.

## The run that refutes what the repository says

`revocation`: architecture.md states I-M3, revocation is monotonic; the gate
writes EXECUTING over a revocation that came after G1's read. The revocation is
the operator's (no code under `src/` revokes a mandate, but the gate and the saga
handle the status).

## Disagreements without a run

These show in the models; the properties checked are what does hold.

- architecture.md:2404, F5, provider timeout on order creation: "Retry with the
  same idempotency key; never a second order". `_call_with_retry` repeats
  `create_order` (payment_service.py:215), the Razorpay adapter sends the key as
  the receipt and the simulator makes an order per call, so a try that timed out
  after it took effect leaves a second order. In the model `creates` reaches
  `max_retry_attempts`; `OneRequestOrders` is what holds: one request at most
  goes on to the provider.
- README.md:113, "no charge is ever left orphaned": a capture whose answer was
  lost is marked FAILED and voided, and never refunded (payment_service.py:346).
- architecture.md:1480, the sweeper takes orders "with no terminal payment
  state": `sweep` does not look at the order (ledger_service.py:237).
- gate.py:344, "no reservation is ever left dangling": after a database error in
  the second transaction the retry waits for its own IN_FLIGHT key and denies
  without releasing (gate.py:333).
- saga.py:87, a resolved result is "never re-executed": the later of two requests
  overwrites COMPLETED (saga.py:122).
- architecture.md:1779, any modification of the log is detected: `verify_chain`
  does not compare the last row with `to_seq` (audit_service.py:190), so rows
  missing at the end of the range are not. `OkCoversWhatWasRead` says what ok
  does mean. And `verify-chain` on a range that begins past the head of an intact
  log trips the halt: the exception in `NoFalseAlarm`.
- simulation.py:178, "One mandate can therefore ever fund exactly one settled
  purchase": the transaction count given to the rules is always 0
  (merchant.py:237, gate.py:260). `WithinMandate` bounds the sum instead.
- The breaker's docstring promises "exactly one trial call" and "stays OPEN for
  `recovery_timeout`", but `finally` clears the trial flag for a call admitted
  earlier too, and a late success closes an open breaker; `TrialHasOwner` and
  `OpenIffThreshold` are what does hold.
- `create_quote` "pins" price and version "at this instant" with two statements;
  `AdmittedAtLivePrice` shows that the drift rule bounds what this can do.
- An add-on left pending by a crash stays pending. So does one whose request met
  a provider error: `fetch_payments` is guarded neither at buyer.py:656 nor in
  `complete_purchase` (saga.py:202), the answer is a 500 and no statement
  resolves the row, with the process alive. PAYMENT_NOT_READY marks it failed
  while the reservation is still held.
- repositories/catalog.py:3, keyset paging is "immune to duplicate or skipped
  rows when items are inserted/updated between pages". An item whose price moves
  across the cursor is skipped or shown twice; `PagesShowUntouchedOnce` holds of
  the others, and says nothing of items inserted meanwhile.
- A nonce is claimed before the skew check, so CLOCK_SKEW burns it; a lost answer
  of Redis is reported as retryable, but the retry is a replay.
- monad_testnet.py:170, the read before the send "is what makes a retried
  delivery never submit a duplicate": two submissions are possible, and the
  recorded `anchor_tx` may be the one without an event, or NULL after a crash.
  `OneEventPerRange` is what the contract guarantees.
- draft.py:161, "every monetary value must appear verbatim as a numeral in the
  user's own text": line 172 compares any run of characters, so "10" of "10k" or
  "9500" of "95000" is accepted as the budget. `BudgetIsSaid` is what holds: the
  amount is what characters of the text read as, never one the model worked out.
  And draft.py:167, "Returns None ... if either check fails": `Decimal` reads
  "nan" and "inf" (of "infant", say), and lines 187 and 193 then raise outside
  the `try`; the request ends with the exception (`Raised`).
- `build_draft` says a bound is verified or absent; an unverified unit bound does
  not ask for clarification, and `create_mandate` does not use it. Answers are
  cached for 24 hours before they are validated. A token bucket grants up to twice
  the limit within one minute, and a late clock reading sets `ts` back,
  which grants again what was granted. `GrantsWithinRate` bounds the grants less
  those setbacks (`granted`): it shows that refill, expiry and failures grant
  nothing more, and not that the setbacks are harmless.
- ids.py:15, "normal application code (the HTTP app, the worker, real `actl`
  money commands) never does" seed the generator, and ids.py:71, teardown resets
  it "so a deterministic seed never leaks into an unrelated run": Trust Lab runs
  seed it inside the HTTP process, where customers and other runs draw from it
  until it is reset, or reset it under one another. `IdsAreUnique` holds all the
  same.
- The growth metrics of one answer are of ten moments (metrics.py:36): with
  events in between, more may be accepted than offered, more offered than
  started, and the uplift be negative. `MetricsAreTrue` says what holds of any
  reading and what of one that nothing came in between.
- demo.py:431 says a live poller sees batches,
  but `run.events` is assigned in `finally`. The sweep of one run has no filter and
  meets the others' reservations. A demonstration's order is listed as organic
  until `set_source` commits, for ever after a crash, though not in the sales
  figure. With a concurrent `stale_price`, `declined` may be denied STALE_PRICE
  and still report PROVIDER_DECLINED and pass.

## Proofs

Each of these holds for every value of the constants, under the assumptions the
modules name. An inductive invariant was first checked by TLC as an invariant of
the component's run.

**LedgerProofs**, for any mandates, references, sessions, amounts and caps
(`ConstantsAssumption`: a reference fixes its mandate and a positive amount):
`IndInv` is inductive, and gives `TypeOK`, `BudgetCap` and
`ReservationLifecycle`. The cap is not inductive by itself: a session decides on
balances it read earlier and posts later. `IndInv` therefore adds that a session
past `Lock` holds its mandate's row lock, that the reserved sum it has read is the
committed one, and that what it has written and not committed may be committed:
legal for the history of its reference, and within the cap together with what is
committed. The lock makes this stable: another session cannot commit to a mandate
this one has locked. `AnswersAreTrue` needs `AnswersStand` besides: an answer is
given under the lock, of the entries committed and the session's own, and both
stay until it commits. `reserve` answers true only if its entry is there or will
be, at its first call and at a repeated one; that the reservation is still held
it does not say, in the code either.

The same module adds up. `BooksMatchStates` is proved with `BudgetInv`: what a
session nets is the sum of what it has pending (`NetIsPending`), and it posts one
type of movement, of one reference unless it sweeps (`OneOperation`), so a commit
moves exactly those amounts from one state's sum to another's. From it
`ImplementsBudget`: a commit is one step of ReservationBudget, whose cap is on the
amounts of the live references and not on balances, and every other step a
stutter. A sum over a set is a recursive function inside a fold, out of reach of
the library's induction; here its existence and its laws come from the
well-founded order of the subsets of a finite set (`Smallest`: a set of
counterexamples would have a least one). `RefsAreFinite` is the assumption this
needs: a reference is a digest.

**SagaProofs**, for any mandates, keys, requests and workers: `SettledIsCharged`,
`OneRequestOrders`, `AssertionsHold` and `CapturedIsTrue`. None is inductive
alone. `IndInv` adds `RowsAgree` (the reservation and the order row come before
the claim commits, the provider hears of a key after it, money goes back only when
no reservation is left to settle), `OneOwner` (one process at a time between a
claim and its outcome, so that the orders made are those of its tries) and
`Knows`, what a process has learnt by the place it is at. The proof is rely and
guarantee: every action is shown to be `Steady`, which takes away nothing another
process knows, and to leave its own process knowing what its new place says.

**StorefrontProofs**, for any catalog, prices, buyers, add-ons and mandates
(`StorefrontConstants`: positive prices and quantities, an add-on's request mints
its own mandate): `WithinMandate`, `AddonBoughtOnce`, `AddonRowIsTrue` and the
action property `AdmittedAtLivePrice`. `RequestOK` says what a request knows: its
quote is no newer than the catalog, what it read is the live price while the
quote's version is the catalog's (a price changes only with the version), its
mandate's bounds are those it was judged by, and a claimed add-on's row is pending
and its own until it ends, with an answer and the row resolved or without
(`aborted`) and the row left. `RequestStays` shows that no other step undoes this.
`WithinMandate` follows from G4, which adds up what is held when it reserves,
whatever was read before: the sums are those of finite sets of purchases, with the
same argument as in LedgerProofs. `AddonRowOK` ties a row to the one request that
minted a mandate for its item; without the item in it, it is not inductive for two
add-ons.

The pages of the catalog are proved in the same module: `PagesShowUntouchedOnce`,
for any catalog and page size. `WalkOK` is the account of the walk: an item whose
price stayed has been shown once if it is not after the cursor, and not at all if
it is. A page shows the first rows after the cursor and moves it to the last of
them (`PageStep`), and a price change while the walk goes on counts its item as
touched (`TouchStep`). The order must be total: `StorefrontConstants` says that the
catalog is finite and that no two items have the same rank, which is the primary
key `sku`; with the price alone as the cursor the account fails. That the rows can
be sorted at all is `ListExists`, again by a least counterexample.

**AuditProofs**, for any sessions, payloads, segment lengths and lengths of the
log: `OneChain`, `NoFalseAlarm` and `OkCoversWhatWasRead`. The chain lock admits
one unit of work, and what it has in sight extends the log (`Extends`), so that a
commit leaves a chain; a verifier that read before a commit read a part of the log
that stays as it was (`ReadIsLog`). Where the table was tampered with, an ok
speaks through the hashes alone (`HashesAreOriginal`). That the recursive function
the verifier computes is defined at all is proved too, by its least
counterexample.

**AnchoringProofs**, for any checkpoints, transactions, losses and crashes:
`OutboxIsTrue`, `LinkedTxIsMined` and `OneEventPerRange`. The chain moves forward
only (`Forward`), so what the worker found stays true until it commits it, however
late.

**GuardProofs** is about the two guards of a process. The breaker, for any number
of callers, threshold and attempts: `BreakerTypeOK`, `OpenIffThreshold` and
`TrialHasOwner`. `TrialHasOwner` is inductive because a trial's owner is the only
state in which the flag is set and `finally` clears it for everybody.

Envelopes, for any envelopes, agents and deliveries: `TypeOK`, `AcceptedOnce` and
`RevocationTakesEffect`, provided `NONCE_TTL > 2 * SKEW_WINDOW + MaxDelay`: a
delivery compares the envelope with a clock reading up to `MaxDelay` old, so an
envelope stays acceptable for two windows and that delay, and its nonce must
outlive them. The code has 600 s and windows of 120 s and bounds the wait for
Redis by nothing of its own. `AcceptedOnce` is not inductive: the invariant adds
that the nonce of an accepted envelope lives until no delivery can pass the skew
check (`NonceCovers`), that readings are recent (`ReadingIsRecent`) and that a
sender past the identity check was active when it was read (`SenderWasActive`).

**AdvisoryProofs**, for any requests, texts, answers of the model and items:
`BudgetIsSaid`, `RanksTheCandidates`, `AnswersOwnPrompt`, `GrantsWithinRate` and
the action property `EveryStepIsProgress`. `IndInv` says of each place what a
request knows there (`RequestOK`: an answer was given to its own prompt, a draft is
`build_draft` of the buyer's text and so has no bound but what its `spans` read as,
a ranking is a permutation of the candidates),
that the cache holds under a key the answer to a prompt with that key, which is
the whole prompt (`CacheIsKeyed`), that a request about to call has paid for it
(`CallsArePaid`), and that the bucket's tokens and the grants stay within the
capacity and the time passed (`BucketIsWithinRate`). The last needs `capacity +
MaxDelay <= ttl_s`: a bucket that expires would have been full. The model's answers
are any of `Claims` and `Orders`, which are only assumed to fit the schema the
client validates. A ranking is a CHOOSE among the permutations that are sorted;
`SortExists` proves that there is one.

**TrustLabProofs**, for any runs, customers, sessions and faults (what buys is
told apart, `TrustLabConstants`): `IdsAreUnique`, `SalesAreOrganic`,
`EvidenceIsComplete` and `MetricsAreTrue`. Each rests on a part of `LabInv`, which
is inductive with `IsTyped` (a run is at a place of its own scenario).

- `IdsOK`: a run seeds the generator once, with its own name, so a seed that was
  reset never comes back, and while it is set its counter is past every id given
  out under it.
- `OrdersOK`: a demonstration has one order, untagged only before its payment. A
  process that dies in between leaves an order that is not captured.
- `EvidenceOK`: up to its mark a run has recorded each of its own entries, and
  when it closes all of them are before the mark. What others append moves nothing
  that is already there. What the loop of `_emit_events_for_entries` returns for
  any span of the chain is `EmittedIs`, by its least counterexample.
- `SimOK`: where the simulation is, its events say. Every captured order of the
  simulation is reported but the one it is about to report; accepted follows
  offered, and offered follows started, in the same session, so that each kind has
  an injection into the next: `BoxIsTrue`, of any one state of the outbox.
- `ReportOK` (of GrowthMetrics, where `MetricsSpec` adds the readings): each
  statement done has answered what was true then, so no more than now, the outbox
  only growing; a total is read after the orders it is divided by, so it is at
  least 750 for each of them (`MeanBounds`); and while the outbox is what it was
  at the first statement the answers are those of one state.

Left to TLC:

- liveness and everything under fairness, which is beyond the prover:
  `EveryRunEnds` among them;
- `RevocationIsMonotonic`, which is false.

## Not modelled

- Routing, serialisation, the console and tracing: no state of their own. Database
  schema and migrations: their constraints are in the actions that meet them.
- The batch of webhook events or due orders that commits together, deduplication
  by event id, and webhook signatures.
- Mandates before LOCKED, their signing and hashing: no code under `src/` stores
  one before that. The construction of sha256 and the Merkle tree.
- Redis losing keys, clocks that differ between replicas, reorganisations of the
  chain and RPC nodes that answer from an old state: the code handles none.
- `order.status` and `receipt.issue` (each reads one row), catalog filters and
  search, narration and `BudgetedLLMClient` (no route uses them), replay (for
  tests), the scenarios that only the command line runs, exports and
  `verify_trace_offline`.
- A purchase begun before the halt that completes after it (the repository's ADR
  0010 records it as a known gap), and a batch with a failing member: hazards
  listed without a property.

## Plan

1. Webhook intake: deduplication by event id, the batch and its single commit.
2. The Merkle tree against a reference definition over bounded inputs.
3. Two purchases of one mandate in PaymentSaga, with the shared status.
4. Proofs: that PaymentSaga takes only steps of ReservationBudget on the
   reservations.
