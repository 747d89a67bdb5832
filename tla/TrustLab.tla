------------------------------ MODULE TrustLab ------------------------------
(***************************************************************************)
(* The demonstrations that share a database with real customers: the Trust *)
(* Lab's background runs, which live in the memory of the HTTP process,    *)
(* and the growth simulation, a process of its own.                        *)
(*                                                                         *)
(* A step is a transaction or what happens between two awaits.  A purchase *)
(* is reduced to its quote, its proposal (policy, gate and order) and its  *)
(* checkout; their detail is in Storefront and PaymentSaga.  The           *)
(* audit chain has no gaps and entries become visible in their order       *)
(* (AuditChain), so the chain is a sequence.                               *)
(***************************************************************************)
EXTENDS Integers, FiniteSets, FiniteSetsExt, SequencesExt

CONSTANTS
    Runs,           \* the clicks on a Trust Lab card
    Customers,      \* purchases of real customers
    Sessions,       \* --sessions: seeded sessions per arm
    Casts,          \* bound: who acts together in one behaviour, and from when on
    None

Sim == "growth"
RUNNABLE_KINDS == {"stale_price", "declined", "llm_down", "verify_chain"}
Arms == {"baseline", "upsell"}

ASSUME TrustLabConstants ==
    /\ Sessions \in Nat \ {0}
    /\ Runs \cap Customers = {} /\ Sim \notin Runs
    /\ \A s \in 1..2*Sessions, i \in {"base", "upsell"} : <<s, i>> \notin Runs \cup Customers
    /\ None \notin Runs \cup RUNNABLE_KINDS \cup {"demo_lab", "growth_simulation", "rate"}
    /\ \A c \in Casts :
         /\ c.cards \in [Runs -> SUBSET RUNNABLE_KINDS]     \* what a click may be on
         /\ c.meets \in [Runs -> SUBSET STRING]              \* where it finds the others; {}: anywhere
         /\ c.customers \subseteq Customers
         /\ c.sim \in BOOLEAN                               \* the simulation runs too
         /\ c.faults \in Nat                                \* failing statements and crashes

VARIABLES
    cast,       \* who takes part, and how often something fails
    price,      \* catalog_items of the demo skus, one per scenario
    version,    \* catalog_meta.version
    log,        \* audit_log: who wrote each entry, and its action
    orders,     \* orders: whose, source, status
    ids,        \* _deterministic_seed and _deterministic_counter
    issued,     \* the deterministic ids given out so far
    run,        \* _RUNS, with the locals of _execute and of the scenario
    sim,        \* the growth simulation's own locals
    outbox,     \* its events
    faults

vars == <<cast, price, version, log, orders, ids, issued, run, sim, outbox, faults>>

NewRun ==
    [pc |-> "none", kind |-> None, status |-> "none", start |-> 0, cursor |-> 0,
     recorded |-> <<>>, events |-> <<>>, seen |-> 0, quoted |-> 0, requoted |-> FALSE,
     span |-> <<1, 0>>]

\* sim.converts is what random.Random(seed:convert:index) decides, if it is asked.
Init ==
    /\ cast \in Casts
    /\ price = [k \in RUNNABLE_KINDS |-> 0]
    /\ version = 1
    /\ log = <<>>
    /\ orders = {}
    /\ ids = [seed |-> None, n |-> 0]
    /\ issued = <<>>
    /\ run = [r \in Runs |-> NewRun]
    /\ sim \in {[pc |-> "seed", session |-> 1, item |-> "base", quoted |-> 0, converts |-> c] :
                    c \in [1..Sessions -> BOOLEAN]}
    /\ cast.sim \/ sim.converts = [s \in 1..Sessions |-> FALSE]
    /\ outbox = {}
    /\ faults = 0

Append_(who, actions) == log' = log \o [i \in 1..Len(actions) |-> [by |-> who, action |-> actions[i]]]
Order(who, source, status) == [by |-> who, source |-> source, status |-> status]
Restate(o, p) == orders' = (orders \ {o}) \cup {p}

-----------------------------------------------------------------------------
(* platform/ids: one generator for the whole process.                      *)

\* Mutant: the seed names the scenario only, as on the command line.
SeedOfScenario(r) == run[r].kind

seed_of(r) == r

\* new_id: seed and counter while a run has set a seed, else time and chance.
new_id ==
    IF ids.seed = None THEN UNCHANGED <<ids, issued>>
    ELSE /\ ids' = [ids EXCEPT !.n = @ + 1]
         /\ issued' = Append(issued, <<ids.seed, ids.n + 1>>)

reset_ids == ids' = [seed |-> None, n |-> 0] /\ UNCHANGED issued

-----------------------------------------------------------------------------
(* demo_runs and demo.                                                     *)

\* Mutant: the order is tagged when the purchase is over.
SettleThenTag ==
    <<"open", "seed", "quote", "sweep_quote", "propose", "sweep_order", "complete", "tag",
      "sweep_end", "close">>

\* The transactions of a scenario, in order.
_propose_and_settle ==
    <<"open", "seed", "quote", "sweep_quote", "propose", "tag", "sweep_order", "complete",
      "sweep_end", "close">>
_stale_price ==
    <<"open", "seed", "quote", "sweep_quote", "mutate", "sweep_mutate", "hash", "propose",
      "sweep_order", "tag", "complete", "sweep_end", "close">>
_run_verify_chain == <<"tail", "verify", "close">>

_RUNNERS ==
    [k \in RUNNABLE_KINDS |->
        CASE k = "verify_chain" -> _run_verify_chain
          [] k = "stale_price" -> _stale_price
          [] k \in {"declined", "llm_down"} -> _propose_and_settle]

\* Events that no audit entry stands behind, kept as 0: the mandate, and for
\* llm_down the two fallbacks that answered in place of the model.
Opening(kind) == IF kind = "llm_down" THEN <<0, 0, 0>> ELSE <<0>>

\* What the simulator does with the payment.
PaymentStatus(kind) == IF kind = "declined" THEN "FAILED" ELSE "CAPTURED"

Following(r) ==
    IF run[r].pc = "requote" THEN "hash"
    ELSE LET s == _RUNNERS[run[r].kind] IN s[1 + CHOOSE i \in 1..Len(s) - 1 : s[i] = run[r].pc]

At(r, pc) == run[r].pc = pc
Advance(r, new) == run' = [run EXCEPT ![r] = [new EXCEPT !.pc = Following(r)]]
Jump(r, pc) == run' = [run EXCEPT ![r] = [@ EXCEPT !.pc = pc]]

\* The bound on when the click comes.
Meets(r) ==
    LET others == {run[q].pc : q \in {p \in Runs \ {r} : cast.cards[p] # {}}}
                  \cup (IF cast.sim THEN {sim.pc} ELSE {}) IN
    cast.meets[r] = {} \/ others \subseteq cast.meets[r]

\* POST /merchant/v1/demo-runs: a record and a task.
start_demo_run(r, kind) ==
    /\ At(r, "none") /\ Meets(r)
    /\ run' = [run EXCEPT ![r] = [NewRun EXCEPT !.pc = "queued", !.kind = kind, !.status = "queued"]]
    /\ new_id
    /\ UNCHANGED <<cast, price, version, log, orders, sim, outbox, faults>>

\* _execute, up to its first await: a scenario seeds the generator.
Execute(r) ==
    /\ At(r, "queued")
    /\ run' = [run EXCEPT ![r] = [@ EXCEPT !.pc = _RUNNERS[run[r].kind][1], !.status = "running"]]
    /\ IF run[r].kind = "verify_chain" THEN UNCHANGED ids ELSE ids' = [seed |-> seed_of(r), n |-> 0]
    /\ UNCHANGED <<cast, price, version, log, orders, issued, sim, outbox, faults>>

\* run_scenario reads where the chain ends; the scenario makes its mandate.
Open(r) ==
    /\ At(r, "open")
    /\ Advance(r, [run[r] EXCEPT !.start = Len(log), !.cursor = Len(log)])
    /\ new_id
    /\ UNCHANGED <<cast, price, version, log, orders, sim, outbox, faults>>

\* _seed_item: upsert_item leaves the catalog's version alone.
_seed_item(r) ==
    /\ At(r, "seed")
    /\ price' = [price EXCEPT ![run[r].kind] = 280]
    /\ Advance(r, [run[r] EXCEPT !.recorded = Opening(run[r].kind)])
    /\ UNCHANGED <<cast, version, log, orders, ids, issued, sim, outbox, faults>>

\* create_quote, at first or after a stale price.
Quote(r) ==
    /\ run[r].pc \in {"quote", "requote"}
    /\ Append_(r, <<"quote.issued">>)
    /\ Advance(r, [run[r] EXCEPT !.quoted = version, !.seen = price[run[r].kind]])
    /\ new_id
    /\ UNCHANGED <<cast, price, version, orders, sim, outbox, faults>>

\* The fault of stale_price: the price moves under its own quote.
Mutate(r) ==
    /\ At(r, "mutate")
    /\ price' = [price EXCEPT ![run[r].kind] = 292]
    /\ version' = version + 1
    /\ Append_(r, <<"catalog.price_mutated">>)
    /\ Advance(r, run[r])
    /\ UNCHANGED <<cast, orders, ids, issued, sim, outbox, faults>>

\* _buyer_intent_hash reads the price itself.
Hash(r) ==
    /\ At(r, "hash")
    /\ Advance(r, [run[r] EXCEPT !.seen = price[run[r].kind]])
    /\ UNCHANGED <<cast, price, version, log, orders, ids, issued, sim, outbox, faults>>

\* A denial: recovery takes one new quote, the others are over.
Denied(r, code) ==
    IF run[r].kind = "stale_price" /\ code = "STALE_PRICE" /\ ~run[r].requoted
    THEN run' = [run EXCEPT ![r] = [@ EXCEPT !.pc = "requote", !.requoted = TRUE]]
    ELSE run' = [run EXCEPT ![r] = [@ EXCEPT !.pc = "sweep_end", !.seen = 0, !.quoted = 0,
                                             !.requoted = FALSE]]

\* handle_order_propose: the intent is rebuilt at the live price; the policy,
\* and G5 again, compare the version; begin_purchase creates the order.
Propose(r) ==
    /\ At(r, "propose")
    /\ IF run[r].seen # price[run[r].kind]
       THEN Denied(r, "INTENT_MISMATCH") /\ UNCHANGED <<log, orders, ids, issued>>
       ELSE IF run[r].quoted # version
       THEN /\ Denied(r, "STALE_PRICE")
            /\ Append_(r, <<"order.proposed">>)
            /\ new_id
            /\ UNCHANGED orders
       ELSE /\ Append_(r, <<"order.proposed", "budget.reserved", "payment.intent">>)
            /\ orders' = orders \cup {Order(r, None, "CREATED")}
            /\ Advance(r, [run[r] EXCEPT !.seen = 0, !.quoted = 0, !.requoted = FALSE])
            /\ new_id
    /\ UNCHANGED <<cast, price, version, sim, outbox, faults>>

set_source(r) ==
    /\ At(r, "tag")
    /\ \E o \in orders : o.by = r /\ Restate(o, [o EXCEPT !.source = "demo_lab"])
    /\ Advance(r, run[r])
    /\ UNCHANGED <<cast, price, version, log, ids, issued, sim, outbox, faults>>

\* complete_purchase with a signed simulator payment, declined or captured.
Complete(r) ==
    /\ At(r, "complete")
    /\ LET status == PaymentStatus(run[r].kind) IN
       /\ Append_(r, <<"payment.result", IF status = "CAPTURED" THEN "settlement.closed"
                                         ELSE "compensation.applied">>)
       /\ \E o \in orders : o.by = r /\ Restate(o, [o EXCEPT !.status = status])
    /\ Advance(r, run[r])
    /\ new_id
    /\ UNCHANGED <<cast, price, version, sim, outbox, faults>>

\* What _emit_events_for_entries has a branch for.
Narrated(entry) ==
    entry.action \in {"quote.issued", "catalog.price_mutated", "order.proposed", "budget.reserved",
        "payment.intent", "payment.result", "settlement.closed", "compensation.applied"}

\* An event for each of the entries after one and up to another, in their order.
_emit_events_for_entries(from, to) ==
    LET shown[s \in from..to] ==
            IF s = from THEN <<>>
            ELSE IF Narrated(log[s]) THEN Append(shown[s - 1], s) ELSE shown[s - 1]
    IN  shown[to]

\* Mutant: the high-water mark stays where it was.
SweepAgain(r) ==
    /\ run[r].pc \in {"sweep_quote", "sweep_mutate", "sweep_order", "sweep_end"}
    /\ Advance(r, [run[r] EXCEPT
           !.recorded = @ \o _emit_events_for_entries(run[r].cursor, Len(log))])
    /\ UNCHANGED <<cast, price, version, log, orders, ids, issued, sim, outbox, faults>>

\* An event for every entry after the mark, whoever wrote it.
_sweep_new_audit_entries(r) ==
    /\ run[r].pc \in {"sweep_quote", "sweep_mutate", "sweep_order", "sweep_end"}
    /\ Advance(r, [run[r] EXCEPT
           !.recorded = @ \o _emit_events_for_entries(run[r].cursor, Len(log)),
           !.cursor = Len(log)])
    /\ UNCHANGED <<cast, price, version, log, orders, ids, issued, sim, outbox, faults>>

\* Mutant: an empty chain is waited for.
TailWaits(r) ==
    /\ At(r, "tail") /\ log # <<>>
    /\ Advance(r, [run[r] EXCEPT !.span = <<1, Len(log)>>])
    /\ UNCHANGED <<cast, price, version, log, orders, ids, issued, sim, outbox, faults>>

\* verify_chain: the tail, and then the range up to it.
Tail_(r) ==
    /\ At(r, "tail")
    /\ IF log = <<>> THEN Jump(r, "close") ELSE Advance(r, [run[r] EXCEPT !.span = <<1, Len(log)>>])
    /\ UNCHANGED <<cast, price, version, log, orders, ids, issued, sim, outbox, faults>>

Verify(r) ==
    /\ At(r, "verify")
    /\ Advance(r, run[r])
    /\ UNCHANGED <<cast, price, version, log, orders, ids, issued, sim, outbox, faults>>

\* The finally clauses of run_scenario and of _execute.
Finally(r, new, status) ==
    /\ run' = [run EXCEPT ![r] = [NewRun EXCEPT !.pc = "over", !.kind = new.kind, !.status = status,
                                                !.events = new.recorded, !.span = new.span]]
    /\ IF run[r].kind = "verify_chain" THEN UNCHANGED <<ids, issued>> ELSE reset_ids

\* The end of the chain is read again: the span of this run.
Close(r) ==
    /\ At(r, "close")
    /\ Finally(r, IF run[r].kind = "verify_chain" THEN run[r]
                  ELSE [run[r] EXCEPT !.span = <<run[r].start + 1, Len(log)>>], "passed")
    /\ UNCHANGED <<cast, price, version, log, orders, sim, outbox, faults>>

\* A statement or a provider call raises.
Fail(r) ==
    /\ run[r].status = "running"
    /\ faults < cast.faults /\ faults' = faults + 1
    /\ Finally(r, run[r], "failed")
    /\ UNCHANGED <<cast, price, version, log, orders, sim, outbox>>

\* The HTTP process dies, and its runs and its generator with it.
Crash ==
    /\ \E r \in Runs : run[r].status \in {"queued", "running"}
    /\ faults < cast.faults /\ faults' = faults + 1
    /\ run' = [r \in Runs |-> IF run[r].pc = "none" THEN run[r]
                              ELSE [NewRun EXCEPT !.pc = "over", !.status = "lost"]]
    /\ reset_ids
    /\ UNCHANGED <<cast, price, version, log, orders, sim, outbox>>

RunStep(r) ==
    \/ Execute(r) \/ Open(r) \/ _seed_item(r) \/ Quote(r) \/ Mutate(r) \/ Hash(r) \/ Propose(r)
    \/ set_source(r) \/ Complete(r) \/ _sweep_new_audit_entries(r)
    \/ Tail_(r) \/ Verify(r) \/ Close(r)

\* A real customer looks at the catalog and buys, through the same process.
Buy(c) ==
    /\ c \in cast.customers
    /\ \A o \in orders : o.by # c
    /\ Append_(c, <<"catalog.queried", "order.proposed">>)
    /\ orders' = orders \cup {Order(c, None, "CAPTURED")}
    /\ new_id
    /\ UNCHANGED <<cast, price, version, run, sim, outbox, faults>>

-----------------------------------------------------------------------------
(* growth/simulation: sessions of the baseline arm, then of the upsell arm. *)

Arm(s) == IF s <= Sessions THEN "baseline" ELSE "upsell"
Index(s) == IF s <= Sessions THEN s ELSE s - Sessions
Bought == <<sim.session, sim.item>>
Total(item) == IF item = "base" THEN 750 ELSE 810
Budgets == {650, 1000}

Does(pc, next) ==
    /\ cast.sim /\ sim.pc = pc
    /\ sim' = [sim EXCEPT !.pc = next]
\* The session returns; the next one begins.
Returns(pc) ==
    /\ cast.sim /\ sim.pc = pc
    /\ sim' = [sim EXCEPT !.session = @ + 1, !.item = "base",
                          !.pc = IF sim.session = 2 * Sessions THEN "done" ELSE "start"]
Emit(type, item) ==
    outbox' = outbox \cup {[session |-> sim.session, arm |-> Arm(sim.session), type |-> type,
                            item |-> item]}

SimSeed ==
    /\ Does("seed", "start")
    /\ UNCHANGED <<cast, price, version, log, orders, ids, issued, run, outbox, faults>>

\* emit_session_started; whether the session converts does not depend on the arm.
SimStart ==
    /\ sim.pc = "start"
    /\ IF sim.converts[Index(sim.session)] THEN Does("start", "quote") ELSE Returns("start")
    /\ Emit("session.started", None)
    /\ UNCHANGED <<cast, price, version, log, orders, ids, issued, run, faults>>

SimQuote ==
    /\ cast.sim /\ sim.pc = "quote"
    /\ sim' = [sim EXCEPT !.pc = "propose", !.quoted = version]
    /\ Append_(Sim, <<"quote.issued">>)
    /\ UNCHANGED <<cast, price, version, orders, ids, issued, run, outbox, faults>>

\* _attempt_purchase answers None: the session ends.
SimDenied == Returns("propose") /\ UNCHANGED orders

\* The policy and the gate; an upsell may not fit the budget drawn for it.
SimPropose ==
    /\ \E budget \in Budgets :
         IF sim.quoted = version /\ (sim.item = "base" \/ Total("upsell") <= budget)
         THEN /\ Does("propose", "tag")
              /\ orders' = orders \cup {Order(Bought, None, "CREATED")}
              /\ Append_(Sim, <<"order.proposed", "budget.reserved", "payment.intent">>)
         ELSE SimDenied /\ Append_(Sim, <<"order.proposed">>)
    /\ UNCHANGED <<cast, price, version, ids, issued, run, outbox, faults>>

SimTag ==
    /\ Does("tag", "complete")
    /\ \E o \in orders : o.by = Bought /\ Restate(o, [o EXCEPT !.source = "growth_simulation"])
    /\ UNCHANGED <<cast, price, version, log, ids, issued, run, outbox, faults>>

SimComplete ==
    /\ Does("complete", "report")
    /\ \E o \in orders : o.by = Bought /\ Restate(o, [o EXCEPT !.status = "CAPTURED"])
    /\ Append_(Sim, <<"payment.result", "settlement.closed">>)
    /\ UNCHANGED <<cast, price, version, ids, issued, run, outbox, faults>>

\* emit_order_completed
SimReport ==
    /\ IF Arm(sim.session) = "upsell" /\ sim.item = "base" THEN Does("report", "offer")
       ELSE Returns("report")
    /\ Emit("order.completed", sim.item)
    /\ UNCHANGED <<cast, price, version, log, orders, ids, issued, run, faults>>

SimOffer ==
    /\ Does("offer", "accept") \/ Returns("offer")
    /\ Emit("upsell.offered", None)
    /\ UNCHANGED <<cast, price, version, log, orders, ids, issued, run, faults>>

\* A mandate of its own for the upsell.
SimAccept ==
    /\ cast.sim /\ sim.pc = "accept"
    /\ sim' = [sim EXCEPT !.pc = "quote", !.item = "upsell"]
    /\ Emit("upsell.accepted", None)
    /\ UNCHANGED <<cast, price, version, log, orders, ids, issued, run, faults>>

SimStep ==
    \/ SimSeed \/ SimStart \/ SimQuote \/ SimPropose \/ SimTag \/ SimComplete \/ SimReport
    \/ SimOffer \/ SimAccept

\* The command is killed; its rows stay.
SimKilled ==
    /\ cast.sim /\ sim.pc # "done"
    /\ faults < cast.faults /\ faults' = faults + 1
    /\ sim' = [sim EXCEPT !.pc = "done"]
    /\ UNCHANGED <<cast, price, version, log, orders, ids, issued, run, outbox>>

-----------------------------------------------------------------------------
(* What the merchant's console reads.                                      *)

\* GET /merchant/v1/demo-runs/{run_id}: the events come when the run is over.
demo_run_json(r) == [status |-> run[r].status, events |-> run[r].events, span |-> run[r].span]

\* organic_only: one statement.  Of real add-ons, see Storefront.
count_and_sum_captured == {o \in orders : o.status = "CAPTURED" /\ o.source = None}

Events(type, arm) == {e \in outbox : e.type = type /\ e.arm = arm}

-----------------------------------------------------------------------------
Next ==
    \/ \E r \in Runs :
         \/ \E k \in cast.cards[r] : start_demo_run(r, k)
         \/ RunStep(r)
         \/ Fail(r)
    \/ Crash
    \/ \E c \in Customers : Buy(c)
    \/ SimStep
    \/ SimKilled

\* The event loop runs its tasks, and the simulation is a plain loop.
Fairness == (\A r \in Runs : WF_vars(RunStep(r))) /\ WF_vars(SimStep)

Lab == Init /\ [][Next]_vars

Spec == Lab /\ Fairness

-----------------------------------------------------------------------------
Places ==
    {"none", "queued", "open", "seed", "quote", "sweep_quote", "mutate", "sweep_mutate", "hash",
     "propose", "requote", "tag", "sweep_order", "complete", "sweep_end", "tail", "verify",
     "close", "over"}
RunRecords ==
    [pc : Places, kind : RUNNABLE_KINDS \cup {None},
     status : {"none", "queued", "running", "passed", "failed", "lost"}, start : Nat, cursor : Nat,
     recorded : Seq(Nat), events : Seq(Nat), seen : Nat, quoted : Nat, requoted : BOOLEAN,
     span : Nat \X Nat]
AuditActions ==
    {"catalog.queried", "quote.issued", "catalog.price_mutated", "order.proposed",
     "budget.reserved", "payment.intent", "payment.result", "settlement.closed",
     "compensation.applied"}
Sales == (1..2*Sessions) \X {"base", "upsell"}
OrderRecords ==
    [by : Runs \cup Customers \cup Sales, source : {None, "demo_lab", "growth_simulation"},
     status : {"CREATED", "CAPTURED", "FAILED"}]
SimRecords ==
    [pc : {"seed", "start", "quote", "propose", "tag", "complete", "report", "offer", "accept",
           "done"},
     session : 1..2*Sessions+1, item : {"base", "upsell"}, quoted : Nat,
     converts : [1..Sessions -> BOOLEAN]]
EventTypes == {"session.started", "order.completed", "upsell.offered", "upsell.accepted"}
EventRecords ==
    [session : 1..2*Sessions, arm : Arms, type : EventTypes, item : {None, "base", "upsell"}]

(* Type invariant: a run is over exactly when its record says how it ended, *)
(* which is all that a browser polling it goes by.  Checked as a part of    *)
(* SalesAreOrganic.                                                         *)
TypeOK ==
    /\ cast \in Casts
    /\ price \in [RUNNABLE_KINDS -> {0, 280, 292}]
    /\ version \in Nat \ {0}
    /\ log \in Seq([by : Runs \cup Customers \cup {Sim}, action : AuditActions])
    /\ orders \subseteq OrderRecords
    /\ ids \in [seed : Runs \cup RUNNABLE_KINDS \cup {None}, n : Nat]
    /\ run \in [Runs -> RunRecords]
    /\ \A r \in Runs :
         /\ run[r].pc = "over" <=> run[r].status \in {"passed", "failed", "lost"}
         /\ run[r].cursor <= Len(log) /\ run[r].span[2] <= Len(log)
    /\ sim \in SimRecords
    /\ outbox \subseteq EventRecords
    /\ faults \in 0..cast.faults

\* No two rows are given the same id (seed_deterministic_ids, ulid), although
\* runs overwrite and reset each other's seed while both go on.
IdsAreUnique == IsInjective(issued)

\* The events that an audit entry stands behind, in the order of the chain.
IsInOrder(shown) ==
    \A i, j \in DOMAIN shown : i < j /\ shown[i] # 0 /\ shown[j] # 0 => shown[i] < shown[j]

\* The entries that a run wrote.
Own(r) == {s \in DOMAIN log : log[s].by = r}

\* A run that passed shows each of its own audit entries exactly once and in
\* order (_sweep_new_audit_entries), and the span of the chain it verified
\* holds all of them (run_scenario), whatever others append meanwhile.
EvidenceIsComplete ==
    \A r \in Runs :
        LET own == Own(r)
            poll == demo_run_json(r) IN
        /\ IsInOrder(poll.events)
        /\ poll.status = "passed" /\ run[r].kind # "verify_chain" =>
               own \subseteq Range(poll.events) /\ own \subseteq poll.span[1]..poll.span[2]

\* The gross sales of get_kpis are sales to real customers: an order of a
\* demonstration is tagged before it can be captured, even if what made it
\* dies in between (set_source, count_and_sum_captured).
SalesAreOrganic == TypeOK /\ \A o \in count_and_sum_captured : o.by \in Customers

\* A run that was started ends: it passes, fails or is lost with its process,
\* and the simulation comes to its last session (_execute, run_session).
EveryRunEnds ==
    /\ \A r \in Runs : (run[r].status = "queued") ~> (run[r].pc = "over")
    /\ (cast.sim) ~> (sim.pc = "done")

-----------------------------------------------------------------------------
(* Why they hold: the invariants behind the theorems of TrustLabProofs.    *)

\* The places of a scenario.
Steps(kind) == Range(_RUNNERS[kind]) \cup (IF kind = "stale_price" THEN {"requote"} ELSE {})

\* Where a run is, its record says.
PlaceOK(x) ==
    /\ x.pc = "none" <=> x.status = "none"
    /\ x.pc = "queued" <=> x.status = "queued"
    /\ x.status \in {"queued", "running"} => x.kind \in RUNNABLE_KINDS
    /\ x.status = "running" => x.pc \in Steps(x.kind)

IsTyped ==
    /\ TypeOK /\ \A r \in Runs : PlaceOK(run[r])
    /\ sim.pc # "done" => sim.session <= 2 * Sessions

\* A seed is set once, by the run it names, and then only counted up.
NotSeeded(x) == x.pc \in {"none", "queued"}
IdsOK ==
    /\ issued \in Seq(Runs \X Nat)
    /\ ids.seed # None => ids.seed \in Runs /\ ~NotSeeded(run[ids.seed])
    /\ \A i \in DOMAIN issued :
         /\ ~NotSeeded(run[issued[i][1]])
         /\ issued[i][1] = ids.seed => issued[i][2] <= ids.n
    /\ IsInjective(issued)

\* A demonstration has one order, tagged when its payment is completed.
BeforeOrder ==
    {"none", "queued", "open", "seed", "quote", "sweep_quote", "mutate", "sweep_mutate", "hash",
     "propose", "requote"}
IsTagged(x) == x.pc = "complete" \/ (x.pc = "sweep_order" /\ x.kind # "stale_price")
Sold(s) ==
    \/ s[1] < sim.session
    \/ s[1] = sim.session /\ s[2] = "base" /\ sim.item = "upsell"
    \/ s = Bought /\ sim.pc \in {"tag", "complete", "report", "offer", "accept", "done"}
OrdersOK ==
    /\ \A o, p \in orders : o.by = p.by => o = p
    /\ \A r \in Runs :
         /\ run[r].pc \in BeforeOrder => \A o \in orders : o.by # r
         /\ IsTagged(run[r]) => \A o \in orders : o.by = r => o.source = "demo_lab"
    /\ \A o \in orders : o.source = "demo_lab" => o.by \in Runs
    /\ \A o \in orders : o.by \in Sales => Sold(o.by)
    /\ sim.pc \in {"offer", "accept"} => sim.item = "base"
    /\ sim.pc = "complete" => \A o \in orders : o.by = Bought => o.source = "growth_simulation"
    /\ \A o \in orders : o.source = None /\ o.status = "CAPTURED" => o.by \in Customers

\* What a run has recorded, and where its own entries are.
HasEntries(x) == x.pc \notin {"none", "queued", "open", "seed", "quote", "tail", "verify"}
Evidence(x, own) ==
    /\ x.start <= x.cursor
    /\ IsInOrder(x.recorded) /\ \A i \in DOMAIN x.recorded : x.recorded[i] <= x.cursor
    /\ IsInOrder(x.events)
    /\ ~HasEntries(x) => own = {}
    /\ x.status = "running" =>
         \A s \in own : s > x.start /\ (s <= x.cursor => s \in Range(x.recorded))
    /\ x.pc = "close" => \A s \in own : s <= x.cursor
    /\ x.status = "passed" /\ x.kind # "verify_chain" =>
         own \subseteq Range(x.events) /\ own \subseteq x.span[1]..x.span[2]
EvidenceOK(r) == (\A s \in Own(r) : Narrated(log[s])) /\ Evidence(run[r], Own(r))

\* The simulation's events, session by session.
HasEvent(s, type) == \E e \in outbox : e.session = s /\ e.type = type
Captured(s) ==
    \E o \in orders : o.by = s /\ o.source = "growth_simulation" /\ o.status = "CAPTURED"
Reported(s) ==
    \E e \in outbox : e.type = "order.completed" /\ <<e.session, e.item>> = s
EventOK(e) ==
    /\ e.arm = Arm(e.session)
    /\ e.type = "order.completed" =>
         Captured(<<e.session, e.item>>) /\ (e.item = "base" \/ e.arm = "upsell")
    /\ e.type # "order.completed" => e.item = None
    /\ e.type = "upsell.offered" => e.arm = "upsell" /\ HasEvent(e.session, "session.started")
    /\ e.type = "upsell.accepted" => HasEvent(e.session, "upsell.offered")
SimOK ==
    /\ sim.item = "upsell" \/ sim.pc \in {"offer", "accept"} => Arm(sim.session) = "upsell"
    /\ sim.pc \notin {"seed", "start", "done"} => HasEvent(sim.session, "session.started")
    /\ sim.pc = "accept" => HasEvent(sim.session, "upsell.offered")
    /\ sim.pc = "report" => Captured(Bought)
    /\ \A o \in orders : o.source = "growth_simulation" =>
         /\ o.by \in Sales
         /\ o.status = "CAPTURED" =>
              Reported(o.by) \/ (o.by = Bought /\ sim.pc \in {"report", "done"})
    /\ IsFiniteSet(outbox)
    /\ \A e \in outbox : EventOK(e)

LabInv ==
    /\ IsTyped
    /\ IdsOK
    /\ OrdersOK
    /\ \A r \in Runs : EvidenceOK(r)
    /\ SimOK
=============================================================================
