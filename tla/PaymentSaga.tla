---------------------------- MODULE PaymentSaga ----------------------------
(***************************************************************************)
(* One purchase, end to end: the saga of orchestrator/saga.py, the money   *)
(* action gate (gate.py), order creation, capture, webhooks and the        *)
(* reconciler (payment_service.py), and the compensations                  *)
(* (compensations.py), with the payment provider they call.                *)
(*                                                                         *)
(* A step is one database transaction or one provider call: between two    *)
(* of them any other request, worker, payer, operator or crash may act.    *)
(* A transaction that reads a row before it locks or writes it is split at *)
(* that read, and what it read is kept in `seen`.                          *)
(*                                                                         *)
(* The idempotency key of a purchase is also its saga id and the reference *)
(* of its reservation.  The ledger is its abstract specification,          *)
(* ReservationBudget, which Ledger implements.                             *)
(***************************************************************************)
EXTENDS Naturals, FiniteSets

CONSTANTS
    Mandates,     \* mandate rows
    Keys,         \* idempotency keys
    Requests,     \* HTTP requests in progress: begin_purchase, complete_purchase
    Workers,      \* worker loops: webhooks, reconciliation
    MandateOf,    \* mandate of a key
    AmountOf,     \* amount of a key
    MaxTotal,     \* cap of a mandate
    AutoCapture,  \* whether the provider captures authorized payments by itself
    max_retry_attempts,   \* tries of one provider call
    None,         \* no key
    MaxCrashes    \* bound: crashes in a behaviour

ASSUME SagaConstants ==
    /\ MandateOf \in [Keys -> Mandates]
    /\ AmountOf \in [Keys -> Nat \ {0}]
    /\ MaxTotal \in [Mandates -> Nat]
    /\ AutoCapture \in BOOLEAN
    /\ max_retry_attempts \in Nat \ {0}
    /\ MaxCrashes \in Nat
    /\ Requests \cap Workers = {}
    /\ None \notin Keys

VARIABLES
    mandate,      \* mandates.status
    resv,         \* ledger: state of the reservation of each key
    saga,         \* sagas.status, NONE before the row exists
    idem,         \* idempotency_keys.state, NONE before the claim
    order,        \* orders: status, and whether provider_order_id is set
    pay,          \* provider: the payment of the order it knows for the key
    inbox,        \* webhook_events not yet processed: key and type
    proc,         \* requests and workers: program counter, key, what was read
    halted,       \* durable integrity halt
    creates,      \* orders that calls of provider.create_order made there
    crashes

tables == <<mandate, resv, saga, idem, order, inbox>>
vars == <<mandate, resv, saga, idem, order, pay, inbox, proc, halted, creates, crashes>>

Ledger == INSTANCE ReservationBudget WITH Refs <- Keys, state <- resv

Processes == Requests \cup Workers
MandateStatus == {"LOCKED", "EXECUTING", "SETTLED", "COMPENSATED", "REVOKED"}
SagaStatus ==
    {"NONE", "RUNNING", "AWAITING_AUTHORIZATION", "FAILED", "COMPLETED", "COMPENSATED"}
OrderStatus == {"NONE", "CREATED", "CAPTURED", "FAILED"}
PayStatus == {"none", "created", "authorized", "failed", "captured", "refunded"}
EventTypes == {"payment.captured", "payment.failed"}
TERMINAL_STATUSES == {"CAPTURED", "FAILED"}

Idle == [pc |-> "idle", key |-> None, seen |-> "NONE"]

Init ==
    /\ mandate = [m \in Mandates |-> "LOCKED"]
    /\ resv = [k \in Keys |-> "NONE"]
    /\ saga = [k \in Keys |-> "NONE"]
    /\ idem = [k \in Keys |-> "NONE"]
    /\ order = [k \in Keys |-> [status |-> "NONE", known |-> FALSE]]
    /\ pay = [k \in Keys |-> "none"]
    /\ inbox = {}
    /\ proc = [p \in Processes |-> Idle]
    /\ halted = FALSE
    /\ creates = [k \in Keys |-> 0]
    /\ crashes = 0

-----------------------------------------------------------------------------
At(p, pc) == proc[p].pc = pc
Key(p) == proc[p].key
Goto(p, pc) == proc' = [proc EXCEPT ![p].pc = pc]
Saw(p, pc, value) == proc' = [proc EXCEPT ![p] = [pc |-> pc, key |-> Key(p), seen |-> value]]
Exit(p) == proc' = [proc EXCEPT ![p] = Idle]

SetStatus(k, st) == order' = [order EXCEPT ![k].status = st]
\* _mark_compensated: only an EXECUTING mandate moves (read under its row lock).
MarkCompensated(m) ==
    mandate' = [mandate EXCEPT ![m] = IF @ = "EXECUTING" THEN "COMPENSATED" ELSE @]
\* ledger_service.release and reverse_settlement: a no-op unless it applies.
Release(k) == IF resv[k] = "HELD" THEN Ledger!Release(k) ELSE UNCHANGED resv
ReverseSettlement(k) ==
    IF resv[k] = "CAPTURED" THEN Ledger!Reverse(k) ELSE UNCHANGED resv

-----------------------------------------------------------------------------
(* begin_purchase: S1 RESERVE and S2 ORDER, through the gate.              *)

\* The saga row is added, or found RUNNING; a resolved saga is returned.
BeginPurchase(q, k) ==
    /\ At(q, "idle")
    /\ saga[k] \in {"NONE", "RUNNING"}
    /\ saga' = [saga EXCEPT ![k] = "RUNNING"]
    /\ proc' = [proc EXCEPT ![q] = [pc |-> "halt", key |-> k, seen |-> "NONE"]]
    /\ UNCHANGED <<mandate, resv, idem, order, pay, inbox, halted, creates, crashes>>

\* execute_money_action: the integrity halt first, in its own unit of work.
CheckHalt(q) ==
    /\ At(q, "halt")
    /\ Goto(q, IF halted THEN "deny" ELSE "G1")
    /\ UNCHANGED <<tables, pay, halted, creates, crashes>>

\* G1 reads the mandate's status without its row lock.
G1(q) ==
    /\ At(q, "G1")
    /\ LET status == mandate[MandateOf[Key(q)]] IN
       IF status \in {"LOCKED", "EXECUTING"} THEN Saw(q, "G4", status) ELSE Goto(q, "deny")
    /\ UNCHANGED <<tables, pay, halted, creates, crashes>>

\* G4 reserves under the row lock, G5 passes, the status G1 saw decides on
\* LOCKED -> EXECUTING; the transaction commits.
G4(q) ==
    /\ At(q, "G4")
    /\ LET k == Key(q) IN
       /\ IF resv[k] = "NONE" THEN Ledger!Reserve(k) ELSE UNCHANGED resv
       /\ mandate' = IF proc[q].seen = "LOCKED"
                     THEN [mandate EXCEPT ![MandateOf[k]] = "EXECUTING"] ELSE mandate
    /\ Goto(q, "claim")
    /\ UNCHANGED <<saga, idem, order, pay, inbox, halted, creates, crashes>>

\* A gate denies (signature, expiry, decision, verdict, budget, quote) or the
\* transaction keeps failing: nothing is durable.
GateDenies(q) ==
    /\ proc[q].pc \in {"G1", "G4"}
    /\ Goto(q, "deny")
    /\ UNCHANGED <<tables, pay, halted, creates, crashes>>

\* Mutant: a key in flight is taken over, as if its expires_at were used.
ClaimStealsInFlight(q) ==
    /\ At(q, "claim")
    /\ LET k == Key(q) IN
       IF idem[k] \in {"NONE", "IN_FLIGHT"}
       THEN /\ idem' = [idem EXCEPT ![k] = "IN_FLIGHT"]
            /\ SetStatus(k, "CREATED")
            /\ Goto(q, "createOrder")
       ELSE /\ Goto(q, IF idem[k] = "COMPLETED" THEN "allow" ELSE "deny")
            /\ UNCHANGED <<idem, order>>
    /\ UNCHANGED <<mandate, resv, saga, pay, inbox, halted, creates, crashes>>

\* create_provider_order, first transaction: claim the key, add the order and
\* the write-ahead audit entry, or answer from the key's state.
Claim(q) ==
    /\ At(q, "claim")
    /\ LET k == Key(q) IN
       IF idem[k] = "NONE"
       THEN /\ idem' = [idem EXCEPT ![k] = "IN_FLIGHT"]
            /\ SetStatus(k, "CREATED")
            /\ Goto(q, "createOrder")
       ELSE /\ Goto(q, CASE idem[k] = "COMPLETED" -> "allow"
                         [] idem[k] = "FAILED"    -> "deny"
                         [] idem[k] = "IN_FLIGHT" -> "await")
            /\ UNCHANGED <<idem, order>>
    /\ UNCHANGED <<mandate, resv, saga, pay, inbox, halted, creates, crashes>>

\* The claim's transaction fails 50 times: RetryExhausted, so C1.
ClaimFails(q) ==
    /\ At(q, "claim")
    /\ Goto(q, "C1")
    /\ UNCHANGED <<tables, pay, halted, creates, crashes>>

\* Mutant: the order row of a key in flight is returned half finished.
AwaitLeaksOrder(q) ==
    /\ At(q, "await")
    /\ Goto(q, IF idem[Key(q)] = "FAILED" THEN "deny" ELSE "allow")
    /\ UNCHANGED <<tables, pay, halted, creates, crashes>>

\* Mutant: the wait has no time limit.
AwaitForever(q) ==
    /\ At(q, "await")
    /\ \/ idem[Key(q)] = "COMPLETED" /\ Goto(q, "allow")
       \/ idem[Key(q)] = "FAILED" /\ Goto(q, "deny")
    /\ UNCHANGED <<tables, pay, halted, creates, crashes>>

\* _await_in_flight_completion: the owner's result, or the wait times out.
AwaitInFlight(q) ==
    /\ At(q, "await")
    /\ \/ idem[Key(q)] = "COMPLETED" /\ Goto(q, "allow")
       \/ idem[Key(q)] = "FAILED" /\ Goto(q, "deny")
       \/ idem[Key(q)] = "IN_FLIGHT" /\ Goto(q, "deny")
    /\ UNCHANGED <<tables, pay, halted, creates, crashes>>

\* The provider call outside any transaction, through _call_with_retry.  A try
\* times out although it made an order: the next makes another, as the adapters
\* send the key as the receipt and look for no earlier one.  A try that fails
\* without having made one is no step.
RetryCall(q) ==
    /\ At(q, "createOrder")
    /\ creates[Key(q)] < max_retry_attempts - 1
    /\ creates' = [creates EXCEPT ![Key(q)] = @ + 1]
    /\ UNCHANGED <<tables, pay, proc, halted, crashes>>

\* The last try.  The order is created (the simulator decides its payment at
\* once, the payer of a real one later); or the call fails, with an order made
\* or without (the one whose answer is lost nobody can pay); or an unexpected
\* exception leaves by C1.
CreateOrder(q) ==
    /\ At(q, "createOrder")
    /\ \/ /\ \E st \in {"created", "authorized", "failed"} : pay' = [pay EXCEPT ![Key(q)] = st]
          /\ creates' = [creates EXCEPT ![Key(q)] = @ + 1]
          /\ Goto(q, "orderCreated")
       \/ /\ Goto(q, "orderFailed") \/ Goto(q, "C1")
          /\ creates' = [creates EXCEPT ![Key(q)] = @ + 1] \/ UNCHANGED creates
          /\ UNCHANGED pay
    /\ UNCHANGED <<tables, halted, crashes>>

OrderCreated(q) ==
    /\ At(q, "orderCreated")
    /\ order' = [order EXCEPT ![Key(q)].known = TRUE]
    /\ idem' = [idem EXCEPT ![Key(q)] = "COMPLETED"]
    /\ Goto(q, "allow")
    /\ UNCHANGED <<mandate, resv, saga, pay, inbox, halted, creates, crashes>>

OrderFailed(q) ==
    /\ At(q, "orderFailed")
    /\ SetStatus(Key(q), "FAILED")
    /\ idem' = [idem EXCEPT ![Key(q)] = "FAILED"]
    /\ Goto(q, "C1")
    /\ UNCHANGED <<mandate, resv, saga, pay, inbox, halted, creates, crashes>>

\* The second transaction fails with a DBAPIError: the gate runs the whole of
\* create_provider_order again, and finds its own key IN_FLIGHT.
RetryCreate(q) ==
    /\ proc[q].pc \in {"orderCreated", "orderFailed"}
    /\ Goto(q, "claim")
    /\ UNCHANGED <<tables, pay, halted, creates, crashes>>

\* release_reservation_and_mark_compensated
C1(q) ==
    /\ At(q, "C1")
    /\ Release(Key(q))
    /\ MarkCompensated(MandateOf[Key(q)])
    /\ Goto(q, "deny")
    /\ UNCHANGED <<saga, idem, order, pay, inbox, halted, creates, crashes>>

\* The saga row is overwritten with the gate's result, whatever it is by now.
RecordVerdict(q) ==
    /\ proc[q].pc \in {"allow", "deny"}
    /\ saga' = [saga EXCEPT ![Key(q)] =
           IF At(q, "allow") THEN "AWAITING_AUTHORIZATION" ELSE "FAILED"]
    /\ Exit(q)
    /\ UNCHANGED <<mandate, resv, idem, order, pay, inbox, halted, creates, crashes>>

-----------------------------------------------------------------------------
(* complete_purchase: S3 AUTHORIZE, S4 CAPTURE, S5 SETTLE.                 *)

\* The route needs the provider's order id; a resolved saga is returned.
CompletePurchase(q, k) ==
    /\ At(q, "idle")
    /\ order[k].known
    /\ saga[k] = "AWAITING_AUTHORIZATION"
    /\ proc' = [proc EXCEPT ![q] = [pc |-> "killSwitch", key |-> k, seen |-> "NONE"]]
    /\ UNCHANGED <<tables, pay, halted, creates, crashes>>

KillSwitch(q) ==
    /\ At(q, "killSwitch")
    /\ Goto(q, IF mandate[MandateOf[Key(q)]] = "REVOKED" THEN "void" ELSE "authorize")
    /\ UNCHANGED <<tables, pay, halted, creates, crashes>>

\* fetch_payments: a declined payment is voided; an error leaves the saga as is.
Authorize(q) ==
    /\ At(q, "authorize")
    /\ \/ Goto(q, IF pay[Key(q)] = "failed" THEN "void" ELSE "capture")
       \/ Exit(q)
    /\ UNCHANGED <<tables, pay, halted, creates, crashes>>

\* verify_and_capture up to its transaction: the signature does not verify
\* (there is no valid one before the payer has paid), or capture is called
\* and succeeds, or fails, with or without having captured.  The simulator
\* answers a capture of a refunded payment as it answers any other.
Capture(q) ==
    /\ At(q, "capture")
    /\ LET k == Key(q) IN
       \/ Goto(q, "captureFailed") /\ UNCHANGED pay
       \/ /\ pay[k] \in {"authorized", "captured", "refunded"}
          /\ pay' = [pay EXCEPT ![k] = IF @ = "refunded" THEN @ ELSE "captured"]
          /\ \/ Goto(q, "captured")
             \/ Goto(q, "captureFailed")
    /\ UNCHANGED <<tables, halted, creates, crashes>>

Captured(q) ==
    /\ At(q, "captured")
    /\ SetStatus(Key(q), "CAPTURED")
    /\ Goto(q, "settle")
    /\ UNCHANGED <<mandate, resv, saga, idem, pay, inbox, halted, creates, crashes>>

\* Mutant: the failure is recorded but not raised, so S5 follows.
CaptureFailedSwallowed(q) ==
    /\ At(q, "captureFailed")
    /\ SetStatus(Key(q), "FAILED")
    /\ Goto(q, "settle")
    /\ UNCHANGED <<mandate, resv, saga, idem, pay, inbox, halted, creates, crashes>>

CaptureFailed(q) ==
    /\ At(q, "captureFailed")
    /\ SetStatus(Key(q), "FAILED")
    /\ Goto(q, "void")
    /\ UNCHANGED <<mandate, resv, saga, idem, pay, inbox, halted, creates, crashes>>

\* S5, one transaction: the ledger captures a held reservation (or had), the
\* mandate settles and the saga completes; else C4 and C5 follow.
Settle(q) ==
    /\ At(q, "settle")
    /\ LET k == Key(q) IN
       IF resv[k] \in {"HELD", "CAPTURED"}
       THEN /\ IF resv[k] = "HELD" THEN Ledger!Capture(k) ELSE UNCHANGED resv
            /\ mandate' = [mandate EXCEPT ![MandateOf[k]] =
                   IF @ = "EXECUTING" THEN "SETTLED" ELSE @]
            /\ saga' = [saga EXCEPT ![k] = "COMPLETED"]
            /\ Exit(q)
       ELSE /\ Goto(q, "refund")
            /\ UNCHANGED <<mandate, resv, saga>>
    /\ UNCHANGED <<idem, order, pay, inbox, halted, creates, crashes>>

\* void_order_and_release_reservation: the order is read ...
VoidOrder(q) ==
    /\ At(q, "void")
    /\ Saw(q, "release", order[Key(q)].status)
    /\ UNCHANGED <<tables, pay, halted, creates, crashes>>

\* ... and failed unless it was terminal; the reservation is released anyway.
VoidAndRelease(q) ==
    /\ At(q, "release")
    /\ IF proc[q].seen \in TERMINAL_STATUSES THEN UNCHANGED order
       ELSE SetStatus(Key(q), "FAILED")
    /\ Release(Key(q))
    /\ MarkCompensated(MandateOf[Key(q)])
    /\ Goto(q, "finalize")
    /\ UNCHANGED <<saga, idem, pay, inbox, halted, creates, crashes>>

\* refund_and_reverse_settlement: the refund, keyed by the saga; a failure,
\* refunded or not, leaves complete_purchase with the saga as it was.
Refund(q) ==
    /\ At(q, "refund")
    /\ \/ Exit(q) /\ UNCHANGED pay
       \/ /\ pay' = [pay EXCEPT ![Key(q)] = "refunded"]
          /\ Goto(q, "reverse") \/ Exit(q)
    /\ UNCHANGED <<tables, halted, creates, crashes>>

Reverse(q) ==
    /\ At(q, "reverse")
    /\ SetStatus(Key(q), "FAILED")
    /\ ReverseSettlement(Key(q))
    /\ MarkCompensated(MandateOf[Key(q)])
    /\ Goto(q, "finalize")
    /\ UNCHANGED <<saga, idem, pay, inbox, halted, creates, crashes>>

\* _finalize: COMPENSATED, whatever the saga is by now.
Finalize(q) ==
    /\ At(q, "finalize")
    /\ saga' = [saga EXCEPT ![Key(q)] = "COMPENSATED"]
    /\ Exit(q)
    /\ UNCHANGED <<mandate, resv, idem, order, pay, inbox, halted, creates, crashes>>

-----------------------------------------------------------------------------
(* The worker loops, which refuse to start while halted.                   *)

\* process_unprocessed_webhooks: an event and the order it names.
ReadWebhook(w, k, type) ==
    /\ At(w, "idle")
    /\ ~halted
    /\ <<k, type>> \in inbox
    /\ proc' = [proc EXCEPT ![w] =
           [pc |-> type, key |-> k,
            seen |-> IF order[k].known THEN order[k].status ELSE "NONE"]]
    /\ UNCHANGED <<tables, pay, halted, creates, crashes>>

\* Mutant: the event's type is not looked at.
ApplyWebhookAnyType(w) ==
    /\ proc[w].pc \in EventTypes
    /\ IF proc[w].seen = "CREATED" THEN SetStatus(Key(w), "CAPTURED") ELSE UNCHANGED order
    /\ inbox' = inbox \ {<<Key(w), proc[w].pc>>}
    /\ Exit(w)
    /\ UNCHANGED <<mandate, resv, saga, idem, pay, halted, creates, crashes>>

\* _apply_webhook_event and mark_processed: an unknown or terminal order, as
\* read, is left alone.
ApplyWebhook(w) ==
    /\ proc[w].pc \in EventTypes
    /\ IF proc[w].seen = "CREATED"
       THEN SetStatus(Key(w), IF At(w, "payment.captured") THEN "CAPTURED" ELSE "FAILED")
       ELSE UNCHANGED order
    /\ inbox' = inbox \ {<<Key(w), proc[w].pc>>}
    /\ Exit(w)
    /\ UNCHANGED <<mandate, resv, saga, idem, pay, halted, creates, crashes>>

\* reconcile_non_terminal_orders: an order is due; without a
\* provider_order_id it is skipped.
OrderDue(w, k) ==
    /\ At(w, "idle")
    /\ ~halted
    /\ order[k].status = "CREATED" /\ order[k].known
    /\ proc' = [proc EXCEPT ![w] = [pc |-> "poll", key |-> k, seen |-> "NONE"]]
    /\ UNCHANGED <<tables, pay, halted, creates, crashes>>

\* _latest_payment of what fetch_payments answers; one provider keeps calling
\* a refunded payment captured, the other does not.
LatestPayment(k) == IF pay[k] = "refunded" THEN {"captured", "refunded"} ELSE {pay[k]}

\* The poll fails, finds nothing final, or finds the outcome.
PollProvider(w) ==
    /\ At(w, "poll")
    /\ \/ Exit(w)
       \/ \E st \in LatestPayment(Key(w)) \cap {"captured", "failed"} : Saw(w, "reconcile", st)
    /\ UNCHANGED <<tables, pay, halted, creates, crashes>>

\* Mutant: the unit of work is left without its commit.
ReconcileWithoutCommit(w) ==
    /\ At(w, "reconcile")
    /\ Exit(w)
    /\ UNCHANGED <<tables, pay, halted, creates, crashes>>

\* The order takes the outcome, whatever its status is by now.
Reconcile(w) ==
    /\ At(w, "reconcile")
    /\ SetStatus(Key(w), IF proc[w].seen = "captured" THEN "CAPTURED" ELSE "FAILED")
    /\ Exit(w)
    /\ UNCHANGED <<mandate, resv, saga, idem, pay, inbox, halted, creates, crashes>>

-----------------------------------------------------------------------------
(* The sweeper, and everything outside the program.                        *)

\* ledger_service.sweep looks at the reservations only.
Sweep(S) ==
    /\ ~halted
    /\ S # {}
    /\ Ledger!Expire(S)
    /\ UNCHANGED <<mandate, saga, idem, order, pay, inbox, proc, halted, creates, crashes>>

\* The payer pays or is declined; the provider may capture by itself.
PayerActs(k) ==
    /\ \/ /\ pay[k] = "created" /\ order[k].known
          /\ pay' = [pay EXCEPT ![k] = "authorized"]
       \/ /\ pay[k] = "created" /\ order[k].known
          /\ pay' = [pay EXCEPT ![k] = "failed"]
       \/ /\ AutoCapture /\ pay[k] = "authorized" /\ order[k].known
          /\ pay' = [pay EXCEPT ![k] = "captured"]
    /\ UNCHANGED <<tables, proc, halted, creates, crashes>>

\* process_webhook_delivery: a signed event, once, again, late or never.
DeliverWebhook(k, type) ==
    /\ pay[k] \in (IF type = "payment.failed" THEN {"failed"} ELSE {"captured", "refunded"})
    /\ <<k, type>> \notin inbox
    /\ inbox' = inbox \cup {<<k, type>>}
    /\ UNCHANGED <<mandate, resv, saga, idem, order, pay, proc, halted, creates, crashes>>

\* The mandate's owner revokes it.
Revoke(m) ==
    /\ mandate[m] # "REVOKED"
    /\ mandate' = [mandate EXCEPT ![m] = "REVOKED"]
    /\ UNCHANGED <<resv, saga, idem, order, pay, inbox, proc, halted, creates, crashes>>

TripHalt ==
    /\ ~halted
    /\ halted' = TRUE
    /\ UNCHANGED <<tables, pay, proc, creates, crashes>>

\* A request or worker dies between two steps: its open transaction is
\* rolled back, what it committed stays.
Crash(p) ==
    /\ crashes < MaxCrashes
    /\ ~At(p, "idle")
    /\ crashes' = crashes + 1
    /\ Exit(p)
    /\ UNCHANGED <<tables, pay, halted, creates>>

-----------------------------------------------------------------------------
GateStep(q) ==
    \/ CheckHalt(q) \/ G1(q) \/ G4(q) \/ GateDenies(q)
    \/ Claim(q) \/ ClaimFails(q) \/ AwaitInFlight(q) \/ RetryCall(q) \/ CreateOrder(q)
    \/ OrderCreated(q) \/ OrderFailed(q) \/ RetryCreate(q) \/ C1(q) \/ RecordVerdict(q)

CompleteStep(q) ==
    \/ KillSwitch(q) \/ Authorize(q) \/ Capture(q) \/ Captured(q) \/ CaptureFailed(q)
    \/ Settle(q) \/ VoidOrder(q) \/ VoidAndRelease(q)
    \/ Refund(q) \/ Reverse(q) \/ Finalize(q)

WorkerStep(w) == ApplyWebhook(w) \/ PollProvider(w) \/ Reconcile(w)

Environment ==
    \/ \E S \in SUBSET Keys : Sweep(S)
    \/ \E k \in Keys : PayerActs(k)
    \/ \E k \in Keys, type \in EventTypes : DeliverWebhook(k, type)
    \/ \E m \in Mandates : Revoke(m)
    \/ TripHalt

Next ==
    \/ \E q \in Requests :
        \/ \E k \in Keys : BeginPurchase(q, k) \/ CompletePurchase(q, k)
        \/ GateStep(q) \/ CompleteStep(q)
    \/ \E w \in Workers :
        \/ \E k \in Keys, type \in EventTypes : ReadWebhook(w, k, type)
        \/ \E k \in Keys : OrderDue(w, k)
        \/ WorkerStep(w)
    \/ \E p \in Processes : Crash(p)
    \/ Environment

Spec == Init /\ [][Next]_vars

(***************************************************************************)
(* A process keeps running its steps.  The worker's two loops run for ever *)
(* (worker.py, every WEBHOOK_POLL_INTERVAL_S and                           *)
(* RECONCILE_POLL_INTERVAL_S), come back to every event and every due      *)
(* order, and a poll that can be answered is answered sooner or later.     *)
(***************************************************************************)
Fairness ==
    /\ \A q \in Requests : WF_vars(GateStep(q)) /\ WF_vars(CompleteStep(q))
    /\ \A w \in Workers :
        /\ WF_vars(WorkerStep(w))
        /\ SF_vars(PollProvider(w) /\ proc'[w].pc = "reconcile")
        /\ \A k \in Keys :
            /\ SF_vars(OrderDue(w, k))
            /\ \A type \in EventTypes : SF_vars(ReadWebhook(w, k, type))

FairSpec == Spec /\ Fairness

-----------------------------------------------------------------------------
ProgramCounters ==
    {"idle", "halt", "G1", "G4", "claim", "await", "createOrder", "orderCreated",
     "orderFailed", "C1", "allow", "deny", "killSwitch", "authorize", "capture",
     "captured", "captureFailed", "settle", "void", "release", "refund", "reverse",
     "finalize", "poll", "reconcile"} \cup EventTypes

Process == [pc : ProgramCounters, key : Keys \cup {None},
            seen : OrderStatus \cup MandateStatus \cup PayStatus]

\* Type invariant of the tables, the provider and the processes.
TypeOK ==
    /\ mandate \in [Mandates -> MandateStatus]
    /\ resv \in [Keys -> Ledger!States]
    /\ saga \in [Keys -> SagaStatus]
    /\ idem \in [Keys -> {"NONE", "IN_FLIGHT", "COMPLETED", "FAILED"}]
    /\ order \in [Keys -> [status : OrderStatus, known : BOOLEAN]]
    /\ pay \in [Keys -> PayStatus]
    /\ inbox \subseteq Keys \X EventTypes
    /\ proc \in [Processes -> Process]
    /\ halted \in BOOLEAN
    /\ creates \in [Keys -> Nat]
    /\ crashes \in 0..MaxCrashes

(***************************************************************************)
(* The ledger never books money the provider does not hold: a reservation  *)
(* that is settled has a captured payment that nobody refunded, and a      *)
(* refund leaves no settled reservation behind (saga.py S5, C4 and C5: "C4 *)
(* REFUND + C5 REVERSE undo it rather than reporting a false settlement"). *)
(* S5 is all or nothing, over every crash and every second request: a saga *)
(* reported COMPLETED has its reservation settled, and it stays settled.   *)
(***************************************************************************)
SettledIsCharged ==
    \A k \in Keys :
        /\ saga[k] = "COMPLETED" => resv[k] = "CAPTURED"
        /\ resv[k] = "CAPTURED" => pay[k] = "captured"

(***************************************************************************)
(* G6: however often a purchase is begun, resumed after a crash or raced   *)
(* by its own duplicate, at most one request goes on to call the provider  *)
(* (idempotency_keys.claim: "the caller must never proceed to call the     *)
(* provider on a False result"): the orders that the provider made for a   *)
(* key are those of the tries of one call.  There may be several: F5 of    *)
(* architecture.md, "never a second order", is not what the code does.     *)
(***************************************************************************)
OneRequestOrders == \A k \in Keys : creates[k] <= max_retry_attempts

(***************************************************************************)
(* What complete_purchase and create_provider_order assert: a saga that    *)
(* awaits authorization has its order, with the provider's id, and an      *)
(* order answered from a COMPLETED key exists.  And what they rely on: the *)
(* reservation and the order row come before the provider (G4, G7), and    *)
(* every column holds one of its values (TypeOK).                          *)
(***************************************************************************)
AssertionsHold ==
    /\ TypeOK
    /\ \A k \in Keys :
        /\ pay[k] # "none" => resv[k] # "NONE" /\ order[k].status # "NONE"
        /\ saga[k] = "AWAITING_AUTHORIZATION" => order[k].known /\ idem[k] = "COMPLETED"
        /\ idem[k] = "COMPLETED" => order[k].known /\ order[k].status # "NONE"

(***************************************************************************)
(* An order is CAPTURED only if the provider captured, whoever says so:    *)
(* the checkout, a late webhook or the reconciler's stale list.            *)
(***************************************************************************)
CapturedIsTrue ==
    \A k \in Keys : order[k].status = "CAPTURED" => pay[k] \in {"captured", "refunded"}

-----------------------------------------------------------------------------
(* Why they hold, for the proofs (SagaProofs): what the rows of a key and  *)
(* the process at work on it may rely on, whoever else is at work on it.   *)

Charged == {"captured", "refunded"}
Closed == {"RELEASED", "EXPIRED", "REVERSED"}
Creating == {"createOrder", "orderCreated", "orderFailed"}
Completing ==
    {"killSwitch", "authorize", "capture", "captured", "captureFailed", "settle",
     "void", "release", "refund", "reverse", "finalize"}

\* The rows of a key: the reservation and the order row come before the claim
\* commits, the provider hears of the key after it, and money goes back only
\* when no reservation is left to settle.
RowsAgree ==
    \A k \in Keys :
        /\ idem[k] = "NONE" => creates[k] = 0
        /\ creates[k] = 0 => pay[k] = "none"
        /\ idem[k] # "NONE" => resv[k] # "NONE" /\ order[k].status # "NONE"
        /\ pay[k] = "refunded" => resv[k] \in Closed
        /\ <<k, "payment.captured">> \in inbox => pay[k] \in Charged

\* What a process in state r has learnt and still relies on, steps later.
Knows(r) ==
    /\ r.pc # "idle" => r.key \in Keys
    /\ r.pc \in {"claim", "await", "C1"} => resv[r.key] # "NONE"
    /\ r.pc \in Creating => idem[r.key] = "IN_FLIGHT"
    /\ r.pc = "createOrder" => creates[r.key] < max_retry_attempts /\ pay[r.key] = "none"
    /\ r.pc \in Completing \cup {"allow"} => idem[r.key] = "COMPLETED"
    /\ r.pc \in {"captured", "settle", "refund", "reverse", "payment.captured"}
         => pay[r.key] \in Charged
    /\ r.pc \in {"refund", "reverse"} => resv[r.key] \in Closed
    /\ r.pc = "reconcile" /\ r.seen = "captured" => pay[r.key] \in Charged
ProcessKnows == \A p \in Processes : Knows(proc[p])

\* A key in flight has one owner at most, until it is lost.
OneOwner ==
    \A p, q \in Processes :
        proc[p].pc \in Creating /\ proc[q].pc \in Creating /\ Key(p) = Key(q) => p = q

\* The inductive invariant of the purchase.
IndInv ==
    /\ AssertionsHold /\ SettledIsCharged /\ OneRequestOrders /\ CapturedIsTrue
    /\ RowsAgree /\ ProcessKnows /\ OneOwner

(***************************************************************************)
(* Every request and every worker step ends: the wait for a key in flight, *)
(* the retries of order creation and the compensations included.           *)
(***************************************************************************)
EveryRequestEnds == \A p \in Processes : ~At(p, "idle") ~> At(p, "idle")

(***************************************************************************)
(* The reconciler makes up for the webhook that never arrives (section     *)
(* 20, F3): an order the provider has finished with becomes terminal.      *)
(***************************************************************************)
Unreconciled(k) ==
    order[k].status = "CREATED" /\ order[k].known /\ pay[k] \in {"captured", "failed"}
ReconcilerConverges ==
    \A k \in Keys : Unreconciled(k) ~> (order[k].status \in TERMINAL_STATUSES \/ halted)

-----------------------------------------------------------------------------
(* What the repository says of this part and the code does not do.         *)

(***************************************************************************)
(* I-M3 (architecture.md, section 9.2): "Revocation is monotonic. A        *)
(* REVOKED mandate never returns to a usable state."  The gate writes      *)
(* EXECUTING on the strength of the status G1 read before the row lock.    *)
(***************************************************************************)
RevocationIsMonotonic ==
    [][\A m \in Mandates : mandate[m] = "REVOKED" => mandate'[m] = "REVOKED"]_vars

=============================================================================
