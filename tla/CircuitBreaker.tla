--------------------------- MODULE CircuitBreaker ---------------------------
(***************************************************************************)
(* platform/breaker.py under the retries of platform/retry.py, as          *)
(* payment_service._call_with_retry combines them: every attempt of a call *)
(* goes through the one breaker all requests of a process share.           *)
(*                                                                         *)
(* The coroutines of a process interleave only where they await: the       *)
(* admission of an attempt is one step, what its outcome does to the       *)
(* breaker another, and the call itself lies between them.                 *)
(*                                                                         *)
(* The names do not meet those of Envelopes, the other guard of a process: *)
(* GuardProofs extends both.                                               *)
(***************************************************************************)
EXTENDS Naturals

CONSTANTS
    Callers,            \* coroutines that call the dependency
    failure_threshold,
    max_attempts,       \* of retry_with_full_jitter
    MaxFailures         \* bound: failures counted in a row

ASSUME BreakerConstants ==
    /\ failure_threshold \in Nat \ {0}
    /\ max_attempts \in Nat \ {0}
    /\ MaxFailures \in Nat

VARIABLES
    state,      \* _state: CLOSED or OPEN (HALF_OPEN is never stored)
    failures,   \* _consecutive_failures
    elapsed,    \* recovery_timeout has passed since _opened_at
    trial,      \* _half_open_trial_in_flight
    call        \* per caller: where it is, its attempt, how it was admitted

BreakerVars == <<state, failures, elapsed, trial, call>>

NoCall == [pc |-> "idle", attempt |-> 0, as |-> "CLOSED"]

BreakerInit ==
    /\ state = "CLOSED"
    /\ failures = 0
    /\ elapsed = FALSE
    /\ trial = FALSE
    /\ call = [c \in Callers |-> NoCall]

\* The state property.
State == IF state = "OPEN" /\ elapsed THEN "HALF_OPEN" ELSE state

CallAt(c, pc) == call[c].pc = pc

\* retry_with_full_jitter: the first attempt.
Start(c) ==
    /\ CallAt(c, "idle")
    /\ call' = [call EXCEPT ![c] = [NoCall EXCEPT !.pc = "enter", !.attempt = 1]]
    /\ UNCHANGED <<state, failures, elapsed, trial>>

\* call: an open breaker, or a trial in flight, refuses; CircuitOpenError is
\* not retried.
Refuse(c) ==
    /\ CallAt(c, "enter")
    /\ State = "OPEN" \/ (State = "HALF_OPEN" /\ trial)
    /\ call' = [call EXCEPT ![c] = NoCall]
    /\ UNCHANGED <<state, failures, elapsed, trial>>

\* call: the attempt is made, as the trial if the breaker is half open.
Admit(c) ==
    /\ CallAt(c, "enter")
    /\ State = "CLOSED" \/ (State = "HALF_OPEN" /\ ~trial)
    /\ trial' = (trial \/ State = "HALF_OPEN")
    /\ call' = [call EXCEPT ![c].pc = "calling", ![c].as = State]
    /\ UNCHANGED <<state, failures, elapsed>>

\* Mutant: a failed trial leaves the breaker without finally.
FinallyOnlyOnSuccess(ok) == trial' = IF ok THEN FALSE ELSE trial

\* The finally clause, run by every call whatever it was admitted as.
Finally(ok) == trial' = FALSE

_on_success ==
    /\ failures' = 0
    /\ state' = "CLOSED"
    /\ elapsed' = FALSE

\* Mutant: the threshold is exceeded, not reached.
OnFailureOffByOne ==
    /\ failures' = failures + 1
    /\ IF failures' > failure_threshold \/ state = "OPEN"
       THEN state' = "OPEN" /\ elapsed' = FALSE
       ELSE UNCHANGED <<state, elapsed>>

_on_failure ==
    /\ failures' = failures + 1
    /\ IF failures' >= failure_threshold \/ state = "OPEN"
       THEN state' = "OPEN" /\ elapsed' = FALSE
       ELSE UNCHANGED <<state, elapsed>>

Succeed(c) ==
    /\ CallAt(c, "calling")
    /\ _on_success
    /\ Finally(TRUE)
    /\ call' = [call EXCEPT ![c] = NoCall]

\* The next attempt after a transient failure, until they are used up.
AfterFailure(c, transient) ==
    IF transient /\ call[c].attempt < max_attempts
    THEN [call[c] EXCEPT !.pc = "enter", !.attempt = call[c].attempt + 1]
    ELSE NoCall

Fail(c, transient) ==
    /\ CallAt(c, "calling")
    /\ failures < MaxFailures
    /\ _on_failure
    /\ Finally(FALSE)
    /\ call' = [call EXCEPT ![c] = AfterFailure(c, transient)]

\* A cancelled call is neither a success nor a failure (CancelledError is no
\* Exception), but finally runs.
Cancel(c) ==
    /\ CallAt(c, "calling")
    /\ Finally(FALSE)
    /\ call' = [call EXCEPT ![c] = NoCall]
    /\ UNCHANGED <<state, failures, elapsed>>

RecoveryTimeout ==
    /\ state = "OPEN" /\ ~elapsed
    /\ elapsed' = TRUE
    /\ UNCHANGED <<state, failures, trial, call>>

Step(c) == Refuse(c) \/ Admit(c) \/ Succeed(c) \/ Cancel(c) \/ \E b \in BOOLEAN : Fail(c, b)

BreakerNext == (\E c \in Callers : Start(c) \/ Step(c)) \/ RecoveryTimeout

BreakerSpec == BreakerInit /\ [][BreakerNext]_BreakerVars

(***************************************************************************)
(* Coroutines run, time passes, calls keep coming, and the dependency is   *)
(* not broken for ever: a caller admitted again and again succeeds.        *)
(***************************************************************************)
Fairness ==
    /\ WF_BreakerVars(RecoveryTimeout)
    /\ \A c \in Callers :
        /\ WF_BreakerVars(Start(c)) /\ WF_BreakerVars(Step(c))
        /\ SF_BreakerVars(Admit(c)) /\ SF_BreakerVars(Succeed(c))

FairSpec == BreakerSpec /\ Fairness

-----------------------------------------------------------------------------
CallRecord ==
    [pc : {"idle", "enter", "calling"}, attempt : 0..max_attempts, as : {"CLOSED", "HALF_OPEN"}]

\* Type invariant of the breaker and its callers.
BreakerTypeOK ==
    /\ state \in {"CLOSED", "OPEN"}
    /\ failures \in Nat
    /\ elapsed \in BOOLEAN
    /\ trial \in BOOLEAN
    /\ call \in [Callers -> CallRecord]

(***************************************************************************)
(* The breaker is open exactly when the threshold of consecutive failures  *)
(* is reached, also after failures and successes of calls that began       *)
(* before it opened ("Trips OPEN after failure_threshold consecutive       *)
(* failures").                                                             *)
(***************************************************************************)
OpenIffThreshold == (state = "OPEN") <=> (failures >= failure_threshold)

(***************************************************************************)
(* The breaker cannot jam: a trial in flight belongs to a call that is     *)
(* still running and will clear it.  A flag left behind by a cancelled or  *)
(* failed trial would refuse every call for ever.                          *)
(***************************************************************************)
TrialHasOwner == trial => \E c \in Callers : CallAt(c, "calling") /\ call[c].as = "HALF_OPEN"

(***************************************************************************)
(* Once the dependency is back the breaker closes again.                   *)
(***************************************************************************)
BreakerCloses == state = "OPEN" ~> state = "CLOSED"
=============================================================================
