---------------------------- MODULE GuardProofs ----------------------------
(***************************************************************************)
(* Proofs about the two guards of a process: the envelope check on what    *)
(* comes in and the circuit breaker on what goes out.                      *)
(*                                                                         *)
(* An envelope is accepted at most once, and a revocation takes effect     *)
(* within MaxDelay, for any envelopes, agents, deliveries and clock, as    *)
(* long as the nonce outlives the skew window on both sides of the         *)
(* timestamp and the delay (NonceOutlivesWindow).                          *)
(*                                                                         *)
(* The breaker opens at its threshold and never jams, for any number of    *)
(* callers, any threshold and any number of attempts.  Each of its         *)
(* invariants is inductive with BreakerTypeOK.                             *)
(***************************************************************************)
EXTENDS Envelopes, CircuitBreaker, TLAPS

-----------------------------------------------------------------------------
(* Envelopes.                                                              *)

\* The invariant holds before anything is delivered.
LEMMA InitIndInv == Init => IndInv
BY EnvelopeConstants DEF Init, IndInv, TypeOK, AcceptedOnce, NonceCovers, ReadingIsRecent,
    SenderWasActive, Delivery, Idle, At

\* A delivery enters the claim with the clock it read and a sender that is
\* active: Verify.
LEMMA VerifyStep ==
    ASSUME IndInv, NEW d \in Deliveries, NEW e \in Envelopes, Verify(d, e)
    PROVE  IndInv'
<1> USE EnvelopeConstants DEF IndInv
<1>1. req' = [req EXCEPT ![d] = [pc |-> "claim", env |-> e, seen |-> now]]
      /\ UNCHANGED <<now, revoked_at, nonce, accepted>>
      /\ Identity(e) /\ Valid[e]
  BY DEF Verify
<1>2. TypeOK'
  BY <1>1 DEF TypeOK, Delivery, At
<1>3. AcceptedOnce' /\ NonceCovers'
  BY <1>1 DEF AcceptedOnce, NonceCovers
<1>4. ReadingIsRecent'
  BY <1>1 DEF ReadingIsRecent, TypeOK, Delivery, At
<1>5. SenderWasActive'
  BY <1>1 DEF SenderWasActive, TypeOK, Delivery, At, Identity
<1> QED BY <1>2, <1>3, <1>4, <1>5

\* A claim that wins cannot accept a second time: by the time the first
\* nonce has expired, no recent clock reading is within the skew window.
LEMMA ClaimStep ==
    ASSUME IndInv, NEW d \in Deliveries, Claim(d)
    PROVE  IndInv'
<1> USE EnvelopeConstants DEF IndInv
<1> DEFINE e == req[d].env
<1>1. e \in Envelopes /\ req[d].seen \in Nat /\ now \in Nat /\ nonce[e] \in Int
      /\ accepted[e] \in Nat /\ Ts[e] \in Nat /\ d \in DOMAIN req /\ e \in DOMAIN nonce
  BY DEF Claim, TypeOK, Delivery, At
<1>2. /\ now >= nonce[e]
      /\ nonce' = [nonce EXCEPT ![e] = now + NONCE_TTL]
      /\ UNCHANGED <<now, revoked_at>>
      /\ req[d].seen <= now /\ now <= req[d].seen + MaxDelay
  BY <1>1 DEF Claim, Claimed, ReadingIsRecent, At
<1>3. CASE SkewOK(e, req[d].seen)
  <2>1. /\ accepted' = [accepted EXCEPT ![e] = accepted[e] + 1]
        /\ req' = [req EXCEPT ![d] = [pc |-> "dispatch", env |-> e, seen |-> 0]]
    BY <1>3 DEF Claim
  <2>2. accepted[e] = 0
    <3>1. SUFFICES ASSUME accepted[e] > 0 PROVE FALSE
      BY <1>1
    <3>2. nonce[e] >= Ts[e] - SKEW_WINDOW + NONCE_TTL
      BY <3>1, <1>1 DEF NonceCovers
    <3>3. req[d].seen - Ts[e] <= SKEW_WINDOW
      BY <1>3 DEF SkewOK
    <3> QED BY <3>2, <3>3, <1>1, <1>2, NonceOutlivesWindow
  <2>3. now + NONCE_TTL >= Ts[e] - SKEW_WINDOW + NONCE_TTL
    BY <1>1, <1>2, <1>3 DEF SkewOK
  <2>4. TypeOK'
    BY <1>1, <1>2, <2>1 DEF TypeOK, Delivery, At
  <2>5. AcceptedOnce'
    BY <1>1, <2>1, <2>2 DEF AcceptedOnce, TypeOK
  <2>6. NonceCovers'
    BY <1>1, <1>2, <2>1, <2>3 DEF NonceCovers, TypeOK
  <2>7. ReadingIsRecent' /\ SenderWasActive'
    BY <1>1, <1>2, <2>1 DEF ReadingIsRecent, SenderWasActive, TypeOK, Delivery, At
  <2> QED BY <2>4, <2>5, <2>6, <2>7
<1>4. CASE ~SkewOK(e, req[d].seen)
  <2>1. req' = [req EXCEPT ![d] = Idle] /\ UNCHANGED accepted
    BY <1>4 DEF Claim, Reject
  <2>2. TypeOK'
    BY <1>1, <1>2, <2>1 DEF TypeOK, Delivery, At, Idle
  <2>3. AcceptedOnce'
    BY <2>1 DEF AcceptedOnce
  <2>4. NonceCovers'
    BY <1>1, <1>2, <2>1 DEF NonceCovers, TypeOK
  <2>5. ReadingIsRecent' /\ SenderWasActive'
    BY <1>1, <1>2, <2>1 DEF ReadingIsRecent, SenderWasActive, TypeOK, Delivery, At, Idle
  <2> QED BY <2>2, <2>3, <2>4, <2>5
<1> QED BY <1>3, <1>4

\* A claim whose answer is lost may extend the nonce, never shorten it.
LEMMA CacheUnavailableStep ==
    ASSUME IndInv, NEW d \in Deliveries, CacheUnavailable(d)
    PROVE  IndInv'
<1> USE EnvelopeConstants DEF IndInv
<1> DEFINE e == req[d].env
<1>1. e \in Envelopes /\ now \in Nat /\ nonce[e] \in Int /\ d \in DOMAIN req
  BY DEF CacheUnavailable, TypeOK, Delivery, At
<1>2. /\ req' = [req EXCEPT ![d] = Idle]
      /\ UNCHANGED <<now, revoked_at, accepted>>
      /\ nonce' = nonce \/ (~Claimed(e) /\ nonce' = [nonce EXCEPT ![e] = now + NONCE_TTL])
  BY DEF CacheUnavailable, Reject
<1>3. TypeOK'
  BY <1>1, <1>2 DEF TypeOK, Delivery, At, Idle
<1>4. AcceptedOnce'
  BY <1>2 DEF AcceptedOnce
<1>5. NonceCovers'
  BY <1>1, <1>2 DEF NonceCovers, TypeOK, Claimed
<1>6. ReadingIsRecent' /\ SenderWasActive'
  BY <1>1, <1>2 DEF ReadingIsRecent, SenderWasActive, TypeOK, Delivery, At, Idle
<1> QED BY <1>3, <1>4, <1>5, <1>6

\* Steps that only move a delivery past the claim, or end it.
LEMMA LeaveStep ==
    ASSUME IndInv, NEW d \in Deliveries, Replayed(d) \/ Dispatch(d) \/ Respond(d) \/ Crash(d)
    PROVE  IndInv'
<1> USE EnvelopeConstants DEF IndInv
<1>1. UNCHANGED <<now, revoked_at, nonce, accepted>>
  BY DEF Replayed, Dispatch, Respond, Crash
<1>2. \/ req' = [req EXCEPT ![d] = Idle]
      \/ At(d, "dispatch") /\ req' = [req EXCEPT ![d] = [req[d] EXCEPT !.pc = "handler"]]
  BY DEF Replayed, Dispatch, Respond, Crash, Reject
<1>3. TypeOK'
  BY <1>1, <1>2 DEF TypeOK, Delivery, At, Idle
<1>4. AcceptedOnce' /\ NonceCovers'
  BY <1>1 DEF AcceptedOnce, NonceCovers
<1>5. ReadingIsRecent' /\ SenderWasActive'
  BY <1>1, <1>2 DEF ReadingIsRecent, SenderWasActive, TypeOK, Delivery, At, Idle
<1> QED BY <1>3, <1>4, <1>5

\* A revocation happens now, after every clock reading.
LEMMA RevokeStep ==
    ASSUME IndInv, NEW a \in Agents, Revoke(a)
    PROVE  IndInv'
<1> USE EnvelopeConstants DEF IndInv
<1>1. revoked_at' = [revoked_at EXCEPT ![a] = now] /\ UNCHANGED <<now, nonce, req, accepted>>
  BY DEF Revoke
<1>2. TypeOK'
  BY <1>1 DEF TypeOK, At
<1>3. AcceptedOnce' /\ NonceCovers' /\ ReadingIsRecent'
  BY <1>1 DEF AcceptedOnce, NonceCovers, ReadingIsRecent, At
<1>4. SenderWasActive'
  BY <1>1 DEF SenderWasActive, ReadingIsRecent, TypeOK, Delivery, At
<1> QED BY <1>2, <1>3, <1>4

\* Time passes only while no delivery has waited for MaxDelay.
LEMMA TickStep ==
    ASSUME IndInv, Tick
    PROVE  IndInv'
<1> USE EnvelopeConstants DEF IndInv
<1>1. now' = now + 1 /\ UNCHANGED <<revoked_at, nonce, req, accepted>>
  BY DEF Tick
<1>2. TypeOK'
  BY <1>1 DEF TypeOK, At
<1>3. AcceptedOnce' /\ NonceCovers' /\ SenderWasActive'
  BY <1>1 DEF AcceptedOnce, NonceCovers, SenderWasActive, At
<1>4. ReadingIsRecent'
  BY <1>1 DEF ReadingIsRecent, TypeOK, Delivery, At, Tick
<1> QED BY <1>2, <1>3, <1>4

\* Every step of the pipeline keeps the invariant.
LEMMA NextIndInv == IndInv /\ [Next]_vars => IndInv'
<1> SUFFICES ASSUME IndInv, [Next]_vars PROVE IndInv'
  OBVIOUS
<1>1. CASE UNCHANGED vars
  BY <1>1 DEF vars, IndInv, TypeOK, AcceptedOnce, NonceCovers, ReadingIsRecent,
      SenderWasActive, At
<1>2. CASE \E d \in Deliveries, e \in Envelopes : Verify(d, e)
  BY <1>2, VerifyStep
<1>3. CASE \E d \in Deliveries : Claim(d)
  BY <1>3, ClaimStep
<1>4. CASE \E d \in Deliveries : CacheUnavailable(d)
  BY <1>4, CacheUnavailableStep
<1>5. CASE \E d \in Deliveries : Replayed(d) \/ Dispatch(d) \/ Respond(d) \/ Crash(d)
  BY <1>5, LeaveStep
<1>6. CASE \E a \in Agents : Revoke(a)
  BY <1>6, RevokeStep
<1>7. CASE Tick
  BY <1>7, TickStep
<1> QED BY <1>1, <1>2, <1>3, <1>4, <1>5, <1>6, <1>7 DEF Next

\* The inductive invariant of verify_envelope holds in every behaviour.
THEOREM Invariance == Spec => []IndInv
BY InitIndInv, NextIndInv, PTL DEF Spec

\* Type correctness of the pipeline, for every value of the constants.
THEOREM TypeCorrect == Spec => []TypeOK
<1>1. IndInv => TypeOK
  BY DEF IndInv
<1> QED BY <1>1, Invariance, PTL

\* Replay protection: verify_envelope accepts an envelope at most once.
THEOREM ReplayProtection == Spec => []AcceptedOnce
<1>1. IndInv => AcceptedOnce
  BY DEF IndInv
<1> QED BY <1>1, Invariance, PTL

\* What a step accepts was signed by its sender, active at the clock reading.
LEMMA AcceptStep ==
    ASSUME IndInv, Next, NEW e \in Envelopes, accepted'[e] # accepted[e]
    PROVE  /\ KeyOwner[e] = From[e] /\ Valid[e]
           /\ revoked_at[From[e]] # -1 => now <= revoked_at[From[e]] + MaxDelay
<1> USE EnvelopeConstants
<1>1. PICK d \in Deliveries : Claim(d)
  BY DEF Next, Verify, Replayed, CacheUnavailable, Dispatch, Respond, Crash, Revoke, Tick
<1>2. req[d].env = e
  BY <1>1 DEF Claim, IndInv, TypeOK
<1>3. /\ KeyOwner[e] = From[e] /\ Valid[e]
      /\ revoked_at[From[e]] = -1 \/ req[d].seen <= revoked_at[From[e]]
  BY <1>1, <1>2 DEF Claim, IndInv, SenderWasActive
<1>4. now <= req[d].seen + MaxDelay /\ req[d].seen \in Nat /\ now \in Nat
      /\ revoked_at[From[e]] \in Int
  BY <1>1 DEF Claim, IndInv, ReadingIsRecent, TypeOK, Delivery
<1> QED BY <1>3, <1>4

\* A revoked identity stops being accepted within MaxDelay.
THEOREM RevocationWorks == Spec => RevocationTakesEffect
<1>1. IndInv /\ [Next]_vars =>
        [\A e \in Envelopes : accepted'[e] # accepted[e] =>
            /\ KeyOwner[e] = From[e] /\ Valid[e]
            /\ revoked_at[From[e]] # -1 => now <= revoked_at[From[e]] + MaxDelay]_vars
  BY AcceptStep DEF vars
<1> QED BY <1>1, Invariance, PTL DEF Spec, RevocationTakesEffect

-----------------------------------------------------------------------------
(* The circuit breaker.                                                    *)

\* A call record stays one: idle, started, admitted or after a failure.
LEMMA CallRecords ==
    ASSUME NEW c \in Callers, call \in [Callers -> CallRecord]
    PROVE  /\ NoCall \in CallRecord
           /\ [NoCall EXCEPT !.pc = "enter", !.attempt = 1] \in CallRecord
           /\ \A b \in BOOLEAN : AfterFailure(c, b) \in CallRecord
<1>1. call[c] \in CallRecord
    OBVIOUS
<1>2. 0 \in 0..max_attempts /\ 1 \in 0..max_attempts
    BY BreakerConstants
<1>3. NoCall \in CallRecord
    BY <1>2 DEF NoCall, CallRecord
<1>4. [NoCall EXCEPT !.pc = "enter", !.attempt = 1] \in CallRecord
    BY <1>2 DEF NoCall, CallRecord
<1>5. ASSUME NEW b \in BOOLEAN PROVE AfterFailure(c, b) \in CallRecord
  <2>1. CASE b /\ call[c].attempt < max_attempts
    <3>1. call[c].attempt + 1 \in 0..max_attempts
        BY <1>1, <2>1, BreakerConstants DEF CallRecord
    <3>2. [call[c] EXCEPT !.pc = "enter", !.attempt = call[c].attempt + 1] \in CallRecord
        BY <1>1, <3>1 DEF CallRecord
    <3>. QED
        BY <2>1, <3>2, Zenon DEF AfterFailure
  <2>2. CASE ~(b /\ call[c].attempt < max_attempts)
        BY <2>2, <1>3, Zenon DEF AfterFailure
  <2>. QED
        BY <2>1, <2>2
<1>. QED
    BY <1>3, <1>4, <1>5

\* Every step of the breaker or of a caller keeps the type invariant.
LEMMA BreakerTypeStep == BreakerTypeOK /\ [BreakerNext]_BreakerVars => BreakerTypeOK'
<1> SUFFICES ASSUME BreakerTypeOK, [BreakerNext]_BreakerVars PROVE BreakerTypeOK'
    OBVIOUS
<1> USE DEF BreakerTypeOK
<1>1. ASSUME NEW c \in Callers, Start(c) PROVE BreakerTypeOK'
    BY <1>1, CallRecords, Zenon DEF Start
<1>2. ASSUME NEW c \in Callers, Refuse(c) PROVE BreakerTypeOK'
    BY <1>2, CallRecords, Zenon DEF Refuse
<1>3. ASSUME NEW c \in Callers, Admit(c) PROVE BreakerTypeOK'
  <2>1. State \in {"CLOSED", "HALF_OPEN"}
    BY <1>3 DEF Admit
  <2>2. trial' \in BOOLEAN
    BY <1>3, Zenon DEF Admit
  <2>3. call' \in [Callers -> CallRecord]
    BY <1>3, <2>1 DEF Admit, CallRecord
  <2>. QED
    BY <1>3, <2>2, <2>3, Zenon DEF Admit
<1>4. ASSUME NEW c \in Callers, Succeed(c) PROVE BreakerTypeOK'
  <2>1. failures' \in Nat
    BY <1>4 DEF Succeed, _on_success
  <2>. QED
    BY <1>4, <2>1, CallRecords, Zenon DEF Succeed, _on_success, Finally
<1>5. ASSUME NEW c \in Callers, NEW b \in BOOLEAN, Fail(c, b) PROVE BreakerTypeOK'
  <2>1. failures' \in Nat
    BY <1>5 DEF Fail, _on_failure
  <2>2. state' \in {"CLOSED", "OPEN"} /\ elapsed' \in BOOLEAN
    BY <1>5, Zenon DEF Fail, _on_failure
  <2>. QED
    BY <1>5, <2>1, <2>2, CallRecords, Zenon DEF Fail, Finally
<1>6. ASSUME NEW c \in Callers, Cancel(c) PROVE BreakerTypeOK'
    BY <1>6, CallRecords, Zenon DEF Cancel, Finally
<1>7. CASE RecoveryTimeout
    BY <1>7, Zenon DEF RecoveryTimeout
<1>8. CASE UNCHANGED BreakerVars
    BY <1>8, Zenon DEF BreakerVars
<1>. QED
    BY <1>1, <1>2, <1>3, <1>4, <1>5, <1>6, <1>7, <1>8 DEF BreakerNext, Step

\* The breaker's variables always have their types.
THEOREM BreakerTypeCorrect == BreakerSpec => []BreakerTypeOK
<1>1. BreakerInit => BreakerTypeOK
  <2>1. NoCall \in CallRecord
    BY BreakerConstants DEF CallRecord, NoCall
  <2>2. 0 \in Nat
    OBVIOUS
  <2>. QED
    BY <2>1, <2>2, Zenon DEF BreakerInit, BreakerTypeOK
<1>. QED
    BY <1>1, BreakerTypeStep, PTL DEF BreakerSpec

(***************************************************************************)
(* The breaker is open exactly when its threshold is reached, whatever the *)
(* order in which early and late calls end.                                *)
(***************************************************************************)
THEOREM OpensAtThreshold == BreakerSpec => []OpenIffThreshold
<1>1. BreakerInit => OpenIffThreshold
    BY BreakerConstants DEF BreakerInit, OpenIffThreshold
<1>2. BreakerTypeOK /\ OpenIffThreshold /\ [BreakerNext]_BreakerVars => OpenIffThreshold'
  <2> USE BreakerConstants DEF BreakerTypeOK, OpenIffThreshold
  <2> SUFFICES ASSUME BreakerTypeOK, OpenIffThreshold, [BreakerNext]_BreakerVars
               PROVE  OpenIffThreshold'
    OBVIOUS
  <2>1. ASSUME NEW c \in Callers, Succeed(c) PROVE OpenIffThreshold'
    BY <2>1 DEF Succeed, _on_success
  <2>2. ASSUME NEW c \in Callers, NEW b \in BOOLEAN, Fail(c, b) PROVE OpenIffThreshold'
    BY <2>2 DEF Fail, _on_failure
  <2>3. CASE UNCHANGED <<state, failures>>
    BY <2>3
  <2>. QED
    BY <2>1, <2>2, <2>3 DEF BreakerNext, Step, Start, Refuse, Admit, Cancel, RecoveryTimeout,
       BreakerVars
<1>. QED
    BY <1>1, <1>2, BreakerTypeCorrect, PTL DEF BreakerSpec

(***************************************************************************)
(* The breaker never jams: the trial flag always has a running call that   *)
(* will clear it.                                                          *)
(***************************************************************************)
THEOREM NeverJams == BreakerSpec => []TrialHasOwner
<1>1. BreakerInit => TrialHasOwner
    BY DEF BreakerInit, TrialHasOwner
<1>2. BreakerTypeOK /\ TrialHasOwner /\ [BreakerNext]_BreakerVars => TrialHasOwner'
  <2> SUFFICES ASSUME BreakerTypeOK, TrialHasOwner, [BreakerNext]_BreakerVars
               PROVE  TrialHasOwner'
    OBVIOUS
  <2> USE DEF BreakerTypeOK, TrialHasOwner, CallAt
  <2>1. ASSUME NEW c \in Callers, Start(c) PROVE TrialHasOwner'
    BY <2>1 DEF Start
  <2>2. ASSUME NEW c \in Callers, Refuse(c) PROVE TrialHasOwner'
    BY <2>2 DEF Refuse
  <2>3. ASSUME NEW c \in Callers, Admit(c) PROVE TrialHasOwner'
    <3>1. CASE trial
      <4>1. PICK d \in Callers : call[d].pc = "calling" /\ call[d].as = "HALF_OPEN"
        BY <3>1
      <4>2. d # c
        BY <2>3, <4>1 DEF Admit
      <4>. QED
        BY <2>3, <4>1, <4>2 DEF Admit
    <3>2. CASE ~trial
      BY <2>3, <3>2 DEF Admit, CallRecord
    <3>. QED
      BY <3>1, <3>2
  <2>4. ASSUME NEW c \in Callers, Succeed(c) \/ (\E b \in BOOLEAN : Fail(c, b)) \/ Cancel(c)
        PROVE TrialHasOwner'
    BY <2>4 DEF Succeed, Fail, Cancel, Finally
  <2>5. CASE UNCHANGED <<trial, call>>
    BY <2>5
  <2>. QED
    BY <2>1, <2>2, <2>3, <2>4, <2>5 DEF BreakerNext, Step, RecoveryTimeout, BreakerVars
<1>. QED
    BY <1>1, <1>2, BreakerTypeCorrect, PTL DEF BreakerSpec
=============================================================================
