----------------------------- MODULE Envelopes -----------------------------
(***************************************************************************)
(* The agent protocol's front door: POST /agent/v1/messages, the envelope  *)
(* pipeline of envelope_service.verify_envelope and the nonce cache, and   *)
(* the dispatch of what it accepts.                                        *)
(*                                                                         *)
(* The network delivers an envelope any number of times.  A delivery reads *)
(* the clock once, when it has resolved the sender's identity, and compares *)
(* the envelope's timestamp with that reading after it has claimed the     *)
(* nonce: time passes in between.  The code does not bound that delay; the *)
(* model does, by MaxDelay.                                                *)
(***************************************************************************)
EXTENDS Integers

CONSTANTS
    Envelopes,       \* signed envelopes: sender, key, algorithm, timestamp, type
    From, KeyOwner,  \* claimed sender; the agent its key id is registered for
    Protocol,        \* whether the protocol's major version is known
    Alg,             \* signature algorithm
    Valid,           \* whether the signature verifies under the registered key
    Ts,              \* timestamp
    Type,            \* message type
    Agents,
    NotBefore, ExpiresAt,   \* validity of the agents' identities
    Deliveries,      \* deliveries handled at the same time
    SKEW_WINDOW, NONCE_TTL,
    MaxDelay,        \* longest time between the clock reading and the claim
    Nobody,          \* no agent, no envelope
    MaxClock         \* bound: time

ASSUME EnvelopeConstants ==
    /\ From \in [Envelopes -> Agents]
    /\ KeyOwner \in [Envelopes -> Agents \cup {Nobody}] /\ Nobody \notin Agents \cup Envelopes
    /\ Ts \in [Envelopes -> Nat]
    /\ SKEW_WINDOW \in Nat /\ NONCE_TTL \in Nat /\ MaxDelay \in Nat /\ MaxClock \in Nat
    /\ NotBefore \in [Agents -> Nat] /\ ExpiresAt \in [Agents -> Nat]

\* 600 s against twice 120 s leaves six minutes for the delay.
ASSUME NonceOutlivesWindow == 2 * SKEW_WINDOW + MaxDelay < NONCE_TTL

VARIABLES
    now,
    revoked_at,   \* agent_identities: -1 while the identity is ACTIVE
    nonce,        \* cache: when the key of an envelope's msg_id expires, -1 if never set
    req,          \* the deliveries: place, envelope, clock reading
    accepted      \* how often an envelope was accepted

vars == <<now, revoked_at, nonce, req, accepted>>

Requests == {"capability.discover", "catalog.query", "quote.request", "order.propose",
             "order.status", "receipt.issue"}

Idle == [pc |-> "idle", env |-> Nobody, seen |-> 0]

Init ==
    /\ now = 0
    /\ revoked_at = [a \in Agents |-> -1]
    /\ nonce = [e \in Envelopes |-> -1]
    /\ req = [d \in Deliveries |-> Idle]
    /\ accepted = [e \in Envelopes |-> 0]

-----------------------------------------------------------------------------
At(d, pc) == req[d].pc = pc

\* _plain_error: an untrusted envelope is answered and leaves no trace.
Reject(d) == req' = [req EXCEPT ![d] = Idle]

Known(e) == Protocol[e] /\ Alg[e] = "Ed25519"

\* Mutant: any registered key will do.
IdentityOfAnyKey(e) == KeyOwner[e] # Nobody /\ revoked_at[KeyOwner[e]] = -1

\* The key id resolves to the claimed sender, who is not revoked.
Identity(e) == KeyOwner[e] = From[e] /\ revoked_at[From[e]] = -1

InWindow(e) == NotBefore[From[e]] <= now /\ now < ExpiresAt[From[e]]

\* Up to the claim: protocol, algorithm, identity, the clock, the signature.
Verify(d, e) ==
    /\ At(d, "idle")
    /\ Known(e) /\ Identity(e) /\ InWindow(e) /\ Valid[e]
    /\ req' = [req EXCEPT ![d] = [pc |-> "claim", env |-> e, seen |-> now]]
    /\ UNCHANGED <<now, revoked_at, nonce, accepted>>

SkewOK(e, t) == t - Ts[e] <= SKEW_WINDOW /\ Ts[e] - t <= SKEW_WINDOW

Claimed(e) == now < nonce[e]

\* SET NX EX won; the skew is checked last, and a failed check keeps the nonce.
Claim(d) ==
    /\ At(d, "claim")
    /\ LET e == req[d].env IN
       /\ ~Claimed(e)
       /\ nonce' = [nonce EXCEPT ![e] = now + NONCE_TTL]
       /\ IF SkewOK(e, req[d].seen)
          THEN /\ accepted' = [accepted EXCEPT ![e] = accepted[e] + 1]
               /\ req' = [req EXCEPT ![d] = [pc |-> "dispatch", env |-> e, seen |-> 0]]
          ELSE Reject(d) /\ UNCHANGED accepted
    /\ UNCHANGED <<now, revoked_at>>

\* REPLAYED_MESSAGE
Replayed(d) ==
    /\ At(d, "claim")
    /\ Claimed(req[d].env)
    /\ Reject(d)
    /\ UNCHANGED <<now, revoked_at, nonce, accepted>>

\* Mutant: an unreachable cache counts as a first delivery.
FailOpen(d) ==
    /\ At(d, "claim")
    /\ LET e == req[d].env IN
       /\ accepted' = [accepted EXCEPT ![e] = accepted[e] + 1]
       /\ req' = [req EXCEPT ![d] = [pc |-> "dispatch", env |-> e, seen |-> 0]]
    /\ UNCHANGED <<now, revoked_at, nonce>>

\* NonceCacheUnavailable, whether or not the SET took effect: fail closed.
CacheUnavailable(d) ==
    /\ At(d, "claim")
    /\ LET e == req[d].env IN
       nonce' = nonce \/ (~Claimed(e) /\ nonce' = [nonce EXCEPT ![e] = now + NONCE_TTL])
    /\ Reject(d)
    /\ UNCHANGED <<now, revoked_at, accepted>>

\* post_message: a request goes to its handler, anything else is answered
\* with an error; the response is signed and sent.
Dispatch(d) ==
    /\ At(d, "dispatch")
    /\ req' = [req EXCEPT ![d] =
           IF Type[req[d].env] \in Requests THEN [req[d] EXCEPT !.pc = "handler"] ELSE Idle]
    /\ UNCHANGED <<now, revoked_at, nonce, accepted>>

Respond(d) ==
    /\ At(d, "handler")
    /\ req' = [req EXCEPT ![d] = Idle]
    /\ UNCHANGED <<now, revoked_at, nonce, accepted>>

\* The process dies with the delivery.
Crash(d) ==
    /\ ~At(d, "idle")
    /\ req' = [req EXCEPT ![d] = Idle]
    /\ UNCHANGED <<now, revoked_at, nonce, accepted>>

\* AgentIdentityRepository.revoke
Revoke(a) ==
    /\ revoked_at[a] = -1
    /\ revoked_at' = [revoked_at EXCEPT ![a] = now]
    /\ UNCHANGED <<now, nonce, req, accepted>>

\* No delivery waits for the cache longer than MaxDelay.
Tick ==
    /\ now < MaxClock
    /\ \A d \in Deliveries : At(d, "claim") => now - req[d].seen < MaxDelay
    /\ now' = now + 1
    /\ UNCHANGED <<revoked_at, nonce, req, accepted>>

Next ==
    \/ \E d \in Deliveries :
        \/ \E e \in Envelopes : Verify(d, e)
        \/ Claim(d) \/ Replayed(d) \/ CacheUnavailable(d) \/ Dispatch(d) \/ Respond(d) \/ Crash(d)
    \/ \E a \in Agents : Revoke(a)
    \/ Tick

Spec == Init /\ [][Next]_vars

-----------------------------------------------------------------------------
Delivery ==
    [pc : {"idle", "claim", "dispatch", "handler"}, env : Envelopes \cup {Nobody}, seen : Nat]

\* Type invariant of the pipeline.
TypeOK ==
    /\ now \in Nat
    /\ revoked_at \in [Agents -> Int]
    /\ nonce \in [Envelopes -> Int]
    /\ req \in [Deliveries -> Delivery]
    /\ accepted \in [Envelopes -> Nat]
    /\ \A d \in Deliveries : ~At(d, "idle") => req[d].env \in Envelopes

(***************************************************************************)
(* An envelope is acted on at most once, over all deliveries, although its *)
(* nonce expires from the cache and its timestamp is checked against a     *)
(* clock reading that is older than the claim.                             *)
(***************************************************************************)
AcceptedOnce == \A e \in Envelopes : accepted[e] <= 1

(***************************************************************************)
(* Only what its claimed sender signed is acted on, while that sender's    *)
(* key is valid: a key of another agent never authenticates it, and after  *)
(* a revocation only deliveries already past the identity check get        *)
(* through, for at most MaxDelay.                                          *)
(***************************************************************************)
RevocationTakesEffect ==
    [][\A e \in Envelopes : accepted'[e] # accepted[e] =>
        /\ KeyOwner[e] = From[e] /\ Valid[e]
        /\ revoked_at[From[e]] # -1 => now <= revoked_at[From[e]] + MaxDelay]_vars

\* What AcceptedOnce rests on: a claim outlives the window of what it
\* accepted, and a waiting delivery's clock reading is recent.
NonceCovers ==
    \A e \in Envelopes : accepted[e] > 0 => nonce[e] >= Ts[e] - SKEW_WINDOW + NONCE_TTL
ReadingIsRecent ==
    \A d \in Deliveries : At(d, "claim") => req[d].seen <= now /\ now <= req[d].seen + MaxDelay
SenderWasActive ==
    \A d \in Deliveries : At(d, "claim") =>
        LET e == req[d].env IN
        /\ KeyOwner[e] = From[e] /\ Valid[e]
        /\ revoked_at[From[e]] = -1 \/ req[d].seen <= revoked_at[From[e]]

\* The inductive invariant of the pipeline.
IndInv == TypeOK /\ AcceptedOnce /\ NonceCovers /\ ReadingIsRecent /\ SenderWasActive
=============================================================================
