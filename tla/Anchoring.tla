------------------------------ MODULE Anchoring ------------------------------
(***************************************************************************)
(* Publishing audit checkpoints on chain: the worker's anchor loop         *)
(* (worker.py), the adapter (infrastructure/anchor/monad_testnet.py), the  *)
(* outbox columns of audit_checkpoints and the contract                    *)
(* (chain/src/AuditCheckpointAnchor.sol).                                  *)
(*                                                                         *)
(* A range has one local root.  The contract's value for a range is None,  *)
(* "local" (that root) or "other": a root somebody else published for the  *)
(* same range with the same key, e.g. an earlier deployment.               *)
(* A transaction is the range it anchors; an account's transactions are    *)
(* mined in the order they were sent (their nonces).                       *)
(***************************************************************************)
EXTENDS Integers, Sequences, FiniteSets, SequencesExt

CONSTANTS
    Ranges,               \* to_seq of the checkpoints, the outbox's order
    max_retry_attempts,   \* settings.max_retry_attempts
    None,
    MaxTx,                \* bound: transactions sent for one range
    MaxLost,              \* bound: transactions the network forgets
    MaxCrashes,           \* bound: worker crashes
    MaxFailures           \* bound: anchor_attempts stops counting here

ASSUME AnchoringConstants ==
    /\ Ranges \subseteq Nat
    /\ max_retry_attempts \in Nat \ {0}
    /\ {MaxTx, MaxLost, MaxCrashes, MaxFailures} \subseteq Nat
    /\ None \notin Nat /\ None \notin {"local", "other"}

VARIABLES
    rows,        \* audit_checkpoints, committed
    contract,    \* _checkpoints: root of each range
    events,      \* CheckpointAnchored events of each range
    txs,         \* transactions sent: the range and how it ended
    pool,        \* transactions not mined yet, by nonce
    worker,      \* the anchor loop
    lost,        \* transactions the network forgot
    crashes

vars == <<rows, contract, events, txs, pool, worker, lost, crashes>>

\* What the worker will commit, by range.
NoWrites == [c \in {} |-> None]
Idle == [pc |-> "idle", batch |-> {}, writes |-> NoWrites, attempt |-> 0, tx |-> None]

Init ==
    /\ rows = [c \in {} |-> None]
    /\ contract = [c \in Ranges |-> None]
    /\ events = [c \in Ranges |-> 0]
    /\ txs = <<>>
    /\ pool = <<>>
    /\ worker = Idle
    /\ lost = 0
    /\ crashes = 0

-----------------------------------------------------------------------------
(* audit_service._write_checkpoint inserts the rows (module AuditChain).   *)

Written(c) ==
    /\ c \notin DOMAIN rows
    /\ \A d \in Ranges : d < c => d \in DOMAIN rows
    /\ rows' = [d \in DOMAIN rows \cup {c} |->
                  IF d = c THEN [status |-> "unanchored", tx |-> None, failures |-> 0]
                           ELSE rows[d]]
    /\ UNCHANGED <<contract, events, txs, pool, worker, lost, crashes>>

-----------------------------------------------------------------------------
(* The contract.                                                           *)

\* Mutant: the range is not looked up first.
AnchorOverwrites(c, root) ==
    /\ contract' = [contract EXCEPT ![c] = root]
    /\ events' = [events EXCEPT ![c] = @ + 1]

\* anchor: the same root again does nothing, another root is a revert (Reverts).
\* Who submits holds the owner's key, and a checkpoint has a root and a range:
\* NotOwner, InvalidRoot and InvalidRange are reverts no writer here meets.
anchor(c, root) ==
    IF contract[c] = None
    THEN /\ contract' = [contract EXCEPT ![c] = root]
         /\ events' = [events EXCEPT ![c] = @ + 1]
    ELSE UNCHANGED <<contract, events>>

Reverts(c, root) == contract[c] \notin {None, root}

\* Somebody else's anchor of the same range.
Foreign(c) ==
    /\ contract[c] = None
    /\ anchor(c, "other")
    /\ UNCHANGED <<rows, txs, pool, worker, lost, crashes>>

Mine ==
    /\ pool # <<>>
    /\ LET t == Head(pool)
           c == txs[t].range IN
       /\ anchor(c, "local")
       /\ txs' = [txs EXCEPT ![t].status = IF Reverts(c, "local") THEN "reverted" ELSE "mined"]
       /\ pool' = Tail(pool)
    /\ UNCHANGED <<rows, worker, lost, crashes>>

\* The node forgets the transaction with the highest nonce.
Lose ==
    /\ pool # <<>> /\ lost < MaxLost
    /\ pool' = Front(pool)
    /\ lost' = lost + 1
    /\ UNCHANGED <<rows, contract, events, txs, worker, crashes>>

-----------------------------------------------------------------------------
(* _anchor_tick: one session for the whole batch, committed at its end.    *)

\* Mutant: a checkpoint that failed once is not polled again.
NeverFailed == {c \in DOMAIN rows : rows[c].status = "unanchored" /\ rows[c].failures = 0}

\* list_unanchored
Unanchored == {c \in DOMAIN rows : rows[c].status = "unanchored"}

Tick ==
    /\ worker.pc = "idle" /\ Unanchored # {}
    /\ worker' = [pc |-> "read", batch |-> Unanchored, writes |-> NoWrites,
                  attempt |-> 1, tx |-> None]
    /\ UNCHANGED <<rows, contract, events, txs, pool, lost, crashes>>

\* The batch is worked off in the order of to_seq.
Current == Min(worker.batch)
\* What the row of the checkpoint at hand becomes, when the batch is committed.
Decide(row) ==
    LET left == worker.batch \ {Current} IN
    worker' = [pc |-> IF left = {} THEN "commit" ELSE "read",
               batch |-> left,
               writes |-> [c \in DOMAIN worker.writes \cup {Current} |->
                             IF c = Current THEN row ELSE worker.writes[c]],
               attempt |-> 1,
               tx |-> None]

mark_anchored(tx) ==
    Decide([status |-> "anchored", tx |-> tx, failures |-> rows[Current].failures])
mark_conflict == Decide([rows[Current] EXCEPT !.status = "conflict"])
record_attempt_failure ==
    Decide([rows[Current] EXCEPT
              !.failures = IF rows[Current].failures < MaxFailures
                           THEN rows[Current].failures + 1 ELSE MaxFailures])

\* TransientAnchorError: again, or RetryExhausted.
Transient ==
    IF worker.attempt < max_retry_attempts
    THEN worker' = [worker EXCEPT !.pc = "read", !.attempt = worker.attempt + 1, !.tx = None]
    ELSE record_attempt_failure

\* CircuitOpenError, which is not retried.
Refused ==
    /\ worker.pc = "read"
    /\ record_attempt_failure
    /\ UNCHANGED <<rows, contract, events, txs, pool, lost, crashes>>

\* Mutant: anything found on chain is taken for this checkpoint.
ReadFound == worker.pc = "read" /\ contract[Current] # None /\ mark_anchored(None)

\* _get_checkpoint_raw, and what is made of it.
ReadAnswer ==
    /\ worker.pc = "read"
    /\ CASE contract[Current] = "local" -> mark_anchored(None)
         [] contract[Current] = "other" -> mark_conflict
         [] OTHER -> worker' = [worker EXCEPT !.pc = "send"]

ReadContract == ReadAnswer /\ UNCHANGED <<rows, contract, events, txs, pool, lost, crashes>>

\* build_transaction estimates the gas on the current state: a conflict shows there.
SendConflicts ==
    /\ worker.pc = "send" /\ contract[Current] = "other"
    /\ mark_conflict
    /\ UNCHANGED <<rows, contract, events, txs, pool, lost, crashes>>

SentFor(c) == {t \in DOMAIN txs : txs[t].range = c}

\* send_raw_transaction; the answer may be lost.
Send ==
    /\ worker.pc = "send" /\ contract[Current] # "other"
    /\ Cardinality(SentFor(Current)) < MaxTx
    /\ txs' = Append(txs, [range |-> Current, status |-> "sent"])
    /\ pool' = Append(pool, Len(txs) + 1)
    /\ \/ worker' = [worker EXCEPT !.pc = "wait", !.tx = Len(txs) + 1]
       \/ Transient
    /\ UNCHANGED <<rows, contract, events, lost, crashes>>

\* Mutant: the transaction's hash is proof enough.
ReceiptOfHash == worker.pc = "wait" /\ mark_anchored(worker.tx)

ReceiptAnswer ==
    /\ worker.pc = "wait"
    /\ \/ txs[worker.tx].status = "mined" /\ mark_anchored(worker.tx)
       \/ txs[worker.tx].status = "reverted" /\ Transient

\* wait_for_transaction_receipt
Receipt == ReceiptAnswer /\ UNCHANGED <<rows, contract, events, txs, pool, lost, crashes>>

\* The node does not answer, or the receipt does not come in time.
RpcFails ==
    /\ worker.pc \in {"read", "send", "wait"}
    /\ Transient
    /\ UNCHANGED <<rows, contract, events, txs, pool, lost, crashes>>

CommitRows ==
    /\ worker.pc = "commit"
    /\ rows' = [c \in DOMAIN rows |->
                  IF c \in DOMAIN worker.writes THEN worker.writes[c] ELSE rows[c]]

Commit == CommitRows /\ worker' = Idle /\ UNCHANGED <<contract, events, txs, pool, lost, crashes>>

\* The process dies, or an exception nobody foresaw ends the tick: nothing is committed.
Crash ==
    /\ worker.pc # "idle" /\ crashes < MaxCrashes
    /\ worker' = Idle
    /\ crashes' = crashes + 1
    /\ UNCHANGED <<rows, contract, events, txs, pool, lost>>

-----------------------------------------------------------------------------
(* The verify-anchor command and the readers of the outbox.                *)

_verify_anchor(c) ==
    CASE c \notin DOMAIN rows -> "no local checkpoint"
      [] contract[c] = None -> "not anchored"
      [] contract[c] = "local" -> "VERIFIED"
      [] OTHER -> "root mismatch"

\* The transaction the explain and the trust pages link to.
explorer_tx(c) == IF rows[c].status = "anchored" THEN rows[c].tx ELSE None

Worker == Tick \/ ReadContract \/ SendConflicts \/ Send \/ Receipt \/ Commit

Next ==
    \/ \E c \in Ranges : Written(c) \/ Foreign(c)
    \/ Mine \/ Lose \/ Worker \/ Refused \/ RpcFails \/ Crash

(***************************************************************************)
(* The loop runs for ever.  The chain mines what is sent and the RPC node  *)
(* answers again and again, however often it fails in between.             *)
(***************************************************************************)
Fairness ==
    /\ WF_vars(Tick) /\ WF_vars(Commit) /\ WF_vars(Mine)
    /\ WF_vars(RpcFails)
    /\ SF_vars(ReadContract) /\ SF_vars(Send) /\ SF_vars(SendConflicts)

Spec == Init /\ [][Next]_vars /\ Fairness

-----------------------------------------------------------------------------
Row == [status : {"unanchored", "anchored", "conflict"}, tx : DOMAIN txs \cup {None},
        failures : 0..MaxFailures]
\* Rows for some of the ranges of S.
RowsOf(S) == UNION {[D -> Row] : D \in SUBSET S}

\* Type invariant of the outbox, the contract and the worker.
TypeOK ==
    /\ rows \in RowsOf(Ranges)
    /\ contract \in [Ranges -> {None, "local", "other"}]
    /\ events \in [Ranges -> Nat]
    /\ txs \in Seq([range : Ranges, status : {"sent", "mined", "reverted"}])
    /\ pool \in Seq(DOMAIN txs)
    /\ worker \in [pc : {"idle", "read", "send", "wait", "commit"},
                   batch : SUBSET DOMAIN rows, writes : RowsOf(DOMAIN rows),
                   attempt : 0..max_retry_attempts, tx : DOMAIN txs \cup {None}]
    /\ lost \in 0..MaxLost /\ crashes \in 0..MaxCrashes

(***************************************************************************)
(* What the outbox says of a checkpoint, the contract confirms: verify-    *)
(* anchor verifies an anchored row and reports a mismatch for a conflict,  *)
(* whatever was sent twice, timed out, was forgotten or was cut off        *)
(* between the transaction and the commit (worker._anchor_tick).           *)
(***************************************************************************)
OutboxIsTrue ==
    \A c \in DOMAIN rows :
        /\ rows[c].status = "anchored" => _verify_anchor(c) = "VERIFIED"
        /\ rows[c].status = "conflict" => _verify_anchor(c) = "root mismatch"

(***************************************************************************)
(* A page never links a transaction that was not mined for this range;     *)
(* and the state is well typed.                                            *)
(***************************************************************************)
LinkedTxIsMined ==
    /\ TypeOK
    /\ \A c \in DOMAIN rows :
        explorer_tx(c) # None =>
            txs[explorer_tx(c)] = [range |-> c, status |-> "mined"]

(***************************************************************************)
(* However many transactions retries and restarts send for a range, the    *)
(* contract announces it once.                                             *)
(***************************************************************************)
OneEventPerRange == \A c \in Ranges : events[c] <= 1

-----------------------------------------------------------------------------
(* Why they hold, for the proofs (AnchoringProofs).                        *)

\* A row of the outbox, committed or about to be, is true of the chain.
RowIsTrue(c, row) ==
    /\ row.status = "anchored" => contract[c] = "local"
    /\ row.status = "conflict" => contract[c] = "other"
    /\ row.status = "anchored" /\ row.tx # None =>
         txs[row.tx] = [range |-> c, status |-> "mined"]
RowsAreTrue ==
    /\ \A c \in DOMAIN rows : RowIsTrue(c, rows[c])
    /\ \A c \in DOMAIN worker.writes : RowIsTrue(c, worker.writes[c])

\* The contract announces a root when it takes it, and a mined transaction
\* has its root there.
ChainIsTrue ==
    /\ \A c \in Ranges : events[c] = IF contract[c] = None THEN 0 ELSE 1
    /\ \A t \in DOMAIN txs : txs[t].status = "mined" => contract[txs[t].range] = "local"

\* The worker has a checkpoint at hand, and waits for a transaction of its.
WorkerIsAtWork ==
    /\ worker.pc \in {"read", "send", "wait"} => worker.batch # {}
    /\ worker.pc = "wait" => worker.tx # None /\ txs[worker.tx].range = Current

\* The inductive invariant of the outbox.
IndInv == TypeOK /\ RowsAreTrue /\ ChainIsTrue /\ WorkerIsAtWork

(***************************************************************************)
(* Every checkpoint is anchored or found in conflict in the end, through   *)
(* RPC failures, lost transactions, an open breaker and worker crashes.    *)
(***************************************************************************)
EveryCheckpointSettles ==
    \A c \in Ranges :
        (c \in Unanchored) ~> (c \in DOMAIN rows /\ rows[c].status \in {"anchored", "conflict"})
=============================================================================
