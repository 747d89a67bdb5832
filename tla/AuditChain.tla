----------------------------- MODULE AuditChain -----------------------------
(***************************************************************************)
(* The audit log: append_entry and _write_checkpoint, verify_chain and     *)
(* verify_chain_and_halt_on_failure (application/audit_service.py), over   *)
(* domain/audit/chain.py, audit_log, audit_checkpoints and integrity_halt. *)
(*                                                                         *)
(* sha256 is taken to be free of collisions: an entry's hash is the        *)
(* sequence of the payloads that lead to it, a Merkle root the sequence of *)
(* the hashes below it.                                                    *)
(***************************************************************************)
EXTENDS Integers, Sequences, FiniteSets

CONSTANTS
    Sessions,             \* units of work that append
    Payloads,
    checkpoint_every,     \* settings.audit_checkpoint_every
    None,                 \* no session
    Tampering,            \* what is done to the table behind the program
    MaxSeq                \* bound: length of the log

ASSUME AuditConstants ==
    /\ checkpoint_every \in Nat \ {0}
    /\ MaxSeq \in Nat
    /\ Tampering \subseteq {"edit", "deleteInside", "deleteLast"}
    /\ None \notin Sessions

VARIABLES
    log,           \* audit_log: seq to entry
    checkpoints,   \* audit_checkpoints: to_seq to Merkle root
    chainLock,     \* holder of pg_advisory_xact_lock
    txn,           \* units of work
    verifier,      \* a verification in progress or its result
    halted,        \* integrity_halt
    written,       \* history: each seq and payload ever committed
    tampered       \* the table was changed behind the program

vars == <<log, checkpoints, chainLock, txn, verifier, halted, written, tampered>>

NoRows == [s \in {} |-> <<>>]
\* The rows of g in front of those of f.
Over(g, f) == [s \in DOMAIN f \cup DOMAIN g |-> IF s \in DOMAIN g THEN g[s] ELSE f[s]]

GENESIS_PREV_HASH == <<>>

\* Mutant: the previous hash is left out.
EntryHashUnchained(prev, payload) == <<payload>>

compute_entry_hash(prev, payload) == Append(prev, payload)

\* Mutant: every leaf is the segment's first entry.
RootOfFirstEntry(rows, to) ==
    [i \in 1..checkpoint_every |-> rows[to - checkpoint_every + 1].hash]

merkle_root(rows, to) == [i \in 1..checkpoint_every |-> rows[to - checkpoint_every + i].hash]

IdleTxn == [pc |-> "idle", seq |-> 0, prev |-> GENESIS_PREV_HASH,
            rows |-> NoRows, roots |-> NoRows]
NoVerification == [pc |-> "idle", from |-> 1, to |-> 0, rows |-> NoRows, ok |-> FALSE,
                   committed |-> {}]

Init ==
    /\ log = NoRows
    /\ checkpoints = NoRows
    /\ chainLock = None
    /\ txn = [t \in Sessions |-> IdleTxn]
    /\ verifier = NoVerification
    /\ halted = FALSE
    /\ written = {}
    /\ tampered = FALSE

-----------------------------------------------------------------------------
(* append_entry, any number of times in one unit of work.                  *)

At(t, pc) == txn[t].pc = pc
\* What a transaction sees: what is committed and what it wrote itself.
Visible(t) == Over(txn[t].rows, log)

\* acquire_chain_lock
AcquireChainLock(t) ==
    /\ txn[t].pc \in {"idle", "open"}
    /\ chainLock \in {None, t}
    /\ chainLock' = t
    /\ txn' = [txn EXCEPT ![t].pc = "locked"]
    /\ UNCHANGED <<log, checkpoints, verifier, halted, written, tampered>>

\* get_tail: the last row in sight.
get_tail(t) ==
    LET seen == DOMAIN Visible(t) IN
    IF seen = {} THEN 0 ELSE CHOOSE s \in seen : \A r \in seen : r <= s

GetTail(t) ==
    /\ At(t, "locked")
    /\ LET tail == get_tail(t) IN
       txn' = [txn EXCEPT ![t].pc = "insert",
                          ![t].seq = tail + 1,
                          ![t].prev = IF tail = 0 THEN GENESIS_PREV_HASH
                                      ELSE Visible(t)[tail].hash]
    /\ UNCHANGED <<log, checkpoints, chainLock, verifier, halted, written, tampered>>

\* The entry completes a segment.
IsBoundary(s) == s % checkpoint_every = 0

SegmentComplete(rows, s) == s - checkpoint_every + 1 .. s \subseteq DOMAIN rows

\* add_at_seq, and _write_checkpoint on a boundary.  A segment with rows
\* missing raises, and the unit of work is rolled back (Rollback).
AddEntry(t, payload) ==
    /\ At(t, "insert")
    /\ LET s == txn[t].seq
           entry == [payload |-> payload, prev |-> txn[t].prev,
                     hash |-> compute_entry_hash(txn[t].prev, payload)]
           rows == Over([r \in {s} |-> entry], txn[t].rows)
           seen == Over(rows, log)
           due == IsBoundary(s) /\ s \notin DOMAIN checkpoints
       IN /\ s <= MaxSeq
          /\ due => SegmentComplete(seen, s)
          /\ txn' = [txn EXCEPT
                 ![t].pc = "open",
                 ![t].rows = rows,
                 ![t].roots = IF due THEN Over([r \in {s} |-> merkle_root(seen, s)], @) ELSE @]
    /\ UNCHANGED <<log, checkpoints, chainLock, verifier, halted, written, tampered>>

Unlock(t) == chainLock' = IF chainLock = t THEN None ELSE chainLock

Commit(t) ==
    /\ At(t, "open")
    /\ log' = Visible(t)
    /\ checkpoints' = Over(txn[t].roots, checkpoints)
    /\ written' = written \cup {<<s, txn[t].rows[s].payload>> : s \in DOMAIN txn[t].rows}
    /\ Unlock(t)
    /\ txn' = [txn EXCEPT ![t] = IdleTxn]
    /\ UNCHANGED <<verifier, halted, tampered>>

\* A denial, an error or a crash: the rows and their numbers are gone.
Rollback(t) ==
    /\ ~At(t, "idle")
    /\ Unlock(t)
    /\ txn' = [txn EXCEPT ![t] = IdleTxn]
    /\ UNCHANGED <<log, checkpoints, verifier, halted, written, tampered>>

-----------------------------------------------------------------------------
(* verify_chain over from..to: rows is what list_range returned, prior the *)
(* hash of the entry before, roots the checkpoints, read after the rows.   *)

\* The hashes recomputed from the payloads, as far as the rows go on.
Recomputed(rows, prior, from, to) ==
    LET h[s \in from - 1 .. to] ==
            IF s = from - 1 THEN prior
            ELSE IF s \in DOMAIN rows THEN compute_entry_hash(h[s - 1], rows[s].payload)
            ELSE GENESIS_PREV_HASH
    IN h

\* No row of the range comes after a missing one.
Gapless(rows, from) == \A s \in DOMAIN rows : from .. s \subseteq DOMAIN rows

\* Mutant: only the link to the entry before is compared.
LinkedByPrevOnly(rows, h) == \A s \in DOMAIN rows : rows[s].prev = h[s - 1]

Linked(rows, h) ==
    \A s \in DOMAIN rows : rows[s].prev = h[s - 1] /\ rows[s].hash = h[s]

\* Segments that lie in the range and have a checkpoint have its root.
RootsMatch(rows, h, from, roots) ==
    \A s \in DOMAIN rows \cap DOMAIN roots :
        IsBoundary(s) /\ s - checkpoint_every + 1 >= from =>
            roots[s] = [i \in 1..checkpoint_every |-> h[s - checkpoint_every + i]]

verify_chain(rows, from, to, roots) ==
    /\ from = 1 \/ from - 1 \in DOMAIN log
    /\ LET prior == IF from = 1 THEN GENESIS_PREV_HASH ELSE log[from - 1].hash
           h == Recomputed(rows, prior, from, to)
       IN Gapless(rows, from) /\ Linked(rows, h) /\ RootsMatch(rows, h, from, roots)

\* list_range (committed, for the properties, is what had been written by then
\* of the range and the entry before it); the checkpoints and that entry are read
\* by later statements.
ReadRange(from, to) ==
    /\ verifier.pc = "idle"
    /\ verifier' = [pc |-> "read", from |-> from, to |-> to, ok |-> FALSE,
                    committed |-> {w[1] : w \in written} \cap (from - 1 .. to),
                    rows |-> [s \in DOMAIN log \cap (from .. to) |-> log[s]]]
    /\ UNCHANGED <<log, checkpoints, chainLock, txn, halted, written, tampered>>

\* verify_chain_and_halt_on_failure: the first failure trips the halt.
VerifyAndHalt ==
    /\ verifier.pc = "read"
    /\ LET ok == verify_chain(verifier.rows, verifier.from, verifier.to, checkpoints) IN
       /\ verifier' = [verifier EXCEPT !.pc = "done", !.ok = ok]
       /\ halted' = (halted \/ ~ok)
    /\ UNCHANGED <<log, checkpoints, chainLock, txn, written, tampered>>

\* The result is reported.
Report ==
    /\ verifier.pc = "done"
    /\ verifier' = NoVerification
    /\ UNCHANGED <<log, checkpoints, chainLock, txn, halted, written, tampered>>

-----------------------------------------------------------------------------
(* One change to the table behind the program, with its trigger disabled.  *)

Last == Cardinality(DOMAIN log)

Edit(s, payload) ==
    /\ "edit" \in Tampering /\ ~tampered
    /\ s \in DOMAIN log /\ payload # log[s].payload
    /\ log' = [log EXCEPT ![s].payload = payload]
    /\ tampered' = TRUE
    /\ UNCHANGED <<checkpoints, chainLock, txn, verifier, halted, written>>

Delete(s) ==
    /\ ~tampered
    /\ s \in DOMAIN log
    /\ (IF s = Last THEN "deleteLast" ELSE "deleteInside") \in Tampering
    /\ log' = [r \in DOMAIN log \ {s} |-> log[r]]
    /\ tampered' = TRUE
    /\ UNCHANGED <<checkpoints, chainLock, txn, verifier, halted, written>>

-----------------------------------------------------------------------------
Next ==
    \/ \E t \in Sessions :
        \/ AcquireChainLock(t) \/ GetTail(t) \/ Commit(t) \/ Rollback(t)
        \/ \E payload \in Payloads : AddEntry(t, payload)
    \/ \E from, to \in 1..MaxSeq : from <= to /\ ReadRange(from, to)
    \/ VerifyAndHalt
    \/ Report
    \/ \E s \in 1..MaxSeq, payload \in Payloads : Edit(s, payload)
    \/ \E s \in 1..MaxSeq : Delete(s)

Spec == Init /\ [][Next]_vars

-----------------------------------------------------------------------------
Entry == [payload : Payloads, prev : Seq(Payloads), hash : Seq(Payloads)]
Root == Seq(Seq(Payloads))

\* Rows numbered within the bound.
IsTable(f, R) == DOMAIN f \subseteq 1..MaxSeq /\ f \in [DOMAIN f -> R]
IsTxn(x) ==
    /\ x \in [pc : {"idle", "locked", "insert", "open"}, seq : 0..MaxSeq + 1,
              prev : Seq(Payloads), rows : {x.rows}, roots : {x.roots}]
    /\ x.pc = "insert" => x.seq # 0
    /\ IsTable(x.rows, Entry) /\ IsTable(x.roots, Root)
IsVerification(v) ==
    /\ v \in [pc : {"idle", "read", "done"}, from : 1..MaxSeq + 1, to : 0..MaxSeq,
              rows : {v.rows}, ok : BOOLEAN, committed : SUBSET (0..MaxSeq)]
    /\ IsTable(v.rows, Entry)

\* Type invariant of the tables, the units of work and the verifier.
TypeOK ==
    /\ IsTable(log, Entry) /\ IsTable(checkpoints, Root)
    /\ chainLock \in Sessions \cup {None}
    /\ DOMAIN txn = Sessions /\ \A t \in Sessions : IsTxn(txn[t])
    /\ IsVerification(verifier)
    /\ written \subseteq (1..MaxSeq) \X Payloads
    /\ halted \in BOOLEAN /\ tampered \in BOOLEAN

(***************************************************************************)
(* Section 16.1: concurrent appends, several in one unit of work, commits  *)
(* and rollbacks always leave one chain, numbered without a gap from 1,    *)
(* each entry's hash covering everything before it, with a checkpoint at   *)
(* every boundary; and the state is well typed.                            *)
(***************************************************************************)
History(s) == [i \in 1..s |-> log[i].payload]
OneChain ==
    /\ TypeOK
    /\ ~tampered =>
        /\ DOMAIN log = 1..Last
        /\ \A s \in DOMAIN log : log[s].prev = History(s - 1) /\ log[s].hash = History(s)
        /\ DOMAIN checkpoints = {s \in 1..Last : s % checkpoint_every = 0}
        /\ \A s \in DOMAIN checkpoints :
            checkpoints[s] = [i \in 1..checkpoint_every |-> History(s - checkpoint_every + i)]

(***************************************************************************)
(* No false alarm: a verdict other than ok, which stops every money action *)
(* of every process, means that the table was tampered with, whatever is   *)
(* appended and checkpointed between the verifier's statements.  The one   *)
(* exception in the code is a range that begins past the log's end.        *)
(***************************************************************************)
NoFalseAlarm ==
    verifier.pc = "done" /\ ~verifier.ok =>
        tampered \/ (verifier.from # 1 /\ verifier.from - 1 \notin verifier.committed)

(***************************************************************************)
(* The verifier's ok covers what it read: every entry has a payload it was *)
(* committed with, and between two entries none is missing                 *)
(* (verify_chain: "Recompute every entry hash ... validate prev_hash       *)
(* linkage").  It is silent about rows gone from the end of the range.     *)
(***************************************************************************)
OkCoversWhatWasRead ==
    verifier.pc = "done" /\ verifier.ok =>
        \A s \in DOMAIN verifier.rows :
            /\ <<s, verifier.rows[s].payload>> \in written
            /\ verifier.from .. s \subseteq DOMAIN verifier.rows

-----------------------------------------------------------------------------
(* Why they hold, for the proofs (AuditProofs).                            *)

\* Rows numbered 1 to n, each hash covering the payloads up to its row, and
\* the roots of their segments.
Hashes(rows, s) == [i \in 1..s |-> rows[i].payload]
IsChain(rows, n) ==
    /\ DOMAIN rows = 1..n
    /\ \A s \in 1..n : rows[s].prev = Hashes(rows, s - 1) /\ rows[s].hash = Hashes(rows, s)
HasRoots(roots, rows, n) ==
    /\ DOMAIN roots = {s \in 1..n : IsBoundary(s)}
    /\ \A s \in DOMAIN roots :
         roots[s] = [i \in 1..checkpoint_every |-> Hashes(rows, s - checkpoint_every + i)]

\* A unit of work that has begun holds the lock, and only such a one has rows.
LockIsHeld ==
    \A t \in Sessions :
        /\ ~At(t, "idle") <=> chainLock = t
        /\ At(t, "idle") => txn[t] = IdleTxn

\* Where nobody tampers, the log is a chain, and what a unit of work x has in
\* sight is one too, longer by the rows it wrote.
LogIsChain == \E n \in 0..MaxSeq : IsChain(log, n) /\ HasRoots(checkpoints, log, n)
ExtendsLog(x, n) ==
    /\ IsChain(Over(x.rows, log), n)
    /\ HasRoots(Over(x.roots, checkpoints), Over(x.rows, log), n)
    /\ DOMAIN log \cap DOMAIN x.rows = {}
    /\ x.pc = "insert" => x.seq = n + 1 /\ x.prev = Hashes(Over(x.rows, log), n)
Extends(x) == \E n \in 0..MaxSeq : ExtendsLog(x, n)

\* Tampered with or not, a row's hash was made from a payload it was committed
\* with, and the row before it.
WasWritten(s, entry) == \E p \in Payloads : <<s, p>> \in written
                                           /\ entry.hash = compute_entry_hash(entry.prev, p)
AreHashed(rows) ==
    \A s \in DOMAIN rows : rows[s].hash = compute_entry_hash(rows[s].prev, rows[s].payload)
HashesAreOriginal ==
    /\ \A s \in DOMAIN log : WasWritten(s, log[s])
    /\ \A s \in DOMAIN verifier.rows : WasWritten(s, verifier.rows[s])
    /\ \A t \in Sessions : AreHashed(txn[t].rows)

\* What the verifier read is still in the log.
ReadIsLog ==
    /\ \A s \in DOMAIN verifier.rows : s \in DOMAIN log /\ verifier.rows[s] = log[s]
    /\ Gapless(verifier.rows, verifier.from)
    /\ verifier.committed \subseteq DOMAIN log
    /\ \A w \in written : w[1] \in DOMAIN log

\* The inductive invariant of the audit log.
IndInv ==
    /\ TypeOK /\ LockIsHeld /\ HashesAreOriginal
    /\ DOMAIN verifier.rows \subseteq verifier.from .. verifier.to
    /\ ~tampered => LogIsChain /\ ReadIsLog /\ (\A t \in Sessions : Extends(txn[t]))
    /\ NoFalseAlarm /\ OkCoversWhatWasRead
=============================================================================
