------------------------------- MODULE Ledger -------------------------------
(***************************************************************************)
(* The reservation ledger: application/ledger_service.py over              *)
(* domain/ledger/model.py and the ledger_entries and mandates tables.      *)
(*                                                                         *)
(* A unit of work is one Postgres READ COMMITTED transaction.  Each        *)
(* statement of a ledger operation is one action, so operations of         *)
(* different transactions interleave between statements; what keeps them   *)
(* correct is the mandate row lock (SELECT ... FOR UPDATE), which a        *)
(* transaction holds until it commits or rolls back.                       *)
(*                                                                         *)
(* Every movement is a pair of entries written together, so the table is   *)
(* kept as the number of pairs per reference and ref_type (posted), with   *)
(* the net balance of each account beside it (balance).  The entries a     *)
(* transaction has written and not committed are its own (pending, net).   *)
(*                                                                         *)
(* A reference is sha256(mandate | intent_hash | attempt); the intent      *)
(* holds the total, so a reference fixes its mandate and its amount.       *)
(***************************************************************************)
EXTENDS Integers

CONSTANTS
    Mandates,    \* mandate rows
    Refs,        \* reservation references (idempotency keys)
    Txns,        \* database sessions that run ledger operations
    None,        \* no session, no reference
    MandateOf,   \* mandate a reference belongs to
    AmountOf,    \* amount_minor of a reference
    MaxTotal     \* bounds.max_total_minor of a mandate

ASSUME ConstantsAssumption ==
    /\ None \notin Txns \cup Refs
    /\ MandateOf \in [Refs -> Mandates]
    /\ AmountOf \in [Refs -> Nat \ {0}]
    /\ MaxTotal \in [Mandates -> Nat]

VARIABLES
    posted,      \* committed movement pairs, per reference and ref_type
    balance,     \* committed net balance, per mandate and bucket
    rowLock,     \* holder of each mandate row's lock
    txn,         \* the open transaction of each session
    halted       \* the durable integrity halt

vars == <<posted, balance, rowLock, txn, halted>>

RefTypes == {"reservation", "capture", "release", "expire", "reverse"}
Buckets == {"available", "reserved", "settled"}
Operations == {"reserve", "capture", "release", "reverse", "sweep"}
ProgramCounters ==
    {"idle", "lock", "check", "sumReserved", "sumSettled", "insert", "scan", "return"}

-----------------------------------------------------------------------------
(* domain/ledger/model.py: a movement takes amount from the credited bucket *)
(* and adds it to the debited one.                                          *)

reserve_movements == [credit |-> "available", debit |-> "reserved"]
\* Mutant: capture gives the amount back to the budget, as a release does.
capture_to_available == [credit |-> "reserved", debit |-> "available"]
capture_movements == [credit |-> "reserved", debit |-> "settled"]
release_movements == [credit |-> "reserved", debit |-> "available"]
reverse_movements == [credit |-> "settled", debit |-> "available"]

MovementsOf(type) ==
    CASE type = "reservation" -> reserve_movements
      [] type = "capture"     -> capture_movements
      [] type = "release"     -> release_movements
      [] type = "expire"      -> release_movements
      [] type = "reverse"     -> reverse_movements

ZeroBalance == [b \in Buckets |-> 0]

\* The balances after posting a movement pair: debit adds, credit subtracts.
net_balance(bal, moves, amount) ==
    [b \in Buckets |-> bal[b] + (IF b = moves.debit THEN amount ELSE 0)
                              - (IF b = moves.credit THEN amount ELSE 0)]

\* What counts against the cap: reserved plus settled.
Committed(bal) == bal["reserved"] + bal["settled"]
committed_total(m) == Committed(balance[m])

-----------------------------------------------------------------------------
NoEntries == [ty \in RefTypes |-> 0]
Exists(entries) == \E ty \in RefTypes : entries[ty] > 0

state_of(entries) ==
    IF entries["expire"] > 0 THEN "EXPIRED"
    ELSE IF entries["release"] > 0 THEN "RELEASED"
    ELSE IF entries["capture"] > 0 THEN "CAPTURED"
    ELSE IF entries["reservation"] > 0 THEN "HELD"
    ELSE "NONE"

\* The ref_type an operation posts.
PostsType(op) ==
    CASE op = "reserve" -> "reservation"
      [] op = "sweep"   -> "expire"
      [] OTHER          -> op

IdleTxn ==
    [pc |-> "idle", op |-> "reserve", ref |-> None, todo |-> {}, held |-> 0,
     pending |-> {}, net |-> [m \in Mandates |-> ZeroBalance], ok |-> FALSE]

Init ==
    /\ posted = [r \in Refs |-> NoEntries]
    /\ balance = [m \in Mandates |-> ZeroBalance]
    /\ rowLock = [m \in Mandates |-> None]
    /\ txn = [t \in Txns |-> IdleTxn]
    /\ halted = FALSE

-----------------------------------------------------------------------------
At(t, pc) == txn[t].pc = pc
Op(t) == txn[t].op
Ref(t) == txn[t].ref
Mandate(t) == MandateOf[txn[t].ref]

\* Session t enters reserve, capture, release or reverse_settlement for r.
Begin(t, op, r) ==
    /\ At(t, "idle")
    /\ op \in Operations \ {"sweep"}
    /\ txn' = [txn EXCEPT ![t] = [IdleTxn EXCEPT !.pc = "lock", !.op = op, !.ref = r]]
    /\ UNCHANGED <<posted, balance, rowLock, halted>>

\* Mutant: a plain SELECT, which does not wait for the row lock.
LockWithoutWaiting(t) ==
    /\ At(t, "lock")
    /\ rowLock' = [rowLock EXCEPT ![Mandate(t)] = t]
    /\ txn' = [txn EXCEPT ![t].pc = "check"]
    /\ UNCHANGED <<posted, balance, halted>>

\* mandates.get_for_update: waits for the row lock, or already holds it.
Lock(t) ==
    /\ At(t, "lock")
    /\ rowLock[Mandate(t)] \in {None, t}
    /\ rowLock' = [rowLock EXCEPT ![Mandate(t)] = t]
    /\ txn' = [txn EXCEPT ![t].pc = "check"]
    /\ UNCHANGED <<posted, balance, halted>>

\* The operation returns ok to its caller, which then commits.
Return(t, ok) == [txn[t] EXCEPT !.pc = "return", !.ok = ok, !.held = 0]
GoTo(t, pc) == [txn[t] EXCEPT !.pc = pc]

\* reserve: any entry for the reference is a replay, answered without a check.
CheckReserve(t, entries) ==
    IF Exists(entries) THEN Return(t, TRUE) ELSE GoTo(t, "sumReserved")

\* Mutant: a reservation that is gone is answered like a captured one.
CheckCaptureAlwaysTrue(t, entries) ==
    IF state_of(entries) = "HELD" THEN GoTo(t, "insert") ELSE Return(t, TRUE)

CheckCapture(t, entries) ==
    CASE state_of(entries) = "CAPTURED" -> Return(t, TRUE)
      [] state_of(entries) = "HELD"     -> GoTo(t, "insert")
      [] OTHER                          -> Return(t, FALSE)

CheckRelease(t, entries) ==
    CASE state_of(entries) = "RELEASED" -> Return(t, TRUE)
      [] state_of(entries) = "HELD"     -> GoTo(t, "insert")
      [] OTHER                          -> Return(t, FALSE)

\* Mutant: any reservation can be reversed, captured or not.
CheckReverseReserved(t, entries) ==
    IF entries["reverse"] > 0 THEN Return(t, TRUE)
    ELSE IF entries["reservation"] > 0 THEN GoTo(t, "insert")
    ELSE Return(t, FALSE)

\* reverse_settlement looks at the ref_types themselves, not at the state.
CheckReverse(t, entries) ==
    IF entries["reverse"] > 0 THEN Return(t, TRUE)
    ELSE IF entries["capture"] > 0 THEN GoTo(t, "insert")
    ELSE Return(t, FALSE)

\* Mutant: sweep trusts the unlocked look.
CheckSweepNoRecheck(t, entries) == GoTo(t, "insert")

\* sweep: re-check under the lock; a reservation resolved meanwhile is skipped.
CheckSweep(t, entries) ==
    IF state_of(entries) = "HELD" THEN GoTo(t, "insert") ELSE GoTo(t, "scan")

\* ledger_entries.list_for_ref_id under the row lock, and what it decides.
Check(t) ==
    /\ At(t, "check")
    /\ LET entries == posted[Ref(t)] IN
       txn' = [txn EXCEPT ![t] =
           CASE Op(t) = "reserve" -> CheckReserve(t, entries)
             [] Op(t) = "capture" -> CheckCapture(t, entries)
             [] Op(t) = "release" -> CheckRelease(t, entries)
             [] Op(t) = "reverse" -> CheckReverse(t, entries)
             [] Op(t) = "sweep"   -> CheckSweep(t, entries)]
    /\ UNCHANGED <<posted, balance, rowLock, halted>>

\* reserve: the first of its two balance queries.
SumReserved(t) ==
    /\ At(t, "sumReserved")
    /\ txn' = [txn EXCEPT ![t].pc = "sumSettled",
                          ![t].held = balance[Mandate(t)]["reserved"]]
    /\ UNCHANGED <<posted, balance, rowLock, halted>>

\* Mutant: the cap is checked against what is reserved only.
WithinCapReservedOnly(t, spent) == txn[t].held + AmountOf[Ref(t)] <= MaxTotal[Mandate(t)]

WithinCap(t, spent) == txn[t].held + spent + AmountOf[Ref(t)] <= MaxTotal[Mandate(t)]

\* reserve: the second query, and the cap.
SumSettled(t) ==
    /\ At(t, "sumSettled")
    /\ LET spent == balance[Mandate(t)]["settled"] IN
       txn' = [txn EXCEPT ![t] =
           IF WithinCap(t, spent) THEN GoTo(t, "insert") ELSE Return(t, FALSE)]
    /\ UNCHANGED <<posted, balance, rowLock, halted>>

\* _add_movements: the pair is written and stays the transaction's own.
\* (sweep also appends its reservation.expired audit entry here.)
Inserted(t, type, m) ==
    [txn[t] EXCEPT
        !.pending = @ \cup {<<type, Ref(t)>>},
        !.net = [txn[t].net EXCEPT ![m] =
                    net_balance(txn[t].net[m], MovementsOf(type), AmountOf[Ref(t)])],
        !.pc = IF Op(t) = "sweep" THEN "scan" ELSE "return",
        !.held = 0,
        !.ok = TRUE]

Insert(t) ==
    /\ At(t, "insert")
    /\ txn' = [txn EXCEPT ![t] = Inserted(t, PostsType(Op(t)), Mandate(t))]
    /\ UNCHANGED <<posted, balance, rowLock, halted>>

-----------------------------------------------------------------------------
\* sweep starts: not while halted; the candidates are reservations older than
\* the cutoff.  The cutoff is the operator's and created_at is stamped before
\* the commit, so any set of reserved references can be the candidates.
SweepScan(t, candidates) ==
    /\ At(t, "idle")
    /\ ~halted
    /\ \A r \in candidates : posted[r]["reservation"] > 0
    /\ txn' = [txn EXCEPT ![t] =
           [IdleTxn EXCEPT !.pc = "scan", !.op = "sweep", !.todo = candidates]]
    /\ UNCHANGED <<posted, balance, rowLock, halted>>

\* The next candidate: an unlocked look skips what is no longer held.
SweepNext(t, r) ==
    /\ At(t, "scan")
    /\ r \in txn[t].todo
    /\ txn' = [txn EXCEPT
           ![t].todo = @ \ {r},
           ![t].ref = r,
           ![t].pc = IF state_of(posted[r]) = "HELD" THEN "lock" ELSE "scan"]
    /\ UNCHANGED <<posted, balance, rowLock, halted>>

SweepDone(t) ==
    /\ At(t, "scan")
    /\ txn[t].todo = {}
    /\ txn' = [txn EXCEPT ![t] = Return(t, TRUE)]
    /\ UNCHANGED <<posted, balance, rowLock, halted>>

-----------------------------------------------------------------------------
\* Mutant: the row locks outlive the transaction.
UnlockedNever(t) == rowLock

Unlocked(t) == [m \in Mandates |-> IF rowLock[m] = t THEN None ELSE rowLock[m]]

\* uow.commit: the transaction's entries become visible and its locks go.
Commit(t) ==
    /\ At(t, "return")
    /\ posted' = [r \in Refs |-> [ty \in RefTypes |->
           posted[r][ty] + (IF <<ty, r>> \in txn[t].pending THEN 1 ELSE 0)]]
    /\ balance' = [m \in Mandates |-> [b \in Buckets |->
           balance[m][b] + txn[t].net[m][b]]]
    /\ rowLock' = Unlocked(t)
    /\ txn' = [txn EXCEPT ![t] = IdleTxn]
    /\ UNCHANGED halted

\* Leaving the unit of work without a commit: a later gate denies, the process
\* dies, the connection is lost, or the caller raises.
Rollback(t) ==
    /\ ~At(t, "idle")
    /\ rowLock' = Unlocked(t)
    /\ txn' = [txn EXCEPT ![t] = IdleTxn]
    /\ UNCHANGED <<posted, balance, halted>>

\* The sessions of S wait for row locks held by one another.
WaitCycle(S) ==
    \A t \in S : At(t, "lock") /\ rowLock[Mandate(t)] \in S \ {t}

\* Postgres aborts one session of a cycle of lock waits.
DeadlockVictim(t) ==
    /\ \E S \in SUBSET Txns : t \in S /\ WaitCycle(S)
    /\ Rollback(t)

\* verify_chain_and_halt_on_failure in another process.
TripHalt ==
    /\ ~halted
    /\ halted' = TRUE
    /\ UNCHANGED <<posted, balance, rowLock, txn>>

-----------------------------------------------------------------------------
Step(t) ==
    \/ Lock(t) \/ Check(t) \/ SumReserved(t) \/ SumSettled(t) \/ Insert(t)
    \/ \E r \in Refs : SweepNext(t, r)
    \/ SweepDone(t) \/ Commit(t)

Next ==
    \/ \E t \in Txns :
        \/ \E r \in Refs, op \in Operations : Begin(t, op, r)
        \/ \E candidates \in SUBSET Refs : SweepScan(t, candidates)
        \/ Step(t)
        \/ Rollback(t)
        \/ DeadlockVictim(t)
    \/ TripHalt

Spec == Init /\ [][Next]_vars

(***************************************************************************)
(* A session keeps executing its statements; Postgres grants row locks in  *)
(* arrival order, so a session that asks again and again for a lock that   *)
(* keeps being freed gets it; the deadlock detector runs.                  *)
(***************************************************************************)
Fairness ==
    \A t \in Txns :
        /\ WF_vars(Step(t))
        /\ SF_vars(Lock(t))
        /\ WF_vars(DeadlockVictim(t))

FairSpec == Spec /\ Fairness

-----------------------------------------------------------------------------
TxnRecord ==
    [pc : ProgramCounters, op : Operations, ref : Refs \cup {None}, todo : SUBSET Refs,
     held : Int, pending : SUBSET (RefTypes \X Refs),
     net : [Mandates -> [Buckets -> Int]], ok : BOOLEAN]

\* Type invariant of the tables and of the sessions that use them.
TypeOK ==
    /\ posted \in [Refs -> [RefTypes -> Nat]]
    /\ balance \in [Mandates -> [Buckets -> Int]]
    /\ rowLock \in [Mandates -> Txns \cup {None}]
    /\ txn \in [Txns -> TxnRecord]
    /\ halted \in BOOLEAN

(***************************************************************************)
(* I-M4 (architecture.md, section 9.2), the point of G4's row lock: what a *)
(* mandate has reserved and settled never exceeds its max_total_minor,     *)
(* however reserve calls of different sessions interleave.                 *)
(***************************************************************************)
BudgetCap == \A m \in Mandates : committed_total(m) <= MaxTotal[m]

(***************************************************************************)
(* The reservation lifecycle of section 12.2 in the committed entries: a   *)
(* reference is reserved at most once and leaves HELD by exactly one of    *)
(* capture, release and expire; a reversal undoes a capture at most once.  *)
(* ledger_service.sweep: "silently skipped, never double-released".        *)
(***************************************************************************)
LegalHistory(entries) ==
    /\ entries["reservation"] <= 1
    /\ entries["capture"] + entries["release"] + entries["expire"] <= entries["reservation"]
    /\ entries["reverse"] <= entries["capture"]

ReservationLifecycle == \A r \in Refs : LegalHistory(posted[r])

(***************************************************************************)
(* What an operation answers is still true when its caller commits: a      *)
(* granted capture, release or reversal is in the entries, and a refused   *)
(* capture or reversal is not.  complete_purchase settles on True and      *)
(* refunds on False.  A granted reserve has its reservation in the entries *)
(* and a refused one has none; a replay is granted although the            *)
(* reservation may be closed by now, so True does not say that it is held. *)
(***************************************************************************)
WillHave(x, ty) == posted[x.ref][ty] > 0 \/ <<ty, x.ref>> \in x.pending
AnswerIsTrue(x) ==
    /\ x.op = "reserve" => x.ok = WillHave(x, "reservation")
    /\ x.op = "capture" => x.ok = (WillHave(x, "capture")
                        /\ ~WillHave(x, "release") /\ ~WillHave(x, "expire"))
    /\ x.op = "release" => (x.ok => WillHave(x, "release"))
    /\ x.op = "reverse" => x.ok = WillHave(x, "reverse")
AnswersAreTrue == \A t \in Txns : At(t, "return") => AnswerIsTrue(txn[t])

(***************************************************************************)
(* Every ledger operation ends: no session waits for a row lock forever,   *)
(* two sweeps that lock mandates in opposite orders included.              *)
(***************************************************************************)
EveryTxnEnds == \A t \in Txns : ~At(t, "idle") ~> At(t, "idle")

-----------------------------------------------------------------------------
(* The inductive invariant behind the theorems of LedgerProofs: the safety *)
(* properties, and what holds of a session t whose transaction is x.       *)

Working == {"lock", "check", "sumReserved", "sumSettled", "insert"}
Locked == {"check", "sumReserved", "sumSettled", "insert"}

\* A statement that reads or writes a reference, taken off the candidates,
\* runs under its mandate's lock.
HoldsRowLock(t, x) ==
    /\ x.pc \in Working => x.ref \in Refs /\ x.ref \notin x.todo
    /\ x.pc \in Locked => rowLock[MandateOf[x.ref]] = t

\* The entries posted so far allow one more pair of this type.
MayPost(entries, ty) ==
    /\ ty = "reservation" => \A other \in RefTypes : entries[other] = 0
    /\ ty = "reverse" => entries["capture"] = 1 /\ entries["reverse"] = 0
    /\ ty \in {"capture", "release", "expire"} =>
        /\ entries["reservation"] = 1
        /\ entries["capture"] = 0 /\ entries["release"] = 0 /\ entries["expire"] = 0

\* What a session is about to commit is still allowed, one type a reference.
PendingMayCommit(t, x) ==
    \A ty \in RefTypes, r \in Refs :
        <<ty, r>> \in x.pending =>
            /\ rowLock[MandateOf[r]] = t
            /\ MayPost(posted[r], ty)
            /\ \A other \in RefTypes : <<other, r>> \in x.pending => other = ty
            /\ r \notin x.todo
            /\ x.pc \in Working => r # x.ref

\* Double entry (model.py): the two entries of a movement sum to zero.
SumsToZero(bal) == bal["available"] + bal["reserved"] + bal["settled"] = 0

\* A session changes only balances it has locked, and stays within the cap.
NetWithinCap(t, x) ==
    \A m \in Mandates :
        /\ rowLock[m] # t => \A b \in Buckets : x.net[m][b] = 0
        /\ Committed(balance[m]) + Committed(x.net[m]) <= MaxTotal[m]
        /\ SumsToZero(x.net[m])
        /\ x.pc \in Working /\ x.op # "sweep" => \A b \in Buckets : x.net[m][b] = 0

\* What the statements of an operation have read so far is still so.
ReadsAreCurrent(x) ==
    /\ x.pc \in {"sumReserved", "sumSettled"} =>
        x.op = "reserve" /\ MayPost(posted[x.ref], "reservation")
    /\ x.pc = "sumSettled" => x.held = balance[MandateOf[x.ref]]["reserved"]
    /\ x.pc = "insert" =>
        /\ MayPost(posted[x.ref], PostsType(x.op))
        /\ x.op = "reserve" =>
            Committed(balance[MandateOf[x.ref]]) + AmountOf[x.ref] <= MaxTotal[MandateOf[x.ref]]
    /\ x.pc = "scan" => x.op = "sweep"

SessionOK(t, x) ==
    /\ HoldsRowLock(t, x)
    /\ PendingMayCommit(t, x)
    /\ NetWithinCap(t, x)
    /\ ReadsAreCurrent(x)

(***************************************************************************)
(* What a session read under a mandate's row lock still holds when it      *)
(* commits (the header of ledger_service.py).  BudgetCap and               *)
(* ReservationLifecycle are not inductive alone: a commit keeps them only  *)
(* because of it.                                                          *)
(***************************************************************************)
IndInv ==
    /\ TypeOK
    /\ BudgetCap
    /\ ReservationLifecycle
    /\ \A m \in Mandates : SumsToZero(balance[m])
    /\ \A t \in Txns : SessionOK(t, txn[t])

(***************************************************************************)
(* An answer stands because its session holds the mandate's lock until it  *)
(* commits, and has written nothing but what it answered.                  *)
(***************************************************************************)
AnswerStands(t, x) ==
    x.op # "sweep" =>
        IF x.pc = "return"
        THEN x.ref \in Refs /\ rowLock[MandateOf[x.ref]] = t /\ AnswerIsTrue(x)
        ELSE x.pending = {}
AnswersStand == \A t \in Txns : AnswerStands(t, txn[t])
=============================================================================
