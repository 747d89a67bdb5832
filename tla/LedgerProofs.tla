---------------------------- MODULE LedgerProofs ----------------------------
(***************************************************************************)
(* Proofs about Ledger, for every set of mandates, references and          *)
(* sessions, all amounts and all caps.                                     *)
(*                                                                         *)
(* The argument is the one ledger_service.py makes in its header: an       *)
(* operation reads a reference and its mandate's balances only under the   *)
(* mandate's row lock, and keeps the lock until it commits, so what it     *)
(* read is still so when it commits.  IndInv (module Ledger) says that.    *)
(***************************************************************************)
EXTENDS LedgerBudget, FiniteSetTheorems, TLAPS

\* The constants' types, one fact at a time.
LEMMA ConstantTypes ==
    /\ \A r \in Refs : MandateOf[r] \in Mandates /\ AmountOf[r] \in Nat
    /\ \A m \in Mandates : MaxTotal[m] \in Nat
    /\ None \notin Txns
    /\ None \notin Refs
BY ConstantsAssumption

\* A session between transactions is well typed and has touched nothing.
LEMMA IdleTxnType == IdleTxn \in TxnRecord
<1>1. ZeroBalance \in [Buckets -> Int]
    BY DEF ZeroBalance
<1>2. "idle" \in ProgramCounters /\ "reserve" \in Operations
    BY DEF ProgramCounters, Operations
<1> QED
    BY <1>1, <1>2 DEF IdleTxn, TxnRecord

\* A fresh transaction satisfies the session invariant whatever the tables
\* hold, as long as the caps are respected.
LEMMA FreshSession ==
    ASSUME TypeOK, BudgetCap, NEW t \in Txns, NEW x \in TxnRecord,
           x.pc \in {"idle", "lock", "scan"}, x.pending = {}, x.net = IdleTxn.net,
           x.pc = "lock" => x.ref \in Refs /\ x.ref \notin x.todo,
           x.pc = "scan" => x.op = "sweep"
    PROVE  SessionOK(t, x)
<1>1. \A m \in Mandates, b \in Buckets : x.net[m][b] = 0
    BY DEF IdleTxn, ZeroBalance
<1>2. HoldsRowLock(t, x)
    BY DEF HoldsRowLock, Working, Locked
<1>3. PendingMayCommit(t, x)
    BY DEF PendingMayCommit
<1>4. NetWithinCap(t, x)
    <2> SUFFICES ASSUME NEW m \in Mandates
                 PROVE  /\ Committed(balance[m]) + Committed(x.net[m]) <= MaxTotal[m]
                        /\ SumsToZero(x.net[m])
        BY <1>1 DEF NetWithinCap
    <2>1. x.net[m]["reserved"] = 0 /\ x.net[m]["settled"] = 0 /\ x.net[m]["available"] = 0
        BY <1>1 DEF Buckets
    <2>2. balance[m]["reserved"] \in Int /\ balance[m]["settled"] \in Int
        BY DEF TypeOK, Buckets
    <2>3. Committed(balance[m]) <= MaxTotal[m]
        BY DEF BudgetCap, committed_total
    <2> QED
        BY <2>1, <2>2, <2>3, ConstantTypes DEF Committed, SumsToZero
<1>5. ReadsAreCurrent(x)
    BY DEF ReadsAreCurrent
<1> QED
    BY <1>2, <1>3, <1>4, <1>5 DEF SessionOK

\* Initially nothing is posted and no session is in a transaction.
LEMMA InitIndInv == Init => IndInv
<1> SUFFICES ASSUME Init PROVE IndInv
    OBVIOUS
<1>1. \A m \in Mandates : /\ balance[m]["available"] = 0
                           /\ balance[m]["reserved"] = 0
                           /\ balance[m]["settled"] = 0
    BY DEF Init, ZeroBalance, Buckets
<1>2. TypeOK
    <2>1. ZeroBalance \in [Buckets -> Int] /\ NoEntries \in [RefTypes -> Nat]
        BY DEF ZeroBalance, NoEntries
    <2>2. txn \in [Txns -> TxnRecord]
        BY IdleTxnType DEF Init
    <2>3. halted \in BOOLEAN
        BY DEF Init
    <2> QED
        BY <2>1, <2>2, <2>3 DEF Init, TypeOK
<1>3. BudgetCap
    <2> SUFFICES ASSUME NEW m \in Mandates PROVE Committed(balance[m]) <= MaxTotal[m]
        BY DEF BudgetCap, committed_total
    <2> QED
        BY <1>1, ConstantTypes DEF Committed
<1>4. ReservationLifecycle
    BY DEF Init, ReservationLifecycle, LegalHistory, NoEntries, RefTypes
<1>5. ASSUME NEW m \in Mandates PROVE SumsToZero(balance[m])
    BY <1>1 DEF SumsToZero
<1>6. ASSUME NEW t \in Txns PROVE SessionOK(t, txn[t])
    <2>1. txn[t] = IdleTxn
        BY DEF Init
    <2>2. IdleTxn.pc = "idle" /\ IdleTxn.pending = {}
        BY DEF IdleTxn
    <2> QED
        BY <1>2, <1>3, <2>1, <2>2, IdleTxnType, FreshSession
<1> QED
    BY <1>2, <1>3, <1>4, <1>5, <1>6 DEF IndInv

-----------------------------------------------------------------------------
\* A step of one session that leaves the tables and the locks alone keeps the
\* invariant if the session's new transaction record satisfies it.
LEMMA LocalStep ==
    ASSUME IndInv, NEW t \in Txns, NEW x \in TxnRecord, SessionOK(t, x),
           txn' = [txn EXCEPT ![t] = x], UNCHANGED <<posted, balance, rowLock>>,
           halted' \in BOOLEAN
    PROVE  IndInv'
<1>1. TypeOK'
    BY DEF IndInv, TypeOK
<1>2. BudgetCap' /\ ReservationLifecycle'
    BY DEF IndInv, BudgetCap, committed_total, Committed, ReservationLifecycle, LegalHistory
<1>3. \A m \in Mandates : SumsToZero(balance'[m])
    BY DEF IndInv, SumsToZero
<1>4. ASSUME NEW u \in Txns PROVE SessionOK(u, txn[u])'
    <2>1. SessionOK(u, txn'[u])
        BY DEF IndInv, TypeOK
    <2> QED
        BY <2>1 DEF SessionOK, HoldsRowLock, PendingMayCommit, NetWithinCap, ReadsAreCurrent,
                    Committed, SumsToZero, MayPost
<1> QED
    BY <1>1, <1>2, <1>3, <1>4 DEF IndInv, SumsToZero

\* A session's record at a step is well typed and satisfies the invariant.
LEMMA SessionFacts ==
    ASSUME IndInv, NEW t \in Txns
    PROVE  /\ txn[t] \in TxnRecord
           /\ SessionOK(t, txn[t])
BY DEF IndInv, TypeOK

\* An operation that begins holds no row lock and has written nothing.
LEMMA BeginInv ==
    ASSUME IndInv, NEW t \in Txns, NEW op \in Operations, NEW r \in Refs, Begin(t, op, r)
    PROVE  IndInv'
<1> DEFINE x == [IdleTxn EXCEPT !.pc = "lock", !.op = op, !.ref = r]
<1>1. x \in TxnRecord
    BY IdleTxnType DEF TxnRecord, ProgramCounters
<1>2. x.pc = "lock" /\ x.ref = r /\ x.pending = {} /\ x.net = IdleTxn.net /\ x.todo = {}
    BY DEF IdleTxn
<1>3. SessionOK(t, x)
    <2> HIDE DEF x
    <2> QED
        BY <1>1, <1>2, FreshSession DEF IndInv
<1> QED
    <2> HIDE DEF x
    <2>1. txn' = [txn EXCEPT ![t] = x] /\ UNCHANGED <<posted, balance, rowLock, halted>>
        BY DEF Begin, x
    <2>2. halted' \in BOOLEAN
        BY <2>1 DEF IndInv, TypeOK
    <2> QED
        BY <1>1, <1>3, <2>1, <2>2, LocalStep

\* A sweep that begins holds no row lock and has written nothing.
LEMMA SweepScanInv ==
    ASSUME IndInv, NEW t \in Txns, NEW candidates \in SUBSET Refs, SweepScan(t, candidates)
    PROVE  IndInv'
<1> DEFINE x == [IdleTxn EXCEPT !.pc = "scan", !.op = "sweep", !.todo = candidates]
<1>1. x \in TxnRecord
    BY IdleTxnType DEF TxnRecord, ProgramCounters, Operations
<1>2. x.pc = "scan" /\ x.op = "sweep" /\ x.pending = {} /\ x.net = IdleTxn.net
    BY DEF IdleTxn
<1>3. SessionOK(t, x)
    <2> HIDE DEF x
    <2> QED
        BY <1>1, <1>2, FreshSession DEF IndInv
<1> QED
    <2> HIDE DEF x
    <2>1. txn' = [txn EXCEPT ![t] = x] /\ UNCHANGED <<posted, balance, rowLock, halted>>
        BY DEF SweepScan, x
    <2>2. halted' \in BOOLEAN
        BY <2>1 DEF IndInv, TypeOK
    <2> QED
        BY <1>1, <1>3, <2>1, <2>2, LocalStep

-----------------------------------------------------------------------------
\* Returning to the caller keeps what the session has pending.
LEMMA ReturnOK ==
    ASSUME IndInv, NEW t \in Txns, NEW ok \in BOOLEAN
    PROVE  Return(t, ok) \in TxnRecord /\ SessionOK(t, Return(t, ok))
<1> DEFINE x == Return(t, ok)
<1>1. x \in TxnRecord
    <2>1. "return" \in ProgramCounters /\ 0 \in Int
        BY DEF ProgramCounters
    <2>2. txn[t] \in TxnRecord
        BY SessionFacts
    <2> QED
        BY <2>1, <2>2, Zenon DEF Return, TxnRecord
<1>2. /\ x.pc = "return" /\ x.pending = txn[t].pending /\ x.net = txn[t].net
      /\ x.todo = txn[t].todo
    BY SessionFacts DEF Return, TxnRecord
<1>3. SessionOK(t, x)
    <2> HIDE DEF x
    <2>1. HoldsRowLock(t, x) /\ ReadsAreCurrent(x)
        BY <1>2 DEF HoldsRowLock, ReadsAreCurrent, Working, Locked
    <2>2. PendingMayCommit(t, x)
        BY <1>2, SessionFacts DEF SessionOK, PendingMayCommit, Working
    <2>3. NetWithinCap(t, x)
        BY <1>2, SessionFacts DEF SessionOK, NetWithinCap, Working
    <2> QED
        BY <2>1, <2>2, <2>3 DEF SessionOK
<1> QED
    BY <1>1, <1>3

\* Going on to the next statement under the lock keeps the invariant if what
\* that statement relies on holds.
LEMMA GoToOK ==
    ASSUME IndInv, NEW t \in Txns, txn[t].pc \in Locked,
           NEW pc \in {"sumReserved", "insert", "scan"},
           LET x == [txn[t] EXCEPT !.pc = pc] IN ReadsAreCurrent(x)
    PROVE  GoTo(t, pc) \in TxnRecord /\ SessionOK(t, GoTo(t, pc))
<1> DEFINE x == GoTo(t, pc)
<1>1. x \in TxnRecord
    BY SessionFacts DEF GoTo, TxnRecord, ProgramCounters
<1>2. /\ x.pc = pc /\ x.pending = txn[t].pending /\ x.net = txn[t].net
      /\ x.todo = txn[t].todo /\ x.ref = txn[t].ref /\ x.op = txn[t].op
    BY SessionFacts DEF GoTo, TxnRecord
<1>3. ReadsAreCurrent(x)
    BY DEF GoTo
<1>4. SessionOK(t, x)
    <2> HIDE DEF x
    <2>1. HoldsRowLock(t, x)
        BY <1>2, SessionFacts DEF SessionOK, HoldsRowLock, Working, Locked
    <2>2. PendingMayCommit(t, x)
        BY <1>2, SessionFacts DEF SessionOK, PendingMayCommit, Working, Locked
    <2>3. NetWithinCap(t, x)
        BY <1>2, SessionFacts DEF SessionOK, NetWithinCap, Working, Locked
    <2> QED
        BY <1>3, <2>1, <2>2, <2>3 DEF SessionOK
<1> QED
    BY <1>1, <1>4

\* The entries a session sees under the lock form a legal history.
LEMMA EntriesFacts ==
    ASSUME IndInv, NEW r \in Refs
    PROVE  /\ \A ty \in RefTypes : posted[r][ty] \in Nat
           /\ LegalHistory(posted[r])
BY DEF IndInv, TypeOK, ReservationLifecycle

\* A reservation that state_of calls HELD has been reserved and nothing else.
LEMMA HeldMayPost ==
    ASSUME IndInv, NEW r \in Refs, state_of(posted[r]) = "HELD",
           NEW ty \in {"capture", "release", "expire"}
    PROVE  MayPost(posted[r], ty)
<1>1. /\ posted[r]["reservation"] \in Nat /\ posted[r]["capture"] \in Nat
      /\ posted[r]["release"] \in Nat /\ posted[r]["expire"] \in Nat
    BY EntriesFacts DEF RefTypes
<1>2. ~(posted[r]["expire"] > 0) /\ ~(posted[r]["release"] > 0) /\ ~(posted[r]["capture"] > 0)
    BY DEF state_of
<1>3. posted[r]["reservation"] > 0
    BY <1>2 DEF state_of
<1>4. posted[r]["reservation"] = 1
    BY <1>1, <1>3, EntriesFacts DEF LegalHistory
<1> QED
    BY <1>1, <1>2, <1>4 DEF MayPost

-----------------------------------------------------------------------------
\* list_for_ref_id and what each operation makes of it.
LEMMA CheckInv ==
    ASSUME IndInv, NEW t \in Txns, Check(t)
    PROVE  IndInv'
<1> DEFINE r == Ref(t)
           x == txn'[t]
<1>1. txn[t] \in TxnRecord /\ txn[t].pc = "check" /\ r \in Refs /\ txn[t].pc \in Locked
    BY SessionFacts DEF Check, At, SessionOK, HoldsRowLock, Working, Locked, Ref
<1>2. \A pc \in ProgramCounters :
         LET y == [txn[t] EXCEPT !.pc = pc]
         IN  y.pc = pc /\ y.ref = r /\ y.op = Op(t) /\ y.held = txn[t].held
    BY <1>1 DEF TxnRecord, Ref, Op
<1>3. Op(t) \in Operations
    BY <1>1 DEF TxnRecord, Op
<1>4. \/ \E ok \in BOOLEAN : x = Return(t, ok)
      \/ x = GoTo(t, "insert") /\ Op(t) # "reserve" /\ MayPost(posted[r], PostsType(Op(t)))
      \/ x = GoTo(t, "sumReserved") /\ Op(t) = "reserve" /\ MayPost(posted[r], "reservation")
      \/ x = GoTo(t, "scan") /\ Op(t) = "sweep"
    <2> DEFINE e == posted[r]
    <2>1. CASE Op(t) = "reserve"
        <3>1. x = CheckReserve(t, e)
            BY <2>1 DEF Check, IndInv, TypeOK
        <3>2. ~Exists(e) => MayPost(e, "reservation")
            BY <1>1, EntriesFacts DEF Exists, MayPost
        <3> QED
            BY <2>1, <3>1, <3>2 DEF CheckReserve
    <2>2. CASE Op(t) = "capture"
        <3>1. x = CheckCapture(t, e)
            BY <2>2 DEF Check, IndInv, TypeOK
        <3> QED
            BY <1>1, <2>2, <3>1, HeldMayPost DEF CheckCapture, PostsType
    <2>3. CASE Op(t) = "release"
        <3>1. x = CheckRelease(t, e)
            BY <2>3 DEF Check, IndInv, TypeOK
        <3> QED
            BY <1>1, <2>3, <3>1, HeldMayPost DEF CheckRelease, PostsType
    <2>4. CASE Op(t) = "reverse"
        <3>1. x = CheckReverse(t, e)
            BY <2>4 DEF Check, IndInv, TypeOK
        <3>2. ~(e["reverse"] > 0) /\ e["capture"] > 0 => MayPost(e, "reverse")
            BY <1>1, EntriesFacts DEF MayPost, LegalHistory, RefTypes
        <3> QED
            BY <2>4, <3>1, <3>2 DEF CheckReverse, PostsType
    <2>5. CASE Op(t) = "sweep"
        <3>1. x = CheckSweep(t, e)
            BY <2>5 DEF Check, IndInv, TypeOK
        <3> QED
            BY <1>1, <2>5, <3>1, HeldMayPost DEF CheckSweep, PostsType
    <2> QED
        BY <1>3, <2>1, <2>2, <2>3, <2>4, <2>5 DEF Operations
<1>5. x \in TxnRecord /\ SessionOK(t, x)
    <2>1. CASE \E ok \in BOOLEAN : x = Return(t, ok)
        BY <2>1, ReturnOK
    <2>2. CASE x = GoTo(t, "insert") /\ Op(t) # "reserve" /\ MayPost(posted[r], PostsType(Op(t)))
        <3>1. ReadsAreCurrent([txn[t] EXCEPT !.pc = "insert"])
            BY <1>2, <2>2 DEF ReadsAreCurrent, ProgramCounters
        <3> QED
            BY <1>1, <2>2, <3>1, GoToOK
    <2>3. CASE x = GoTo(t, "sumReserved") /\ Op(t) = "reserve" /\ MayPost(posted[r], "reservation")
        <3>1. ReadsAreCurrent([txn[t] EXCEPT !.pc = "sumReserved"])
            BY <1>2, <2>3 DEF ReadsAreCurrent, ProgramCounters
        <3> QED
            BY <1>1, <2>3, <3>1, GoToOK
    <2>4. CASE x = GoTo(t, "scan") /\ Op(t) = "sweep"
        <3>1. ReadsAreCurrent([txn[t] EXCEPT !.pc = "scan"])
            BY <1>2, <2>4 DEF ReadsAreCurrent, ProgramCounters
        <3> QED
            BY <1>1, <2>4, <3>1, GoToOK
    <2> QED
        BY <1>4, <2>1, <2>2, <2>3, <2>4
<1>6. txn' = [txn EXCEPT ![t] = x]
    <2>1. PICK y : txn' = [txn EXCEPT ![t] = y]
        BY DEF Check
    <2>2. txn \in [Txns -> TxnRecord]
        BY DEF IndInv, TypeOK
    <2> QED
        BY <2>1, <2>2
<1>7. UNCHANGED <<posted, balance, rowLock, halted>> /\ halted \in BOOLEAN
    BY DEF Check, IndInv, TypeOK
<1> QED
    BY <1>5, <1>6, <1>7, LocalStep

\* reserve's balance queries.
LEMMA SumReservedInv ==
    ASSUME IndInv, NEW t \in Txns, SumReserved(t)
    PROVE  IndInv'
<1> DEFINE x == [txn[t] EXCEPT !.pc = "sumSettled", !.held = balance[Mandate(t)]["reserved"]]
<1>1. txn[t] \in TxnRecord /\ txn[t].pc = "sumReserved"
    BY SessionFacts DEF SumReserved, At
<1>2. txn[t].ref \in Refs /\ Mandate(t) \in Mandates
    BY <1>1, SessionFacts, ConstantTypes DEF SessionOK, HoldsRowLock, Working, Mandate
<1>3. balance[Mandate(t)]["reserved"] \in Int
    BY <1>2 DEF IndInv, TypeOK, Buckets
<1>4. x \in TxnRecord
    <2>1. "sumSettled" \in ProgramCounters
        BY DEF ProgramCounters
    <2> QED
        BY <1>1, <1>3, <2>1, Zenon DEF TxnRecord
<1>5. /\ x.pc = "sumSettled" /\ x.pending = txn[t].pending /\ x.net = txn[t].net
      /\ x.todo = txn[t].todo /\ x.ref = txn[t].ref /\ x.op = txn[t].op
      /\ x.held = balance[MandateOf[x.ref]]["reserved"]
    BY <1>1 DEF TxnRecord, Mandate
<1>6. SessionOK(t, x)
    <2> HIDE DEF x
    <2>1. HoldsRowLock(t, x)
        BY <1>1, <1>5, SessionFacts DEF SessionOK, HoldsRowLock, Working, Locked
    <2>2. PendingMayCommit(t, x)
        BY <1>1, <1>5, SessionFacts DEF SessionOK, PendingMayCommit, Working
    <2>3. NetWithinCap(t, x)
        BY <1>1, <1>5, SessionFacts DEF SessionOK, NetWithinCap, Working
    <2>4. ReadsAreCurrent(x)
        BY <1>1, <1>5, SessionFacts DEF SessionOK, ReadsAreCurrent
    <2> QED
        BY <2>1, <2>2, <2>3, <2>4 DEF SessionOK
<1>7. txn' = [txn EXCEPT ![t] = x]
    BY DEF SumReserved
<1>8. UNCHANGED <<posted, balance, rowLock, halted>> /\ halted \in BOOLEAN
    BY DEF SumReserved, IndInv, TypeOK
<1> QED
    <2> HIDE DEF x
    <2> QED
        BY <1>4, <1>6, <1>7, <1>8, LocalStep

\* The settled sum is read under the row lock, so the cap that is checked
\* on it still holds of the committed balances when the entries are posted.
LEMMA SumSettledInv ==
    ASSUME IndInv, NEW t \in Txns, SumSettled(t)
    PROVE  IndInv'
<1> DEFINE spent == balance[Mandate(t)]["settled"]
           x == IF WithinCap(t, spent) THEN GoTo(t, "insert") ELSE Return(t, FALSE)
<1>1. txn[t] \in TxnRecord /\ txn[t].pc = "sumSettled" /\ txn[t].pc \in Locked
    BY SessionFacts DEF SumSettled, At, Locked
<1>2. Ref(t) \in Refs /\ Mandate(t) = MandateOf[Ref(t)] /\ Op(t) = "reserve"
      /\ MayPost(posted[Ref(t)], "reservation")
      /\ txn[t].held = balance[Mandate(t)]["reserved"]
    BY <1>1, SessionFacts
       DEF SessionOK, HoldsRowLock, ReadsAreCurrent, Working, Mandate, Ref, Op
<1>3. ASSUME WithinCap(t, spent)
      PROVE  GoTo(t, "insert") \in TxnRecord /\ SessionOK(t, GoTo(t, "insert"))
    <2> DEFINE y == [txn[t] EXCEPT !.pc = "insert"]
    <2>1. y.pc = "insert" /\ y.ref = Ref(t) /\ y.op = Op(t)
        BY <1>1 DEF TxnRecord, Ref, Op
    <2>2. Committed(balance[Mandate(t)]) + AmountOf[Ref(t)] <= MaxTotal[Mandate(t)]
        BY <1>2, <1>3 DEF WithinCap, Committed
    <2>3. ReadsAreCurrent(y)
        <3> HIDE DEF y
        <3> QED
            BY <1>2, <2>1, <2>2 DEF ReadsAreCurrent, PostsType
    <2> QED
        BY <1>1, <1>3, <2>3, GoToOK
<1>4. Return(t, FALSE) \in TxnRecord /\ SessionOK(t, Return(t, FALSE))
    BY ReturnOK
<1>5. txn' = [txn EXCEPT ![t] = x]
    BY DEF SumSettled
<1>6. UNCHANGED <<posted, balance, rowLock, halted>> /\ halted \in BOOLEAN
    BY DEF SumSettled, IndInv, TypeOK
<1>7. x \in TxnRecord /\ SessionOK(t, x)
    BY <1>3, <1>4
<1> QED
    <2> HIDE DEF x
    <2> QED
        BY <1>5, <1>6, <1>7, LocalStep

-----------------------------------------------------------------------------
\* Posting a movement pair changes the committed share of a balance by the
\* amount for a reservation, and never raises it for the other types; the
\* buckets' sum does not change.
LEMMA MovementEffect ==
    ASSUME NEW bal \in [Buckets -> Int], NEW amount \in Nat, NEW ty \in RefTypes
    PROVE  LET new == net_balance(bal, MovementsOf(ty), amount)
           IN  /\ new \in [Buckets -> Int]
               /\ ty = "reservation" => Committed(new) = Committed(bal) + amount
               /\ ty # "reservation" => Committed(new) <= Committed(bal)
               /\ SumsToZero(bal) => SumsToZero(new)
<1> DEFINE new == net_balance(bal, MovementsOf(ty), amount)
<1> SUFFICES /\ new \in [Buckets -> Int]
             /\ ty = "reservation" => Committed(new) = Committed(bal) + amount
             /\ ty # "reservation" => Committed(new) <= Committed(bal)
             /\ SumsToZero(bal) => SumsToZero(new)
    OBVIOUS
<1>1. /\ bal["available"] \in Int /\ bal["reserved"] \in Int /\ bal["settled"] \in Int
    BY DEF Buckets
<1>2. new \in [Buckets -> Int]
    BY DEF net_balance
<1>3. ASSUME NEW b \in Buckets
      PROVE  new[b] = bal[b] + (IF b = MovementsOf(ty).debit THEN amount ELSE 0)
                             - (IF b = MovementsOf(ty).credit THEN amount ELSE 0)
    BY DEF net_balance
<1>4. /\ new["available"] = bal["available"]
             + (IF "available" = MovementsOf(ty).debit THEN amount ELSE 0)
             - (IF "available" = MovementsOf(ty).credit THEN amount ELSE 0)
      /\ new["reserved"] = bal["reserved"]
             + (IF "reserved" = MovementsOf(ty).debit THEN amount ELSE 0)
             - (IF "reserved" = MovementsOf(ty).credit THEN amount ELSE 0)
      /\ new["settled"] = bal["settled"]
             + (IF "settled" = MovementsOf(ty).debit THEN amount ELSE 0)
             - (IF "settled" = MovementsOf(ty).credit THEN amount ELSE 0)
    BY <1>3 DEF Buckets
<1> HIDE DEF new
<1>5. CASE ty = "reservation"
    <2>1. MovementsOf(ty).credit = "available" /\ MovementsOf(ty).debit = "reserved"
        BY <1>5 DEF MovementsOf, reserve_movements
    <2> QED
        BY <1>1, <1>2, <1>4, <1>5, <2>1 DEF Committed, SumsToZero
<1>6. CASE ty = "capture"
    <2>1. MovementsOf(ty).credit = "reserved" /\ MovementsOf(ty).debit = "settled"
        BY <1>6 DEF MovementsOf, capture_movements
    <2> QED
        BY <1>1, <1>2, <1>4, <1>6, <2>1 DEF Committed, SumsToZero
<1>7. CASE ty \in {"release", "expire"}
    <2>1. MovementsOf(ty).credit = "reserved" /\ MovementsOf(ty).debit = "available"
        BY <1>7 DEF MovementsOf, release_movements
    <2> QED
        BY <1>1, <1>2, <1>4, <1>7, <2>1 DEF Committed, SumsToZero
<1>8. CASE ty = "reverse"
    <2>1. MovementsOf(ty).credit = "settled" /\ MovementsOf(ty).debit = "available"
        BY <1>8 DEF MovementsOf, reverse_movements
    <2>2. /\ new["available"] = bal["available"] + amount
          /\ new["reserved"] = bal["reserved"]
          /\ new["settled"] = bal["settled"] - amount
        BY <1>1, <1>4, <2>1
    <2> QED
        BY <1>1, <1>2, <1>8, <2>2 DEF Committed, SumsToZero
<1> QED
    BY <1>5, <1>6, <1>7, <1>8 DEF RefTypes

\* _add_movements under the lock.
LEMMA InsertInv ==
    ASSUME IndInv, NEW t \in Txns, Insert(t)
    PROVE  IndInv'
<1> DEFINE ty == PostsType(Op(t))
           r == Ref(t)
           m == Mandate(t)
           old == txn[t].net[m]
           new == net_balance(old, MovementsOf(ty), AmountOf[r])
           x == Inserted(t, ty, m)
<1>1. txn[t] \in TxnRecord /\ txn[t].pc = "insert"
    BY SessionFacts DEF Insert, At
<1>2. r \in Refs /\ m \in Mandates /\ m = MandateOf[r] /\ rowLock[m] = t
      /\ AmountOf[r] \in Nat /\ r \notin txn[t].todo
    BY <1>1, SessionFacts, ConstantTypes
       DEF SessionOK, HoldsRowLock, Working, Locked, Mandate, Ref
<1>3. Op(t) \in Operations /\ ty \in RefTypes /\ (Op(t) = "reserve" <=> ty = "reservation")
    BY <1>1 DEF TxnRecord, Op, Operations, PostsType, RefTypes
<1>4. /\ MayPost(posted[r], ty)
      /\ Op(t) = "reserve" => Committed(balance[m]) + AmountOf[r] <= MaxTotal[m]
    BY <1>1, <1>2, SessionFacts DEF SessionOK, ReadsAreCurrent, Ref, Op
<1>5. old \in [Buckets -> Int]
    BY <1>1, <1>2 DEF TxnRecord
<1>6. /\ new \in [Buckets -> Int]
      /\ ty = "reservation" => Committed(new) = Committed(old) + AmountOf[r]
      /\ ty # "reservation" => Committed(new) <= Committed(old)
      /\ SumsToZero(old) => SumsToZero(new)
    BY <1>2, <1>3, <1>5, MovementEffect
<1>7. /\ x.pending = txn[t].pending \cup {<<ty, r>>}
      /\ x.net = [txn[t].net EXCEPT ![m] = new]
      /\ x.pc = (IF Op(t) = "sweep" THEN "scan" ELSE "return")
      /\ x.todo = txn[t].todo /\ x.ref = r /\ x.op = Op(t)
      /\ x.held = 0 /\ x.ok = TRUE
    <2>1. x.net = [txn[t].net EXCEPT ![m] = new]
        BY <1>1, Zenon DEF Inserted, TxnRecord
    <2>2. x.ref = r /\ x.op = Op(t)
        BY <1>1, Zenon DEF Inserted, TxnRecord, Ref, Op
    <2> QED
        BY <1>1, <2>1, <2>2, Zenon DEF Inserted, TxnRecord
<1>8. x \in TxnRecord
    <2>1. x.pc \in ProgramCounters
        BY <1>7 DEF ProgramCounters
    <2>2. x.net \in [Mandates -> [Buckets -> Int]]
        <3> HIDE DEF new
        <3> QED
            BY <1>1, <1>6, <1>7 DEF TxnRecord
    <2>3. x.pending \in SUBSET (RefTypes \X Refs)
        <3> HIDE DEF x, ty, r
        <3> QED
            BY <1>1, <1>2, <1>3, <1>7 DEF TxnRecord
    <2>4. x.held \in Int /\ x.ok \in BOOLEAN
        <3>1. 0 \in Int
            OBVIOUS
        <3> HIDE DEF x
        <3> QED
            BY <1>7, <3>1, Zenon
    <2>5. PICK p, n, pc, h, k :
             x = [txn[t] EXCEPT !.pending = p, !.net = n, !.pc = pc, !.held = h, !.ok = k]
        BY DEF Inserted
    <2>6. /\ x.pending = p /\ x.net = n /\ x.pc = pc /\ x.held = h /\ x.ok = k
        BY <1>1, <2>5, Zenon DEF TxnRecord
    <2> QED
        <3> HIDE DEF x
        <3> QED
            BY <1>1, <2>1, <2>2, <2>3, <2>4, <2>5, <2>6, Zenon DEF TxnRecord
<1>9. SessionOK(t, x)
    <2> HIDE DEF x, new, ty, r, m
    <2>1. HoldsRowLock(t, x)
        BY <1>7 DEF HoldsRowLock, Working, Locked
    <2>2. PendingMayCommit(t, x)
        BY <1>1, <1>2, <1>4, <1>7, SessionFacts
           DEF SessionOK, PendingMayCommit, Working, r, Ref
    <2>3. NetWithinCap(t, x)
        <3> SUFFICES ASSUME NEW n \in Mandates
                     PROVE  /\ rowLock[n] # t => \A b \in Buckets : x.net[n][b] = 0
                            /\ Committed(balance[n]) + Committed(x.net[n]) <= MaxTotal[n]
                            /\ SumsToZero(x.net[n])
            BY <1>7 DEF NetWithinCap, Working
        <3>1. CASE n # m
            <4>1. x.net[n] = txn[t].net[n]
                BY <1>1, <1>7, <3>1 DEF TxnRecord
            <4> QED
                BY <4>1, SessionFacts DEF SessionOK, NetWithinCap
        <3>2. CASE n = m
            <4>1. x.net[n] = new
                BY <1>1, <1>2, <1>7, <3>2 DEF TxnRecord
            <4>2. SumsToZero(new)
                BY <1>2, <1>6, SessionFacts DEF SessionOK, NetWithinCap
            <4>3. Committed(balance[m]) \in Int /\ Committed(old) \in Int
                  /\ Committed(new) \in Int /\ MaxTotal[m] \in Int
                BY <1>2, <1>5, <1>6, ConstantTypes DEF IndInv, TypeOK, Committed, Buckets
            <4>4. CASE ty = "reservation"
                <5>1. Op(t) = "reserve"
                    BY <1>3, <4>4
                <5>2. \A b \in Buckets : old[b] = 0
                    BY <1>1, <1>2, <5>1, SessionFacts
                       DEF SessionOK, NetWithinCap, Working, Op
                <5>3. Committed(old) = 0
                    BY <5>2 DEF Committed, Buckets
                <5> QED
                    BY <1>2, <1>4, <1>6, <3>2, <4>1, <4>2, <4>3, <4>4, <5>1, <5>3
            <4>5. CASE ty # "reservation"
                <5>1. Committed(balance[m]) + Committed(old) <= MaxTotal[m]
                    BY <1>2, SessionFacts DEF SessionOK, NetWithinCap
                <5> QED
                    BY <1>2, <1>6, <3>2, <4>1, <4>2, <4>3, <4>5, <5>1
            <4> QED
                BY <4>4, <4>5
        <3> QED
            BY <3>1, <3>2
    <2>4. ReadsAreCurrent(x)
        BY <1>7 DEF ReadsAreCurrent
    <2> QED
        BY <2>1, <2>2, <2>3, <2>4 DEF SessionOK
<1>10. txn' = [txn EXCEPT ![t] = x]
    BY DEF Insert
<1>11. UNCHANGED <<posted, balance, rowLock, halted>> /\ halted \in BOOLEAN
    BY DEF Insert, IndInv, TypeOK
<1> QED
    <2> HIDE DEF x
    <2> QED
        BY <1>8, <1>9, <1>10, <1>11, LocalStep

-----------------------------------------------------------------------------
\* sweep moves to its next candidate.
LEMMA SweepNextInv ==
    ASSUME IndInv, NEW t \in Txns, NEW r \in Refs, SweepNext(t, r)
    PROVE  IndInv'
<1> DEFINE x == [txn[t] EXCEPT !.todo = txn[t].todo \ {r}, !.ref = r,
                               !.pc = IF state_of(posted[r]) = "HELD" THEN "lock" ELSE "scan"]
<1>1. txn[t] \in TxnRecord /\ txn[t].pc = "scan" /\ r \in txn[t].todo
    BY SessionFacts DEF SweepNext, At
<1>2. /\ x.pc \in {"lock", "scan"} /\ x.ref = r /\ x.todo = txn[t].todo \ {r}
      /\ x.pending = txn[t].pending /\ x.net = txn[t].net /\ x.op = txn[t].op
    BY <1>1 DEF TxnRecord
<1>3. x \in TxnRecord
    <2>1. x.pc \in ProgramCounters
        BY <1>2 DEF ProgramCounters
    <2>2. x.ref \in Refs \cup {None} /\ x.todo \in SUBSET Refs
        BY <1>1, <1>2 DEF TxnRecord
    <2>3. /\ x.pc = (IF state_of(posted[r]) = "HELD" THEN "lock" ELSE "scan")
        BY <1>1 DEF TxnRecord
    <2> QED
        BY <1>1, <1>2, <2>1, <2>2, <2>3, Zenon DEF TxnRecord
<1>4. SessionOK(t, x)
    <2> HIDE DEF x
    <2>1. HoldsRowLock(t, x)
        BY <1>2 DEF HoldsRowLock, Working, Locked
    <2>2. PendingMayCommit(t, x)
        BY <1>1, <1>2, SessionFacts DEF SessionOK, PendingMayCommit, Working
    <2>3. x.op = "sweep"
        BY <1>1, <1>2, SessionFacts DEF SessionOK, ReadsAreCurrent
    <2>4. NetWithinCap(t, x)
        BY <1>2, <2>3, SessionFacts DEF SessionOK, NetWithinCap
    <2>5. ReadsAreCurrent(x)
        BY <1>2, <2>3 DEF ReadsAreCurrent
    <2> QED
        BY <2>1, <2>2, <2>4, <2>5 DEF SessionOK
<1>5. txn' = [txn EXCEPT ![t] = x]
    BY DEF SweepNext
<1>6. UNCHANGED <<posted, balance, rowLock, halted>> /\ halted \in BOOLEAN
    BY DEF SweepNext, IndInv, TypeOK
<1> QED
    <2> HIDE DEF x
    <2> QED
        BY <1>3, <1>4, <1>5, <1>6, LocalStep

\* The end of a sweep leaves what it has written, and its row locks.
LEMMA SweepDoneInv ==
    ASSUME IndInv, NEW t \in Txns, SweepDone(t)
    PROVE  IndInv'
<1>1. txn' = [txn EXCEPT ![t] = Return(t, TRUE)]
    BY DEF SweepDone
<1>2. UNCHANGED <<posted, balance, rowLock, halted>> /\ halted \in BOOLEAN
    BY DEF SweepDone, IndInv, TypeOK
<1>3. TRUE \in BOOLEAN
    OBVIOUS
<1> QED
    BY <1>1, <1>2, <1>3, ReturnOK, LocalStep

-----------------------------------------------------------------------------
\* Changing the locks and sessions only, in a way that keeps every session's
\* invariant, keeps the whole invariant.
LEMMA TablesUnchanged ==
    ASSUME IndInv, UNCHANGED <<posted, balance, halted>>,
           rowLock' \in [Mandates -> Txns \cup {None}],
           txn' \in [Txns -> TxnRecord],
           \A u \in Txns : SessionOK(u, txn[u])'
    PROVE  IndInv'
<1>1. TypeOK'
    BY DEF IndInv, TypeOK
<1>2. BudgetCap' /\ ReservationLifecycle'
    BY DEF IndInv, BudgetCap, committed_total, Committed, ReservationLifecycle, LegalHistory
<1>3. (\A m \in Mandates : SumsToZero(balance[m]))'
    BY DEF IndInv, SumsToZero
<1> QED
    BY <1>1, <1>2, <1>3 DEF IndInv

\* A session whose record, locks and locked rows a step leaves alone keeps its
\* invariant: nobody else can change what it read under a lock.
LEMMA OtherSession ==
    ASSUME IndInv, NEW u \in Txns, txn'[u] = txn[u],
           \A m \in Mandates : rowLock[m] = u <=> rowLock'[m] = u,
           \A m \in Mandates : rowLock[m] = u => balance'[m] = balance[m],
           \A m \in Mandates : Committed(balance'[m]) <= MaxTotal[m],
           \A m \in Mandates : Committed(balance'[m]) \in Int,
           \A r \in Refs : rowLock[MandateOf[r]] = u => posted'[r] = posted[r]
    PROVE  SessionOK(u, txn[u])'
<1> DEFINE x == txn[u]
<1>1. SessionOK(u, x) /\ x \in TxnRecord
    BY SessionFacts
<1>2. x.pc \in Locked => x.ref \in Refs /\ rowLock[MandateOf[x.ref]] = u
    BY <1>1 DEF SessionOK, HoldsRowLock, Working, Locked
<1>3. HoldsRowLock(u, txn[u])'
    BY <1>1, <1>2, ConstantTypes DEF SessionOK, HoldsRowLock, Working, Locked
<1>4. PendingMayCommit(u, txn[u])'
    <2> SUFFICES ASSUME NEW ty \in RefTypes, NEW r \in Refs, <<ty, r>> \in x.pending
                 PROVE  /\ rowLock'[MandateOf[r]] = u
                        /\ MayPost(posted'[r], ty)
                        /\ \A other \in RefTypes : <<other, r>> \in x.pending => other = ty
                        /\ r \notin x.todo
                        /\ x.pc \in Working => r # x.ref
        BY DEF PendingMayCommit, MayPost
    <2>1. /\ rowLock[MandateOf[r]] = u
          /\ MayPost(posted[r], ty)
          /\ \A other \in RefTypes : <<other, r>> \in x.pending => other = ty
          /\ r \notin x.todo
          /\ x.pc \in Working => r # x.ref
        BY <1>1 DEF SessionOK, PendingMayCommit
    <2> QED
        BY <2>1, ConstantTypes
<1>5. NetWithinCap(u, txn[u])'
    <2> SUFFICES ASSUME NEW m \in Mandates
                 PROVE  /\ rowLock'[m] # u => \A b \in Buckets : x.net[m][b] = 0
                        /\ Committed(balance'[m]) + Committed(x.net[m]) <= MaxTotal[m]
                        /\ SumsToZero(x.net[m])
                        /\ x.pc \in Working /\ x.op # "sweep" =>
                               \A b \in Buckets : x.net[m][b] = 0
        BY DEF NetWithinCap, Committed, SumsToZero
    <2>1. /\ rowLock[m] # u => \A b \in Buckets : x.net[m][b] = 0
          /\ Committed(balance[m]) + Committed(x.net[m]) <= MaxTotal[m]
          /\ SumsToZero(x.net[m])
          /\ x.pc \in Working /\ x.op # "sweep" => \A b \in Buckets : x.net[m][b] = 0
        BY <1>1 DEF SessionOK, NetWithinCap
    <2>2. CASE rowLock[m] = u
        BY <2>1, <2>2
    <2>3. CASE rowLock[m] # u
        <3>1. Committed(x.net[m]) = 0
            BY <2>1, <2>3 DEF Committed, Buckets
        <3>2. Committed(balance'[m]) \in Int /\ Committed(balance'[m]) <= MaxTotal[m]
            OBVIOUS
        <3>3. Committed(balance'[m]) + Committed(x.net[m]) <= MaxTotal[m]
            BY <3>1, <3>2
        <3> QED
            BY <2>1, <2>3, <3>3
    <2> QED
        BY <2>2, <2>3
<1>6. ReadsAreCurrent(txn[u])'
    <2>1. ReadsAreCurrent(x)
        BY <1>1 DEF SessionOK
    <2>2. x.pc \in Locked => posted'[x.ref] = posted[x.ref]
                          /\ balance'[MandateOf[x.ref]] = balance[MandateOf[x.ref]]
        BY <1>2, ConstantTypes
    <2> QED
        BY <2>1, <2>2 DEF ReadsAreCurrent, MayPost, Committed, Locked
<1> QED
    BY <1>3, <1>4, <1>5, <1>6 DEF SessionOK

\* A session that has just left its transaction satisfies the invariant.
LEMMA IdleSession ==
    ASSUME NEW t \in Txns, txn'[t] = IdleTxn,
           \A m \in Mandates : Committed(balance'[m]) <= MaxTotal[m],
           \A m \in Mandates : Committed(balance'[m]) \in Int
    PROVE  SessionOK(t, txn[t])'
<1>1. /\ txn'[t].pc = "idle" /\ txn'[t].pending = {}
      /\ \A m \in Mandates, b \in Buckets : txn'[t].net[m][b] = 0
    BY DEF IdleTxn, ZeroBalance
<1>2. HoldsRowLock(t, txn[t])' /\ PendingMayCommit(t, txn[t])' /\ ReadsAreCurrent(txn[t])'
    BY <1>1 DEF HoldsRowLock, PendingMayCommit, ReadsAreCurrent, Working, Locked
<1>3. NetWithinCap(t, txn[t])'
    <2> SUFFICES ASSUME NEW m \in Mandates
                 PROVE  /\ Committed(balance'[m]) + Committed(txn'[t].net[m]) <= MaxTotal[m]
                        /\ SumsToZero(txn'[t].net[m])
        BY <1>1 DEF NetWithinCap, Committed, SumsToZero
    <2>1. Committed(txn'[t].net[m]) = 0 /\ SumsToZero(txn'[t].net[m])
        BY <1>1 DEF Committed, SumsToZero, Buckets
    <2>2. Committed(balance'[m]) \in Int /\ Committed(balance'[m]) <= MaxTotal[m]
        OBVIOUS
    <2> QED
        BY <2>1, <2>2
<1> QED
    BY <1>2, <1>3 DEF SessionOK

\* What the caps say of the committed balances, as integers.
LEMMA CommittedFacts ==
    ASSUME IndInv, NEW m \in Mandates
    PROVE  Committed(balance[m]) \in Int /\ Committed(balance[m]) <= MaxTotal[m]
BY DEF IndInv, TypeOK, BudgetCap, committed_total, Committed, Buckets

\* A row lock is only taken when nobody else holds it.
LEMMA LockInv ==
    ASSUME IndInv, NEW t \in Txns, Lock(t)
    PROVE  IndInv'
<1> DEFINE m == Mandate(t)
<1>1. txn[t] \in TxnRecord /\ txn[t].pc = "lock"
    BY SessionFacts DEF Lock, At
<1>2. txn[t].ref \in Refs /\ m \in Mandates /\ m = MandateOf[txn[t].ref]
    BY <1>1, SessionFacts, ConstantTypes DEF SessionOK, HoldsRowLock, Working, Mandate
<1>3. /\ rowLock[m] \in {None, t}
      /\ rowLock' = [rowLock EXCEPT ![m] = t]
      /\ txn' = [txn EXCEPT ![t] = [txn[t] EXCEPT !.pc = "check"]]
      /\ UNCHANGED <<posted, balance, halted>>
    BY DEF Lock
<1>4. rowLock \in [Mandates -> Txns \cup {None}] /\ txn \in [Txns -> TxnRecord]
    BY DEF IndInv, TypeOK
<1>5. rowLock' \in [Mandates -> Txns \cup {None}]
    BY <1>3, <1>4
<1>6. [txn[t] EXCEPT !.pc = "check"] \in TxnRecord
    BY <1>1 DEF TxnRecord, ProgramCounters
<1>7. txn' \in [Txns -> TxnRecord]
    BY <1>3, <1>4, <1>6
<1>8. rowLock'[m] = t /\ \A n \in Mandates : n # m => rowLock'[n] = rowLock[n]
    BY <1>2, <1>3, <1>4
<1>9. ASSUME NEW u \in Txns PROVE SessionOK(u, txn[u])'
    <2>1. CASE u = t
        <3>1. /\ txn'[u].pc = "check" /\ txn'[u].ref = txn[t].ref /\ txn'[u].op = txn[t].op
              /\ txn'[u].todo = txn[t].todo /\ txn'[u].pending = txn[t].pending
              /\ txn'[u].net = txn[t].net
            BY <1>1, <1>3, <1>4, <2>1 DEF TxnRecord
        <3>2. HoldsRowLock(u, txn[u])'
            BY <1>1, <1>2, <1>8, <2>1, <3>1, SessionFacts
               DEF SessionOK, HoldsRowLock, Working, Locked
        <3>3. PendingMayCommit(u, txn[u])'
            BY <1>1, <1>3, <1>8, <2>1, <3>1, SessionFacts, ConstantTypes
               DEF SessionOK, PendingMayCommit, MayPost, Working
        <3>4. NetWithinCap(u, txn[u])'
            BY <1>1, <1>2, <1>3, <1>8, <2>1, <3>1, SessionFacts
               DEF SessionOK, NetWithinCap, Committed, SumsToZero, Working
        <3>5. ReadsAreCurrent(txn[u])'
            BY <3>1 DEF ReadsAreCurrent
        <3> QED
            BY <3>2, <3>3, <3>4, <3>5 DEF SessionOK
    <2>2. CASE u # t
        <3>1. txn'[u] = txn[u] /\ u # None
            BY <1>3, <1>4, <2>2, ConstantTypes
        <3>2. rowLock[m] # u
            BY <1>3, <2>2, <3>1
        <3>3. \A n \in Mandates : rowLock[n] = u <=> rowLock'[n] = u
            BY <1>8, <2>2, <3>2
        <3> QED
            BY <1>3, <3>1, <3>3, OtherSession, CommittedFacts
    <2> QED
        BY <2>1, <2>2
<1> QED
    BY <1>3, <1>5, <1>7, <1>9, TablesUnchanged

-----------------------------------------------------------------------------
\* Giving up the locks of a session disturbs no other session.
LEMMA UnlockedFacts ==
    ASSUME IndInv, NEW t \in Txns, rowLock' = Unlocked(t)
    PROVE  /\ rowLock' \in [Mandates -> Txns \cup {None}]
           /\ \A u \in Txns \ {t}, m \in Mandates : rowLock'[m] = u <=> rowLock[m] = u
BY ConstantTypes DEF IndInv, TypeOK, Unlocked

\* A rollback gives up the row locks with everything they protected.
LEMMA RollbackInv ==
    ASSUME IndInv, NEW t \in Txns, Rollback(t)
    PROVE  IndInv'
<1>1. /\ rowLock' = Unlocked(t) /\ txn' = [txn EXCEPT ![t] = IdleTxn]
      /\ posted' = posted /\ balance' = balance /\ halted' = halted
    BY DEF Rollback
<1>2. txn \in [Txns -> TxnRecord]
    BY DEF IndInv, TypeOK
<1>3. txn' \in [Txns -> TxnRecord]
    BY <1>1, <1>2, IdleTxnType
<1>4. ASSUME NEW u \in Txns PROVE SessionOK(u, txn[u])'
    <2>1. CASE u = t
        BY <1>1, <1>2, <2>1, IdleSession, CommittedFacts
    <2>2. CASE u # t
        BY <1>1, <1>2, <2>2, OtherSession, CommittedFacts, UnlockedFacts
    <2> QED
        BY <2>1, <2>2
<1> QED
    BY <1>1, <1>3, <1>4, UnlockedFacts, TablesUnchanged

\* Adding what a session may post to a legal history gives a legal history.
LEMMA CommitKeepsHistory ==
    ASSUME IndInv, NEW t \in Txns, NEW r \in Refs, NEW new \in [RefTypes -> Nat],
           \A ty \in RefTypes :
               new[ty] = posted[r][ty] + (IF <<ty, r>> \in txn[t].pending THEN 1 ELSE 0)
    PROVE  LegalHistory(new)
<1> DEFINE old == posted[r]
<1>1. LegalHistory(old) /\ \A ty \in RefTypes : old[ty] \in Nat
    BY EntriesFacts
<1>2. CASE \A ty \in RefTypes : <<ty, r>> \notin txn[t].pending
    <2>1. ASSUME NEW ty \in RefTypes PROVE new[ty] = old[ty]
        <3>1. new[ty] = old[ty] + (IF <<ty, r>> \in txn[t].pending THEN 1 ELSE 0)
            OBVIOUS
        <3>2. old[ty] \in Nat /\ <<ty, r>> \notin txn[t].pending
            BY <1>1, <1>2
        <3> QED
            BY <3>1, <3>2
    <2>2. /\ new["reservation"] = old["reservation"] /\ new["capture"] = old["capture"]
          /\ new["release"] = old["release"] /\ new["expire"] = old["expire"]
          /\ new["reverse"] = old["reverse"]
        BY <2>1 DEF RefTypes
    <2> QED
        BY <1>1, <2>2 DEF LegalHistory
<1>3. CASE \E ty \in RefTypes : <<ty, r>> \in txn[t].pending
    <2>1. PICK ty \in RefTypes : <<ty, r>> \in txn[t].pending
        BY <1>3
    <2>2. MayPost(old, ty) /\ \A other \in RefTypes : <<other, r>> \in txn[t].pending => other = ty
        BY <2>1, SessionFacts DEF SessionOK, PendingMayCommit
    <2>3. ASSUME NEW other \in RefTypes
          PROVE  new[other] = old[other] + (IF other = ty THEN 1 ELSE 0)
        BY <2>1, <2>2
    <2> HIDE DEF old
    <2>4. /\ new["reservation"] = old["reservation"] + (IF "reservation" = ty THEN 1 ELSE 0)
          /\ new["capture"] = old["capture"] + (IF "capture" = ty THEN 1 ELSE 0)
          /\ new["release"] = old["release"] + (IF "release" = ty THEN 1 ELSE 0)
          /\ new["expire"] = old["expire"] + (IF "expire" = ty THEN 1 ELSE 0)
          /\ new["reverse"] = old["reverse"] + (IF "reverse" = ty THEN 1 ELSE 0)
        BY <2>3 DEF RefTypes
    <2>5. /\ old["reservation"] \in Nat /\ old["capture"] \in Nat /\ old["release"] \in Nat
          /\ old["expire"] \in Nat /\ old["reverse"] \in Nat
        BY <1>1 DEF RefTypes
    <2>6. CASE ty = "reservation"
        <3>1. /\ old["reservation"] = 0 /\ old["capture"] = 0 /\ old["release"] = 0
              /\ old["expire"] = 0 /\ old["reverse"] = 0
            BY <2>2, <2>6 DEF MayPost, RefTypes
        <3> QED
            BY <2>4, <2>6, <3>1 DEF LegalHistory
    <2>7. CASE ty = "reverse"
        <3>1. old["capture"] = 1 /\ old["reverse"] = 0
            BY <2>2, <2>7 DEF MayPost
        <3> QED
            BY <1>1, <2>4, <2>5, <2>7, <3>1 DEF LegalHistory
    <2>8. CASE ty \in {"capture", "release", "expire"}
        <3>1. /\ old["reservation"] = 1 /\ old["capture"] = 0 /\ old["release"] = 0
              /\ old["expire"] = 0
            BY <2>2, <2>8 DEF MayPost
        <3>2. old["reverse"] = 0
            BY <1>1, <2>5, <3>1 DEF LegalHistory
        <3> QED
            BY <2>4, <2>8, <3>1, <3>2 DEF LegalHistory
    <2> QED
        BY <2>6, <2>7, <2>8 DEF RefTypes
<1> QED
    BY <1>2, <1>3

\* A commit touches only rows the session has locked, and keeps the caps.
LEMMA CommitInv ==
    ASSUME IndInv, NEW t \in Txns, Commit(t)
    PROVE  IndInv'
<1>1. /\ rowLock' = Unlocked(t) /\ txn' = [txn EXCEPT ![t] = IdleTxn] /\ halted' = halted
      /\ posted' = [r \in Refs |-> [ty \in RefTypes |->
             posted[r][ty] + (IF <<ty, r>> \in txn[t].pending THEN 1 ELSE 0)]]
      /\ balance' = [m \in Mandates |-> [b \in Buckets |-> balance[m][b] + txn[t].net[m][b]]]
    BY DEF Commit
<1>2. txn \in [Txns -> TxnRecord] /\ halted \in BOOLEAN
      /\ posted \in [Refs -> [RefTypes -> Nat]] /\ balance \in [Mandates -> [Buckets -> Int]]
    BY DEF IndInv, TypeOK
<1>3. txn[t].net \in [Mandates -> [Buckets -> Int]]
    BY <1>2 DEF TxnRecord
<1>4. posted' \in [Refs -> [RefTypes -> Nat]]
    BY <1>1, <1>2
<1>5. balance' \in [Mandates -> [Buckets -> Int]]
    BY <1>1, <1>2, <1>3
<1>6. TypeOK'
    BY <1>1, <1>2, <1>4, <1>5, IdleTxnType, UnlockedFacts DEF TypeOK
<1>7. ReservationLifecycle'
    <2> SUFFICES ASSUME NEW r \in Refs PROVE LegalHistory(posted'[r])
        BY DEF ReservationLifecycle, LegalHistory
    <2>1. posted'[r] \in [RefTypes -> Nat]
        BY <1>4
    <2>2. \A ty \in RefTypes : posted'[r][ty] =
              posted[r][ty] + (IF <<ty, r>> \in txn[t].pending THEN 1 ELSE 0)
        BY <1>1
    <2> QED
        BY <2>1, <2>2, CommitKeepsHistory
<1>8. ASSUME NEW m \in Mandates
      PROVE  /\ Committed(balance'[m]) \in Int
             /\ Committed(balance'[m]) <= MaxTotal[m]
             /\ SumsToZero(balance'[m])
    <2>1. /\ balance'[m]["available"] = balance[m]["available"] + txn[t].net[m]["available"]
          /\ balance'[m]["reserved"] = balance[m]["reserved"] + txn[t].net[m]["reserved"]
          /\ balance'[m]["settled"] = balance[m]["settled"] + txn[t].net[m]["settled"]
        BY <1>1 DEF Buckets
    <2>2. /\ balance[m]["available"] \in Int /\ balance[m]["reserved"] \in Int
          /\ balance[m]["settled"] \in Int /\ txn[t].net[m]["available"] \in Int
          /\ txn[t].net[m]["reserved"] \in Int /\ txn[t].net[m]["settled"] \in Int
        BY <1>2, <1>3 DEF Buckets
    <2>3. /\ Committed(balance[m]) + Committed(txn[t].net[m]) <= MaxTotal[m]
          /\ SumsToZero(txn[t].net[m])
        BY SessionFacts DEF SessionOK, NetWithinCap
    <2>4. SumsToZero(balance[m]) /\ MaxTotal[m] \in Int
        BY ConstantTypes DEF IndInv
    <2> QED
        BY <2>1, <2>2, <2>3, <2>4 DEF Committed, SumsToZero
<1>9. ASSUME NEW u \in Txns PROVE SessionOK(u, txn[u])'
    <2>1. CASE u = t
        <3>1. txn'[u] = IdleTxn
            BY <1>1, <1>2, <2>1
        <3> QED
            BY <1>8, <3>1, IdleSession
    <2>2. CASE u # t
        <3>1. txn'[u] = txn[u]
            BY <1>1, <1>2, <2>2
        <3>2. \A m \in Mandates : rowLock[m] = u <=> rowLock'[m] = u
            BY <1>1, <2>2, UnlockedFacts
        <3>3. ASSUME NEW m \in Mandates, rowLock[m] = u PROVE balance'[m] = balance[m]
            <4>1. \A b \in Buckets : txn[t].net[m][b] = 0
                BY <2>2, <3>3, SessionFacts DEF SessionOK, NetWithinCap
            <4>2. balance'[m] = [b \in Buckets |-> balance[m][b] + txn[t].net[m][b]]
                BY <1>1
            <4>3. balance[m] \in [Buckets -> Int]
                BY <1>2
            <4>4. ASSUME NEW b \in Buckets PROVE balance'[m][b] = balance[m][b]
                <5>1. balance[m][b] \in Int /\ txn[t].net[m][b] = 0
                    BY <4>1, <4>3
                <5>2. balance'[m][b] = balance[m][b] + txn[t].net[m][b]
                    BY <4>2
                <5> QED
                    BY <5>1, <5>2
            <4>5. balance'[m] \in [Buckets -> Int]
                BY <1>5
            <4> QED
                BY <4>3, <4>4, <4>5
        <3>4. ASSUME NEW r \in Refs, rowLock[MandateOf[r]] = u PROVE posted'[r] = posted[r]
            <4>1. \A ty \in RefTypes : <<ty, r>> \notin txn[t].pending
                BY <2>2, <3>4, SessionFacts DEF SessionOK, PendingMayCommit
            <4>2. posted'[r] = [ty \in RefTypes |->
                      posted[r][ty] + (IF <<ty, r>> \in txn[t].pending THEN 1 ELSE 0)]
                BY <1>1
            <4>3. posted[r] \in [RefTypes -> Nat] /\ posted'[r] \in [RefTypes -> Nat]
                BY <1>2, <1>4
            <4>4. ASSUME NEW ty \in RefTypes PROVE posted'[r][ty] = posted[r][ty]
                <5>1. posted[r][ty] \in Nat /\ <<ty, r>> \notin txn[t].pending
                    BY <4>1, <4>3
                <5>2. posted'[r][ty] =
                          posted[r][ty] + (IF <<ty, r>> \in txn[t].pending THEN 1 ELSE 0)
                    BY <4>2
                <5> QED
                    BY <5>1, <5>2
            <4> QED
                BY <4>3, <4>4
        <3> QED
            BY <1>8, <3>1, <3>2, <3>3, <3>4, OtherSession
    <2> QED
        BY <2>1, <2>2
<1>10. BudgetCap' /\ (\A m \in Mandates : SumsToZero(balance[m]))'
    BY <1>8 DEF BudgetCap, committed_total, Committed, SumsToZero
<1> QED
    BY <1>6, <1>7, <1>9, <1>10 DEF IndInv

-----------------------------------------------------------------------------
\* Every step keeps the inductive invariant.
LEMMA NextIndInv == IndInv /\ [Next]_vars => IndInv'
<1> SUFFICES ASSUME IndInv, [Next]_vars PROVE IndInv'
    OBVIOUS
<1>1. ASSUME NEW t \in Txns, NEW r \in Refs, NEW op \in Operations, Begin(t, op, r)
      PROVE  IndInv'
    BY <1>1, BeginInv
<1>2. ASSUME NEW t \in Txns, NEW candidates \in SUBSET Refs, SweepScan(t, candidates)
      PROVE  IndInv'
    BY <1>2, SweepScanInv
<1>3. ASSUME NEW t \in Txns, Step(t) PROVE IndInv'
    BY <1>3, LockInv, CheckInv, SumReservedInv, SumSettledInv, InsertInv, SweepNextInv,
       SweepDoneInv, CommitInv DEF Step
<1>4. ASSUME NEW t \in Txns, Rollback(t) \/ DeadlockVictim(t) PROVE IndInv'
    BY <1>4, RollbackInv DEF DeadlockVictim
<1>5. CASE TripHalt \/ UNCHANGED vars
    <2>1. UNCHANGED <<posted, balance, rowLock, txn>>
        BY <1>5 DEF TripHalt, vars
    <2>2. TypeOK'
        <3>1. halted' \in BOOLEAN
            BY <1>5 DEF TripHalt, vars, IndInv, TypeOK
        <3> QED
            BY <2>1, <3>1 DEF IndInv, TypeOK
    <2>3. BudgetCap' /\ ReservationLifecycle' /\ (\A m \in Mandates : SumsToZero(balance[m]))'
        BY <2>1 DEF IndInv, BudgetCap, committed_total, Committed, ReservationLifecycle,
                    LegalHistory, SumsToZero
    <2>4. ASSUME NEW u \in Txns PROVE SessionOK(u, txn[u])'
        BY <2>1, OtherSession, CommittedFacts
    <2> QED
        BY <2>2, <2>3, <2>4 DEF IndInv
<1> QED
    BY <1>1, <1>2, <1>3, <1>4, <1>5 DEF Next

\* IndInv is an invariant of the ledger.
THEOREM Invariance == Spec => []IndInv
BY InitIndInv, NextIndInv, PTL DEF Spec

(***************************************************************************)
(* The tables and sessions are always well typed.                          *)
(***************************************************************************)
THEOREM TypeCorrect == Spec => []TypeOK
<1>1. IndInv => TypeOK
    BY DEF IndInv
<1> QED
    BY <1>1, Invariance, PTL

(***************************************************************************)
(* I-M4: reservations plus settlements of a mandate never exceed its cap,  *)
(* for any number of concurrent sessions.                                  *)
(***************************************************************************)
THEOREM BudgetNeverExceeded == Spec => []BudgetCap
<1>1. IndInv => BudgetCap
    BY DEF IndInv
<1> QED
    BY <1>1, Invariance, PTL

(***************************************************************************)
(* Section 12.2: a reservation leaves HELD at most once, whatever races    *)
(* between capture, release, reversal and the sweeper.                     *)
(***************************************************************************)
THEOREM LifecycleRespected == Spec => []ReservationLifecycle
<1>1. IndInv => ReservationLifecycle
    BY DEF IndInv
<1> QED
    BY <1>1, Invariance, PTL

-----------------------------------------------------------------------------
(* What an operation answers.                                              *)

\* A step of session t leaves the answers of the others as they were, when it
\* posts nothing they have locked and takes no lock of theirs.
LEMMA OtherAnswers ==
    ASSUME IndInv, AnswersStand, NEW t \in Txns, NEW x, txn' = [txn EXCEPT ![t] = x],
           \A u \in Txns, r \in Refs : u # t /\ rowLock[MandateOf[r]] = u =>
               rowLock'[MandateOf[r]] = u /\ posted'[r] = posted[r],
           AnswerStands(t, x)'
    PROVE  AnswersStand'
<1>1. txn'[t] = x /\ \A u \in Txns : u # t => txn'[u] = txn[u]
    BY DEF IndInv, TypeOK
<1>2. ASSUME NEW u \in Txns PROVE AnswerStands(u, txn[u])'
    <2>1. CASE u = t
        BY <1>1, <2>1 DEF AnswerStands, AnswerIsTrue, WillHave
    <2>2. CASE u # t
        <3>1. PICK y : y = txn[u] /\ y = txn'[u] /\ AnswerStands(u, y)
            BY <1>1, <2>2 DEF AnswersStand
        <3>2. AnswerStands(u, y)'
            <4>1. CASE y.op # "sweep" /\ y.pc = "return"
                <5>1. y.ref \in Refs /\ rowLock[MandateOf[y.ref]] = u /\ AnswerIsTrue(y)
                    BY <3>1, <4>1 DEF AnswerStands
                <5>2. rowLock'[MandateOf[y.ref]] = u /\ posted'[y.ref] = posted[y.ref]
                    BY <2>2, <5>1
                <5>3. AnswerIsTrue(y)'
                    BY <5>1, <5>2 DEF AnswerIsTrue, WillHave
                <5> QED
                    BY <4>1, <5>1, <5>2, <5>3 DEF AnswerStands
            <4>2. CASE ~ (y.op # "sweep" /\ y.pc = "return")
                BY <3>1, <4>2 DEF AnswerStands
            <4> QED
                BY <4>1, <4>2
        <3> QED
            BY <3>1, <3>2 DEF AnswerStands, AnswerIsTrue, WillHave
    <2> QED
        BY <2>1, <2>2
<1> QED
    BY <1>2 DEF AnswersStand

\* A step that only changes its session's record.
LEMMA OwnAnswer ==
    ASSUME IndInv, AnswersStand, NEW t \in Txns, NEW x, txn' = [txn EXCEPT ![t] = x],
           UNCHANGED <<posted, rowLock>>, AnswerStands(t, x)
    PROVE  AnswersStand'
<1>1. AnswerStands(t, x)'
    BY DEF AnswerStands, AnswerIsTrue, WillHave
<1> QED
    BY <1>1, OtherAnswers

\* An operation that has not returned.
LEMMA NoAnswerYet ==
    ASSUME NEW t, NEW x, x.pc # "return", x.op # "sweep" => x.pending = {}
    PROVE  AnswerStands(t, x)
BY DEF AnswerStands

\* A session that ends leaves no answer, and the others their locks.
LEMMA EndAnswer ==
    ASSUME IndInv, AnswersStand, NEW t \in Txns, rowLock' = Unlocked(t),
           txn' = [txn EXCEPT ![t] = IdleTxn],
           \A u \in Txns, r \in Refs : u # t /\ rowLock[MandateOf[r]] = u =>
               posted'[r] = posted[r]
    PROVE  AnswersStand'
<1>1. IdleTxn.pc # "return" /\ IdleTxn.pending = {}
    BY DEF IdleTxn
<1>2. AnswerStands(t, IdleTxn)'
    BY <1>1 DEF AnswerStands, IdleTxn
<1>3. ASSUME NEW u \in Txns, NEW r \in Refs, u # t, rowLock[MandateOf[r]] = u
      PROVE  rowLock'[MandateOf[r]] = u
    BY <1>3, UnlockedFacts, ConstantTypes
<1> QED
    BY <1>2, <1>3, OtherAnswers

\* The record a session returns with.
LEMMA ReturnFields ==
    ASSUME IndInv, NEW t \in Txns, NEW ok \in BOOLEAN, NEW x, x = Return(t, ok)
    PROVE  /\ x.pc = "return" /\ x.ok = ok /\ x.pending = txn[t].pending
           /\ x.ref = txn[t].ref /\ x.op = txn[t].op
BY SessionFacts DEF Return, TxnRecord

\* The record a session goes on with.
LEMMA GoToFields ==
    ASSUME IndInv, NEW t \in Txns, NEW pc \in ProgramCounters, NEW x, x = GoTo(t, pc)
    PROVE  x.pc = pc /\ x.pending = txn[t].pending /\ x.op = txn[t].op
BY SessionFacts DEF GoTo, TxnRecord

\* Going on leaves nothing written.
LEMMA GoToStands ==
    ASSUME IndInv, AnswersStand, NEW t \in Txns, txn[t].pc # "return",
           NEW pc \in ProgramCounters \ {"return"}, NEW x, x = GoTo(t, pc)
    PROVE  AnswerStands(t, x)
<1>1. x.pc = pc /\ x.pending = txn[t].pending /\ x.op = txn[t].op
    BY GoToFields
<1>2. txn[t].op # "sweep" => txn[t].pending = {}
    BY DEF AnswersStand, AnswerStands
<1> QED
    BY <1>1, <1>2, NoAnswerYet

\* An operation returns, under the lock, what the entries say.
LEMMA ReturnStands ==
    ASSUME IndInv, AnswersStand, NEW t \in Txns, txn[t].pc \in Locked, NEW ok \in BOOLEAN,
           NEW e, e = posted[txn[t].ref],
           txn[t].op = "reserve" => (ok <=> e["reservation"] > 0),
           txn[t].op = "capture" =>
               (ok <=> e["capture"] > 0 /\ ~ e["release"] > 0 /\ ~ e["expire"] > 0),
           txn[t].op = "release" => (ok => e["release"] > 0),
           txn[t].op = "reverse" => (ok <=> e["reverse"] > 0),
           NEW x, x = Return(t, ok)
    PROVE  AnswerStands(t, x)
<1>1. /\ x.pc = "return" /\ x.ok = ok /\ x.pending = txn[t].pending
      /\ x.ref = txn[t].ref /\ x.op = txn[t].op
    BY ReturnFields
<1>2. x.op # "sweep" => x.pending = {}
    BY <1>1 DEF AnswersStand, AnswerStands, Locked
<1>3. x.ref \in Refs /\ rowLock[MandateOf[x.ref]] = t
    BY <1>1, SessionFacts DEF SessionOK, HoldsRowLock, Locked, Working
<1>4. CASE x.op # "sweep"
    <2>1. \A ty : WillHave(x, ty) = (e[ty] > 0)
        BY <1>1, <1>2, <1>4 DEF WillHave
    <2>2. txn[t].op = "capture" =>
              ok = (e["capture"] > 0 /\ ~ e["release"] > 0 /\ ~ e["expire"] > 0)
        OBVIOUS
    <2>3. txn[t].op = "reverse" => ok = (e["reverse"] > 0)
        OBVIOUS
    <2>4. txn[t].op = "reserve" => ok = (e["reservation"] > 0)
        OBVIOUS
    <2>5. AnswerIsTrue(x)
        BY <1>1, <2>1, <2>2, <2>3, <2>4, Zenon DEF AnswerIsTrue
    <2> QED
        BY <1>3, <1>1, <2>5 DEF AnswerStands
<1> QED
    BY <1>4 DEF AnswerStands

\* Each operation's look at the entries.
LEMMA CheckAnswers ==
    ASSUME IndInv, AnswersStand, NEW t \in Txns, Check(t)
    PROVE  AnswersStand'
<1> DEFINE e == posted[txn[t].ref]
<1>1. txn[t] \in TxnRecord /\ txn[t].pc = "check" /\ txn[t].pc \in Locked /\ txn[t].pc # "return"
    BY SessionFacts DEF Check, At, Locked
<1>2. txn[t].op \in Operations
    BY <1>1 DEF TxnRecord
<1>3. PICK x : /\ txn' = [txn EXCEPT ![t] = x]
               /\ x = CASE Op(t) = "reserve" -> CheckReserve(t, e)
                        [] Op(t) = "capture" -> CheckCapture(t, e)
                        [] Op(t) = "release" -> CheckRelease(t, e)
                        [] Op(t) = "reverse" -> CheckReverse(t, e)
                        [] Op(t) = "sweep"   -> CheckSweep(t, e)
    BY DEF Check, Ref
<1> SUFFICES AnswerStands(t, x)
    BY <1>3, OwnAnswer DEF Check
<1>4. {"sumReserved", "insert", "scan"} \subseteq ProgramCounters \ {"return"}
    BY DEF ProgramCounters
<1>5. ASSUME NEW pc \in {"sumReserved", "insert", "scan"}, x = GoTo(t, pc)
      PROVE  AnswerStands(t, x)
    BY <1>1, <1>4, <1>5, GoToStands
<1>6. CASE txn[t].op = "reserve"
    <2>1. x = CheckReserve(t, e)
        BY <1>3, <1>6 DEF Op
    <2>2. CASE Exists(e)
        <3>1. txn[t].ref \in Refs
            BY <1>1, SessionFacts DEF SessionOK, HoldsRowLock, Working
        <3>2. e \in [RefTypes -> Nat] /\ LegalHistory(e)
            BY <3>1 DEF IndInv, TypeOK, ReservationLifecycle
        <3>3. e["reservation"] > 0
            BY <2>2, <3>2 DEF Exists, LegalHistory, RefTypes
        <3>4. x = Return(t, TRUE)
            BY <2>1, <2>2 DEF CheckReserve
        <3> QED
            BY <1>1, <1>6, <3>3, <3>4, ReturnStands
    <2>3. CASE ~ Exists(e)
        <3>1. x = GoTo(t, "sumReserved")
            BY <2>1, <2>3 DEF CheckReserve
        <3> QED
            BY <1>5, <3>1
    <2> QED
        BY <2>2, <2>3
<1>7. CASE txn[t].op = "capture"
    <2>1. x = CheckCapture(t, e)
        BY <1>3, <1>7 DEF Op
    <2>2. CASE state_of(e) = "CAPTURED"
        <3>1. e["capture"] > 0 /\ ~ e["release"] > 0 /\ ~ e["expire"] > 0
            BY <2>2 DEF state_of
        <3>2. x = Return(t, TRUE)
            BY <2>1, <2>2 DEF CheckCapture
        <3> QED
            BY <1>1, <1>7, <3>1, <3>2, ReturnStands
    <2>3. CASE state_of(e) = "HELD"
        <3>1. x = GoTo(t, "insert")
            BY <2>1, <2>3 DEF CheckCapture
        <3> QED
            BY <1>5, <3>1
    <2>4. CASE state_of(e) # "CAPTURED" /\ state_of(e) # "HELD"
        <3>1. ~ (e["capture"] > 0 /\ ~ e["release"] > 0 /\ ~ e["expire"] > 0)
            BY <2>4 DEF state_of
        <3>2. x = Return(t, FALSE)
            BY <2>1, <2>4 DEF CheckCapture
        <3> QED
            BY <1>1, <1>7, <3>1, <3>2, ReturnStands
    <2> QED
        BY <2>2, <2>3, <2>4
<1>8. CASE txn[t].op = "release"
    <2>1. x = CheckRelease(t, e)
        BY <1>3, <1>8 DEF Op
    <2>2. CASE state_of(e) = "RELEASED"
        <3>1. e["release"] > 0
            BY <2>2 DEF state_of
        <3>2. x = Return(t, TRUE)
            BY <2>1, <2>2 DEF CheckRelease
        <3> QED
            BY <1>1, <1>8, <3>1, <3>2, ReturnStands
    <2>3. CASE state_of(e) = "HELD"
        <3>1. x = GoTo(t, "insert")
            BY <2>1, <2>3 DEF CheckRelease
        <3> QED
            BY <1>5, <3>1
    <2>4. CASE state_of(e) # "RELEASED" /\ state_of(e) # "HELD"
        <3>1. x = Return(t, FALSE)
            BY <2>1, <2>4 DEF CheckRelease
        <3> QED
            BY <1>1, <1>8, <3>1, ReturnStands
    <2> QED
        BY <2>2, <2>3, <2>4
<1>9. CASE txn[t].op = "reverse"
    <2>1. x = CheckReverse(t, e)
        BY <1>3, <1>9 DEF Op
    <2>2. CASE e["reverse"] > 0
        <3>1. x = Return(t, TRUE)
            BY <2>1, <2>2 DEF CheckReverse
        <3> QED
            BY <1>1, <1>9, <2>2, <3>1, ReturnStands
    <2>3. CASE ~ e["reverse"] > 0 /\ e["capture"] > 0
        <3>1. x = GoTo(t, "insert")
            BY <2>1, <2>3 DEF CheckReverse
        <3> QED
            BY <1>5, <3>1
    <2>4. CASE ~ e["reverse"] > 0 /\ ~ e["capture"] > 0
        <3>1. x = Return(t, FALSE)
            BY <2>1, <2>4 DEF CheckReverse
        <3> QED
            BY <1>1, <1>9, <2>4, <3>1, ReturnStands
    <2> QED
        BY <2>2, <2>3, <2>4
<1>10. CASE txn[t].op = "sweep"
    <2>1. x = CheckSweep(t, e)
        BY <1>3, <1>10 DEF Op
    <2> QED
        BY <1>5, <2>1 DEF CheckSweep
<1> QED
    BY <1>2, <1>6, <1>7, <1>8, <1>9, <1>10 DEF Operations

\* reserve's queries and its cap: a reference that is refused has no entries.
LEMMA SumAnswers ==
    ASSUME IndInv, AnswersStand, NEW t \in Txns, SumReserved(t) \/ SumSettled(t)
    PROVE  AnswersStand'
<1>1. /\ txn[t].pc \in {"sumReserved", "sumSettled"} /\ txn[t].pc \in Locked
      /\ txn[t].op = "reserve" /\ txn[t].pending = {} /\ txn[t] \in TxnRecord
    <2>1. txn[t].pc \in {"sumReserved", "sumSettled"} /\ txn[t].pc \in Locked
        BY DEF SumReserved, SumSettled, At, Locked
    <2>2. txn[t].op = "reserve"
        BY <2>1, SessionFacts DEF SessionOK, ReadsAreCurrent
    <2> QED
        BY <2>1, <2>2, SessionFacts DEF AnswersStand, AnswerStands
<1>2. CASE SumReserved(t)
    <2>1. PICK held : held = balance[Mandate(t)]["reserved"]
        OBVIOUS
    <2>2. PICK x : x = [txn[t] EXCEPT !.pc = "sumSettled", !.held = held]
        OBVIOUS
    <2>3. x.pc = "sumSettled" /\ x.pending = {} /\ x.op = "reserve"
        BY <1>1, <2>2 DEF TxnRecord
    <2>4. txn' = [txn EXCEPT ![t] = x] /\ UNCHANGED <<posted, rowLock>>
        BY <1>2, <2>1, <2>2 DEF SumReserved
    <2> QED
        BY <2>3, <2>4, NoAnswerYet, OwnAnswer
<1>3. CASE SumSettled(t)
    <2>1. PICK x : /\ txn' = [txn EXCEPT ![t] = x]
                   /\ x = GoTo(t, "insert") \/ x = Return(t, FALSE)
        BY <1>3 DEF SumSettled
    <2>2. UNCHANGED <<posted, rowLock>>
        BY <1>3 DEF SumSettled
    <2>3. CASE x = GoTo(t, "insert")
        <3>1. "insert" \in ProgramCounters \ {"return"}
            BY DEF ProgramCounters
        <3>2. AnswerStands(t, x)
            BY <1>1, <2>3, <3>1, GoToStands
        <3> QED
            BY <2>1, <2>2, <3>2, OwnAnswer
    <2>4. CASE x = Return(t, FALSE)
        <3>1. ~ posted[txn[t].ref]["reservation"] > 0
            BY <1>1, SessionFacts DEF SessionOK, ReadsAreCurrent, MayPost, RefTypes
        <3>2. AnswerStands(t, x)
            BY <1>1, <2>4, <3>1, ReturnStands
        <3> QED
            BY <2>1, <2>2, <3>2, OwnAnswer
    <2> QED
        BY <2>1, <2>3, <2>4
<1> QED
    BY <1>2, <1>3

\* The pair that is written is what the operation answers.
LEMMA InsertAnswers ==
    ASSUME IndInv, AnswersStand, NEW t \in Txns, Insert(t)
    PROVE  AnswersStand'
<1>1. PICK ty : ty = PostsType(Op(t))
    OBVIOUS
<1>2. PICK x : x = Inserted(t, ty, Mandate(t))
    OBVIOUS
<1>3. txn[t] \in TxnRecord /\ txn[t].pc = "insert" /\ txn[t].pc \in Locked
    BY SessionFacts DEF Insert, At, Locked
<1>4. /\ x.pending = txn[t].pending \cup {<<ty, Ref(t)>>}
      /\ x.pc = (IF Op(t) = "sweep" THEN "scan" ELSE "return")
      /\ x.ref = Ref(t) /\ x.op = Op(t) /\ x.ok = TRUE
    <2>1. x.ref = Ref(t) /\ x.op = Op(t)
        BY <1>2, <1>3, Zenon DEF Inserted, TxnRecord, Ref, Op
    <2> QED
        BY <1>2, <1>3, <2>1, Zenon DEF Inserted, TxnRecord
<1>5. PICK r \in Refs : r = txn[t].ref /\ rowLock[MandateOf[r]] = t /\ MayPost(posted[r], ty)
    BY <1>1, <1>3, SessionFacts DEF SessionOK, HoldsRowLock, ReadsAreCurrent, Working, Locked, Op
<1>6. AnswerStands(t, x)
    <2> SUFFICES ASSUME x.op # "sweep" PROVE AnswerStands(t, x)
        BY DEF AnswerStands
    <2>1. txn[t].pending = {}
        BY <1>3, <1>4 DEF AnswersStand, AnswerStands, Op
    <2>2. x.pc = "return" /\ x.ref = r /\ x.pending = {<<ty, r>>}
        BY <1>4, <1>5, <2>1 DEF Ref
    <2>3. ASSUME x.op = "capture"
          PROVE  WillHave(x, "capture") /\ ~ WillHave(x, "release") /\ ~ WillHave(x, "expire")
        <3>1. ty = "capture"
            BY <1>1, <1>4, <2>3 DEF PostsType
        <3>2. posted[r]["release"] = 0 /\ posted[r]["expire"] = 0
            BY <1>5, <3>1 DEF MayPost
        <3> QED
            BY <2>2, <3>1, <3>2 DEF WillHave
    <2>4. ASSUME x.op \in {"reserve", "release", "reverse"} PROVE WillHave(x, PostsType(x.op))
        <3>1. ty = PostsType(x.op)
            BY <1>1, <1>4
        <3> QED
            BY <2>2, <3>1 DEF WillHave
    <2>5. AnswerIsTrue(x)
        <3>1. x.op = "capture" => TRUE = (WillHave(x, "capture")
                                /\ ~WillHave(x, "release") /\ ~WillHave(x, "expire"))
            BY <2>3
        <3>2. x.op = "reverse" => WillHave(x, "reverse") = TRUE
            BY <2>4 DEF PostsType, WillHave
        <3>3. x.op = "release" => WillHave(x, "release")
            BY <2>4 DEF PostsType
        <3>4. x.op = "reserve" => WillHave(x, "reservation") = TRUE
            BY <2>4 DEF PostsType, WillHave
        <3> QED
            BY <1>4, <3>1, <3>2, <3>3, <3>4, Zenon DEF AnswerIsTrue
    <2> QED
        BY <1>5, <2>2, <2>5 DEF AnswerStands
<1>7. txn' = [txn EXCEPT ![t] = x] /\ UNCHANGED <<posted, rowLock>>
    BY <1>1, <1>2 DEF Insert
<1> QED
    BY <1>6, <1>7, OwnAnswer

\* Entering an operation, and the sweep.
LEMMA BeginAnswers ==
    ASSUME IndInv, AnswersStand, NEW t \in Txns,
           \/ \E op \in Operations, r \in Refs : Begin(t, op, r)
           \/ \E candidates \in SUBSET Refs : SweepScan(t, candidates)
           \/ \E r \in Refs : SweepNext(t, r)
           \/ SweepDone(t)
    PROVE  AnswersStand'
<1>1. ASSUME NEW op \in Operations, NEW r \in Refs, Begin(t, op, r) PROVE AnswersStand'
    <2>1. PICK x : x = [IdleTxn EXCEPT !.pc = "lock", !.op = op, !.ref = r]
        OBVIOUS
    <2>2. x.pc = "lock" /\ x.pending = {}
        BY <2>1 DEF IdleTxn
    <2>3. txn' = [txn EXCEPT ![t] = x] /\ UNCHANGED <<posted, rowLock>>
        BY <1>1, <2>1 DEF Begin
    <2> QED
        BY <2>2, <2>3, NoAnswerYet, OwnAnswer
<1>2. ASSUME NEW x, x.op = "sweep", txn' = [txn EXCEPT ![t] = x], UNCHANGED <<posted, rowLock>>
      PROVE  AnswersStand'
    <2>1. AnswerStands(t, x)
        BY <1>2 DEF AnswerStands
    <2> QED
        BY <1>2, <2>1, OwnAnswer
<1>3. ASSUME NEW candidates \in SUBSET Refs, SweepScan(t, candidates) PROVE AnswersStand'
    <2>1. PICK x : x = [IdleTxn EXCEPT !.pc = "scan", !.op = "sweep", !.todo = candidates]
        OBVIOUS
    <2>2. x.op = "sweep"
        BY <2>1 DEF IdleTxn
    <2>3. txn' = [txn EXCEPT ![t] = x] /\ UNCHANGED <<posted, rowLock>>
        BY <1>3, <2>1 DEF SweepScan
    <2> QED
        BY <1>2, <2>2, <2>3
<1>4. ASSUME At(t, "scan") PROVE txn[t].op = "sweep" /\ txn[t] \in TxnRecord
    BY <1>4, SessionFacts DEF At, SessionOK, ReadsAreCurrent
<1>5. ASSUME NEW r \in Refs, SweepNext(t, r) PROVE AnswersStand'
    <2>1. PICK pc : pc = IF state_of(posted[r]) = "HELD" THEN "lock" ELSE "scan"
        OBVIOUS
    <2>2. PICK x : x = [txn[t] EXCEPT !.todo = txn[t].todo \ {r}, !.ref = r, !.pc = pc]
        OBVIOUS
    <2>3. x.op = "sweep"
        BY <1>4, <1>5, <2>2 DEF SweepNext, TxnRecord
    <2>4. txn' = [txn EXCEPT ![t] = x] /\ UNCHANGED <<posted, rowLock>>
        BY <1>5, <2>1, <2>2 DEF SweepNext
    <2> QED
        BY <1>2, <2>3, <2>4
<1>6. ASSUME SweepDone(t) PROVE AnswersStand'
    <2>1. PICK x : x = Return(t, TRUE)
        OBVIOUS
    <2>2. x.op = "sweep"
        BY <1>4, <1>6, <2>1, ReturnFields DEF SweepDone
    <2>3. txn' = [txn EXCEPT ![t] = x] /\ UNCHANGED <<posted, rowLock>>
        BY <1>6, <2>1 DEF SweepDone
    <2> QED
        BY <1>2, <2>2, <2>3
<1> QED
    BY <1>1, <1>3, <1>5, <1>6

\* get_for_update takes a lock no answer stands on.
LEMMA LockAnswers ==
    ASSUME IndInv, AnswersStand, NEW t \in Txns, Lock(t)
    PROVE  AnswersStand'
<1>1. PICK x : x = [txn[t] EXCEPT !.pc = "check"]
    OBVIOUS
<1>2. /\ txn[t].pc = "lock" /\ rowLock[Mandate(t)] \in {None, t} /\ posted' = posted
      /\ rowLock' = [rowLock EXCEPT ![Mandate(t)] = t] /\ txn' = [txn EXCEPT ![t] = x]
    BY <1>1 DEF Lock, At
<1>3. x.pc = "check" /\ x.op = txn[t].op /\ x.pending = txn[t].pending
    BY <1>1, SessionFacts DEF TxnRecord
<1>4. AnswerStands(t, x)'
    BY <1>2, <1>3 DEF AnswersStand, AnswerStands
<1>5. ASSUME NEW u \in Txns, NEW r \in Refs, u # t, rowLock[MandateOf[r]] = u
      PROVE  rowLock'[MandateOf[r]] = u /\ posted'[r] = posted[r]
    <2>1. MandateOf[r] # Mandate(t)
        BY <1>2, <1>5, ConstantTypes
    <2> QED
        BY <1>2, <1>5, <2>1, ConstantTypes DEF IndInv, TypeOK
<1> QED
    BY <1>2, <1>4, <1>5, OtherAnswers

\* A commit posts only what its own session had locked.
LEMMA CommitAnswers ==
    ASSUME IndInv, AnswersStand, NEW t \in Txns, Commit(t)
    PROVE  AnswersStand'
<1>1. /\ rowLock' = Unlocked(t) /\ txn' = [txn EXCEPT ![t] = IdleTxn]
      /\ posted' = [r \in Refs |-> [ty \in RefTypes |->
             posted[r][ty] + (IF <<ty, r>> \in txn[t].pending THEN 1 ELSE 0)]]
    BY DEF Commit
<1>2. ASSUME NEW u \in Txns, NEW r \in Refs, u # t, rowLock[MandateOf[r]] = u
      PROVE  posted'[r] = posted[r]
    <2>1. \A ty \in RefTypes : <<ty, r>> \notin txn[t].pending
        BY <1>2, SessionFacts DEF SessionOK, PendingMayCommit
    <2>2. posted[r] \in [RefTypes -> Nat]
        BY DEF IndInv, TypeOK
    <2>3. posted'[r] = [ty \in RefTypes |-> posted[r][ty]]
        BY <1>1, <2>1, <2>2
    <2> QED
        BY <2>2, <2>3
<1> QED
    BY <1>1, <1>2, EndAnswer

\* Every step leaves the answers standing.
LEMMA NextAnswers == IndInv /\ AnswersStand /\ [Next]_vars => AnswersStand'
<1> SUFFICES ASSUME IndInv, AnswersStand, [Next]_vars PROVE AnswersStand'
    OBVIOUS
<1>1. ASSUME NEW t \in Txns, NEW r \in Refs, NEW op \in Operations, Begin(t, op, r)
      PROVE  AnswersStand'
    BY <1>1, BeginAnswers
<1>2. ASSUME NEW t \in Txns, NEW candidates \in SUBSET Refs, SweepScan(t, candidates)
      PROVE  AnswersStand'
    BY <1>2, BeginAnswers
<1>3. ASSUME NEW t \in Txns, Step(t) PROVE AnswersStand'
    BY <1>3, LockAnswers, CheckAnswers, SumAnswers, InsertAnswers, BeginAnswers, CommitAnswers
       DEF Step
<1>4. ASSUME NEW t \in Txns, Rollback(t) \/ DeadlockVictim(t) PROVE AnswersStand'
    BY <1>4, EndAnswer DEF DeadlockVictim, Rollback
<1>5. CASE TripHalt \/ UNCHANGED vars
    BY <1>5 DEF TripHalt, vars, AnswersStand, AnswerStands, AnswerIsTrue, WillHave
<1> QED
    BY <1>1, <1>2, <1>3, <1>4, <1>5 DEF Next

(***************************************************************************)
(* What capture, release and reverse_settlement answer is still true when  *)
(* the caller commits, for any number of sessions: complete_purchase       *)
(* settles or refunds on it.                                               *)
(***************************************************************************)
THEOREM AnswersStandAtCommit == Spec => []AnswersAreTrue
<1>1. Init => AnswersStand
    BY DEF Init, AnswersStand, AnswerStands, IdleTxn
<1>2. AnswersStand /\ IndInv => AnswersAreTrue
    BY SessionFacts DEF AnswersStand, AnswerStands, AnswersAreTrue, AnswerIsTrue, At
<1> QED
    BY <1>1, <1>2, NextAnswers, Invariance, PTL DEF Spec

(***************************************************************************)
(* The ledger implements the abstract budget, for finitely many references.*)
(*                                                                         *)
(* The argument: sums over sets of references (Amount) are what one        *)
(* expects; a session's net balances are the sums of what it has pending   *)
(* (NetIsPending), so a commit keeps each balance equal to the sum of the  *)
(* references in its state (BooksMatchStates); hence the cap that was      *)
(* checked on balances is the cap on live reservations.                    *)
(***************************************************************************)
-----------------------------------------------------------------------------
(* Sums.                                                                   *)

\* Among sets of references there is one that contains no other of them.
LEMMA Smallest ==
    ASSUME NEW Bad, Bad \subseteq SUBSET Refs, Bad # {}
    PROVE  \E s \in Bad : \A u \in Bad : u \subseteq s => u = s
<1> DEFINE R == StrictSubsetOrdering(Refs)
<1>1. IsWellFoundedOn(R, SUBSET Refs)
    BY RefsAreFinite, FS_FiniteSubsetsOfFinite, FS_StrictSubsetOrderingWellFounded
<1>2. \A u, s \in SUBSET Refs : u \subseteq s /\ u # s => <<u, s>> \in R
    BY DEF StrictSubsetOrdering
<1> HIDE DEF R
<1>3. PICK s \in Bad : \A u \in Bad : ~ (<<u, s>> \in R)
    BY <1>1, WFMin
<1> QED
    BY <1>2, <1>3

\* The sums of the subsets of S, as the fold computes them.
Pick(s) == CHOOSE x \in s : TRUE
SumOf(f, s) == IF s = {} THEN 0 ELSE AmountOf[Pick(s)] + f[s \ {Pick(s)}]
IsSum(f, S) == f = [s \in SUBSET S |-> SumOf(f, s)]

\* What Amount is, by the definition of the fold.
LEMMA AmountIs ==
    ASSUME NEW S
    PROVE  Amount(S) = (CHOOSE f : IsSum(f, S))[S]
BY Zenon DEF Amount, MapThenSumSet, MapThenFoldSet, IsSum, SumOf, Pick

\* A set that is not empty holds what is picked from it.
LEMMA PickIn ==
    ASSUME NEW s, s # {}
    PROVE  Pick(s) \in s
BY DEF Pick

\* Sums of the subsets of S include the amount of each.
LEMMA AmountFromSum ==
    ASSUME NEW S, S \subseteq Refs, NEW g, IsSum(g, S), NEW s, s \subseteq S
    PROVE  Amount(s) = g[s]
<1>1. \A u \in SUBSET S : g[u] = SumOf(g, u)
    BY DEF IsSum
<1>2. PICK k : k = [u \in SUBSET s |-> g[u]]
    OBVIOUS
<1>3. IsSum(k, s)
    <2>1. ASSUME NEW u \in SUBSET s PROVE k[u] = SumOf(k, u)
        <3>1. CASE u = {}
            BY <1>1, <1>2, <3>1 DEF SumOf
        <3>2. CASE u # {}
            <4>1. u \ {Pick(u)} \in SUBSET s
                OBVIOUS
            <4> QED
                BY <1>1, <1>2, <3>2, <4>1 DEF SumOf
        <3> QED
            BY <3>1, <3>2
    <2> QED
        BY <1>2, <2>1 DEF IsSum
<1>4. PICK h : h = CHOOSE f : IsSum(f, s)
    OBVIOUS
<1>5. IsSum(h, s)
    BY <1>3, <1>4, Zenon
<1>6. \A u \in SUBSET s : h[u] = SumOf(h, u)
    BY <1>5 DEF IsSum
<1> DEFINE Bad == {u \in SUBSET s : h[u] # g[u]}
<1>7. Bad = {}
    <2> SUFFICES ASSUME Bad # {} PROVE FALSE
        OBVIOUS
    <2>1. PICK u \in Bad : \A v \in Bad : v \subseteq u => v = u
        <3>1. Bad \subseteq SUBSET Refs
            OBVIOUS
        <3> HIDE DEF Bad
        <3> QED
            BY <3>1, Smallest
    <2>2. u \in SUBSET s /\ u \in SUBSET S /\ h[u] # g[u]
        OBVIOUS
    <2>3. CASE u = {}
        BY <1>1, <1>6, <2>2, <2>3 DEF SumOf
    <2>4. CASE u # {}
        <3>1. PICK v : v = u \ {Pick(u)}
            OBVIOUS
        <3>2. v \subseteq u /\ v # u /\ v \in SUBSET s
            BY <2>2, <2>4, <3>1, PickIn
        <3>3. h[v] = g[v]
            BY <2>1, <3>2
        <3>4. h[u] = AmountOf[Pick(u)] + h[v] /\ g[u] = AmountOf[Pick(u)] + g[v]
            BY <1>1, <1>6, <2>2, <2>4, <3>1 DEF SumOf
        <3> QED
            BY <2>2, <3>3, <3>4
    <2> QED
        BY <2>3, <2>4
<1>8. h[s] = g[s]
    BY <1>7
<1> QED
    BY <1>4, <1>8, AmountIs

\* There are sums of the subsets of any set of references.
LEMMA SumExists ==
    ASSUME NEW S, S \subseteq Refs
    PROVE  \E f : IsSum(f, S)
<1> DEFINE Bad == {u \in SUBSET Refs : ~ \E f : IsSum(f, u)}
<1> SUFFICES ASSUME Bad # {} PROVE FALSE
    OBVIOUS
<1>1. PICK s \in Bad : \A u \in Bad : u \subseteq s => u = s
    <2>1. Bad \subseteq SUBSET Refs
        OBVIOUS
    <2> HIDE DEF Bad
    <2> QED
        BY <2>1, Smallest
<1>2. s \subseteq Refs /\ ~ \E f : IsSum(f, s)
    BY <1>1
<1>3. ASSUME NEW u, u \subseteq s, u # s PROVE \E f : IsSum(f, u)
    <2>1. u \notin Bad /\ u \in SUBSET Refs
        <3> HIDE DEF Bad
        <3> QED
            BY <1>1, <1>2, <1>3
    <2> QED
        BY <2>1
<1>4. PICK k : k = [u \in SUBSET s |-> IF u = s /\ s # {} THEN AmountOf[Pick(s)] + Amount(s \ {Pick(s)})
                                      ELSE IF u = {} THEN 0 ELSE Amount(u)]
    OBVIOUS
<1>5. ASSUME NEW u \in SUBSET s, u # s, s # {} PROVE k[u] = Amount(u) /\ Amount({}) = 0
    <2>1. PICK g : IsSum(g, {})
        BY <1>3, <1>5
    <2>2. g[{}] = 0
        BY <2>1 DEF IsSum, SumOf
    <2>3. Amount({}) = 0
        BY <2>1, <2>2, AmountFromSum
    <2> QED
        BY <1>4, <1>5, <2>3
<1>6. ASSUME NEW u \in SUBSET s PROVE k[u] = SumOf(k, u)
    <2>1. CASE u = {}
        BY <1>4, <2>1 DEF SumOf
    <2>2. CASE u # {} /\ u = s
        <3>1. s \ {Pick(s)} \in SUBSET s /\ s \ {Pick(s)} # s
            BY <2>2, PickIn
        <3>2. k[s \ {Pick(s)}] = Amount(s \ {Pick(s)})
            BY <1>5, <2>2, <3>1
        <3> QED
            BY <1>4, <2>2, <3>2 DEF SumOf
    <2>3. CASE u # {} /\ u # s
        <3>1. PICK g : IsSum(g, u)
            BY <1>3, <2>3
        <3>2. PICK v : v = u \ {Pick(u)}
            OBVIOUS
        <3>3. v \subseteq u /\ v \in SUBSET s /\ v # s /\ s # {}
            BY <2>3, <3>2
        <3>4. Amount(u) = g[u] /\ Amount(v) = g[v]
            BY <1>2, <3>1, <3>3, AmountFromSum
        <3>5. g[u] = AmountOf[Pick(u)] + g[v]
            BY <2>3, <3>1, <3>2 DEF IsSum, SumOf
        <3>6. k[u] = Amount(u) /\ k[v] = Amount(v)
            BY <1>5, <2>3, <3>3
        <3> QED
            BY <2>3, <3>2, <3>4, <3>5, <3>6 DEF SumOf
    <2> QED
        BY <2>1, <2>2, <2>3
<1>7. IsSum(k, s)
    BY <1>4, <1>6 DEF IsSum
<1> QED
    BY <1>2, <1>7

\* What Amount is, set by set.
LEMMA AmountStep ==
    ASSUME NEW s, s \subseteq Refs
    PROVE  /\ s = {} => Amount(s) = 0
           /\ s # {} => Amount(s) = AmountOf[Pick(s)] + Amount(s \ {Pick(s)})
<1>1. PICK g : IsSum(g, s)
    BY SumExists
<1>2. PICK v : v = s \ {Pick(s)}
    OBVIOUS
<1>3. Amount(s) = g[s] /\ Amount(v) = g[v]
    BY <1>1, <1>2, AmountFromSum
<1>4. g[s] = SumOf(g, s)
    BY <1>1 DEF IsSum
<1> QED
    BY <1>2, <1>3, <1>4 DEF SumOf

\* An amount is a natural number.
LEMMA AmountNat ==
    ASSUME NEW s, s \subseteq Refs
    PROVE  Amount(s) \in Nat
<1> DEFINE Bad == {u \in SUBSET Refs : Amount(u) \notin Nat}
<1> SUFFICES ASSUME Bad # {} PROVE FALSE
    OBVIOUS
<1>1. PICK u \in Bad : \A v \in Bad : v \subseteq u => v = u
    <2>1. Bad \subseteq SUBSET Refs
        OBVIOUS
    <2> HIDE DEF Bad
    <2> QED
        BY <2>1, Smallest
<1>2. u \subseteq Refs /\ Amount(u) \notin Nat
    BY <1>1
<1>3. u # {}
    <2>1. u = {} => Amount(u) = 0
        BY <1>2, AmountStep
    <2> HIDE DEF Bad
    <2> QED
        BY <1>2, <2>1
<1>4. PICK v : v = u \ {Pick(u)}
    OBVIOUS
<1>5. v \subseteq u /\ v # u /\ Pick(u) \in Refs
    BY <1>2, <1>3, <1>4, PickIn
<1>6. Amount(v) \in Nat
    <2>1. v \notin Bad
        <3> HIDE DEF Bad
        <3> QED
            BY <1>1, <1>5
    <2> QED
        BY <1>2, <1>5, <2>1
<1>7. Amount(u) = AmountOf[Pick(u)] + Amount(v)
    BY <1>2, <1>3, <1>4, AmountStep
<1> QED
    BY <1>2, <1>5, <1>6, <1>7, ConstantTypes

\* One reference more, whichever the fold picks first.
LEMMA AmountAdd ==
    ASSUME NEW s, s \subseteq Refs, NEW r \in Refs, r \notin s
    PROVE  Amount(s \cup {r}) = Amount(s) + AmountOf[r]
<1> DEFINE Bad == {u \in SUBSET Refs : \E x \in Refs \ u : Amount(u \cup {x}) # Amount(u) + AmountOf[x]}
<1> SUFFICES ASSUME Bad # {} PROVE FALSE
    OBVIOUS
<1>1. PICK u \in Bad : \A v \in Bad : v \subseteq u => v = u
    <2>1. Bad \subseteq SUBSET Refs
        OBVIOUS
    <2> HIDE DEF Bad
    <2> QED
        BY <2>1, Smallest
<1>2. PICK x \in Refs \ u : Amount(u \cup {x}) # Amount(u) + AmountOf[x]
    BY <1>1
<1>3. u \subseteq Refs
    BY <1>1
<1>4. PICK w : w = u \cup {x}
    OBVIOUS
<1>5. PICK c : c = Pick(w)
    OBVIOUS
<1>6. w \subseteq Refs /\ w # {} /\ c \in w /\ c \in Refs
    BY <1>2, <1>3, <1>4, <1>5, PickIn
<1>7. Amount(w) = AmountOf[c] + Amount(w \ {c})
    BY <1>5, <1>6, AmountStep
<1>8. AmountOf[x] \in Nat /\ AmountOf[c] \in Nat /\ Amount(u) \in Nat
    BY <1>2, <1>3, <1>6, ConstantTypes, AmountNat
<1>9. CASE c = x
    <2>1. w \ {c} = u
        BY <1>2, <1>4, <1>9
    <2>2. Amount(w) = AmountOf[x] + Amount(u)
        BY <1>7, <1>9, <2>1
    <2> HIDE DEF Bad
    <2> QED
        BY <1>2, <1>4, <1>8, <2>2
<1>10. CASE c # x
    <2>1. PICK v : v = u \ {c}
        OBVIOUS
    <2>2. c \in u /\ v \subseteq u /\ v # u /\ v \subseteq Refs /\ x \notin v /\ c \notin v
        BY <1>2, <1>3, <1>4, <1>6, <1>10, <2>1
    <2>3. v \notin Bad
        <3> HIDE DEF Bad
        <3> QED
            BY <1>1, <2>2
    <2>4. Amount(v \cup {x}) = Amount(v) + AmountOf[x] /\ Amount(v \cup {c}) = Amount(v) + AmountOf[c]
        BY <1>2, <1>6, <2>2, <2>3
    <2>5. v \cup {x} = w \ {c} /\ v \cup {c} = u
        BY <1>2, <1>4, <1>10, <2>1, <2>2
    <2>6. Amount(v) \in Nat
        BY <2>2, AmountNat
    <2> QED
        BY <1>2, <1>4, <1>7, <1>8, <2>4, <2>5, <2>6
<1> QED
    BY <1>9, <1>10

\* Sets that have nothing in common.
LEMMA AmountUnion ==
    ASSUME NEW a, a \subseteq Refs, NEW b, b \subseteq Refs, a \cap b = {}
    PROVE  Amount(a \cup b) = Amount(a) + Amount(b)
<1> DEFINE Bad == {u \in SUBSET Refs : a \cap u = {} /\ Amount(a \cup u) # Amount(a) + Amount(u)}
<1> SUFFICES ASSUME Bad # {} PROVE FALSE
    OBVIOUS
<1>1. PICK u \in Bad : \A v \in Bad : v \subseteq u => v = u
    <2>1. Bad \subseteq SUBSET Refs
        OBVIOUS
    <2> HIDE DEF Bad
    <2> QED
        BY <2>1, Smallest
<1>2. u \subseteq Refs /\ a \cap u = {} /\ Amount(a \cup u) # Amount(a) + Amount(u)
    BY <1>1
<1>3. Amount(a) \in Nat
    BY AmountNat
<1>4. u # {}
    <2> SUFFICES ASSUME u = {} PROVE FALSE
        OBVIOUS
    <2>1. a \cup u = a /\ Amount(u) = 0
        BY <1>2, AmountStep
    <2> QED
        BY <1>2, <1>3, <2>1
<1>5. PICK x \in u : TRUE
    BY <1>4
<1>6. PICK v : v = u \ {x}
    OBVIOUS
<1>7. v \subseteq u /\ v # u /\ v \subseteq Refs /\ a \cap v = {} /\ x \in Refs /\ x \notin a \cup v
    BY <1>2, <1>5, <1>6
<1>8. v \notin Bad
    <2> HIDE DEF Bad
    <2> QED
        BY <1>1, <1>7
<1>9. Amount(a \cup v) = Amount(a) + Amount(v)
    BY <1>7, <1>8
<1>10. Amount(v \cup {x}) = Amount(v) + AmountOf[x]
    BY <1>7, AmountAdd
<1>11. Amount((a \cup v) \cup {x}) = Amount(a \cup v) + AmountOf[x]
    <2>1. a \cup v \subseteq Refs
        BY <1>7
    <2> QED
        BY <1>7, <2>1, AmountAdd
<1>12. v \cup {x} = u /\ (a \cup v) \cup {x} = a \cup u
    BY <1>5, <1>6
<1>13. Amount(v) \in Nat /\ AmountOf[x] \in Nat
    BY <1>7, AmountNat, ConstantTypes
<1> QED
    BY <1>2, <1>3, <1>9, <1>10, <1>11, <1>12, <1>13

-----------------------------------------------------------------------------
(* Sessions: what is netted is what is pending.                            *)

\* A session that has written nothing.
LEMMA FreshBooks ==
    NetIsPending([m \in Mandates |-> ZeroBalance], {})
<1>1. PICK net : net = [m \in Mandates |-> ZeroBalance]
    OBVIOUS
<1>2. ASSUME NEW m \in Mandates PROVE net[m]["reserved"] = 0 /\ net[m]["settled"] = 0
    BY <1>1 DEF ZeroBalance, Buckets
<1>3. ASSUME NEW types, NEW m PROVE Amount(Posting({}, types, m)) = 0
    <2>1. Posting({}, types, m) = {}
        BY DEF Posting
    <2>2. Amount({}) = 0
        BY AmountStep
    <2> QED
        BY <2>1, <2>2
<1>4. ASSUME NEW m \in Mandates
      PROVE  /\ Amount(Posting({}, {"reservation"}, m)) = 0
             /\ Amount(Posting({}, {"capture", "release", "expire"}, m)) = 0
             /\ Amount(Posting({}, {"capture"}, m)) = 0
             /\ Amount(Posting({}, {"reverse"}, m)) = 0
    BY <1>3
<1>5. ASSUME NEW m \in Mandates
      PROVE  /\ net[m]["reserved"] = Amount(Posting({}, {"reservation"}, m))
                              - Amount(Posting({}, {"capture", "release", "expire"}, m))
             /\ net[m]["settled"] = Amount(Posting({}, {"capture"}, m))
                             - Amount(Posting({}, {"reverse"}, m))
    <2>1. 0 = 0 - 0
        OBVIOUS
    <2> QED
        BY <1>2, <1>4, <2>1, Zenon
<1>6. NetIsPending(net, {})
    BY <1>5, Zenon DEF NetIsPending
<1> QED
    BY <1>1, <1>6

\* What a pair of type ty adds to the sum of the pairs of some types.
Adds(ty, types, amount) == IF ty \in types THEN amount ELSE 0

\* q is p and one pair more, of a reference that p has none of.
OneMore(p, q, ty, r) ==
    q = p \cup {<<ty, r>>} /\ \A other \in RefTypes : <<other, r>> \notin p

\* What it does to a sum.
LEMMA PostingGrows ==
    ASSUME NEW q, NEW p, NEW ty \in RefTypes, NEW r \in Refs, OneMore(p, q, ty, r),
           NEW types \in SUBSET RefTypes, NEW m
    PROVE  /\ Amount(Posting(p, types, m)) \in Nat
           /\ MandateOf[r] = m => Amount(Posting(q, types, m)) =
                                    Amount(Posting(p, types, m)) + Adds(ty, types, AmountOf[r])
           /\ MandateOf[r] # m => Amount(Posting(q, types, m)) = Amount(Posting(p, types, m))
<1>1. PICK s : s = Posting(p, types, m)
    OBVIOUS
<1>2. s \subseteq Refs /\ r \notin s /\ Amount(s) \in Nat
    <2>1. s \subseteq Refs /\ r \notin s
        BY <1>1 DEF Posting, OneMore
    <2> QED
        BY <2>1, AmountNat
<1>3. CASE ty \in types /\ MandateOf[r] = m
    <2>1. Posting(q, types, m) = s \cup {r}
        BY <1>1, <1>3 DEF Posting, OneMore
    <2>2. Amount(s \cup {r}) = Amount(s) + AmountOf[r]
        BY <1>2, AmountAdd
    <2> QED
        BY <1>1, <1>2, <1>3, <2>1, <2>2 DEF Adds
<1>4. CASE ~ (ty \in types /\ MandateOf[r] = m)
    <2>1. Posting(q, types, m) = s
        BY <1>1, <1>4 DEF Posting, OneMore
    <2> QED
        BY <1>1, <1>2, <1>4, <2>1 DEF Adds
<1> QED
    BY <1>3, <1>4

\* A pair moves its amount from the credited bucket to the debited one.
LEMMA MovementBuckets ==
    ASSUME NEW bal \in [Buckets -> Int], NEW amount \in Nat, NEW ty \in RefTypes,
           NEW new, new = net_balance(bal, MovementsOf(ty), amount)
    PROVE  /\ new["reserved"] = bal["reserved"] + Adds(ty, {"reservation"}, amount)
                                  - Adds(ty, {"capture", "release", "expire"}, amount)
           /\ new["settled"] = bal["settled"] + Adds(ty, {"capture"}, amount)
                                 - Adds(ty, {"reverse"}, amount)
<1> USE DEF net_balance, MovementsOf, Buckets, Adds
<1>1. CASE ty = "reservation"
    BY <1>1 DEF reserve_movements
<1>2. CASE ty = "capture"
    BY <1>2 DEF capture_movements
<1>3. CASE ty = "release"
    BY <1>3 DEF release_movements
<1>4. CASE ty = "expire"
    BY <1>4 DEF release_movements
<1>5. CASE ty = "reverse"
    BY <1>5 DEF reverse_movements
<1> QED
    BY <1>1, <1>2, <1>3, <1>4, <1>5 DEF RefTypes

\* A pair written to an account nets its amount.
LEMMA InsertNets ==
    ASSUME NEW net, NEW p, NetIsPending(net, p), NEW ty \in RefTypes, NEW r \in Refs,
           NEW q, OneMore(p, q, ty, r),
           net \in [Mandates -> [Buckets -> Int]],
           NEW after, after = [net EXCEPT ![MandateOf[r]] =
                       net_balance(net[MandateOf[r]], MovementsOf(ty), AmountOf[r])]
    PROVE  NetIsPending(after, q)
<1>1. PICK m \in Mandates : m = MandateOf[r]
    BY ConstantTypes
<1>2. PICK new : new = net_balance(net[m], MovementsOf(ty), AmountOf[r])
    OBVIOUS
<1>3. after[m] = new /\ \A n \in Mandates : n # m => after[n] = net[n]
    BY <1>1, <1>2
<1>4. net[m] \in [Buckets -> Int] /\ AmountOf[r] \in Nat
    BY ConstantTypes
<1>5. /\ new["reserved"] = net[m]["reserved"] + Adds(ty, {"reservation"}, AmountOf[r])
                             - Adds(ty, {"capture", "release", "expire"}, AmountOf[r])
      /\ new["settled"] = net[m]["settled"] + Adds(ty, {"capture"}, AmountOf[r])
                            - Adds(ty, {"reverse"}, AmountOf[r])
    <2>1. PICK bal \in [Buckets -> Int] : bal = net[m]
        BY <1>4
    <2>2. PICK amount \in Nat : amount = AmountOf[r]
        BY <1>4
    <2> QED
        BY <1>2, <2>1, <2>2, MovementBuckets
<1>6. ASSUME NEW types \in SUBSET RefTypes, NEW n \in Mandates
      PROVE  /\ Amount(Posting(p, types, n)) \in Nat /\ Adds(ty, types, AmountOf[r]) \in Nat
             /\ m = n => Amount(Posting(q, types, n)) =
                            Amount(Posting(p, types, n)) + Adds(ty, types, AmountOf[r])
             /\ m # n => Amount(Posting(q, types, n)) = Amount(Posting(p, types, n))
    <2>1. Adds(ty, types, AmountOf[r]) \in Nat
        BY <1>4 DEF Adds
    <2>2. /\ Amount(Posting(p, types, n)) \in Nat
          /\ MandateOf[r] = n => Amount(Posting(q, types, n)) =
                                    Amount(Posting(p, types, n)) + Adds(ty, types, AmountOf[r])
          /\ MandateOf[r] # n => Amount(Posting(q, types, n)) = Amount(Posting(p, types, n))
        BY PostingGrows
    <2> QED
        BY <1>1, <2>1, <2>2
<1>7. /\ {"reservation"} \in SUBSET RefTypes /\ {"capture"} \in SUBSET RefTypes
      /\ {"reverse"} \in SUBSET RefTypes /\ {"capture", "release", "expire"} \in SUBSET RefTypes
    BY DEF RefTypes
<1>8. ASSUME NEW n \in Mandates
      PROVE  /\ after[n]["reserved"] = Amount(Posting(q, {"reservation"}, n))
                                - Amount(Posting(q, {"capture", "release", "expire"}, n))
             /\ after[n]["settled"] = Amount(Posting(q, {"capture"}, n))
                               - Amount(Posting(q, {"reverse"}, n))
    <2>1. PICK a1 : a1 = Amount(Posting(p, {"reservation"}, n))
        OBVIOUS
    <2>2. PICK a2 : a2 = Amount(Posting(p, {"capture", "release", "expire"}, n))
        OBVIOUS
    <2>3. PICK a3 : a3 = Amount(Posting(p, {"capture"}, n))
        OBVIOUS
    <2>4. PICK a4 : a4 = Amount(Posting(p, {"reverse"}, n))
        OBVIOUS
    <2>5. a1 \in Nat /\ a2 \in Nat /\ a3 \in Nat /\ a4 \in Nat
        BY <1>6, <1>7, <2>1, <2>2, <2>3, <2>4
    <2>6. net[n]["reserved"] = a1 - a2 /\ net[n]["settled"] = a3 - a4
        BY <2>1, <2>2, <2>3, <2>4 DEF NetIsPending
    <2>7. CASE n = m
        BY <1>3, <1>4, <1>5, <1>6, <1>7, <2>1, <2>2, <2>3, <2>4, <2>5, <2>6, <2>7
    <2>8. CASE n # m
        BY <1>3, <1>6, <1>7, <2>1, <2>2, <2>3, <2>4, <2>5, <2>6, <2>8
    <2> QED
        BY <2>7, <2>8
<1> QED
    BY <1>8 DEF NetIsPending

-----------------------------------------------------------------------------
(* Steps of a session.                                                     *)

\* A step that writes no pair.
LEMMA KeepBooks ==
    ASSUME NEW x, NEW y, SessionBooks(y), x.net = y.net, x.pending = y.pending, x.op = y.op,
           y.op = "sweep" \/ x.ref = y.ref
    PROVE  SessionBooks(x)
<1>1. NetIsPending(x.net, x.pending)
    BY DEF SessionBooks
<1>2. OneOperation(x.op, x.ref, x.pending)
    BY DEF SessionBooks, OneOperation
<1> QED
    BY <1>1, <1>2 DEF SessionBooks

\* A session that has written nothing.
LEMMA NewBooks ==
    ASSUME NEW x, x.net = [m \in Mandates |-> ZeroBalance], x.pending = {}
    PROVE  SessionBooks(x)
<1>1. OneOperation(x.op, x.ref, x.pending)
    BY DEF OneOperation
<1>2. NetIsPending(x.net, x.pending)
    BY FreshBooks
<1> QED
    BY <1>1, <1>2 DEF SessionBooks

\* The books of the other sessions are their own.
LEMMA OtherBooks ==
    ASSUME IndInv, AllSessionBooks, NEW t \in Txns, NEW x, txn' = [txn EXCEPT ![t] = x],
           SessionBooks(x)
    PROVE  AllSessionBooks'
<1>1. txn'[t] = x /\ \A u \in Txns : u # t => txn'[u] = txn[u]
    BY DEF IndInv, TypeOK
<1>2. ASSUME NEW u \in Txns PROVE SessionBooks(txn'[u])
    BY <1>1 DEF AllSessionBooks
<1> QED
    BY <1>2 DEF AllSessionBooks

\* The fields a statement leaves alone when it goes on or returns.
LEMMA KeptFields ==
    ASSUME IndInv, NEW t \in Txns, NEW x,
           \/ \E pc \in ProgramCounters : x = GoTo(t, pc)
           \/ \E ok \in BOOLEAN : x = Return(t, ok)
    PROVE  /\ x.net = txn[t].net /\ x.pending = txn[t].pending
           /\ x.op = txn[t].op /\ x.ref = txn[t].ref
BY SessionFacts DEF Return, GoTo, TxnRecord

\* Going on and returning.
LEMMA KeptBooks ==
    ASSUME IndInv, AllSessionBooks, NEW t \in Txns, NEW x, txn' = [txn EXCEPT ![t] = x],
           \/ \E pc \in ProgramCounters : x = GoTo(t, pc)
           \/ \E ok \in BOOLEAN : x = Return(t, ok)
    PROVE  AllSessionBooks'
<1>1. SessionBooks(x)
    BY KeptFields, KeepBooks DEF AllSessionBooks
<1> QED
    BY <1>1, OtherBooks

\* The looks at the entries, the sums and the locks.
LEMMA CheckBooks ==
    ASSUME IndInv, AllSessionBooks, NEW t \in Txns,
           Check(t) \/ SumReserved(t) \/ SumSettled(t) \/ Lock(t) \/ SweepDone(t)
    PROVE  AllSessionBooks'
<1>1. {"check", "sumReserved", "sumSettled", "insert", "scan"} \subseteq ProgramCounters
    BY DEF ProgramCounters
<1>2. CASE Check(t)
    <2>1. PICK e : e = posted[Ref(t)]
        OBVIOUS
    <2>2. Op(t) \in Operations
        BY SessionFacts DEF TxnRecord, Op
    <2>3. PICK x : /\ txn' = [txn EXCEPT ![t] = x]
                   /\ x = CASE Op(t) = "reserve" -> CheckReserve(t, e)
                            [] Op(t) = "capture" -> CheckCapture(t, e)
                            [] Op(t) = "release" -> CheckRelease(t, e)
                            [] Op(t) = "reverse" -> CheckReverse(t, e)
                            [] Op(t) = "sweep"   -> CheckSweep(t, e)
        BY <1>2, <2>1 DEF Check
    <2>4. x \in {CheckReserve(t, e), CheckCapture(t, e), CheckRelease(t, e),
                 CheckReverse(t, e), CheckSweep(t, e)}
        BY <2>2, <2>3 DEF Operations
    <2>5. x \in {GoTo(t, "sumReserved"), GoTo(t, "insert"), GoTo(t, "scan"),
                 Return(t, TRUE), Return(t, FALSE)}
        BY <2>4 DEF CheckReserve, CheckCapture, CheckRelease, CheckReverse, CheckSweep
    <2> QED
        BY <1>1, <2>3, <2>5, KeptBooks
<1>3. CASE SumReserved(t)
    <2>1. PICK held : held = balance[Mandate(t)]["reserved"]
        OBVIOUS
    <2>2. PICK x : x = [txn[t] EXCEPT !.pc = "sumSettled", !.held = held]
        OBVIOUS
    <2>3. /\ x.net = txn[t].net /\ x.pending = txn[t].pending
          /\ x.op = txn[t].op /\ x.ref = txn[t].ref
        BY <2>2, SessionFacts DEF TxnRecord
    <2>4. txn' = [txn EXCEPT ![t] = x]
        BY <1>3, <2>1, <2>2 DEF SumReserved
    <2>5. SessionBooks(x)
        BY <2>3, KeepBooks DEF AllSessionBooks
    <2> QED
        BY <2>4, <2>5, OtherBooks
<1>4. CASE SumSettled(t)
    <2>1. PICK x : /\ txn' = [txn EXCEPT ![t] = x]
                   /\ x = GoTo(t, "insert") \/ x = Return(t, FALSE)
        BY <1>4 DEF SumSettled
    <2> QED
        BY <1>1, <2>1, KeptBooks
<1>5. CASE Lock(t)
    <2>1. txn' = [txn EXCEPT ![t] = GoTo(t, "check")]
        BY <1>5 DEF Lock, GoTo
    <2> QED
        BY <1>1, <2>1, KeptBooks
<1>6. CASE SweepDone(t)
    <2>1. txn' = [txn EXCEPT ![t] = Return(t, TRUE)]
        BY <1>6 DEF SweepDone
    <2> QED
        BY <2>1, KeptBooks
<1> QED
    BY <1>2, <1>3, <1>4, <1>5, <1>6

\* Entering an operation, a sweep, and its next candidate.
LEMMA BeginBooks ==
    ASSUME IndInv, AllSessionBooks, NEW t \in Txns,
           \/ \E op \in Operations, r \in Refs : Begin(t, op, r)
           \/ \E candidates \in SUBSET Refs : SweepScan(t, candidates)
           \/ \E r \in Refs : SweepNext(t, r)
    PROVE  AllSessionBooks'
<1>1. ASSUME NEW op \in Operations, NEW r \in Refs, Begin(t, op, r) PROVE AllSessionBooks'
    <2>1. PICK x : x = [IdleTxn EXCEPT !.pc = "lock", !.op = op, !.ref = r]
        OBVIOUS
    <2>2. x.net = [m \in Mandates |-> ZeroBalance] /\ x.pending = {}
        BY <2>1 DEF IdleTxn
    <2>3. txn' = [txn EXCEPT ![t] = x]
        BY <1>1, <2>1 DEF Begin
    <2> QED
        BY <2>2, <2>3, NewBooks, OtherBooks
<1>2. ASSUME NEW candidates \in SUBSET Refs, SweepScan(t, candidates) PROVE AllSessionBooks'
    <2>1. PICK x : x = [IdleTxn EXCEPT !.pc = "scan", !.op = "sweep", !.todo = candidates]
        OBVIOUS
    <2>2. x.net = [m \in Mandates |-> ZeroBalance] /\ x.pending = {}
        BY <2>1 DEF IdleTxn
    <2>3. txn' = [txn EXCEPT ![t] = x]
        BY <1>2, <2>1 DEF SweepScan
    <2> QED
        BY <2>2, <2>3, NewBooks, OtherBooks
<1>3. ASSUME NEW r \in Refs, SweepNext(t, r) PROVE AllSessionBooks'
    <2>1. PICK pc : pc = IF state_of(posted[r]) = "HELD" THEN "lock" ELSE "scan"
        OBVIOUS
    <2>2. PICK x : x = [txn[t] EXCEPT !.todo = txn[t].todo \ {r}, !.ref = r, !.pc = pc]
        OBVIOUS
    <2>3. /\ x.op = txn[t].op /\ x.net = txn[t].net /\ x.pending = txn[t].pending
        BY <2>2, SessionFacts DEF TxnRecord
    <2>4. txn[t].op = "sweep"
        BY <1>3, SessionFacts DEF SweepNext, At, SessionOK, ReadsAreCurrent
    <2>5. txn' = [txn EXCEPT ![t] = x]
        BY <1>3, <2>1, <2>2 DEF SweepNext
    <2>6. SessionBooks(x)
        BY <2>3, <2>4, KeepBooks DEF AllSessionBooks
    <2> QED
        BY <2>5, <2>6, OtherBooks
<1> QED
    BY <1>1, <1>2, <1>3

\* The end of a transaction.
LEMMA EndBooks ==
    ASSUME IndInv, AllSessionBooks, NEW t \in Txns, txn' = [txn EXCEPT ![t] = IdleTxn]
    PROVE  AllSessionBooks'
<1>1. IdleTxn.net = [m \in Mandates |-> ZeroBalance] /\ IdleTxn.pending = {}
    BY DEF IdleTxn
<1> QED
    BY <1>1, NewBooks, OtherBooks

\* _add_movements nets the pair it writes, the operation's own.
LEMMA InsertBooks ==
    ASSUME IndInv, AnswersStand, AllSessionBooks, NEW t \in Txns, Insert(t)
    PROVE  AllSessionBooks'
<1>1. PICK y : y = txn[t]
    OBVIOUS
<1>2. y \in TxnRecord /\ y.pc = "insert" /\ SessionOK(t, y) /\ SessionBooks(y)
    BY <1>1, SessionFacts DEF Insert, At, AllSessionBooks
<1>3. PICK ty \in RefTypes : ty = PostsType(y.op)
    BY <1>2 DEF TxnRecord, Operations, PostsType, RefTypes
<1>4. PICK r \in Refs : r = y.ref
    BY <1>2 DEF SessionOK, HoldsRowLock, Working
<1>5. PICK x : x = Inserted(t, ty, MandateOf[r]) /\ txn' = [txn EXCEPT ![t] = x]
    BY <1>1, <1>3, <1>4 DEF Insert, Op, Mandate
<1>6. PICK after : after = [y.net EXCEPT ![MandateOf[r]] =
                       net_balance(y.net[MandateOf[r]], MovementsOf(ty), AmountOf[r])]
    OBVIOUS
<1>7. PICK q : q = y.pending \cup {<<ty, r>>}
    OBVIOUS
<1>8. x.pending = q /\ x.net = after /\ x.ref = r /\ x.op = y.op
    <2>1. x.net = after /\ x.pending = q
        BY <1>1, <1>2, <1>4, <1>5, <1>6, <1>7, Zenon DEF Inserted, TxnRecord, Ref
    <2>2. x.ref = r /\ x.op = y.op
        BY <1>1, <1>2, <1>4, <1>5, Zenon DEF Inserted, TxnRecord
    <2> QED
        BY <2>1, <2>2
<1>9. OneMore(y.pending, q, ty, r)
    BY <1>2, <1>4, <1>7 DEF OneMore, SessionOK, PendingMayCommit, Working
<1>10. NetIsPending(after, q)
    <2>1. PICK net, p : net = y.net /\ p = y.pending
        OBVIOUS
    <2>2. NetIsPending(net, p) /\ net \in [Mandates -> [Buckets -> Int]]
        BY <1>2, <2>1 DEF SessionBooks, TxnRecord
    <2>3. OneMore(p, q, ty, r)
        BY <1>9, <2>1
    <2>4. after = [net EXCEPT ![MandateOf[r]] =
                       net_balance(net[MandateOf[r]], MovementsOf(ty), AmountOf[r])]
        BY <1>6, <2>1
    <2> QED
        BY <2>2, <2>3, <2>4, InsertNets
<1>11. OneOperation(y.op, r, q)
    <2>1. y.op # "sweep" => y.pending = {}
        BY <1>1, <1>2 DEF AnswersStand, AnswerStands
    <2>2. OneOperation(y.op, y.ref, y.pending)
        BY <1>2 DEF SessionBooks
    <2> QED
        BY <1>3, <1>4, <1>7, <2>1, <2>2 DEF OneOperation
<1>12. SessionBooks(x)
    BY <1>8, <1>10, <1>11 DEF SessionBooks
<1> QED
    BY <1>5, <1>12, OtherBooks

\* Every step keeps the sessions' books.
LEMMA NextBooks == IndInv /\ AnswersStand /\ AllSessionBooks /\ [Next]_vars => AllSessionBooks'
<1> SUFFICES ASSUME IndInv, AnswersStand, AllSessionBooks, [Next]_vars PROVE AllSessionBooks'
    OBVIOUS
<1>1. ASSUME NEW t \in Txns, NEW r \in Refs, NEW op \in Operations, Begin(t, op, r)
      PROVE  AllSessionBooks'
    BY <1>1, BeginBooks
<1>2. ASSUME NEW t \in Txns, NEW candidates \in SUBSET Refs, SweepScan(t, candidates)
      PROVE  AllSessionBooks'
    BY <1>2, BeginBooks
<1>3. ASSUME NEW t \in Txns, Step(t) PROVE AllSessionBooks'
    <2>1. CASE Commit(t)
        BY <2>1, EndBooks DEF Commit
    <2> QED
        BY <1>3, <2>1, CheckBooks, InsertBooks, BeginBooks DEF Step
<1>4. ASSUME NEW t \in Txns, Rollback(t) \/ DeadlockVictim(t) PROVE AllSessionBooks'
    BY <1>4, EndBooks DEF DeadlockVictim, Rollback
<1>5. CASE TripHalt \/ UNCHANGED vars
    BY <1>5 DEF TripHalt, vars, AllSessionBooks
<1> QED
    BY <1>1, <1>2, <1>3, <1>4, <1>5 DEF Next

-----------------------------------------------------------------------------
(* Commits.                                                                *)

\* The states a pair of type ty takes a reference from and to.
From(ty) ==
    CASE ty = "reservation" -> "NONE" [] ty = "reverse" -> "CAPTURED" [] OTHER -> "HELD"
To(ty) ==
    CASE ty = "reservation" -> "HELD"
      [] ty = "capture"     -> "CAPTURED"
      [] ty = "release"     -> "RELEASED"
      [] ty = "expire"      -> "EXPIRED"
      [] ty = "reverse"     -> "REVERSED"

\* One more pair of entries moves a reference along the lifecycle.
LEMMA StateMoves ==
    ASSUME NEW e, \A ty \in RefTypes : e[ty] \in Nat, LegalHistory(e),
           NEW ty \in RefTypes, MayPost(e, ty), NEW f,
           \A other \in RefTypes : f[other] = e[other] + (IF other = ty THEN 1 ELSE 0)
    PROVE  StateIn(e) = From(ty) /\ StateIn(f) = To(ty)
<1>1. /\ e["reservation"] \in Nat /\ e["capture"] \in Nat /\ e["release"] \in Nat
      /\ e["expire"] \in Nat /\ e["reverse"] \in Nat
    BY DEF RefTypes
<1>2. /\ f["reservation"] = e["reservation"] + (IF "reservation" = ty THEN 1 ELSE 0)
      /\ f["capture"] = e["capture"] + (IF "capture" = ty THEN 1 ELSE 0)
      /\ f["release"] = e["release"] + (IF "release" = ty THEN 1 ELSE 0)
      /\ f["expire"] = e["expire"] + (IF "expire" = ty THEN 1 ELSE 0)
      /\ f["reverse"] = e["reverse"] + (IF "reverse" = ty THEN 1 ELSE 0)
    BY DEF RefTypes
<1>3. CASE ty = "reservation"
    <2>1. /\ e["reservation"] = 0 /\ e["capture"] = 0 /\ e["release"] = 0
          /\ e["expire"] = 0 /\ e["reverse"] = 0
        BY <1>3 DEF MayPost, RefTypes
    <2> QED
        BY <1>2, <1>3, <2>1 DEF StateIn, state_of, From, To
<1>4. CASE ty = "reverse"
    <2>1. e["capture"] = 1 /\ e["reverse"] = 0 /\ e["release"] = 0 /\ e["expire"] = 0
        BY <1>1, <1>4 DEF MayPost, LegalHistory
    <2> QED
        BY <1>2, <1>4, <2>1 DEF StateIn, state_of, From, To
<1>5. CASE ty \in {"capture", "release", "expire"}
    <2>1. /\ e["reservation"] = 1 /\ e["capture"] = 0 /\ e["release"] = 0
          /\ e["expire"] = 0 /\ e["reverse"] = 0
        BY <1>1, <1>5 DEF MayPost, LegalHistory
    <2> QED
        BY <1>2, <1>5, <2>1 DEF StateIn, state_of, From, To
<1> QED
    BY <1>3, <1>4, <1>5 DEF RefTypes

\* What a commit does to each reference.
LEMMA CommitMoves ==
    ASSUME IndInv, NEW t \in Txns, Commit(t), NEW r \in Refs
    PROVE  /\ (\A ty \in RefTypes : <<ty, r>> \notin txn[t].pending)
                 => StateIn(posted'[r]) = StateIn(posted[r])
           /\ \A ty \in RefTypes : <<ty, r>> \in txn[t].pending
                 => StateIn(posted[r]) = From(ty) /\ StateIn(posted'[r]) = To(ty)
<1>1. PICK p : p = txn[t].pending
    OBVIOUS
<1>2. PICK e : e = posted[r] /\ e \in [RefTypes -> Nat] /\ LegalHistory(e)
    BY EntriesFacts DEF IndInv, TypeOK
<1>3. PICK f : f = posted'[r] /\ f = [ty \in RefTypes |-> e[ty] + (IF <<ty, r>> \in p THEN 1 ELSE 0)]
    BY <1>1, <1>2 DEF Commit
<1>4. ASSUME \A ty \in RefTypes : <<ty, r>> \notin p PROVE f = e
    <2>1. ASSUME NEW ty \in RefTypes PROVE f[ty] = e[ty]
        <3>1. f[ty] = e[ty] + 0 /\ e[ty] \in Nat
            BY <1>2, <1>3, <1>4
        <3> QED
            BY <3>1
    <2> QED
        BY <1>2, <1>3, <2>1
<1>5. ASSUME NEW ty \in RefTypes, <<ty, r>> \in p
      PROVE  StateIn(e) = From(ty) /\ StateIn(f) = To(ty)
    <2>1. MayPost(e, ty) /\ \A other \in RefTypes : <<other, r>> \in p => other = ty
        BY <1>1, <1>2, <1>5, SessionFacts DEF SessionOK, PendingMayCommit
    <2>2. \A other \in RefTypes : f[other] = e[other] + (IF other = ty THEN 1 ELSE 0)
        BY <1>3, <1>5, <2>1
    <2> QED
        BY <1>2, <2>1, <2>2, StateMoves
<1> QED
    BY <1>1, <1>2, <1>3, <1>4, <1>5

\* What joins a set of references and what leaves it, in amounts.
LEMMA AmountMoves ==
    ASSUME NEW old, old \subseteq Refs, NEW new, new \subseteq Refs,
           NEW joins, joins \subseteq Refs, NEW leaves, leaves \subseteq Refs,
           old \cap joins = {}, new \cap leaves = {}, old \cup joins = new \cup leaves
    PROVE  /\ Amount(new) = Amount(old) + (Amount(joins) - Amount(leaves))
           /\ Amount(old) \in Nat /\ Amount(new) \in Nat
           /\ Amount(joins) \in Nat /\ Amount(leaves) \in Nat
<1>1. Amount(old \cup joins) = Amount(old) + Amount(joins)
    BY AmountUnion
<1>2. Amount(new \cup leaves) = Amount(new) + Amount(leaves)
    BY AmountUnion
<1>3. Amount(old) \in Nat /\ Amount(new) \in Nat /\ Amount(joins) \in Nat /\ Amount(leaves) \in Nat
    BY AmountNat
<1>4. Amount(old) + Amount(joins) = Amount(new) + Amount(leaves)
    BY <1>1, <1>2
<1> QED
    BY <1>3, <1>4

\* The references of a mandate in a state, given every reference's entries.
HaveState(entries, m, st) == {r \in Refs : MandateOf[r] = m /\ StateIn(entries[r]) = st}

\* A commit moves amounts between states as its pairs say.
LEMMA CommitAmounts ==
    ASSUME IndInv, NEW t \in Txns, Commit(t), NEW m \in Mandates, NEW p, p = txn[t].pending
    PROVE  /\ Amount(HaveState(posted', m, "HELD")) = Amount(HaveState(posted, m, "HELD"))
                 + (Amount(Posting(p, {"reservation"}, m))
                    - Amount(Posting(p, {"capture", "release", "expire"}, m)))
           /\ Amount(HaveState(posted', m, "CAPTURED")) = Amount(HaveState(posted, m, "CAPTURED"))
                 + (Amount(Posting(p, {"capture"}, m)) - Amount(Posting(p, {"reverse"}, m)))
<1>1. PICK e, f : e = posted /\ f = posted'
    OBVIOUS
<1>2. ASSUME NEW r \in Refs
      PROVE  /\ (\A ty \in RefTypes : <<ty, r>> \notin p) => StateIn(f[r]) = StateIn(e[r])
             /\ \A ty \in RefTypes : <<ty, r>> \in p
                    => StateIn(e[r]) = From(ty) /\ StateIn(f[r]) = To(ty)
    BY <1>1, CommitMoves
<1>3. \A ty \in RefTypes :
         /\ From(ty) = "HELD" <=> ty \in {"capture", "release", "expire"}
         /\ To(ty) = "HELD" <=> ty = "reservation"
         /\ From(ty) = "CAPTURED" <=> ty = "reverse"
         /\ To(ty) = "CAPTURED" <=> ty = "capture"
    BY DEF RefTypes, From, To
<1>4. ASSUME NEW st, NEW into, NEW out, into \subseteq RefTypes, out \subseteq RefTypes,
             \A ty \in RefTypes : (To(ty) = st <=> ty \in into) /\ (From(ty) = st <=> ty \in out),
             into \cap out = {}
      PROVE  Amount(HaveState(f, m, st)) = Amount(HaveState(e, m, st))
                 + (Amount(Posting(p, into, m)) - Amount(Posting(p, out, m)))
    <2>1. PICK old, new : old = HaveState(e, m, st) /\ new = HaveState(f, m, st)
        OBVIOUS
    <2>2. PICK joins, leaves : joins = Posting(p, into, m) /\ leaves = Posting(p, out, m)
        OBVIOUS
    <2>3. /\ old \subseteq Refs /\ new \subseteq Refs /\ joins \subseteq Refs /\ leaves \subseteq Refs
        BY <2>1, <2>2 DEF HaveState, Posting
    <2>4. ASSUME NEW r \in Refs
          PROVE  /\ ~ (r \in old /\ r \in joins)
                 /\ ~ (r \in new /\ r \in leaves)
                 /\ r \in old \/ r \in joins <=> r \in new \/ r \in leaves
        <3>1. CASE MandateOf[r] # m
            BY <2>1, <2>2, <3>1 DEF HaveState, Posting
        <3>2. CASE MandateOf[r] = m /\ \A ty \in RefTypes : <<ty, r>> \notin p
            <4>1. r \notin joins /\ r \notin leaves
                BY <1>4, <2>2, <3>2 DEF Posting
            <4>2. r \in old <=> r \in new
                BY <1>2, <2>1, <3>2 DEF HaveState
            <4> QED
                BY <4>1, <4>2
        <3>3. CASE MandateOf[r] = m /\ \E ty \in RefTypes : <<ty, r>> \in p
            <4>1. PICK ty \in RefTypes : <<ty, r>> \in p
                BY <3>3
            <4>2. \A other \in RefTypes : <<other, r>> \in p
                     => (other \in into <=> ty \in into) /\ (other \in out <=> ty \in out)
                BY <1>2, <1>4, <4>1
            <4>3. (r \in joins <=> ty \in into) /\ (r \in leaves <=> ty \in out)
                BY <1>4, <2>2, <3>3, <4>1, <4>2 DEF Posting
            <4>4. (r \in old <=> ty \in out) /\ (r \in new <=> ty \in into)
                BY <1>2, <1>4, <2>1, <3>3, <4>1 DEF HaveState
            <4> QED
                BY <1>4, <4>3, <4>4
        <3> QED
            BY <3>1, <3>2, <3>3
    <2>5. old \cap joins = {} /\ new \cap leaves = {} /\ old \cup joins = new \cup leaves
        BY <2>3, <2>4
    <2>6. Amount(new) = Amount(old) + (Amount(joins) - Amount(leaves))
        BY <2>3, <2>5, AmountMoves
    <2> QED
        BY <2>1, <2>2, <2>6
<1>5. Amount(HaveState(f, m, "HELD")) = Amount(HaveState(e, m, "HELD"))
                 + (Amount(Posting(p, {"reservation"}, m))
                    - Amount(Posting(p, {"capture", "release", "expire"}, m)))
    <2>1. /\ {"reservation"} \subseteq RefTypes /\ {"capture", "release", "expire"} \subseteq RefTypes
          /\ {"reservation"} \cap {"capture", "release", "expire"} = {}
          /\ \A ty : ty \in {"reservation"} <=> ty = "reservation"
        BY DEF RefTypes
    <2> QED
        BY <1>3, <1>4, <2>1
<1>6. Amount(HaveState(f, m, "CAPTURED")) = Amount(HaveState(e, m, "CAPTURED"))
                 + (Amount(Posting(p, {"capture"}, m)) - Amount(Posting(p, {"reverse"}, m)))
    <2>1. /\ {"capture"} \subseteq RefTypes /\ {"reverse"} \subseteq RefTypes
          /\ {"capture"} \cap {"reverse"} = {}
          /\ \A ty : (ty \in {"capture"} <=> ty = "capture") /\ (ty \in {"reverse"} <=> ty = "reverse")
        BY DEF RefTypes
    <2> QED
        BY <1>3, <1>4, <2>1
<1> QED
    BY <1>1, <1>5, <1>6

\* A commit keeps every balance the sum of the references in its state.
LEMMA CommitBooks ==
    ASSUME IndInv, AllSessionBooks, BooksMatchStates, NEW t \in Txns, Commit(t)
    PROVE  BooksMatchStates'
<1>1. PICK p, net : p = txn[t].pending /\ net = txn[t].net
    OBVIOUS
<1>2. NetIsPending(net, p)
    BY <1>1 DEF AllSessionBooks, SessionBooks
<1>3. ASSUME NEW m \in Mandates
      PROVE  /\ balance'[m]["reserved"] = Amount(HaveState(posted', m, "HELD"))
             /\ balance'[m]["settled"] = Amount(HaveState(posted', m, "CAPTURED"))
    <2>1. /\ balance'[m]["reserved"] = balance[m]["reserved"] + net[m]["reserved"]
          /\ balance'[m]["settled"] = balance[m]["settled"] + net[m]["settled"]
        BY <1>1 DEF Commit, Buckets
    <2>2. /\ balance[m]["reserved"] = Amount(HaveState(posted, m, "HELD"))
          /\ balance[m]["settled"] = Amount(HaveState(posted, m, "CAPTURED"))
        BY DEF BooksMatchStates, InState, HaveState, ReservationState
    <2>3. /\ net[m]["reserved"] = Amount(Posting(p, {"reservation"}, m))
                                  - Amount(Posting(p, {"capture", "release", "expire"}, m))
          /\ net[m]["settled"] = Amount(Posting(p, {"capture"}, m))
                                 - Amount(Posting(p, {"reverse"}, m))
        BY <1>2 DEF NetIsPending
    <2>4. /\ Amount(HaveState(posted', m, "HELD")) = Amount(HaveState(posted, m, "HELD"))
                 + (Amount(Posting(p, {"reservation"}, m))
                    - Amount(Posting(p, {"capture", "release", "expire"}, m)))
          /\ Amount(HaveState(posted', m, "CAPTURED")) = Amount(HaveState(posted, m, "CAPTURED"))
                 + (Amount(Posting(p, {"capture"}, m)) - Amount(Posting(p, {"reverse"}, m)))
        BY <1>1, CommitAmounts
    <2> QED
        BY <2>1, <2>2, <2>3, <2>4, Zenon
<1> QED
    BY <1>3 DEF BooksMatchStates, InState, HaveState, ReservationState

\* Nothing else changes what is committed.
LEMMA OnlyCommitPosts ==
    ASSUME [Next]_vars, \A t \in Txns : ~ Commit(t)
    PROVE  UNCHANGED <<posted, balance>>
BY DEF Next, Step, vars, Begin, Lock, Check, SumReserved, SumSettled, Insert, SweepScan,
       SweepNext, SweepDone, Rollback, DeadlockVictim, TripHalt

\* Initially every sum is empty.
LEMMA InitBudgetInv == Init => BudgetInv
<1> SUFFICES ASSUME Init PROVE BudgetInv
    OBVIOUS
<1>1. AnswersStand
    BY DEF Init, AnswersStand, AnswerStands, IdleTxn
<1>2. AllSessionBooks
    <2>1. IdleTxn.net = [m \in Mandates |-> ZeroBalance] /\ IdleTxn.pending = {}
        BY DEF IdleTxn
    <2>2. SessionBooks(IdleTxn)
        BY <2>1, NewBooks
    <2> QED
        BY <2>2 DEF Init, AllSessionBooks
<1>3. ASSUME NEW r \in Refs PROVE ReservationState(r) = "NONE"
    <2>1. posted[r] = NoEntries
        BY DEF Init
    <2>2. StateIn(NoEntries) = "NONE"
        BY DEF StateIn, state_of, NoEntries, RefTypes
    <2> QED
        BY <2>1, <2>2 DEF ReservationState
<1>4. ASSUME NEW m \in Mandates
      PROVE  /\ balance[m]["reserved"] = Amount(InState(m, "HELD"))
             /\ balance[m]["settled"] = Amount(InState(m, "CAPTURED"))
    <2>1. InState(m, "HELD") = {} /\ InState(m, "CAPTURED") = {}
        BY <1>3 DEF InState
    <2>2. Amount({}) = 0
        BY AmountStep
    <2>3. balance[m]["reserved"] = 0 /\ balance[m]["settled"] = 0
        BY DEF Init, ZeroBalance, Buckets
    <2> QED
        BY <2>1, <2>2, <2>3, Zenon
<1> QED
    BY <1>1, <1>2, <1>4, InitIndInv DEF BudgetInv, BooksMatchStates

\* Every step keeps it.
LEMMA NextBudgetInv == BudgetInv /\ [Next]_vars => BudgetInv'
<1> SUFFICES ASSUME BudgetInv, [Next]_vars PROVE BudgetInv'
    OBVIOUS
<1>1. IndInv' /\ AnswersStand' /\ AllSessionBooks'
    BY NextIndInv, NextAnswers, NextBooks DEF BudgetInv
<1>2. BooksMatchStates'
    <2>1. CASE \E t \in Txns : Commit(t)
        BY <2>1, CommitBooks DEF BudgetInv
    <2>2. CASE \A t \in Txns : ~ Commit(t)
        <3>1. UNCHANGED <<posted, balance>>
            BY <2>2, OnlyCommitPosts
        <3> QED
            BY <3>1 DEF BudgetInv, BooksMatchStates, InState, ReservationState
    <2> QED
        BY <2>1, <2>2
<1> QED
    BY <1>1, <1>2 DEF BudgetInv

(***************************************************************************)
(* The netted balances net_balance reads are exactly the amounts of the    *)
(* references in each state, whatever sessions commit or roll back.        *)
(***************************************************************************)
THEOREM BalancesMatchStates == Spec => []BooksMatchStates
<1>1. BudgetInv => BooksMatchStates
    BY DEF BudgetInv
<1> QED
    BY <1>1, InitBudgetInv, NextBudgetInv, PTL DEF Spec

-----------------------------------------------------------------------------
(* The refinement.                                                         *)

\* What the ledger's entries say, as the abstract state.
States(entries) == [r \in Refs |-> StateIn(entries[r])]

\* The abstract total is what the mandate's balances commit.
LEMMA TotalIsCommitted ==
    ASSUME IndInv, BooksMatchStates, NEW m \in Mandates
    PROVE  Budget!Total(m) = Committed(balance[m]) /\ Committed(balance[m]) \in Nat
<1>1. Budget!Total(m) = Amount(Budget!Live(m))
    BY Zenon DEF Budget!Total, Amount, MapThenSumSet, MapThenFoldSet,
                 Budget!MapThenSumSet, Budget!MapThenFoldSet
<1>2. PICK h, c : h = InState(m, "HELD") /\ c = InState(m, "CAPTURED")
    OBVIOUS
<1>3. h \subseteq Refs /\ c \subseteq Refs /\ h \cap c = {}
    BY <1>2 DEF InState
<1>4. Budget!Live(m) = h \cup c
    BY <1>2 DEF Budget!Live, InState
<1>5. Amount(h \cup c) = Amount(h) + Amount(c)
    BY <1>3, AmountUnion
<1>6. balance[m]["reserved"] = Amount(h) /\ balance[m]["settled"] = Amount(c)
    BY <1>2 DEF BooksMatchStates
<1>7. Amount(h) \in Nat /\ Amount(c) \in Nat
    BY <1>3, AmountNat
<1> QED
    BY <1>1, <1>4, <1>5, <1>6, <1>7 DEF Committed

\* The cap a reserve was checked against is the abstract one.
LEMMA ReserveWithinCap ==
    ASSUME BudgetInv, NEW t \in Txns, NEW r \in Refs, <<"reservation", r>> \in txn[t].pending,
           \A ty \in RefTypes, other \in Refs : <<ty, other>> \in txn[t].pending
               => ty = "reservation" /\ other = r
    PROVE  Budget!Total(MandateOf[r]) + AmountOf[r] <= MaxTotal[MandateOf[r]]
<1>1. PICK m \in Mandates : m = MandateOf[r]
    BY ConstantTypes
<1>2. PICK p, net : p = txn[t].pending /\ net = txn[t].net
    OBVIOUS
<1>3. NetIsPending(net, p)
    BY <1>2 DEF BudgetInv, AllSessionBooks, SessionBooks
<1>4. Amount({}) = 0 /\ Amount({r}) = AmountOf[r] /\ AmountOf[r] \in Nat
    <2>1. Amount({}) = 0
        BY AmountStep
    <2>2. Amount({} \cup {r}) = Amount({}) + AmountOf[r]
        BY AmountAdd
    <2>3. {} \cup {r} = {r} /\ AmountOf[r] \in Nat
        BY ConstantTypes
    <2> QED
        BY <2>1, <2>2, <2>3
<1>5. Posting(p, {"reservation"}, m) = {r}
    BY <1>1, <1>2 DEF Posting, RefTypes
<1>6. /\ Posting(p, {"capture", "release", "expire"}, m) = {}
      /\ Posting(p, {"capture"}, m) = {}
      /\ Posting(p, {"reverse"}, m) = {}
    BY <1>2 DEF Posting, RefTypes
<1>7. net[m]["reserved"] = AmountOf[r] - 0 /\ net[m]["settled"] = 0 - 0
    BY <1>3, <1>4, <1>5, <1>6, Zenon DEF NetIsPending
<1>8. Committed(balance[m]) + Committed(net[m]) <= MaxTotal[m]
    BY <1>2, SessionFacts DEF BudgetInv, SessionOK, NetWithinCap
<1>9. Committed(net[m]) = AmountOf[r]
    BY <1>4, <1>7 DEF Committed
<1>10. Budget!Total(m) = Committed(balance[m])
    BY TotalIsCommitted DEF BudgetInv
<1>11. Budget!Total(m) + AmountOf[r] <= MaxTotal[m]
    BY <1>8, <1>9, <1>10
<1> QED
    BY <1>1, <1>11

\* A commit is one abstract step.
LEMMA CommitRefines ==
    ASSUME BudgetInv, NEW t \in Txns, Commit(t)
    PROVE  Budget!Next \/ UNCHANGED [r \in Refs |-> ReservationState(r)]
<1>1. PICK a, b : a = States(posted) /\ b = States(posted')
    OBVIOUS
<1>2. a = [r \in Refs |-> ReservationState(r)] /\ b = [r \in Refs |-> ReservationState(r)]'
    BY <1>1 DEF States, ReservationState
<1>3. PICK x : x = txn[t]
    OBVIOUS
<1>4. x \in TxnRecord /\ OneOperation(x.op, x.ref, x.pending)
    BY <1>3, SessionFacts DEF BudgetInv, AllSessionBooks, SessionBooks
<1>5. ASSUME NEW r \in Refs
      PROVE  /\ (\A ty \in RefTypes : <<ty, r>> \notin x.pending) => b[r] = a[r]
             /\ \A ty \in RefTypes : <<ty, r>> \in x.pending => a[r] = From(ty) /\ b[r] = To(ty)
    BY <1>1, <1>3, CommitMoves DEF BudgetInv, States
<1>6. CASE x.op = "sweep"
    <2>1. PICK S \in SUBSET Refs : S = {r \in Refs : <<"expire", r>> \in x.pending}
        OBVIOUS
    <2>2. "expire" \in RefTypes /\ \A ty \in RefTypes, r \in Refs : <<ty, r>> \in x.pending => ty = "expire"
        BY <1>4, <1>6 DEF OneOperation, PostsType, RefTypes
    <2>3. ASSUME NEW r \in S PROVE a[r] = "HELD" /\ b[r] = "EXPIRED"
        <3>1. a[r] = From("expire") /\ b[r] = To("expire")
            BY <1>5, <2>1, <2>2
        <3> QED
            BY <3>1 DEF From, To
    <2>4. ASSUME NEW r \in Refs \ S PROVE b[r] = a[r]
        BY <1>5, <2>1, <2>2
    <2>5. b = [r \in Refs |-> IF r \in S THEN "EXPIRED" ELSE a[r]]
        BY <1>1, <2>3, <2>4 DEF States
    <2>6. Budget!Expire(S)
        BY <1>2, <2>1, <2>3, <2>5 DEF Budget!Expire
    <2> QED
        BY <2>6 DEF Budget!Next
<1>7. CASE x.op # "sweep" /\ \A ty \in RefTypes, r \in Refs : <<ty, r>> \notin x.pending
    <2>1. b = a
        BY <1>1, <1>5, <1>7 DEF States
    <2> QED
        BY <1>2, <2>1
<1>8. CASE x.op # "sweep" /\ \E ty \in RefTypes, r \in Refs : <<ty, r>> \in x.pending
    <2>1. PICK ty \in RefTypes, r \in Refs : <<ty, r>> \in x.pending
        BY <1>8
    <2>2. \A other \in RefTypes, u \in Refs : <<other, u>> \in x.pending => other = ty /\ u = r
        BY <1>4, <1>8, <2>1 DEF OneOperation
    <2>3. ty # "expire"
        BY <1>4, <1>8, <2>1 DEF OneOperation, PostsType, TxnRecord, Operations
    <2>4. b = [a EXCEPT ![r] = To(ty)] /\ a[r] = From(ty)
        <3>1. \A u \in Refs : u # r => b[u] = a[u]
            BY <1>5, <2>2
        <3>2. b[r] = To(ty) /\ a[r] = From(ty)
            BY <1>5, <2>1
        <3> QED
            BY <1>1, <3>1, <3>2 DEF States
    <2>5. Budget!Move(r, From(ty), To(ty))
        BY <1>2, <2>4 DEF Budget!Move
    <2>6. CASE ty = "reservation"
        <3>1. Budget!Total(MandateOf[r]) + AmountOf[r] <= MaxTotal[MandateOf[r]]
            BY <1>3, <2>1, <2>2, <2>6, ReserveWithinCap
        <3>2. Budget!Move(r, "NONE", "HELD")
            BY <2>5, <2>6 DEF From, To
        <3>3. Budget!Reserve(r)
            BY <3>1, <3>2 DEF Budget!Reserve
        <3> QED
            BY <3>3 DEF Budget!Next
    <2>7. CASE ty = "capture"
        <3>1. Budget!Capture(r)
            BY <2>5, <2>7 DEF From, To, Budget!Capture
        <3> QED
            BY <3>1 DEF Budget!Next
    <2>8. CASE ty = "release"
        <3>1. Budget!Release(r)
            BY <2>5, <2>8 DEF From, To, Budget!Release
        <3> QED
            BY <3>1 DEF Budget!Next
    <2>9. CASE ty = "reverse"
        <3>1. Budget!Reverse(r)
            BY <2>5, <2>9 DEF From, To, Budget!Reverse
        <3> QED
            BY <3>1 DEF Budget!Next
    <2> QED
        BY <2>3, <2>6, <2>7, <2>8, <2>9 DEF RefTypes
<1> QED
    BY <1>6, <1>7, <1>8

(***************************************************************************)
(* ledger_service implements the reservation lifecycle with an exact cap:  *)
(* each commit is one abstract step, all else stutters, for any mandates,  *)
(* references, amounts, caps and sessions.                                 *)
(***************************************************************************)
THEOREM LedgerImplementsBudget == Spec => ImplementsBudget
<1>1. Init => Budget!Init
    <2> SUFFICES ASSUME Init PROVE Budget!Init
        OBVIOUS
    <2>1. ASSUME NEW r \in Refs PROVE ReservationState(r) = "NONE"
        <3>1. posted[r] = NoEntries
            BY DEF Init
        <3>2. StateIn(NoEntries) = "NONE"
            BY DEF StateIn, state_of, NoEntries, RefTypes
        <3> QED
            BY <3>1, <3>2 DEF ReservationState
    <2> QED
        BY <2>1 DEF Budget!Init
<1>2. BudgetInv /\ [Next]_vars => [Budget!Next]_([r \in Refs |-> ReservationState(r)])
    <2> SUFFICES ASSUME BudgetInv, [Next]_vars
                 PROVE  Budget!Next \/ UNCHANGED [r \in Refs |-> ReservationState(r)]
        OBVIOUS
    <2>1. CASE \E t \in Txns : Commit(t)
        BY <2>1, CommitRefines
    <2>2. CASE \A t \in Txns : ~ Commit(t)
        BY <2>2, OnlyCommitPosts DEF ReservationState
    <2> QED
        BY <2>1, <2>2
<1> QED
    BY <1>1, <1>2, InitBudgetInv, NextBudgetInv, PTL DEF Spec, ImplementsBudget, Budget!Spec
=============================================================================
