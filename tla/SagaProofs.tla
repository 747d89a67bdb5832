----------------------------- MODULE SagaProofs -----------------------------
(***************************************************************************)
(* The purchase saga for any mandates, keys, requests and workers: what is *)
(* settled was charged, one request orders for a key, the assertions of    *)
(* the code hold, and an order is CAPTURED only if the provider captured.  *)
(*                                                                         *)
(* The argument is rely and guarantee: a process relies on what it has     *)
(* learnt (Knows), and no step of another process or of the environment    *)
(* takes it away (Steady).  A step is then one process going to a state r  *)
(* (ProcessStep), or a step of the environment (EnvironmentStep).          *)
(***************************************************************************)
EXTENDS PaymentSaga, TLAPS

USE SagaConstants

\* The rows of every key, apart from what the processes know of them.
Rows ==
    /\ AssertionsHold /\ SettledIsCharged /\ OneRequestOrders /\ CapturedIsTrue /\ RowsAgree

\* What a step leaves to the processes: reservations are not forgotten and
\* stay closed, charges stay charges, keys stay COMPLETED, and a key in flight
\* is touched by its owner only.
Steady(owned) ==
    \A k \in Keys :
        /\ resv[k] # "NONE" => resv'[k] # "NONE"
        /\ resv[k] \in Closed => resv'[k] \in Closed
        /\ pay[k] \in Charged => pay'[k] \in Charged
        /\ idem[k] = "COMPLETED" => idem'[k] = "COMPLETED"
        /\ idem[k] = "IN_FLIGHT" /\ k \notin owned =>
             /\ idem'[k] = "IN_FLIGHT" /\ creates'[k] = creates[k]
             /\ pay[k] = "none" => pay'[k] = "none"

\* The keys a process has claimed and not yet answered for.
Owned(p) == IF proc[p].pc \in Creating THEN {proc[p].key} ELSE {}

\* The invariant holds before the first request.
LEMMA InitIndInv == Init => IndInv
<1> SUFFICES ASSUME Init PROVE IndInv
  OBVIOUS
<1> USE DEF Init, Idle
<1>1. TypeOK
  <2>1. Idle \in Process
    BY DEF Process, ProgramCounters, OrderStatus
  <2>2. proc \in [Processes -> Process]
    BY <2>1
  <2>3. order \in [Keys -> [status : OrderStatus, known : BOOLEAN]]
    BY DEF OrderStatus
  <2>4. crashes \in 0..MaxCrashes
    OBVIOUS
  <2> QED BY <2>2, <2>3, <2>4 DEF TypeOK, Ledger!States, MandateStatus, SagaStatus, OrderStatus, PayStatus
<1>2. Rows
  BY <1>1 DEF Rows, AssertionsHold, SettledIsCharged, OneRequestOrders, CapturedIsTrue,
      RowsAgree
<1>3. ProcessKnows /\ OneOwner
  BY DEF ProcessKnows, Knows, OneOwner, Creating, Completing
<1> QED BY <1>2, <1>3 DEF IndInv, Rows

\* What a process knows survives a steady step, unless it is about a key the
\* step's process owns.
LEMMA KnowledgeIsStable ==
    ASSUME NEW owned, Steady(owned), NEW r \in Process, Knows(r),
           r.pc \in Creating => r.key \notin owned
    PROVE  Knows(r)'
BY DEF Knows, Steady, Creating, Completing

\* A step of one process, from its state to r.
LEMMA ProcessStep ==
    ASSUME IndInv, NEW p \in Processes, NEW r \in Process,
           proc' = [proc EXCEPT ![p] = r],
           Rows', Steady(Owned(p)), Knows(r)',
           r.pc \in Creating => r.key \in Owned(p) \/ idem[r.key] = "NONE"
    PROVE  IndInv'
<1>1. proc \in [Processes -> Process] /\ ProcessKnows /\ OneOwner
  BY DEF IndInv, AssertionsHold, TypeOK
<1>2. ASSUME NEW x \in Processes PROVE Knows(proc[x])'
  <2>1. CASE x = p
    <3>1. proc'[x] = r
      BY <1>1, <2>1
    <3> QED BY <3>1 DEF Knows
  <2>2. CASE x # p
    <3>1. PICK y \in Process : y = proc[x] /\ y = proc'[x] /\ Knows(y)
      BY <1>1, <2>2 DEF ProcessKnows
    <3>2. y.pc \in Creating => y.key \notin Owned(p)
      BY <1>1, <2>2, <3>1 DEF Owned, OneOwner, Key
    <3>3. Knows(y)'
      BY <3>1, <3>2, KnowledgeIsStable
    <3> QED BY <3>1, <3>3 DEF Knows
  <2> QED BY <2>1, <2>2
<1>3. ProcessKnows'
  BY <1>2 DEF ProcessKnows
<1>4. OneOwner'
  BY <1>1 DEF OneOwner, Key, Owned, ProcessKnows, Knows
<1> QED BY <1>3, <1>4 DEF IndInv, Rows

\* A step that moves no process.
LEMMA EnvironmentStep ==
    ASSUME IndInv, UNCHANGED proc, Rows', Steady({})
    PROVE  IndInv'
<1>1. ASSUME NEW x \in Processes PROVE Knows(proc[x])'
  <2>1. PICK y \in Process : y = proc[x] /\ y = proc'[x] /\ Knows(y)
    BY DEF IndInv, ProcessKnows, AssertionsHold, TypeOK
  <2>2. Knows(y)'
    BY <2>1, KnowledgeIsStable
  <2> QED BY <2>1, <2>2 DEF Knows
<1>2. ProcessKnows' /\ OneOwner'
  BY <1>1 DEF IndInv, ProcessKnows, OneOwner, Key
<1> QED BY <1>2 DEF IndInv, Rows

\* A step that changes nothing but one process.
LEMMA LocalStep ==
    ASSUME IndInv, NEW p \in Processes, NEW r \in Process, Knows(r), r.pc \notin Creating,
           proc' = [proc EXCEPT ![p] = r], crashes' \in 0..MaxCrashes,
           UNCHANGED <<tables, pay, halted, creates>>
    PROVE  IndInv'
<1>1. Rows'
  <2>1. TypeOK'
    BY DEF IndInv, AssertionsHold, TypeOK, tables, Processes
  <2> QED BY <2>1 DEF IndInv, Rows, AssertionsHold, SettledIsCharged, OneRequestOrders,
        CapturedIsTrue, RowsAgree, tables
<1>2. Steady(Owned(p)) /\ Knows(r)'
  BY DEF Steady, Knows, tables
<1> QED BY <1>1, <1>2, ProcessStep

-----------------------------------------------------------------------------
(* The updates of the model.                                               *)

Orders == [status : OrderStatus, known : BOOLEAN]

\* A process record with another program counter.
LEMMA PcUpdate ==
    ASSUME NEW r \in Process, NEW pc \in ProgramCounters
    PROVE  [r EXCEPT !.pc = pc] = [pc |-> pc, key |-> r.key, seen |-> r.seen]
BY DEF Process

\* An order row with another status.
LEMMA StatusUpdate ==
    ASSUME NEW o \in Orders, NEW st \in OrderStatus
    PROVE  [o EXCEPT !.status = st] = [status |-> st, known |-> o.known]
BY DEF Orders

\* An order row whose provider_order_id is set.
LEMMA KnownUpdate ==
    ASSUME NEW o \in Orders, NEW b \in BOOLEAN
    PROVE  [o EXCEPT !.known = b] = [status |-> o.status, known |-> b]
BY DEF Orders

\* Goto moves the program counter of a process and nothing else of it.
LEMMA Goes ==
    ASSUME TypeOK, NEW p \in Processes, NEW pc \in ProgramCounters, Goto(p, pc)
    PROVE  \E r \in Process :
             /\ r.pc = pc /\ r.key = Key(p) /\ r.seen = proc[p].seen
             /\ proc' = [proc EXCEPT ![p] = r]
<1>1. proc[p] \in Process
  BY DEF TypeOK
<1>2. proc' = [proc EXCEPT ![p] = [pc |-> pc, key |-> proc[p].key, seen |-> proc[p].seen]]
  BY <1>1, PcUpdate DEF Goto
<1>3. [pc |-> pc, key |-> proc[p].key, seen |-> proc[p].seen] \in Process
  BY <1>1 DEF Process
<1> QED BY <1>2, <1>3 DEF Key

\* Saw also replaces what the process has read.
LEMMA Sees ==
    ASSUME TypeOK, NEW p \in Processes, NEW pc \in ProgramCounters,
           NEW v \in OrderStatus \cup MandateStatus \cup PayStatus, Saw(p, pc, v)
    PROVE  \E r \in Process :
             /\ r.pc = pc /\ r.key = Key(p) /\ r.seen = v
             /\ proc' = [proc EXCEPT ![p] = r]
<1>1. [pc |-> pc, key |-> proc[p].key, seen |-> v] \in Process
  BY DEF Process, TypeOK
<1> QED BY <1>1 DEF Key, Saw

\* Exit forgets everything.
LEMMA Exits ==
    ASSUME NEW p \in Processes, Exit(p)
    PROVE  \E r \in Process : r.pc = "idle" /\ proc' = [proc EXCEPT ![p] = r]
<1>1. Idle \in Process /\ Idle.pc = "idle"
  BY DEF Process, Idle, ProgramCounters, OrderStatus
<1> QED BY <1>1 DEF Exit

\* SetStatus changes the status of one order.
LEMMA StatusSet ==
    ASSUME TypeOK, NEW k \in Keys, NEW st \in OrderStatus, SetStatus(k, st)
    PROVE  /\ order' \in [Keys -> Orders]
           /\ order'[k].status = st /\ order'[k].known = order[k].known
           /\ \A x \in Keys \ {k} : order'[x] = order[x]
<1>1. order \in [Keys -> Orders]
  BY DEF TypeOK, Orders
<1>2. order' = [order EXCEPT ![k] = [status |-> st, known |-> order[k].known]]
  BY <1>1, StatusUpdate DEF SetStatus
<1> QED BY <1>1, <1>2 DEF Orders

\* What a busy process may rely on.
LEMMA Busy ==
    ASSUME IndInv, NEW p \in Processes, proc[p].pc # "idle"
    PROVE  /\ TypeOK /\ Rows /\ Knows(proc[p])
           /\ Key(p) \in Keys /\ MandateOf[Key(p)] \in Mandates
BY DEF IndInv, AssertionsHold, Rows, ProcessKnows, Knows, Key

-----------------------------------------------------------------------------
(* The steps of a process that change nothing but the process.             *)

\* A request or worker that answers, gives up or dies.
LEMMA ExitStep ==
    ASSUME IndInv, NEW p \in Processes, Exit(p), crashes' \in 0..MaxCrashes,
           UNCHANGED <<tables, pay, halted, creates>>
    PROVE  IndInv'
<1>1. PICK r \in Process : r.pc = "idle" /\ proc' = [proc EXCEPT ![p] = r]
  BY Exits
<1>2. Knows(r) /\ r.pc \notin Creating
  BY <1>1 DEF Knows, Creating, Completing
<1> QED BY <1>1, <1>2, LocalStep

\* A process that goes on knowing enough for where it goes.
LEMMA GotoStep ==
    ASSUME IndInv, NEW p \in Processes, NEW pc \in ProgramCounters \ Creating,
           proc[p].pc # "idle", Goto(p, pc), UNCHANGED <<tables, pay, halted, creates, crashes>>,
           pc \in {"claim", "await", "C1"} => resv[Key(p)] # "NONE",
           pc \in Completing \cup {"allow"} => idem[Key(p)] = "COMPLETED",
           pc \in {"captured", "settle", "refund", "reverse", "payment.captured", "reconcile"}
             => pay[Key(p)] \in Charged,
           pc \in {"refund", "reverse"} => resv[Key(p)] \in Closed
    PROVE  IndInv'
<1>1. TypeOK /\ Key(p) \in Keys
  BY Busy
<1>2. PICK r \in Process : /\ r.pc = pc /\ r.key = Key(p) /\ r.seen = proc[p].seen
                           /\ proc' = [proc EXCEPT ![p] = r]
  BY <1>1, Goes
<1>3. Knows(r) /\ r.pc \notin Creating
  BY <1>1, <1>2 DEF Knows, Creating
<1>4. crashes' \in 0..MaxCrashes
  BY <1>1 DEF TypeOK
<1> QED BY <1>2, <1>3, <1>4, LocalStep

\* The gate before the claim, the wait for a key in flight, and the retry.
LEMMA GateLocalStep ==
    ASSUME IndInv, NEW q \in Requests,
           CheckHalt(q) \/ G1(q) \/ GateDenies(q) \/ ClaimFails(q) \/ AwaitInFlight(q)
             \/ RetryCreate(q)
    PROVE  IndInv'
<1> DEFINE Quiet == UNCHANGED <<tables, pay, halted, creates, crashes>>
<1>1. q \in Processes /\ proc[q].pc # "idle" /\ Quiet
  BY DEF Processes, CheckHalt, G1, GateDenies, ClaimFails, AwaitInFlight, RetryCreate, At
<1>2. TypeOK /\ Rows /\ Knows(proc[q]) /\ Key(q) \in Keys
  BY <1>1, Busy
<1>3. CASE \E pc \in {"deny", "G1"} : Goto(q, pc)
  BY <1>1, <1>3, GotoStep DEF ProgramCounters, Creating, Completing
<1>4. CASE ClaimFails(q)
  <2>1. resv[Key(q)] # "NONE" /\ Goto(q, "C1")
    BY <1>2, <1>4 DEF ClaimFails, At, Knows, Key
  <2> QED BY <1>1, <2>1, GotoStep DEF ProgramCounters, Creating, Completing
<1>5. CASE RetryCreate(q)
  <2>1. idem[Key(q)] = "IN_FLIGHT" /\ Goto(q, "claim")
    BY <1>2, <1>5 DEF RetryCreate, Knows, Key, Creating
  <2>2. resv[Key(q)] # "NONE"
    BY <1>2, <2>1 DEF Rows, RowsAgree
  <2> QED BY <1>1, <2>1, <2>2, GotoStep DEF ProgramCounters, Creating, Completing
<1>6. CASE idem[Key(q)] = "COMPLETED" /\ Goto(q, "allow")
  BY <1>1, <1>6, GotoStep DEF ProgramCounters, Creating, Completing
<1>7. CASE G1(q) /\ Saw(q, "G4", mandate[MandateOf[Key(q)]])
  <2>1. mandate[MandateOf[Key(q)]] \in MandateStatus
    BY <1>2 DEF TypeOK
  <2>2. PICK r \in Process : /\ r.pc = "G4" /\ r.key = Key(q)
                             /\ proc' = [proc EXCEPT ![q] = r]
    BY <1>1, <1>2, <1>7, <2>1, Sees DEF ProgramCounters
  <2>3. Knows(r) /\ r.pc \notin Creating /\ crashes' \in 0..MaxCrashes
    BY <1>1, <1>2, <2>2 DEF Knows, Creating, Completing, TypeOK
  <2> QED BY <1>1, <2>2, <2>3, LocalStep
<1> QED BY <1>3, <1>4, <1>5, <1>6, <1>7
    DEF CheckHalt, G1, GateDenies, AwaitInFlight

\* S3, and the order read before it is voided.
LEMMA CompleteLocalStep ==
    ASSUME IndInv, NEW q \in Requests, KillSwitch(q) \/ Authorize(q) \/ VoidOrder(q)
    PROVE  IndInv'
<1> DEFINE Quiet == UNCHANGED <<tables, pay, halted, creates, crashes>>
<1>1. q \in Processes /\ proc[q].pc # "idle" /\ Quiet
  BY DEF Processes, KillSwitch, Authorize, VoidOrder, At
<1>2. TypeOK /\ Rows /\ Knows(proc[q]) /\ Key(q) \in Keys
  BY <1>1, Busy
<1>3. idem[Key(q)] = "COMPLETED"
  BY <1>2 DEF KillSwitch, Authorize, VoidOrder, At, Knows, Key, Completing
<1>4. CASE \E pc \in {"void", "authorize", "capture"} : Goto(q, pc)
  BY <1>1, <1>3, <1>4, GotoStep DEF ProgramCounters, Creating, Completing
<1>5. CASE Exit(q)
  BY <1>1, <1>2, <1>5, ExitStep DEF TypeOK
<1>6. CASE VoidOrder(q)
  <2>1. order[Key(q)].status \in OrderStatus
    BY <1>2 DEF TypeOK
  <2>2. PICK r \in Process : /\ r.pc = "release" /\ r.key = Key(q)
                             /\ proc' = [proc EXCEPT ![q] = r]
    BY <1>1, <1>2, <1>6, <2>1, Sees DEF VoidOrder, ProgramCounters
  <2>3. Knows(r) /\ r.pc \notin Creating /\ crashes' \in 0..MaxCrashes
    BY <1>1, <1>2, <1>3, <2>2 DEF Knows, Creating, TypeOK
  <2> QED BY <1>1, <2>2, <2>3, LocalStep
<1> QED BY <1>4, <1>5, <1>6 DEF KillSwitch, Authorize

\* A purchase to complete has its key answered.
LEMMA CompletePurchaseStep ==
    ASSUME IndInv, NEW q \in Requests, NEW k \in Keys, CompletePurchase(q, k)
    PROVE  IndInv'
<1>1. q \in Processes /\ TypeOK /\ Rows
  BY DEF Processes, IndInv, AssertionsHold, Rows
<1>2. PICK r \in Process : r = [pc |-> "killSwitch", key |-> k, seen |-> "NONE"]
  BY DEF Process, ProgramCounters, OrderStatus
<1>3. r.pc = "killSwitch" /\ r.key = k /\ proc' = [proc EXCEPT ![q] = r]
  BY <1>2 DEF CompletePurchase
<1>4. idem[k] = "COMPLETED"
  BY <1>1 DEF CompletePurchase, Rows, AssertionsHold
<1>5. Knows(r) /\ r.pc \notin Creating /\ crashes' \in 0..MaxCrashes
  BY <1>1, <1>3, <1>4 DEF Knows, Creating, TypeOK, CompletePurchase
<1> QED BY <1>1, <1>3, <1>5, LocalStep DEF CompletePurchase

\* A worker that takes an event or a due order, or polls the provider.
LEMMA WorkerLocalStep ==
    ASSUME IndInv, NEW w \in Workers, NEW k \in Keys, NEW type \in EventTypes,
           ReadWebhook(w, k, type) \/ OrderDue(w, k) \/ PollProvider(w)
    PROVE  IndInv'
<1>1. w \in Processes /\ TypeOK /\ Rows /\ crashes' \in 0..MaxCrashes
      /\ UNCHANGED <<tables, pay, halted, creates>>
  BY DEF Processes, IndInv, AssertionsHold, Rows, TypeOK, ReadWebhook, OrderDue, PollProvider
<1>2. CASE ReadWebhook(w, k, type)
  <2>1. PICK r \in Process : r = [pc |-> type, key |-> k,
            seen |-> IF order[k].known THEN order[k].status ELSE "NONE"]
    BY <1>1 DEF Process, ProgramCounters, OrderStatus, TypeOK
  <2>2. r.pc = type /\ r.key = k /\ proc' = [proc EXCEPT ![w] = r]
    BY <1>2, <2>1 DEF ReadWebhook
  <2>3. type = "payment.captured" => pay[k] \in Charged
    BY <1>1, <1>2 DEF ReadWebhook, Rows, RowsAgree
  <2>4. Knows(r) /\ r.pc \notin Creating
    BY <2>2, <2>3 DEF Knows, Creating, Completing, EventTypes
  <2> QED BY <1>1, <2>2, <2>4, LocalStep
<1>3. CASE OrderDue(w, k)
  <2>1. PICK r \in Process : r = [pc |-> "poll", key |-> k, seen |-> "NONE"]
    BY DEF Process, ProgramCounters, OrderStatus
  <2>2. r.pc = "poll" /\ r.key = k /\ proc' = [proc EXCEPT ![w] = r]
    BY <1>3, <2>1 DEF OrderDue
  <2>3. Knows(r) /\ r.pc \notin Creating
    BY <2>2 DEF Knows, Creating, Completing
  <2> QED BY <1>1, <2>2, <2>3, LocalStep
<1>4. CASE PollProvider(w)
  <2>1. proc[w].pc # "idle"
    BY <1>4 DEF PollProvider, At
  <2>2. Key(w) \in Keys
    BY <1>1, <2>1, Busy
  <2>3. CASE Exit(w)
    BY <1>1, <2>3, ExitStep
  <2>4. CASE ~ Exit(w)
    <3>1. PICK st \in LatestPayment(Key(w)) \cap {"captured", "failed"} :
            Saw(w, "reconcile", st)
      BY <1>4, <2>4 DEF PollProvider
    <3>2. st \in PayStatus /\ (st = "captured" => pay[Key(w)] \in Charged)
      BY <2>2 DEF LatestPayment, PayStatus, Charged
    <3>3. PICK r \in Process : /\ r.pc = "reconcile" /\ r.key = Key(w) /\ r.seen = st
                               /\ proc' = [proc EXCEPT ![w] = r]
      <4>1. "reconcile" \in ProgramCounters
        BY DEF ProgramCounters
      <4> QED BY <1>1, <3>1, <3>2, <4>1, Sees
    <3>4. Knows(r) /\ r.pc \notin Creating
      BY <2>2, <3>2, <3>3 DEF Knows, Creating, Completing
    <3> QED BY <1>1, <3>3, <3>4, LocalStep
  <2> QED BY <2>3, <2>4
<1> QED BY <1>2, <1>3, <1>4

-----------------------------------------------------------------------------
(* The steps of a process that change the tables or the provider.          *)

\* The row of an order takes a status: the checkout, a webhook, the poll.
LEMMA OrderStep ==
    ASSUME IndInv, NEW p \in Processes, NEW r \in Process, Knows(r), r.pc \notin Creating,
           proc' = [proc EXCEPT ![p] = r],
           NEW k \in Keys, NEW st \in OrderStatus \ {"NONE"}, SetStatus(k, st),
           st = "CAPTURED" => pay[k] \in Charged,
           inbox' \subseteq inbox,
           UNCHANGED <<mandate, resv, saga, idem, pay, halted, creates, crashes>>
    PROVE  IndInv'
<1>1. TypeOK /\ Rows
  BY DEF IndInv, AssertionsHold, Rows
<1>2. /\ order' \in [Keys -> Orders]
      /\ order'[k].status = st /\ order'[k].known = order[k].known
      /\ \A x \in Keys \ {k} : order'[x] = order[x]
  BY <1>1, StatusSet
<1>3. TypeOK'
  BY <1>1, <1>2 DEF TypeOK, Orders
<1>4. Rows'
  BY <1>1, <1>2, <1>3 DEF Rows, AssertionsHold, SettledIsCharged, OneRequestOrders,
     CapturedIsTrue, RowsAgree, Charged
<1>5. Steady(Owned(p)) /\ Knows(r)'
  BY DEF Steady, Knows
<1> QED BY <1>4, <1>5, ProcessStep

\* S4, its outcome recorded; a webhook or a poll applied.
LEMMA OrderStatusStep ==
    ASSUME IndInv, NEW p \in Processes,
           Captured(p) \/ CaptureFailed(p) \/ ApplyWebhook(p) \/ Reconcile(p)
    PROVE  IndInv'
<1>1. proc[p].pc # "idle"
  BY DEF Captured, CaptureFailed, ApplyWebhook, Reconcile, At, EventTypes
<1>2. TypeOK /\ Rows /\ Knows(proc[p]) /\ Key(p) \in Keys
  BY <1>1, Busy
<1>3. CASE Captured(p)
  <2>1. PICK r \in Process : /\ r.pc = "settle" /\ r.key = Key(p)
                             /\ proc' = [proc EXCEPT ![p] = r]
    BY <1>2, <1>3, Goes DEF Captured, ProgramCounters
  <2>2. pay[Key(p)] \in Charged /\ idem[Key(p)] = "COMPLETED"
    BY <1>2, <1>3 DEF Captured, At, Knows, Key, Completing
  <2>3. Knows(r) /\ r.pc \notin Creating
    BY <1>2, <2>1, <2>2 DEF Knows, Creating
  <2> QED BY <1>2, <1>3, <2>1, <2>2, <2>3, OrderStep DEF Captured, OrderStatus
<1>4. CASE CaptureFailed(p)
  <2>1. PICK r \in Process : /\ r.pc = "void" /\ r.key = Key(p)
                             /\ proc' = [proc EXCEPT ![p] = r]
    BY <1>2, <1>4, Goes DEF CaptureFailed, ProgramCounters
  <2>2. idem[Key(p)] = "COMPLETED"
    BY <1>2, <1>4 DEF CaptureFailed, At, Knows, Key, Completing
  <2>3. Knows(r) /\ r.pc \notin Creating
    BY <1>2, <2>1, <2>2 DEF Knows, Creating
  <2> QED BY <1>2, <1>4, <2>1, <2>3, OrderStep DEF CaptureFailed, OrderStatus
<1>5. CASE (ApplyWebhook(p) /\ proc[p].seen = "CREATED") \/ Reconcile(p)
  <2>1. PICK r \in Process : r.pc = "idle" /\ proc' = [proc EXCEPT ![p] = r]
    BY <1>5, Exits DEF ApplyWebhook, Reconcile
  <2>2. PICK st \in {"CAPTURED", "FAILED"} :
          SetStatus(Key(p), st) /\ (st = "CAPTURED" => pay[Key(p)] \in Charged)
    BY <1>2, <1>5 DEF ApplyWebhook, Reconcile, At, Knows, Key
  <2>3. Knows(r) /\ r.pc \notin Creating
    BY <2>1 DEF Knows, Creating, Completing
  <2>4. /\ inbox' \subseteq inbox
        /\ UNCHANGED <<mandate, resv, saga, idem, pay, halted, creates, crashes>>
    BY <1>5 DEF ApplyWebhook, Reconcile
  <2> QED BY <1>2, <2>1, <2>2, <2>3, <2>4, OrderStep DEF OrderStatus
<1>6. CASE ApplyWebhook(p) /\ proc[p].seen # "CREATED"
  <2>1. PICK r \in Process : r.pc = "idle" /\ proc' = [proc EXCEPT ![p] = r]
    BY <1>6, Exits DEF ApplyWebhook
  <2>2. TypeOK'
    BY <1>2, <1>6, <2>1 DEF ApplyWebhook, TypeOK
  <2>3. Rows'
    BY <1>2, <1>6, <2>2 DEF ApplyWebhook, Rows, AssertionsHold, SettledIsCharged,
       OneRequestOrders, CapturedIsTrue, RowsAgree
  <2>4. Steady(Owned(p)) /\ Knows(r)' /\ r.pc \notin Creating
    BY <1>6, <2>1 DEF ApplyWebhook, Steady, Knows, Creating, Completing
  <2> QED BY <2>1, <2>3, <2>4, ProcessStep
<1> QED BY <1>3, <1>4, <1>5, <1>6

\* A step that moves reservations, mandates, sagas and order rows: what it
\* owes to the rows of its key k, and to the process.
LEMMA BooksStep ==
    ASSUME IndInv, NEW p \in Processes, NEW r \in Process, proc' = [proc EXCEPT ![p] = r],
           r.pc \notin Creating, Knows(r)', TypeOK',
           NEW k \in Keys,
           \A x \in Keys \ {k} : saga'[x] = saga[x] /\ resv'[x] = resv[x] /\ order'[x] = order[x],
           resv[k] # "NONE" => resv'[k] # "NONE",
           resv[k] \in Closed => resv'[k] \in Closed,
           saga'[k] = "COMPLETED" => resv'[k] = "CAPTURED",
           resv'[k] = "CAPTURED" => pay[k] = "captured",
           saga'[k] = "AWAITING_AUTHORIZATION" =>
             saga[k] = "AWAITING_AUTHORIZATION" \/ idem[k] = "COMPLETED",
           order'[k].known = order[k].known,
           order'[k].status = order[k].status \/ order'[k].status = "FAILED",
           UNCHANGED <<idem, pay, inbox, halted, creates, crashes>>
    PROVE  IndInv'
<1>1. TypeOK /\ Rows
  BY DEF IndInv, AssertionsHold, Rows
<1>2. SettledIsCharged'
  BY <1>1 DEF Rows, SettledIsCharged
<1>3. OneRequestOrders' /\ CapturedIsTrue'
  BY <1>1 DEF Rows, OneRequestOrders, CapturedIsTrue
<1>4. RowsAgree'
  BY <1>1 DEF Rows, RowsAgree
<1>5. AssertionsHold'
  BY <1>1 DEF Rows, AssertionsHold
<1>6. Steady(Owned(p))
  BY DEF Steady
<1> QED BY <1>2, <1>3, <1>4, <1>5, <1>6, ProcessStep DEF Rows

\* The saga row is added; the gate's verdict or the compensation is recorded.
LEMMA SagaRowStep ==
    ASSUME IndInv, NEW q \in Requests, NEW k \in Keys,
           BeginPurchase(q, k) \/ ((RecordVerdict(q) \/ Finalize(q)) /\ k = Key(q))
    PROVE  IndInv'
<1>1. q \in Processes /\ TypeOK /\ Rows
  BY DEF Processes, IndInv, AssertionsHold, Rows
<1>2. PICK r \in Process : /\ r.pc \in {"idle", "halt"} /\ (r.pc = "halt" => r.key = k)
                           /\ proc' = [proc EXCEPT ![q] = r]
  <2>1. CASE BeginPurchase(q, k)
    <3>1. PICK r \in Process : r = [pc |-> "halt", key |-> k, seen |-> "NONE"]
      BY DEF Process, ProgramCounters, OrderStatus
    <3> QED BY <2>1, <3>1 DEF BeginPurchase
  <2>2. CASE Exit(q)
    BY <1>1, <2>2, Exits
  <2> QED BY <2>1, <2>2 DEF RecordVerdict, Finalize
<1>3. PICK st \in SagaStatus \ {"COMPLETED"} :
        /\ saga' = [saga EXCEPT ![k] = st]
        /\ st = "AWAITING_AUTHORIZATION" => idem[k] = "COMPLETED"
  <2>1. CASE BeginPurchase(q, k)
    BY <2>1 DEF BeginPurchase, SagaStatus
  <2>2. CASE Finalize(q) /\ k = Key(q)
    <3>1. saga' = [saga EXCEPT ![k] = "COMPENSATED"]
      BY <2>2 DEF Finalize
    <3>2. "COMPENSATED" \in SagaStatus \ {"COMPLETED"}
      BY DEF SagaStatus
    <3> QED BY <3>1, <3>2
  <2>3. CASE RecordVerdict(q) /\ k = Key(q)
    <3>1. Knows(proc[q])
      BY <1>1, <2>3, Busy DEF RecordVerdict
    <3>2. CASE At(q, "allow")
      <4>1. saga' = [saga EXCEPT ![k] = "AWAITING_AUTHORIZATION"]
        BY <2>3, <3>2 DEF RecordVerdict
      <4>2. idem[k] = "COMPLETED"
        BY <2>3, <3>1, <3>2 DEF Knows, At, Key
      <4>3. "AWAITING_AUTHORIZATION" \in SagaStatus \ {"COMPLETED"}
        BY DEF SagaStatus
      <4> QED BY <4>1, <4>2, <4>3
    <3>3. CASE ~ At(q, "allow")
      <4>1. saga' = [saga EXCEPT ![k] = "FAILED"]
        BY <2>3, <3>3 DEF RecordVerdict
      <4>2. "FAILED" \in SagaStatus \ {"COMPLETED"}
        BY DEF SagaStatus
      <4> QED BY <4>1, <4>2
    <3> QED BY <3>2, <3>3
  <2> QED BY <2>1, <2>2, <2>3
<1>4. UNCHANGED <<mandate, resv, idem, order, pay, inbox, halted, creates, crashes>>
  BY DEF BeginPurchase, RecordVerdict, Finalize
<1>5. TypeOK'
  BY <1>1, <1>2, <1>3, <1>4 DEF TypeOK
<1>6. r.pc \notin Creating /\ Knows(r)'
  BY <1>2 DEF Knows, Creating, Completing
<1> QED BY <1>1, <1>2, <1>3, <1>4, <1>5, <1>6, BooksStep DEF Rows, SettledIsCharged, TypeOK

\* G4: the reservation.
LEMMA G4Step ==
    ASSUME IndInv, NEW q \in Requests, G4(q)
    PROVE  IndInv'
<1>1. q \in Processes /\ proc[q].pc # "idle"
  BY DEF Processes, G4, At
<1>2. PICK k \in Keys : k = Key(q)
  BY <1>1, Busy
<1>3. TypeOK /\ Rows /\ MandateOf[k] \in Mandates
  BY <1>1, <1>2, Busy
<1>4. PICK r \in Process : r.pc = "claim" /\ r.key = k /\ proc' = [proc EXCEPT ![q] = r]
  BY <1>1, <1>2, <1>3, Goes DEF G4, ProgramCounters
<1>5. resv' = [resv EXCEPT ![k] = IF @ = "NONE" THEN "HELD" ELSE @]
  BY <1>2, <1>3 DEF G4, Ledger!Reserve, Ledger!Move, TypeOK
<1>6. UNCHANGED <<saga, idem, order, pay, inbox, halted, creates, crashes>>
  BY DEF G4
<1>7. TypeOK'
  <2>1. mandate' \in [Mandates -> MandateStatus]
    BY <1>2, <1>3 DEF G4, TypeOK, MandateStatus
  <2> QED BY <1>3, <1>4, <1>5, <1>6, <2>1 DEF TypeOK, Ledger!States
<1>8. resv'[k] # "NONE" /\ \A x \in Keys \ {k} : resv'[x] = resv[x]
  BY <1>3, <1>5 DEF TypeOK
<1>9. r.pc \notin Creating /\ Knows(r)'
  BY <1>4, <1>8 DEF Knows, Creating, Completing
<1> QED BY <1>1, <1>3, <1>4, <1>5, <1>6, <1>7, <1>8, <1>9, BooksStep
    DEF Rows, SettledIsCharged, TypeOK, Closed, AssertionsHold

\* C1, C2 and C3, C5: the order is failed or left alone, the reservation goes
\* back to the budget if it is held, the mandate is compensated.
LEMMA CompensationStep ==
    ASSUME IndInv, NEW q \in Requests, C1(q) \/ VoidAndRelease(q) \/ Reverse(q)
    PROVE  IndInv'
<1>1. q \in Processes /\ proc[q].pc # "idle"
  BY DEF Processes, C1, VoidAndRelease, Reverse, At
<1>2. PICK k \in Keys : k = Key(q)
  BY <1>1, Busy
<1>3. TypeOK /\ Rows /\ MandateOf[k] \in Mandates /\ Knows(proc[q])
  BY <1>1, <1>2, Busy
<1>4. PICK r \in Process : /\ r.pc \in {"deny", "finalize"} /\ r.key = k
                           /\ r.pc = "finalize" => idem[k] = "COMPLETED"
                           /\ proc' = [proc EXCEPT ![q] = r]
  <2>1. CASE C1(q)
    BY <1>1, <1>2, <1>3, <2>1, Goes DEF C1, ProgramCounters
  <2>2. CASE VoidAndRelease(q) \/ Reverse(q)
    <3>1. idem[k] = "COMPLETED"
      BY <1>2, <1>3, <2>2 DEF VoidAndRelease, Reverse, At, Knows, Key, Completing
    <3> QED BY <1>1, <1>2, <1>3, <2>2, <3>1, Goes DEF VoidAndRelease, Reverse, ProgramCounters
  <2> QED BY <2>1, <2>2
<1>5. resv' = resv \/ (resv[k] = "HELD" /\ resv' = [resv EXCEPT ![k] = "RELEASED"])
  <2>1. CASE C1(q) \/ VoidAndRelease(q)
    BY <1>2, <2>1 DEF C1, VoidAndRelease, Release, Ledger!Release, Ledger!Move
  <2>2. CASE Reverse(q)
    <3>1. resv[k] \in Closed
      BY <1>2, <1>3, <2>2 DEF Reverse, At, Knows, Key
    <3> QED BY <1>2, <2>2, <3>1 DEF Reverse, ReverseSettlement, Closed
  <2> QED BY <2>1, <2>2
<1>6. /\ order' \in [Keys -> Orders]
      /\ order'[k].known = order[k].known
      /\ order'[k].status = order[k].status \/ order'[k].status = "FAILED"
      /\ \A x \in Keys \ {k} : order'[x] = order[x]
  <2>1. CASE UNCHANGED order
    BY <1>3, <2>1 DEF TypeOK, Orders
  <2>2. CASE SetStatus(k, "FAILED")
    BY <1>3, <2>2, StatusSet DEF OrderStatus
  <2> QED BY <1>2, <2>1, <2>2 DEF C1, VoidAndRelease, Reverse
<1>7. UNCHANGED <<saga, idem, pay, inbox, halted, creates, crashes>>
  BY DEF C1, VoidAndRelease, Reverse
<1>8. TypeOK'
  <2>1. mandate' \in [Mandates -> MandateStatus]
    BY <1>2, <1>3 DEF C1, VoidAndRelease, Reverse, MarkCompensated, TypeOK, MandateStatus
  <2>2. resv' \in [Keys -> Ledger!States]
    BY <1>3, <1>5 DEF TypeOK, Ledger!States
  <2>3. order' \in [Keys -> [status : OrderStatus, known : BOOLEAN]]
    BY <1>6 DEF Orders
  <2> QED BY <1>3, <1>4, <1>7, <2>1, <2>2, <2>3 DEF TypeOK
<1>9. /\ resv[k] # "NONE" => resv'[k] # "NONE"
      /\ resv[k] \in Closed => resv'[k] \in Closed
      /\ saga[k] = "COMPLETED" => resv'[k] = "CAPTURED"
      /\ resv'[k] = "CAPTURED" => pay[k] = "captured"
      /\ \A x \in Keys \ {k} : resv'[x] = resv[x]
  BY <1>3, <1>5 DEF TypeOK, Closed, Rows, SettledIsCharged
<1>10. r.pc \notin Creating /\ Knows(r)'
  BY <1>4, <1>7 DEF Knows, Creating, Completing
<1> QED BY <1>1, <1>4, <1>6, <1>7, <1>8, <1>9, <1>10, BooksStep

\* S5: the reservation is captured with a payment that is charged, or the
\* refund follows.
LEMMA SettleStep ==
    ASSUME IndInv, NEW q \in Requests, Settle(q)
    PROVE  IndInv'
<1>1. q \in Processes /\ proc[q].pc # "idle"
  BY DEF Processes, Settle, At
<1>2. PICK k \in Keys : k = Key(q)
  BY <1>1, Busy
<1>3. TypeOK /\ Rows /\ MandateOf[k] \in Mandates /\ Knows(proc[q])
  BY <1>1, <1>2, Busy
<1>4. pay[k] \in Charged /\ idem[k] = "COMPLETED"
  BY <1>2, <1>3 DEF Settle, At, Knows, Key, Completing
<1>5. CASE resv[k] \in {"HELD", "CAPTURED"}
  <2>1. PICK r \in Process : r.pc = "idle" /\ proc' = [proc EXCEPT ![q] = r]
    BY <1>1, <1>2, <1>5, Exits DEF Settle
  <2>2. resv' = [resv EXCEPT ![k] = "CAPTURED"] /\ saga' = [saga EXCEPT ![k] = "COMPLETED"]
    BY <1>2, <1>3, <1>5 DEF Settle, Ledger!Capture, Ledger!Move, TypeOK
  <2>3. UNCHANGED <<idem, order, pay, inbox, halted, creates, crashes>>
    BY DEF Settle
  <2>4. TypeOK'
    <3>1. mandate' \in [Mandates -> MandateStatus]
      BY <1>2, <1>3, <1>5 DEF Settle, TypeOK, MandateStatus
    <3> QED BY <1>3, <2>1, <2>2, <2>3, <3>1 DEF TypeOK, Ledger!States, SagaStatus
  <2>5. r.pc \notin Creating /\ Knows(r)'
    BY <2>1 DEF Knows, Creating, Completing
  <2>6. pay[k] = "captured"
    BY <1>3, <1>4, <1>5 DEF Rows, RowsAgree, Charged, Closed
  <2> QED BY <1>1, <1>3, <1>5, <2>1, <2>2, <2>3, <2>4, <2>5, <2>6, BooksStep DEF TypeOK, Closed
<1>6. CASE resv[k] \notin {"HELD", "CAPTURED"}
  <2>1. Goto(q, "refund") /\ UNCHANGED <<tables, pay, halted, creates, crashes>>
    BY <1>2, <1>6 DEF Settle, tables
  <2>2. resv[k] \in Closed
    <3>1. resv[k] # "NONE"
      BY <1>3, <1>4 DEF Rows, RowsAgree
    <3> QED BY <1>3, <1>6, <3>1 DEF TypeOK, Ledger!States, Closed
  <2> QED BY <1>1, <1>2, <1>4, <2>1, <2>2, GotoStep DEF ProgramCounters, Creating
<1> QED BY <1>5, <1>6

\* create_provider_order, first transaction: the key is claimed, with its
\* order row, or answered.
LEMMA ClaimStep ==
    ASSUME IndInv, NEW q \in Requests, Claim(q)
    PROVE  IndInv'
<1>1. q \in Processes /\ proc[q].pc # "idle" /\ proc[q].pc \notin Creating
  BY DEF Processes, Claim, At, Creating
<1>2. PICK k \in Keys : k = Key(q)
  BY <1>1, Busy
<1>3. TypeOK /\ Rows /\ Knows(proc[q])
  BY <1>1, Busy
<1>4. resv[k] # "NONE"
  BY <1>2, <1>3 DEF Claim, At, Knows, Key
<1>5. CASE idem[k] # "NONE"
  <2>1. UNCHANGED <<tables, pay, halted, creates, crashes>>
    BY <1>2, <1>5 DEF Claim, tables
  <2>2. CASE idem[k] = "COMPLETED"
    <3>1. Goto(q, "allow")
      BY <1>2, <1>5, <2>2 DEF Claim
    <3> QED BY <1>1, <1>2, <2>1, <2>2, <3>1, GotoStep DEF ProgramCounters, Creating, Completing
  <2>3. CASE idem[k] = "FAILED"
    <3>1. Goto(q, "deny")
      BY <1>2, <1>5, <2>3 DEF Claim
    <3> QED BY <1>1, <1>2, <2>1, <3>1, GotoStep DEF ProgramCounters, Creating, Completing
  <2>4. CASE idem[k] = "IN_FLIGHT"
    <3>1. Goto(q, "await")
      BY <1>2, <1>5, <2>4 DEF Claim
    <3> QED BY <1>1, <1>2, <1>4, <2>1, <3>1, GotoStep DEF ProgramCounters, Creating, Completing
  <2> QED BY <1>3, <1>5, <2>2, <2>3, <2>4 DEF TypeOK
<1>6. CASE idem[k] = "NONE"
  <2>1. /\ idem' = [idem EXCEPT ![k] = "IN_FLIGHT"]
        /\ SetStatus(k, "CREATED") /\ Goto(q, "createOrder")
        /\ UNCHANGED <<mandate, resv, saga, pay, inbox, halted, creates, crashes>>
    BY <1>2, <1>6 DEF Claim
  <2>2. PICK r \in Process : r.pc = "createOrder" /\ r.key = k /\ proc' = [proc EXCEPT ![q] = r]
    BY <1>1, <1>2, <1>3, <2>1, Goes DEF ProgramCounters
  <2>3. /\ order' \in [Keys -> Orders]
        /\ order'[k].status = "CREATED" /\ order'[k].known = order[k].known
        /\ \A x \in Keys \ {k} : order'[x] = order[x]
    BY <1>3, <2>1, StatusSet DEF OrderStatus
  <2>4. /\ idem' \in [Keys -> {"NONE", "IN_FLIGHT", "COMPLETED", "FAILED"}]
        /\ idem'[k] = "IN_FLIGHT" /\ \A x \in Keys \ {k} : idem'[x] = idem[x]
    BY <1>3, <2>1 DEF TypeOK
  <2>5. TypeOK'
    BY <1>3, <2>1, <2>2, <2>3, <2>4 DEF TypeOK, Orders
  <2>6. Rows'
    BY <1>3, <1>4, <1>6, <2>1, <2>3, <2>4, <2>5 DEF Rows, AssertionsHold, SettledIsCharged,
       OneRequestOrders, CapturedIsTrue, RowsAgree
  <2>7. creates[k] = 0 /\ pay[k] = "none"
    BY <1>3, <1>6 DEF Rows, RowsAgree
  <2>8. Steady(Owned(q)) /\ Knows(r)'
    BY <1>6, <2>1, <2>2, <2>4, <2>7, max_retry_attempts \in Nat \ {0} DEF Steady, Knows, Completing
  <2> QED BY <1>1, <1>6, <2>2, <2>6, <2>8, ProcessStep
<1> QED BY <1>5, <1>6

\* A try that made an order and timed out: one of the tries of the call.
LEMMA RetryCallStep ==
    ASSUME IndInv, NEW q \in Requests, RetryCall(q)
    PROVE  IndInv'
<1>1. q \in Processes /\ proc[q].pc = "createOrder"
  BY DEF Processes, RetryCall, At
<1>2. PICK k \in Keys : k = Key(q)
  BY <1>1, Busy
<1>3. TypeOK /\ Rows /\ Knows(proc[q])
  BY <1>1, Busy
<1>4. PICK r \in Process : r = proc[q] /\ r.pc = "createOrder" /\ r.key = k
  BY <1>1, <1>2, <1>3 DEF TypeOK, Key
<1>5. proc' = [proc EXCEPT ![q] = r]
  BY <1>1, <1>3, <1>4 DEF RetryCall, TypeOK
<1>6. idem[k] = "IN_FLIGHT" /\ pay[k] = "none" /\ Owned(q) = {k}
  BY <1>1, <1>3, <1>4 DEF Knows, Creating, Owned
<1>7. /\ creates' \in [Keys -> Nat] /\ creates'[k] < max_retry_attempts
      /\ \A x \in Keys \ {k} : creates'[x] = creates[x]
  BY <1>2, <1>3 DEF RetryCall, TypeOK
<1>8. UNCHANGED <<mandate, resv, saga, idem, order, pay, inbox, halted, crashes>>
  BY DEF RetryCall, tables
<1>9. TypeOK'
  BY <1>3, <1>4, <1>5, <1>7, <1>8 DEF TypeOK
<1>10. Rows'
  BY <1>3, <1>6, <1>7, <1>8, <1>9 DEF Rows, AssertionsHold, SettledIsCharged,
     OneRequestOrders, CapturedIsTrue, RowsAgree, TypeOK
<1>11. Steady(Owned(q)) /\ Knows(r)'
  BY <1>3, <1>4, <1>6, <1>7, <1>8 DEF Steady, Knows, Creating, Completing
<1> QED BY <1>1, <1>4, <1>5, <1>6, <1>10, <1>11, ProcessStep

\* The last try is the owner's, too.
LEMMA CreateOrderStep ==
    ASSUME IndInv, NEW q \in Requests, CreateOrder(q)
    PROVE  IndInv'
<1>1. q \in Processes /\ proc[q].pc = "createOrder"
  BY DEF Processes, CreateOrder, At
<1>2. PICK k \in Keys : k = Key(q)
  BY <1>1, Busy
<1>3. TypeOK /\ Rows /\ Knows(proc[q])
  BY <1>1, Busy
<1>4. /\ idem[k] = "IN_FLIGHT" /\ pay[k] = "none" /\ Owned(q) = {k}
      /\ creates[k] < max_retry_attempts
  BY <1>1, <1>2, <1>3 DEF Knows, Key, Creating, Owned
<1>5. resv[k] # "NONE" /\ order[k].status # "NONE"
  BY <1>3, <1>4 DEF Rows, RowsAgree
<1>6. PICK r \in Process : /\ r.pc \in {"orderCreated", "orderFailed", "C1"} /\ r.key = k
                           /\ proc' = [proc EXCEPT ![q] = r]
  <2>1. PICK pc \in {"orderCreated", "orderFailed", "C1"} : Goto(q, pc)
    BY DEF CreateOrder
  <2>2. pc \in ProgramCounters
    BY DEF ProgramCounters
  <2> QED BY <1>1, <1>2, <1>3, <2>1, <2>2, Goes
<1>7. /\ creates' \in [Keys -> Nat] /\ creates'[k] <= max_retry_attempts
      /\ \A x \in Keys \ {k} : creates'[x] = creates[x]
  <2>1. CASE UNCHANGED creates
    BY <1>3, <1>4, <2>1 DEF TypeOK
  <2>2. CASE creates' = [creates EXCEPT ![k] = @ + 1]
    BY <1>3, <1>4, <2>2 DEF TypeOK
  <2> QED BY <1>2, <2>1, <2>2 DEF CreateOrder
<1>8. /\ pay' \in [Keys -> PayStatus] /\ pay'[k] \in PayStatus \ Charged
      /\ \A x \in Keys \ {k} : pay'[x] = pay[x]
  BY <1>2, <1>3, <1>4 DEF CreateOrder, TypeOK, PayStatus, Charged
<1>9. creates'[k] = 0 => pay'[k] = "none"
  <2>1. CASE UNCHANGED pay
    BY <1>4, <2>1
  <2>2. CASE creates' = [creates EXCEPT ![k] = @ + 1]
    BY <1>3, <2>2 DEF TypeOK
  <2> QED BY <1>2, <2>1, <2>2 DEF CreateOrder
<1>10. UNCHANGED <<mandate, resv, saga, idem, order, inbox, halted, crashes>>
  BY DEF CreateOrder, tables
<1>11. TypeOK'
  BY <1>3, <1>6, <1>7, <1>8, <1>10 DEF TypeOK
<1>12. Rows'
  BY <1>3, <1>4, <1>5, <1>7, <1>8, <1>9, <1>10, <1>11 DEF Rows, AssertionsHold,
     SettledIsCharged, OneRequestOrders, CapturedIsTrue, RowsAgree, Charged
<1>13. Steady(Owned(q)) /\ Knows(r)'
  BY <1>4, <1>5, <1>6, <1>7, <1>8, <1>10 DEF Steady, Knows, Creating, Completing, Charged
<1> QED BY <1>1, <1>4, <1>6, <1>12, <1>13, ProcessStep

\* create_provider_order, second transaction: the owner answers for its key.
LEMMA AnswerStep ==
    ASSUME IndInv, NEW q \in Requests, OrderCreated(q) \/ OrderFailed(q)
    PROVE  IndInv'
<1>1. q \in Processes /\ proc[q].pc # "idle" /\ proc[q].pc \in Creating
  BY DEF Processes, OrderCreated, OrderFailed, At, Creating
<1>2. PICK k \in Keys : k = Key(q)
  BY <1>1, Busy
<1>3. TypeOK /\ Rows /\ Knows(proc[q])
  BY <1>1, Busy
<1>4. idem[k] = "IN_FLIGHT" /\ Owned(q) = {k}
  BY <1>1, <1>2, <1>3 DEF Knows, Key, Owned
<1>5. resv[k] # "NONE" /\ order[k].status # "NONE"
  BY <1>3, <1>4 DEF Rows, RowsAgree
<1>6. PICK r \in Process :
        /\ (OrderCreated(q) /\ r.pc = "allow") \/ (OrderFailed(q) /\ r.pc = "C1")
        /\ r.key = k /\ proc' = [proc EXCEPT ![q] = r]
  <2>1. CASE OrderCreated(q)
    <3>1. Goto(q, "allow")
      BY <2>1 DEF OrderCreated
    <3> QED BY <1>1, <1>2, <1>3, <2>1, <3>1, Goes DEF ProgramCounters
  <2>2. CASE OrderFailed(q)
    <3>1. Goto(q, "C1")
      BY <2>2 DEF OrderFailed
    <3> QED BY <1>1, <1>2, <1>3, <2>2, <3>1, Goes DEF ProgramCounters
  <2> QED BY <2>1, <2>2
<1>7. /\ order' \in [Keys -> Orders]
      /\ \A x \in Keys \ {k} : order'[x] = order[x]
      /\ OrderCreated(q) => order'[k].known /\ order'[k].status = order[k].status
      /\ OrderFailed(q) => order'[k].known = order[k].known /\ order'[k].status = "FAILED"
  <2>1. CASE OrderCreated(q)
    <3>1. order \in [Keys -> Orders]
      BY <1>3 DEF TypeOK, Orders
    <3>2. order' = [order EXCEPT ![k] = [order[k] EXCEPT !.known = TRUE]]
      BY <1>2, <2>1 DEF OrderCreated
    <3>3. order' = [order EXCEPT ![k] = [status |-> order[k].status, known |-> TRUE]]
      BY <3>1, <3>2, KnownUpdate
    <3>4. ~ OrderFailed(q)
      BY <2>1 DEF OrderCreated, OrderFailed, At
    <3> QED BY <3>1, <3>3, <3>4 DEF Orders
  <2>2. CASE OrderFailed(q)
    <3>1. SetStatus(k, "FAILED") /\ ~ OrderCreated(q)
      BY <1>2, <2>2 DEF OrderCreated, OrderFailed, At
    <3> QED BY <1>3, <3>1, StatusSet DEF OrderStatus
  <2> QED BY <2>1, <2>2
<1>8. /\ idem' \in [Keys -> {"NONE", "IN_FLIGHT", "COMPLETED", "FAILED"}]
      /\ OrderCreated(q) => idem'[k] = "COMPLETED"
      /\ OrderFailed(q) => idem'[k] = "FAILED"
      /\ \A x \in Keys \ {k} : idem'[x] = idem[x]
  BY <1>2, <1>3 DEF OrderCreated, OrderFailed, TypeOK
<1>9. UNCHANGED <<mandate, resv, saga, pay, inbox, halted, creates, crashes>>
  BY DEF OrderCreated, OrderFailed
<1>10. TypeOK'
  BY <1>3, <1>6, <1>7, <1>8, <1>9 DEF TypeOK, Orders
<1>11. Rows'
  BY <1>3, <1>4, <1>5, <1>6, <1>7, <1>8, <1>9, <1>10 DEF Rows, AssertionsHold,
     SettledIsCharged, OneRequestOrders, CapturedIsTrue, RowsAgree
<1>12. Steady(Owned(q)) /\ Knows(r)' /\ r.pc \notin Creating
  BY <1>4, <1>5, <1>6, <1>8, <1>9 DEF Steady, Knows, Creating, Completing
<1> QED BY <1>1, <1>6, <1>11, <1>12, ProcessStep

\* A step of a process that changes the payment of its key: a capture of a
\* payment that is authorized, a refund of one whose reservation is closed.
LEMMA PaymentStep ==
    ASSUME IndInv, NEW p \in Processes, NEW r \in Process, proc' = [proc EXCEPT ![p] = r],
           r.pc \notin Creating, Knows(r)',
           NEW k \in Keys, NEW st \in Charged, pay' = [pay EXCEPT ![k] = st],
           pay[k] # "none",
           st = "captured" => pay[k] # "refunded",
           st = "refunded" => resv[k] \in Closed,
           UNCHANGED <<tables, halted, creates, crashes>>
    PROVE  IndInv'
<1>1. TypeOK /\ Rows
  BY DEF IndInv, AssertionsHold, Rows
<1>2. /\ pay' \in [Keys -> PayStatus] /\ pay'[k] = st
      /\ \A x \in Keys \ {k} : pay'[x] = pay[x]
  BY <1>1 DEF TypeOK, PayStatus, Charged
<1>3. TypeOK'
  BY <1>1, <1>2 DEF TypeOK, tables
<1>4. Rows'
  BY <1>1, <1>2, <1>3 DEF Rows, AssertionsHold, SettledIsCharged, OneRequestOrders,
     CapturedIsTrue, RowsAgree, Charged, Closed, tables
<1>5. Steady(Owned(p))
  BY <1>2 DEF Steady, tables
<1> QED BY <1>4, <1>5, ProcessStep

\* S4, the provider's part.
LEMMA CaptureStep ==
    ASSUME IndInv, NEW q \in Requests, Capture(q)
    PROVE  IndInv'
<1>1. q \in Processes /\ proc[q].pc # "idle" /\ UNCHANGED <<tables, halted, creates, crashes>>
  BY DEF Processes, Capture, At
<1>2. PICK k \in Keys : k = Key(q)
  BY <1>1, Busy
<1>3. TypeOK /\ Rows /\ Knows(proc[q])
  BY <1>1, Busy
<1>4. idem[k] = "COMPLETED"
  BY <1>2, <1>3 DEF Capture, At, Knows, Key, Completing
<1>5. CASE Goto(q, "captureFailed") /\ UNCHANGED pay
  BY <1>1, <1>2, <1>4, <1>5, GotoStep DEF ProgramCounters, Creating, Completing
<1>6. CASE /\ pay[k] \in {"authorized", "captured", "refunded"}
           /\ pay' = [pay EXCEPT ![k] = IF @ = "refunded" THEN @ ELSE "captured"]
           /\ Goto(q, "captured") \/ Goto(q, "captureFailed")
  <2>1. PICK r \in Process : /\ r.pc \in {"captured", "captureFailed"} /\ r.key = k
                             /\ proc' = [proc EXCEPT ![q] = r]
    BY <1>1, <1>2, <1>3, <1>6, Goes DEF ProgramCounters
  <2>2. PICK st \in Charged : /\ pay' = [pay EXCEPT ![k] = st]
                              /\ (st = "refunded") <=> (pay[k] = "refunded")
    BY <1>6 DEF Charged
  <2>3. pay'[k] \in Charged /\ idem'[k] = "COMPLETED"
    BY <1>1, <1>3, <1>4, <2>2 DEF TypeOK, tables
  <2>4. r.pc \notin Creating /\ Knows(r)'
    BY <2>1, <2>3 DEF Knows, Creating
  <2>5. pay[k] # "none" /\ (st = "refunded" => resv[k] \in Closed)
    BY <1>3, <1>6, <2>2 DEF Rows, RowsAgree
  <2>6. st = "captured" => pay[k] # "refunded"
    BY <2>2
  <2> QED BY <1>1, <2>1, <2>2, <2>4, <2>5, <2>6, PaymentStep
<1> QED BY <1>2, <1>5, <1>6 DEF Capture

\* C4: nobody can settle the reservation any more.
LEMMA RefundStep ==
    ASSUME IndInv, NEW q \in Requests, Refund(q)
    PROVE  IndInv'
<1>1. q \in Processes /\ proc[q].pc # "idle" /\ UNCHANGED <<tables, halted, creates, crashes>>
  BY DEF Processes, Refund, At
<1>2. PICK k \in Keys : k = Key(q)
  BY <1>1, Busy
<1>3. TypeOK /\ Rows /\ Knows(proc[q])
  BY <1>1, Busy
<1>4. idem[k] = "COMPLETED" /\ resv[k] \in Closed /\ pay[k] \in Charged
  BY <1>2, <1>3 DEF Refund, At, Knows, Key, Completing
<1>5. CASE Exit(q) /\ UNCHANGED pay
  BY <1>1, <1>3, <1>5, ExitStep DEF TypeOK
<1>6. CASE pay' = [pay EXCEPT ![k] = "refunded"] /\ (Goto(q, "reverse") \/ Exit(q))
  <2>1. PICK r \in Process : /\ r.pc = "idle" \/ (r.pc = "reverse" /\ r.key = k)
                             /\ proc' = [proc EXCEPT ![q] = r]
    BY <1>1, <1>2, <1>3, <1>6, Goes, Exits DEF ProgramCounters
  <2>2. pay'[k] = "refunded" /\ idem'[k] = "COMPLETED" /\ resv'[k] \in Closed
    BY <1>1, <1>3, <1>4, <1>6 DEF TypeOK, tables
  <2>3. r.pc \notin Creating /\ Knows(r)'
    BY <2>1, <2>2 DEF Knows, Creating, Completing, Charged
  <2> QED BY <1>1, <1>4, <1>6, <2>1, <2>3, PaymentStep DEF Charged
<1> QED BY <1>2, <1>5, <1>6 DEF Refund

\* The sweeper, the payer, the provider, the owner and the operator.
LEMMA EnvironmentKeeps ==
    ASSUME IndInv, Environment
    PROVE  IndInv'
<1>1. TypeOK /\ Rows
  BY DEF IndInv, AssertionsHold, Rows
<1> USE DEF Rows, AssertionsHold, SettledIsCharged, OneRequestOrders, CapturedIsTrue, RowsAgree
<1>2. ASSUME NEW S \in SUBSET Keys, Sweep(S) PROVE IndInv'
  <2>1. /\ UNCHANGED <<mandate, saga, idem, order, pay, inbox, proc, halted, creates, crashes>>
        /\ resv' = [k \in Keys |-> IF k \in S THEN "EXPIRED" ELSE resv[k]]
        /\ \A k \in S : resv[k] = "HELD"
    BY <1>2 DEF Sweep, Ledger!Expire
  <2>2. TypeOK'
    BY <1>1, <2>1 DEF TypeOK, Ledger!States
  <2>3. Rows' /\ Steady({})
    BY <1>1, <2>1, <2>2 DEF Steady, Closed, TypeOK
  <2> QED BY <2>1, <2>3, EnvironmentStep
<1>3. ASSUME NEW k \in Keys, PayerActs(k) PROVE IndInv'
  <2>1. /\ UNCHANGED <<mandate, resv, saga, idem, order, inbox, proc, halted, creates, crashes>>
        /\ pay[k] \in {"created", "authorized"}
        /\ pay'[k] \in {"authorized", "failed", "captured"}
        /\ \A x \in Keys \ {k} : pay'[x] = pay[x]
        /\ pay' \in [Keys -> PayStatus]
    BY <1>1, <1>3 DEF PayerActs, tables, TypeOK, PayStatus
  <2>2. TypeOK'
    BY <1>1, <2>1 DEF TypeOK
  <2>3. Rows' /\ Steady({})
    BY <1>1, <2>1, <2>2 DEF Steady, Charged
  <2> QED BY <2>1, <2>3, EnvironmentStep
<1>4. ASSUME NEW k \in Keys, NEW type \in EventTypes, DeliverWebhook(k, type) PROVE IndInv'
  <2>1. /\ UNCHANGED <<mandate, resv, saga, idem, order, pay, proc, halted, creates, crashes>>
        /\ inbox' = inbox \cup {<<k, type>>}
        /\ type # "payment.failed" => pay[k] \in Charged
    BY <1>4 DEF DeliverWebhook, Charged
  <2>2. TypeOK'
    BY <1>1, <2>1 DEF TypeOK
  <2>3. Rows' /\ Steady({})
    BY <1>1, <2>1, <2>2 DEF Steady
  <2> QED BY <2>1, <2>3, EnvironmentStep
<1>5. ASSUME NEW m \in Mandates, Revoke(m) PROVE IndInv'
  <2>1. TypeOK'
    BY <1>1, <1>5 DEF Revoke, TypeOK, MandateStatus
  <2>2. Rows' /\ Steady({}) /\ UNCHANGED proc
    BY <1>1, <1>5, <2>1 DEF Revoke, Steady
  <2> QED BY <2>2, EnvironmentStep
<1>6. ASSUME TripHalt PROVE IndInv'
  <2>1. TypeOK'
    BY <1>1, <1>6 DEF TripHalt, TypeOK, tables
  <2>2. Rows' /\ Steady({}) /\ UNCHANGED proc
    BY <1>1, <1>6, <2>1 DEF TripHalt, Steady, tables
  <2> QED BY <2>2, EnvironmentStep
<1> QED BY <1>2, <1>3, <1>4, <1>5, <1>6 DEF Environment

-----------------------------------------------------------------------------
\* Every step of every request, worker and outsider keeps the invariant.
LEMMA NextIndInv == IndInv /\ [Next]_vars => IndInv'
<1> SUFFICES ASSUME IndInv, [Next]_vars PROVE IndInv'
  OBVIOUS
<1>1. ASSUME NEW q \in Requests, GateStep(q) PROVE IndInv'
  <2>1. CASE CheckHalt(q) \/ G1(q) \/ GateDenies(q) \/ ClaimFails(q) \/ AwaitInFlight(q)
               \/ RetryCreate(q)
    BY <2>1, GateLocalStep
  <2>2. CASE RecordVerdict(q)
    <3>1. q \in Processes /\ proc[q].pc # "idle"
      BY <2>2 DEF Processes, RecordVerdict
    <3>2. Key(q) \in Keys
      BY <3>1, Busy
    <3> QED BY <2>2, <3>2, SagaRowStep
  <2> QED BY <1>1, <2>1, <2>2, G4Step, ClaimStep, RetryCallStep, CreateOrderStep, AnswerStep,
         CompensationStep DEF GateStep
<1>2. ASSUME NEW q \in Requests, CompleteStep(q) PROVE IndInv'
  <2>1. CASE Finalize(q)
    <3>1. q \in Processes /\ proc[q].pc # "idle"
      BY <2>1 DEF Processes, Finalize, At
    <3>2. Key(q) \in Keys
      BY <3>1, Busy
    <3> QED BY <2>1, <3>2, SagaRowStep
  <2>2. CASE Captured(q) \/ CaptureFailed(q)
    BY <2>2, OrderStatusStep DEF Processes
  <2> QED BY <1>2, <2>1, <2>2, CompleteLocalStep, CaptureStep, SettleStep, CompensationStep,
         RefundStep DEF CompleteStep
<1>3. ASSUME NEW q \in Requests, NEW k \in Keys, BeginPurchase(q, k) \/ CompletePurchase(q, k)
      PROVE  IndInv'
  BY <1>3, SagaRowStep, CompletePurchaseStep
<1>4. ASSUME NEW w \in Workers, NEW k \in Keys, NEW type \in EventTypes,
             ReadWebhook(w, k, type) \/ OrderDue(w, k)
      PROVE  IndInv'
  BY <1>4, WorkerLocalStep
<1>5. ASSUME NEW w \in Workers, WorkerStep(w) PROVE IndInv'
  <2>1. CASE ApplyWebhook(w) \/ Reconcile(w)
    BY <2>1, OrderStatusStep DEF Processes
  <2>2. CASE PollProvider(w)
    <3>1. w \in Processes /\ proc[w].pc # "idle"
      BY <2>2 DEF Processes, PollProvider, At
    <3>2. Key(w) \in Keys /\ EventTypes # {}
      BY <3>1, Busy DEF EventTypes
    <3> QED BY <2>2, <3>2, WorkerLocalStep
  <2> QED BY <1>5, <2>1, <2>2 DEF WorkerStep
<1>6. ASSUME NEW p \in Processes, Crash(p) PROVE IndInv'
  <2>1. crashes' \in 0..MaxCrashes
    BY <1>6 DEF Crash, IndInv, AssertionsHold, TypeOK
  <2> QED BY <1>6, <2>1, ExitStep DEF Crash
<1>7. ASSUME UNCHANGED vars PROVE IndInv'
  BY <1>7 DEF vars, IndInv, AssertionsHold, TypeOK, SettledIsCharged, OneRequestOrders,
     CapturedIsTrue, RowsAgree, ProcessKnows, Knows, OneOwner, Key
<1>8. CASE \E q \in Requests :
             \/ \E k \in Keys : BeginPurchase(q, k) \/ CompletePurchase(q, k)
             \/ GateStep(q) \/ CompleteStep(q)
  BY <1>8, <1>1, <1>2, <1>3
<1>9. CASE \E w \in Workers :
             \/ \E k \in Keys, type \in EventTypes : ReadWebhook(w, k, type)
             \/ \E k \in Keys : OrderDue(w, k)
             \/ WorkerStep(w)
  <2>1. EventTypes # {}
    BY DEF EventTypes
  <2> QED BY <1>9, <1>4, <1>5, <2>1
<1> QED BY <1>6, <1>7, <1>8, <1>9, EnvironmentKeeps DEF Next

\* IndInv holds throughout every purchase.
THEOREM SagaInvariant == Spec => []IndInv
<1> QED BY InitIndInv, NextIndInv, PTL DEF Spec

(***************************************************************************)
(* saga.py S5, C4 and C5: whatever requests, workers, sweeps and crashes   *)
(* do, the ledger books no money the provider does not hold.               *)
(***************************************************************************)
THEOREM SettledPurchasesAreCharged == Spec => []SettledIsCharged
<1>1. IndInv => SettledIsCharged
  BY DEF IndInv
<1> QED BY <1>1, SagaInvariant, PTL

(***************************************************************************)
(* G6, idempotency_keys.claim: one request at most calls create_order for  *)
(* a key, for any number of requests, resumptions and crashes: the orders  *)
(* made at the provider are those of the max_retry_attempts tries of one   *)
(* call of _call_with_retry.                                               *)
(***************************************************************************)
THEOREM OneRequestPerKey == Spec => []OneRequestOrders
<1>1. IndInv => OneRequestOrders
  BY DEF IndInv
<1> QED BY <1>1, SagaInvariant, PTL

(***************************************************************************)
(* The assertions of complete_purchase and create_provider_order hold, and *)
(* every column holds one of its values.                                   *)
(***************************************************************************)
THEOREM SagaAssertionsHold == Spec => []AssertionsHold
<1>1. IndInv => AssertionsHold
  BY DEF IndInv
<1> QED BY <1>1, SagaInvariant, PTL

(***************************************************************************)
(* payment_service.py: an order is CAPTURED only if the provider captured, *)
(* whoever says so, however late.                                          *)
(***************************************************************************)
THEOREM CapturedOrdersAreCharged == Spec => []CapturedIsTrue
<1>1. IndInv => CapturedIsTrue
  BY DEF IndInv
<1> QED BY <1>1, SagaInvariant, PTL
=============================================================================
