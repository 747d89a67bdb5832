--------------------------- MODULE AnchoringProofs ---------------------------
(***************************************************************************)
(* The anchor outbox, for any checkpoints, retries, lost transactions and  *)
(* crashes: what a row says, the contract confirms, a linked transaction   *)
(* was mined for its range, and a range is announced once.                 *)
(*                                                                         *)
(* The argument: the chain only moves forward (a root once taken is never  *)
(* replaced, a transaction once mined stays mined), so what the worker     *)
(* found stays true, however much later it commits it.                     *)
(***************************************************************************)
EXTENDS Anchoring, WellFoundedInduction, TLAPS

USE AnchoringConstants

\* What no step takes back.
Forward ==
    /\ \A c \in Ranges : contract[c] # None => contract'[c] = contract[c]
    /\ DOMAIN txs \subseteq DOMAIN txs'
    /\ \A t \in DOMAIN txs :
         txs'[t].range = txs[t].range /\ (txs[t].status = "mined" => txs'[t] = txs[t])

Tx == [range : Ranges, status : {"sent", "mined", "reverted"}]
ChainTypes ==
    /\ contract \in [Ranges -> {None, "local", "other"}] /\ events \in [Ranges -> Nat]
    /\ txs \in Seq(Tx) /\ pool \in Seq(DOMAIN txs)
    /\ lost \in 0..MaxLost /\ crashes \in 0..MaxCrashes
WorkerRecord(S) ==
    [pc : {"idle", "read", "send", "wait", "commit"}, batch : SUBSET S, writes : RowsOf(S),
     attempt : 0..max_retry_attempts, tx : DOMAIN txs \cup {None}]

\* A set of naturals has a least element: there is a checkpoint at hand.
LEMMA Least ==
    ASSUME NEW T, T \subseteq Nat, T # {}
    PROVE  Min(T) \in T
<1> DEFINE R == OpToRel(<, Nat)
<1>1. IsWellFoundedOn(R, Nat)
  BY NatLessThanWellFounded, Zenon
<1>2. \A x, y \in Nat : y < x => <<y, x>> \in R
  BY DEF OpToRel
<1> HIDE DEF R
<1>3. PICK x \in T : \A y \in T : ~ (<<y, x>> \in R)
  BY <1>1, WFMin
<1>4. ASSUME NEW y \in T PROVE x <= y
  <2>1. x \in Nat /\ y \in Nat
    OBVIOUS
  <2>2. ~ (y < x)
    BY <2>1, <1>2, <1>3
  <2> QED BY <2>1, <2>2
<1> QED BY <1>3, <1>4 DEF Min

\* A partial table is a table: how to show that f holds rows for some of S.
LEMMA IsPartial ==
    ASSUME NEW S, NEW R, NEW D \in SUBSET S, NEW f \in [D -> R]
    PROVE  f \in UNION {[E -> R] : E \in SUBSET S}
OBVIOUS

\* ... and what that says.
LEMMA PartialIs ==
    ASSUME NEW S, NEW R, NEW f \in UNION {[E -> R] : E \in SUBSET S}
    PROVE  DOMAIN f \subseteq S /\ f \in [DOMAIN f -> R]
OBVIOUS

\* A row that is true stays true while the chain moves forward.
LEMMA RowStaysTrue ==
    ASSUME TypeOK, Forward, NEW c \in Ranges, NEW row \in Row, RowIsTrue(c, row)
    PROVE  row \in Row' /\ RowIsTrue(c, row)'
BY DEF Forward, RowIsTrue, Row, TypeOK

\* So does a table of rows.
LEMMA TableStaysTrue ==
    ASSUME TypeOK, Forward, NEW S \in SUBSET Ranges, NEW f \in RowsOf(S),
           \A c \in DOMAIN f : RowIsTrue(c, f[c])
    PROVE  f \in RowsOf(S)' /\ \A c \in DOMAIN f : RowIsTrue(c, f[c])'
<1>1. DOMAIN f \subseteq S /\ f \in [DOMAIN f -> Row]
  BY PartialIs DEF RowsOf
<1>2. ASSUME NEW c \in DOMAIN f PROVE f[c] \in Row' /\ RowIsTrue(c, f[c])'
  <2>1. PICK row \in Row : row = f[c] /\ RowIsTrue(c, row)
    BY <1>1
  <2>2. row \in Row' /\ RowIsTrue(c, row)'
    BY <1>1, <2>1, RowStaysTrue
  <2> QED BY <2>1, <2>2 DEF RowIsTrue
<1>3. f \in [DOMAIN f -> Row']
  BY <1>1, <1>2
<1>4. f \in UNION {[E -> Row'] : E \in SUBSET S}
  BY <1>1, <1>3
<1> QED BY <1>2, <1>4 DEF RowsOf

\* A step leads to rows f over S and to the worker w.
LEMMA Keeps ==
    ASSUME NEW S \in SUBSET Ranges, NEW f, f \in [S -> Row'], rows' = f,
           NEW w, w \in WorkerRecord(S)', worker' = w,
           \A c \in S : RowIsTrue(c, f[c])',
           \A c \in DOMAIN w.writes : RowIsTrue(c, w.writes[c])',
           ChainTypes', ChainIsTrue', WorkerIsAtWork'
    PROVE  IndInv'
<1>1. DOMAIN rows' = S
  OBVIOUS
<1>2. rows' \in UNION {[E -> Row'] : E \in SUBSET Ranges}
  BY IsPartial
<1>3. TypeOK'
  BY <1>1, <1>2 DEF TypeOK, ChainTypes, WorkerRecord, RowsOf, Tx
<1>4. RowsAreTrue'
  BY <1>1 DEF RowsAreTrue, RowIsTrue
<1> QED BY <1>3, <1>4 DEF IndInv

\* What the invariant says of the tables, one fact at a time.
LEMMA Given ==
    ASSUME IndInv
    PROVE  /\ TypeOK /\ ChainTypes /\ ChainIsTrue /\ WorkerIsAtWork
           /\ DOMAIN rows \subseteq Ranges /\ rows \in [DOMAIN rows -> Row]
           /\ worker \in WorkerRecord(DOMAIN rows)
           /\ \A c \in DOMAIN rows : RowIsTrue(c, rows[c])
           /\ \A c \in DOMAIN worker.writes : RowIsTrue(c, worker.writes[c])
<1>1. TypeOK /\ RowsAreTrue /\ ChainIsTrue /\ WorkerIsAtWork
  BY DEF IndInv
<1>2. DOMAIN rows \subseteq Ranges /\ rows \in [DOMAIN rows -> Row]
  BY <1>1, PartialIs DEF TypeOK, RowsOf
<1> QED BY <1>1, <1>2 DEF TypeOK, ChainTypes, WorkerRecord, Tx, RowsAreTrue

\* A step that leaves the chain alone.
LEMMA ChainStill ==
    ASSUME IndInv, UNCHANGED <<contract, events, txs, pool, lost>>, crashes' \in 0..MaxCrashes
    PROVE  Forward /\ ChainTypes' /\ ChainIsTrue'
<1>1. ChainTypes /\ ChainIsTrue
  BY Given
<1> QED BY <1>1 DEF Forward, ChainTypes, ChainIsTrue

\* A step of the worker, to w, which writes what it already would or a true
\* row more, while the chain moves forward.
LEMMA WorkerStep ==
    ASSUME IndInv, Forward, ChainTypes', ChainIsTrue', UNCHANGED rows,
           NEW w, w \in WorkerRecord(DOMAIN rows)', worker' = w,
           \A c \in DOMAIN w.writes : RowIsTrue(c, w.writes[c])',
           WorkerIsAtWork'
    PROVE  IndInv'
<1>1. PICK S \in SUBSET Ranges : S = DOMAIN rows
  BY Given
<1>2. PICK f : f = rows /\ f \in [S -> Row] /\ \A c \in S : RowIsTrue(c, f[c])
  BY <1>1, Given
<1>3. \A c \in S : f[c] \in Row' /\ RowIsTrue(c, f[c])'
  <2> SUFFICES ASSUME NEW c \in S PROVE f[c] \in Row' /\ RowIsTrue(c, f[c])'
    OBVIOUS
  <2>1. PICK row \in Row : row = f[c] /\ RowIsTrue(c, row)
    BY <1>2
  <2>2. row \in Row' /\ RowIsTrue(c, row)'
    BY <2>1, RowStaysTrue, Given
  <2> QED BY <2>1, <2>2 DEF RowIsTrue
<1>4. f \in [S -> Row'] /\ rows' = f
  BY <1>2, <1>3
<1>5. w \in WorkerRecord(S)'
  BY <1>1, <1>4
<1> QED BY <1>3, <1>4, <1>5, Keeps

\* A step that leaves the worker and the outbox alone.
LEMMA ChainStep ==
    ASSUME IndInv, Forward, ChainTypes', ChainIsTrue', UNCHANGED <<rows, worker>>
    PROVE  IndInv'
<1>1. PICK S \in SUBSET Ranges : S = DOMAIN rows
  BY Given
<1>2. PICK w \in WorkerRecord(S) : w = worker /\ \A c \in DOMAIN w.writes : RowIsTrue(c, w.writes[c])
  BY <1>1, Given
<1>3. w.writes \in RowsOf(S)' /\ \A c \in DOMAIN w.writes : RowIsTrue(c, w.writes[c])'
  <2>1. PICK f \in RowsOf(S) : f = w.writes
    BY DEF WorkerRecord
  <2> QED BY <1>2, <2>1, TableStaysTrue, Given
<1>4. w \in WorkerRecord(S)'
  BY <1>3 DEF WorkerRecord, Forward
<1>5. WorkerIsAtWork'
  BY <1>2, Given DEF WorkerIsAtWork, Forward, Current, WorkerRecord
<1> QED BY <1>1, <1>2, <1>3, <1>4, <1>5, WorkerStep

-----------------------------------------------------------------------------
(* The chain.                                                              *)

\* The contract takes a root for a free range, and nothing else.
LEMMA AnchorStep ==
    ASSUME IndInv, NEW c \in Ranges, NEW root \in {"local", "other"}, anchor(c, root)
    PROVE  /\ contract' \in [Ranges -> {None, "local", "other"}] /\ events' \in [Ranges -> Nat]
           /\ \A d \in Ranges : contract[d] # None => contract'[d] = contract[d]
           /\ \A d \in Ranges : events'[d] = IF contract'[d] = None THEN 0 ELSE 1
           /\ contract'[c] = IF contract[c] = None THEN root ELSE contract[c]
<1>1. ChainTypes /\ ChainIsTrue
  BY Given
<1>2. CASE contract[c] = None
  <2>1. contract' = [contract EXCEPT ![c] = root] /\ events' = [events EXCEPT ![c] = events[c] + 1]
    BY <1>2 DEF anchor
  <2>2. events[c] = 0
    BY <1>1, <1>2 DEF ChainIsTrue
  <2>3. /\ contract' \in [Ranges -> {None, "local", "other"}] /\ contract'[c] = root
        /\ \A d \in Ranges \ {c} : contract'[d] = contract[d]
    BY <1>1, <2>1 DEF ChainTypes
  <2>4. /\ events' \in [Ranges -> Nat] /\ events'[c] = 1
        /\ \A d \in Ranges \ {c} : events'[d] = events[d]
    BY <1>1, <2>1, <2>2 DEF ChainTypes
  <2> QED BY <1>1, <1>2, <2>3, <2>4 DEF ChainIsTrue
<1>3. CASE contract[c] # None
  BY <1>1, <1>3 DEF anchor, ChainTypes, ChainIsTrue
<1> QED BY <1>2, <1>3

\* A transaction is one of a range.
LEMMA TxTypes ==
    ASSUME ChainTypes, NEW t \in DOMAIN txs
    PROVE  txs[t] \in Tx /\ txs[t].range \in Ranges
<1>1. txs[t] \in Tx
  BY DEF ChainTypes
<1> QED BY <1>1 DEF Tx

\* Another writer's root.
LEMMA ForeignStep ==
    ASSUME IndInv, NEW c \in Ranges, Foreign(c)
    PROVE  IndInv'
<1>1. anchor(c, "other") /\ UNCHANGED <<rows, txs, pool, worker, lost, crashes>>
  BY DEF Foreign
<1>2. ChainTypes /\ ChainIsTrue
  BY Given
<1>3. Forward /\ ChainTypes'
  BY <1>1, <1>2, AnchorStep DEF Forward, ChainTypes
<1>4. ChainIsTrue'
  <2>1. \A d \in Ranges : events'[d] = IF contract'[d] = None THEN 0 ELSE 1
    BY <1>1, AnchorStep
  <2>2. ASSUME NEW t \in DOMAIN txs, txs[t].status = "mined"
        PROVE  contract'[txs[t].range] = "local"
    BY <1>2, <1>3, <2>2, TxTypes DEF ChainIsTrue, Forward
  <2> QED BY <1>1, <2>1, <2>2 DEF ChainIsTrue
<1> QED BY <1>1, <1>3, <1>4, ChainStep

\* A transaction is mined, or reverts.
LEMMA MineStep ==
    ASSUME IndInv, Mine
    PROVE  IndInv'
<1>1. ChainTypes /\ ChainIsTrue
  BY Given
<1>2. PICK t \in DOMAIN txs : t = Head(pool)
  BY <1>1 DEF Mine, ChainTypes
<1>3. PICK c \in Ranges : c = txs[t].range
  BY <1>1, TxTypes
<1>4. /\ anchor(c, "local") /\ pool' = Tail(pool) /\ UNCHANGED <<rows, worker, lost, crashes>>
      /\ txs' = [txs EXCEPT ![t].status = IF Reverts(c, "local") THEN "reverted" ELSE "mined"]
  BY <1>2, <1>3 DEF Mine
<1>5. PICK st \in {"reverted", "mined"} : /\ st = "mined" <=> ~ Reverts(c, "local")
                                          /\ txs' = [txs EXCEPT ![t].status = st]
  BY <1>4
<1>6. /\ txs' \in Seq(Tx) /\ DOMAIN txs' = DOMAIN txs
      /\ \A x \in DOMAIN txs : x # t => txs'[x] = txs[x]
      /\ txs'[t].range = c /\ txs'[t].status = st
  <2>1. txs[t] \in Tx
    BY <1>1 DEF ChainTypes
  <2>2. [txs[t] EXCEPT !.status = st] = [range |-> c, status |-> st]
    BY <1>3, <2>1 DEF Tx
  <2>3. txs' = [txs EXCEPT ![t] = [range |-> c, status |-> st]]
    BY <1>5, <2>2
  <2> QED BY <1>1, <2>3 DEF ChainTypes, Tx
<1>7. st = "mined" <=> contract'[c] = "local"
  BY <1>1, <1>4, <1>5, AnchorStep DEF Reverts, ChainTypes
<1>8. txs[t].status = "mined" => txs'[t] = txs[t]
  <2>1. ASSUME txs[t].status = "mined" PROVE st = "mined"
    BY <1>1, <1>3, <1>5, <2>1 DEF ChainIsTrue, Reverts
  <2>2. txs[t] \in Tx /\ txs'[t] \in Tx
    BY <1>1, <1>6 DEF ChainTypes
  <2> QED BY <1>3, <1>6, <2>1, <2>2 DEF Tx
<1>9. Forward
  BY <1>3, <1>4, <1>6, <1>8, AnchorStep DEF Forward
<1>10. ChainTypes'
  BY <1>1, <1>4, <1>6, AnchorStep DEF ChainTypes, Mine
<1>11. ChainIsTrue'
  <2>1. \A d \in Ranges : events'[d] = IF contract'[d] = None THEN 0 ELSE 1
    BY <1>4, AnchorStep
  <2>2. ASSUME NEW x \in DOMAIN txs, x # t, txs[x].status = "mined"
        PROVE  contract'[txs[x].range] = "local"
    BY <1>1, <1>9, <2>2, TxTypes DEF ChainIsTrue, Forward
  <2> QED BY <1>6, <1>7, <2>1, <2>2 DEF ChainIsTrue
<1> QED BY <1>4, <1>9, <1>10, <1>11, ChainStep

\* A transaction is forgotten.
LEMMA LoseStep ==
    ASSUME IndInv, Lose
    PROVE  IndInv'
<1>1. ChainTypes /\ ChainIsTrue
  BY Given
<1>2. /\ pool # <<>> /\ lost < MaxLost /\ pool' = SubSeq(pool, 1, Len(pool) - 1)
      /\ lost' = lost + 1 /\ UNCHANGED <<rows, contract, events, txs, worker, crashes>>
  BY DEF Lose, Front
<1>3. pool' \in Seq(DOMAIN txs) /\ lost' \in 0..MaxLost
  BY <1>1, <1>2 DEF ChainTypes
<1>4. Forward /\ ChainTypes' /\ ChainIsTrue'
  BY <1>1, <1>2, <1>3 DEF Forward, ChainTypes, ChainIsTrue
<1> QED BY <1>2, <1>4, ChainStep

-----------------------------------------------------------------------------
(* The worker.                                                             *)

\* A worker that gives up or has nothing to do writes nothing.
LEMMA IdleStep ==
    ASSUME IndInv, worker' = Idle, UNCHANGED <<rows, contract, events, txs, pool, lost>>,
           crashes' \in 0..MaxCrashes
    PROVE  IndInv'
<1>1. Forward /\ ChainTypes' /\ ChainIsTrue'
  BY ChainStill
<1>2. NoWrites \in [{} -> Row'] /\ DOMAIN NoWrites = {}
  BY DEF NoWrites
<1>3. NoWrites \in UNION {[E -> Row'] : E \in SUBSET (DOMAIN rows')}
  BY <1>2, IsPartial
<1>4. Idle \in WorkerRecord(DOMAIN rows)'
  BY <1>3 DEF Idle, WorkerRecord, RowsOf
<1>5. WorkerIsAtWork' /\ Idle.writes = NoWrites
  BY DEF WorkerIsAtWork, Idle
<1>6. PICK w : w = Idle
  OBVIOUS
<1> QED BY <1>1, <1>2, <1>4, <1>5, <1>6, WorkerStep

\* A worker that goes on with the checkpoint at hand.
LEMMA GoOn ==
    ASSUME IndInv, Forward, ChainTypes', ChainIsTrue', UNCHANGED rows,
           NEW pc \in {"read", "send", "wait"}, NEW a \in 0..max_retry_attempts,
           NEW t, t \in DOMAIN txs' \cup {None},
           worker.batch # {},
           worker' = [worker EXCEPT !.pc = pc, !.attempt = a, !.tx = t],
           pc = "wait" => t # None /\ txs'[t].range = Current
    PROVE  IndInv'
<1>1. PICK v \in WorkerRecord(DOMAIN rows) : v = worker
  BY Given
<1>2. worker' = [pc |-> pc, batch |-> v.batch, writes |-> v.writes, attempt |-> a, tx |-> t]
  BY <1>1 DEF WorkerRecord
<1>3. PICK w : w = worker'
  OBVIOUS
<1>4. PICK f \in RowsOf(DOMAIN rows) : f = v.writes /\ \A c \in DOMAIN f : RowIsTrue(c, f[c])
  BY <1>1, Given DEF WorkerRecord
<1>5. PICK S \in SUBSET Ranges : S = DOMAIN rows
  BY Given
<1>6. f \in RowsOf(S)' /\ \A c \in DOMAIN f : RowIsTrue(c, f[c])'
  BY <1>4, <1>5, TableStaysTrue, Given
<1>7. w \in WorkerRecord(S)'
  BY <1>1, <1>2, <1>3, <1>4, <1>5, <1>6 DEF WorkerRecord
<1>8. WorkerIsAtWork'
  BY <1>1, <1>2 DEF WorkerIsAtWork, Current
<1>9. \A c \in DOMAIN w.writes : RowIsTrue(c, w.writes[c])'
  BY <1>2, <1>3, <1>4, <1>6
<1> QED BY <1>3, <1>5, <1>7, <1>8, <1>9, WorkerStep

\* A worker that decides what becomes of the checkpoint at hand.
LEMMA DecideStep ==
    ASSUME IndInv, Forward, ChainTypes', ChainIsTrue', UNCHANGED rows,
           worker.batch # {}, NEW row \in Row, RowIsTrue(Current, row), Decide(row)
    PROVE  IndInv'
<1>1. PICK v \in WorkerRecord(DOMAIN rows) : v = worker
  BY Given
<1>2. PICK S \in SUBSET Ranges : S = DOMAIN rows
  BY Given
<1>3. v.batch \in SUBSET S /\ v.writes \in RowsOf(S)
  BY <1>1, <1>2 DEF WorkerRecord
<1>4. PICK c \in S : c = Current
  BY <1>1, <1>2, <1>3, Least DEF Current
<1>5. PICK f : f = [x \in DOMAIN v.writes \cup {c} |-> IF x = c THEN row ELSE v.writes[x]]
  OBVIOUS
<1>6. PICK w : w = [pc |-> IF v.batch \ {c} = {} THEN "commit" ELSE "read",
                    batch |-> v.batch \ {c}, writes |-> f, attempt |-> 1, tx |-> None]
  OBVIOUS
<1>7. worker' = w
  BY <1>1, <1>4, <1>5, <1>6 DEF Decide
<1>8. /\ DOMAIN v.writes \subseteq S /\ v.writes \in [DOMAIN v.writes -> Row]
      /\ \A x \in DOMAIN v.writes : RowIsTrue(x, v.writes[x])
  BY <1>1, <1>3, PartialIs, Given DEF RowsOf
<1>9. ASSUME NEW x \in DOMAIN f PROVE f[x] \in Row' /\ RowIsTrue(x, f[x])'
  <2>1. PICK y \in Row : y = f[x] /\ RowIsTrue(x, y)
    BY <1>4, <1>5, <1>8
  <2>2. y \in Row' /\ RowIsTrue(x, y)'
    BY <1>5, <1>8, <2>1, RowStaysTrue, Given
  <2> QED BY <2>1, <2>2 DEF RowIsTrue
<1>10. f \in UNION {[E -> Row'] : E \in SUBSET S}
  <2>1. DOMAIN f \in SUBSET S /\ f \in [DOMAIN f -> Row']
    BY <1>5, <1>8, <1>9
  <2> QED BY <2>1
<1>11. w \in WorkerRecord(S)'
  BY <1>3, <1>6, <1>10 DEF WorkerRecord, RowsOf
<1>12. WorkerIsAtWork'
  BY <1>6, <1>7 DEF WorkerIsAtWork
<1>13. \A x \in DOMAIN w.writes : RowIsTrue(x, w.writes[x])'
  BY <1>6, <1>9
<1> QED BY <1>2, <1>7, <1>11, <1>12, <1>13, WorkerStep

\* The row at hand, and what a failure makes of it, are true.
LEMMA RowAtHand ==
    ASSUME IndInv, worker.batch # {}
    PROVE  /\ Current \in Ranges /\ Current \in DOMAIN rows
           /\ rows[Current] \in Row /\ RowIsTrue(Current, rows[Current])
<1>1. PICK v \in WorkerRecord(DOMAIN rows) : v = worker
  BY Given
<1>2. v.batch \subseteq DOMAIN rows /\ DOMAIN rows \subseteq Nat
  BY <1>1, Given DEF WorkerRecord
<1>3. Current \in DOMAIN rows
  BY <1>1, <1>2, Least DEF Current
<1> QED BY <1>3, Given

\* record_attempt_failure counts, and changes nothing else.
LEMMA FailureStep ==
    ASSUME IndInv, Forward, ChainTypes', ChainIsTrue', UNCHANGED rows,
           worker.batch # {}, record_attempt_failure
    PROVE  IndInv'
<1>1. PICK r \in Row : r = rows[Current] /\ RowIsTrue(Current, r)
  BY RowAtHand
<1>2. PICK n \in 0..MaxFailures : n = IF rows[Current].failures < MaxFailures
                                      THEN rows[Current].failures + 1 ELSE MaxFailures
  BY <1>1 DEF Row
<1>3. [r EXCEPT !.failures = n] = [status |-> r.status, tx |-> r.tx, failures |-> n]
  BY DEF Row
<1>4. PICK row : row = [status |-> r.status, tx |-> r.tx, failures |-> n]
  OBVIOUS
<1>5. row \in Row /\ RowIsTrue(Current, row)
  BY <1>1, <1>4 DEF Row, RowIsTrue
<1>6. Decide(row)
  BY <1>1, <1>2, <1>3, <1>4 DEF record_attempt_failure
<1> QED BY <1>5, <1>6, DecideStep

\* A transient error: the checkpoint is tried again, or given up for now.
LEMMA TransientStep ==
    ASSUME IndInv, Forward, ChainTypes', ChainIsTrue', UNCHANGED rows,
           worker.batch # {}, Transient
    PROVE  IndInv'
<1>1. PICK v \in WorkerRecord(DOMAIN rows) : v = worker
  BY Given
<1>2. CASE worker.attempt < max_retry_attempts
  <2>1. worker.attempt + 1 \in 0..max_retry_attempts
    BY <1>1, <1>2 DEF WorkerRecord
  <2>2. worker' = [worker EXCEPT !.pc = "read", !.attempt = worker.attempt + 1, !.tx = None]
    BY <1>2 DEF Transient
  <2>3. PICK a \in 0..max_retry_attempts : a = worker.attempt + 1
    BY <2>1
  <2> QED BY <2>2, <2>3, GoOn
<1>3. CASE ~ (worker.attempt < max_retry_attempts)
  BY <1>3, FailureStep DEF Transient
<1> QED BY <1>2, <1>3

\* An anchored row: the root is on chain, and its transaction, if known, was
\* mined for it.
LEMMA AnchoredStep ==
    ASSUME IndInv, Forward, ChainTypes', ChainIsTrue', UNCHANGED rows,
           worker.batch # {}, contract[Current] = "local",
           NEW t \in DOMAIN txs \cup {None}, mark_anchored(t),
           t # None => txs[t] = [range |-> Current, status |-> "mined"]
    PROVE  IndInv'
<1>1. PICK r \in Row : r = rows[Current]
  BY RowAtHand
<1>2. PICK row : row = [status |-> "anchored", tx |-> t, failures |-> r.failures]
  OBVIOUS
<1>3. row \in Row /\ RowIsTrue(Current, row) /\ Decide(row)
  BY <1>1, <1>2 DEF Row, RowIsTrue, mark_anchored
<1> QED BY <1>3, DecideStep

\* A row in conflict: another root is on chain.
LEMMA ConflictStep ==
    ASSUME IndInv, Forward, ChainTypes', ChainIsTrue', UNCHANGED rows,
           worker.batch # {}, contract[Current] = "other", mark_conflict
    PROVE  IndInv'
<1>1. PICK r \in Row : r = rows[Current]
  BY RowAtHand
<1>2. [r EXCEPT !.status = "conflict"] = [status |-> "conflict", tx |-> r.tx, failures |-> r.failures]
  BY DEF Row
<1>3. PICK row : row = [status |-> "conflict", tx |-> r.tx, failures |-> r.failures]
  OBVIOUS
<1>4. row \in Row /\ RowIsTrue(Current, row)
  BY <1>1, <1>3 DEF Row, RowIsTrue
<1>5. Decide(row)
  BY <1>1, <1>2, <1>3 DEF mark_conflict
<1> QED BY <1>4, <1>5, DecideStep

\* The steps of the tick that read the chain.
LEMMA ReadingStep ==
    ASSUME IndInv, ReadContract \/ SendConflicts \/ Receipt \/ Refused \/ RpcFails
    PROVE  IndInv'
<1>1. UNCHANGED <<rows, contract, events, txs, pool, lost, crashes>>
  BY DEF ReadContract, SendConflicts, Receipt, Refused, RpcFails
<1>2. Forward /\ ChainTypes' /\ ChainIsTrue'
  <2>1. crashes' \in 0..MaxCrashes
    BY <1>1, Given DEF ChainTypes
  <2> QED BY <1>1, <2>1, ChainStill
<1>3. worker.pc \in {"read", "send", "wait"}
  BY DEF ReadContract, ReadAnswer, SendConflicts, Receipt, ReceiptAnswer, Refused, RpcFails
<1>4. worker.batch # {}
  BY <1>3, Given DEF WorkerIsAtWork
<1>5. CASE Transient
  BY <1>1, <1>2, <1>4, <1>5, TransientStep
<1>6. CASE record_attempt_failure
  BY <1>1, <1>2, <1>4, <1>6, FailureStep
<1>7. CASE contract[Current] = "other" /\ mark_conflict
  BY <1>1, <1>2, <1>4, <1>7, ConflictStep
<1>8. CASE contract[Current] = "local" /\ mark_anchored(None)
  BY <1>1, <1>2, <1>4, <1>8, AnchoredStep
<1>9. CASE worker' = [worker EXCEPT !.pc = "send"]
  <2>1. PICK v \in WorkerRecord(DOMAIN rows) : v = worker
    BY Given
  <2>2. PICK a \in 0..max_retry_attempts, t \in DOMAIN txs \cup {None} :
          a = worker.attempt /\ t = worker.tx
    BY <2>1 DEF WorkerRecord
  <2>3. [v EXCEPT !.pc = "send"] = [v EXCEPT !.pc = "send", !.attempt = v.attempt, !.tx = v.tx]
    BY DEF WorkerRecord
  <2>4. worker' = [worker EXCEPT !.pc = "send", !.attempt = a, !.tx = t]
    BY <1>9, <2>1, <2>2, <2>3
  <2>5. t \in DOMAIN txs' \cup {None}
    BY <1>1
  <2> QED BY <1>1, <1>2, <1>4, <2>4, <2>5, GoOn
<1>10. CASE ReceiptAnswer /\ txs[worker.tx].status = "mined" /\ mark_anchored(worker.tx)
  <2>1. PICK v \in WorkerRecord(DOMAIN rows) : v = worker
    BY Given
  <2>2. worker.tx # None /\ txs[worker.tx].range = Current
    BY <1>10, Given DEF ReceiptAnswer, WorkerIsAtWork
  <2>3. PICK t \in DOMAIN txs : t = worker.tx
    BY <2>1, <2>2 DEF WorkerRecord
  <2>4. txs[t] = [range |-> Current, status |-> "mined"]
    <3>1. txs[t] \in Tx
      BY Given, TxTypes
    <3> QED BY <1>10, <2>2, <2>3, <3>1 DEF Tx
  <2>5. contract[Current] = "local"
    BY <1>10, <2>2, <2>3, Given DEF ChainIsTrue
  <2> QED BY <1>1, <1>2, <1>4, <1>10, <2>3, <2>4, <2>5, AnchoredStep
<1>11. CASE ReadContract
  <2>1. contract[Current] \in {None, "local", "other"}
    BY <1>4, RowAtHand, Given DEF ChainTypes
  <2> QED BY <1>7, <1>8, <1>9, <1>11, <2>1 DEF ReadContract, ReadAnswer
<1> QED BY <1>5, <1>6, <1>7, <1>10, <1>11
    DEF SendConflicts, Receipt, ReceiptAnswer, Refused, RpcFails

\* A transaction is sent, with or without its hash coming back.
LEMMA SendStep ==
    ASSUME IndInv, Send
    PROVE  IndInv'
<1>1. ChainTypes /\ ChainIsTrue /\ worker.batch # {}
  BY Given DEF Send, WorkerIsAtWork
<1>2. PICK c \in Ranges : c = Current
  BY <1>1, RowAtHand
<1>3. PICK x : x = [range |-> c, status |-> "sent"]
  OBVIOUS
<1>4. x \in Tx /\ x.range = c /\ x.status = "sent"
  BY <1>3 DEF Tx
<1>5. /\ txs' = Append(txs, x) /\ pool' = Append(pool, Len(txs) + 1)
      /\ UNCHANGED <<rows, contract, events, lost, crashes>>
  BY <1>2, <1>3 DEF Send
<1>6. /\ txs' \in Seq(Tx) /\ DOMAIN txs' = DOMAIN txs \cup {Len(txs) + 1}
      /\ txs'[Len(txs) + 1] = x /\ \A t \in DOMAIN txs : txs'[t] = txs[t]
  BY <1>1, <1>4, <1>5 DEF ChainTypes
<1>7. Forward
  BY <1>5, <1>6 DEF Forward
<1>8. ChainTypes'
  <2>1. pool \in Seq(DOMAIN txs')
    <3>1. pool \in [1..Len(pool) -> DOMAIN txs] /\ Len(pool) \in Nat
      BY <1>1 DEF ChainTypes
    <3> QED BY <1>6, <3>1
  <2>2. pool' \in Seq(DOMAIN txs')
    BY <1>5, <1>6, <2>1
  <2> QED BY <1>1, <1>5, <1>6, <2>2 DEF ChainTypes
<1>9. ChainIsTrue'
  BY <1>1, <1>4, <1>5, <1>6 DEF ChainIsTrue
<1>10. CASE Transient
  BY <1>1, <1>5, <1>7, <1>8, <1>9, <1>10, TransientStep
<1>11. CASE worker' = [worker EXCEPT !.pc = "wait", !.tx = Len(txs) + 1]
  <2>1. PICK v \in WorkerRecord(DOMAIN rows) : v = worker
    BY Given
  <2>2. PICK a \in 0..max_retry_attempts : a = v.attempt
    BY DEF WorkerRecord
  <2>3. PICK t : t = Len(txs) + 1
    OBVIOUS
  <2>4. [v EXCEPT !.pc = "wait", !.tx = t] = [v EXCEPT !.pc = "wait", !.attempt = a, !.tx = t]
    BY <2>2 DEF WorkerRecord
  <2>5. worker' = [worker EXCEPT !.pc = "wait", !.attempt = a, !.tx = t]
    BY <1>11, <2>1, <2>3, <2>4
  <2>6. t \in DOMAIN txs' \cup {None} /\ t # None /\ txs'[t].range = Current
    BY <1>1, <1>2, <1>4, <1>6, <2>3 DEF ChainTypes
  <2> QED BY <1>1, <1>5, <1>7, <1>8, <1>9, <2>5, <2>6, GoOn
<1> QED BY <1>10, <1>11 DEF Send

\* list_unanchored: the batch.
LEMMA TickStep ==
    ASSUME IndInv, Tick
    PROVE  IndInv'
<1>1. UNCHANGED <<rows, contract, events, txs, pool, lost, crashes>>
  BY DEF Tick
<1>2. Forward /\ ChainTypes' /\ ChainIsTrue'
  <2>1. crashes' \in 0..MaxCrashes
    BY <1>1, Given DEF ChainTypes
  <2> QED BY <1>1, <2>1, ChainStill
<1>3. PICK w : w = [pc |-> "read", batch |-> Unanchored, writes |-> NoWrites,
                    attempt |-> 1, tx |-> None]
  OBVIOUS
<1>4. worker' = w
  BY <1>3 DEF Tick
<1>5. NoWrites \in [{} -> Row'] /\ DOMAIN NoWrites = {}
  BY DEF NoWrites
<1>6. NoWrites \in UNION {[E -> Row'] : E \in SUBSET (DOMAIN rows')}
  BY <1>5, IsPartial
<1>7. w \in WorkerRecord(DOMAIN rows)'
  BY <1>1, <1>3, <1>6 DEF WorkerRecord, RowsOf, Unanchored
<1>8. WorkerIsAtWork'
  BY <1>3, <1>4 DEF WorkerIsAtWork, Tick
<1>9. \A c \in DOMAIN w.writes : RowIsTrue(c, w.writes[c])'
  BY <1>3, <1>5
<1> QED BY <1>1, <1>2, <1>4, <1>7, <1>8, <1>9, WorkerStep

\* The batch is committed: what the worker would write is written.
LEMMA CommitStep ==
    ASSUME IndInv, Commit
    PROVE  IndInv'
<1>1. UNCHANGED <<contract, events, txs, pool, lost, crashes>> /\ worker' = Idle
  BY DEF Commit
<1>2. Forward /\ ChainTypes' /\ ChainIsTrue'
  <2>1. crashes' \in 0..MaxCrashes
    BY <1>1, Given DEF ChainTypes
  <2> QED BY <1>1, <2>1, ChainStill
<1>3. PICK S \in SUBSET Ranges : S = DOMAIN rows
  BY Given
<1>4. PICK v \in WorkerRecord(S) : v = worker
  BY <1>3, Given
<1>5. PICK f : f = [c \in S |-> IF c \in DOMAIN v.writes THEN v.writes[c] ELSE rows[c]]
  OBVIOUS
<1>6. rows' = f
  BY <1>3, <1>4, <1>5 DEF Commit, CommitRows
<1>7. v.writes \in [DOMAIN v.writes -> Row]
  BY PartialIs DEF WorkerRecord, RowsOf
<1>8. ASSUME NEW c \in S PROVE f[c] \in Row' /\ RowIsTrue(c, f[c])'
  <2>1. PICK row \in Row : row = f[c] /\ RowIsTrue(c, row)
    BY <1>3, <1>4, <1>5, <1>7, Given
  <2>2. row \in Row' /\ RowIsTrue(c, row)'
    BY <1>2, <2>1, RowStaysTrue, Given
  <2> QED BY <2>1, <2>2 DEF RowIsTrue
<1>9. f \in [S -> Row']
  BY <1>5, <1>8
<1>10. PICK w : w = Idle
  OBVIOUS
<1>11. NoWrites \in [{} -> Row'] /\ DOMAIN NoWrites = {}
  BY DEF NoWrites
<1>12. NoWrites \in UNION {[E -> Row'] : E \in SUBSET S}
  BY <1>11, IsPartial
<1>13. w \in WorkerRecord(S)' /\ w.writes = NoWrites
  BY <1>10, <1>12 DEF Idle, WorkerRecord, RowsOf
<1>14. WorkerIsAtWork'
  BY <1>1 DEF WorkerIsAtWork, Idle
<1> QED BY <1>1, <1>2, <1>6, <1>8, <1>9, <1>10, <1>11, <1>13, <1>14, Keeps

\* A checkpoint is written: its row says nothing of the chain yet.
LEMMA WrittenStep ==
    ASSUME IndInv, NEW c \in Ranges, Written(c)
    PROVE  IndInv'
<1>1. UNCHANGED <<contract, events, txs, pool, worker, lost, crashes>>
  BY DEF Written
<1>2. Forward /\ ChainTypes' /\ ChainIsTrue'
  <2>1. crashes' \in 0..MaxCrashes
    BY <1>1, Given DEF ChainTypes
  <2> QED BY <1>1, <2>1, ChainStill
<1>3. PICK S \in SUBSET Ranges : S = DOMAIN rows \cup {c}
  BY Given
<1>4. PICK f : f = [d \in S |-> IF d = c THEN [status |-> "unanchored", tx |-> None, failures |-> 0]
                                ELSE rows[d]]
  OBVIOUS
<1>5. rows' = f
  BY <1>3, <1>4 DEF Written
<1>6. ASSUME NEW d \in S PROVE f[d] \in Row' /\ RowIsTrue(d, f[d])'
  <2>1. PICK row \in Row : row = f[d] /\ RowIsTrue(d, row)
    <3>1. CASE d = c
      BY <1>4, <3>1 DEF Row, RowIsTrue
    <3>2. CASE d # c
      BY <1>3, <1>4, <3>2, Given
    <3> QED BY <3>1, <3>2
  <2>2. row \in Row' /\ RowIsTrue(d, row)'
    BY <1>2, <2>1, RowStaysTrue, Given
  <2> QED BY <2>1, <2>2 DEF RowIsTrue
<1>7. f \in [S -> Row']
  BY <1>4, <1>6
<1>8. PICK w \in WorkerRecord(DOMAIN rows) :
        w = worker /\ \A d \in DOMAIN w.writes : RowIsTrue(d, w.writes[d])
  BY Given
<1>9. PICK g : g = w.writes
  OBVIOUS
<1>10. g \in RowsOf(S) /\ \A d \in DOMAIN g : RowIsTrue(d, g[d])
  <2>1. DOMAIN g \subseteq DOMAIN rows /\ g \in [DOMAIN g -> Row]
    BY <1>9, PartialIs DEF WorkerRecord, RowsOf
  <2>2. DOMAIN g \in SUBSET S
    BY <1>3, <2>1
  <2> QED BY <1>8, <1>9, <2>1, <2>2 DEF RowsOf
<1>11. g \in RowsOf(S)' /\ \A d \in DOMAIN g : RowIsTrue(d, g[d])'
  BY <1>2, <1>10, TableStaysTrue, Given
<1>12. w \in WorkerRecord(S)'
  <2>1. w.batch \subseteq S
    BY <1>3 DEF WorkerRecord
  <2> QED BY <1>1, <1>9, <1>11, <2>1 DEF WorkerRecord
<1>13. WorkerIsAtWork'
  BY <1>1, Given DEF WorkerIsAtWork, Current
<1> QED BY <1>1, <1>2, <1>5, <1>6, <1>7, <1>8, <1>9, <1>11, <1>12, <1>13, Keeps

-----------------------------------------------------------------------------
\* Before the first checkpoint.
LEMMA InitIndInv == Init => IndInv
<1> SUFFICES ASSUME Init PROVE IndInv
  OBVIOUS
<1>1. NoWrites \in [{} -> Row] /\ DOMAIN NoWrites = {}
  BY DEF NoWrites
<1>2. NoWrites \in RowsOf({}) /\ rows \in RowsOf(Ranges) /\ DOMAIN rows = {}
  BY <1>1 DEF RowsOf, Init, NoWrites
<1>3. TypeOK
  BY <1>2 DEF Init, TypeOK, Idle
<1>4. RowsAreTrue /\ ChainIsTrue /\ WorkerIsAtWork
  BY <1>1, <1>2 DEF Init, RowsAreTrue, ChainIsTrue, WorkerIsAtWork, Idle
<1> QED BY <1>3, <1>4 DEF IndInv

\* Every step of the worker, the chain and the audit writer keeps it.
LEMMA NextIndInv == IndInv /\ [Next]_vars => IndInv'
<1> SUFFICES ASSUME IndInv, [Next]_vars PROVE IndInv'
  OBVIOUS
<1>1. CASE UNCHANGED vars
  <2>1. Forward /\ ChainTypes' /\ ChainIsTrue'
    <3>1. crashes' \in 0..MaxCrashes
      BY <1>1, Given DEF ChainTypes, vars
    <3> QED BY <1>1, <3>1, ChainStill DEF vars
  <2> QED BY <1>1, <2>1, ChainStep DEF vars
<1>2. CASE Crash
  <2>1. crashes' \in 0..MaxCrashes
    BY <1>2, Given DEF ChainTypes, Crash
  <2> QED BY <1>2, <2>1, IdleStep DEF Crash
<1> QED BY <1>1, <1>2, WrittenStep, ForeignStep, MineStep, LoseStep, ReadingStep, TickStep,
       SendStep, CommitStep DEF Next, Worker

\* The outbox and the chain agree throughout.
THEOREM AnchoringInvariant == Spec => []IndInv
<1> QED BY InitIndInv, NextIndInv, PTL DEF Spec

(***************************************************************************)
(* worker._anchor_tick and the verify-anchor command: what the outbox says *)
(* of a checkpoint, the contract confirms, whatever was sent twice, timed  *)
(* out, was forgotten or was cut off before the commit.                    *)
(***************************************************************************)
THEOREM OutboxAgreesWithContract == Spec => []OutboxIsTrue
<1>1. ASSUME IndInv PROVE OutboxIsTrue
  <2> SUFFICES ASSUME NEW c \in DOMAIN rows
               PROVE  /\ rows[c].status = "anchored" => _verify_anchor(c) = "VERIFIED"
                      /\ rows[c].status = "conflict" => _verify_anchor(c) = "root mismatch"
    BY DEF OutboxIsTrue
  <2>1. RowIsTrue(c, rows[c])
    BY <1>1, Given
  <2> QED BY <2>1 DEF RowIsTrue, _verify_anchor
<1> QED BY <1>1, AnchoringInvariant, PTL

(***************************************************************************)
(* explain_service._anchor_info_for: a linked transaction was mined, for   *)
(* the range it is linked from; and the state is well typed.               *)
(***************************************************************************)
THEOREM LinkedTransactionsAreMined == Spec => []LinkedTxIsMined
<1>1. ASSUME IndInv PROVE LinkedTxIsMined
  <2>1. ASSUME NEW c \in DOMAIN rows, explorer_tx(c) # None
        PROVE  txs[explorer_tx(c)] = [range |-> c, status |-> "mined"]
    <3>1. RowIsTrue(c, rows[c])
      BY <1>1, Given
    <3> QED BY <2>1, <3>1 DEF RowIsTrue, explorer_tx
  <2> QED BY <1>1, <2>1, Given DEF LinkedTxIsMined
<1> QED BY <1>1, AnchoringInvariant, PTL

(***************************************************************************)
(* AuditCheckpointAnchor.anchor: a range is announced at most once.        *)
(***************************************************************************)
THEOREM RangesAreAnnouncedOnce == Spec => []OneEventPerRange
<1>1. ASSUME IndInv PROVE OneEventPerRange
  BY <1>1, Given DEF ChainIsTrue, OneEventPerRange
<1> QED BY <1>1, AnchoringInvariant, PTL
=============================================================================
