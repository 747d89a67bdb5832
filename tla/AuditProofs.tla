---------------------------- MODULE AuditProofs ----------------------------
(***************************************************************************)
(* The audit log, for any sessions, payloads, segment length and length of *)
(* the log: appends leave one chain, the verifier raises no false alarm,   *)
(* and its ok covers what it read.                                         *)
(*                                                                         *)
(* The argument: the chain lock admits one unit of work at a time, and     *)
(* what it has in sight extends the log (Extends), so its commit           *)
(* leaves a chain; a verifier that read before the commit read a part of   *)
(* the log that stays as it was (ReadIsLog).  What an ok says of a table   *)
(* that was tampered with comes from the hashes alone (HashesAreOriginal). *)
(***************************************************************************)
EXTENDS AuditChain, FiniteSetTheorems, WellFoundedInduction, TLAPS

USE AuditConstants

-----------------------------------------------------------------------------
(* Numbers.                                                                *)

\* A set of naturals has a least element.
LEMMA Least ==
    ASSUME NEW T, T \subseteq Nat, T # {}
    PROVE  \E x \in T : \A y \in T : x <= y
<1> DEFINE R == OpToRel(<, Nat)
<1>1. IsWellFoundedOn(R, Nat)
  BY NatLessThanWellFounded, Zenon
<1>2. \A x, y \in Nat : y < x => <<y, x>> \in R
  BY DEF OpToRel
<1> HIDE DEF R
<1>3. PICK x \in T : \A y \in T : ~ (<<y, x>> \in R)
  BY <1>1, WFMin
<1>4. ASSUME NEW y \in T PROVE x <= y
  <2>1. x \in Nat /\ y \in Nat
    OBVIOUS
  <2>2. ~ (y < x)
    BY <2>1, <1>2, <1>3
  <2> QED BY <2>1, <2>2
<1> QED BY <1>3, <1>4

\* A bounded one has a greatest.
LEMMA Greatest ==
    ASSUME NEW N \in Nat, NEW S, S \subseteq 1..N, S # {}
    PROVE  \E x \in S : \A y \in S : y <= x
<1> DEFINE T == {N - x : x \in S}
<1>1. ASSUME NEW x \in S PROVE x \in 1..N /\ x \in Int /\ N - x \in Nat
  OBVIOUS
<1>2. T \subseteq Nat /\ T # {}
  BY <1>1
<1> HIDE DEF T
<1>3. PICK m \in T : \A y \in T : m <= y
  BY <1>2, Least
<1> USE DEF T
<1>4. PICK x \in S : m = N - x
  BY <1>3
<1>5. ASSUME NEW y \in S PROVE y <= x
  <2>1. m <= N - y
    BY <1>3
  <2>2. x \in Int /\ y \in Int
    BY <1>1
  <2> QED BY <1>4, <2>1, <2>2
<1> QED BY <1>4, <1>5

-----------------------------------------------------------------------------
(* Tables and chains.                                                      *)

\* Tables of the same type give a table of that type.
LEMMA OverTable ==
    ASSUME NEW R, NEW f, NEW g, IsTable(f, R), IsTable(g, R)
    PROVE  IsTable(Over(g, f), R)
BY DEF IsTable, Over

\* Over is associative.
LEMMA OverOver ==
    ASSUME NEW e, NEW f, NEW g
    PROVE  Over(Over(e, g), f) = Over(e, Over(g, f))
BY DEF Over

\* The hash of a row continues the one before it.
LEMMA HashesGrow ==
    ASSUME NEW f, NEW n \in Nat, IsTable(f, Entry), 1..n+1 \subseteq DOMAIN f
    PROVE  /\ Hashes(f, n) \in Seq(Payloads)
           /\ compute_entry_hash(Hashes(f, n), f[n + 1].payload) = Hashes(f, n + 1)
<1>1. \A i \in 1..n+1 : f[i].payload \in Payloads
  BY DEF IsTable, Entry
<1>2. Hashes(f, n) \in [1..n -> Payloads]
  BY <1>1 DEF Hashes
<1>3. Hashes(f, n) \in Seq(Payloads) /\ Len(Hashes(f, n)) = n
  BY <1>2
<1>4. Append(Hashes(f, n), f[n + 1].payload) = [i \in 1..n+1 |-> f[i].payload]
  BY <1>1, <1>3 DEF Hashes
<1> QED BY <1>3, <1>4 DEF Hashes, compute_entry_hash

\* Hashes of tables that agree.
LEMMA HashesAgree ==
    ASSUME NEW f, NEW g, NEW n \in Int, \A i \in 1..n : f[i] = g[i]
    PROVE  Hashes(f, n) = Hashes(g, n)
BY DEF Hashes

\* A row more.
LEMMA ChainGrows ==
    ASSUME NEW f, NEW n \in Nat, IsTable(f, Entry), IsChain(f, n), NEW p \in Payloads,
           NEW g, IsTable(g, Entry), DOMAIN g = 1..n+1, \A i \in 1..n : g[i] = f[i],
           g[n + 1].payload = p, g[n + 1].prev = Hashes(f, n),
           g[n + 1].hash = compute_entry_hash(Hashes(f, n), p)
    PROVE  IsChain(g, n + 1)
<1>1. ASSUME NEW s \in 1..n
      PROVE  g[s].prev = Hashes(g, s - 1) /\ g[s].hash = Hashes(g, s)
  <2>1. Hashes(g, s - 1) = Hashes(f, s - 1) /\ Hashes(g, s) = Hashes(f, s)
    BY HashesAgree
  <2> QED BY <2>1 DEF IsChain
<1>2. Hashes(g, n) = Hashes(f, n)
  BY HashesAgree
<1>3. g[n + 1].prev = Hashes(g, n) /\ g[n + 1].hash = Hashes(g, n + 1)
  BY <1>2, HashesGrow
<1>4. ASSUME NEW s \in 1..n+1
      PROVE  g[s].prev = Hashes(g, s - 1) /\ g[s].hash = Hashes(g, s)
  <2>1. CASE s \in 1..n
    BY <1>1, <2>1
  <2>2. CASE s = n + 1
    <3>1. s - 1 = n
      BY <2>2
    <3> QED BY <1>3, <2>2, <3>1
  <2> QED BY <2>1, <2>2
<1> QED BY <1>4 DEF IsChain

\* The roots after a row that ends no segment, or whose segment has its root.
LEMMA RootsGrow ==
    ASSUME NEW f, NEW n \in Nat, NEW g, IsChain(g, n + 1), \A i \in 1..n : g[i] = f[i],
           NEW r, HasRoots(r, f, n), NEW q,
           IF IsBoundary(n + 1)
           THEN /\ SegmentComplete(g, n + 1)
                /\ q = Over([s \in {n + 1} |-> merkle_root(g, n + 1)], r)
           ELSE q = r
    PROVE  HasRoots(q, g, n + 1)
<1>1. ASSUME NEW s \in DOMAIN r
      PROVE  r[s] = [i \in 1..checkpoint_every |-> Hashes(g, s - checkpoint_every + i)]
  <2>1. s \in 1..n /\ s \in Int
    BY DEF HasRoots
  <2>2. ASSUME NEW i \in 1..checkpoint_every
        PROVE  Hashes(g, s - checkpoint_every + i) = Hashes(f, s - checkpoint_every + i)
    <3>1. s - checkpoint_every + i \in Int /\ s - checkpoint_every + i <= n
      BY <2>1
    <3>2. \A j \in 1..(s - checkpoint_every + i) : g[j] = f[j]
      BY <3>1
    <3> QED BY <3>1, <3>2, HashesAgree
  <2> QED BY <2>2 DEF HasRoots
<1>2. CASE ~ IsBoundary(n + 1)
  <2>1. {s \in 1..n+1 : IsBoundary(s)} = {s \in 1..n : IsBoundary(s)}
    BY <1>2
  <2> QED BY <1>1, <1>2, <2>1 DEF HasRoots
<1>3. CASE IsBoundary(n + 1)
  <2>1. {s \in 1..n+1 : IsBoundary(s)} = {s \in 1..n : IsBoundary(s)} \cup {n + 1}
    BY <1>3
  <2>2. PICK m \in Nat : m = n + 1 /\ IsChain(g, m) /\ SegmentComplete(g, m)
    BY <1>3
  <2>3. PICK e : e = [i \in 1..checkpoint_every |-> g[m - checkpoint_every + i].hash]
    OBVIOUS
  <2>4. q = Over([s \in {m} |-> e], r) /\ m \notin DOMAIN r
    BY <1>3, <2>2, <2>3 DEF HasRoots, merkle_root
  <2>5. DOMAIN q = DOMAIN r \cup {m} /\ q[m] = e /\ \A s \in DOMAIN r : q[s] = r[s]
    <3>1. DOMAIN q = DOMAIN r \cup {m}
      BY <2>4 DEF Over
    <3>2. q[m] = e
      BY <2>4 DEF Over
    <3>3. ASSUME NEW s \in DOMAIN r PROVE q[s] = r[s]
      BY <2>4 DEF Over
    <3> QED BY <3>1, <3>2, <3>3
  <2>6. m - checkpoint_every + 1 >= 1
    BY <2>2 DEF SegmentComplete, IsChain
  <2>7. ASSUME NEW i \in 1..checkpoint_every
        PROVE  g[m - checkpoint_every + i].hash = Hashes(g, m - checkpoint_every + i)
    <3>1. m - checkpoint_every + i \in 1..m
      BY <2>6
    <3> QED BY <2>2, <3>1 DEF IsChain
  <2>8. e = [i \in 1..checkpoint_every |-> Hashes(g, m - checkpoint_every + i)]
    BY <2>3, <2>7
  <2>9. DOMAIN q = {s \in 1..m : IsBoundary(s)}
    BY <2>1, <2>2, <2>5 DEF HasRoots
  <2>10. HasRoots(q, g, m)
    BY <1>1, <2>5, <2>8, <2>9 DEF HasRoots
  <2> QED BY <2>2, <2>10
<1> QED BY <1>2, <1>3

\* A table behind no rows.
LEMMA NothingOver ==
    ASSUME NEW R, NEW f, IsTable(f, R)
    PROVE  Over(NoRows, f) = f
BY DEF IsTable, Over, NoRows

-----------------------------------------------------------------------------
(* Units of work.                                                          *)

\* The states of a unit of work.
LEMMA TxnFields ==
    ASSUME NEW x, IsTxn(x)
    PROVE  /\ x = [pc |-> x.pc, seq |-> x.seq, prev |-> x.prev, rows |-> x.rows,
                   roots |-> x.roots]
           /\ x.pc \in {"idle", "locked", "insert", "open"}
           /\ x.seq \in 0..MaxSeq + 1 /\ x.prev \in Seq(Payloads)
           /\ IsTable(x.rows, Entry) /\ IsTable(x.roots, Root)
BY DEF IsTxn

\* A unit of work before it begins.
LEMMA IdleIsTxn ==
    /\ IsTxn(IdleTxn) /\ AreHashed(IdleTxn.rows)
    /\ IdleTxn.pc = "idle" /\ IdleTxn.rows = NoRows /\ IdleTxn.roots = NoRows
<1>1. DOMAIN NoRows = {}
  BY DEF NoRows
<1>2. \A R : IsTable(NoRows, R)
  <2> SUFFICES ASSUME NEW R PROVE NoRows \in [{} -> R]
    BY <1>1 DEF IsTable
  <2> QED BY DEF NoRows
<1>3. GENESIS_PREV_HASH \in Seq(Payloads)
  BY DEF GENESIS_PREV_HASH
<1>4. IdleTxn.pc = "idle" /\ IdleTxn.rows = NoRows /\ IdleTxn.roots = NoRows
  BY DEF IdleTxn
<1>5. IsTxn(IdleTxn)
  <2>1. IsTable(NoRows, Entry) /\ IsTable(NoRows, Root)
    BY <1>2
  <2> QED BY <1>3, <2>1 DEF IsTxn, IdleTxn
<1> QED BY <1>1, <1>4, <1>5 DEF AreHashed

\* A chain is extended by a unit of work that has written nothing.
LEMMA IdleExtends ==
    ASSUME NEW l, NEW c, NEW n \in 0..MaxSeq, IsTable(l, Entry), IsTable(c, Root),
           IsChain(l, n), HasRoots(c, l, n)
    PROVE  /\ IsChain(Over(IdleTxn.rows, l), n)
           /\ HasRoots(Over(IdleTxn.roots, c), Over(IdleTxn.rows, l), n)
           /\ DOMAIN l \cap DOMAIN IdleTxn.rows = {}
           /\ ~ IdleTxn.pc = "insert"
<1>1. Over(NoRows, l) = l /\ Over(NoRows, c) = c
  BY NothingOver
<1>2. DOMAIN NoRows = {}
  BY DEF NoRows
<1> QED BY <1>1, <1>2, IdleIsTxn

\* A unit of work that begins, or goes on, under the lock, with a log it extends
\* where nobody tampered.
LEMMA UnitGoesOn ==
    ASSUME IndInv, NEW t \in Sessions, NEW y, IsTxn(y), AreHashed(y.rows), y.pc # "idle",
           chainLock \in {None, t}, chainLock' = t, txn' = [txn EXCEPT ![t] = y],
           UNCHANGED <<log, checkpoints, verifier, halted, written, tampered>>,
           ~ tampered => Extends(y)
    PROVE  IndInv'
<1>1. txn'[t] = y /\ DOMAIN txn' = Sessions
      /\ \A u \in Sessions : u # t => txn'[u] = txn[u]
  BY DEF IndInv, TypeOK
<1>2. TypeOK'
  <2>1. \A u \in Sessions : IsTxn(txn'[u])
    BY <1>1 DEF IndInv, TypeOK
  <2>2. IsTable(log', Entry) /\ IsTable(checkpoints', Root) /\ IsVerification(verifier')
    BY DEF IndInv, TypeOK
  <2> QED BY <1>1, <2>1, <2>2 DEF IndInv, TypeOK
<1>3. LockIsHeld'
  <2> SUFFICES ASSUME NEW u \in Sessions
               PROVE  /\ ~ txn'[u].pc = "idle" <=> chainLock' = u
                      /\ txn'[u].pc = "idle" => txn'[u] = IdleTxn
    BY DEF LockIsHeld, At
  <2>1. CASE u = t
    BY <1>1, <2>1
  <2>2. CASE u # t
    <3>1. chainLock # u
      BY <2>2
    <3> QED BY <1>1, <2>2, <3>1 DEF IndInv, LockIsHeld, At
  <2> QED BY <2>1, <2>2
<1>4. HashesAreOriginal'
  <2>1. \A u \in Sessions : AreHashed(txn'[u].rows)
    BY <1>1 DEF IndInv, HashesAreOriginal
  <2>2. \A s, e : WasWritten(s, e)' <=> WasWritten(s, e)
    BY DEF WasWritten
  <2> QED BY <2>1, <2>2 DEF IndInv, HashesAreOriginal
<1>5. ASSUME ~ tampered PROVE LogIsChain' /\ ReadIsLog' /\ \A u \in Sessions : Extends(txn[u])'
  <2>1. LogIsChain' /\ ReadIsLog'
    BY <1>5 DEF IndInv, LogIsChain, ReadIsLog
  <2>2. ASSUME NEW z PROVE Extends(z)' <=> Extends(z)
    BY DEF Extends, ExtendsLog
  <2>3. ASSUME NEW u \in Sessions PROVE Extends(txn[u])'
    <3>1. PICK z : z = txn'[u] /\ Extends(z)
      BY <1>1, <1>5 DEF IndInv
    <3>2. Extends(z)'
      BY <2>2, <3>1
    <3> QED BY <3>1, <3>2 DEF Extends, ExtendsLog
  <2> QED BY <2>1, <2>3
<1>6. NoFalseAlarm' /\ OkCoversWhatWasRead'
  BY DEF IndInv, NoFalseAlarm, OkCoversWhatWasRead
<1>7. (DOMAIN verifier.rows \subseteq verifier.from .. verifier.to)'
  BY DEF IndInv
<1> QED BY <1>2, <1>3, <1>4, <1>5, <1>6, <1>7 DEF IndInv

\* acquire_chain_lock
LEMMA AcquireKeeps ==
    ASSUME IndInv, NEW t \in Sessions, AcquireChainLock(t)
    PROVE  IndInv'
<1>1. PICK x : x = txn[t] /\ IsTxn(x) /\ AreHashed(x.rows) /\ (~ tampered => Extends(x))
  BY DEF IndInv, TypeOK, HashesAreOriginal
<1>2. PICK y : y = [x EXCEPT !.pc = "locked"]
  OBVIOUS
<1>3. /\ y.pc = "locked" /\ y.seq = x.seq /\ y.prev = x.prev /\ y.rows = x.rows
      /\ y.roots = x.roots
      /\ y = [pc |-> y.pc, seq |-> y.seq, prev |-> y.prev, rows |-> y.rows, roots |-> y.roots]
  BY <1>1, <1>2, TxnFields
<1>4. IsTxn(y)
  BY <1>1, <1>3, TxnFields DEF IsTxn
<1>5. txn' = [txn EXCEPT ![t] = y]
  BY <1>1, <1>2 DEF AcquireChainLock
<1>6. ASSUME ~ tampered PROVE Extends(y)
  <2>1. PICK n \in 0..MaxSeq : ExtendsLog(x, n)
    BY <1>1, <1>6 DEF Extends
  <2>2. ExtendsLog(y, n)
    BY <1>3, <2>1 DEF ExtendsLog
  <2> QED BY <2>2 DEF Extends
<1> QED BY <1>1, <1>3, <1>4, <1>5, <1>6, UnitGoesOn DEF AcquireChainLock

\* The tail of a table.
LEMMA TailIs ==
    ASSUME NEW t, NEW f, f = Visible(t), DOMAIN f \subseteq 1..MaxSeq
    PROVE  /\ DOMAIN f = {} => get_tail(t) = 0
           /\ DOMAIN f # {} => get_tail(t) \in DOMAIN f
           /\ \A s \in DOMAIN f : s <= get_tail(t)
<1>1. CASE DOMAIN f = {}
  BY <1>1 DEF get_tail
<1>2. CASE DOMAIN f # {}
  <2>1. \E s \in DOMAIN f : \A r \in DOMAIN f : r <= s
    BY <1>2, Greatest
  <2>2. get_tail(t) = CHOOSE s \in DOMAIN f : \A r \in DOMAIN f : r <= s
    BY <1>2 DEF get_tail
  <2> QED BY <1>2, <2>1, <2>2
<1> QED BY <1>1, <1>2

\* get_tail: the next number, and the hash of all that is in sight.
LEMMA GetTailKeeps ==
    ASSUME IndInv, NEW t \in Sessions, GetTail(t)
    PROVE  IndInv'
<1>1. PICK x : x = txn[t] /\ IsTxn(x) /\ AreHashed(x.rows) /\ (~ tampered => Extends(x))
  BY DEF IndInv, TypeOK, HashesAreOriginal
<1>2. PICK f : f = Visible(t) /\ f = Over(x.rows, log) /\ IsTable(f, Entry)
  <2>1. IsTable(log, Entry) /\ IsTable(x.rows, Entry)
    BY <1>1, TxnFields DEF IndInv, TypeOK
  <2> QED BY <1>1, <2>1, OverTable DEF Visible
<1>3. PICK tail : tail = get_tail(t)
  OBVIOUS
<1>4. /\ DOMAIN f \subseteq 1..MaxSeq
      /\ DOMAIN f = {} => tail = 0
      /\ DOMAIN f # {} => tail \in DOMAIN f
      /\ \A s \in DOMAIN f : s <= tail
  <2>1. DOMAIN f \subseteq 1..MaxSeq
    BY <1>2 DEF IsTable
  <2> QED BY <1>2, <1>3, <2>1, TailIs
<1>5. tail \in 0..MaxSeq /\ (tail # 0 => tail \in DOMAIN f)
  BY <1>4
<1>6. PICK prev : prev = IF tail = 0 THEN GENESIS_PREV_HASH ELSE f[tail].hash
  OBVIOUS
<1>7. prev \in Seq(Payloads)
  <2>1. CASE tail = 0
    BY <1>6, <2>1 DEF GENESIS_PREV_HASH
  <2>2. CASE tail # 0
    <3>1. f[tail] \in Entry
      BY <1>2, <1>5, <2>2 DEF IsTable
    <3> QED BY <1>6, <2>2, <3>1 DEF Entry
  <2> QED BY <2>1, <2>2
<1>8. PICK y : y = [x EXCEPT !.pc = "insert", !.seq = tail + 1, !.prev = prev]
  OBVIOUS
<1>9. /\ y.pc = "insert" /\ y.seq = tail + 1 /\ y.prev = prev /\ y.rows = x.rows
      /\ y.roots = x.roots
      /\ y = [pc |-> y.pc, seq |-> y.seq, prev |-> y.prev, rows |-> y.rows, roots |-> y.roots]
  <2>1. PICK a : a = [x EXCEPT !.pc = "insert"]
    OBVIOUS
  <2>2. a = [pc |-> "insert", seq |-> x.seq, prev |-> x.prev, rows |-> x.rows,
             roots |-> x.roots]
    BY <1>1, <2>1, TxnFields
  <2>3. PICK k : k = tail + 1
    OBVIOUS
  <2>4. PICK b : b = [a EXCEPT !.seq = k]
    OBVIOUS
  <2>5. b = [pc |-> "insert", seq |-> k, prev |-> x.prev, rows |-> x.rows,
             roots |-> x.roots]
    BY <2>2, <2>4
  <2>6. y = [b EXCEPT !.prev = prev]
    BY <1>8, <2>1, <2>3, <2>4
  <2>7. y = [pc |-> "insert", seq |-> k, prev |-> prev, rows |-> x.rows,
             roots |-> x.roots]
    BY <2>5, <2>6
  <2> QED BY <2>3, <2>7
<1>10. IsTxn(y)
  <2>1. tail + 1 \in 0..MaxSeq + 1 /\ tail + 1 # 0
    BY <1>5
  <2> QED BY <1>1, <1>7, <1>9, <2>1, TxnFields DEF IsTxn
<1>11. txn' = [txn EXCEPT ![t] = y]
  BY <1>1, <1>2, <1>3, <1>6, <1>8 DEF GetTail
<1>12. ASSUME ~ tampered PROVE Extends(y)
  <2>1. PICK n \in 0..MaxSeq : ExtendsLog(x, n)
    BY <1>1, <1>12 DEF Extends
  <2>2. DOMAIN f = 1..n /\ IsChain(f, n)
    BY <1>2, <2>1 DEF ExtendsLog, IsChain
  <2>3. tail = n
    <3>1. CASE n = 0
      BY <1>4, <2>2, <3>1
    <3>2. CASE n # 0
      <4>1. n \in DOMAIN f /\ tail \in 1..n
        BY <1>4, <2>2, <3>2
      <4> QED BY <1>4, <4>1
    <3> QED BY <3>1, <3>2
  <2>4. prev = Hashes(f, n)
    <3>1. CASE n = 0
      <4>1. Hashes(f, n) = <<>>
        BY <3>1 DEF Hashes
      <4> QED BY <1>6, <2>3, <3>1, <4>1 DEF GENESIS_PREV_HASH
    <3>2. CASE n # 0
      BY <1>6, <2>2, <2>3, <3>2 DEF IsChain
    <3> QED BY <3>1, <3>2
  <2>5. ExtendsLog(y, n)
    BY <1>2, <1>9, <2>1, <2>3, <2>4 DEF ExtendsLog
  <2> QED BY <2>5 DEF Extends
<1>13. chainLock = t /\ chainLock' = t
  BY DEF GetTail, IndInv, LockIsHeld, At
<1>14. UNCHANGED <<log, checkpoints, verifier, halted, written, tampered>>
  BY DEF GetTail
<1> QED BY <1>1, <1>9, <1>10, <1>11, <1>12, <1>13, <1>14, UnitGoesOn

\* The root of a complete segment.
LEMMA RootIsRoot ==
    ASSUME NEW f, IsTable(f, Entry), NEW s \in 1..MaxSeq, SegmentComplete(f, s)
    PROVE  merkle_root(f, s) \in Root
<1>1. ASSUME NEW i \in 1..checkpoint_every
      PROVE  f[s - checkpoint_every + i].hash \in Seq(Payloads)
  <2>1. s - checkpoint_every + i \in s - checkpoint_every + 1 .. s
    OBVIOUS
  <2>2. f[s - checkpoint_every + i] \in Entry
    BY <2>1 DEF SegmentComplete, IsTable
  <2> QED BY <2>2 DEF Entry
<1>2. merkle_root(f, s) \in [1..checkpoint_every -> Seq(Payloads)]
  BY <1>1 DEF merkle_root
<1> QED BY <1>2 DEF Root

\* A row put before a table of its type.
LEMMA RowOverTable ==
    ASSUME NEW R, NEW f, IsTable(f, R), NEW s \in 1..MaxSeq, NEW e \in R
    PROVE  IsTable(Over([r \in {s} |-> e], f), R)
<1>1. IsTable([r \in {s} |-> e], R)
  BY DEF IsTable
<1> QED BY <1>1, OverTable

\* The unit of work x with the row e added at its number, and the root it makes due.
AddRow(x, e) == Over([r \in {x.seq} |-> e], x.rows)
AddRoot(x, seen, due) ==
    IF due THEN Over([r \in {x.seq} |-> merkle_root(seen, x.seq)], x.roots) ELSE x.roots

\* What is in sight goes on with the row that is added.
LEMMA AddExtends ==
    ASSUME NEW x, IsTxn(x), NEW n \in 0..MaxSeq, ExtendsLog(x, n), x.pc = "insert",
           x.seq <= MaxSeq, NEW p \in Payloads, NEW e \in Entry,
           e.payload = p, e.prev = x.prev, e.hash = compute_entry_hash(x.prev, p),
           NEW y, y.pc = "open", y.rows = AddRow(x, e), NEW seen, seen = Over(y.rows, log),
           NEW due, due = (IsBoundary(x.seq) /\ x.seq \notin DOMAIN checkpoints),
           due => SegmentComplete(seen, x.seq), y.roots = AddRoot(x, seen, due), TypeOK
    PROVE  Extends(y)
<1>1. PICK f : f = Over(x.rows, log) /\ IsTable(f, Entry)
  <2>1. IsTable(log, Entry) /\ IsTable(x.rows, Entry)
    BY TxnFields DEF TypeOK
  <2> QED BY <2>1, OverTable
<1>2. PICK q : q = Over(x.roots, checkpoints)
  OBVIOUS
<1>3. IsChain(f, n) /\ HasRoots(q, f, n) /\ x.prev = Hashes(f, n) /\ x.seq = n + 1
  BY <1>1, <1>2 DEF ExtendsLog
<1>4. n \in Nat /\ n + 1 \in 1..MaxSeq
  BY <1>3
<1>5. seen = Over([r \in {n + 1} |-> e], f)
  BY <1>1, <1>3, OverOver DEF AddRow
<1>6. DOMAIN f = 1..n /\ DOMAIN seen = 1..n+1
  <2>1. DOMAIN f = 1..n
    BY <1>3 DEF IsChain
  <2>2. DOMAIN seen = DOMAIN f \cup {n + 1}
    BY <1>5 DEF Over
  <2>3. 1..n+1 = (1..n) \cup {n + 1}
    BY <1>4
  <2> QED BY <2>1, <2>2, <2>3
<1>7. seen[n + 1] = e
  BY <1>5 DEF Over
<1>8. ASSUME NEW i \in 1..n PROVE seen[i] = f[i]
  <2>1. i # n + 1 /\ i \in DOMAIN f
    BY <1>6
  <2> QED BY <1>5, <2>1 DEF Over
<1>9. IsTable(seen, Entry)
  BY <1>1, <1>4, <1>5, RowOverTable
<1>10. IsChain(seen, n + 1)
  BY <1>1, <1>3, <1>4, <1>6, <1>7, <1>8, <1>9, ChainGrows
<1>11. n + 1 \notin DOMAIN q /\ n + 1 \notin DOMAIN checkpoints
  <2>1. n + 1 \notin 1..n
    OBVIOUS
  <2>2. DOMAIN q \subseteq 1..n
    BY <1>3 DEF HasRoots
  <2>3. DOMAIN checkpoints \subseteq DOMAIN q
    BY <1>2 DEF Over
  <2> QED BY <2>1, <2>2, <2>3
<1>12. PICK z : z = Over(y.roots, checkpoints)
  OBVIOUS
<1>13. IF IsBoundary(n + 1)
       THEN /\ SegmentComplete(seen, n + 1)
            /\ z = Over([s \in {n + 1} |-> merkle_root(seen, n + 1)], q)
       ELSE z = q
  <2>1. CASE IsBoundary(n + 1)
    <3>1. due /\ SegmentComplete(seen, n + 1)
      BY <1>3, <1>11, <2>1
    <3>2. y.roots = Over([s \in {n + 1} |-> merkle_root(seen, n + 1)], x.roots)
      BY <1>3, <3>1 DEF AddRoot
    <3>3. z = Over([s \in {n + 1} |-> merkle_root(seen, n + 1)], q)
      BY <1>2, <1>12, <3>2, OverOver
    <3> QED BY <2>1, <3>1, <3>3
  <2>2. CASE ~ IsBoundary(n + 1)
    BY <1>2, <1>3, <1>12, <2>2 DEF AddRoot
  <2> QED BY <2>1, <2>2
<1>14. HasRoots(z, seen, n + 1)
  BY <1>3, <1>4, <1>8, <1>10, <1>13, RootsGrow
<1>15. DOMAIN log \cap DOMAIN y.rows = {}
  <2>1. DOMAIN y.rows = DOMAIN x.rows \cup {n + 1}
    BY <1>3 DEF AddRow, Over
  <2>2. DOMAIN log \subseteq 1..n
    BY <1>1, <1>6 DEF Over
  <2>3. n + 1 \notin DOMAIN log
    BY <2>2
  <2> QED BY <2>1, <2>3 DEF ExtendsLog
<1>16. ExtendsLog(y, n + 1)
  BY <1>10, <1>12, <1>14, <1>15 DEF ExtendsLog
<1> QED BY <1>4, <1>16 DEF Extends

\* add_at_seq and _write_checkpoint
LEMMA AddEntryKeeps ==
    ASSUME IndInv, NEW t \in Sessions, NEW p \in Payloads, AddEntry(t, p)
    PROVE  IndInv'
<1>1. PICK x : x = txn[t] /\ IsTxn(x) /\ AreHashed(x.rows) /\ (~ tampered => Extends(x))
  BY DEF IndInv, TypeOK, HashesAreOriginal
<1>2. PICK e : e = [payload |-> p, prev |-> x.prev, hash |-> compute_entry_hash(x.prev, p)]
  OBVIOUS
<1>3. e \in Entry /\ e.payload = p /\ e.prev = x.prev /\ e.hash = compute_entry_hash(x.prev, p)
  <2>1. x.prev \in Seq(Payloads)
    BY <1>1, TxnFields
  <2>2. compute_entry_hash(x.prev, p) \in Seq(Payloads)
    BY <2>1 DEF compute_entry_hash
  <2> QED BY <1>2, <2>1, <2>2 DEF Entry
<1>4. PICK rows : rows = AddRow(x, e)
  OBVIOUS
<1>5. PICK seen : seen = Over(rows, log)
  OBVIOUS
<1>6. PICK due : due = (IsBoundary(x.seq) /\ x.seq \notin DOMAIN checkpoints)
  OBVIOUS
<1>7. PICK roots : roots = AddRoot(x, seen, due)
  OBVIOUS
<1>8. PICK y : y = [x EXCEPT !.pc = "open", !.rows = rows, !.roots = roots]
  OBVIOUS
<1>9. /\ x.pc = "insert" /\ x.seq <= MaxSeq
      /\ due => SegmentComplete(seen, x.seq)
      /\ txn' = [txn EXCEPT ![t] = y]
      /\ UNCHANGED <<log, checkpoints, chainLock, verifier, halted, written, tampered>>
  <2>1. x.pc = "insert" /\ x.seq <= MaxSeq
        /\ UNCHANGED <<log, checkpoints, chainLock, verifier, halted, written, tampered>>
    BY <1>1 DEF AddEntry, At
  <2>2. due => SegmentComplete(seen, x.seq)
    BY <1>1, <1>2, <1>4, <1>5, <1>6 DEF AddEntry, AddRow
  <2>3. txn' = [txn EXCEPT ![t].pc = "open", ![t].rows = rows, ![t].roots = roots]
    BY <1>1, <1>2, <1>4, <1>5, <1>6, <1>7 DEF AddEntry, AddRow, AddRoot
  <2>4. txn' = [txn EXCEPT ![t] = y]
    BY <1>1, <1>8, <2>3
  <2> QED BY <2>1, <2>2, <2>4
<1>10. /\ y.pc = "open" /\ y.seq = x.seq /\ y.prev = x.prev /\ y.rows = rows
       /\ y.roots = roots
       /\ y = [pc |-> y.pc, seq |-> y.seq, prev |-> y.prev, rows |-> y.rows, roots |-> y.roots]
  <2>1. PICK a : a = [x EXCEPT !.pc = "open"]
    OBVIOUS
  <2>2. a = [pc |-> "open", seq |-> x.seq, prev |-> x.prev, rows |-> x.rows,
             roots |-> x.roots]
    BY <1>1, <2>1, TxnFields
  <2>3. PICK b : b = [a EXCEPT !.rows = rows]
    OBVIOUS
  <2>4. b = [pc |-> "open", seq |-> x.seq, prev |-> x.prev, rows |-> rows,
             roots |-> x.roots]
    BY <2>2, <2>3
  <2>5. y = [b EXCEPT !.roots = roots]
    BY <1>8, <2>1, <2>3
  <2>6. y = [pc |-> "open", seq |-> x.seq, prev |-> x.prev, rows |-> rows, roots |-> roots]
    BY <2>4, <2>5
  <2> QED BY <2>6
<1>11. x.seq \in 1..MaxSeq
  <2>1. x.seq \in 0..MaxSeq + 1 /\ x.seq # 0
    BY <1>1, <1>9, TxnFields DEF IsTxn
  <2> QED BY <1>9, <2>1
<1>12. IsTable(rows, Entry)
  <2>1. IsTable(x.rows, Entry)
    BY <1>1, TxnFields
  <2> QED BY <1>3, <1>4, <1>11, <2>1, RowOverTable DEF AddRow
<1>13. IsTable(roots, Root)
  <2>1. IsTable(x.roots, Root)
    BY <1>1, TxnFields
  <2>2. CASE due
    <3>1. IsTable(seen, Entry)
      BY <1>5, <1>12, OverTable DEF IndInv, TypeOK
    <3>2. merkle_root(seen, x.seq) \in Root
      BY <1>9, <1>11, <2>2, <3>1, RootIsRoot
    <3> QED BY <1>7, <1>11, <2>1, <2>2, <3>2, RowOverTable DEF AddRoot
  <2>3. CASE ~ due
    BY <1>7, <2>1, <2>3 DEF AddRoot
  <2> QED BY <2>2, <2>3
<1>14. IsTxn(y)
  <2>1. x.seq \in 0..MaxSeq + 1 /\ x.prev \in Seq(Payloads)
    BY <1>1, TxnFields
  <2> QED BY <1>10, <1>12, <1>13, <2>1 DEF IsTxn
<1>15. AreHashed(rows)
  <2>1. ASSUME NEW s \in DOMAIN rows
        PROVE  rows[s].hash = compute_entry_hash(rows[s].prev, rows[s].payload)
    <3>1. CASE s = x.seq
      <4>1. rows[s] = e
        BY <1>4, <3>1 DEF AddRow, Over
      <4> QED BY <1>3, <4>1
    <3>2. CASE s # x.seq
      <4>1. s \in DOMAIN x.rows /\ rows[s] = x.rows[s]
        BY <1>4, <3>2 DEF AddRow, Over
      <4> QED BY <1>1, <4>1 DEF AreHashed
    <3> QED BY <3>1, <3>2
  <2> QED BY <2>1 DEF AreHashed
<1>16. ASSUME ~ tampered PROVE Extends(y)
  <2>1. PICK n \in 0..MaxSeq : ExtendsLog(x, n)
    BY <1>1, <1>16 DEF Extends
  <2>2. TypeOK
    BY DEF IndInv
  <2> QED BY <1>1, <1>3, <1>4, <1>5, <1>6, <1>7, <1>9, <1>10, <2>1, <2>2, AddExtends
<1>17. chainLock = t
  BY <1>1, <1>9 DEF IndInv, LockIsHeld, At
<1> QED BY <1>9, <1>10, <1>14, <1>15, <1>16, <1>17, UnitGoesOn

\* A unit of work that ends is as before it began, and the lock is free.
LEMMA UnitEnds ==
    ASSUME TypeOK, LockIsHeld, NEW t \in Sessions, txn[t].pc # "idle", Unlock(t),
           txn' = [txn EXCEPT ![t] = IdleTxn]
    PROVE  /\ chainLock' = None /\ DOMAIN txn' = Sessions
           /\ \A u \in Sessions : txn'[u] = IdleTxn
           /\ LockIsHeld'
<1>1. chainLock = t /\ \A u \in Sessions : u # t => txn[u] = IdleTxn
  BY DEF LockIsHeld, At
<1>2. DOMAIN txn = Sessions
  BY DEF TypeOK
<1>3. chainLock' = None
  BY <1>1 DEF Unlock
<1>4. \A u \in Sessions : txn'[u] = IdleTxn
  BY <1>1, <1>2
<1>5. LockIsHeld'
  <2>1. \A u \in Sessions : txn'[u].pc = "idle" /\ chainLock' # u
    BY <1>3, <1>4, IdleIsTxn
  <2> QED BY <1>4, <2>1 DEF LockIsHeld, At
<1> QED BY <1>2, <1>3, <1>4, <1>5

\* Commit: what was in sight is the log.
LEMMA CommitKeeps ==
    ASSUME IndInv, NEW t \in Sessions, Commit(t)
    PROVE  IndInv'
<1>1. PICK x : x = txn[t] /\ IsTxn(x) /\ AreHashed(x.rows) /\ (~ tampered => Extends(x))
  BY DEF IndInv, TypeOK, HashesAreOriginal
<1>2. /\ x.pc = "open" /\ log' = Over(x.rows, log) /\ checkpoints' = Over(x.roots, checkpoints)
      /\ written' = written \cup {<<s, x.rows[s].payload>> : s \in DOMAIN x.rows}
      /\ Unlock(t) /\ txn' = [txn EXCEPT ![t] = IdleTxn]
      /\ UNCHANGED <<verifier, halted, tampered>>
  BY <1>1 DEF Commit, At, Visible
<1>3. IsTable(x.rows, Entry) /\ IsTable(x.roots, Root)
  BY <1>1, TxnFields
<1>4. IsTable(log', Entry) /\ IsTable(checkpoints', Root)
  BY <1>2, <1>3, OverTable DEF IndInv, TypeOK
<1>5. /\ chainLock' = None /\ DOMAIN txn' = Sessions
      /\ \A u \in Sessions : txn'[u] = IdleTxn
      /\ LockIsHeld'
  BY <1>1, <1>2, UnitEnds DEF IndInv
<1>6. ASSUME NEW s \in DOMAIN x.rows
      PROVE  /\ s \in 1..MaxSeq /\ x.rows[s].payload \in Payloads
             /\ <<s, x.rows[s].payload>> \in written'
             /\ log'[s] = x.rows[s]
  <2>1. x.rows[s] \in Entry /\ s \in 1..MaxSeq
    BY <1>3 DEF IsTable
  <2>2. log'[s] = x.rows[s]
    BY <1>2 DEF Over
  <2> QED BY <1>2, <2>1, <2>2 DEF Entry
<1>7. ASSUME NEW s \in DOMAIN log, s \notin DOMAIN x.rows PROVE log'[s] = log[s]
  BY <1>2, <1>7 DEF Over
<1>8. DOMAIN log' = DOMAIN log \cup DOMAIN x.rows
  BY <1>2 DEF Over
<1>9. written \subseteq written' /\ written' \subseteq (1..MaxSeq) \X Payloads
  BY <1>2, <1>6 DEF IndInv, TypeOK
<1>10. TypeOK'
  <2>1. \A u \in Sessions : IsTxn(txn'[u])
    BY <1>5, IdleIsTxn
  <2>2. IsVerification(verifier')
    BY <1>2 DEF IndInv, TypeOK
  <2> QED BY <1>2, <1>4, <1>5, <1>9, <2>1, <2>2 DEF IndInv, TypeOK
<1>11. HashesAreOriginal'
  <2>1. ASSUME NEW s, NEW e, WasWritten(s, e) PROVE WasWritten(s, e)'
    BY <1>9, <2>1 DEF WasWritten
  <2>2. ASSUME NEW s \in DOMAIN log' PROVE WasWritten(s, log[s])'
    <3>1. CASE s \in DOMAIN x.rows
      <4>1. x.rows[s].hash = compute_entry_hash(x.rows[s].prev, x.rows[s].payload)
        BY <1>1, <3>1 DEF AreHashed
      <4> QED BY <1>6, <3>1, <4>1 DEF WasWritten
    <3>2. CASE s \notin DOMAIN x.rows
      <4>1. PICK e : e = log[s] /\ e = log'[s] /\ WasWritten(s, e)
        BY <1>7, <1>8, <3>2 DEF IndInv, HashesAreOriginal
      <4>2. WasWritten(s, e)'
        BY <2>1, <4>1
      <4> QED BY <4>1, <4>2 DEF WasWritten
    <3> QED BY <3>1, <3>2
  <2>3. ASSUME NEW s \in DOMAIN verifier'.rows PROVE WasWritten(s, verifier.rows[s])'
    <3>1. PICK e : e = verifier.rows[s] /\ e = verifier'.rows[s] /\ WasWritten(s, e)
      BY <1>2 DEF IndInv, HashesAreOriginal
    <3>2. WasWritten(s, e)'
      BY <2>1, <3>1
    <3> QED BY <3>1, <3>2 DEF WasWritten
  <2>4. \A u \in Sessions : AreHashed(txn'[u].rows)
    BY <1>5, IdleIsTxn
  <2> QED BY <2>2, <2>3, <2>4 DEF HashesAreOriginal
<1>12. ASSUME ~ tampered
       PROVE  LogIsChain' /\ ReadIsLog' /\ \A u \in Sessions : Extends(txn[u])'
  <2>1. PICK n \in 0..MaxSeq : ExtendsLog(x, n)
    BY <1>1, <1>12 DEF Extends
  <2>2. PICK l : l = log'
    OBVIOUS
  <2>3. PICK c : c = checkpoints'
    OBVIOUS
  <2>4. IsChain(l, n) /\ HasRoots(c, l, n) /\ IsTable(l, Entry) /\ IsTable(c, Root)
    BY <1>2, <1>4, <2>1, <2>2, <2>3 DEF ExtendsLog
  <2>5. LogIsChain'
    BY <2>2, <2>3, <2>4 DEF LogIsChain
  <2>6. ExtendsLog(IdleTxn, n)'
    BY <2>2, <2>3, <2>4, IdleExtends DEF ExtendsLog
  <2>7. ASSUME NEW u \in Sessions PROVE Extends(txn[u])'
    <3>1. Extends(IdleTxn)'
      BY <2>6 DEF Extends
    <3> QED BY <1>5, <3>1 DEF Extends, ExtendsLog
  <2>8. ReadIsLog /\ DOMAIN log \cap DOMAIN x.rows = {}
    BY <1>12, <2>1 DEF IndInv, ExtendsLog
  <2>9. ReadIsLog'
    <3>1. ASSUME NEW s \in DOMAIN verifier'.rows
          PROVE  s \in DOMAIN log' /\ verifier'.rows[s] = log'[s]
      <4>1. s \in DOMAIN log /\ verifier.rows[s] = log[s] /\ s \notin DOMAIN x.rows
        BY <1>2, <2>8 DEF ReadIsLog
      <4> QED BY <1>2, <1>7, <1>8, <4>1
    <3>2. Gapless(verifier'.rows, verifier'.from)
      BY <1>2, <2>8 DEF ReadIsLog
    <3>3. verifier'.committed \subseteq DOMAIN log'
      BY <1>2, <1>8, <2>8 DEF ReadIsLog
    <3>4. ASSUME NEW w \in written' PROVE w[1] \in DOMAIN log'
      <4>1. CASE w \in written
        BY <1>8, <2>8, <4>1 DEF ReadIsLog
      <4>2. CASE w \notin written
        <5>1. PICK s \in DOMAIN x.rows : w = <<s, x.rows[s].payload>>
          BY <1>2, <4>2
        <5> QED BY <1>8, <5>1
      <4> QED BY <4>1, <4>2
    <3> QED BY <3>1, <3>2, <3>3, <3>4 DEF ReadIsLog, Gapless
  <2> QED BY <2>5, <2>7, <2>9
<1>13. NoFalseAlarm' /\ OkCoversWhatWasRead'
  BY <1>2, <1>9 DEF IndInv, NoFalseAlarm, OkCoversWhatWasRead
<1>14. (DOMAIN verifier.rows \subseteq verifier.from .. verifier.to)'
  BY <1>2 DEF IndInv
<1> QED BY <1>2, <1>5, <1>10, <1>11, <1>12, <1>13, <1>14 DEF IndInv

\* Rollback: the log is as it was.
LEMMA RollbackKeeps ==
    ASSUME IndInv, NEW t \in Sessions, Rollback(t)
    PROVE  IndInv'
<1>1. /\ chainLock' = None /\ DOMAIN txn' = Sessions
      /\ \A u \in Sessions : txn'[u] = IdleTxn
      /\ LockIsHeld'
  BY UnitEnds DEF IndInv, Rollback, At
<1>2. UNCHANGED <<log, checkpoints, verifier, halted, written, tampered>>
  BY DEF Rollback
<1>3. TypeOK'
  <2>1. \A u \in Sessions : IsTxn(txn'[u])
    BY <1>1, IdleIsTxn
  <2>2. IsTable(log', Entry) /\ IsTable(checkpoints', Root) /\ IsVerification(verifier')
    BY <1>2 DEF IndInv, TypeOK
  <2> QED BY <1>1, <1>2, <2>1, <2>2 DEF IndInv, TypeOK
<1>4. HashesAreOriginal'
  <2>1. \A u \in Sessions : AreHashed(txn'[u].rows)
    BY <1>1, IdleIsTxn
  <2>2. \A s, e : WasWritten(s, e)' <=> WasWritten(s, e)
    BY <1>2 DEF WasWritten
  <2> QED BY <1>2, <2>1, <2>2 DEF IndInv, HashesAreOriginal
<1>5. ASSUME ~ tampered
      PROVE  LogIsChain' /\ ReadIsLog' /\ \A u \in Sessions : Extends(txn[u])'
  <2>1. LogIsChain' /\ ReadIsLog'
    BY <1>2, <1>5 DEF IndInv, LogIsChain, ReadIsLog
  <2>2. PICK n \in 0..MaxSeq : IsChain(log, n) /\ HasRoots(checkpoints, log, n)
    BY <1>5 DEF IndInv, LogIsChain
  <2>3. ExtendsLog(IdleTxn, n)
    BY <2>2, IdleExtends DEF ExtendsLog, IndInv, TypeOK
  <2>4. ExtendsLog(IdleTxn, n)'
    BY <1>2, <2>3 DEF ExtendsLog
  <2>5. ASSUME NEW u \in Sessions PROVE Extends(txn[u])'
    BY <1>1, <2>4 DEF Extends, ExtendsLog
  <2> QED BY <2>1, <2>5
<1>6. NoFalseAlarm' /\ OkCoversWhatWasRead'
  BY <1>2 DEF IndInv, NoFalseAlarm, OkCoversWhatWasRead
<1>7. (DOMAIN verifier.rows \subseteq verifier.from .. verifier.to)'
  BY <1>2 DEF IndInv
<1> QED BY <1>1, <1>2, <1>3, <1>4, <1>5, <1>6, <1>7 DEF IndInv

-----------------------------------------------------------------------------
(* The verifier.                                                           *)

\* One step of the recomputation, from the hashes h so far.
Step(h, rows, prior, from, s) ==
    IF s = from - 1 THEN prior
    ELSE IF s \in DOMAIN rows THEN compute_entry_hash(h[s - 1], rows[s].payload)
    ELSE GENESIS_PREV_HASH

\* There are hashes that satisfy every step, as far as to.
AreDefined(rows, prior, from, to) ==
    \E h : h = [s \in from - 1 .. to |-> Step(h, rows, prior, from, s)]

\* The recomputation is well defined.
LEMMA HashesExist ==
    ASSUME NEW rows, NEW prior, NEW from \in Nat, NEW k \in Nat
    PROVE  AreDefined(rows, prior, from, from - 1 + k)
<1> DEFINE P(j) == AreDefined(rows, prior, from, from - 1 + j)
           T == {j \in Nat : ~ P(j)}
<1>1. SUFFICES ASSUME T # {} PROVE FALSE
  OBVIOUS
<1>2. PICK j \in T : \A i \in T : j <= i
  <2>1. T \subseteq Nat
    OBVIOUS
  <2> HIDE DEF T
  <2> QED BY <1>1, <2>1, Least
<1>3. CASE j = 0
  <2>1. PICK h : h = [s \in {from - 1} |-> prior]
    OBVIOUS
  <2>2. from - 1 .. from - 1 + 0 = {from - 1}
    OBVIOUS
  <2>3. h = [s \in from - 1 .. from - 1 + 0 |-> Step(h, rows, prior, from, s)]
    BY <2>1, <2>2 DEF Step
  <2> QED BY <1>2, <1>3, <2>3 DEF AreDefined
<1>4. CASE j # 0
  <2>1. j - 1 \in Nat /\ j \in Nat
    BY <1>4
  <2>2. P(j - 1)
    <3>1. j - 1 \notin T
      <4> HIDE DEF T
      <4> QED BY <1>2, <2>1
    <3> HIDE DEF P
    <3> QED BY <2>1, <3>1
  <2>3. PICK i \in Nat : i = j - 1
    BY <2>1
  <2>4. PICK g : g = [s \in from - 1 .. from - 1 + i |-> Step(g, rows, prior, from, s)]
    BY <2>2, <2>3 DEF AreDefined
  <2>5. PICK m : m = from - 1 + j /\ m \in Int /\ m - 1 = from - 1 + i
    BY <2>1, <2>3
  <2>6. PICK h : h = [s \in from - 1 .. m |-> IF s = m THEN Step(g, rows, prior, from, m)
                                                ELSE g[s]]
    OBVIOUS
  <2>7. ASSUME NEW s \in from - 1 .. m PROVE h[s] = Step(h, rows, prior, from, s)
    <3>1. CASE s = from - 1
      <4>1. s # m /\ s \in from - 1 .. from - 1 + i
        BY <2>1, <2>5, <3>1
      <4> QED BY <2>4, <2>6, <3>1, <4>1 DEF Step
    <3>2. CASE s # from - 1
      <4>1. s - 1 \in from - 1 .. m /\ s - 1 # m /\ s \in Int
        BY <3>2, <2>5
      <4>2. h[s - 1] = g[s - 1]
        BY <2>6, <4>1
      <4>3. h[s] = Step(g, rows, prior, from, s)
        <5>1. CASE s = m
          BY <2>6, <5>1
        <5>2. CASE s # m
          <6>1. s \in from - 1 .. from - 1 + i
            BY <2>5, <5>2
          <6> QED BY <2>4, <2>6, <5>2, <6>1
        <5> QED BY <5>1, <5>2
      <4> QED BY <3>2, <4>2, <4>3 DEF Step
    <3> QED BY <3>1, <3>2
  <2>8. h = [s \in from - 1 .. from - 1 + j |-> Step(h, rows, prior, from, s)]
    BY <2>5, <2>6, <2>7
  <2> QED BY <1>2, <2>8 DEF AreDefined
<1> QED BY <1>3, <1>4

\* What Recomputed returns.
LEMMA RecomputedIs ==
    ASSUME NEW rows, NEW prior, NEW from \in Nat, NEW to \in Int, from <= to,
           NEW h, h = Recomputed(rows, prior, from, to)
    PROVE  \A s \in from - 1 .. to : h[s] = Step(h, rows, prior, from, s)
<1>1. PICK k \in Nat : to = from - 1 + k
  <2>1. to - (from - 1) \in Nat /\ to = from - 1 + (to - (from - 1))
    OBVIOUS
  <2> QED BY <2>1
<1>2. \E g : g = [s \in from - 1 .. to |-> Step(g, rows, prior, from, s)]
  <2>1. AreDefined(rows, prior, from, to)
    BY <1>1, HashesExist
  <2> QED BY <2>1 DEF AreDefined
<1>3. h = CHOOSE g : g = [s \in from - 1 .. to |-> Step(g, rows, prior, from, s)]
  BY Zenon DEF Recomputed, Step
<1>4. h = [s \in from - 1 .. to |-> Step(h, rows, prior, from, s)]
  BY <1>2, <1>3, Zenon
<1> QED BY <1>4

\* Over rows of a chain l, without a gap, the hashes recomputed are those of l.
LEMMA RecomputedIsLog ==
    ASSUME NEW l, IsTable(l, Entry), NEW n \in 0..MaxSeq, IsChain(l, n),
           NEW rows, NEW from \in 1..MaxSeq+1, NEW to \in 0..MaxSeq,
           DOMAIN rows \subseteq from .. to, Gapless(rows, from),
           \A s \in DOMAIN rows : s \in DOMAIN l /\ rows[s] = l[s],
           NEW prior, prior = Hashes(l, from - 1),
           NEW h, h = Recomputed(rows, prior, from, to)
    PROVE  \A s \in DOMAIN rows : h[s - 1] = Hashes(l, s - 1) /\ h[s] = Hashes(l, s)
<1>1. SUFFICES ASSUME NEW r \in DOMAIN rows
               PROVE  h[r - 1] = Hashes(l, r - 1) /\ h[r] = Hashes(l, r)
  OBVIOUS
<1>2. r \in from .. to /\ r \in Int /\ from <= to /\ from \in Nat /\ to \in Int
  OBVIOUS
<1>3. \A s \in from - 1 .. to : h[s] = Step(h, rows, prior, from, s)
  BY <1>2, RecomputedIs
<1> DEFINE T == {k \in Nat : /\ from - 1 + k = from - 1 \/ from - 1 + k \in DOMAIN rows
                             /\ h[from - 1 + k] # Hashes(l, from - 1 + k)}
<1>4. T = {}
  <2>1. SUFFICES ASSUME T # {} PROVE FALSE
    OBVIOUS
  <2>2. PICK j \in T : \A i \in T : j <= i
    <3>1. T \subseteq Nat
      OBVIOUS
    <3> HIDE DEF T
    <3> QED BY <2>1, <3>1, Least
  <2>3. PICK m \in Int : m = from - 1 + j
    OBVIOUS
  <2>4. (m = from - 1 \/ m \in DOMAIN rows) /\ h[m] # Hashes(l, m) /\ j \in Nat
    BY <2>2, <2>3
  <2>5. CASE m = from - 1
    <3>1. h[m] = prior
      BY <1>2, <1>3, <2>5 DEF Step
    <3> QED BY <2>4, <2>5, <3>1
  <2>6. CASE m # from - 1
    <3>1. m \in DOMAIN rows /\ m \in from .. to /\ m \in DOMAIN l /\ rows[m] = l[m]
      BY <2>4, <2>6
    <3>2. m - 1 = from - 1 \/ m - 1 \in DOMAIN rows
      <4>1. m - 1 = from - 1 \/ m - 1 \in from .. m
        BY <3>1
      <4> QED BY <3>1, <4>1 DEF Gapless
    <3>3. j - 1 \in Nat /\ from - 1 + (j - 1) = m - 1 /\ j - 1 \notin T
      <4>1. j - 1 \in Nat /\ from - 1 + (j - 1) = m - 1 /\ ~ (j <= j - 1)
        BY <2>3, <2>4, <2>6
      <4> HIDE DEF T
      <4> QED BY <2>2, <4>1
    <3>4. h[m - 1] = Hashes(l, m - 1)
      BY <3>2, <3>3
    <3>5. h[m] = compute_entry_hash(Hashes(l, m - 1), l[m].payload)
      BY <1>3, <2>6, <3>1, <3>4 DEF Step
    <3>6. m - 1 \in Nat /\ (m - 1) + 1 = m /\ 1..m \subseteq DOMAIN l
      <4>1. m \in 1..n
        BY <3>1 DEF IsChain
      <4> QED BY <3>1, <4>1 DEF IsChain
    <3>7. compute_entry_hash(Hashes(l, m - 1), l[m].payload) = Hashes(l, m)
      <4>1. PICK k \in Nat : k = m - 1 /\ k + 1 = m
        BY <3>6
      <4>2. compute_entry_hash(Hashes(l, k), l[k + 1].payload) = Hashes(l, k + 1)
        BY <3>6, <4>1, HashesGrow
      <4> QED BY <4>1, <4>2
    <3> QED BY <2>4, <3>5, <3>7
  <2> QED BY <2>5, <2>6
<1>5. ASSUME NEW s \in Int, s >= from - 1, s = from - 1 \/ s \in DOMAIN rows
      PROVE  h[s] = Hashes(l, s)
  <2>1. PICK k \in Nat : k = s - (from - 1) /\ from - 1 + k = s
    <3>1. s - (from - 1) \in Nat /\ from - 1 + (s - (from - 1)) = s
      BY <1>5
    <3> QED BY <3>1
  <2>2. k \notin T
    <3> HIDE DEF T
    <3> QED BY <1>4
  <2> QED BY <1>5, <2>1, <2>2
<1>6. r - 1 \in Int /\ r - 1 >= from - 1 /\ r >= from - 1
  BY <1>2
<1>7. r - 1 = from - 1 \/ r - 1 \in DOMAIN rows
  <2>1. r - 1 = from - 1 \/ r - 1 \in from .. r
    BY <1>2
  <2> QED BY <2>1 DEF Gapless
<1> HIDE DEF T
<1> QED BY <1>2, <1>5, <1>6, <1>7

\* A verification of a log nobody tampered with, from an entry it has, is ok.
LEMMA NoAlarm ==
    ASSUME IndInv, ~ tampered, verifier.from = 1 \/ verifier.from - 1 \in DOMAIN log
    PROVE  verify_chain(verifier.rows, verifier.from, verifier.to, checkpoints)
<1>1. PICK n \in 0..MaxSeq : IsChain(log, n) /\ HasRoots(checkpoints, log, n)
  BY DEF IndInv, LogIsChain
<1>2. PICK rows : rows = verifier.rows
  OBVIOUS
<1>3. PICK from \in 1..MaxSeq+1 : from = verifier.from
  BY DEF IndInv, TypeOK, IsVerification
<1>4. PICK to \in 0..MaxSeq : to = verifier.to
  BY DEF IndInv, TypeOK, IsVerification
<1>5. /\ DOMAIN rows \subseteq from .. to /\ Gapless(rows, from)
      /\ \A s \in DOMAIN rows : s \in DOMAIN log /\ rows[s] = log[s]
  BY <1>2, <1>3, <1>4 DEF IndInv, ReadIsLog
<1>6. PICK prior : prior = IF from = 1 THEN GENESIS_PREV_HASH ELSE log[from - 1].hash
  OBVIOUS
<1>7. prior = Hashes(log, from - 1)
  <2>1. CASE from = 1
    <3>1. Hashes(log, from - 1) = <<>>
      BY <2>1 DEF Hashes
    <3> QED BY <1>6, <2>1, <3>1 DEF GENESIS_PREV_HASH
  <2>2. CASE from # 1
    <3>1. from - 1 \in 1..n
      BY <1>1, <1>3, <2>2 DEF IsChain
    <3> QED BY <1>1, <1>6, <2>2, <3>1 DEF IsChain
  <2> QED BY <2>1, <2>2
<1>8. PICK h : h = Recomputed(rows, prior, from, to)
  OBVIOUS
<1>9. IsTable(log, Entry)
  BY DEF IndInv, TypeOK
<1>10. \A s \in DOMAIN rows : h[s - 1] = Hashes(log, s - 1) /\ h[s] = Hashes(log, s)
  BY <1>1, <1>5, <1>7, <1>8, <1>9, RecomputedIsLog
<1>11. Linked(rows, h)
  <2>1. ASSUME NEW s \in DOMAIN rows PROVE rows[s].prev = h[s - 1] /\ rows[s].hash = h[s]
    <3>1. s \in 1..n /\ rows[s] = log[s]
      BY <1>1, <1>5 DEF IsChain
    <3> QED BY <1>1, <1>10, <3>1 DEF IsChain
  <2> QED BY <2>1 DEF Linked
<1>12. RootsMatch(rows, h, from, checkpoints)
  <2>1. ASSUME NEW s \in DOMAIN rows \cap DOMAIN checkpoints, s - checkpoint_every + 1 >= from
        PROVE  checkpoints[s] = [i \in 1..checkpoint_every |-> h[s - checkpoint_every + i]]
    <3>1. s \in Int /\ s \in DOMAIN rows
      BY <1>5
    <3>2. ASSUME NEW i \in 1..checkpoint_every
          PROVE  h[s - checkpoint_every + i] = Hashes(log, s - checkpoint_every + i)
      <4>1. s - checkpoint_every + i \in from .. s
        BY <2>1, <3>1
      <4>2. s - checkpoint_every + i \in DOMAIN rows
        BY <1>5, <3>1, <4>1 DEF Gapless
      <4> QED BY <1>10, <4>2
    <3>3. checkpoints[s] = [i \in 1..checkpoint_every |-> Hashes(log, s - checkpoint_every + i)]
      BY <1>1 DEF HasRoots
    <3> QED BY <3>2, <3>3
  <2> QED BY <2>1 DEF RootsMatch
<1> QED BY <1>2, <1>3, <1>4, <1>5, <1>6, <1>8, <1>11, <1>12 DEF verify_chain

\* A verification that is ok read rows that were committed, without a gap.
LEMMA OkIsTrue ==
    ASSUME IndInv, verify_chain(verifier.rows, verifier.from, verifier.to, checkpoints),
           NEW s \in DOMAIN verifier.rows
    PROVE  /\ <<s, verifier.rows[s].payload>> \in written
           /\ verifier.from .. s \subseteq DOMAIN verifier.rows
<1>1. PICK rows : rows = verifier.rows
  OBVIOUS
<1>2. PICK from \in 1..MaxSeq+1 : from = verifier.from
  BY DEF IndInv, TypeOK, IsVerification
<1>3. PICK to \in 0..MaxSeq : to = verifier.to
  BY DEF IndInv, TypeOK, IsVerification
<1>4. PICK prior : prior = IF from = 1 THEN GENESIS_PREV_HASH ELSE log[from - 1].hash
  OBVIOUS
<1>5. PICK h : h = Recomputed(rows, prior, from, to)
  OBVIOUS
<1>6. Gapless(rows, from) /\ Linked(rows, h)
  BY <1>1, <1>2, <1>3, <1>4, <1>5 DEF verify_chain
<1>7. s \in DOMAIN rows /\ s \in from .. to /\ from <= to /\ from \in Nat /\ to \in Int
  BY <1>1, <1>2, <1>3 DEF IndInv
<1>8. h[s] = Step(h, rows, prior, from, s)
  BY <1>5, <1>7, RecomputedIs
<1>9. h[s] = compute_entry_hash(h[s - 1], rows[s].payload)
  BY <1>7, <1>8 DEF Step
<1>10. PICK e : e = rows[s]
  OBVIOUS
<1>11. e.hash = compute_entry_hash(e.prev, e.payload)
  BY <1>6, <1>7, <1>9, <1>10 DEF Linked
<1>12. e \in Entry /\ WasWritten(s, e)
  BY <1>1, <1>7, <1>10 DEF IndInv, TypeOK, IsVerification, IsTable, HashesAreOriginal
<1>13. PICK p \in Payloads : <<s, p>> \in written /\ e.hash = compute_entry_hash(e.prev, p)
  BY <1>12 DEF WasWritten
<1>14. p = e.payload
  <2>1. e.prev \in Seq(Payloads) /\ e.payload \in Payloads
    BY <1>12 DEF Entry
  <2>2. Append(e.prev, p) = Append(e.prev, e.payload)
    BY <1>11, <1>13 DEF compute_entry_hash
  <2>3. Append(e.prev, p)[Len(e.prev) + 1] = p
        /\ Append(e.prev, e.payload)[Len(e.prev) + 1] = e.payload
    BY <2>1
  <2> QED BY <2>2, <2>3
<1> QED BY <1>1, <1>2, <1>6, <1>7, <1>10, <1>13, <1>14 DEF Gapless

\* A step of the verifier alone, to a verification that is true of the log.
LEMMA VerifierSteps ==
    ASSUME IndInv, NEW v, IsVerification(v), verifier' = v, halted' \in BOOLEAN,
           UNCHANGED <<log, checkpoints, chainLock, txn, written, tampered>>,
           DOMAIN v.rows \subseteq v.from .. v.to,
           \A s \in DOMAIN v.rows : WasWritten(s, v.rows[s]),
           ~ tampered => /\ \A s \in DOMAIN v.rows : s \in DOMAIN log /\ v.rows[s] = log[s]
                         /\ Gapless(v.rows, v.from)
                         /\ v.committed \subseteq DOMAIN log,
           NoFalseAlarm', OkCoversWhatWasRead'
    PROVE  IndInv'
<1>1. TypeOK'
  <2>1. IsTable(log', Entry) /\ IsTable(checkpoints', Root) /\ IsVerification(verifier')
        /\ \A t \in Sessions : IsTxn(txn'[t])
    BY DEF IndInv, TypeOK
  <2> QED BY <2>1 DEF IndInv, TypeOK
<1>2. LockIsHeld'
  BY DEF IndInv, LockIsHeld, At
<1>3. HashesAreOriginal'
  <2>1. \A s, e : WasWritten(s, e)' <=> WasWritten(s, e)
    BY DEF WasWritten
  <2> QED BY <2>1 DEF IndInv, HashesAreOriginal
<1>4. ASSUME ~ tampered
      PROVE  LogIsChain' /\ ReadIsLog' /\ \A t \in Sessions : Extends(txn[t])'
  <2>1. LogIsChain' /\ \A t \in Sessions : Extends(txn[t])'
    BY <1>4 DEF IndInv, LogIsChain, Extends, ExtendsLog
  <2>2. ReadIsLog'
    BY <1>4 DEF IndInv, ReadIsLog
  <2> QED BY <2>1, <2>2
<1> QED BY <1>1, <1>2, <1>3, <1>4 DEF IndInv

\* No verification.
LEMMA NoVerificationIs ==
    /\ IsVerification(NoVerification) /\ DOMAIN NoVerification.rows = {}
    /\ NoVerification.committed = {} /\ NoVerification.pc = "idle"
<1>1. DOMAIN NoRows = {} /\ NoRows \in [{} -> Entry]
  BY DEF NoRows
<1>2. IsTable(NoRows, Entry)
  BY <1>1 DEF IsTable
<1> QED BY <1>1, <1>2 DEF IsVerification, NoVerification

\* Report
LEMMA ReportKeeps ==
    ASSUME IndInv, Report
    PROVE  IndInv'
<1>1. PICK v : v = NoVerification /\ verifier' = v
  BY DEF Report
<1>2. IsVerification(v) /\ DOMAIN v.rows = {} /\ v.committed = {} /\ v.pc = "idle"
  BY <1>1, NoVerificationIs
<1>3. UNCHANGED <<log, checkpoints, chainLock, txn, written, tampered>> /\ halted' \in BOOLEAN
  BY DEF Report, IndInv, TypeOK
<1>4. NoFalseAlarm' /\ OkCoversWhatWasRead'
  BY <1>1, <1>2 DEF NoFalseAlarm, OkCoversWhatWasRead
<1> QED BY <1>1, <1>2, <1>3, <1>4, VerifierSteps DEF Gapless

\* list_range
LEMMA ReadRangeKeeps ==
    ASSUME IndInv, NEW from \in 1..MaxSeq, NEW to \in 1..MaxSeq, ReadRange(from, to)
    PROVE  IndInv'
<1>1. PICK rows : rows = [s \in DOMAIN log \cap (from .. to) |-> log[s]]
  OBVIOUS
<1>2. PICK c : c = {w[1] : w \in written} \cap (from - 1 .. to)
  OBVIOUS
<1>3. PICK v : v = [pc |-> "read", from |-> from, to |-> to, ok |-> FALSE,
                    committed |-> c, rows |-> rows]
  OBVIOUS
<1>4. verifier' = v /\ UNCHANGED <<log, checkpoints, chainLock, txn, halted, written, tampered>>
  BY <1>1, <1>2, <1>3 DEF ReadRange
<1>5. IsTable(rows, Entry) /\ DOMAIN rows = DOMAIN log \cap (from .. to)
      /\ \A s \in DOMAIN rows : rows[s] = log[s]
  BY <1>1 DEF IndInv, TypeOK, IsTable
<1>6. c \subseteq 0..MaxSeq
  BY <1>2
<1>7. v.pc = "read" /\ v.from = from /\ v.to = to /\ v.rows = rows /\ v.committed = c
  BY <1>3
<1>8. IsVerification(v)
  BY <1>3, <1>5, <1>6, <1>7 DEF IsVerification
<1>9. \A s \in DOMAIN rows : WasWritten(s, rows[s])
  BY <1>5 DEF IndInv, HashesAreOriginal
<1>10. ASSUME ~ tampered PROVE Gapless(rows, from) /\ c \subseteq DOMAIN log
  <2>1. PICK n \in 0..MaxSeq : DOMAIN log = 1..n
    BY <1>10 DEF IndInv, LogIsChain, IsChain
  <2>2. Gapless(rows, from)
    BY <1>5, <2>1 DEF Gapless
  <2>3. \A w \in written : w[1] \in DOMAIN log
    BY <1>10 DEF IndInv, ReadIsLog
  <2> QED BY <1>2, <2>2, <2>3
<1>11. NoFalseAlarm' /\ OkCoversWhatWasRead'
  BY <1>4, <1>7 DEF NoFalseAlarm, OkCoversWhatWasRead
<1>12. halted' \in BOOLEAN
  BY <1>4 DEF IndInv, TypeOK
<1> QED BY <1>4, <1>5, <1>7, <1>8, <1>9, <1>10, <1>11, <1>12, VerifierSteps

\* verify_chain_and_halt_on_failure
LEMMA VerifyKeeps ==
    ASSUME IndInv, VerifyAndHalt
    PROVE  IndInv'
<1>1. PICK ok : ok = verify_chain(verifier.rows, verifier.from, verifier.to, checkpoints)
  OBVIOUS
<1>2. ok \in BOOLEAN
  BY <1>1 DEF verify_chain
<1>3. PICK v : v = [verifier EXCEPT !.pc = "done", !.ok = ok]
  OBVIOUS
<1>4. /\ verifier' = v /\ halted' = (halted \/ ~ ok)
      /\ UNCHANGED <<log, checkpoints, chainLock, txn, written, tampered>>
  BY <1>1, <1>3 DEF VerifyAndHalt
<1>5. v = [pc |-> "done", from |-> verifier.from, to |-> verifier.to, rows |-> verifier.rows,
           ok |-> ok, committed |-> verifier.committed]
  <2>1. verifier = [pc |-> verifier.pc, from |-> verifier.from, to |-> verifier.to,
                    rows |-> verifier.rows, ok |-> verifier.ok,
                    committed |-> verifier.committed]
    BY DEF IndInv, TypeOK, IsVerification
  <2>2. PICK a : a = [verifier EXCEPT !.pc = "done"]
    OBVIOUS
  <2>3. a = [pc |-> "done", from |-> verifier.from, to |-> verifier.to,
             rows |-> verifier.rows, ok |-> verifier.ok,
             committed |-> verifier.committed]
    BY <2>1, <2>2
  <2>4. v = [a EXCEPT !.ok = ok]
    BY <1>3, <2>2
  <2> QED BY <2>3, <2>4
<1>6. /\ v.from = verifier.from /\ v.to = verifier.to /\ v.rows = verifier.rows
      /\ v.committed = verifier.committed /\ v.ok = ok
  BY <1>5
<1>7. IsVerification(v)
  BY <1>2, <1>5, <1>6 DEF IndInv, TypeOK, IsVerification
<1>8. ASSUME ~ tampered
      PROVE  /\ \A s \in DOMAIN v.rows : s \in DOMAIN log /\ v.rows[s] = log[s]
             /\ Gapless(v.rows, v.from)
             /\ v.committed \subseteq DOMAIN log
  BY <1>6, <1>8 DEF IndInv, ReadIsLog
<1>9. NoFalseAlarm'
  <2> SUFFICES ASSUME ~ ok, ~ tampered
               PROVE  verifier.from # 1 /\ verifier.from - 1 \notin verifier.committed
    BY <1>4, <1>6 DEF NoFalseAlarm
  <2>1. verifier.committed \subseteq DOMAIN log
    BY DEF IndInv, ReadIsLog
  <2> QED BY <1>1, <2>1, NoAlarm
<1>10. OkCoversWhatWasRead'
  <2> SUFFICES ASSUME ok, NEW s \in DOMAIN verifier.rows
               PROVE  /\ <<s, verifier.rows[s].payload>> \in written
                      /\ verifier.from .. s \subseteq DOMAIN verifier.rows
    BY <1>4, <1>6 DEF OkCoversWhatWasRead
  <2> QED BY <1>1, OkIsTrue
<1>11. halted' \in BOOLEAN
  BY <1>4
<1>12. /\ DOMAIN v.rows \subseteq v.from .. v.to
       /\ \A s \in DOMAIN v.rows : WasWritten(s, v.rows[s])
  BY <1>6 DEF IndInv, HashesAreOriginal
<1> QED BY <1>4, <1>7, <1>8, <1>9, <1>10, <1>11, <1>12, VerifierSteps

-----------------------------------------------------------------------------
(* Tampering.                                                              *)

\* A table changed behind the program, its hashes left as they were.
LEMMA TamperedKeeps ==
    ASSUME IndInv, tampered' = TRUE, IsTable(log', Entry), DOMAIN log' \subseteq DOMAIN log,
           \A s \in DOMAIN log' : log'[s].hash = log[s].hash /\ log'[s].prev = log[s].prev,
           UNCHANGED <<checkpoints, chainLock, txn, verifier, halted, written>>
    PROVE  IndInv'
<1>1. TypeOK'
  <2>1. IsTable(checkpoints', Root) /\ IsVerification(verifier')
        /\ \A t \in Sessions : IsTxn(txn'[t])
    BY DEF IndInv, TypeOK
  <2> QED BY <2>1 DEF IndInv, TypeOK
<1>2. LockIsHeld'
  BY DEF IndInv, LockIsHeld, At
<1>3. HashesAreOriginal'
  <2>1. ASSUME NEW s \in DOMAIN log' PROVE WasWritten(s, log[s])'
    <3>1. WasWritten(s, log[s])
      BY DEF IndInv, HashesAreOriginal
    <3> QED BY <3>1 DEF WasWritten
  <2>2. ASSUME NEW s \in DOMAIN verifier'.rows PROVE WasWritten(s, verifier.rows[s])'
    <3>1. WasWritten(s, verifier.rows[s])
      BY DEF IndInv, HashesAreOriginal
    <3> QED BY <3>1 DEF WasWritten
  <2>3. \A t \in Sessions : AreHashed(txn'[t].rows)
    BY DEF IndInv, HashesAreOriginal
  <2> QED BY <2>1, <2>2, <2>3 DEF HashesAreOriginal
<1>4. NoFalseAlarm' /\ OkCoversWhatWasRead'
  BY DEF IndInv, NoFalseAlarm, OkCoversWhatWasRead
<1>5. (DOMAIN verifier.rows \subseteq verifier.from .. verifier.to)'
  BY DEF IndInv
<1> QED BY <1>1, <1>2, <1>3, <1>4, <1>5 DEF IndInv

\* An edit of a payload.
LEMMA EditKeeps ==
    ASSUME IndInv, NEW s \in 1..MaxSeq, NEW p \in Payloads, Edit(s, p)
    PROVE  IndInv'
<1>1. PICK e : e = [log[s] EXCEPT !.payload = p]
  OBVIOUS
<1>2. s \in DOMAIN log /\ log[s] \in Entry /\ IsTable(log, Entry)
  BY DEF Edit, IndInv, TypeOK, IsTable
<1>3. e \in Entry /\ e.hash = log[s].hash /\ e.prev = log[s].prev
  BY <1>1, <1>2 DEF Entry
<1>4. log' = [log EXCEPT ![s] = e]
  BY <1>1 DEF Edit
<1>5. DOMAIN log' = DOMAIN log /\ IsTable(log', Entry)
  BY <1>2, <1>3, <1>4 DEF IsTable
<1>6. ASSUME NEW r \in DOMAIN log' PROVE log'[r].hash = log[r].hash /\ log'[r].prev = log[r].prev
  <2>1. CASE r = s
    BY <1>2, <1>3, <1>4, <2>1
  <2>2. CASE r # s
    BY <1>4, <1>5, <2>2
  <2> QED BY <2>1, <2>2
<1>7. tampered' = TRUE /\ UNCHANGED <<checkpoints, chainLock, txn, verifier, halted, written>>
  BY DEF Edit
<1> QED BY <1>5, <1>6, <1>7, TamperedKeeps

\* A row deleted.
LEMMA DeleteKeeps ==
    ASSUME IndInv, NEW s \in 1..MaxSeq, Delete(s)
    PROVE  IndInv'
<1>1. log' = [r \in DOMAIN log \ {s} |-> log[r]] /\ IsTable(log, Entry)
  BY DEF Delete, IndInv, TypeOK
<1>2. DOMAIN log' \subseteq DOMAIN log /\ IsTable(log', Entry)
      /\ \A r \in DOMAIN log' : log'[r] = log[r]
  BY <1>1 DEF IsTable
<1>3. tampered' = TRUE /\ UNCHANGED <<checkpoints, chainLock, txn, verifier, halted, written>>
  BY DEF Delete
<1> QED BY <1>2, <1>3, TamperedKeeps

-----------------------------------------------------------------------------
(* The theorems.                                                           *)

\* An empty log is a chain, of no row.
LEMMA InitHolds == Init => IndInv
<1> SUFFICES ASSUME Init PROVE IndInv
  OBVIOUS
<1>1. DOMAIN NoRows = {} /\ \A R : NoRows \in [{} -> R]
  <2>1. DOMAIN NoRows = {}
    BY DEF NoRows
  <2>2. ASSUME NEW R PROVE NoRows \in [{} -> R]
    BY DEF NoRows
  <2> QED BY <2>1, <2>2
<1>2. IsTable(NoRows, Entry) /\ IsTable(NoRows, Root)
  <2>1. NoRows \in [{} -> Entry] /\ NoRows \in [{} -> Root]
    BY <1>1
  <2> QED BY <1>1, <2>1 DEF IsTable
<1>3. TypeOK
  BY <1>2, IdleIsTxn, NoVerificationIs DEF Init, TypeOK
<1>4. LockIsHeld
  BY IdleIsTxn DEF Init, LockIsHeld, At
<1>5. HashesAreOriginal /\ DOMAIN verifier.rows = {} /\ DOMAIN log = {}
  BY <1>1, IdleIsTxn, NoVerificationIs DEF Init, HashesAreOriginal
<1>6. IsChain(NoRows, 0) /\ HasRoots(NoRows, NoRows, 0) /\ 0 \in 0..MaxSeq
  BY <1>1 DEF IsChain, HasRoots
<1>7. LogIsChain
  BY <1>6 DEF Init, LogIsChain
<1>8. ReadIsLog
  BY <1>5, NoVerificationIs DEF Init, ReadIsLog, Gapless
<1>9. ASSUME NEW t \in Sessions PROVE Extends(txn[t])
  <2>1. ExtendsLog(IdleTxn, 0)
    BY <1>2, <1>6, IdleExtends DEF ExtendsLog, Init
  <2>2. txn[t] = IdleTxn
    BY DEF Init
  <2> QED BY <1>6, <2>1, <2>2 DEF Extends
<1>10. NoFalseAlarm /\ OkCoversWhatWasRead
  BY NoVerificationIs DEF Init, NoFalseAlarm, OkCoversWhatWasRead
<1> QED BY <1>3, <1>4, <1>5, <1>7, <1>8, <1>9, <1>10 DEF IndInv

\* Every step keeps the invariant.
LEMMA NextKeeps == IndInv /\ [Next]_vars => IndInv'
<1> SUFFICES ASSUME IndInv, [Next]_vars PROVE IndInv'
  OBVIOUS
<1>1. CASE UNCHANGED vars
  <2>1. verifier' = verifier /\ halted' \in BOOLEAN
        /\ UNCHANGED <<log, checkpoints, chainLock, txn, written, tampered>>
    BY <1>1 DEF vars, IndInv, TypeOK
  <2>2. NoFalseAlarm' /\ OkCoversWhatWasRead'
    BY <1>1 DEF vars, IndInv, NoFalseAlarm, OkCoversWhatWasRead
  <2>3. PICK v : v = verifier
    OBVIOUS
  <2>4. IsVerification(v) /\ DOMAIN v.rows \subseteq v.from .. v.to
        /\ (\A s \in DOMAIN v.rows : WasWritten(s, v.rows[s]))
        /\ (~ tampered => /\ \A s \in DOMAIN v.rows : s \in DOMAIN log /\ v.rows[s] = log[s]
                          /\ Gapless(v.rows, v.from)
                          /\ v.committed \subseteq DOMAIN log)
    BY <2>3 DEF IndInv, TypeOK, HashesAreOriginal, ReadIsLog
  <2>5. verifier' = v
    BY <2>1, <2>3
  <2> QED BY <2>1, <2>2, <2>4, <2>5, VerifierSteps
<1>2. CASE Next
  BY <1>2, AcquireKeeps, GetTailKeeps, CommitKeeps, RollbackKeeps, AddEntryKeeps,
     ReadRangeKeeps, VerifyKeeps, ReportKeeps, EditKeeps, DeleteKeeps DEF Next
<1> QED BY <1>1, <1>2

\* The inductive invariant of the audit log: one unit of work at a time extends
\* the chain (append_entry under the advisory lock), and what the verifier has
\* read stays in the log.
THEOREM AuditInvariant == Spec => []IndInv
BY InitHolds, NextKeeps, PTL DEF Spec

\* A chain of n rows is what OneChain says of the log.
LEMMA ChainIsOne == IndInv => OneChain
<1> SUFFICES ASSUME IndInv PROVE OneChain
  OBVIOUS
<1> SUFFICES ASSUME ~ tampered
             PROVE  /\ DOMAIN log = 1..Last
                    /\ \A s \in DOMAIN log :
                         log[s].prev = History(s - 1) /\ log[s].hash = History(s)
                    /\ DOMAIN checkpoints = {s \in 1..Last : s % checkpoint_every = 0}
                    /\ \A s \in DOMAIN checkpoints :
                         checkpoints[s] =
                             [i \in 1..checkpoint_every |-> History(s - checkpoint_every + i)]
  BY DEF IndInv, OneChain
<1>1. PICK n \in 0..MaxSeq : IsChain(log, n) /\ HasRoots(checkpoints, log, n)
  BY DEF IndInv, LogIsChain
<1>2. Last = n
  <2>1. DOMAIN log = 1..n
    BY <1>1 DEF IsChain
  <2>2. Cardinality(1..n) = IF 1 > n THEN 0 ELSE n - 1 + 1
    BY FS_Interval
  <2> QED BY <2>1, <2>2 DEF Last
<1>3. \A s : History(s) = Hashes(log, s)
  BY DEF History, Hashes
<1>4. DOMAIN log = 1..Last
  BY <1>1, <1>2 DEF IsChain
<1>5. \A s \in DOMAIN log : log[s].prev = History(s - 1) /\ log[s].hash = History(s)
  BY <1>1, <1>3 DEF IsChain
<1>6. DOMAIN checkpoints = {s \in 1..Last : s % checkpoint_every = 0}
  BY <1>1, <1>2 DEF HasRoots, IsBoundary
<1>7. ASSUME NEW s \in DOMAIN checkpoints
      PROVE  checkpoints[s] =
                 [i \in 1..checkpoint_every |-> History(s - checkpoint_every + i)]
  BY <1>1, <1>3 DEF HasRoots
<1> QED BY <1>4, <1>5, <1>6, <1>7

\* Any number of concurrent units of work, each with any number of appends,
\* committed or rolled back, leaves one gapless chain with a checkpoint at every
\* boundary.
THEOREM AppendsLeaveOneChain == Spec => []OneChain
BY AuditInvariant, ChainIsOne, PTL

\* verify_chain_and_halt_on_failure halts the money actions only if the table was
\* tampered with, or the range began past the end of the log.
THEOREM HaltsForTamperingOnly == Spec => []NoFalseAlarm
<1>1. IndInv => NoFalseAlarm
  BY DEF IndInv
<1> QED BY <1>1, AuditInvariant, PTL

\* verify_chain's ok means that every payload it read was committed at its
\* number, and that none is missing between two of them, whichever payload was
\* edited or row deleted behind the program.
THEOREM OkMeansCommitted == Spec => []OkCoversWhatWasRead
<1>1. IndInv => OkCoversWhatWasRead
  BY DEF IndInv
<1> QED BY <1>1, AuditInvariant, PTL
=============================================================================
