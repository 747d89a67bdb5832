--------------------------- MODULE TrustLabProofs ---------------------------
(***************************************************************************)
(* Proofs about TrustLab, for any runs, customers, number of sessions and  *)
(* faults: ids are unique, the gross sales hold no demonstration, a run    *)
(* that passed shows all of its own audit entries, and, of GrowthMetrics,  *)
(* that what a reading of the metrics reports was sold.  Each rests on a   *)
(* part of LabInv that is inductive together with IsTyped, the last on     *)
(* ReportOK as well.                                                       *)
(***************************************************************************)
EXTENDS GrowthMetrics, FiniteSetTheorems, WellFoundedInduction, TLAPS

-----------------------------------------------------------------------------
(* The places of a run.                                                    *)

\* In a list without repetition, what follows the i-th element is the next.
LEMMA NextInList ==
    ASSUME NEW s, NEW n \in Nat, Len(s) = n, \A a, b \in 1..n : s[a] = s[b] => a = b,
           NEW i \in 1..n-1
    PROVE  s[1 + CHOOSE j \in 1..Len(s)-1 : s[j] = s[i]] = s[i + 1]
<1>1. PICK m : m = CHOOSE j \in 1..n-1 : s[j] = s[i]
    OBVIOUS
<1>2. m \in 1..n-1 /\ s[m] = s[i]
    BY <1>1
<1>3. m = i
    BY <1>2
<1> QED
    BY <1>1, <1>3

\* The scenarios by their cards.
LEMMA RunnersAre ==
    /\ _RUNNERS["verify_chain"] = _run_verify_chain
    /\ _RUNNERS["stale_price"] = _stale_price
    /\ _RUNNERS["declined"] = _propose_and_settle
    /\ _RUNNERS["llm_down"] = _propose_and_settle
BY DEF _RUNNERS, RUNNABLE_KINDS

\* The scenario that ends with a settled or a declined payment, step by step.
LEMMA SettlePlaces ==
    ASSUME NEW r \in Runs, run[r].kind \in {"declined", "llm_down"}
    PROVE  /\ Steps(run[r].kind) = {"open", "seed", "quote", "sweep_quote", "propose", "tag",
                                   "sweep_order", "complete", "sweep_end", "close"}
           /\ _RUNNERS[run[r].kind][1] = "open"
           /\ run[r].pc = "open" => Following(r) = "seed"
           /\ run[r].pc = "seed" => Following(r) = "quote"
           /\ run[r].pc = "quote" => Following(r) = "sweep_quote"
           /\ run[r].pc = "sweep_quote" => Following(r) = "propose"
           /\ run[r].pc = "propose" => Following(r) = "tag"
           /\ run[r].pc = "tag" => Following(r) = "sweep_order"
           /\ run[r].pc = "sweep_order" => Following(r) = "complete"
           /\ run[r].pc = "complete" => Following(r) = "sweep_end"
           /\ run[r].pc = "sweep_end" => Following(r) = "close"
<1>1. PICK s : s = _propose_and_settle
    OBVIOUS
<1>2. _RUNNERS[run[r].kind] = s /\ run[r].kind # "stale_price"
    BY <1>1, RunnersAre
<1>3. /\ Len(s) = 10 /\ DOMAIN s = 1..10 /\ s[1] = "open" /\ s[2] = "seed" /\ s[3] = "quote"
      /\ s[4] = "sweep_quote" /\ s[5] = "propose" /\ s[6] = "tag" /\ s[7] = "sweep_order"
      /\ s[8] = "complete" /\ s[9] = "sweep_end" /\ s[10] = "close"
    BY <1>1 DEF _propose_and_settle
<1>4. \A a, b \in 1..10 : s[a] = s[b] => a = b
    BY <1>3
<1>5. \A i \in 1..9 : run[r].pc = s[i] => Following(r) = s[i + 1]
  <2> SUFFICES ASSUME NEW i \in 1..9, run[r].pc = s[i] PROVE Following(r) = s[i + 1]
    OBVIOUS
  <2>1. run[r].pc # "requote"
    BY <1>3
  <2>2. Following(r) = s[1 + CHOOSE j \in 1..Len(s)-1 : s[j] = s[i]]
    BY <1>2, <2>1 DEF Following
  <2>3. 10 \in Nat /\ i \in 1..10-1
    OBVIOUS
  <2> QED
    BY <1>3, <1>4, <2>2, <2>3, NextInList
<1>6. Steps(run[r].kind) = {s[i] : i \in 1..10}
    BY <1>2, <1>3 DEF Steps, Range
<1> QED
    BY <1>2, <1>3, <1>5, <1>6

\* The scenario with a stale price.
LEMMA StalePlaces ==
    ASSUME NEW r \in Runs, run[r].kind = "stale_price"
    PROVE  /\ Steps(run[r].kind) = {"open", "seed", "quote", "sweep_quote", "mutate",
                                   "sweep_mutate", "hash", "propose", "sweep_order", "tag",
                                   "complete", "sweep_end", "close", "requote"}
           /\ _RUNNERS[run[r].kind][1] = "open"
           /\ run[r].pc = "open" => Following(r) = "seed"
           /\ run[r].pc = "seed" => Following(r) = "quote"
           /\ run[r].pc = "quote" => Following(r) = "sweep_quote"
           /\ run[r].pc = "sweep_quote" => Following(r) = "mutate"
           /\ run[r].pc = "mutate" => Following(r) = "sweep_mutate"
           /\ run[r].pc = "sweep_mutate" => Following(r) = "hash"
           /\ run[r].pc = "requote" => Following(r) = "hash"
           /\ run[r].pc = "hash" => Following(r) = "propose"
           /\ run[r].pc = "propose" => Following(r) = "sweep_order"
           /\ run[r].pc = "sweep_order" => Following(r) = "tag"
           /\ run[r].pc = "tag" => Following(r) = "complete"
           /\ run[r].pc = "complete" => Following(r) = "sweep_end"
           /\ run[r].pc = "sweep_end" => Following(r) = "close"
<1>1. PICK s : s = _stale_price
    OBVIOUS
<1>2. _RUNNERS[run[r].kind] = s
    BY <1>1, RunnersAre
<1>3. /\ Len(s) = 13 /\ DOMAIN s = 1..13 /\ s[1] = "open" /\ s[2] = "seed" /\ s[3] = "quote"
      /\ s[4] = "sweep_quote" /\ s[5] = "mutate" /\ s[6] = "sweep_mutate" /\ s[7] = "hash"
      /\ s[8] = "propose" /\ s[9] = "sweep_order" /\ s[10] = "tag" /\ s[11] = "complete"
      /\ s[12] = "sweep_end" /\ s[13] = "close"
    BY <1>1 DEF _stale_price
<1>4. \A a, b \in 1..13 : s[a] = s[b] => a = b
    BY <1>3
<1>5. \A i \in 1..12 : run[r].pc = s[i] => Following(r) = s[i + 1]
  <2> SUFFICES ASSUME NEW i \in 1..12, run[r].pc = s[i] PROVE Following(r) = s[i + 1]
    OBVIOUS
  <2>1. run[r].pc # "requote"
    BY <1>3
  <2>2. Following(r) = s[1 + CHOOSE j \in 1..Len(s)-1 : s[j] = s[i]]
    BY <1>2, <2>1 DEF Following
  <2>3. 13 \in Nat /\ i \in 1..13-1
    OBVIOUS
  <2> QED
    BY <1>3, <1>4, <2>2, <2>3, NextInList
<1>6. Steps(run[r].kind) = {s[i] : i \in 1..13} \cup {"requote"}
    BY <1>2, <1>3 DEF Steps, Range
<1>7. run[r].pc = "requote" => Following(r) = "hash"
    BY DEF Following
<1> QED
    BY <1>2, <1>3, <1>5, <1>6, <1>7

\* The run that verifies the chain.
LEMMA VerifyPlaces ==
    ASSUME NEW r \in Runs, run[r].kind = "verify_chain"
    PROVE  /\ Steps(run[r].kind) = {"tail", "verify", "close"}
           /\ _RUNNERS[run[r].kind][1] = "tail"
           /\ run[r].pc = "tail" => Following(r) = "verify"
           /\ run[r].pc = "verify" => Following(r) = "close"
<1>1. PICK s : s = _run_verify_chain
    OBVIOUS
<1>2. _RUNNERS[run[r].kind] = s /\ run[r].kind # "stale_price"
    BY <1>1, RunnersAre
<1>3. Len(s) = 3 /\ DOMAIN s = 1..3 /\ s[1] = "tail" /\ s[2] = "verify" /\ s[3] = "close"
    BY <1>1 DEF _run_verify_chain
<1>4. \A a, b \in 1..3 : s[a] = s[b] => a = b
    BY <1>3
<1>5. \A i \in 1..2 : run[r].pc = s[i] => Following(r) = s[i + 1]
  <2> SUFFICES ASSUME NEW i \in 1..2, run[r].pc = s[i] PROVE Following(r) = s[i + 1]
    OBVIOUS
  <2>1. run[r].pc # "requote"
    BY <1>3
  <2>2. Following(r) = s[1 + CHOOSE j \in 1..Len(s)-1 : s[j] = s[i]]
    BY <1>2, <2>1 DEF Following
  <2>3. 3 \in Nat /\ i \in 1..3-1
    OBVIOUS
  <2> QED
    BY <1>3, <1>4, <2>2, <2>3, NextInList
<1>6. Steps(run[r].kind) = {s[i] : i \in 1..3}
    BY <1>2, <1>3 DEF Steps, Range
<1> QED
    BY <1>2, <1>3, <1>5, <1>6

-----------------------------------------------------------------------------
(* The events of a sweep.                                                  *)

\* A set of naturals that is not empty has a least element.
LEMMA LeastNatural ==
    ASSUME NEW S, S \subseteq Nat, S # {}
    PROVE  \E m \in S : \A n \in S : m <= n
<1>1. PICK m \in S : \A n \in S : ~(<<n, m>> \in OpToRel(<, Nat))
    BY NatLessThanWellFounded, WFMin
<1>2. \A n \in S : ~(n < m)
    BY <1>1 DEF OpToRel
<1> QED
    BY <1>2

\* One entry of the loop.
EmitStep(f, from, s) ==
    IF s = from THEN <<>> ELSE IF Narrated(log[s]) THEN Append(f[s - 1], s) ELSE f[s - 1]
CanEmit(from, to) == \E f : f = [s \in from..to |-> EmitStep(f, from, s)]

\* The loop computes something, however many entries there are.
LEMMA EmitExists ==
    ASSUME NEW from \in Nat, NEW k \in Nat
    PROVE  CanEmit(from, from + k)
<1> DEFINE T == {n \in Nat : ~CanEmit(from, from + n)}
<1>1. SUFFICES ASSUME T # {} PROVE FALSE
    OBVIOUS
<1>2. PICK m \in T : \A n \in T : m <= n
  <2>1. T \subseteq Nat
    OBVIOUS
  <2> HIDE DEF T
  <2> QED
    BY <1>1, <2>1, LeastNatural
<1>3. m \in Nat /\ ~CanEmit(from, from + m)
    BY <1>2
<1>4. CASE m = 0
  <2>1. PICK f : f = [s \in from..from |-> <<>>]
    OBVIOUS
  <2>2. \A s \in from..from : EmitStep(f, from, s) = <<>>
    BY DEF EmitStep
  <2>3. f = [s \in from..from |-> EmitStep(f, from, s)]
    BY <2>1, <2>2
  <2> QED
    BY <1>3, <1>4, <2>3 DEF CanEmit
<1>5. CASE m # 0
  <2>1. PICK n \in Nat : m = n + 1
    BY <1>3, <1>5
  <2>2. CanEmit(from, from + n)
    <3>1. ~(m <= n)
      BY <2>1
    <3>2. n \notin T
      <4> HIDE DEF T
      <4> QED BY <1>2, <3>1
    <3> QED
      BY <3>2
  <2>3. PICK g : g = [s \in from..from+n |-> EmitStep(g, from, s)]
    BY <2>2 DEF CanEmit
  <2>4. PICK f : f = [s \in from..from+m |->
                        IF s = from + m THEN EmitStep(g, from, s) ELSE g[s]]
    OBVIOUS
  <2>5. \A s \in from..from+m : f[s] = EmitStep(f, from, s)
    <3> SUFFICES ASSUME NEW s \in from..from+m PROVE f[s] = EmitStep(f, from, s)
      OBVIOUS
    <3>1. CASE s = from
      <4>1. f[s] = EmitStep(g, from, s)
        BY <2>1, <2>3, <2>4, <3>1
      <4> QED
        BY <3>1, <4>1 DEF EmitStep
    <3>2. CASE s # from
      <4>1. s - 1 \in from..from+n /\ s - 1 \in from..from+m /\ s - 1 # from + m
        BY <2>1, <3>2
      <4>2. f[s - 1] = g[s - 1]
        BY <2>4, <4>1
      <4>3. f[s] = EmitStep(g, from, s)
        <5>1. CASE s = from + m
          BY <2>4, <5>1
        <5>2. CASE s # from + m
          <6>1. s \in from..from+n
            BY <2>1, <5>2
          <6> QED
            BY <2>3, <2>4, <5>2, <6>1
        <5> QED
          BY <5>1, <5>2
      <4> QED
        BY <3>2, <4>2, <4>3 DEF EmitStep
    <3> QED
      BY <3>1, <3>2
  <2>6. f = [s \in from..from+m |-> EmitStep(f, from, s)]
    BY <2>4, <2>5
  <2> QED
    BY <1>3, <2>6 DEF CanEmit
<1> QED
    BY <1>4, <1>5

\* What the loop has made of the entries after `from` and up to s.
IsEmitted(e, from, s) ==
    /\ e \in Seq(Nat)
    /\ \A i \in DOMAIN e : e[i] \in from+1..s
    /\ \A i, j \in DOMAIN e : i < j => e[i] < e[j]
    /\ \A t \in from+1..s : Narrated(log[t]) => \E i \in DOMAIN e : e[i] = t

\* One more entry.
LEMMA EmitOne ==
    ASSUME NEW from \in Nat, NEW s \in Nat, s > from, NEW e, IsEmitted(e, from, s - 1)
    PROVE  IsEmitted(IF Narrated(log[s]) THEN Append(e, s) ELSE e, from, s)
<1>1. PICK n \in Nat : n = Len(e) /\ DOMAIN e = 1..n
    BY DEF IsEmitted
<1>2. /\ e \in Seq(Nat) /\ \A i \in 1..n : e[i] \in from+1..s-1 /\ e[i] \in from+1..s /\ e[i] < s
      /\ \A i, j \in 1..n : i < j => e[i] < e[j]
      /\ \A t \in from+1..s-1 : Narrated(log[t]) => \E i \in 1..n : e[i] = t
  <2>1. /\ e \in Seq(Nat) /\ \A i \in 1..n : e[i] \in from+1..s-1
        /\ \A i, j \in 1..n : i < j => e[i] < e[j]
        /\ \A t \in from+1..s-1 : Narrated(log[t]) => \E i \in 1..n : e[i] = t
    BY <1>1, Zenon DEF IsEmitted
  <2> QED
    BY <2>1
<1>3. \A t \in from+1..s : t = s \/ t \in from+1..s-1
    OBVIOUS
<1>4. CASE ~Narrated(log[s])
  <2>1. \A t \in from+1..s : Narrated(log[t]) => \E i \in 1..n : e[i] = t
    BY <1>2, <1>3, <1>4
  <2>2. IsEmitted(e, from, s)
    BY <1>1, <1>2, <2>1, Zenon DEF IsEmitted
  <2> QED
    BY <1>4, <2>2
<1>5. CASE Narrated(log[s])
  <2>1. PICK f : f = Append(e, s)
    OBVIOUS
  <2>2. /\ f \in Seq(Nat) /\ DOMAIN f = 1..n+1 /\ f[n + 1] = s
        /\ \A i \in 1..n : f[i] = e[i]
    BY <1>1, <1>2, <2>1
  <2>3. \A i \in 1..n+1 : i = n + 1 \/ i \in 1..n
    OBVIOUS
  <2>4. \A i \in 1..n+1 : f[i] \in from+1..s
    BY <1>2, <2>2, <2>3
  <2>5. \A i, j \in 1..n+1 : i < j => f[i] < f[j]
    <3> SUFFICES ASSUME NEW i \in 1..n+1, NEW j \in 1..n+1, i < j PROVE f[i] < f[j]
      OBVIOUS
    <3>1. i \in 1..n /\ f[i] = e[i]
      BY <2>2
    <3>2. CASE j = n + 1
      BY <1>2, <2>2, <3>1, <3>2
    <3>3. CASE j \in 1..n
      <4>1. f[j] = e[j] /\ e[i] < e[j]
        BY <1>2, <2>2, <3>1, <3>3
      <4> QED
        BY <3>1, <4>1
    <3> QED
      BY <2>3, <3>2, <3>3
  <2>6. \A t \in from+1..s : Narrated(log[t]) => \E i \in 1..n+1 : f[i] = t
    <3> SUFFICES ASSUME NEW t \in from+1..s, Narrated(log[t]) PROVE \E i \in 1..n+1 : f[i] = t
      OBVIOUS
    <3>1. CASE t = s
      BY <2>2, <3>1
    <3>2. CASE t \in from+1..s-1
      <4>1. PICK i \in 1..n : e[i] = t
        BY <1>2, <3>2
      <4>2. i \in 1..n+1 /\ f[i] = t
        BY <2>2, <4>1
      <4> QED
        BY <4>2
    <3> QED
      BY <1>3, <3>1, <3>2
  <2>7. IsEmitted(f, from, s)
    BY <2>2, <2>4, <2>5, <2>6, Zenon DEF IsEmitted
  <2> QED
    BY <1>5, <2>1, <2>7
<1> QED
    BY <1>4, <1>5

\* A sweep shows every entry it has a branch for, once and in order.
LEMMA EmittedIs ==
    ASSUME NEW from \in Nat, NEW to \in Nat, from <= to
    PROVE  IsEmitted(_emit_events_for_entries(from, to), from, to)
<1>1. PICK f : f = CHOOSE g : g = [s \in from..to |-> EmitStep(g, from, s)]
    OBVIOUS
<1>2. _emit_events_for_entries(from, to) = f[to]
    BY <1>1, Zenon DEF _emit_events_for_entries, EmitStep
<1>3. PICK k \in Nat : to = from + k
  <2>1. to - from \in Nat /\ to = from + (to - from)
    OBVIOUS
  <2> QED
    BY <2>1
<1>4. \E g : g = [s \in from..to |-> EmitStep(g, from, s)]
  <2>1. CanEmit(from, to)
    BY <1>3, EmitExists
  <2> QED
    BY <2>1 DEF CanEmit
<1>5. f = [s \in from..to |-> EmitStep(f, from, s)]
    BY <1>1, <1>4, Zenon
<1>6. \A s \in from..to : f[s] = EmitStep(f, from, s)
    BY <1>5
<1> DEFINE T == {n \in Nat : from + n <= to /\ ~IsEmitted(f[from + n], from, from + n)}
<1>7. T = {}
  <2>1. SUFFICES ASSUME T # {} PROVE FALSE
    OBVIOUS
  <2>2. PICK m \in T : \A n \in T : m <= n
    <3>1. T \subseteq Nat
      OBVIOUS
    <3> HIDE DEF T
    <3> QED
      BY <2>1, <3>1, LeastNatural
  <2>3. m \in Nat /\ from + m <= to /\ ~IsEmitted(f[from + m], from, from + m)
    BY <2>2
  <2>4. CASE m = 0
    <3>1. f[from] = <<>>
      <4>1. from \in from..to
        OBVIOUS
      <4> QED
        BY <1>6, <4>1 DEF EmitStep
    <3>2. <<>> \in Seq(Nat) /\ DOMAIN <<>> = {} /\ from+1..from = {}
      OBVIOUS
    <3>3. IsEmitted(<<>>, from, from)
      BY <3>2 DEF IsEmitted
    <3> QED
      BY <2>3, <2>4, <3>1, <3>3
  <2>5. CASE m # 0
    <3>1. PICK n \in Nat : m = n + 1 /\ ~(m <= n)
      BY <2>3, <2>5
    <3>2. n \notin T
      <4> HIDE DEF T
      <4> QED BY <2>2, <3>1
    <3>3. from + n <= to /\ IsEmitted(f[from + n], from, from + n)
      BY <2>3, <3>1, <3>2
    <3>4. PICK s \in Nat : s = from + m /\ s > from /\ s - 1 = from + n /\ s \in from..to
      BY <2>3, <3>1
    <3>5. f[s] = IF Narrated(log[s]) THEN Append(f[s - 1], s) ELSE f[s - 1]
      BY <1>6, <3>4 DEF EmitStep
    <3>6. IsEmitted(f[s - 1], from, s - 1)
      BY <3>3, <3>4
    <3>7. IsEmitted(f[s], from, s)
      BY <3>4, <3>5, <3>6, EmitOne
    <3> QED
      BY <2>3, <3>4, <3>7
  <2> QED
    BY <2>4, <2>5
<1>8. IsEmitted(f[to], from, to)
  <2>1. k \notin T
    BY <1>7
  <2> QED
    BY <1>3, <2>1
<1> QED
    BY <1>2, <1>8

-----------------------------------------------------------------------------
(* What a step does to the record of its run.                              *)

\* The part of the invariant that is about the runs.
RunsTyped ==
    /\ run \in [Runs -> RunRecords]
    /\ \A r \in Runs :
         /\ run[r].pc = "over" <=> run[r].status \in {"passed", "failed", "lost"}
         /\ run[r].cursor <= Len(log) /\ run[r].span[2] <= Len(log)
         /\ PlaceOK(run[r])

\* A run goes on at a place, with what it has recorded.
Goes(r, pc, start, cursor, recorded, span) ==
    /\ run' \in [Runs -> RunRecords]
    /\ \A q \in Runs \ {r} : run'[q] = run[q]
    /\ run'[r].pc = pc /\ run'[r].kind = run[r].kind /\ run'[r].status = "running"
    /\ run'[r].start = start /\ run'[r].cursor = cursor /\ run'[r].recorded = recorded
    /\ run'[r].events = run[r].events /\ run'[r].span = span

\* A run is over.
Ends(r, status, events, span) ==
    /\ run' \in [Runs -> RunRecords]
    /\ \A q \in Runs \ {r} : run'[q] = run[q]
    /\ run'[r].pc = "over" /\ run'[r].kind = run[r].kind /\ run'[r].status = status
    /\ run'[r].start = 0 /\ run'[r].cursor = 0 /\ run'[r].recorded = <<>>
    /\ run'[r].events = events /\ run'[r].span = span

\* The fields of a record.
LEMMA RecordFields ==
    ASSUME NEW x \in RunRecords
    PROVE  /\ x.pc \in Places /\ x.kind \in RUNNABLE_KINDS \cup {None}
           /\ x.status \in {"none", "queued", "running", "passed", "failed", "lost"}
           /\ x.start \in Nat /\ x.cursor \in Nat /\ x.recorded \in Seq(Nat)
           /\ x.events \in Seq(Nat) /\ x.seen \in Nat /\ x.quoted \in Nat
           /\ x.requoted \in BOOLEAN /\ x.span \in Nat \X Nat
           /\ x.span[1] \in Nat /\ x.span[2] \in Nat
<1>1. /\ x.pc \in Places /\ x.kind \in RUNNABLE_KINDS \cup {None}
      /\ x.status \in {"none", "queued", "running", "passed", "failed", "lost"}
      /\ x.start \in Nat /\ x.cursor \in Nat /\ x.recorded \in Seq(Nat)
      /\ x.events \in Seq(Nat) /\ x.seen \in Nat /\ x.quoted \in Nat
      /\ x.requoted \in BOOLEAN /\ x.span \in Nat \X Nat
    BY Zenon DEF RunRecords
<1>2. x.span[1] \in Nat /\ x.span[2] \in Nat
    BY <1>1
<1> QED
    BY <1>1, <1>2

\* A run before its end is running, at a place of its scenario.
LEMMA Running ==
    ASSUME RunsTyped, NEW r \in Runs, run[r].pc \notin {"none", "queued", "over"}
    PROVE  /\ run[r] \in RunRecords /\ run[r].status = "running"
           /\ run[r].kind \in RUNNABLE_KINDS /\ run[r].pc \in Steps(run[r].kind)
<1>1. run[r] \in RunRecords
    BY DEF RunsTyped
<1>2. run[r].status \in {"none", "queued", "running", "passed", "failed", "lost"}
    BY <1>1, RecordFields
<1>3. run[r].status = "running"
    BY <1>2 DEF RunsTyped, PlaceOK
<1> QED
    BY <1>1, <1>3 DEF RunsTyped, PlaceOK

\* Every scenario's places are places, and it goes from one to another.
LEMMA Follows ==
    ASSUME RunsTyped, NEW r \in Runs, run[r].pc \notin {"none", "queued", "over"}
    PROVE  /\ Steps(run[r].kind) \subseteq Places \ {"none", "queued", "over"}
           /\ run[r].pc # "close" => Following(r) \in Steps(run[r].kind)
           /\ "close" \in Steps(run[r].kind)
<1>1. /\ run[r].kind \in {"stale_price", "declined", "llm_down", "verify_chain"}
      /\ run[r].pc \in Steps(run[r].kind)
    BY Running DEF RUNNABLE_KINDS
<1>2. CASE run[r].kind \in {"declined", "llm_down"}
    BY <1>1, <1>2, SettlePlaces DEF Places
<1>3. CASE run[r].kind = "stale_price"
    BY <1>1, <1>3, StalePlaces DEF Places
<1>4. CASE run[r].kind = "verify_chain"
    BY <1>1, <1>4, VerifyPlaces DEF Places
<1> QED
    BY <1>1, <1>2, <1>3, <1>4

\* Advance changes the place and nothing else of what it is given.
LEMMA Advances ==
    ASSUME RunsTyped, NEW r \in Runs, run[r].pc \notin {"none", "queued", "over", "close"},
           NEW new \in RunRecords, Advance(r, new), new.kind = run[r].kind,
           new.status = run[r].status, new.events = run[r].events
    PROVE  Goes(r, Following(r), new.start, new.cursor, new.recorded, new.span)
<1>1. Following(r) \in Places /\ run[r].status = "running"
    BY Follows, Running
<1>2. PICK y : y = [new EXCEPT !.pc = Following(r)]
    OBVIOUS
<1>3. y \in RunRecords /\ y.pc = Following(r)
    BY <1>1, <1>2 DEF RunRecords
<1>4. /\ y.kind = new.kind /\ y.status = new.status /\ y.start = new.start
      /\ y.cursor = new.cursor /\ y.recorded = new.recorded /\ y.events = new.events
      /\ y.span = new.span
    BY <1>2 DEF RunRecords
<1>5. run' = [run EXCEPT ![r] = y] /\ run \in [Runs -> RunRecords]
    BY <1>2 DEF Advance, RunsTyped
<1>6. run'[r] = y /\ run' \in [Runs -> RunRecords] /\ \A q \in Runs \ {r} : run'[q] = run[q]
    BY <1>3, <1>5
<1> QED
    BY <1>1, <1>3, <1>4, <1>6 DEF Goes

\* Execute starts the scenario of its card at its first place.
LEMMA ExecuteGoes ==
    ASSUME RunsTyped, NEW r \in Runs, Execute(r)
    PROVE  /\ Goes(r, _RUNNERS[run[r].kind][1], run[r].start, run[r].cursor, run[r].recorded,
                   run[r].span)
           /\ run[r].pc = "queued" /\ run[r].kind \in RUNNABLE_KINDS
           /\ _RUNNERS[run[r].kind][1] \in Steps(run[r].kind)
           /\ Steps(run[r].kind) \subseteq Places \ {"none", "queued", "over"}
           /\ _RUNNERS[run[r].kind][1] =
                IF run[r].kind = "verify_chain" THEN "tail" ELSE "open"
<1>1. /\ run[r].pc = "queued" /\ run[r] \in RunRecords /\ run \in [Runs -> RunRecords]
      /\ run[r].kind \in RUNNABLE_KINDS
    BY DEF Execute, At, RunsTyped, PlaceOK
<1>2. PICK p : p = _RUNNERS[run[r].kind][1]
    OBVIOUS
<1>3. /\ p \in Steps(run[r].kind) /\ p \in Places
      /\ p = IF run[r].kind = "verify_chain" THEN "tail" ELSE "open"
      /\ Steps(run[r].kind) \subseteq Places \ {"none", "queued", "over"}
  <2>1. run[r].kind \in {"stale_price", "declined", "llm_down", "verify_chain"}
    BY <1>1 DEF RUNNABLE_KINDS
  <2>2. CASE run[r].kind \in {"declined", "llm_down"}
    BY <1>2, <2>2, SettlePlaces DEF Places
  <2>3. CASE run[r].kind = "stale_price"
    BY <1>2, <2>3, StalePlaces DEF Places
  <2>4. CASE run[r].kind = "verify_chain"
    BY <1>2, <2>4, VerifyPlaces DEF Places
  <2> QED
    BY <2>1, <2>2, <2>3, <2>4
<1>4. PICK y : y = [run[r] EXCEPT !.pc = p, !.status = "running"]
    OBVIOUS
<1>5. y \in RunRecords /\ y.pc = p /\ y.status = "running"
    BY <1>1, <1>3, <1>4 DEF RunRecords
<1>6. /\ y.kind = run[r].kind /\ y.start = run[r].start
      /\ y.cursor = run[r].cursor /\ y.recorded = run[r].recorded /\ y.events = run[r].events
      /\ y.span = run[r].span
    BY <1>1, <1>4 DEF RunRecords
<1>7. run' = [run EXCEPT ![r] = y]
    BY <1>2, <1>4 DEF Execute
<1>8. run'[r] = y /\ run' \in [Runs -> RunRecords] /\ \A q \in Runs \ {r} : run'[q] = run[q]
    BY <1>1, <1>5, <1>7
<1>9. Goes(r, p, run[r].start, run[r].cursor, run[r].recorded, run[r].span)
    BY <1>5, <1>6, <1>8 DEF Goes
<1> QED
    BY <1>1, <1>2, <1>3, <1>9

\* The mark of a run is the end of the chain as it was.
LEMMA OpenGoes ==
    ASSUME RunsTyped, log \in Seq([by : Runs \cup Customers \cup {Sim}, action : AuditActions]),
           NEW r \in Runs, Open(r)
    PROVE  Goes(r, Following(r), Len(log), Len(log), run[r].recorded, run[r].span)
<1>1. run[r] \in RunRecords /\ Len(log) \in Nat
    BY DEF RunsTyped
<1>2. PICK y : y = [run[r] EXCEPT !.start = Len(log), !.cursor = Len(log)]
    OBVIOUS
<1>3. y \in RunRecords /\ y.start = Len(log) /\ y.cursor = Len(log)
    BY <1>1, <1>2 DEF RunRecords
<1>4. /\ y.kind = run[r].kind /\ y.status = run[r].status /\ y.recorded = run[r].recorded
      /\ y.events = run[r].events /\ y.span = run[r].span
    BY <1>1, <1>2 DEF RunRecords
<1>5. Advance(r, y) /\ run[r].pc = "open"
    BY <1>2 DEF Open, At
<1> QED
    BY <1>3, <1>4, <1>5, Advances

\* The first events stand for no entry.
LEMMA OpeningIs ==
    ASSUME NEW kind
    PROVE  Opening(kind) \in Seq(Nat) /\ \A i \in DOMAIN Opening(kind) : Opening(kind)[i] = 0
<1>1. <<0, 0, 0>> \in Seq(Nat) /\ \A i \in DOMAIN <<0, 0, 0>> : <<0, 0, 0>>[i] = 0
    OBVIOUS
<1>2. <<0>> \in Seq(Nat) /\ \A i \in DOMAIN <<0>> : <<0>>[i] = 0
    OBVIOUS
<1> QED
    BY <1>1, <1>2 DEF Opening

\* _seed_item is where the scenario begins to record.
LEMMA SeedGoes ==
    ASSUME RunsTyped, NEW r \in Runs, _seed_item(r)
    PROVE  Goes(r, Following(r), run[r].start, run[r].cursor, Opening(run[r].kind), run[r].span)
<1>1. run[r] \in RunRecords
    BY DEF RunsTyped
<1>2. PICK y : y = [run[r] EXCEPT !.recorded = Opening(run[r].kind)]
    OBVIOUS
<1>3. y \in RunRecords /\ y.recorded = Opening(run[r].kind)
    BY <1>1, <1>2, OpeningIs DEF RunRecords
<1>4. /\ y.kind = run[r].kind /\ y.status = run[r].status /\ y.start = run[r].start
      /\ y.cursor = run[r].cursor /\ y.events = run[r].events /\ y.span = run[r].span
    BY <1>1, <1>2 DEF RunRecords
<1>5. Advance(r, y) /\ run[r].pc = "seed"
    BY <1>2 DEF _seed_item, At
<1> QED
    BY <1>3, <1>4, <1>5, Advances

\* The steps that leave a run's record to the mark and the place.
LEMMA PlainGoes ==
    ASSUME RunsTyped, NEW r \in Runs, price \in [RUNNABLE_KINDS -> {0, 280, 292}],
           version \in Nat \ {0}, Quote(r) \/ Mutate(r) \/ Hash(r) \/ set_source(r) \/ Complete(r) \/ Verify(r)
    PROVE  Goes(r, Following(r), run[r].start, run[r].cursor, run[r].recorded, run[r].span)
<1>1. run[r] \in RunRecords
    BY DEF RunsTyped
<1>2. run[r].pc \notin {"none", "queued", "over", "close"}
    BY DEF Quote, Mutate, Hash, set_source, Complete, Verify, At
<1>3. price[run[r].kind] \in Nat /\ version \in Nat
    BY <1>2, Running
<1>4. PICK y \in RunRecords :
        /\ Advance(r, y) /\ y.kind = run[r].kind /\ y.status = run[r].status
        /\ y.start = run[r].start /\ y.cursor = run[r].cursor /\ y.recorded = run[r].recorded
        /\ y.events = run[r].events /\ y.span = run[r].span
  <2>1. CASE Quote(r)
    <3>1. PICK y : y = [run[r] EXCEPT !.quoted = version, !.seen = price[run[r].kind]]
      OBVIOUS
    <3>2. y \in RunRecords
      BY <1>1, <1>3, <3>1 DEF RunRecords
    <3>3. /\ y.kind = run[r].kind /\ y.status = run[r].status
          /\ y.start = run[r].start /\ y.cursor = run[r].cursor
          /\ y.recorded = run[r].recorded /\ y.events = run[r].events /\ y.span = run[r].span
      BY <1>1, <3>1 DEF RunRecords
    <3>4. Advance(r, y)
      BY <2>1, <3>1 DEF Quote
    <3> QED
      BY <3>2, <3>3, <3>4
  <2>2. CASE Hash(r)
    <3>1. PICK y : y = [run[r] EXCEPT !.seen = price[run[r].kind]]
      OBVIOUS
    <3>2. y \in RunRecords
      BY <1>1, <1>3, <3>1 DEF RunRecords
    <3>3. /\ y.kind = run[r].kind /\ y.status = run[r].status
          /\ y.start = run[r].start /\ y.cursor = run[r].cursor
          /\ y.recorded = run[r].recorded /\ y.events = run[r].events /\ y.span = run[r].span
      BY <1>1, <3>1 DEF RunRecords
    <3>4. Advance(r, y)
      BY <2>2, <3>1 DEF Hash
    <3> QED
      BY <3>2, <3>3, <3>4
  <2>3. CASE Mutate(r) \/ set_source(r) \/ Complete(r) \/ Verify(r)
    <3>1. Advance(r, run[r])
      BY <2>3, Zenon DEF Mutate, set_source, Complete, Verify
    <3> QED
      BY <1>1, <3>1
  <2> QED
    BY <2>1, <2>2, <2>3
<1> QED
    BY <1>2, <1>4, Advances

\* A denial ends the scenario or, once, takes a new quote.
LEMMA DeniedGoes ==
    ASSUME RunsTyped, NEW r \in Runs, run[r].pc = "propose", NEW code, Denied(r, code)
    PROVE  /\ \/ run[r].kind = "stale_price" /\ run'[r].pc = "requote"
              \/ run'[r].pc = "sweep_end"
           /\ run'[r].pc \in Steps(run[r].kind)
           /\ Goes(r, run'[r].pc, run[r].start, run[r].cursor, run[r].recorded, run[r].span)
<1>1. /\ run[r] \in RunRecords /\ run \in [Runs -> RunRecords] /\ run[r].status = "running"
      /\ run[r].kind \in RUNNABLE_KINDS /\ run[r].pc \in Steps(run[r].kind)
    BY Running DEF RunsTyped
<1>2. /\ "sweep_end" \in Steps(run[r].kind)
      /\ run[r].kind = "stale_price" => "requote" \in Steps(run[r].kind)
  <2>1. run[r].kind \in {"stale_price", "declined", "llm_down", "verify_chain"}
    BY <1>1 DEF RUNNABLE_KINDS
  <2>2. CASE run[r].kind \in {"declined", "llm_down"}
    BY <2>2, SettlePlaces
  <2>3. CASE run[r].kind = "stale_price"
    BY <2>3, StalePlaces
  <2>4. CASE run[r].kind = "verify_chain"
    BY <1>1, <2>4, VerifyPlaces
  <2> QED
    BY <2>1, <2>2, <2>3, <2>4
<1>3. PICK y :
        /\ y \in RunRecords /\ run' = [run EXCEPT ![r] = y]
        /\ (run[r].kind = "stale_price" /\ y.pc = "requote") \/ y.pc = "sweep_end"
        /\ y.kind = run[r].kind /\ y.status = run[r].status
        /\ y.start = run[r].start /\ y.cursor = run[r].cursor
        /\ y.recorded = run[r].recorded /\ y.events = run[r].events /\ y.span = run[r].span
  <2>1. CASE run[r].kind = "stale_price" /\ code = "STALE_PRICE" /\ ~run[r].requoted
    <3>1. PICK y : y = [run[r] EXCEPT !.pc = "requote", !.requoted = TRUE]
      OBVIOUS
    <3>2. y \in RunRecords /\ y.pc = "requote"
      BY <1>1, <3>1 DEF RunRecords, Places
    <3>3. /\ y.kind = run[r].kind /\ y.status = run[r].status
          /\ y.start = run[r].start /\ y.cursor = run[r].cursor
          /\ y.recorded = run[r].recorded /\ y.events = run[r].events /\ y.span = run[r].span
      BY <1>1, <3>1 DEF RunRecords
    <3>4. run' = [run EXCEPT ![r] = y]
      BY <2>1, <3>1 DEF Denied
    <3> QED
      BY <2>1, <3>2, <3>3, <3>4
  <2>2. CASE ~(run[r].kind = "stale_price" /\ code = "STALE_PRICE" /\ ~run[r].requoted)
    <3>1. PICK y : y = [run[r] EXCEPT !.pc = "sweep_end", !.seen = 0, !.quoted = 0,
                                      !.requoted = FALSE]
      OBVIOUS
    <3>2. y \in RunRecords /\ y.pc = "sweep_end"
      BY <1>1, <3>1 DEF RunRecords, Places
    <3>3. /\ y.kind = run[r].kind /\ y.status = run[r].status
          /\ y.start = run[r].start /\ y.cursor = run[r].cursor
          /\ y.recorded = run[r].recorded /\ y.events = run[r].events /\ y.span = run[r].span
      BY <1>1, <3>1 DEF RunRecords
    <3>4. run' = [run EXCEPT ![r] = y]
      BY <2>2, <3>1 DEF Denied
    <3> QED
      BY <3>2, <3>3, <3>4
  <2> QED
    BY <2>1, <2>2
<1>4. run'[r] = y /\ run' \in [Runs -> RunRecords] /\ \A q \in Runs \ {r} : run'[q] = run[q]
    BY <1>1, <1>3
<1>5. Goes(r, run'[r].pc, run[r].start, run[r].cursor, run[r].recorded, run[r].span)
    BY <1>1, <1>3, <1>4 DEF Goes
<1> QED
    BY <1>2, <1>3, <1>4, <1>5

\* A proposal goes on to its order, or is denied and there is none.
LEMMA ProposeGoes ==
    ASSUME RunsTyped, NEW r \in Runs, Propose(r)
    PROVE  /\ run[r].pc = "propose" /\ run'[r].pc \in Steps(run[r].kind)
           /\ Goes(r, run'[r].pc, run[r].start, run[r].cursor, run[r].recorded, run[r].span)
           /\ \/ /\ run'[r].pc = Following(r)
                 /\ orders' = orders \cup {Order(r, None, "CREATED")}
                 /\ Append_(r, <<"order.proposed", "budget.reserved", "payment.intent">>)
                 /\ new_id
              \/ /\ run'[r].pc = "sweep_end"
                    \/ (run[r].kind = "stale_price" /\ run'[r].pc = "requote")
                 /\ UNCHANGED orders
                 /\ \/ UNCHANGED log /\ UNCHANGED <<ids, issued>>
                    \/ Append_(r, <<"order.proposed">>) /\ new_id
<1>1. run[r].pc = "propose" /\ run[r] \in RunRecords
    BY DEF Propose, At, RunsTyped
<1>2. CASE run[r].seen # price[run[r].kind]
  <2>1. Denied(r, "INTENT_MISMATCH") /\ UNCHANGED <<log, orders, ids, issued>>
    BY <1>2 DEF Propose
  <2> QED
    BY <1>1, <2>1, DeniedGoes
<1>3. CASE run[r].seen = price[run[r].kind] /\ run[r].quoted # version
  <2>1. Denied(r, "STALE_PRICE") /\ Append_(r, <<"order.proposed">>) /\ new_id /\ UNCHANGED orders
    BY <1>3 DEF Propose
  <2> QED
    BY <1>1, <2>1, DeniedGoes
<1>4. CASE run[r].seen = price[run[r].kind] /\ run[r].quoted = version
  <2>1. /\ Append_(r, <<"order.proposed", "budget.reserved", "payment.intent">>)
        /\ orders' = orders \cup {Order(r, None, "CREATED")}
        /\ Advance(r, [run[r] EXCEPT !.seen = 0, !.quoted = 0, !.requoted = FALSE])
        /\ new_id
    BY <1>4 DEF Propose
  <2>2. PICK y : y = [run[r] EXCEPT !.seen = 0, !.quoted = 0, !.requoted = FALSE]
    OBVIOUS
  <2>3. y \in RunRecords
    BY <1>1, <2>2 DEF RunRecords
  <2>4. /\ y.kind = run[r].kind /\ y.status = run[r].status
        /\ y.start = run[r].start /\ y.cursor = run[r].cursor
        /\ y.recorded = run[r].recorded /\ y.events = run[r].events /\ y.span = run[r].span
    BY <1>1, <2>2 DEF RunRecords
  <2>5. Goes(r, Following(r), run[r].start, run[r].cursor, run[r].recorded, run[r].span)
    BY <1>1, <2>1, <2>2, <2>3, <2>4, Advances
  <2>6. Following(r) \in Steps(run[r].kind) /\ run'[r].pc = Following(r)
    BY <1>1, <2>5, Follows DEF Goes
  <2> QED
    BY <1>1, <2>1, <2>5, <2>6
<1> QED
    BY <1>2, <1>3, <1>4

\* A sweep moves the mark to the end of the chain.
LEMMA SweepGoes ==
    ASSUME RunsTyped, log \in Seq([by : Runs \cup Customers \cup {Sim}, action : AuditActions]),
           NEW r \in Runs, _sweep_new_audit_entries(r)
    PROVE  /\ run[r].cursor \in Nat /\ Len(log) \in Nat /\ run[r].recorded \in Seq(Nat)
           /\ IsEmitted(_emit_events_for_entries(run[r].cursor, Len(log)), run[r].cursor, Len(log))
           /\ Goes(r, Following(r), run[r].start, Len(log),
                run[r].recorded \o _emit_events_for_entries(run[r].cursor, Len(log)), run[r].span)
<1>1. /\ run[r] \in RunRecords /\ Len(log) \in Nat /\ run[r].cursor <= Len(log)
      /\ run[r].pc \in {"sweep_quote", "sweep_mutate", "sweep_order", "sweep_end"}
    BY DEF RunsTyped, _sweep_new_audit_entries
<1>2. run[r].cursor \in Nat /\ run[r].recorded \in Seq(Nat)
    BY <1>1, RecordFields
<1>3. PICK e : e = _emit_events_for_entries(run[r].cursor, Len(log))
    OBVIOUS
<1>4. IsEmitted(e, run[r].cursor, Len(log)) /\ e \in Seq(Nat)
    BY <1>1, <1>2, <1>3, EmittedIs DEF IsEmitted
<1>5. run[r].recorded \o e \in Seq(Nat)
    BY <1>2, <1>4
<1>6. PICK y : y = [run[r] EXCEPT !.recorded = @ \o e, !.cursor = Len(log)]
    OBVIOUS
<1>7. y \in RunRecords /\ y.recorded = run[r].recorded \o e /\ y.cursor = Len(log)
    BY <1>1, <1>5, <1>6 DEF RunRecords
<1>8. /\ y.kind = run[r].kind /\ y.status = run[r].status /\ y.start = run[r].start
      /\ y.events = run[r].events /\ y.span = run[r].span
    BY <1>1, <1>6 DEF RunRecords
<1>9. Advance(r, y)
    BY <1>3, <1>6 DEF _sweep_new_audit_entries
<1>10. Goes(r, Following(r), run[r].start, Len(log), run[r].recorded \o e, run[r].span)
    BY <1>1, <1>7, <1>8, <1>9, Advances
<1> QED
    BY <1>1, <1>2, <1>3, <1>4, <1>10

\* The tail of the chain is the range to verify; an empty chain has none.
LEMMA TailGoes ==
    ASSUME RunsTyped, log \in Seq([by : Runs \cup Customers \cup {Sim}, action : AuditActions]),
           NEW r \in Runs, Tail_(r)
    PROVE  /\ run[r].pc = "tail" /\ run'[r].pc \in Steps(run[r].kind)
           /\ run'[r].pc \in {"close", Following(r)}
           /\ run'[r].span[2] <= Len(log)
           /\ Goes(r, run'[r].pc, run[r].start, run[r].cursor, run[r].recorded, run'[r].span)
<1>1. /\ run[r].pc = "tail" /\ run[r] \in RunRecords /\ Len(log) \in Nat
      /\ run \in [Runs -> RunRecords] /\ run[r].span[2] <= Len(log)
    BY DEF Tail_, At, RunsTyped
<1>2. CASE log = <<>>
  <2>1. PICK y : y = [run[r] EXCEPT !.pc = "close"]
    OBVIOUS
  <2>2. y \in RunRecords /\ y.pc = "close"
    BY <1>1, <2>1 DEF RunRecords, Places
  <2>3. /\ y.kind = run[r].kind /\ y.status = run[r].status
        /\ y.start = run[r].start /\ y.cursor = run[r].cursor
        /\ y.recorded = run[r].recorded /\ y.events = run[r].events /\ y.span = run[r].span
    BY <1>1, <2>1 DEF RunRecords
  <2>4. run' = [run EXCEPT ![r] = y]
    BY <1>2, <2>1 DEF Tail_, Jump
  <2>5. run'[r] = y /\ run' \in [Runs -> RunRecords] /\ \A q \in Runs \ {r} : run'[q] = run[q]
    BY <1>1, <2>2, <2>4
  <2>6. run[r].status = "running" /\ "close" \in Steps(run[r].kind)
    BY <1>1, Running, Follows
  <2>7. Goes(r, "close", run[r].start, run[r].cursor, run[r].recorded, run'[r].span)
    BY <2>2, <2>3, <2>5, <2>6 DEF Goes
  <2> QED
    BY <1>1, <2>2, <2>3, <2>5, <2>6, <2>7
<1>3. CASE log # <<>>
  <2>1. PICK y : y = [run[r] EXCEPT !.span = <<1, Len(log)>>]
    OBVIOUS
  <2>2. y \in RunRecords /\ y.span = <<1, Len(log)>>
    BY <1>1, <2>1 DEF RunRecords
  <2>3. /\ y.kind = run[r].kind /\ y.status = run[r].status
        /\ y.start = run[r].start /\ y.cursor = run[r].cursor
        /\ y.recorded = run[r].recorded /\ y.events = run[r].events
    BY <1>1, <2>1 DEF RunRecords
  <2>4. Advance(r, y)
    BY <1>3, <2>1 DEF Tail_
  <2>5. Goes(r, Following(r), run[r].start, run[r].cursor, run[r].recorded, y.span)
    BY <1>1, <2>2, <2>3, <2>4, Advances
  <2>6. Following(r) \in Steps(run[r].kind) /\ run'[r].pc = Following(r) /\ run'[r].span = y.span
    BY <1>1, <2>5, Follows DEF Goes
  <2>7. y.span[2] <= Len(log)
    BY <1>1, <2>2
  <2> QED
    BY <1>1, <2>5, <2>6, <2>7
<1> QED
    BY <1>2, <1>3

\* The finally clauses leave what the run recorded, its span and how it ended.
LEMMA FinallyEnds ==
    ASSUME RunsTyped, NEW r \in Runs, NEW new \in RunRecords, new.kind = run[r].kind,
           NEW status \in {"passed", "failed"}, Finally(r, new, status)
    PROVE  /\ Ends(r, status, new.recorded, new.span)
           /\ UNCHANGED <<ids, issued>> \/ reset_ids
<1>1. run \in [Runs -> RunRecords]
    BY DEF RunsTyped
<1>2. PICK y : y = [NewRun EXCEPT !.pc = "over", !.kind = new.kind, !.status = status,
                                  !.events = new.recorded, !.span = new.span]
    OBVIOUS
<1>3. y = [pc |-> "over", kind |-> new.kind, status |-> status, start |-> 0, cursor |-> 0,
           recorded |-> <<>>, events |-> new.recorded, seen |-> 0, quoted |-> 0,
           requoted |-> FALSE, span |-> new.span]
    BY <1>2 DEF NewRun
<1>4. y \in RunRecords
  <2>1. /\ new.kind \in RUNNABLE_KINDS \cup {None} /\ new.recorded \in Seq(Nat)
        /\ new.span \in Nat \X Nat
    BY RecordFields
  <2>2. <<>> \in Seq(Nat) /\ 0 \in Nat /\ "over" \in Places
        /\ status \in {"none", "queued", "running", "passed", "failed", "lost"}
    BY DEF Places
  <2> QED
    BY <1>3, <2>1, <2>2, Zenon DEF RunRecords
<1>5. run' = [run EXCEPT ![r] = y]
    BY <1>2 DEF Finally
<1>6. run'[r] = y /\ run' \in [Runs -> RunRecords] /\ \A q \in Runs \ {r} : run'[q] = run[q]
    BY <1>1, <1>4, <1>5
<1>7. Ends(r, status, new.recorded, new.span)
    BY <1>3, <1>6 DEF Ends
<1> QED
    BY <1>7 DEF Finally

\* A run that passed shows the part of the chain from its start to its end.
LEMMA CloseEnds ==
    ASSUME RunsTyped, log \in Seq([by : Runs \cup Customers \cup {Sim}, action : AuditActions]),
           NEW r \in Runs, Close(r)
    PROVE  /\ run[r].pc = "close" /\ (UNCHANGED <<ids, issued>> \/ reset_ids)
           /\ Ends(r, "passed", run[r].recorded, run'[r].span)
           /\ run'[r].span[2] <= Len(log)
           /\ run[r].kind # "verify_chain" => run'[r].span = <<run[r].start + 1, Len(log)>>
<1>1. /\ run[r].pc = "close" /\ run[r] \in RunRecords /\ Len(log) \in Nat
      /\ run[r].span[2] <= Len(log)
    BY DEF Close, At, RunsTyped
<1>2. CASE run[r].kind = "verify_chain"
  <2>1. Finally(r, run[r], "passed")
    BY <1>2 DEF Close
  <2>2. Ends(r, "passed", run[r].recorded, run[r].span) /\ (UNCHANGED <<ids, issued>> \/ reset_ids)
    BY <1>1, <2>1, FinallyEnds
  <2>3. run'[r].span = run[r].span
    BY <2>2 DEF Ends
  <2> QED
    BY <1>1, <1>2, <2>2, <2>3
<1>3. CASE run[r].kind # "verify_chain"
  <2>1. PICK y : y = [run[r] EXCEPT !.span = <<run[r].start + 1, Len(log)>>]
    OBVIOUS
  <2>2. run[r].start \in Nat
    BY <1>1, RecordFields
  <2>3. y \in RunRecords /\ y.span = <<run[r].start + 1, Len(log)>>
    <3>1. PICK sp \in Nat \X Nat : sp = <<run[r].start + 1, Len(log)>>
      <4>1. PICK a \in Nat : a = run[r].start + 1
        BY <2>2
      <4>2. PICK b \in Nat : b = Len(log)
        BY <1>1
      <4>3. <<a, b>> \in Nat \X Nat
        OBVIOUS
      <4> QED
        BY <4>1, <4>2, <4>3
    <3>2. y = [run[r] EXCEPT !.span = sp]
      BY <2>1, <3>1
    <3>3. y \in RunRecords /\ y.span = sp
      BY <1>1, <3>1, <3>2 DEF RunRecords
    <3> QED
      BY <3>1, <3>3
  <2>4. y.kind = run[r].kind /\ y.recorded = run[r].recorded
    BY <1>1, <2>1 DEF RunRecords
  <2>5. Finally(r, y, "passed")
    BY <1>3, <2>1 DEF Close
  <2>6. Ends(r, "passed", y.recorded, y.span) /\ (UNCHANGED <<ids, issued>> \/ reset_ids)
    BY <2>3, <2>4, <2>5, FinallyEnds
  <2>7. run'[r].span = y.span /\ Ends(r, "passed", run[r].recorded, run'[r].span)
    BY <2>4, <2>6 DEF Ends
  <2>8. y.span[2] <= Len(log)
    BY <1>1, <2>2, <2>3
  <2> QED
    BY <1>1, <1>3, <2>3, <2>6, <2>7, <2>8
<1> QED
    BY <1>2, <1>3

\* A run that failed keeps what it recorded.
LEMMA FailEnds ==
    ASSUME RunsTyped, NEW r \in Runs, Fail(r)
    PROVE  /\ Ends(r, "failed", run[r].recorded, run[r].span)
           /\ UNCHANGED <<ids, issued>> \/ reset_ids
<1>1. run[r] \in RunRecords
    BY DEF RunsTyped
<1> QED
    BY <1>1, FinallyEnds DEF Fail

\* A click makes a record that waits for its task.
LEMMA StartQueues ==
    ASSUME RunsTyped, NEW r \in Runs, NEW kind \in RUNNABLE_KINDS, start_demo_run(r, kind)
    PROVE  /\ run' \in [Runs -> RunRecords] /\ \A q \in Runs \ {r} : run'[q] = run[q]
           /\ run[r].pc = "none" /\ run'[r].pc = "queued" /\ run'[r].status = "queued"
           /\ run'[r].kind = kind /\ run'[r].start = 0 /\ run'[r].cursor = 0
           /\ run'[r].recorded = <<>> /\ run'[r].events = <<>> /\ run'[r].span = <<1, 0>>
<1>1. run \in [Runs -> RunRecords] /\ run[r].pc = "none"
    BY DEF RunsTyped, start_demo_run, At
<1>2. PICK y : y = [NewRun EXCEPT !.pc = "queued", !.kind = kind, !.status = "queued"]
    OBVIOUS
<1>3. y = [pc |-> "queued", kind |-> kind, status |-> "queued", start |-> 0, cursor |-> 0,
           recorded |-> <<>>, events |-> <<>>, seen |-> 0, quoted |-> 0,
           requoted |-> FALSE, span |-> <<1, 0>>]
    BY <1>2 DEF NewRun
<1>4. y \in RunRecords
  <2>1. /\ kind \in RUNNABLE_KINDS \cup {None} /\ <<1, 0>> \in Nat \X Nat
        /\ <<>> \in Seq(Nat) /\ 0 \in Nat /\ "queued" \in Places
        /\ "queued" \in {"none", "queued", "running", "passed", "failed", "lost"}
    BY DEF Places
  <2> QED
    BY <1>3, <2>1, Zenon DEF RunRecords
<1>5. run' = [run EXCEPT ![r] = y]
    BY <1>2 DEF start_demo_run
<1>6. run'[r] = y /\ run' \in [Runs -> RunRecords] /\ \A q \in Runs \ {r} : run'[q] = run[q]
    BY <1>1, <1>4, <1>5
<1> QED
    BY <1>1, <1>3, <1>6

\* A run that has not been started, and one that died with its process.
LEMMA NewAndLost ==
    /\ NewRun \in RunRecords
    /\ [NewRun EXCEPT !.pc = "over", !.status = "lost"] \in RunRecords
    /\ [NewRun EXCEPT !.pc = "over", !.status = "lost"] =
         [pc |-> "over", kind |-> None, status |-> "lost", start |-> 0, cursor |-> 0,
          recorded |-> <<>>, events |-> <<>>, seen |-> 0, quoted |-> 0,
          requoted |-> FALSE, span |-> <<1, 0>>]
<1>1. /\ None \in RUNNABLE_KINDS \cup {None} /\ <<1, 0>> \in Nat \X Nat
      /\ <<>> \in Seq(Nat) /\ 0 \in Nat /\ "over" \in Places /\ "none" \in Places
      /\ "lost" \in {"none", "queued", "running", "passed", "failed", "lost"}
      /\ "none" \in {"none", "queued", "running", "passed", "failed", "lost"}
    BY DEF Places
<1>2. NewRun \in RunRecords
    BY <1>1, Zenon DEF RunRecords, NewRun
<1>3. PICK y : y = [NewRun EXCEPT !.pc = "over", !.status = "lost"]
    OBVIOUS
<1>4. y = [pc |-> "over", kind |-> None, status |-> "lost", start |-> 0, cursor |-> 0,
           recorded |-> <<>>, events |-> <<>>, seen |-> 0, quoted |-> 0,
           requoted |-> FALSE, span |-> <<1, 0>>]
    BY <1>3 DEF NewRun
<1>5. y \in RunRecords
    BY <1>1, <1>4, Zenon DEF RunRecords
<1> QED
    BY <1>2, <1>3, <1>4, <1>5

\* A crash: every run that was started is over, and shows nothing.
LEMMA CrashLoses ==
    ASSUME RunsTyped, Crash
    PROVE  /\ run' \in [Runs -> RunRecords]
           /\ \A r \in Runs :
                \/ run[r].pc = "none" /\ run'[r] = run[r]
                \/ /\ run'[r].pc = "over" /\ run'[r].kind = None /\ run'[r].status = "lost"
                   /\ run'[r].start = 0 /\ run'[r].cursor = 0 /\ run'[r].recorded = <<>>
                   /\ run'[r].events = <<>> /\ run'[r].span = <<1, 0>>
<1>1. PICK y : y = [NewRun EXCEPT !.pc = "over", !.status = "lost"]
    OBVIOUS
<1>2. run' = [r \in Runs |-> IF run[r].pc = "none" THEN run[r] ELSE y] /\ run \in [Runs -> RunRecords]
    BY <1>1 DEF Crash, RunsTyped
<1>3. y \in RunRecords
    BY <1>1, NewAndLost
<1>4. /\ y.pc = "over" /\ y.kind = None /\ y.status = "lost"
      /\ y.start = 0 /\ y.cursor = 0 /\ y.recorded = <<>>
      /\ y.events = <<>> /\ y.span = <<1, 0>>
    BY <1>1, NewAndLost
<1> QED
    BY <1>2, <1>3, <1>4

-----------------------------------------------------------------------------
(* The type invariant.                                                     *)

\* A sequence of entries, and one longer by what a step appends.
Logs == Seq([by : Runs \cup Customers \cup {Sim}, action : AuditActions])

\* Two sequences, one after the other.
AreJoined(a, b, c) ==
    /\ Len(a) \in Nat /\ Len(b) \in Nat /\ Len(c) \in Nat /\ Len(c) = Len(a) + Len(b)
    /\ DOMAIN a = 1..Len(a) /\ DOMAIN b = 1..Len(b) /\ DOMAIN c = 1..Len(c)
    /\ \A s \in 1..Len(a) : c[s] = a[s] /\ s \in 1..Len(c)
    /\ \A i \in 1..Len(b) : c[Len(a) + i] = b[i] /\ Len(a) + i \in 1..Len(c)
    /\ \A s \in 1..Len(c) : s \in 1..Len(a) \/ \E i \in 1..Len(b) : s = Len(a) + i

\* Where the entries of two sequences are once they are joined.
LEMMA Concatenated ==
    ASSUME NEW E, NEW a \in Seq(E), NEW b \in Seq(E)
    PROVE  a \o b \in Seq(E) /\ AreJoined(a, b, a \o b)
<1> SUFFICES ASSUME NEW c, c = a \o b PROVE c \in Seq(E) /\ AreJoined(a, b, c)
    OBVIOUS
<1>1. /\ c \in Seq(E) /\ Len(a) \in Nat /\ Len(b) \in Nat /\ Len(c) = Len(a) + Len(b)
      /\ DOMAIN a = 1..Len(a) /\ DOMAIN b = 1..Len(b) /\ DOMAIN c = 1..Len(c)
    OBVIOUS
<1>2. \A s \in 1..Len(a) : c[s] = a[s] /\ s \in 1..Len(c)
    BY <1>1
<1>3. ASSUME NEW i \in 1..Len(b) PROVE c[Len(a) + i] = b[i] /\ Len(a) + i \in 1..Len(c)
  <2>1. Len(a) + i \in 1..Len(a)+Len(b) /\ Len(a) + i > Len(a) /\ Len(a) + i - Len(a) = i
    BY <1>1
  <2> QED
    BY <1>1, <2>1
<1>4. ASSUME NEW s \in 1..Len(c), s \notin 1..Len(a) PROVE \E i \in 1..Len(b) : s = Len(a) + i
  <2>1. s - Len(a) \in 1..Len(b) /\ s = Len(a) + (s - Len(a))
    BY <1>1, <1>4
  <2> QED
    BY <2>1
<1> QED
    BY <1>1, <1>2, <1>3, <1>4 DEF AreJoined

\* Appending keeps what the chain has, and adds what the step wrote.
LEMMA Appends ==
    ASSUME log \in Logs, NEW who \in Runs \cup Customers \cup {Sim}, NEW actions \in Seq(AuditActions),
           Append_(who, actions)
    PROVE  /\ log' \in Logs /\ Len(log) \in Nat /\ Len(log') \in Nat
           /\ Len(log') = Len(log) + Len(actions)
           /\ DOMAIN log = 1..Len(log) /\ DOMAIN log' = 1..Len(log')
           /\ \A s \in 1..Len(log) : log'[s] = log[s]
           /\ \A i \in 1..Len(actions) :
                log'[Len(log) + i].by = who /\ log'[Len(log) + i].action = actions[i]
           /\ \A s \in 1..Len(log') : s \in 1..Len(log) \/ \E i \in 1..Len(actions) : s = Len(log) + i
<1> DEFINE E == [by : Runs \cup Customers \cup {Sim}, action : AuditActions]
<1>1. PICK more : more = [i \in 1..Len(actions) |-> [by |-> who, action |-> actions[i]]]
    OBVIOUS
<1>2. log' = log \o more
    BY <1>1 DEF Append_
<1>3. PICK n \in Nat : n = Len(actions) /\ \A i \in 1..n : actions[i] \in AuditActions
    OBVIOUS
<1>4. \A i \in 1..n : more[i] = [by |-> who, action |-> actions[i]] /\ more[i] \in E
    BY <1>1, <1>3
<1>5. more \in [1..n -> E]
    BY <1>1, <1>3, <1>4
<1> HIDE DEF E
<1>6. more \in Seq(E) /\ Len(more) = n
    BY <1>3, <1>5
<1>7. log \in Seq(E)
    BY DEF E, Logs
<1>8. PICK l : l = log'
    OBVIOUS
<1>9. l = log \o more
    BY <1>2, <1>8
<1>10. /\ l \in Seq(E) /\ Len(log) \in Nat /\ Len(l) = Len(log) + n
       /\ DOMAIN log = 1..Len(log) /\ DOMAIN l = 1..Len(l)
       /\ \A s \in 1..Len(log) : l[s] = log[s]
       /\ \A i \in 1..n : l[Len(log) + i] = more[i]
       /\ \A s \in 1..Len(l) : s \in 1..Len(log) \/ \E i \in 1..n : s = Len(log) + i
  <2>1. /\ l \in Seq(E) /\ Len(log) \in Nat /\ Len(l) = Len(log) + Len(more)
        /\ DOMAIN log = 1..Len(log) /\ DOMAIN l = 1..Len(l)
        /\ \A s \in 1..Len(log) : l[s] = log[s]
        /\ \A i \in 1..Len(more) : l[Len(log) + i] = more[i]
        /\ \A s \in 1..Len(l) : s \in 1..Len(log) \/ \E i \in 1..Len(more) : s = Len(log) + i
    <3>1. l \in Seq(E) /\ AreJoined(log, more, l)
      BY <1>6, <1>7, <1>9, Concatenated
    <3> QED
      BY <3>1, Zenon DEF AreJoined
  <2> QED
    BY <1>6, <2>1, Zenon
<1>11. \A i \in 1..n : l[Len(log) + i].by = who /\ l[Len(log) + i].action = actions[i]
  <2> SUFFICES ASSUME NEW i \in 1..n
               PROVE  l[Len(log) + i].by = who /\ l[Len(log) + i].action = actions[i]
    OBVIOUS
  <2>1. l[Len(log) + i] = [by |-> who, action |-> actions[i]]
    BY <1>4, <1>10, Zenon
  <2> QED
    BY <2>1
<1>12. l \in Logs /\ Len(l) \in Nat
    BY <1>10 DEF E, Logs
<1> QED
    BY <1>3, <1>8, <1>10, <1>11, <1>12

\* A run that goes on keeps the runs' part of the invariant.
LEMMA GoesTyped ==
    ASSUME RunsTyped, NEW r \in Runs, NEW pc, NEW start, NEW cursor, NEW recorded, NEW span,
           Goes(r, pc, start, cursor, recorded, span), run[r].kind \in RUNNABLE_KINDS,
           pc \in Steps(run[r].kind),
           Steps(run[r].kind) \subseteq Places \ {"none", "queued", "over"},
           Len(log) \in Nat, Len(log') \in Nat, Len(log) <= Len(log'),
           cursor <= Len(log'), span[2] <= Len(log')
    PROVE  RunsTyped'
<1>1. run' \in [Runs -> RunRecords] /\ run \in [Runs -> RunRecords]
    BY DEF Goes, RunsTyped
<1>2. ASSUME NEW q \in Runs
      PROVE  /\ run'[q].pc = "over" <=> run'[q].status \in {"passed", "failed", "lost"}
             /\ run'[q].cursor <= Len(log') /\ run'[q].span[2] <= Len(log')
             /\ PlaceOK(run'[q])
  <2>1. CASE q = r
    <3>1. /\ run'[r].pc = pc /\ run'[r].kind = run[r].kind /\ run'[r].status = "running"
          /\ run'[r].cursor = cursor /\ run'[r].span = span
      BY DEF Goes
    <3> QED
      BY <2>1, <3>1 DEF PlaceOK
  <2>2. CASE q # r
    <3>1. run'[q] = run[q] /\ run[q] \in RunRecords
      BY <1>1, <2>2 DEF Goes
    <3>2. run[q].cursor \in Nat /\ run[q].span[2] \in Nat
      BY <3>1, RecordFields
    <3>3. /\ run[q].pc = "over" <=> run[q].status \in {"passed", "failed", "lost"}
          /\ run[q].cursor <= Len(log) /\ run[q].span[2] <= Len(log)
          /\ PlaceOK(run[q])
      BY DEF RunsTyped
    <3> QED
      BY <3>1, <3>2, <3>3
  <2> QED
    BY <2>1, <2>2
<1> QED
    BY <1>1, <1>2, Zenon DEF RunsTyped

\* So does one that ends.
LEMMA EndsTyped ==
    ASSUME RunsTyped, NEW r \in Runs, NEW status \in {"passed", "failed"}, NEW events, NEW span,
           Ends(r, status, events, span), span[2] <= Len(log), UNCHANGED log, Len(log) \in Nat
    PROVE  RunsTyped'
<1>1. run' \in [Runs -> RunRecords] /\ run \in [Runs -> RunRecords]
    BY DEF Ends, RunsTyped
<1>2. ASSUME NEW q \in Runs
      PROVE  /\ run'[q].pc = "over" <=> run'[q].status \in {"passed", "failed", "lost"}
             /\ run'[q].cursor <= Len(log) /\ run'[q].span[2] <= Len(log)
             /\ PlaceOK(run'[q])
  <2>1. CASE q = r
    <3>1. /\ run'[r].pc = "over" /\ run'[r].status = status
          /\ run'[r].cursor = 0 /\ run'[r].span = span
      BY DEF Ends
    <3> QED
      BY <2>1, <3>1 DEF PlaceOK
  <2>2. CASE q # r
    <3>1. run'[q] = run[q]
      BY <2>2 DEF Ends
    <3> QED
      BY <3>1 DEF RunsTyped
  <2> QED
    BY <2>1, <2>2
<1> QED
    BY <1>1, <1>2, Zenon DEF RunsTyped

\* What the runs and the simulation share, and the simulation.
ShopTyped ==
    /\ cast \in Casts
    /\ price \in [RUNNABLE_KINDS -> {0, 280, 292}]
    /\ version \in Nat \ {0}
    /\ log \in Logs
    /\ orders \subseteq OrderRecords
    /\ ids \in [seed : Runs \cup RUNNABLE_KINDS \cup {None}, n : Nat]
    /\ faults \in 0..cast.faults
SimTyped ==
    /\ sim \in SimRecords
    /\ outbox \subseteq EventRecords
    /\ sim.pc # "done" => sim.session <= 2 * Sessions

\* The parts of the type invariant.
LEMMA TypedParts == IsTyped <=> RunsTyped /\ ShopTyped /\ SimTyped
BY Zenon DEF IsTyped, TypeOK, RunsTyped, ShopTyped, SimTyped, Logs

\* An id counts up what is there.
LEMMA NewIdTyped ==
    ASSUME ids \in [seed : Runs \cup RUNNABLE_KINDS \cup {None}, n : Nat], new_id
    PROVE  /\ ids' \in [seed : Runs \cup RUNNABLE_KINDS \cup {None}, n : Nat]
           /\ ids'.seed = ids.seed
           /\ \/ ids.seed = None /\ ids' = ids /\ issued' = issued
              \/ /\ ids.seed # None /\ ids'.n = ids.n + 1
                 /\ issued' = Append(issued, <<ids.seed, ids.n + 1>>)
<1>1. CASE ids.seed = None
    BY <1>1 DEF new_id
<1>2. CASE ids.seed # None
  <2>1. ids' = [ids EXCEPT !.n = ids.n + 1] /\ issued' = Append(issued, <<ids.seed, ids.n + 1>>)
    BY <1>2 DEF new_id
  <2>2. PICK i : i = ids'
    OBVIOUS
  <2>3. /\ i \in [seed : Runs \cup RUNNABLE_KINDS \cup {None}, n : Nat] /\ i.seed = ids.seed
        /\ i.n = ids.n + 1
    BY <2>1, <2>2
  <2> QED
    BY <1>2, <2>1, <2>2, <2>3
<1> QED
    BY <1>1, <1>2

\* A reset leaves no seed.
LEMMA ResetTyped ==
    ASSUME reset_ids
    PROVE  ids' \in [seed : Runs \cup RUNNABLE_KINDS \cup {None}, n : Nat] /\ ids'.seed = None
BY DEF reset_ids

\* The orders of a run and of a session.
LEMMA OrderTyped ==
    ASSUME NEW o \in OrderRecords
    PROVE  /\ o.by \in Runs \cup Customers \cup Sales
           /\ o.source \in {None, "demo_lab", "growth_simulation"}
           /\ o.status \in {"CREATED", "CAPTURED", "FAILED"}
           /\ \A s \in {None, "demo_lab", "growth_simulation"} :
                /\ [o EXCEPT !.source = s] \in OrderRecords /\ [o EXCEPT !.source = s].by = o.by
                /\ [o EXCEPT !.source = s].source = s /\ [o EXCEPT !.source = s].status = o.status
           /\ \A s \in {"CREATED", "CAPTURED", "FAILED"} :
                /\ [o EXCEPT !.status = s] \in OrderRecords /\ [o EXCEPT !.status = s].by = o.by
                /\ [o EXCEPT !.status = s].source = o.source /\ [o EXCEPT !.status = s].status = s
BY DEF OrderRecords

\* Short sequences.
LEMMA ShortSequences ==
    ASSUME NEW S, NEW a \in S, NEW b \in S, NEW c \in S
    PROVE  /\ <<a>> \in Seq(S) /\ Len(<<a>>) = 1 /\ <<a>>[1] = a
           /\ <<a, b>> \in Seq(S) /\ Len(<<a, b>>) = 2 /\ <<a, b>>[1] = a /\ <<a, b>>[2] = b
           /\ <<a, b, c>> \in Seq(S) /\ Len(<<a, b, c>>) = 3
           /\ <<a, b, c>>[1] = a /\ <<a, b, c>>[2] = b /\ <<a, b, c>>[3] = c
OBVIOUS

\* The actions that steps append are names of actions.
LEMMA ActionsTyped ==
    /\ <<"quote.issued">> \in Seq(AuditActions) /\ Len(<<"quote.issued">>) = 1
    /\ <<"catalog.price_mutated">> \in Seq(AuditActions) /\ Len(<<"catalog.price_mutated">>) = 1
    /\ <<"order.proposed">> \in Seq(AuditActions) /\ Len(<<"order.proposed">>) = 1
    /\ <<"order.proposed", "budget.reserved", "payment.intent">> \in Seq(AuditActions)
    /\ Len(<<"order.proposed", "budget.reserved", "payment.intent">>) = 3
    /\ <<"payment.result", "settlement.closed">> \in Seq(AuditActions)
    /\ Len(<<"payment.result", "settlement.closed">>) = 2
    /\ <<"payment.result", "compensation.applied">> \in Seq(AuditActions)
    /\ Len(<<"payment.result", "compensation.applied">>) = 2
    /\ <<"catalog.queried", "order.proposed">> \in Seq(AuditActions)
    /\ Len(<<"catalog.queried", "order.proposed">>) = 2
<1>1. /\ "quote.issued" \in AuditActions /\ "catalog.price_mutated" \in AuditActions
      /\ "order.proposed" \in AuditActions /\ "budget.reserved" \in AuditActions
      /\ "payment.intent" \in AuditActions /\ "payment.result" \in AuditActions
      /\ "settlement.closed" \in AuditActions /\ "compensation.applied" \in AuditActions
      /\ "catalog.queried" \in AuditActions
    BY DEF AuditActions
<1> QED
    BY <1>1, ShortSequences, Zenon

\* What a run's steps do to the shop.
RunShop(r) ==
    /\ UNCHANGED <<cast, sim, outbox, faults>>
    /\ \/ UNCHANGED price
       \/ \E p \in {280, 292} : price' = [price EXCEPT ![run[r].kind] = p]
    /\ version' \in {version, version + 1}
    /\ UNCHANGED log \/ \E actions \in Seq(AuditActions) : Append_(r, actions)
    /\ \/ UNCHANGED orders
       \/ orders' = orders \cup {Order(r, None, "CREATED")}
       \/ \E o \in orders : o.by = r /\ Restate(o, [o EXCEPT !.source = "demo_lab"])
       \/ \E o \in orders : o.by = r /\ Restate(o, [o EXCEPT !.status = PaymentStatus(run[r].kind)])
    /\ UNCHANGED ids \/ new_id \/ reset_ids \/ ids' = [seed |-> r, n |-> 0]

\* Every step of a run does to the shop what RunShop allows.
LEMMA RunStepShop ==
    ASSUME IsTyped, NEW r \in Runs, RunStep(r)
    PROVE  RunShop(r)
<1>0. RunsTyped /\ log \in Logs
    BY TypedParts DEF ShopTyped
<1>1. CASE Execute(r)
    BY <1>1, Zenon DEF Execute, RunShop, seed_of
<1>2. CASE Open(r)
    BY <1>2, Zenon DEF Open, RunShop
<1>3. CASE _seed_item(r)
    BY <1>3, Zenon DEF _seed_item, RunShop
<1>4. CASE Quote(r)
    BY <1>4, ActionsTyped, Zenon DEF Quote, RunShop
<1>5. CASE Mutate(r)
    BY <1>5, ActionsTyped, Zenon DEF Mutate, RunShop
<1>6. CASE Hash(r)
    BY <1>6, Zenon DEF Hash, RunShop
<1>7. CASE Propose(r)
  <2>1. UNCHANGED <<cast, price, version, sim, outbox, faults>>
    BY <1>7, Zenon DEF Propose
  <2> QED
    BY <1>0, <1>7, <2>1, ProposeGoes, ActionsTyped, Zenon DEF RunShop
<1>8. CASE set_source(r)
    BY <1>8, Zenon DEF set_source, RunShop
<1>9. CASE Complete(r)
  <2>1. <<"payment.result", IF PaymentStatus(run[r].kind) = "CAPTURED" THEN "settlement.closed"
                            ELSE "compensation.applied">> \in Seq(AuditActions)
    BY ActionsTyped
  <2> QED
    BY <1>9, <2>1, Zenon DEF Complete, RunShop
<1>10. CASE _sweep_new_audit_entries(r)
    BY <1>10, Zenon DEF _sweep_new_audit_entries, RunShop
<1>11. CASE Tail_(r)
    BY <1>11, Zenon DEF Tail_, RunShop
<1>12. CASE Verify(r)
    BY <1>12, Zenon DEF Verify, RunShop
<1>13. CASE Close(r)
  <2>1. UNCHANGED <<cast, price, version, log, orders, sim, outbox, faults>>
    BY <1>13, Zenon DEF Close
  <2>2. UNCHANGED ids \/ reset_ids
    BY <1>0, <1>13, CloseEnds DEF Logs
  <2> QED
    BY <2>1, <2>2, Zenon DEF RunShop
<1> QED
    BY <1>1, <1>2, <1>3, <1>4, <1>5, <1>6, <1>7, <1>8, <1>9, <1>10, <1>11, <1>12, <1>13 DEF RunStep

\* The shop stays typed, and the chain only grows.
LEMMA RunShopTyped ==
    ASSUME ShopTyped, NEW r \in Runs, RunShop(r)
    PROVE  ShopTyped' /\ Len(log) \in Nat /\ Len(log') \in Nat /\ Len(log) <= Len(log')
<1>1. cast' \in Casts /\ faults' \in 0..cast'.faults
    BY DEF ShopTyped, RunShop
<1>2. price' \in [RUNNABLE_KINDS -> {0, 280, 292}]
    BY DEF ShopTyped, RunShop
<1>3. version' \in Nat \ {0}
    BY DEF ShopTyped, RunShop
<1>4. log' \in Logs /\ Len(log) \in Nat /\ Len(log') \in Nat /\ Len(log) <= Len(log')
  <2>1. CASE UNCHANGED log
    BY <2>1 DEF ShopTyped, Logs
  <2>2. ASSUME NEW actions \in Seq(AuditActions), Append_(r, actions)
        PROVE  log' \in Logs /\ Len(log) \in Nat /\ Len(log') \in Nat /\ Len(log) <= Len(log')
    <3>1. /\ log' \in Logs /\ Len(log) \in Nat /\ Len(log') \in Nat
          /\ Len(log') = Len(log) + Len(actions)
      BY <2>2, Appends DEF ShopTyped
    <3> QED
      BY <3>1
  <2> QED
    BY <2>1, <2>2 DEF RunShop
<1>5. orders' \subseteq OrderRecords
  <2>0. orders \subseteq OrderRecords
    BY DEF ShopTyped
  <2>1. CASE UNCHANGED orders
    BY <2>0, <2>1
  <2>2. CASE orders' = orders \cup {Order(r, None, "CREATED")}
    <3>1. Order(r, None, "CREATED") \in OrderRecords
      BY DEF Order, OrderRecords
    <3> QED
      BY <2>0, <2>2, <3>1
  <2>3. ASSUME NEW o \in orders, Restate(o, [o EXCEPT !.source = "demo_lab"])
        PROVE  orders' \subseteq OrderRecords
    <3>1. [o EXCEPT !.source = "demo_lab"] \in OrderRecords
      BY <2>0, OrderTyped
    <3> QED
      BY <2>0, <2>3, <3>1 DEF Restate
  <2>4. ASSUME NEW o \in orders, Restate(o, [o EXCEPT !.status = PaymentStatus(run[r].kind)])
        PROVE  orders' \subseteq OrderRecords
    <3>1. PaymentStatus(run[r].kind) \in {"CREATED", "CAPTURED", "FAILED"}
      BY DEF PaymentStatus
    <3>2. [o EXCEPT !.status = PaymentStatus(run[r].kind)] \in OrderRecords
      BY <2>0, <3>1, OrderTyped
    <3> QED
      BY <2>0, <2>4, <3>2 DEF Restate
  <2> QED
    BY <2>1, <2>2, <2>3, <2>4 DEF RunShop
<1>6. ids' \in [seed : Runs \cup RUNNABLE_KINDS \cup {None}, n : Nat]
    BY NewIdTyped, ResetTyped DEF RunShop, ShopTyped
<1> QED
    BY <1>1, <1>2, <1>3, <1>4, <1>5, <1>6 DEF ShopTyped

\* Every step of a run keeps the types.
LEMMA RunStepTyped ==
    ASSUME IsTyped, NEW r \in Runs, RunStep(r)
    PROVE  IsTyped'
<1>1. RunsTyped /\ ShopTyped /\ SimTyped /\ log \in Logs /\ RunShop(r)
    BY TypedParts, RunStepShop DEF ShopTyped
<1>2. ShopTyped' /\ Len(log) \in Nat /\ Len(log') \in Nat /\ Len(log) <= Len(log')
    BY <1>1, RunShopTyped
<1>3. SimTyped'
    BY <1>1 DEF SimTyped, RunShop
<1>4. /\ run[r] \in RunRecords /\ run[r].cursor \in Nat /\ run[r].span[2] \in Nat
      /\ run[r].cursor <= Len(log') /\ run[r].span[2] <= Len(log')
  <2>1. run[r] \in RunRecords /\ run[r].cursor <= Len(log) /\ run[r].span[2] <= Len(log)
    BY <1>1 DEF RunsTyped
  <2>2. run[r].cursor \in Nat /\ run[r].span[2] \in Nat
    BY <2>1, RecordFields
  <2> QED
    BY <1>2, <2>1, <2>2
<1>5. ASSUME run[r].pc \notin {"none", "queued", "over"}, NEW pc \in Steps(run[r].kind), NEW start,
             NEW cursor, cursor <= Len(log'), NEW recorded, NEW span, span[2] <= Len(log'),
             Goes(r, pc, start, cursor, recorded, span)
      PROVE  RunsTyped'
  <2>1. /\ run[r].kind \in RUNNABLE_KINDS
        /\ Steps(run[r].kind) \subseteq Places \ {"none", "queued", "over"}
    BY <1>1, <1>5, Running, Follows
  <2> QED
    BY <1>1, <1>2, <1>5, <2>1, GoesTyped
<1>6. ASSUME run[r].pc \notin {"none", "queued", "over", "close"}
      PROVE  Following(r) \in Steps(run[r].kind)
    BY <1>1, <1>6, Follows
<1> SUFFICES RunsTyped'
  <2>1. (IsTyped <=> RunsTyped /\ ShopTyped /\ SimTyped)'
    BY TypedParts, PTL
  <2> QED
    BY <1>2, <1>3, <2>1
<1>7. CASE Execute(r)
    BY <1>1, <1>2, <1>4, <1>7, ExecuteGoes, GoesTyped
<1>8. CASE Open(r)
  <2>1. run[r].pc = "open"
    BY <1>8 DEF Open, At
  <2>2. Goes(r, Following(r), Len(log), Len(log), run[r].recorded, run[r].span)
    BY <1>1, <1>8, OpenGoes DEF Logs
  <2> QED
    BY <1>2, <1>4, <1>5, <1>6, <2>1, <2>2
<1>9. CASE _seed_item(r)
  <2>1. run[r].pc = "seed"
    BY <1>9 DEF _seed_item, At
  <2>2. Goes(r, Following(r), run[r].start, run[r].cursor, Opening(run[r].kind), run[r].span)
    BY <1>1, <1>9, SeedGoes
  <2> QED
    BY <1>4, <1>5, <1>6, <2>1, <2>2
<1>10. CASE Quote(r) \/ Mutate(r) \/ Hash(r) \/ set_source(r) \/ Complete(r) \/ Verify(r)
  <2>1. run[r].pc \notin {"none", "queued", "over", "close"}
    BY <1>10 DEF Quote, Mutate, Hash, set_source, Complete, Verify, At
  <2>2. Goes(r, Following(r), run[r].start, run[r].cursor, run[r].recorded, run[r].span)
    BY <1>1, <1>10, PlainGoes DEF ShopTyped
  <2> QED
    BY <1>4, <1>5, <1>6, <2>1, <2>2
<1>11. CASE Propose(r)
  <2>1. /\ run[r].pc = "propose" /\ run'[r].pc \in Steps(run[r].kind)
        /\ Goes(r, run'[r].pc, run[r].start, run[r].cursor, run[r].recorded, run[r].span)
    BY <1>1, <1>11, ProposeGoes
  <2> QED
    BY <1>4, <1>5, <2>1
<1>12. CASE _sweep_new_audit_entries(r)
  <2>1. run[r].pc \in {"sweep_quote", "sweep_mutate", "sweep_order", "sweep_end"}
    BY <1>12 DEF _sweep_new_audit_entries
  <2>2. Goes(r, Following(r), run[r].start, Len(log),
             run[r].recorded \o _emit_events_for_entries(run[r].cursor, Len(log)), run[r].span)
    BY <1>1, <1>12, SweepGoes DEF Logs
  <2> QED
    BY <1>2, <1>4, <1>5, <1>6, <2>1, <2>2
<1>13. CASE Tail_(r)
  <2>1. /\ run[r].pc = "tail" /\ run'[r].pc \in Steps(run[r].kind) /\ run'[r].span[2] <= Len(log)
        /\ Goes(r, run'[r].pc, run[r].start, run[r].cursor, run[r].recorded, run'[r].span)
    BY <1>1, <1>13, TailGoes DEF Logs
  <2>2. UNCHANGED log
    BY <1>13 DEF Tail_
  <2> QED
    BY <1>4, <1>5, <2>1, <2>2
<1>14. CASE Close(r)
  <2>1. /\ Ends(r, "passed", run[r].recorded, run'[r].span) /\ run'[r].span[2] <= Len(log)
    BY <1>1, <1>14, CloseEnds DEF Logs
  <2>2. UNCHANGED log
    BY <1>14 DEF Close
  <2> QED
    BY <1>1, <1>2, <2>1, <2>2, EndsTyped
<1> QED
    BY <1>7, <1>8, <1>9, <1>10, <1>11, <1>12, <1>13, <1>14 DEF RunStep

\* A click, a failure and a crash keep the types too.
LEMMA OtherRunsTyped ==
    ASSUME IsTyped, NEW r \in Runs,
           (\E k \in cast.cards[r] : start_demo_run(r, k)) \/ Fail(r) \/ Crash
    PROVE  IsTyped'
<1>1. RunsTyped /\ ShopTyped /\ SimTyped /\ log \in Logs /\ Len(log) \in Nat
    BY TypedParts DEF ShopTyped, Logs
<1>2. UNCHANGED <<cast, price, version, log, orders, sim, outbox>>
    BY Zenon DEF start_demo_run, Fail, Crash
<1>3. SimTyped'
    BY <1>1, <1>2 DEF SimTyped
<1>4. cast.faults \in Nat /\ \A q \in Runs : cast.cards[q] \subseteq RUNNABLE_KINDS
  <2>1. cast \in Casts
    BY <1>1 DEF ShopTyped
  <2>2. cast.cards \in [Runs -> SUBSET RUNNABLE_KINDS] /\ cast.faults \in Nat
    BY <2>1, TrustLabConstants, Zenon
  <2> QED
    BY <2>2
<1>5. faults' \in 0..cast'.faults
  <2>1. UNCHANGED faults \/ (faults < cast.faults /\ faults' = faults + 1)
    BY Zenon DEF start_demo_run, Fail, Crash
  <2>2. faults \in 0..cast.faults /\ cast' = cast
    BY <1>1, <1>2 DEF ShopTyped
  <2>3. PICK m \in Nat : m = cast.faults
    BY <1>4
  <2> QED
    BY <2>1, <2>2, <2>3
<1>6. ids' \in [seed : Runs \cup RUNNABLE_KINDS \cup {None}, n : Nat]
  <2>1. new_id \/ reset_ids \/ UNCHANGED ids
    BY <1>1, FailEnds DEF start_demo_run, Crash
  <2> QED
    BY <1>1, <2>1, NewIdTyped, ResetTyped DEF ShopTyped
<1>7. ShopTyped'
    BY <1>1, <1>2, <1>5, <1>6 DEF ShopTyped
<1> SUFFICES RunsTyped'
  <2>1. (IsTyped <=> RunsTyped /\ ShopTyped /\ SimTyped)'
    BY TypedParts, PTL
  <2> QED
    BY <1>3, <1>7, <2>1
<1>8. ASSUME NEW k \in cast.cards[r], start_demo_run(r, k)
      PROVE  RunsTyped'
  <2>1. k \in RUNNABLE_KINDS
    BY <1>4
  <2>2. /\ run' \in [Runs -> RunRecords] /\ \A q \in Runs \ {r} : run'[q] = run[q]
        /\ run'[r].pc = "queued" /\ run'[r].status = "queued" /\ run'[r].kind = k
        /\ run'[r].cursor = 0 /\ run'[r].span = <<1, 0>>
    BY <1>1, <1>8, <2>1, StartQueues
  <2>3. ASSUME NEW q \in Runs
        PROVE  /\ run'[q].pc = "over" <=> run'[q].status \in {"passed", "failed", "lost"}
               /\ run'[q].cursor <= Len(log) /\ run'[q].span[2] <= Len(log)
               /\ PlaceOK(run'[q])
    <3>1. CASE q = r
      BY <1>1, <2>1, <2>2, <3>1 DEF PlaceOK
    <3>2. CASE q # r
      BY <1>1, <2>2, <3>2 DEF RunsTyped
    <3> QED
      BY <3>1, <3>2
  <2> QED
    BY <1>2, <2>2, <2>3, Zenon DEF RunsTyped
<1>9. CASE Fail(r)
  <2>1. run[r].span[2] <= Len(log)
    BY <1>1 DEF RunsTyped
  <2> QED
    BY <1>1, <1>2, <1>9, <2>1, FailEnds, EndsTyped
<1>10. CASE Crash
  <2>1. run' \in [Runs -> RunRecords]
    BY <1>1, <1>10, CrashLoses
  <2>2. ASSUME NEW q \in Runs
        PROVE  /\ run'[q].pc = "over" <=> run'[q].status \in {"passed", "failed", "lost"}
               /\ run'[q].cursor <= Len(log) /\ run'[q].span[2] <= Len(log)
               /\ PlaceOK(run'[q])
    <3>1. \/ run[q].pc = "none" /\ run'[q] = run[q]
          \/ /\ run'[q].pc = "over" /\ run'[q].status = "lost"
             /\ run'[q].cursor = 0 /\ run'[q].span = <<1, 0>>
      BY <1>1, <1>10, CrashLoses
    <3>2. CASE run'[q] = run[q]
      BY <1>1, <3>2 DEF RunsTyped
    <3>3. CASE run'[q].pc = "over" /\ run'[q].status = "lost"
               /\ run'[q].cursor = 0 /\ run'[q].span = <<1, 0>>
      BY <1>1, <3>3 DEF PlaceOK
    <3> QED
      BY <3>1, <3>2, <3>3
  <2> QED
    BY <1>2, <2>1, <2>2, Zenon DEF RunsTyped
<1> QED
    BY <1>8, <1>9, <1>10

\* A longer chain leaves the runs as they are.
LEMMA LongerChain ==
    ASSUME RunsTyped, UNCHANGED run, Len(log) \in Nat, Len(log') \in Nat, Len(log) <= Len(log')
    PROVE  RunsTyped'
<1>1. ASSUME NEW q \in Runs
      PROVE  run[q].cursor <= Len(log') /\ run[q].span[2] <= Len(log')
  <2>1. run[q] \in RunRecords /\ run[q].cursor <= Len(log) /\ run[q].span[2] <= Len(log)
    BY DEF RunsTyped
  <2>2. run[q].cursor \in Nat /\ run[q].span[2] \in Nat
    BY <2>1, RecordFields
  <2> QED
    BY <2>1, <2>2
<1> QED
    BY <1>1, Zenon DEF RunsTyped

\* A customer's purchase.
LEMMA BuyTyped ==
    ASSUME IsTyped, NEW c \in Customers, Buy(c)
    PROVE  IsTyped'
<1>1. RunsTyped /\ ShopTyped /\ SimTyped /\ log \in Logs
    BY TypedParts DEF ShopTyped
<1>2. /\ UNCHANGED <<cast, price, version, run, sim, outbox, faults>>
      /\ Append_(c, <<"catalog.queried", "order.proposed">>)
      /\ orders' = orders \cup {Order(c, None, "CAPTURED")}
      /\ new_id
    BY DEF Buy
<1>3. /\ log' \in Logs /\ Len(log) \in Nat /\ Len(log') \in Nat /\ Len(log') = Len(log) + 2
    BY <1>1, <1>2, Appends, ActionsTyped
<1>4. RunsTyped'
    BY <1>1, <1>2, <1>3, LongerChain
<1>5. SimTyped'
    BY <1>1, <1>2 DEF SimTyped
<1>6. Order(c, None, "CAPTURED") \in OrderRecords
    BY DEF Order, OrderRecords
<1>7. ids' \in [seed : Runs \cup RUNNABLE_KINDS \cup {None}, n : Nat]
    BY <1>1, <1>2, NewIdTyped DEF ShopTyped
<1>8. ShopTyped'
    BY <1>1, <1>2, <1>3, <1>6, <1>7 DEF ShopTyped
<1>9. (IsTyped <=> RunsTyped /\ ShopTyped /\ SimTyped)'
    BY TypedParts, PTL
<1> QED
    BY <1>4, <1>5, <1>8, <1>9

-----------------------------------------------------------------------------
(* The simulation.                                                         *)

\* The simulation is at a place, in a session, with an item.
Sells(pc, session, item) ==
    sim' \in SimRecords /\ sim'.pc = pc /\ sim'.session = session /\ sim'.item = item

\* A step within a session moves only the place.
LEMMA DoesIs ==
    ASSUME sim \in SimRecords, NEW pc,
           NEW next \in {"start", "quote", "tag", "complete", "report", "offer", "accept"},
           Does(pc, next)
    PROVE  Sells(next, sim.session, sim.item) /\ sim.pc = pc
<1>1. sim' = [sim EXCEPT !.pc = next] /\ sim.pc = pc
    BY DEF Does
<1>2. PICK y : y = [sim EXCEPT !.pc = next]
    OBVIOUS
<1>3. y \in SimRecords /\ y.pc = next /\ y.session = sim.session /\ y.item = sim.item
    BY <1>2 DEF SimRecords
<1> QED
    BY <1>1, <1>2, <1>3 DEF Sells

\* The end of a session: the next one begins, or the command is done.
LEMMA ReturnsIs ==
    ASSUME sim \in SimRecords, NEW pc, Returns(pc), sim.session <= 2 * Sessions
    PROVE  /\ sim.pc = pc /\ sim.session \in Nat /\ sim.session + 1 \in 1..2*Sessions+1
           /\ Sells(IF sim.session = 2 * Sessions THEN "done" ELSE "start", sim.session + 1, "base")
<1>1. sim' = [sim EXCEPT !.session = sim.session + 1, !.item = "base",
                !.pc = IF sim.session = 2 * Sessions THEN "done" ELSE "start"] /\ sim.pc = pc
    BY DEF Returns
<1>2. PICK p \in {"done", "start"} : p = IF sim.session = 2 * Sessions THEN "done" ELSE "start"
    OBVIOUS
<1>3. PICK s \in 1..2*Sessions+1 : s = sim.session + 1
    BY TrustLabConstants DEF SimRecords
<1>4. PICK y : y = [sim EXCEPT !.session = s, !.item = "base", !.pc = p]
    OBVIOUS
<1>5. y \in SimRecords /\ y.pc = p /\ y.session = s /\ y.item = "base"
    BY <1>2, <1>3, <1>4 DEF SimRecords
<1>6. sim' = y
    BY <1>1, <1>2, <1>3, <1>4
<1>7. sim.session \in Nat
    BY DEF SimRecords
<1> QED
    BY <1>1, <1>2, <1>3, <1>5, <1>6, <1>7 DEF Sells

\* A session goes on, or it returns and the next one begins.
SimMoves(from, to) == sim.pc = from /\ Sells(to, sim.session, sim.item)
SimReturns(from) ==
    /\ sim.pc = from /\ sim.session + 1 \in 1..2*Sessions+1
    /\ Sells(IF sim.session = 2 * Sessions THEN "done" ELSE "start", sim.session + 1, "base")

\* What the steps of the simulation do to it, to the orders and to the events.
SimStarts ==
    /\ SimMoves("start", "quote") \/ SimReturns("start")
    /\ Emit("session.started", None) /\ UNCHANGED <<log, orders>>
SimProposes ==
    \/ /\ SimMoves("propose", "tag") /\ orders' = orders \cup {Order(Bought, None, "CREATED")}
       /\ UNCHANGED outbox
    \/ SimReturns("propose") /\ UNCHANGED <<orders, outbox>>
SimTags ==
    /\ SimMoves("tag", "complete") /\ UNCHANGED <<log, outbox>>
    /\ \E o \in orders : o.by = Bought /\ Restate(o, [o EXCEPT !.source = "growth_simulation"])
SimCompletes ==
    /\ SimMoves("complete", "report") /\ UNCHANGED outbox
    /\ \E o \in orders : o.by = Bought /\ Restate(o, [o EXCEPT !.status = "CAPTURED"])
SimReports ==
    /\ \/ SimMoves("report", "offer") /\ Arm(sim.session) = "upsell" /\ sim.item = "base"
       \/ SimReturns("report")
    /\ Emit("order.completed", sim.item) /\ UNCHANGED <<log, orders>>
SimOffers ==
    /\ SimMoves("offer", "accept") \/ SimReturns("offer")
    /\ Emit("upsell.offered", None) /\ UNCHANGED <<log, orders>>
SimAccepts ==
    /\ sim.pc = "accept" /\ Sells("quote", sim.session, "upsell")
    /\ Emit("upsell.accepted", None) /\ UNCHANGED <<log, orders>>
SimDoes ==
    \/ SimMoves("seed", "start") /\ UNCHANGED <<log, orders, outbox>>
    \/ SimStarts
    \/ SimMoves("quote", "propose") /\ UNCHANGED <<orders, outbox>>
    \/ SimProposes \/ SimTags \/ SimCompletes \/ SimReports \/ SimOffers \/ SimAccepts

\* A step of the simulation is one of these, and leaves the runs alone.
LEMMA SimStepIs ==
    ASSUME IsTyped, SimStep
    PROVE  /\ UNCHANGED <<cast, price, version, ids, issued, run, faults>>
           /\ sim.session \in 1..2*Sessions /\ sim.pc # "done"
           /\ UNCHANGED log \/ \E actions \in Seq(AuditActions) : Append_(Sim, actions)
           /\ SimDoes
<1>1. /\ sim \in SimRecords /\ version \in Nat
      /\ sim.pc # "done" => sim.session <= 2 * Sessions
    BY TypedParts DEF SimTyped, ShopTyped
<1>2. ASSUME NEW pc \in {"seed", "start", "propose", "tag", "complete", "report", "offer"},
             NEW next \in {"start", "quote", "tag", "complete", "report", "offer", "accept"},
             Does(pc, next)
      PROVE  SimMoves(pc, next) /\ sim.pc # "done"
    BY <1>1, <1>2, DoesIs DEF SimMoves
<1>3. ASSUME NEW pc \in {"start", "propose", "report", "offer"}, Returns(pc)
      PROVE  SimReturns(pc) /\ sim.pc # "done"
  <2>1. sim.pc = pc
    BY <1>3 DEF Returns
  <2> QED
    BY <1>1, <1>3, <2>1, ReturnsIs DEF SimReturns
<1>4. UNCHANGED <<cast, price, version, ids, issued, run, faults>>
    BY Zenon DEF SimStep, SimSeed, SimStart, SimQuote, SimPropose, SimTag, SimComplete, SimReport,
       SimOffer, SimAccept
<1> SUFFICES (UNCHANGED log \/ \E actions \in Seq(AuditActions) : Append_(Sim, actions)) /\ SimDoes
  <2>1. sim.pc # "done"
    BY DEF SimStep, SimSeed, SimStart, SimQuote, SimPropose, SimTag, SimComplete, SimReport,
       SimOffer, SimAccept, Does, Returns, SimDenied
  <2>2. sim.session \in 1..2*Sessions
    BY <1>1, <2>1, TrustLabConstants DEF SimRecords
  <2> QED
    BY <1>4, <2>1, <2>2
<1>5. CASE SimSeed
    BY <1>2, <1>5 DEF SimSeed, SimDoes
<1>6. CASE SimStart
    BY <1>2, <1>3, <1>6 DEF SimStart, SimDoes, SimStarts
<1>7. CASE SimQuote
  <2>1. /\ sim.pc = "quote" /\ sim' = [sim EXCEPT !.pc = "propose", !.quoted = version]
        /\ Append_(Sim, <<"quote.issued">>) /\ UNCHANGED <<orders, outbox>>
    BY <1>7 DEF SimQuote
  <2>2. PICK y : y = [sim EXCEPT !.pc = "propose", !.quoted = version]
    OBVIOUS
  <2>3. y \in SimRecords /\ y.pc = "propose" /\ y.session = sim.session /\ y.item = sim.item
    BY <1>1, <2>2 DEF SimRecords
  <2>4. SimMoves("quote", "propose")
    BY <2>1, <2>2, <2>3 DEF SimMoves, Sells
  <2> QED
    BY <2>1, <2>4, ActionsTyped DEF SimDoes
<1>8. CASE SimPropose
  <2>1. /\ UNCHANGED outbox
        /\ \/ /\ Does("propose", "tag") /\ orders' = orders \cup {Order(Bought, None, "CREATED")}
              /\ Append_(Sim, <<"order.proposed", "budget.reserved", "payment.intent">>)
           \/ Returns("propose") /\ UNCHANGED orders /\ Append_(Sim, <<"order.proposed">>)
    BY <1>8, Zenon DEF SimPropose, SimDenied
  <2> QED
    BY <1>2, <1>3, <2>1, ActionsTyped DEF SimDoes, SimProposes
<1>9. CASE SimTag
    BY <1>2, <1>9 DEF SimTag, SimDoes, SimTags
<1>10. CASE SimComplete
    BY <1>2, <1>10, ActionsTyped DEF SimComplete, SimDoes, SimCompletes
<1>11. CASE SimReport
    BY <1>2, <1>3, <1>11 DEF SimReport, SimDoes, SimReports
<1>12. CASE SimOffer
    BY <1>2, <1>3, <1>12 DEF SimOffer, SimDoes, SimOffers
<1>13. CASE SimAccept
  <2>1. /\ sim.pc = "accept" /\ sim' = [sim EXCEPT !.pc = "quote", !.item = "upsell"]
        /\ Emit("upsell.accepted", None) /\ UNCHANGED <<log, orders>>
    BY <1>13 DEF SimAccept
  <2>2. PICK y : y = [sim EXCEPT !.pc = "quote", !.item = "upsell"]
    OBVIOUS
  <2>3. y \in SimRecords /\ y.pc = "quote" /\ y.session = sim.session /\ y.item = "upsell"
    BY <1>1, <2>2 DEF SimRecords
  <2>4. SimAccepts
    BY <2>1, <2>2, <2>3 DEF SimAccepts, Sells
  <2> QED
    BY <2>1, <2>4 DEF SimDoes
<1> QED
    BY <1>5, <1>6, <1>7, <1>8, <1>9, <1>10, <1>11, <1>12, <1>13 DEF SimStep

\* The arms, and the events of a session.
LEMMA EmitTyped ==
    ASSUME outbox \subseteq EventRecords, sim.session \in 1..2*Sessions,
           NEW type \in EventTypes, NEW item \in {None, "base", "upsell"}, Emit(type, item)
    PROVE  outbox' \subseteq EventRecords
<1>1. [session |-> sim.session, arm |-> Arm(sim.session), type |-> type, item |-> item]
        \in EventRecords
    BY DEF EventRecords, Arm, Arms
<1> QED
    BY <1>1 DEF Emit

\* A step of the simulation keeps the types.
LEMMA SimStepTyped ==
    ASSUME IsTyped, SimStep
    PROVE  IsTyped'
<1>1. /\ RunsTyped /\ ShopTyped /\ SimTyped
      /\ log \in Logs /\ sim \in SimRecords /\ outbox \subseteq EventRecords
      /\ orders \subseteq OrderRecords /\ Sessions \in Nat \ {0}
    BY TypedParts, TrustLabConstants DEF ShopTyped, SimTyped
<1>2. /\ UNCHANGED <<cast, price, version, ids, issued, run, faults>>
      /\ sim.session \in 1..2*Sessions /\ sim.pc # "done"
      /\ UNCHANGED log \/ \E actions \in Seq(AuditActions) : Append_(Sim, actions)
      /\ SimDoes
    BY SimStepIs
<1>3. log' \in Logs /\ Len(log) \in Nat /\ Len(log') \in Nat /\ Len(log) <= Len(log')
  <2>1. CASE UNCHANGED log
    BY <1>1, <2>1 DEF Logs
  <2>2. ASSUME NEW actions \in Seq(AuditActions), Append_(Sim, actions)
        PROVE  log' \in Logs /\ Len(log) \in Nat /\ Len(log') \in Nat /\ Len(log) <= Len(log')
    <3>1. /\ log' \in Logs /\ Len(log) \in Nat /\ Len(log') \in Nat
          /\ Len(log') = Len(log) + Len(actions)
      BY <1>1, <2>2, Appends
    <3> QED
      BY <3>1
  <2> QED
    BY <1>2, <2>1, <2>2
<1>4. RunsTyped'
    BY <1>1, <1>2, <1>3, LongerChain
<1>5. sim.item \in {"base", "upsell"} /\ Bought \in Sales
  <2>1. sim.item \in {"base", "upsell"}
    BY <1>1 DEF SimRecords
  <2> QED
    BY <1>2, <2>1 DEF Bought, Sales
<1>6. orders' \subseteq OrderRecords
  <2>1. CASE UNCHANGED orders
    BY <1>1, <2>1
  <2>2. CASE orders' = orders \cup {Order(Bought, None, "CREATED")}
    <3>1. Order(Bought, None, "CREATED") \in OrderRecords
      BY <1>5 DEF Order, OrderRecords
    <3> QED
      BY <1>1, <2>2, <3>1
  <2>3. ASSUME NEW o \in orders, Restate(o, [o EXCEPT !.source = "growth_simulation"])
        PROVE  orders' \subseteq OrderRecords
    <3>1. [o EXCEPT !.source = "growth_simulation"] \in OrderRecords
      BY <1>1, OrderTyped
    <3> QED
      BY <1>1, <2>3, <3>1 DEF Restate
  <2>4. ASSUME NEW o \in orders, Restate(o, [o EXCEPT !.status = "CAPTURED"])
        PROVE  orders' \subseteq OrderRecords
    <3>1. [o EXCEPT !.status = "CAPTURED"] \in OrderRecords
      BY <1>1, OrderTyped
    <3> QED
      BY <1>1, <2>4, <3>1 DEF Restate
  <2> QED
    BY <1>2, <2>1, <2>2, <2>3, <2>4 DEF SimDoes, SimStarts, SimProposes, SimTags, SimCompletes,
       SimReports, SimOffers, SimAccepts
<1>7. outbox' \subseteq EventRecords
  <2>1. CASE UNCHANGED outbox
    BY <1>1, <2>1
  <2>2. ASSUME NEW type \in EventTypes, NEW item \in {None, "base", "upsell"}, Emit(type, item)
        PROVE  outbox' \subseteq EventRecords
    BY <1>1, <1>2, <2>2, EmitTyped
  <2>3. /\ "session.started" \in EventTypes /\ "order.completed" \in EventTypes
        /\ "upsell.offered" \in EventTypes /\ "upsell.accepted" \in EventTypes
    BY DEF EventTypes
  <2> QED
    BY <1>2, <1>5, <2>1, <2>2, <2>3 DEF SimDoes, SimStarts, SimProposes, SimTags, SimCompletes,
       SimReports, SimOffers, SimAccepts
<1>8. sim' \in SimRecords /\ (sim'.pc # "done" => sim'.session <= 2 * Sessions)
  <2>1. ASSUME NEW pc, NEW item, Sells(pc, sim.session, item)
        PROVE  sim' \in SimRecords /\ sim'.session <= 2 * Sessions
    BY <1>1, <1>2, <2>1 DEF Sells
  <2>2. ASSUME NEW pc, SimReturns(pc)
        PROVE  sim' \in SimRecords /\ (sim'.pc # "done" => sim'.session <= 2 * Sessions)
    BY <1>1, <1>2, <2>2 DEF SimReturns, Sells
  <2> QED
    BY <1>2, <2>1, <2>2 DEF SimDoes, SimStarts, SimProposes, SimTags, SimCompletes,
       SimReports, SimOffers, SimAccepts, SimMoves
<1>9. ShopTyped' /\ SimTyped'
    BY <1>1, <1>2, <1>3, <1>6, <1>7, <1>8 DEF ShopTyped, SimTyped
<1>10. (IsTyped <=> RunsTyped /\ ShopTyped /\ SimTyped)'
    BY TypedParts, PTL
<1> QED
    BY <1>4, <1>9, <1>10

\* The end of the command.
LEMMA KilledIs ==
    ASSUME IsTyped, SimKilled
    PROVE  /\ IsTyped' /\ Sells("done", sim.session, sim.item) /\ sim.pc # "done"
           /\ UNCHANGED <<cast, price, version, log, orders, ids, issued, run, outbox>>
<1>1. RunsTyped /\ ShopTyped /\ SimTyped /\ sim \in SimRecords
    BY TypedParts DEF SimTyped
<1>2. /\ UNCHANGED <<cast, price, version, log, orders, ids, issued, run, outbox>>
      /\ sim.pc # "done" /\ faults < cast.faults /\ faults' = faults + 1
      /\ sim' = [sim EXCEPT !.pc = "done"]
    BY DEF SimKilled
<1>3. PICK y : y = [sim EXCEPT !.pc = "done"]
    OBVIOUS
<1>4. y \in SimRecords /\ y.pc = "done" /\ y.session = sim.session /\ y.item = sim.item
    BY <1>1, <1>3 DEF SimRecords
<1>5. Sells("done", sim.session, sim.item) /\ SimTyped'
    BY <1>1, <1>2, <1>3, <1>4 DEF Sells, SimTyped
<1>6. faults' \in 0..cast'.faults
  <2>1. cast \in Casts /\ faults \in 0..cast.faults
    BY <1>1 DEF ShopTyped
  <2>2. cast.faults \in Nat
    BY <2>1, TrustLabConstants, Zenon
  <2>3. PICK m \in Nat : m = cast.faults
    BY <2>2
  <2> QED
    BY <1>2, <2>1, <2>3
<1>7. RunsTyped'
    BY <1>1, <1>2 DEF RunsTyped
<1>8. ShopTyped'
    BY <1>1, <1>2, <1>6 DEF ShopTyped
<1>9. (IsTyped <=> RunsTyped /\ ShopTyped /\ SimTyped)'
    BY TypedParts, PTL
<1> QED
    BY <1>2, <1>5, <1>7, <1>8, <1>9

\* Every step keeps the types.
LEMMA TypedStep ==
    ASSUME IsTyped, [Next]_vars
    PROVE  IsTyped'
<1>1. CASE UNCHANGED vars
  <2>1. RunsTyped /\ ShopTyped /\ SimTyped
    BY TypedParts
  <2>2. RunsTyped' /\ ShopTyped' /\ SimTyped'
    BY <1>1, <2>1, Zenon DEF vars, RunsTyped, ShopTyped, SimTyped
  <2>3. (IsTyped <=> RunsTyped /\ ShopTyped /\ SimTyped)'
    BY TypedParts, PTL
  <2> QED
    BY <2>2, <2>3
<1>2. CASE Crash
  <2>1. PICK r \in Runs : TRUE
    BY <1>2 DEF Crash
  <2> QED
    BY <1>2, <2>1, OtherRunsTyped
<1> QED
    BY <1>1, <1>2, RunStepTyped, OtherRunsTyped, BuyTyped, SimStepTyped, KilledIs DEF Next

\* The beginning.
LEMMA InitTyped == Init => IsTyped
<1> SUFFICES ASSUME Init PROVE IsTyped
    OBVIOUS
<1>1. run = [r \in Runs |-> NewRun] /\ log = <<>> /\ NewRun \in RunRecords
    BY NewAndLost DEF Init
<1>2. RunsTyped
  <2>1. /\ NewRun.pc = "none" /\ NewRun.status = "none" /\ NewRun.cursor = 0
        /\ NewRun.span = <<1, 0>>
    BY DEF NewRun
  <2>2. PlaceOK(NewRun)
    BY <2>1 DEF PlaceOK
  <2>3. Len(log) = 0 /\ NewRun.span[2] = 0
    BY <1>1, <2>1
  <2> QED
    BY <1>1, <2>1, <2>2, <2>3 DEF RunsTyped
<1>3. ShopTyped
  <2>1. cast \in Casts /\ faults = 0
    BY DEF Init
  <2>2. cast.faults \in Nat
    BY <2>1, TrustLabConstants, Zenon
  <2>3. faults \in 0..cast.faults
    BY <2>1, <2>2
  <2>4. /\ price \in [RUNNABLE_KINDS -> {0, 280, 292}] /\ version \in Nat \ {0} /\ log \in Logs
        /\ orders \subseteq OrderRecords
        /\ ids \in [seed : Runs \cup RUNNABLE_KINDS \cup {None}, n : Nat]
    BY <1>1 DEF Init, Logs
  <2> QED
    BY <2>1, <2>3, <2>4 DEF ShopTyped
<1>4. SimTyped
  <2>1. PICK c \in [1..Sessions -> BOOLEAN] :
          sim = [pc |-> "seed", session |-> 1, item |-> "base", quoted |-> 0, converts |-> c]
    BY DEF Init
  <2>2. 1 \in 1..2*Sessions+1 /\ 1 <= 2 * Sessions /\ 0 \in Nat
    BY TrustLabConstants
  <2>3. sim \in SimRecords
    BY <2>1, <2>2 DEF SimRecords
  <2>4. outbox \subseteq EventRecords
    BY DEF Init
  <2>5. sim.session = 1
    BY <2>1
  <2> QED
    BY <2>2, <2>3, <2>4, <2>5 DEF SimTyped
<1> QED
    BY <1>2, <1>3, <1>4, TypedParts

\* Types hold always, whatever else is done beside the steps of the lab.
LEMMA TypedAlways == Lab => []IsTyped
BY InitTyped, TypedStep, PTL DEF Lab

\* Types hold always: in particular a run is over exactly when its record says
\* how it ended.
THEOREM LabIsTyped == Spec => []IsTyped
BY TypedAlways, PTL DEF Spec

-----------------------------------------------------------------------------
(* The generator of ids.                                                   *)

\* A step of a run moves no other run, and not back to the queue.
LEMMA RunStepMoves ==
    ASSUME IsTyped, NEW r \in Runs, RunStep(r)
    PROVE  /\ run[r].pc \notin {"none", "over"}
           /\ run'[r].pc \notin {"none", "queued"} /\ run'[r].kind = run[r].kind
           /\ \A q \in Runs \ {r} : run'[q] = run[q]
<1>1. RunsTyped /\ ShopTyped /\ log \in Logs
    BY TypedParts DEF ShopTyped
<1>2. RunsTyped'
  <2>1. (IsTyped <=> RunsTyped /\ ShopTyped /\ SimTyped)'
    BY TypedParts, PTL
  <2> QED
    BY <2>1, RunStepTyped
<1>3. run[r].pc \notin {"none", "over"}
    BY DEF RunStep, Execute, Open, _seed_item, Quote, Mutate, Hash, Propose, set_source, Complete,
       _sweep_new_audit_entries, Tail_, Verify, Close, At
<1>4. ASSUME NEW pc, NEW start, NEW cursor, NEW recorded, NEW span,
             Goes(r, pc, start, cursor, recorded, span)
      PROVE  /\ run'[r].pc \notin {"none", "queued"} /\ run'[r].kind = run[r].kind
             /\ \A q \in Runs \ {r} : run'[q] = run[q]
  <2>1. PlaceOK(run'[r])
    BY <1>2 DEF RunsTyped
  <2> QED
    BY <1>4, <2>1 DEF Goes, PlaceOK
<1>5. CASE Execute(r)
    BY <1>1, <1>3, <1>4, <1>5, ExecuteGoes
<1>6. CASE Open(r)
    BY <1>1, <1>3, <1>4, <1>6, OpenGoes DEF Logs
<1>7. CASE _seed_item(r)
    BY <1>1, <1>3, <1>4, <1>7, SeedGoes
<1>8. CASE Quote(r) \/ Mutate(r) \/ Hash(r) \/ set_source(r) \/ Complete(r) \/ Verify(r)
    BY <1>1, <1>3, <1>4, <1>8, PlainGoes DEF ShopTyped
<1>9. CASE Propose(r)
    BY <1>1, <1>3, <1>4, <1>9, ProposeGoes
<1>10. CASE _sweep_new_audit_entries(r)
    BY <1>1, <1>3, <1>4, <1>10, SweepGoes DEF Logs
<1>11. CASE Tail_(r)
    BY <1>1, <1>3, <1>4, <1>11, TailGoes DEF Logs
<1>12. CASE Close(r)
  <2>1. Ends(r, "passed", run[r].recorded, run'[r].span)
    BY <1>1, <1>12, CloseEnds DEF Logs
  <2> QED
    BY <1>3, <2>1 DEF Ends
<1> QED
    BY <1>5, <1>6, <1>7, <1>8, <1>9, <1>10, <1>11, <1>12 DEF RunStep

\* A run that has seeded the generator is not run again.
LEMMA SeededStays ==
    ASSUME IsTyped, [Next]_vars, NEW q \in Runs, ~NotSeeded(run[q])
    PROVE  ~NotSeeded(run'[q])
<1>1. RunsTyped /\ ShopTyped /\ cast \in Casts
    BY TypedParts DEF ShopTyped
<1>2. ASSUME NEW r \in Runs, RunStep(r) PROVE ~NotSeeded(run'[q])
    BY <1>2, RunStepMoves DEF NotSeeded
<1>3. ASSUME NEW r \in Runs, NEW k \in cast.cards[r], start_demo_run(r, k)
      PROVE  ~NotSeeded(run'[q])
  <2>1. k \in RUNNABLE_KINDS
    <3>1. cast.cards \in [Runs -> SUBSET RUNNABLE_KINDS]
      BY <1>1, TrustLabConstants, Zenon
    <3> QED
      BY <3>1
  <2>2. run[r].pc = "none" /\ \A p \in Runs \ {r} : run'[p] = run[p]
    BY <1>1, <1>3, <2>1, StartQueues
  <2> QED
    BY <2>2 DEF NotSeeded
<1>4. ASSUME NEW r \in Runs, Fail(r) PROVE ~NotSeeded(run'[q])
    BY <1>1, <1>4, FailEnds DEF Ends, NotSeeded
<1>5. CASE Crash
    BY <1>1, <1>5, CrashLoses DEF NotSeeded
<1>6. CASE UNCHANGED run
    BY <1>6 DEF NotSeeded
<1>7. ASSUME (\E c \in Customers : Buy(c)) \/ SimStep \/ SimKilled \/ UNCHANGED vars
      PROVE  UNCHANGED run
    BY <1>7, SimStepIs, KilledIs, Zenon DEF Buy, vars
<1> QED
    BY <1>2, <1>3, <1>4, <1>5, <1>6, <1>7 DEF Next

\* What a step does to the generator.
LEMMA IdsChange ==
    ASSUME IsTyped, [Next]_vars
    PROVE  \/ UNCHANGED <<ids, issued>>
           \/ new_id
           \/ reset_ids
           \/ \E r \in Runs : /\ run[r].pc = "queued" /\ ids' = [seed |-> r, n |-> 0]
                              /\ UNCHANGED issued /\ ~NotSeeded(run'[r])
<1>1. RunsTyped /\ ShopTyped /\ log \in Logs
    BY TypedParts DEF ShopTyped
<1>2. ASSUME NEW r \in Runs, RunStep(r)
      PROVE  \/ UNCHANGED <<ids, issued>> \/ new_id \/ reset_ids
             \/ /\ run[r].pc = "queued" /\ ids' = [seed |-> r, n |-> 0]
                /\ UNCHANGED issued /\ ~NotSeeded(run'[r])
  <2>1. CASE Execute(r)
    <3>1. ~NotSeeded(run'[r])
      BY <1>2, RunStepMoves DEF NotSeeded
    <3> QED
      BY <2>1, <3>1, Zenon DEF Execute, At, seed_of
  <2>2. CASE Propose(r)
    BY <1>1, <2>2, ProposeGoes, Zenon
  <2>3. CASE Close(r)
    BY <1>1, <2>3, CloseEnds DEF Logs
  <2>4. CASE Open(r) \/ Quote(r) \/ Complete(r)
    BY <2>4, Zenon DEF Open, Quote, Complete
  <2>5. CASE _seed_item(r) \/ Mutate(r) \/ Hash(r) \/ set_source(r) \/ Verify(r) \/ Tail_(r)
             \/ _sweep_new_audit_entries(r)
    BY <2>5, Zenon DEF _seed_item, Mutate, Hash, set_source, Verify, Tail_, _sweep_new_audit_entries
  <2> QED
    BY <1>2, <2>1, <2>2, <2>3, <2>4, <2>5 DEF RunStep
<1>3. ASSUME NEW r \in Runs, Fail(r)
      PROVE  UNCHANGED <<ids, issued>> \/ reset_ids
    BY <1>1, <1>3, FailEnds
<1>4. ASSUME NEW r \in Runs, NEW k, start_demo_run(r, k) PROVE new_id
    BY <1>4 DEF start_demo_run
<1>5. CASE Crash
    BY <1>5 DEF Crash
<1>6. ASSUME NEW c, Buy(c) PROVE new_id
    BY <1>6 DEF Buy
<1>7. ASSUME SimStep \/ SimKilled \/ UNCHANGED vars PROVE UNCHANGED <<ids, issued>>
    BY <1>7, SimStepIs, KilledIs, Zenon DEF vars
<1> QED
    BY <1>2, <1>3, <1>4, <1>5, <1>6, <1>7 DEF Next

\* An id counted up is new.
LEMMA IdsStep ==
    ASSUME IsTyped, IdsOK, [Next]_vars
    PROVE  IdsOK'
<1>1. /\ issued \in Seq(Runs \X Nat)
      /\ ids.seed # None => ids.seed \in Runs /\ ~NotSeeded(run[ids.seed])
      /\ \A i \in DOMAIN issued :
           /\ ~NotSeeded(run[issued[i][1]])
           /\ issued[i][1] = ids.seed => issued[i][2] <= ids.n
      /\ \A a, b \in DOMAIN issued : issued[a] = issued[b] => a = b
    BY DEF IdsOK, IsInjective
<1>2. \A q \in Runs : ~NotSeeded(run[q]) => ~NotSeeded(run'[q])
    BY SeededStays
<1>3. PICK N \in Nat : N = Len(issued) /\ DOMAIN issued = 1..N
    BY <1>1
<1>4. \A i \in 1..N : issued[i][1] \in Runs /\ issued[i][2] \in Nat /\ ~NotSeeded(run'[issued[i][1]])
  <2> SUFFICES ASSUME NEW i \in 1..N
               PROVE  issued[i][1] \in Runs /\ issued[i][2] \in Nat /\ ~NotSeeded(run'[issued[i][1]])
    OBVIOUS
  <2>1. issued[i] \in Runs \X Nat
    BY <1>1, <1>3
  <2>2. issued[i][1] \in Runs /\ issued[i][2] \in Nat
    BY <2>1
  <2> QED
    BY <1>1, <1>2, <1>3, <2>2
<1>5. CASE UNCHANGED <<ids, issued>>
  <2>1. ids'.seed # None => ids'.seed \in Runs /\ ~NotSeeded(run'[ids'.seed])
    BY <1>1, <1>2, <1>5
  <2> QED
    BY <1>1, <1>3, <1>4, <1>5, <2>1 DEF IdsOK, IsInjective
<1>6. CASE new_id
  <2>1. ids \in [seed : Runs \cup RUNNABLE_KINDS \cup {None}, n : Nat]
    BY TypedParts DEF ShopTyped
  <2>2. CASE ids.seed = None
    <3>1. UNCHANGED <<ids, issued>>
      BY <1>6, <2>1, <2>2, NewIdTyped
    <3> QED
      BY <1>5, <3>1
  <2>3. CASE ids.seed # None
    <3>1. PICK q \in Runs, n \in Nat : q = ids.seed /\ n = ids.n
      BY <1>1, <2>1, <2>3
    <3>2. /\ ids'.seed = q /\ ids'.n = n + 1 /\ issued' = Append(issued, <<q, n + 1>>)
          /\ ~NotSeeded(run'[q])
      BY <1>1, <1>2, <1>6, <2>1, <2>3, <3>1, NewIdTyped
    <3>3. PICK new \in Runs \X Nat : new = <<q, n + 1>> /\ new[1] = q /\ new[2] = n + 1
      <4>1. PICK m \in Nat : m = n + 1
        BY <3>1
      <4>2. <<q, m>> \in Runs \X Nat /\ <<q, m>>[1] = q /\ <<q, m>>[2] = m
        OBVIOUS
      <4> QED
        BY <4>1, <4>2
    <3>4. PICK more : more = issued'
      OBVIOUS
    <3>5. /\ more \in Seq(Runs \X Nat) /\ DOMAIN more = 1..N+1 /\ more[N + 1] = new
          /\ \A i \in 1..N : more[i] = issued[i]
      BY <1>1, <1>3, <3>2, <3>3, <3>4
    <3>6. \A i \in 1..N+1 : i = N + 1 \/ i \in 1..N
      OBVIOUS
    <3>7. \A i \in 1..N : issued[i][1] = q => issued[i][2] <= n
      BY <1>1, <1>3, <3>1
    <3>8. ASSUME NEW i \in 1..N+1
          PROVE  ~NotSeeded(run'[more[i][1]]) /\ (more[i][1] = q => more[i][2] <= n + 1)
      <4>1. CASE i = N + 1
        BY <3>2, <3>3, <3>5, <4>1
      <4>2. CASE i \in 1..N
        <5>1. more[i] = issued[i] /\ issued[i][2] \in Nat
          BY <1>4, <3>5, <4>2
        <5>2. issued[i][1] = q => issued[i][2] <= n
          BY <3>7, <4>2
        <5>3. ~NotSeeded(run'[issued[i][1]])
          BY <1>4, <4>2
        <5> QED
          BY <5>1, <5>2, <5>3
      <4> QED
        BY <3>6, <4>1, <4>2
    <3>9. \A i \in 1..N : issued[i] # new
      BY <1>4, <3>3, <3>7
    <3>10. ASSUME NEW a \in 1..N+1, NEW b \in 1..N+1, more[a] = more[b] PROVE a = b
      <4>1. CASE a \in 1..N /\ b \in 1..N
        BY <1>1, <1>3, <3>5, <3>10, <4>1
      <4>2. CASE a = N + 1 /\ b \in 1..N
        BY <3>5, <3>9, <3>10, <4>2
      <4>3. CASE a \in 1..N /\ b = N + 1
        BY <3>5, <3>9, <3>10, <4>3
      <4> QED
        BY <3>6, <4>1, <4>2, <4>3
    <3>11. ASSUME NEW i \in DOMAIN issued'
           PROVE  /\ ~NotSeeded(run'[issued'[i][1]])
                  /\ issued'[i][1] = ids'.seed => issued'[i][2] <= ids'.n
      BY <3>2, <3>4, <3>5, <3>8
    <3>12. ASSUME NEW a \in DOMAIN issued', NEW b \in DOMAIN issued', issued'[a] = issued'[b]
           PROVE  a = b
      BY <3>4, <3>5, <3>10, <3>12
    <3>13. issued' \in Seq(Runs \X Nat) /\ ids'.seed \in Runs /\ ~NotSeeded(run'[ids'.seed])
      BY <3>2, <3>4, <3>5
    <3> QED
      BY <3>11, <3>12, <3>13 DEF IdsOK, IsInjective
  <2> QED
    BY <2>2, <2>3
<1>7. CASE reset_ids
  <2>1. ids'.seed = None /\ issued' = issued /\ None \notin Runs
    BY <1>7, TrustLabConstants DEF reset_ids
  <2>2. \A i \in 1..N : issued[i][1] # None
    BY <1>4, <2>1
  <2> QED
    BY <1>1, <1>3, <1>4, <2>1, <2>2 DEF IdsOK, IsInjective
<1>8. ASSUME NEW r \in Runs, run[r].pc = "queued", ids' = [seed |-> r, n |-> 0],
             UNCHANGED issued, ~NotSeeded(run'[r])
      PROVE  IdsOK'
  <2>1. ids'.seed = r /\ ids'.n = 0 /\ NotSeeded(run[r])
    BY <1>8 DEF NotSeeded
  <2>2. \A i \in 1..N : issued[i][1] # r
    BY <1>1, <1>3, <2>1
  <2> QED
    BY <1>1, <1>3, <1>4, <1>8, <2>1, <2>2 DEF IdsOK, IsInjective
<1> QED
    BY <1>5, <1>6, <1>7, <1>8, IdsChange

\* No two rows are given the same id, although the runs of a process overwrite
\* and reset each other's seed: for any number of runs.
THEOREM IdsStayUnique == Spec => []IdsAreUnique
<1>1. Init => IdsOK
    BY DEF Init, IdsOK, IsInjective
<1>2. IdsOK => IdsAreUnique
    BY DEF IdsOK, IdsAreUnique
<1> QED
    BY <1>1, <1>2, IdsStep, TypedAlways, PTL DEF Spec, Lab

-----------------------------------------------------------------------------
(* The orders.                                                             *)

\* Of an order that is restated there is still one.
LEMMA Restated ==
    ASSUME \A o, p \in orders : o.by = p.by => o = p,
           NEW old \in orders, NEW new, new.by = old.by, Restate(old, new)
    PROVE  /\ \A o, p \in orders' : o.by = p.by => o = p
           /\ \A o \in orders' : o = new \/ (o \in orders /\ o.by # old.by)
           /\ new \in orders'
<1>1. \A o \in orders' : o = new \/ (o \in orders /\ o.by # old.by)
    BY DEF Restate
<1>2. \A o, p \in orders' : o.by = p.by => o = p
    BY <1>1
<1> QED
    BY <1>1, <1>2 DEF Restate

\* Buyers are told apart: a session's sale is no run and no customer.
LEMMA BuyersDiffer ==
    /\ \A r \in Runs : r \notin Sales /\ r \notin Customers
    /\ \A c \in Customers : c \notin Sales /\ c \notin Runs
<1>1. ASSUME NEW s \in Sales PROVE s \notin Runs /\ s \notin Customers
  <2>1. PICK a \in 1..2*Sessions, b \in {"base", "upsell"} : s = <<a, b>>
    BY DEF Sales
  <2> QED
    BY <2>1, TrustLabConstants
<1> QED
    BY <1>1, TrustLabConstants

\* What a session is buying.
LEMMA BoughtIs ==
    ASSUME sim \in SimRecords, sim.session <= 2 * Sessions
    PROVE  /\ sim.session \in 1..2*Sessions /\ sim.item \in {"base", "upsell"}
           /\ Bought \in Sales /\ Bought[1] = sim.session /\ Bought[2] = sim.item
<1>1. sim.session \in 1..2*Sessions /\ sim.item \in {"base", "upsell"}
    BY TrustLabConstants DEF SimRecords
<1> QED
    BY <1>1 DEF Bought, Sales

\* A step that touches at most the order of one run.
LEMMA OrdersByRun ==
    ASSUME IsTyped, OrdersOK, UNCHANGED sim, NEW r \in Runs,
           \A q \in Runs \ {r} : run'[q] = run[q],
           \A o, p \in orders' : o.by = p.by => o = p,
           \A o \in orders' :
             o \in orders \/ (/\ o.by = r /\ o.source \in {None, "demo_lab"}
                              /\ o.source = None => o.status # "CAPTURED"),
           run'[r].pc \in BeforeOrder => \A o \in orders' : o.by # r,
           IsTagged(run'[r]) => \A o \in orders' : o.by = r => o.source = "demo_lab"
    PROVE  OrdersOK'
<1>1. SimTyped /\ sim' = sim
    BY TypedParts
<1>2. r \notin Sales /\ r \notin Customers
    BY BuyersDiffer
<1>3. ASSUME NEW q \in Runs
      PROVE  /\ run'[q].pc \in BeforeOrder => \A o \in orders' : o.by # q
             /\ IsTagged(run'[q]) => \A o \in orders' : o.by = q => o.source = "demo_lab"
  <2>1. CASE q = r
    BY <2>1
  <2>2. CASE q # r
    <3>1. \A o \in orders' : o.by = q => o \in orders
      BY <2>2
    <3>2. run'[q] = run[q]
      BY <2>2
    <3>3. /\ run[q].pc \in BeforeOrder => \A o \in orders : o.by # q
          /\ IsTagged(run[q]) => \A o \in orders : o.by = q => o.source = "demo_lab"
      BY DEF OrdersOK
    <3> QED
      BY <3>1, <3>2, <3>3
  <2> QED
    BY <2>1, <2>2
<1>4. \A o \in orders' : o.source = "demo_lab" => o.by \in Runs
    BY DEF OrdersOK
<1>5. \A o \in orders' : o.by \in Sales => Sold(o.by)
    BY <1>2 DEF OrdersOK
<1>6. \A s : Sold(s)' <=> Sold(s)
    BY <1>1 DEF Sold, Bought
<1>7. sim'.pc = "complete" => \A o \in orders' : o.by = Bought' => o.source = "growth_simulation"
  <2> SUFFICES ASSUME sim.pc = "complete", NEW o \in orders', o.by = Bought
               PROVE  o.source = "growth_simulation"
    BY <1>1 DEF Bought
  <2>1. Bought \in Sales
    BY <1>1, BoughtIs DEF SimTyped
  <2>2. o \in orders
    BY <1>2, <2>1
  <2> QED
    BY <2>2 DEF OrdersOK
<1>8. \A o \in orders' : o.source = None /\ o.status = "CAPTURED" => o.by \in Customers
    BY DEF OrdersOK
<1>9. sim'.pc \in {"offer", "accept"} => sim'.item = "base"
    BY <1>1 DEF OrdersOK
<1> QED
    BY <1>3, <1>4, <1>5, <1>6, <1>7, <1>8, <1>9 DEF OrdersOK

\* The places before the order and between its tag and its payment are left
\* only by the steps that make, tag and pay the order.
LEMMA PlacesMove ==
    ASSUME IsTyped, NEW r \in Runs, RunStep(r)
    PROVE  /\ run'[r].pc \in BeforeOrder =>
                /\ run[r].pc \in BeforeOrder
                /\ Propose(r) => UNCHANGED orders
           /\ IsTagged(run'[r]) =>
                IsTagged(run[r]) \/ set_source(r)
<1>1. RunsTyped /\ ShopTyped /\ log \in Logs
    BY TypedParts DEF ShopTyped
<1>2. CASE Execute(r)
  <2>1. run[r].pc = "queued" /\ run'[r].pc \in {"tail", "open"}
    BY <1>1, <1>2, ExecuteGoes DEF Goes
  <2> QED
    BY <1>2, <2>1 DEF BeforeOrder, IsTagged, Propose, At
<1>3. CASE Close(r)
  <2>1. run'[r].pc = "over"
    BY <1>1, <1>3, CloseEnds DEF Ends, Logs
  <2> QED
    BY <2>1 DEF BeforeOrder, IsTagged
<1>4. ASSUME ~Execute(r), ~Close(r)
      PROVE  /\ run[r].pc \notin {"none", "queued", "over", "close"}
             /\ run[r].kind \in {"stale_price", "declined", "llm_down", "verify_chain"}
             /\ run[r].pc \in Steps(run[r].kind) /\ run'[r].kind = run[r].kind
  <2>1. run[r].pc \notin {"none", "queued", "over", "close"}
    BY <1>4 DEF RunStep, Open, _seed_item, Quote, Mutate, Hash, Propose, set_source, Complete,
       _sweep_new_audit_entries, Tail_, Verify, At
  <2> QED
    BY <1>1, <2>1, Running, RunStepMoves DEF RUNNABLE_KINDS
<1>5. CASE Propose(r)
  <2>1. ~Execute(r) /\ ~Close(r) /\ run[r].pc = "propose"
    BY <1>5 DEF Propose, Execute, Close, At
  <2>2. CASE run'[r].pc \in {"sweep_end", "requote"} /\ UNCHANGED orders
    BY <2>1, <2>2 DEF BeforeOrder, IsTagged
  <2>3. CASE run'[r].pc = Following(r)
    <3>1. \/ run[r].kind \in {"declined", "llm_down"} /\ Following(r) = "tag"
          \/ run[r].kind = "stale_price" /\ Following(r) = "sweep_order"
      BY <1>4, <2>1, SettlePlaces, StalePlaces, VerifyPlaces
    <3> QED
      BY <1>4, <2>1, <2>3, <3>1 DEF BeforeOrder, IsTagged
  <2> QED
    BY <1>1, <1>5, <2>2, <2>3, ProposeGoes
<1>6. CASE Tail_(r)
  <2>1. ~Execute(r) /\ ~Close(r) /\ run[r].pc = "tail"
    BY <1>6 DEF Tail_, Execute, Close, At
  <2>2. run'[r].pc \in {"close", "verify"}
    <3>1. run[r].kind = "verify_chain"
      BY <1>4, <2>1, SettlePlaces, StalePlaces
    <3> QED
      BY <1>1, <1>6, <2>1, <3>1, VerifyPlaces, TailGoes DEF Logs
  <2> QED
    BY <2>2 DEF BeforeOrder, IsTagged
<1>7. CASE \/ Open(r) \/ _seed_item(r) \/ Quote(r) \/ Mutate(r) \/ Hash(r) \/ set_source(r)
           \/ Complete(r) \/ _sweep_new_audit_entries(r) \/ Verify(r)
  <2>1. ~Execute(r) /\ ~Close(r) /\ run[r].pc # "propose" /\ ~Propose(r)
    BY <1>7 DEF Open, _seed_item, Quote, Mutate, Hash, Propose, set_source, Complete,
       _sweep_new_audit_entries, Verify, Execute, Close, At
  <2>2. run'[r].pc = Following(r)
    <3>1. CASE Open(r)
      BY <1>1, <3>1, OpenGoes DEF Logs, Goes
    <3>2. CASE _seed_item(r)
      BY <1>1, <3>2, SeedGoes DEF Goes
    <3>3. CASE _sweep_new_audit_entries(r)
      BY <1>1, <3>3, SweepGoes DEF Logs, Goes
    <3>4. CASE Quote(r) \/ Mutate(r) \/ Hash(r) \/ set_source(r) \/ Complete(r) \/ Verify(r)
      BY <1>1, <3>4, PlainGoes DEF ShopTyped, Goes
    <3> QED
      BY <1>7, <3>1, <3>2, <3>3, <3>4
  <2>3. run[r].pc = "tag" => set_source(r)
    BY <1>7 DEF Open, _seed_item, Quote, Mutate, Hash, Complete, _sweep_new_audit_entries,
       Verify, At
  <2>4. CASE run[r].kind \in {"declined", "llm_down"}
    BY <1>4, <2>1, <2>2, <2>3, <2>4, SettlePlaces DEF BeforeOrder, IsTagged
  <2>5. CASE run[r].kind = "stale_price"
    BY <1>4, <2>1, <2>2, <2>3, <2>5, StalePlaces DEF BeforeOrder, IsTagged
  <2>6. CASE run[r].kind = "verify_chain"
    BY <1>4, <2>1, <2>2, <2>3, <2>6, VerifyPlaces DEF BeforeOrder, IsTagged
  <2> QED
    BY <1>4, <2>1, <2>4, <2>5, <2>6
<1> QED
    BY <1>2, <1>3, <1>5, <1>6, <1>7 DEF RunStep

\* What a run's step does to its order.
LEMMA OrdersRunStep ==
    ASSUME IsTyped, OrdersOK, NEW r \in Runs, RunStep(r)
    PROVE  OrdersOK'
<1>1. RunsTyped /\ ShopTyped /\ orders \subseteq OrderRecords
    BY TypedParts DEF ShopTyped
<1>2. /\ \A o, p \in orders : o.by = p.by => o = p
      /\ run[r].pc \in BeforeOrder => \A o \in orders : o.by # r
      /\ IsTagged(run[r]) => \A o \in orders : o.by = r => o.source = "demo_lab"
    BY DEF OrdersOK
<1>3. UNCHANGED sim /\ \A q \in Runs \ {r} : run'[q] = run[q]
    BY RunStepShop, RunStepMoves DEF RunShop
<1>4. /\ run'[r].pc \in BeforeOrder => run[r].pc \in BeforeOrder /\ (Propose(r) => UNCHANGED orders)
      /\ IsTagged(run'[r]) => IsTagged(run[r]) \/ set_source(r)
    BY PlacesMove
<1>5. CASE UNCHANGED orders /\ ~set_source(r)
    BY <1>2, <1>3, <1>4, <1>5, OrdersByRun
<1>6. CASE set_source(r)
  <2>1. PICK o \in orders : o.by = r /\ Restate(o, [o EXCEPT !.source = "demo_lab"])
    BY <1>6 DEF set_source
  <2>2. PICK p : p = [o EXCEPT !.source = "demo_lab"] /\ p.by = r /\ p.source = "demo_lab"
    <3>1. PICK p : p = [o EXCEPT !.source = "demo_lab"]
      OBVIOUS
    <3>2. o \in OrderRecords /\ o.by = r
      BY <1>1, <2>1
    <3>3. p.by = r /\ p.source = "demo_lab"
      BY <3>1, <3>2 DEF OrderRecords
    <3> QED
      BY <3>1, <3>3
  <2>3. /\ \A x, y \in orders' : x.by = y.by => x = y
        /\ \A x \in orders' : x = p \/ (x \in orders /\ x.by # r)
    BY <1>2, <2>1, <2>2, Restated
  <2>4. run[r].pc \notin BeforeOrder /\ "demo_lab" # None
    BY <1>6, TrustLabConstants DEF set_source, At, BeforeOrder
  <2> QED
    BY <1>3, <1>4, <2>2, <2>3, <2>4, OrdersByRun
<1>7. CASE Complete(r)
  <2>1. run[r].pc = "complete" /\ PaymentStatus(run[r].kind) \in {"CREATED", "CAPTURED", "FAILED"}
    BY <1>7 DEF Complete, At, PaymentStatus
  <2>2. PICK o \in orders :
          o.by = r /\ Restate(o, [o EXCEPT !.status = PaymentStatus(run[r].kind)])
    BY <1>7 DEF Complete
  <2>3. o.source = "demo_lab" /\ "demo_lab" # None
    BY <1>2, <2>1, <2>2, TrustLabConstants DEF IsTagged
  <2>4. PICK p : /\ p = [o EXCEPT !.status = PaymentStatus(run[r].kind)] /\ p.by = r
                 /\ p.source = "demo_lab"
    <3>1. PICK p : p = [o EXCEPT !.status = PaymentStatus(run[r].kind)]
      OBVIOUS
    <3>2. o \in OrderRecords /\ o.by = r
      BY <1>1, <2>2
    <3>3. p.by = r /\ p.source = "demo_lab"
      BY <2>3, <3>1, <3>2 DEF OrderRecords
    <3> QED
      BY <3>1, <3>3
  <2>5. /\ \A x, y \in orders' : x.by = y.by => x = y
        /\ \A x \in orders' : x = p \/ (x \in orders /\ x.by # r)
    BY <1>2, <2>2, <2>4, Restated
  <2>6. run[r].pc \notin BeforeOrder
    BY <2>1 DEF BeforeOrder
  <2> QED
    BY <1>3, <1>4, <2>3, <2>4, <2>5, <2>6, OrdersByRun
<1>8. CASE Propose(r)
  <2>1. run[r].pc = "propose" /\ ~set_source(r) /\ ~IsTagged(run[r])
    BY <1>8 DEF Propose, set_source, At, IsTagged
  <2>2. CASE orders' = orders \cup {Order(r, None, "CREATED")} /\ ~UNCHANGED orders
    <3>1. PICK p : p = Order(r, None, "CREATED")
      OBVIOUS
    <3>2. p.by = r /\ p.source = None /\ p.status = "CREATED"
      BY <3>1 DEF Order
    <3>3. \A x \in orders : x.by # r
      BY <1>2, <2>1 DEF BeforeOrder
    <3>4. /\ \A x, y \in orders' : x.by = y.by => x = y
          /\ \A x \in orders' : x \in orders \/ x = p
      BY <1>2, <2>2, <3>1, <3>2, <3>3
    <3> QED
      BY <1>3, <1>4, <1>8, <2>1, <2>2, <3>2, <3>4, OrdersByRun
  <2> QED
    BY <1>1, <1>5, <1>8, <2>1, <2>2, ProposeGoes
<1>9. CASE \/ Execute(r) \/ Open(r) \/ _seed_item(r) \/ Quote(r) \/ Mutate(r) \/ Hash(r)
           \/ _sweep_new_audit_entries(r) \/ Tail_(r) \/ Verify(r) \/ Close(r)
  <2>1. UNCHANGED orders
    BY <1>9, Zenon DEF Execute, Open, _seed_item, Quote, Mutate, Hash, _sweep_new_audit_entries,
       Tail_, Verify, Close
  <2> QED
    BY <1>5, <1>6, <2>1
<1> QED
    BY <1>6, <1>7, <1>8, <1>9 DEF RunStep

\* Clicks, failures, crashes and customers.
LEMMA OrdersOtherStep ==
    ASSUME IsTyped, OrdersOK, UNCHANGED sim,
           \A q \in Runs :
             \/ run'[q] = run[q]
             \/ run[q].pc = "none" /\ run'[q].pc = "queued"
             \/ run'[q].pc = "over",
           \/ UNCHANGED orders
           \/ \E c \in Customers : /\ \A o \in orders : o.by # c
                                   /\ orders' = orders \cup {Order(c, None, "CAPTURED")}
    PROVE  OrdersOK'
<1>1. SimTyped /\ sim' = sim
    BY TypedParts
<1>2. \A o \in orders' : o \in orders \/ (o.by \in Customers /\ o.source = None)
    BY DEF Order
<1>3. \A o, p \in orders' : o.by = p.by => o = p
  <2>1. CASE UNCHANGED orders
    BY <2>1 DEF OrdersOK
  <2>2. ASSUME NEW c \in Customers, \A o \in orders : o.by # c,
               orders' = orders \cup {Order(c, None, "CAPTURED")}
        PROVE  \A o, p \in orders' : o.by = p.by => o = p
    <3>1. Order(c, None, "CAPTURED").by = c
      BY DEF Order
    <3>2. \A o, p \in orders : o.by = p.by => o = p
      BY DEF OrdersOK
    <3> QED
      BY <2>2, <3>1, <3>2
  <2> QED
    BY <2>1, <2>2
<1>4. ASSUME NEW q \in Runs
      PROVE  /\ run'[q].pc \in BeforeOrder => \A o \in orders' : o.by # q
             /\ IsTagged(run'[q]) => \A o \in orders' : o.by = q => o.source = "demo_lab"
  <2>1. \A o \in orders' : o.by = q => o \in orders
    BY <1>2, BuyersDiffer
  <2>2. /\ run[q].pc \in BeforeOrder => \A o \in orders : o.by # q
        /\ IsTagged(run[q]) => \A o \in orders : o.by = q => o.source = "demo_lab"
    BY DEF OrdersOK
  <2>3. run'[q].pc \in BeforeOrder => run[q].pc \in BeforeOrder
    BY DEF BeforeOrder
  <2>4. IsTagged(run'[q]) => IsTagged(run[q])
    BY DEF IsTagged
  <2> QED
    BY <2>1, <2>2, <2>3, <2>4
<1>5. \A o \in orders' : o.source = "demo_lab" => o.by \in Runs
    BY <1>2, TrustLabConstants DEF OrdersOK
<1>6. \A o \in orders' : o.by \in Sales => o \in orders
    BY <1>2, BuyersDiffer
<1>7. \A s : Sold(s)' <=> Sold(s)
    BY <1>1 DEF Sold, Bought
<1>8. \A o \in orders' : o.by \in Sales => Sold(o.by)
    BY <1>6 DEF OrdersOK
<1>9. sim'.pc = "complete" => \A o \in orders' : o.by = Bought' => o.source = "growth_simulation"
  <2> SUFFICES ASSUME sim.pc = "complete", NEW o \in orders', o.by = Bought
               PROVE  o.source = "growth_simulation"
    BY <1>1 DEF Bought
  <2>1. Bought \in Sales
    BY <1>1, BoughtIs DEF SimTyped
  <2> QED
    BY <1>6, <2>1 DEF OrdersOK
<1>10. \A o \in orders' : o.source = None /\ o.status = "CAPTURED" => o.by \in Customers
    BY <1>2 DEF OrdersOK
<1>11. sim'.pc \in {"offer", "accept"} => sim'.item = "base"
    BY <1>1 DEF OrdersOK
<1> QED
    BY <1>3, <1>4, <1>5, <1>7, <1>8, <1>9, <1>10, <1>11 DEF OrdersOK

\* A step of the simulation, which touches at most the order of its session.
LEMMA OrdersBySim ==
    ASSUME IsTyped, OrdersOK, UNCHANGED run, NEW b \in Sales, b = Bought,
           \A o, p \in orders' : o.by = p.by => o = p,
           \A o \in orders' :
             o \in orders \/ (/\ o.by = b /\ o.source \in {None, "growth_simulation"}
                              /\ o.source = None => o.status # "CAPTURED"
                              /\ Sold(b)'),
           \A s \in Sales : Sold(s) => Sold(s)',
           sim'.pc = "complete" => \A o \in orders' : o.by = Bought' => o.source = "growth_simulation",
           sim'.pc \in {"offer", "accept"} => sim'.item = "base"
    PROVE  OrdersOK'
<1>3. b \notin Runs
    BY BuyersDiffer
<1>4. ASSUME NEW q \in Runs
      PROVE  /\ run'[q].pc \in BeforeOrder => \A o \in orders' : o.by # q
             /\ IsTagged(run'[q]) => \A o \in orders' : o.by = q => o.source = "demo_lab"
  <2>1. \A o \in orders' : o.by = q => o \in orders
    BY <1>3
  <2>2. /\ run[q].pc \in BeforeOrder => \A o \in orders : o.by # q
        /\ IsTagged(run[q]) => \A o \in orders : o.by = q => o.source = "demo_lab"
    BY DEF OrdersOK
  <2> QED
    BY <2>1, <2>2
<1>5. \A o \in orders' : o.source = "demo_lab" => o.by \in Runs
    BY TrustLabConstants DEF OrdersOK
<1>6. \A o \in orders' : o.by \in Sales => Sold(o.by)'
  <2> SUFFICES ASSUME NEW o \in orders', o.by \in Sales PROVE Sold(o.by)'
    OBVIOUS
  <2>1. CASE o \in orders
    <3>1. Sold(o.by)
      BY <2>1 DEF OrdersOK
    <3> QED
      BY <3>1
  <2>2. CASE o.by = b /\ Sold(b)'
    BY <2>2
  <2> QED
    BY <2>1, <2>2
<1>7. \A o \in orders' : o.source = None /\ o.status = "CAPTURED" => o.by \in Customers
    BY DEF OrdersOK
<1> QED
    BY <1>4, <1>5, <1>6, <1>7 DEF OrdersOK

\* What was sold stays sold.
LEMMA StillSold ==
    ASSUME IsTyped, OrdersOK, SimStep \/ SimKilled, NEW s \in Sales, Sold(s)
    PROVE  Sold(s)'
<1>1. SimTyped /\ sim \in SimRecords
    BY TypedParts DEF SimTyped
<1>2. sim.pc # "done" /\ sim.session \in 1..2*Sessions
  <2>1. sim.pc # "done"
    BY SimStepIs, KilledIs
  <2> QED
    BY <1>1, <2>1, BoughtIs DEF SimTyped
<1>3. PICK k \in 1..2*Sessions, i \in {"base", "upsell"} : k = sim.session /\ i = sim.item /\ Bought = <<k, i>>
    BY <1>1, <1>2, BoughtIs DEF SimTyped, Bought
<1>4. PICK a \in 1..2*Sessions, c \in {"base", "upsell"} : s = <<a, c>> /\ s[1] = a /\ s[2] = c
    BY DEF Sales
<1>5. \/ a < k
      \/ a = k /\ c = "base" /\ i = "upsell"
      \/ a = k /\ c = i /\ sim.pc \in {"tag", "complete", "report", "offer", "accept", "done"}
    BY <1>3, <1>4 DEF Sold
<1>6. k \in Nat /\ a \in Nat
    OBVIOUS
<1>7. ASSUME NEW to, Sells(to, sim.session, sim.item),
             sim.pc \in {"tag", "complete", "report", "offer", "accept", "done"} =>
               to \in {"tag", "complete", "report", "offer", "accept", "done"}
      PROVE  Sold(s)'
  <2>1. sim'.pc = to /\ sim'.session = k /\ sim'.item = i /\ Bought' = <<k, i>>
    BY <1>3, <1>7 DEF Sells, Bought
  <2> QED
    BY <1>4, <1>5, <1>7, <2>1 DEF Sold
<1>8. ASSUME NEW from, SimReturns(from) PROVE Sold(s)'
  <2>1. sim'.session = k + 1
    BY <1>3, <1>8 DEF SimReturns, Sells
  <2>2. a < k + 1
    BY <1>5, <1>6
  <2> QED
    BY <1>4, <2>1, <2>2 DEF Sold
<1>9. CASE SimKilled
    BY <1>7, <1>9, KilledIs
<1>10. CASE SimAccepts
  <2>1. i = "base" /\ sim.pc = "accept"
    BY <1>3, <1>10 DEF SimAccepts, OrdersOK
  <2>2. sim'.session = k /\ sim'.item = "upsell"
    BY <1>3, <1>10 DEF SimAccepts, Sells
  <2> QED
    BY <1>4, <1>5, <2>1, <2>2 DEF Sold
<1>11. CASE SimStep
  <2>1. SimDoes
    BY <1>11, SimStepIs
  <2> QED
    BY <1>7, <1>8, <1>10, <2>1 DEF SimDoes, SimStarts, SimProposes, SimTags, SimCompletes,
       SimReports, SimOffers, SimMoves
<1> QED
    BY <1>9, <1>11

\* A step of the simulation keeps the orders.
LEMMA OrdersSimStep ==
    ASSUME IsTyped, OrdersOK, SimStep
    PROVE  OrdersOK'
<1>1. /\ SimTyped /\ sim \in SimRecords /\ orders \subseteq OrderRecords
      /\ \A o, p \in orders : o.by = p.by => o = p
    BY TypedParts DEF SimTyped, ShopTyped, OrdersOK
<1>2. /\ UNCHANGED run /\ SimDoes /\ sim.session \in 1..2*Sessions /\ sim.pc # "done"
    BY SimStepIs
<1>3. PICK b \in Sales : b = Bought /\ b[1] = sim.session /\ b[2] = sim.item
    BY <1>1, <1>2, BoughtIs DEF SimTyped
<1>4. \A s \in Sales : Sold(s) => Sold(s)'
    BY StillSold
<1>5. "growth_simulation" # None
    BY TrustLabConstants
<1>6. CASE /\ UNCHANGED orders /\ sim'.pc # "complete"
           /\ sim'.pc \in {"offer", "accept"} => sim'.item = "base"
    BY <1>1, <1>2, <1>3, <1>4, <1>6, OrdersBySim
<1>7. ASSUME SimProposes, ~UNCHANGED orders
      PROVE  OrdersOK'
  <2>1. SimMoves("propose", "tag") /\ orders' = orders \cup {Order(Bought, None, "CREATED")}
    BY <1>7 DEF SimProposes
  <2>2. sim.pc = "propose" /\ sim'.pc = "tag" /\ Bought' = b
    BY <1>3, <2>1 DEF SimMoves, Sells, Bought
  <2>3. Sold(b)'
    BY <2>2 DEF Sold
  <2>4. ~Sold(b)
    BY <1>2, <1>3, <2>2 DEF Sold
  <2>5. \A o \in orders : o.by # b
    BY <2>4 DEF OrdersOK
  <2>6. PICK p : p = Order(b, None, "CREATED")
    OBVIOUS
  <2>7. p.by = b /\ p.source = None /\ p.status = "CREATED" /\ orders' = orders \cup {p}
    BY <1>3, <2>1, <2>6 DEF Order
  <2>8. /\ \A x, y \in orders' : x.by = y.by => x = y
        /\ \A x \in orders' : x \in orders \/ x = p
    BY <1>1, <2>5, <2>7
  <2> QED
    BY <1>2, <1>3, <1>4, <2>2, <2>3, <2>7, <2>8, OrdersBySim
<1>8. CASE SimTags
  <2>1. PICK o \in orders :
          o.by = Bought /\ Restate(o, [o EXCEPT !.source = "growth_simulation"])
    BY <1>8 DEF SimTags
  <2>2. sim.pc = "tag" /\ sim'.pc = "complete" /\ Bought' = b
    BY <1>3, <1>8 DEF SimTags, SimMoves, Sells, Bought
  <2>3. PICK p : p = [o EXCEPT !.source = "growth_simulation"]
    OBVIOUS
  <2>4. p.by = b /\ p.source = "growth_simulation" /\ o.by = b
    BY <1>1, <1>3, <2>1, <2>3 DEF OrderRecords
  <2>5. /\ \A x, y \in orders' : x.by = y.by => x = y
        /\ \A x \in orders' : x = p \/ (x \in orders /\ x.by # b)
    BY <1>1, <2>1, <2>3, <2>4, Restated
  <2>6. Sold(b)'
    BY <2>2 DEF Sold
  <2> QED
    BY <1>2, <1>3, <1>4, <1>5, <2>2, <2>4, <2>5, <2>6, OrdersBySim
<1>9. CASE SimCompletes
  <2>1. PICK o \in orders : o.by = Bought /\ Restate(o, [o EXCEPT !.status = "CAPTURED"])
    BY <1>9 DEF SimCompletes
  <2>2. sim.pc = "complete" /\ sim'.pc = "report" /\ Bought' = b
    BY <1>3, <1>9 DEF SimCompletes, SimMoves, Sells, Bought
  <2>3. PICK p : p = [o EXCEPT !.status = "CAPTURED"]
    OBVIOUS
  <2>4. o.source = "growth_simulation"
    BY <2>1, <2>2 DEF OrdersOK
  <2>5. p.by = b /\ p.source = "growth_simulation" /\ o.by = b
    BY <1>1, <1>3, <2>1, <2>3, <2>4 DEF OrderRecords
  <2>6. /\ \A x, y \in orders' : x.by = y.by => x = y
        /\ \A x \in orders' : x = p \/ (x \in orders /\ x.by # b)
    BY <1>1, <2>1, <2>3, <2>5, Restated
  <2>7. Sold(b)'
    BY <2>2 DEF Sold
  <2> QED
    BY <1>2, <1>3, <1>4, <1>5, <2>2, <2>5, <2>6, <2>7, OrdersBySim
<1>10. CASE SimOffers
  <2>1. /\ sim'.pc = "accept" => sim'.item = sim.item /\ sim.item = "base"
        /\ sim'.pc \in {"accept", "done", "start"} /\ UNCHANGED orders
    BY <1>10 DEF SimOffers, SimMoves, SimReturns, Sells, OrdersOK
  <2> QED
    BY <1>6, <2>1
<1>11. CASE SimReports
  <2>1. /\ sim'.pc = "offer" => sim'.item = "base"
        /\ sim'.pc \in {"offer", "done", "start"} /\ UNCHANGED orders
    BY <1>11 DEF SimReports, SimMoves, SimReturns, Sells
  <2> QED
    BY <1>6, <2>1
<1>12. CASE \/ SimMoves("seed", "start") /\ UNCHANGED orders
            \/ SimMoves("quote", "propose") /\ UNCHANGED orders
            \/ SimStarts \/ SimAccepts
  <2>1. sim'.pc \in {"start", "propose", "quote", "done"} /\ UNCHANGED orders
    BY <1>12 DEF SimStarts, SimAccepts, SimMoves, SimReturns, Sells
  <2> QED
    BY <1>6, <2>1
<1>13. CASE SimProposes /\ UNCHANGED orders
  <2>1. sim'.pc \in {"start", "tag", "done"}
    BY <1>13 DEF SimProposes, SimMoves, SimReturns, Sells
  <2> QED
    BY <1>6, <1>13, <2>1
<1> QED
    BY <1>2, <1>7, <1>8, <1>9, <1>10, <1>11, <1>12, <1>13 DEF SimDoes

\* What clicks, failures and crashes do to the runs.
LEMMA OthersMove ==
    ASSUME IsTyped, (\E r \in Runs : (\E k \in cast.cards[r] : start_demo_run(r, k)) \/ Fail(r))
                    \/ Crash \/ (\E c \in Customers : Buy(c))
    PROVE  /\ UNCHANGED <<sim, outbox>>
           /\ \A q \in Runs :
                \/ run'[q] = run[q]
                \/ run[q].pc = "none" /\ run'[q].pc = "queued"
                \/ run'[q].pc = "over"
           /\ \/ UNCHANGED <<log, orders>>
              \/ \E c \in Customers : /\ \A o \in orders : o.by # c
                                      /\ orders' = orders \cup {Order(c, None, "CAPTURED")}
                                      /\ Append_(c, <<"catalog.queried", "order.proposed">>)
                                      /\ UNCHANGED run
<1>1. RunsTyped /\ cast \in Casts
    BY TypedParts DEF ShopTyped
<1>2. ASSUME NEW r \in Runs, NEW k \in cast.cards[r], start_demo_run(r, k)
      PROVE  /\ UNCHANGED <<sim, outbox, log, orders>>
             /\ run[r].pc = "none" /\ run'[r].pc = "queued"
             /\ \A q \in Runs \ {r} : run'[q] = run[q]
  <2>1. k \in RUNNABLE_KINDS
    <3>1. cast.cards \in [Runs -> SUBSET RUNNABLE_KINDS]
      BY <1>1, TrustLabConstants, Zenon
    <3> QED
      BY <3>1
  <2>2. UNCHANGED <<sim, outbox, log, orders>>
    BY <1>2 DEF start_demo_run
  <2> QED
    BY <1>1, <1>2, <2>1, <2>2, StartQueues
<1>3. ASSUME NEW r \in Runs, Fail(r)
      PROVE  /\ UNCHANGED <<sim, outbox, log, orders>> /\ run'[r].pc = "over"
             /\ \A q \in Runs \ {r} : run'[q] = run[q]
  <2>1. UNCHANGED <<sim, outbox, log, orders>>
    BY <1>3 DEF Fail
  <2> QED
    BY <1>1, <1>3, <2>1, FailEnds DEF Ends
<1>4. CASE Crash
  <2>1. UNCHANGED <<sim, outbox, log, orders>>
    BY <1>4 DEF Crash
  <2> QED
    BY <1>1, <1>4, <2>1, CrashLoses
<1>5. ASSUME NEW c \in Customers, Buy(c)
      PROVE  /\ UNCHANGED <<sim, outbox, run>> /\ \A o \in orders : o.by # c
             /\ orders' = orders \cup {Order(c, None, "CAPTURED")}
             /\ Append_(c, <<"catalog.queried", "order.proposed">>)
    BY <1>5 DEF Buy
<1>6. CASE \E r \in Runs : \E k \in cast.cards[r] : start_demo_run(r, k)
    BY <1>2, <1>6
<1>7. CASE \E r \in Runs : Fail(r)
    BY <1>3, <1>7
<1>8. CASE \E c \in Customers : Buy(c)
    BY <1>5, <1>8
<1> QED
    BY <1>4, <1>6, <1>7, <1>8

\* Every step keeps the orders.
LEMMA OrdersStep ==
    ASSUME IsTyped, OrdersOK, [Next]_vars
    PROVE  OrdersOK'
<1>1. CASE UNCHANGED vars
    BY <1>1 DEF vars, OrdersOK, Sold, Bought
<1>2. CASE SimKilled
  <2>1. /\ UNCHANGED <<run, orders>> /\ Sells("done", sim.session, sim.item) /\ sim.pc # "done"
    BY <1>2, KilledIs
  <2>2. \A s \in Sales : Sold(s) => Sold(s)'
    BY <1>2, StillSold
  <2>3. SimTyped
    BY TypedParts
  <2>4. PICK b \in Sales : b = Bought
    BY <2>1, <2>3, BoughtIs DEF SimTyped
  <2>5. sim'.pc = "done" /\ \A o, p \in orders : o.by = p.by => o = p
    BY <2>1 DEF Sells, OrdersOK
  <2> QED
    BY <2>1, <2>2, <2>4, <2>5, OrdersBySim
<1>3. CASE (\E r \in Runs : (\E k \in cast.cards[r] : start_demo_run(r, k)) \/ Fail(r))
                    \/ Crash \/ (\E c \in Customers : Buy(c))
    BY <1>3, OthersMove, OrdersOtherStep
<1> QED
    BY <1>1, <1>2, <1>3, OrdersRunStep, OrdersSimStep DEF Next

\* The orders are in order from the beginning.
LEMMA OrdersAlways == Lab => []OrdersOK
<1>1. Init => OrdersOK
  <2> SUFFICES ASSUME Init PROVE OrdersOK
    OBVIOUS
  <2>1. orders = {} /\ sim.pc = "seed"
    BY DEF Init
  <2> QED
    BY <2>1 DEF OrdersOK
<1> QED
    BY <1>1, OrdersStep, TypedAlways, PTL DEF Lab

\* The gross sales count no demonstration: whatever is captured without a tag
\* was bought by a customer, also when what made an order dies before it tags it.
THEOREM GrossSalesAreOrganic == Spec => []SalesAreOrganic
<1>1. IsTyped /\ OrdersOK => SalesAreOrganic
  <2> SUFFICES ASSUME IsTyped, OrdersOK, NEW o \in count_and_sum_captured
               PROVE  o.by \in Customers
    BY DEF SalesAreOrganic, IsTyped
  <2>1. o \in orders /\ o.status = "CAPTURED" /\ o.source = None
    BY DEF count_and_sum_captured
  <2> QED
    BY <2>1 DEF OrdersOK
<1> QED
    BY <1>1, OrdersAlways, TypedAlways, PTL DEF Spec

-----------------------------------------------------------------------------
(* The evidence of a run.                                                  *)

\* A step that moves a run and shows nothing new.
LEMMA EvidenceMoves ==
    ASSUME NEW x \in RunRecords, NEW y \in RunRecords, NEW own, Evidence(x, own),
           y.start = x.start, y.cursor = x.cursor, y.recorded = x.recorded, y.events = x.events,
           y.status = "running",
           own = {} \/ (x.status = "running" /\ HasEntries(y) /\ y.pc # "close")
    PROVE  Evidence(y, own)
BY DEF Evidence

\* A step that writes entries, all after the mark.
LEMMA EvidenceAdds ==
    ASSUME NEW x \in RunRecords, NEW y \in RunRecords, NEW own, NEW own2, NEW n \in Nat,
           Evidence(x, own), own2 \subseteq Nat, \A s \in own2 : s \in own \/ s > n,
           x.cursor <= n, y.start = x.start, y.cursor = x.cursor, y.recorded = x.recorded,
           y.events = x.events, y.status = "running", x.status = "running", HasEntries(y),
           y.pc # "close"
    PROVE  Evidence(y, own2)
<1>1. x.start \in Nat /\ x.cursor \in Nat /\ x.start <= x.cursor
    BY RecordFields DEF Evidence
<1>2. ASSUME NEW s \in own2
      PROVE  s > x.start /\ (s <= x.cursor => s \in Range(x.recorded))
  <2>1. CASE s \in own
    BY <2>1 DEF Evidence
  <2>2. CASE s > n
    BY <1>1, <2>2
  <2> QED
    BY <2>1, <2>2
<1> QED
    BY <1>2 DEF Evidence

\* A sweep: what was recorded, and after it what the chain has after the mark.
LEMMA EvidenceSweeps ==
    ASSUME NEW x \in RunRecords, NEW y \in RunRecords, NEW own, NEW n \in Nat, NEW e,
           Evidence(x, own), own \subseteq 1..n, \A s \in own : Narrated(log[s]),
           x.cursor <= n, IsEmitted(e, x.cursor, n),
           y.start = x.start, y.cursor = n, y.recorded = x.recorded \o e,
           y.events = x.events, y.status = "running", x.status = "running", HasEntries(y)
    PROVE  Evidence(y, own)
<1>1. /\ x.start \in Nat /\ x.cursor \in Nat /\ x.start <= x.cursor /\ x.recorded \in Seq(Nat)
      /\ y.recorded \in Seq(Nat) /\ e \in Seq(Nat)
    BY RecordFields DEF Evidence, IsEmitted
<1>2. PICK a, c : a = x.recorded /\ c = y.recorded
    OBVIOUS
<1>3. AreJoined(a, e, c)
    BY <1>1, <1>2, Concatenated
<1> PICK m, k : m = Len(a) /\ k = Len(e)
    OBVIOUS
<1>4. /\ m \in Nat /\ k \in Nat /\ DOMAIN a = 1..m /\ DOMAIN e = 1..k /\ DOMAIN c = 1..m+k
      /\ \A i \in 1..m : c[i] = a[i] /\ i \in 1..m+k
      /\ \A i \in 1..k : c[m + i] = e[i] /\ m + i \in 1..m+k
      /\ \A s \in 1..m+k : s \in 1..m \/ \E i \in 1..k : s = m + i
  <2>1. /\ m \in Nat /\ k \in Nat /\ Len(c) = m + k
        /\ DOMAIN a = 1..m /\ DOMAIN e = 1..k /\ DOMAIN c = 1..Len(c)
        /\ \A i \in 1..m : c[i] = a[i] /\ i \in 1..Len(c)
        /\ \A i \in 1..k : c[m + i] = e[i] /\ m + i \in 1..Len(c)
        /\ \A s \in 1..Len(c) : s \in 1..m \/ \E i \in 1..k : s = m + i
    BY <1>3, Zenon DEF AreJoined
  <2> QED
    BY <2>1, Zenon
<1>5. /\ \A i \in 1..m : a[i] \in Nat /\ a[i] <= x.cursor
      /\ \A i, j \in 1..m : i < j /\ a[i] # 0 /\ a[j] # 0 => a[i] < a[j]
  <2>1. /\ \A i \in 1..m : a[i] <= x.cursor
        /\ \A i, j \in 1..m : i < j /\ a[i] # 0 /\ a[j] # 0 => a[i] < a[j]
    BY <1>2, <1>4, Zenon DEF Evidence, IsInOrder
  <2>2. \A i \in 1..m : a[i] \in Nat
    BY <1>1, <1>2, <1>4
  <2> QED
    BY <2>1, <2>2, Zenon
<1>6. /\ \A i \in 1..k : e[i] \in x.cursor+1..n
      /\ \A i, j \in 1..k : i < j => e[i] < e[j]
      /\ \A t \in x.cursor+1..n : Narrated(log[t]) => \E i \in 1..k : e[i] = t
    BY <1>4, Zenon DEF IsEmitted
<1>7. ASSUME NEW i \in 1..m+k PROVE c[i] <= n
  <2>1. CASE i \in 1..m
    BY <1>1, <1>4, <1>5, <2>1
  <2>2. ASSUME NEW j \in 1..k, i = m + j PROVE c[i] <= n
    BY <1>1, <1>4, <1>6, <2>2
  <2> QED
    BY <1>4, <2>1, <2>2
<1>8. ASSUME NEW i \in 1..m+k, NEW j \in 1..m+k, i < j, c[i] # 0, c[j] # 0 PROVE c[i] < c[j]
  <2>1. CASE j \in 1..m
    <3>1. i \in 1..m
      BY <1>8, <2>1
    <3> QED
      BY <1>4, <1>5, <1>8, <2>1, <3>1
  <2>2. ASSUME NEW v \in 1..k, j = m + v PROVE c[i] < c[j]
    <3>1. c[j] = e[v] /\ e[v] \in x.cursor+1..n
      BY <1>4, <1>6, <2>2
    <3>2. CASE i \in 1..m
      <4>1. c[i] \in Nat /\ c[i] <= x.cursor
        BY <1>4, <1>5, <3>2
      <4> QED
        BY <1>1, <3>1, <4>1
    <3>3. ASSUME NEW u \in 1..k, i = m + u PROVE c[i] < c[j]
      <4>1. u < v /\ c[i] = e[u]
        BY <1>4, <1>8, <2>2, <3>3
      <4>2. e[u] < e[v]
        BY <1>6, <4>1
      <4> QED
        BY <3>1, <4>1, <4>2
    <3> QED
      BY <1>4, <3>2, <3>3
  <2> QED
    BY <1>4, <2>1, <2>2
<1>9. ASSUME NEW s \in own PROVE s > x.start /\ s <= n /\ s \in Range(c)
  <2>1. /\ s > x.start /\ s \in Nat /\ s <= n /\ Narrated(log[s])
        /\ s <= x.cursor => s \in Range(a)
    BY <1>2 DEF Evidence
  <2>2. CASE s <= x.cursor
    <3>1. PICK i \in 1..m : a[i] = s
      BY <1>4, <2>1, <2>2 DEF Range
    <3>2. c[i] = s /\ i \in DOMAIN c
      BY <1>4, <3>1
    <3> QED
      BY <2>1, <3>2 DEF Range
  <2>3. CASE ~(s <= x.cursor)
    <3>1. s \in x.cursor+1..n
      BY <1>1, <2>1, <2>3
    <3>2. PICK i \in 1..k : e[i] = s
      BY <1>6, <2>1, <3>1
    <3>3. c[m + i] = s /\ m + i \in DOMAIN c
      BY <1>4, <3>2
    <3> QED
      BY <2>1, <3>3 DEF Range
  <2> QED
    BY <2>2, <2>3
<1>10. IsInOrder(c) /\ \A i \in DOMAIN c : c[i] <= n
    BY <1>4, <1>7, <1>8 DEF IsInOrder
<1>11. IsInOrder(x.events) /\ x.start <= n
    BY <1>1 DEF Evidence
<1> QED
    BY <1>2, <1>9, <1>10, <1>11 DEF Evidence

\* A run without events, and one that ends.
LEMMA EvidenceEnds ==
    ASSUME NEW x \in RunRecords, NEW y \in RunRecords, NEW own, Evidence(x, own),
           y.pc = "over", y.start = 0, y.cursor = 0, y.recorded = <<>>,
           y.status \in {"passed", "failed"}, y.events = x.recorded, y.kind = x.kind,
           y.status = "passed" =>
             /\ x.status = "running" /\ x.pc = "close"
             /\ x.kind # "verify_chain" => own \subseteq y.span[1]..y.span[2]
    PROVE  Evidence(y, own)
<1>1. IsInOrder(<<>>) /\ \A i \in DOMAIN <<>> : <<>>[i] <= 0
    BY DEF IsInOrder
<1>2. IsInOrder(x.recorded)
    BY DEF Evidence
<1>3. HasEntries(y)
    BY DEF HasEntries
<1>4. y.status = "passed" => \A s \in own : s \in Range(x.recorded)
    BY DEF Evidence
<1> QED
    BY <1>1, <1>2, <1>3, <1>4 DEF Evidence

\* A record that shows nothing needs nothing of its own in the chain.
LEMMA EvidenceEmpty ==
    ASSUME NEW y \in RunRecords, NEW own, y.start = 0, y.cursor = 0, y.recorded = <<>>,
           y.events = <<>>,
           (y.pc = "over" /\ y.status = "lost") \/ (y.pc = "queued" /\ y.status = "queued" /\ own = {})
             \/ (y.pc = "none" /\ y.status = "none" /\ own = {})
    PROVE  Evidence(y, own)
<1>1. IsInOrder(<<>>) /\ \A i \in DOMAIN <<>> : <<>>[i] <= 0
    BY DEF IsInOrder
<1> QED
    BY <1>1 DEF Evidence, HasEntries

\* Entries that others write are not the run's own.
LEMMA OwnStays ==
    ASSUME log \in Logs, NEW q \in Runs, \A s \in Own(q) : Narrated(log[s]),
           \/ UNCHANGED log
           \/ \E who \in Runs \cup Customers \cup {Sim} : \E actions \in Seq(AuditActions) :
                who # q /\ Append_(who, actions)
    PROVE  Own(q)' = Own(q) /\ \A s \in Own(q) : Narrated(log'[s])
<1>1. CASE UNCHANGED log
    BY <1>1 DEF Own
<1>2. ASSUME NEW who \in Runs \cup Customers \cup {Sim}, NEW actions \in Seq(AuditActions),
             who # q, Append_(who, actions)
      PROVE  Own(q)' = Own(q) /\ \A s \in Own(q) : Narrated(log'[s])
  <2>1. PICK l : l = log'
    OBVIOUS
  <2>2. /\ DOMAIN log = 1..Len(log) /\ DOMAIN l = 1..Len(l) /\ Len(log) \in Nat /\ Len(l) \in Nat
        /\ Len(l) = Len(log) + Len(actions) /\ Len(actions) \in Nat
        /\ \A s \in 1..Len(log) : l[s] = log[s]
        /\ \A i \in 1..Len(actions) : l[Len(log) + i].by = who
        /\ \A s \in 1..Len(l) : s \in 1..Len(log) \/ \E i \in 1..Len(actions) : s = Len(log) + i
    <3>1. Len(actions) \in Nat
      OBVIOUS
    <3> QED
      BY <1>2, <2>1, <3>1, Appends
  <2>3. Own(q)' = {s \in DOMAIN l : l[s].by = q}
    BY <2>1 DEF Own
  <2>4. ASSUME NEW s \in DOMAIN l, l[s].by = q PROVE s \in DOMAIN log /\ l[s] = log[s]
    BY <1>2, <2>2, <2>4
  <2>5. ASSUME NEW s \in DOMAIN log PROVE s \in DOMAIN l /\ l[s] = log[s]
    BY <2>2
  <2>6. Own(q)' = Own(q)
    BY <2>3, <2>4, <2>5 DEF Own
  <2>7. \A s \in Own(q) : l[s] = log[s]
    BY <2>5 DEF Own
  <2> QED
    BY <2>1, <2>6, <2>7
<1> QED
    BY <1>1, <1>2

\* Those it writes itself come after the end of the chain.
LEMMA OwnGrows ==
    ASSUME log \in Logs, NEW r \in Runs, \A s \in Own(r) : Narrated(log[s]),
           NEW actions \in Seq(AuditActions),
           \A i \in 1..Len(actions) : actions[i] # "catalog.queried", Append_(r, actions)
    PROVE  /\ Own(r)' \subseteq Nat /\ Len(log) \in Nat
           /\ \A s \in Own(r)' : (s \in Own(r) \/ s > Len(log)) /\ Narrated(log'[s])
<1>1. PICK l : l = log'
    OBVIOUS
<1>2. /\ DOMAIN log = 1..Len(log) /\ DOMAIN l = 1..Len(l) /\ Len(log) \in Nat /\ Len(l) \in Nat
      /\ \A s \in 1..Len(log) : l[s] = log[s]
      /\ \A i \in 1..Len(actions) : l[Len(log) + i].action = actions[i]
      /\ \A s \in 1..Len(l) : s \in 1..Len(log) \/ \E i \in 1..Len(actions) : s = Len(log) + i
    BY <1>1, Appends
<1>3. Own(r)' = {s \in DOMAIN l : l[s].by = r}
    BY <1>1 DEF Own
<1>4. Own(r)' \subseteq Nat
    BY <1>2, <1>3
<1>5. ASSUME NEW s \in DOMAIN l, l[s].by = r
      PROVE  (s \in Own(r) \/ s > Len(log)) /\ Narrated(l[s])
  <2>1. CASE s \in 1..Len(log)
    <3>1. s \in Own(r) /\ l[s] = log[s]
      BY <1>2, <1>5, <2>1 DEF Own
    <3> QED
      BY <3>1
  <2>2. ASSUME NEW i \in 1..Len(actions), s = Len(log) + i
        PROVE  (s \in Own(r) \/ s > Len(log)) /\ Narrated(l[s])
    <3>1. l[s].action = actions[i] /\ actions[i] \in AuditActions /\ actions[i] # "catalog.queried"
      BY <1>2, <2>2
    <3>2. Narrated(l[s])
      BY <3>1 DEF Narrated, AuditActions
    <3>3. s > Len(log)
      BY <1>2, <2>2
    <3> QED
      BY <3>2, <3>3
  <2> QED
    BY <1>2, <2>1, <2>2
<1> QED
    BY <1>1, <1>2, <1>3, <1>4, <1>5

\* Another's step, or nobody's.
LEMMA EvidenceStays ==
    ASSUME log \in Logs, NEW q \in Runs, EvidenceOK(q), run'[q] = run[q],
           \/ UNCHANGED log
           \/ \E who \in Runs \cup Customers \cup {Sim} : \E actions \in Seq(AuditActions) :
                who # q /\ Append_(who, actions)
    PROVE  EvidenceOK(q)'
<1>1. (\A s \in Own(q) : Narrated(log[s])) /\ Evidence(run[q], Own(q))
    BY DEF EvidenceOK
<1>2. Own(q)' = Own(q) /\ \A s \in Own(q) : Narrated(log'[s])
    BY <1>1, OwnStays
<1> QED
    BY <1>1, <1>2 DEF EvidenceOK

\* From where a run has entries it goes on to where it has.
LEMMA EntryPlaces ==
    ASSUME IsTyped, NEW r \in Runs, RunStep(r),
           ~Execute(r), ~Open(r), ~_seed_item(r), ~Tail_(r)
    PROVE  /\ HasEntries(run'[r])
           /\ run'[r].pc = "close" => run[r].pc \in {"sweep_end", "verify"}
<1>1. RunsTyped /\ ShopTyped /\ log \in Logs
    BY TypedParts DEF ShopTyped
<1>2. CASE Close(r)
  <2>1. run'[r].pc = "over"
    BY <1>1, <1>2, CloseEnds DEF Ends, Logs
  <2> QED
    BY <2>1 DEF HasEntries
<1>3. ASSUME ~Close(r)
      PROVE  /\ run[r].pc \notin {"none", "queued", "over", "close", "open", "seed", "tail"}
             /\ run[r].kind \in {"stale_price", "declined", "llm_down", "verify_chain"}
             /\ run[r].pc \in Steps(run[r].kind)
  <2>1. run[r].pc \notin {"none", "queued", "over", "close", "open", "seed", "tail"}
    BY <1>3 DEF RunStep, Quote, Mutate, Hash, Propose, set_source, Complete,
       _sweep_new_audit_entries, Verify, At
  <2> QED
    BY <1>1, <2>1, Running DEF RUNNABLE_KINDS
<1>4. ASSUME ~Close(r), run'[r].pc = Following(r)
      PROVE  /\ HasEntries(run'[r])
             /\ run'[r].pc = "close" => run[r].pc \in {"sweep_end", "verify"}
  <2>1. CASE run[r].kind \in {"declined", "llm_down"}
    BY <1>3, <1>4, <2>1, SettlePlaces DEF HasEntries
  <2>2. CASE run[r].kind = "stale_price"
    BY <1>3, <1>4, <2>2, StalePlaces DEF HasEntries
  <2>3. CASE run[r].kind = "verify_chain"
    BY <1>3, <1>4, <2>3, VerifyPlaces DEF HasEntries
  <2> QED
    BY <1>3, <1>4, <2>1, <2>2, <2>3
<1>5. CASE Propose(r)
  <2>1. ~Close(r)
    BY <1>5 DEF Propose, Close, At
  <2>2. CASE run'[r].pc \in {"sweep_end", "requote"}
    BY <2>2 DEF HasEntries
  <2> QED
    BY <1>1, <1>4, <1>5, <2>1, <2>2, ProposeGoes
<1>6. CASE _sweep_new_audit_entries(r)
  <2>1. ~Close(r)
    BY <1>6 DEF _sweep_new_audit_entries, Close, At
  <2> QED
    BY <1>1, <1>4, <1>6, <2>1, SweepGoes DEF Logs, Goes
<1>7. CASE Quote(r) \/ Mutate(r) \/ Hash(r) \/ set_source(r) \/ Complete(r) \/ Verify(r)
  <2>1. ~Close(r)
    BY <1>7 DEF Quote, Mutate, Hash, set_source, Complete, Verify, Close, At
  <2>2. run'[r].pc = Following(r)
    BY <1>1, <1>7, PlainGoes DEF ShopTyped, Goes
  <2> QED
    BY <1>4, <2>1, <2>2
<1> QED
    BY <1>2, <1>5, <1>6, <1>7 DEF RunStep

\* What a run writes, _emit_events_for_entries has a branch for.
IsShown(actions) ==
    actions \in Seq(AuditActions) /\ \A i \in 1..Len(actions) : actions[i] # "catalog.queried"

\* What a run appends is narrated.
LEMMA OwnActions ==
    /\ IsShown(<<"quote.issued">>) /\ IsShown(<<"catalog.price_mutated">>)
    /\ IsShown(<<"order.proposed">>)
    /\ IsShown(<<"order.proposed", "budget.reserved", "payment.intent">>)
    /\ \A a \in {"settlement.closed", "compensation.applied"} : IsShown(<<"payment.result", a>>)
<1> DEFINE S == AuditActions \ {"catalog.queried"}
<1>1. ASSUME NEW a \in S, NEW b \in S, NEW c \in S
      PROVE  IsShown(<<a>>) /\ IsShown(<<a, b>>) /\ IsShown(<<a, b, c>>)
  <2>1. a \in AuditActions /\ b \in AuditActions /\ c \in AuditActions
        /\ a # "catalog.queried" /\ b # "catalog.queried" /\ c # "catalog.queried"
    OBVIOUS
  <2>2. IsShown(<<a>>)
    BY <2>1, ShortSequences DEF IsShown
  <2>3. IsShown(<<a, b>>)
    BY <2>1, ShortSequences DEF IsShown
  <2>4. IsShown(<<a, b, c>>)
    BY <2>1, ShortSequences DEF IsShown
  <2> QED
    BY <2>2, <2>3, <2>4
<1>2. /\ "quote.issued" \in S /\ "catalog.price_mutated" \in S /\ "order.proposed" \in S
      /\ "budget.reserved" \in S /\ "payment.intent" \in S /\ "payment.result" \in S
      /\ "settlement.closed" \in S /\ "compensation.applied" \in S
    BY DEF AuditActions
<1> HIDE DEF S
<1> QED
    BY <1>1, <1>2

\* A run's own step.
LEMMA EvidenceOwnStep ==
    ASSUME IsTyped, NEW r \in Runs, EvidenceOK(r), RunStep(r)
    PROVE  EvidenceOK(r)'
<1>1. RunsTyped /\ ShopTyped /\ log \in Logs
    BY TypedParts DEF ShopTyped
<1>2. /\ \A s \in Own(r) : Narrated(log[s])
      /\ Evidence(run[r], Own(r))
    BY DEF EvidenceOK
<1>3. run[r] \in RunRecords /\ run[r].cursor <= Len(log) /\ Len(log) \in Nat
    BY <1>1 DEF RunsTyped, Logs
<1>4. ASSUME UNCHANGED log, Evidence(run'[r], Own(r)) PROVE EvidenceOK(r)'
  <2>1. Own(r)' = Own(r) /\ \A s \in Own(r) : Narrated(log'[s])
    BY <1>1, <1>2, <1>4, OwnStays
  <2> QED
    BY <1>4, <2>1 DEF EvidenceOK
<1>5. ASSUME ~HasEntries(run[r]) PROVE Own(r) = {}
    BY <1>2, <1>5 DEF Evidence
<1>6. ASSUME run[r].pc \notin {"none", "queued", "over"} PROVE run[r].status = "running"
    BY <1>1, <1>6, Running
<1>7. CASE Execute(r)
  <2>1. /\ run'[r] \in RunRecords /\ run'[r].start = run[r].start /\ run'[r].cursor = run[r].cursor
        /\ run'[r].recorded = run[r].recorded /\ run'[r].events = run[r].events
        /\ run'[r].status = "running" /\ run[r].pc = "queued"
    BY <1>1, <1>7, ExecuteGoes DEF Goes
  <2>2. UNCHANGED log /\ Own(r) = {}
    BY <1>5, <1>7, <2>1 DEF Execute, HasEntries
  <2> QED
    BY <1>2, <1>3, <1>4, <2>1, <2>2, EvidenceMoves
<1>8. CASE Open(r)
  <2>1. /\ run'[r] \in RunRecords /\ run'[r].start = Len(log) /\ run'[r].cursor = Len(log)
        /\ run'[r].recorded = run[r].recorded /\ run'[r].events = run[r].events
        /\ run'[r].status = "running"
    BY <1>1, <1>8, OpenGoes DEF Goes, Logs
  <2>2. UNCHANGED log /\ run[r].pc = "open"
    BY <1>8 DEF Open, At
  <2>3. Own(r) = {}
    BY <1>5, <2>2 DEF HasEntries
  <2>4. run[r].cursor \in Nat /\ run[r].recorded \in Seq(Nat)
    BY <1>3, RecordFields
  <2>5. /\ IsInOrder(run[r].recorded) /\ IsInOrder(run[r].events)
        /\ \A i \in DOMAIN run[r].recorded : run[r].recorded[i] <= run[r].cursor
    BY <1>2 DEF Evidence
  <2>6. \A i \in DOMAIN run[r].recorded : run[r].recorded[i] <= Len(log)
    BY <1>3, <2>4, <2>5
  <2>7. Evidence(run'[r], Own(r))
    BY <1>3, <2>1, <2>3, <2>5, <2>6 DEF Evidence
  <2> QED
    BY <1>4, <2>2, <2>7
<1>9. CASE _seed_item(r)
  <2>1. /\ run'[r] \in RunRecords /\ run'[r].start = run[r].start /\ run'[r].cursor = run[r].cursor
        /\ run'[r].recorded = Opening(run[r].kind) /\ run'[r].events = run[r].events
        /\ run'[r].status = "running"
    BY <1>1, <1>9, SeedGoes DEF Goes
  <2>2. UNCHANGED log /\ run[r].pc = "seed"
    BY <1>9 DEF _seed_item, At
  <2>3. Own(r) = {}
    BY <1>5, <2>2 DEF HasEntries
  <2>4. PICK o : o = Opening(run[r].kind) /\ \A i \in DOMAIN o : o[i] = 0
    BY OpeningIs
  <2>5. run[r].cursor \in Nat
    BY <1>3, RecordFields
  <2>6. IsInOrder(o) /\ \A i \in DOMAIN o : o[i] <= run[r].cursor
    BY <2>4, <2>5 DEF IsInOrder
  <2>7. Evidence(run'[r], Own(r))
    BY <1>2, <2>1, <2>3, <2>4, <2>6 DEF Evidence
  <2> QED
    BY <1>4, <2>2, <2>7
<1>10. ASSUME NEW actions, IsShown(actions), Append_(r, actions), NEW pc,
              Goes(r, pc, run[r].start, run[r].cursor, run[r].recorded, run[r].span),
              run[r].status = "running", HasEntries(run'[r]), run'[r].pc # "close"
       PROVE  EvidenceOK(r)'
  <2>1. /\ Own(r)' \subseteq Nat
        /\ \A s \in Own(r)' : (s \in Own(r) \/ s > Len(log)) /\ Narrated(log'[s])
    BY <1>1, <1>2, <1>10, OwnGrows DEF IsShown
  <2>2. /\ run'[r] \in RunRecords /\ run'[r].start = run[r].start /\ run'[r].cursor = run[r].cursor
        /\ run'[r].recorded = run[r].recorded /\ run'[r].events = run[r].events
        /\ run'[r].status = "running"
    BY <1>10 DEF Goes
  <2>3. Evidence(run'[r], Own(r)')
    BY <1>2, <1>3, <1>10, <2>1, <2>2, EvidenceAdds
  <2> QED
    BY <2>1, <2>3 DEF EvidenceOK
<1>11. ASSUME NEW pc, UNCHANGED log,
              Goes(r, pc, run[r].start, run[r].cursor, run[r].recorded, run'[r].span),
              Own(r) = {} \/ (run[r].status = "running" /\ HasEntries(run'[r]) /\ run'[r].pc # "close")
       PROVE  EvidenceOK(r)'
  <2>1. /\ run'[r] \in RunRecords /\ run'[r].start = run[r].start /\ run'[r].cursor = run[r].cursor
        /\ run'[r].recorded = run[r].recorded /\ run'[r].events = run[r].events
        /\ run'[r].status = "running"
    BY <1>11 DEF Goes
  <2> QED
    BY <1>2, <1>3, <1>4, <1>11, <2>1, EvidenceMoves
<1>12. ASSUME run[r].pc \notin {"none", "queued", "over", "open", "seed", "tail", "sweep_end",
                                "verify", "close"}
       PROVE  run[r].status = "running" /\ HasEntries(run'[r]) /\ run'[r].pc # "close"
  <2>1. ~Execute(r) /\ ~Open(r) /\ ~_seed_item(r) /\ ~Tail_(r)
    BY <1>12 DEF Execute, Open, _seed_item, Tail_, At
  <2> QED
    BY <1>6, <1>12, <2>1, EntryPlaces
<1>13. CASE Quote(r) \/ Mutate(r) \/ Complete(r)
  <2>1. run[r].pc \in {"quote", "requote", "mutate", "complete"}
    BY <1>13 DEF Quote, Mutate, Complete, At
  <2>2. Goes(r, Following(r), run[r].start, run[r].cursor, run[r].recorded, run[r].span)
    BY <1>1, <1>13, PlainGoes DEF ShopTyped
  <2>3. PICK actions : IsShown(actions) /\ Append_(r, actions)
    <3>1. CASE Quote(r)
      BY <3>1, OwnActions DEF Quote
    <3>2. CASE Mutate(r)
      BY <3>2, OwnActions DEF Mutate
    <3>3. CASE Complete(r)
      <4>1. PICK a \in {"settlement.closed", "compensation.applied"} :
              Append_(r, <<"payment.result", a>>)
        <5>1. CASE PaymentStatus(run[r].kind) = "CAPTURED"
          BY <3>3, <5>1 DEF Complete
        <5>2. CASE PaymentStatus(run[r].kind) # "CAPTURED"
          BY <3>3, <5>2 DEF Complete
        <5> QED
          BY <5>1, <5>2
      <4> QED
        BY <4>1, OwnActions
    <3> QED
      BY <1>13, <3>1, <3>2, <3>3
  <2> QED
    BY <1>10, <1>12, <2>1, <2>2, <2>3
<1>14. CASE Hash(r) \/ set_source(r)
  <2>1. run[r].pc \in {"hash", "tag"} /\ UNCHANGED log
    BY <1>14 DEF Hash, set_source, At
  <2>2. Goes(r, Following(r), run[r].start, run[r].cursor, run[r].recorded, run[r].span)
    BY <1>1, <1>14, PlainGoes DEF ShopTyped
  <2>3. run'[r].span = run[r].span
    BY <2>2 DEF Goes
  <2> QED
    BY <1>11, <1>12, <2>1, <2>2, <2>3
<1>15. CASE Verify(r)
  <2>1. run[r].pc = "verify" /\ UNCHANGED log
    BY <1>15 DEF Verify, At
  <2>2. Goes(r, Following(r), run[r].start, run[r].cursor, run[r].recorded, run[r].span)
    BY <1>1, <1>15, PlainGoes DEF ShopTyped
  <2>3. run'[r].span = run[r].span /\ Own(r) = {}
    BY <1>5, <2>1, <2>2 DEF Goes, HasEntries
  <2> QED
    BY <1>11, <2>1, <2>2, <2>3
<1>16. CASE Tail_(r)
  <2>1. /\ run[r].pc = "tail"
        /\ Goes(r, run'[r].pc, run[r].start, run[r].cursor, run[r].recorded, run'[r].span)
    BY <1>1, <1>16, TailGoes DEF Logs
  <2>2. UNCHANGED log /\ Own(r) = {}
    BY <1>5, <1>16, <2>1 DEF Tail_, HasEntries
  <2> QED
    BY <1>11, <2>1, <2>2
<1>17. CASE Propose(r)
  <2>1. /\ run[r].pc = "propose"
        /\ Goes(r, run'[r].pc, run[r].start, run[r].cursor, run[r].recorded, run[r].span)
        /\ \/ UNCHANGED log
           \/ Append_(r, <<"order.proposed">>)
           \/ Append_(r, <<"order.proposed", "budget.reserved", "payment.intent">>)
    BY <1>1, <1>17, ProposeGoes
  <2>2. run'[r].span = run[r].span
    BY <2>1 DEF Goes
  <2> QED
    BY <1>10, <1>11, <1>12, <2>1, <2>2, OwnActions
<1>18. CASE _sweep_new_audit_entries(r)
  <2>1. /\ run[r].pc \in {"sweep_quote", "sweep_mutate", "sweep_order", "sweep_end"}
        /\ UNCHANGED log
    BY <1>18 DEF _sweep_new_audit_entries
  <2>2. PICK e : e = _emit_events_for_entries(run[r].cursor, Len(log))
    OBVIOUS
  <2>3. IsEmitted(e, run[r].cursor, Len(log))
        /\ Goes(r, Following(r), run[r].start, Len(log), run[r].recorded \o e, run[r].span)
    BY <1>1, <1>18, <2>2, SweepGoes DEF Logs
  <2>4. /\ run'[r] \in RunRecords /\ run'[r].start = run[r].start /\ run'[r].cursor = Len(log)
        /\ run'[r].recorded = run[r].recorded \o e /\ run'[r].events = run[r].events
        /\ run'[r].status = "running"
    BY <2>3 DEF Goes
  <2>5. HasEntries(run'[r]) /\ run[r].status = "running"
    <3>1. ~Execute(r) /\ ~Open(r) /\ ~_seed_item(r) /\ ~Tail_(r)
      BY <2>1 DEF Execute, Open, _seed_item, Tail_, At
    <3> QED
      BY <1>6, <2>1, <3>1, EntryPlaces
  <2>6. Own(r) \subseteq 1..Len(log)
    BY <1>1 DEF Own, Logs
  <2>7. PICK n \in Nat : n = Len(log)
    BY <1>3
  <2>8. Evidence(run'[r], Own(r))
    BY <1>2, <1>3, <2>3, <2>4, <2>5, <2>6, <2>7, EvidenceSweeps
  <2> QED
    BY <1>4, <2>1, <2>8
<1>19. CASE Close(r)
  <2>1. /\ run[r].pc = "close" /\ Ends(r, "passed", run[r].recorded, run'[r].span)
        /\ run[r].kind # "verify_chain" => run'[r].span = <<run[r].start + 1, Len(log)>>
    BY <1>1, <1>19, CloseEnds DEF Logs
  <2>2. UNCHANGED log /\ run[r].status = "running"
    BY <1>6, <1>19, <2>1 DEF Close
  <2>3. /\ run'[r] \in RunRecords /\ run'[r].pc = "over" /\ run'[r].start = 0 /\ run'[r].cursor = 0
        /\ run'[r].recorded = <<>> /\ run'[r].events = run[r].recorded
        /\ run'[r].status = "passed" /\ run'[r].kind = run[r].kind
    BY <2>1 DEF Ends
  <2>4. run[r].kind # "verify_chain" => Own(r) \subseteq run'[r].span[1]..run'[r].span[2]
    <3> SUFFICES ASSUME run[r].kind # "verify_chain", NEW s \in Own(r)
                 PROVE  s \in run'[r].span[1]..run'[r].span[2]
      OBVIOUS
    <3>1. s \in 1..Len(log) /\ s > run[r].start
      BY <1>1, <1>2, <2>2 DEF Own, Logs, Evidence
    <3>2. run[r].start \in Nat
      BY <1>3, RecordFields
    <3>3. run'[r].span[1] = run[r].start + 1 /\ run'[r].span[2] = Len(log)
      BY <2>1
    <3> QED
      BY <1>3, <3>1, <3>2, <3>3
  <2>5. Evidence(run'[r], Own(r))
    BY <1>2, <1>3, <2>1, <2>2, <2>3, <2>4, EvidenceEnds
  <2> QED
    BY <1>4, <2>2, <2>5
<1> QED
    BY <1>7, <1>8, <1>9, <1>13, <1>14, <1>15, <1>16, <1>17, <1>18, <1>19 DEF RunStep

\* Every step keeps the evidence of every run.
LEMMA EvidenceStep ==
    ASSUME IsTyped, \A q \in Runs : EvidenceOK(q), [Next]_vars
    PROVE  \A q \in Runs : EvidenceOK(q)'
<1> SUFFICES ASSUME NEW q \in Runs PROVE EvidenceOK(q)'
    OBVIOUS
<1>1. RunsTyped /\ ShopTyped /\ log \in Logs /\ EvidenceOK(q) /\ cast \in Casts
    BY TypedParts DEF ShopTyped
<1>2. /\ \A s \in Own(q) : Narrated(log[s])
      /\ Evidence(run[q], Own(q)) /\ run[q] \in RunRecords
    BY <1>1 DEF EvidenceOK, RunsTyped
<1>3. ASSUME UNCHANGED log, Evidence(run'[q], Own(q)) PROVE EvidenceOK(q)'
  <2>1. Own(q)' = Own(q) /\ \A s \in Own(q) : Narrated(log'[s])
    BY <1>1, <1>2, <1>3, OwnStays
  <2> QED
    BY <1>3, <2>1 DEF EvidenceOK
<1>4. ASSUME NEW r \in Runs, RunStep(r) PROVE EvidenceOK(q)'
  <2>1. CASE q = r
    BY <1>1, <1>4, <2>1, EvidenceOwnStep
  <2>2. CASE q # r
    <3>1. run'[q] = run[q]
      BY <1>4, <2>2, RunStepMoves
    <3>2. UNCHANGED log \/ \E actions \in Seq(AuditActions) : Append_(r, actions)
      BY <1>4, RunStepShop DEF RunShop
    <3> QED
      BY <1>1, <2>2, <3>1, <3>2, EvidenceStays
  <2> QED
    BY <2>1, <2>2
<1>5. ASSUME NEW r \in Runs, NEW k \in cast.cards[r], start_demo_run(r, k)
      PROVE  EvidenceOK(q)'
  <2>1. k \in RUNNABLE_KINDS
    <3>1. cast.cards \in [Runs -> SUBSET RUNNABLE_KINDS]
      BY <1>1, TrustLabConstants, Zenon
    <3> QED
      BY <3>1
  <2>2. /\ run' \in [Runs -> RunRecords] /\ \A p \in Runs \ {r} : run'[p] = run[p]
        /\ run[r].pc = "none" /\ run'[r].pc = "queued" /\ run'[r].status = "queued"
        /\ run'[r].start = 0 /\ run'[r].cursor = 0
        /\ run'[r].recorded = <<>> /\ run'[r].events = <<>>
    BY <1>1, <1>5, <2>1, StartQueues
  <2>3. UNCHANGED log
    BY <1>5 DEF start_demo_run
  <2>4. CASE q = r
    <3>1. Own(q) = {}
      BY <1>2, <2>2, <2>4 DEF Evidence, HasEntries
    <3>2. Evidence(run'[q], Own(q))
      BY <2>2, <2>4, <3>1, EvidenceEmpty
    <3> QED
      BY <1>3, <2>3, <3>2
  <2>5. CASE q # r
    BY <1>1, <2>2, <2>3, <2>5, EvidenceStays
  <2> QED
    BY <2>4, <2>5
<1>6. ASSUME NEW r \in Runs, Fail(r) PROVE EvidenceOK(q)'
  <2>1. Ends(r, "failed", run[r].recorded, run[r].span)
    BY <1>1, <1>6, FailEnds
  <2>2. /\ run' \in [Runs -> RunRecords] /\ \A p \in Runs \ {r} : run'[p] = run[p]
        /\ run'[r].pc = "over" /\ run'[r].start = 0 /\ run'[r].cursor = 0
        /\ run'[r].recorded = <<>> /\ run'[r].events = run[r].recorded
        /\ run'[r].status = "failed" /\ run'[r].kind = run[r].kind
    BY <2>1 DEF Ends
  <2>3. UNCHANGED log
    BY <1>6 DEF Fail
  <2>4. CASE q = r
    <3>1. Evidence(run'[q], Own(q))
      BY <1>2, <2>2, <2>4, EvidenceEnds
    <3> QED
      BY <1>3, <2>3, <3>1
  <2>5. CASE q # r
    BY <1>1, <2>2, <2>3, <2>5, EvidenceStays
  <2> QED
    BY <2>4, <2>5
<1>7. CASE Crash
  <2>1. UNCHANGED log
    BY <1>7 DEF Crash
  <2>2. run' \in [Runs -> RunRecords]
    BY <1>1, <1>7, CrashLoses
  <2>3. \/ run'[q] = run[q]
        \/ /\ run'[q].pc = "over" /\ run'[q].status = "lost"
           /\ run'[q].start = 0 /\ run'[q].cursor = 0 /\ run'[q].recorded = <<>>
           /\ run'[q].events = <<>>
    BY <1>1, <1>7, CrashLoses
  <2>4. Evidence(run'[q], Own(q))
    BY <1>2, <2>2, <2>3, EvidenceEmpty
  <2> QED
    BY <1>3, <2>1, <2>4
<1>8. ASSUME NEW c \in Customers, Buy(c) PROVE EvidenceOK(q)'
  <2>1. UNCHANGED run /\ Append_(c, <<"catalog.queried", "order.proposed">>)
    BY <1>8 DEF Buy
  <2>2. c # q
    BY BuyersDiffer
  <2> QED
    BY <1>1, <2>1, <2>2, ActionsTyped, EvidenceStays
<1>9. CASE SimStep
  <2>1. /\ UNCHANGED run
        /\ UNCHANGED log \/ \E actions \in Seq(AuditActions) : Append_(Sim, actions)
    BY <1>9, SimStepIs
  <2>2. Sim # q
    BY TrustLabConstants
  <2> QED
    BY <1>1, <2>1, <2>2, EvidenceStays
<1>10. CASE SimKilled \/ UNCHANGED vars
  <2>1. UNCHANGED <<run, log>>
    BY <1>10, KilledIs DEF vars
  <2> QED
    BY <1>1, <2>1, EvidenceStays
<1> QED
    BY <1>4, <1>5, <1>6, <1>7, <1>8, <1>9, <1>10 DEF Next

\* A run that passed shows each of its own audit entries, once and in order,
\* within the span of the chain it verified: whatever other runs, customers and
\* the simulation append meanwhile, for any number of them.
THEOREM EvidenceStaysComplete == Spec => []EvidenceIsComplete
<1> DEFINE I == \A q \in Runs : EvidenceOK(q)
<1>1. Init => I
  <2> SUFFICES ASSUME Init, NEW q \in Runs PROVE EvidenceOK(q)
    OBVIOUS
  <2>1. run[q] = NewRun /\ log = <<>> /\ NewRun \in RunRecords
    BY NewAndLost DEF Init
  <2>2. Own(q) = {}
    BY <2>1 DEF Own
  <2>3. /\ NewRun.start = 0 /\ NewRun.cursor = 0 /\ NewRun.recorded = <<>> /\ NewRun.events = <<>>
        /\ NewRun.pc = "none" /\ NewRun.status = "none"
    BY DEF NewRun
  <2>4. Evidence(run[q], Own(q))
    BY <2>1, <2>2, <2>3, EvidenceEmpty
  <2> QED
    BY <2>2, <2>4 DEF EvidenceOK
<1>2. IsTyped /\ I /\ [Next]_vars => I'
    BY EvidenceStep
<1>3. I => EvidenceIsComplete
  <2> SUFFICES ASSUME NEW r \in Runs, EvidenceOK(r)
               PROVE  /\ IsInOrder(demo_run_json(r).events)
                      /\ demo_run_json(r).status = "passed" /\ run[r].kind # "verify_chain" =>
                           /\ Own(r) \subseteq Range(demo_run_json(r).events)
                           /\ Own(r) \subseteq demo_run_json(r).span[1]..demo_run_json(r).span[2]
    BY DEF EvidenceIsComplete
  <2>1. /\ demo_run_json(r).events = run[r].events /\ demo_run_json(r).status = run[r].status
        /\ demo_run_json(r).span = run[r].span
    BY DEF demo_run_json
  <2> QED
    BY <2>1 DEF EvidenceOK, Evidence
<1> HIDE DEF I
<1> QED
    BY <1>1, <1>2, <1>3, TypedAlways, PTL DEF Spec, Lab

-----------------------------------------------------------------------------
(* The events and the metrics of the simulation.                           *)

\* Steps that are not the simulation's leave its orders alone.
LEMMA SimFrame ==
    ASSUME SimOK, UNCHANGED <<sim, outbox>>,
           \A o \in orders : o.source = "growth_simulation" => o \in orders',
           \A o \in orders' : o.source = "growth_simulation" => o \in orders
    PROVE  SimOK'
<1>1. \A s : Captured(s) => Captured(s)'
    BY DEF Captured
<1>2. \A s : Reported(s) => Reported(s)'
    BY DEF Reported
<1>3. \A s, type : HasEvent(s, type) => HasEvent(s, type)'
    BY DEF HasEvent
<1>4. Bought' = Bought
    BY DEF Bought
<1>5. /\ sim'.item = "upsell" \/ sim'.pc \in {"offer", "accept"} => Arm(sim'.session) = "upsell"
      /\ sim'.pc \notin {"seed", "start", "done"} => HasEvent(sim.session, "session.started")
      /\ sim'.pc = "accept" => HasEvent(sim.session, "upsell.offered")
      /\ sim'.pc = "report" => Captured(Bought)
    BY DEF SimOK
<1>6. PICK b, k : b = Bought /\ k = sim.session
    OBVIOUS
<1>7. /\ sim'.pc \notin {"seed", "start", "done"} => HasEvent(k, "session.started")'
      /\ sim'.pc = "accept" => HasEvent(k, "upsell.offered")'
      /\ sim'.pc = "report" => Captured(b)'
    BY <1>1, <1>3, <1>5, <1>6
<1>8. Bought' = b /\ sim'.session = k
    BY <1>4, <1>6
<1>9. \A o \in orders' : o.source = "growth_simulation" =>
         /\ o.by \in Sales
         /\ o.status = "CAPTURED" =>
              Reported(o.by)' \/ (o.by = b /\ sim'.pc \in {"report", "done"})
    BY <1>2, <1>6 DEF SimOK
<1>10. IsFiniteSet(outbox')
    BY DEF SimOK
<1>11. ASSUME NEW e \in outbox' PROVE EventOK(e)'
  <2>1. EventOK(e)
    BY DEF SimOK
  <2> QED
    BY <1>1, <1>3, <2>1 DEF EventOK
<1> QED
    BY <1>5, <1>7, <1>8, <1>9, <1>10, <1>11 DEF SimOK

\* Runs and customers leave the simulation's orders alone.
LEMMA SimOtherStep ==
    ASSUME IsTyped, SimOK,
           (\E r \in Runs : RunStep(r) \/ (\E k \in cast.cards[r] : start_demo_run(r, k)) \/ Fail(r))
             \/ Crash \/ (\E c \in Customers : Buy(c))
    PROVE  SimOK'
<1>1. orders \subseteq OrderRecords /\ "growth_simulation" # None
    BY TypedParts, TrustLabConstants DEF ShopTyped
<1>2. \A o \in orders : o.source = "growth_simulation" => o.by \in Sales
    BY DEF SimOK
<1>3. CASE UNCHANGED <<sim, outbox, orders>>
    BY <1>3, SimFrame
<1>4. ASSUME NEW r \in Runs, RunStep(r) PROVE SimOK'
  <2>0. RunShop(r)
    BY <1>4, RunStepShop
  <2>1. /\ UNCHANGED <<sim, outbox>>
        /\ \/ UNCHANGED orders
           \/ orders' = orders \cup {Order(r, None, "CREATED")}
           \/ \E o \in orders : o.by = r /\ Restate(o, [o EXCEPT !.source = "demo_lab"])
           \/ \E s : \E o \in orders : o.by = r /\ Restate(o, [o EXCEPT !.status = s])
    BY <2>0, Zenon DEF RunShop
  <2>2. CASE orders' = orders \cup {Order(r, None, "CREATED")}
    <3>1. Order(r, None, "CREATED").source = None
      BY DEF Order
    <3> QED
      BY <1>1, <2>1, <2>2, <3>1, SimFrame
  <2>3. ASSUME NEW o \in orders, o.by = r, NEW p, p.source # "growth_simulation", Restate(o, p)
        PROVE  SimOK'
    <3>1. o.source # "growth_simulation"
      BY <1>2, <2>3, BuyersDiffer
    <3> QED
      BY <2>1, <2>3, <3>1, SimFrame DEF Restate
  <2>4. ASSUME NEW o \in orders, o.by = r, Restate(o, [o EXCEPT !.source = "demo_lab"])
        PROVE  SimOK'
    <3>1. [o EXCEPT !.source = "demo_lab"].source = "demo_lab"
      BY <1>1 DEF OrderRecords
    <3> QED
      BY <2>3, <2>4, <3>1
  <2>5. ASSUME NEW o \in orders, o.by = r, NEW s, Restate(o, [o EXCEPT !.status = s])
        PROVE  SimOK'
    <3>1. [o EXCEPT !.status = s].source = o.source
      BY <1>1 DEF OrderRecords
    <3>2. o.source # "growth_simulation"
      BY <1>2, <2>5, BuyersDiffer
    <3> QED
      BY <2>3, <2>5, <3>1, <3>2
  <2> QED
    BY <1>3, <2>1, <2>2, <2>4, <2>5
<1>5. ASSUME (\E r \in Runs : (\E k \in cast.cards[r] : start_demo_run(r, k)) \/ Fail(r))
                    \/ Crash \/ (\E c \in Customers : Buy(c))
      PROVE  SimOK'
  <2>1. /\ UNCHANGED <<sim, outbox>>
        /\ UNCHANGED orders \/ \E c \in Customers : orders' = orders \cup {Order(c, None, "CAPTURED")}
    BY <1>5, OthersMove
  <2>2. \A c \in Customers : Order(c, None, "CAPTURED").source = None
    BY DEF Order
  <2> QED
    BY <1>1, <1>3, <2>1, <2>2, SimFrame
<1> QED
    BY <1>4, <1>5

\* What the simulation captured stays captured.
LEMMA CapturedStays ==
    ASSUME IsTyped, OrdersOK, SimStep, NEW s, Captured(s)
    PROVE  Captured(s)'
<1>1. orders \subseteq OrderRecords /\ \A o, p \in orders : o.by = p.by => o = p
    BY TypedParts DEF ShopTyped, OrdersOK
<1>2. PICK o \in orders : o.by = s /\ o.source = "growth_simulation" /\ o.status = "CAPTURED"
    BY DEF Captured
<1>3. CASE o \in orders'
    BY <1>2, <1>3 DEF Captured
<1>4. ASSUME NEW x \in orders, Restate(x, [x EXCEPT !.source = "growth_simulation"])
      PROVE  Captured(s)'
  <2>1. CASE x = o
    <3>1. PICK p : p = [o EXCEPT !.source = "growth_simulation"]
      OBVIOUS
    <3>2. p.by = s /\ p.source = "growth_simulation" /\ p.status = "CAPTURED"
      BY <1>1, <1>2, <3>1 DEF OrderRecords
    <3>3. p \in orders'
      BY <1>4, <2>1, <3>1 DEF Restate
    <3> QED
      BY <3>2, <3>3 DEF Captured
  <2>2. CASE x # o
    BY <1>3, <1>4, <2>2 DEF Restate
  <2> QED
    BY <2>1, <2>2
<1>5. ASSUME NEW x \in orders, Restate(x, [x EXCEPT !.status = "CAPTURED"])
      PROVE  Captured(s)'
  <2>1. CASE x = o
    <3>1. PICK p : p = [o EXCEPT !.status = "CAPTURED"]
      OBVIOUS
    <3>2. p.by = s /\ p.source = "growth_simulation" /\ p.status = "CAPTURED"
      BY <1>1, <1>2, <3>1 DEF OrderRecords
    <3>3. p \in orders'
      BY <1>5, <2>1, <3>1 DEF Restate
    <3> QED
      BY <3>2, <3>3 DEF Captured
  <2>2. CASE x # o
    BY <1>3, <1>5, <2>2 DEF Restate
  <2> QED
    BY <2>1, <2>2
<1>6. SimDoes
    BY SimStepIs
<1> QED
    BY <1>3, <1>4, <1>5, <1>6 DEF SimDoes, SimStarts, SimProposes, SimTags, SimCompletes,
       SimReports, SimOffers, SimAccepts

\* The events only grow, by one that says what happened.
LEMMA EventsStep ==
    ASSUME SimOK, \A s : Captured(s) => Captured(s)',
           outbox' = outbox \/ \E e : outbox' = outbox \cup {e} /\ EventOK(e)'
    PROVE  /\ IsFiniteSet(outbox') /\ \A e \in outbox' : EventOK(e)'
           /\ \A s : Reported(s) => Reported(s)'
           /\ \A s, type : HasEvent(s, type) => HasEvent(s, type)'
<1>1. outbox \subseteq outbox'
    OBVIOUS
<1>2. \A s : Reported(s) => Reported(s)'
    BY <1>1 DEF Reported
<1>3. \A s, type : HasEvent(s, type) => HasEvent(s, type)'
    BY <1>1 DEF HasEvent
<1>4. ASSUME NEW e \in outbox PROVE EventOK(e)'
  <2>1. EventOK(e)
    BY DEF SimOK
  <2> QED
    BY <1>3, <2>1 DEF EventOK
<1>5. IsFiniteSet(outbox')
    BY FS_AddElement DEF SimOK
<1> QED
    BY <1>2, <1>3, <1>4, <1>5

\* The event of a step of the simulation says what happened.
LEMMA EventOfStep ==
    ASSUME IsTyped, OrdersOK, SimOK, SimStep
    PROVE  outbox' = outbox \/ \E e : outbox' = outbox \cup {e} /\ EventOK(e)'
<1>1. SimDoes
    BY SimStepIs
<1>2. \A s : Captured(s) => Captured(s)'
    BY CapturedStays
<1>3. PICK k, i : k = sim.session /\ i = sim.item
    OBVIOUS
<1>4. ASSUME NEW t \in EventTypes, NEW x, Emit(t, x),
             t = "order.completed" => Captured(<<k, x>>) /\ (x = "base" \/ Arm(k) = "upsell"),
             t # "order.completed" => x = None,
             t = "upsell.offered" => Arm(k) = "upsell" /\ HasEvent(k, "session.started"),
             t = "upsell.accepted" => HasEvent(k, "upsell.offered")
      PROVE  \E e : outbox' = outbox \cup {e} /\ EventOK(e)'
  <2>1. PICK e : e = [session |-> k, arm |-> Arm(k), type |-> t, item |-> x]
    OBVIOUS
  <2>2. outbox' = outbox \cup {e}
    BY <1>3, <1>4, <2>1 DEF Emit
  <2>3. \A s, type : HasEvent(s, type) => HasEvent(s, type)'
    BY <2>2 DEF HasEvent
  <2>4. e.session = k /\ e.arm = Arm(k) /\ e.type = t /\ e.item = x
    BY <2>1
  <2>5. EventOK(e)'
    BY <1>2, <1>4, <2>3, <2>4 DEF EventOK
  <2> QED
    BY <2>2, <2>5
<1>5. CASE SimStarts
  <2>1. Emit("session.started", None) /\ "session.started" \in EventTypes
    BY <1>5 DEF SimStarts, EventTypes
  <2> QED
    BY <1>4, <2>1
<1>6. CASE SimReports
  <2>1. Emit("order.completed", i) /\ "order.completed" \in EventTypes /\ sim.pc = "report"
    BY <1>3, <1>6 DEF SimReports, EventTypes, SimMoves, SimReturns
  <2>2. Captured(<<k, i>>)
    BY <1>3, <2>1 DEF SimOK, Bought
  <2>3. i = "base" \/ Arm(k) = "upsell"
    BY <1>3, TypedParts DEF SimOK, SimTyped, SimRecords
  <2> QED
    BY <1>4, <2>1, <2>2, <2>3
<1>7. CASE SimOffers
  <2>1. Emit("upsell.offered", None) /\ "upsell.offered" \in EventTypes /\ sim.pc = "offer"
    BY <1>7 DEF SimOffers, EventTypes, SimMoves, SimReturns
  <2>2. Arm(k) = "upsell" /\ HasEvent(k, "session.started")
    BY <1>3, <2>1 DEF SimOK
  <2> QED
    BY <1>4, <2>1, <2>2
<1>8. CASE SimAccepts
  <2>1. Emit("upsell.accepted", None) /\ "upsell.accepted" \in EventTypes /\ sim.pc = "accept"
    BY <1>8 DEF SimAccepts, EventTypes
  <2>2. HasEvent(k, "upsell.offered")
    BY <1>3, <2>1 DEF SimOK
  <2> QED
    BY <1>4, <2>1, <2>2
<1> QED
    BY <1>1, <1>5, <1>6, <1>7, <1>8 DEF SimDoes, SimProposes, SimTags, SimCompletes

\* What the simulation sold is reported, but for the sale a session is about
\* to report.
LEMMA SalesStep ==
    ASSUME IsTyped, OrdersOK, SimOK, SimStep, NEW b \in Sales, b = Bought,
           \A s : Reported(s) => Reported(s)',
           NEW o \in orders', o.source = "growth_simulation"
    PROVE  /\ o.by \in Sales
           /\ o.status = "CAPTURED" =>
                Reported(o.by)' \/ (o.by = b /\ Bought' = b /\ sim'.pc = "report")
<1>1. SimDoes /\ sim.pc # "done"
    BY SimStepIs
<1>2. orders \subseteq OrderRecords
    BY TypedParts DEF ShopTyped
<1>3. ASSUME NEW x \in orders, x.source = "growth_simulation", sim.pc # "report"
      PROVE  x.by \in Sales /\ (x.status = "CAPTURED" => Reported(x.by)')
  <2>1. x.by \in Sales /\ (x.status = "CAPTURED" => Reported(x.by))
    BY <1>1, <1>3 DEF SimOK
  <2> QED
    BY <2>1
<1>4. CASE orders' = orders /\ sim.pc # "report"
    BY <1>3, <1>4
<1>5. CASE SimReports
  <2>1. orders' = orders /\ Emit("order.completed", sim.item)
    BY <1>5 DEF SimReports
  <2>2. PICK e : e = [session |-> sim.session, arm |-> Arm(sim.session),
                      type |-> "order.completed", item |-> sim.item]
    OBVIOUS
  <2>3. e \in outbox' /\ e.type = "order.completed" /\ <<e.session, e.item>> = b
    BY <2>1, <2>2 DEF Emit, Bought
  <2>4. Reported(b)'
    BY <2>3 DEF Reported
  <2>5. o.by \in Sales /\ (o.status = "CAPTURED" => Reported(o.by) \/ o.by = b)
    BY <2>1 DEF SimOK
  <2> QED
    BY <2>4, <2>5
<1>6. CASE SimProposes
  <2>1. sim.pc = "propose" /\ (orders' = orders \/ orders' = orders \cup {Order(b, None, "CREATED")})
    BY <1>6 DEF SimProposes, SimMoves, SimReturns
  <2>2. Order(b, None, "CREATED").source # "growth_simulation"
    BY TrustLabConstants DEF Order
  <2> QED
    BY <1>3, <2>1, <2>2
<1>7. CASE SimTags
  <2>1. sim.pc = "tag"
    BY <1>7 DEF SimTags, SimMoves
  <2>2. PICK x \in orders : x.by = b /\ Restate(x, [x EXCEPT !.source = "growth_simulation"])
    BY <1>7 DEF SimTags
  <2>3. PICK p : p = [x EXCEPT !.source = "growth_simulation"]
    OBVIOUS
  <2>4. p.by = b /\ p.status = x.status /\ o \in orders \cup {p}
    BY <1>2, <2>2, <2>3 DEF OrderRecords, Restate
  <2>5. x.status = "CAPTURED" => x.source = "growth_simulation"
    <3>1. b \notin Runs /\ b \notin Customers
      BY BuyersDiffer
    <3>2. x.source \in {None, "demo_lab", "growth_simulation"}
      BY <1>2, <2>2 DEF OrderRecords
    <3> QED
      BY <2>2, <3>1, <3>2 DEF OrdersOK
  <2>6. x.status = "CAPTURED" => Reported(b)'
    BY <1>3, <2>1, <2>2, <2>5
  <2> QED
    BY <1>3, <2>1, <2>4, <2>6
<1>8. CASE SimCompletes
  <2>1. sim.pc = "complete" /\ Sells("report", sim.session, sim.item)
    BY <1>8 DEF SimCompletes, SimMoves
  <2>2. Bought' = b /\ sim'.pc = "report"
    BY <2>1 DEF Sells, Bought
  <2>3. PICK x \in orders : x.by = b /\ Restate(x, [x EXCEPT !.status = "CAPTURED"])
    BY <1>8 DEF SimCompletes
  <2>4. PICK p : p = [x EXCEPT !.status = "CAPTURED"]
    OBVIOUS
  <2>5. p.by = b /\ o \in orders \cup {p}
    BY <1>2, <2>3, <2>4 DEF OrderRecords, Restate
  <2> QED
    BY <1>3, <2>1, <2>2, <2>5
<1> QED
    BY <1>1, <1>4, <1>5, <1>6, <1>7, <1>8
       DEF SimDoes, SimStarts, SimOffers, SimAccepts, SimMoves, SimReturns

\* Where the simulation is, what it has emitted and sold says.
LEMMA SimPlaceStep ==
    ASSUME IsTyped, OrdersOK, SimOK, SimStep,
           \A s, type : HasEvent(s, type) => HasEvent(s, type)',
           NEW c, NEW n, c = Bought', n = sim'.session
    PROVE  /\ sim'.item = "upsell" \/ sim'.pc \in {"offer", "accept"} => Arm(n) = "upsell"
           /\ sim'.pc \notin {"seed", "start", "done"} => HasEvent(n, "session.started")'
           /\ sim'.pc = "accept" => HasEvent(n, "upsell.offered")'
           /\ sim'.pc = "report" => Captured(c)'
<1>1. SimDoes
    BY SimStepIs
<1>2. PICK b, k : b = Bought /\ k = sim.session
    OBVIOUS
<1>3. /\ sim.item = "upsell" \/ sim.pc \in {"offer", "accept"} => Arm(k) = "upsell"
      /\ sim.pc \notin {"seed", "start", "done"} => HasEvent(k, "session.started")'
    BY <1>2 DEF SimOK
<1>4. ASSUME NEW from, SimReturns(from)
      PROVE  sim'.item = "base" /\ sim'.pc \in {"start", "done"}
    BY <1>4 DEF SimReturns, Sells
<1>5. ASSUME NEW from, NEW to, SimMoves(from, to)
      PROVE  sim.pc = from /\ sim'.pc = to /\ sim'.session = k /\ sim'.item = sim.item /\ Bought' = b
    BY <1>2, <1>5 DEF SimMoves, Sells, Bought
<1>6. CASE \E from : SimReturns(from)
    BY <1>4, <1>6
<1>7. CASE \/ SimMoves("seed", "start") \/ SimMoves("quote", "propose")
           \/ SimMoves("propose", "tag") \/ SimMoves("tag", "complete")
    BY <1>3, <1>5, <1>7
<1>8. CASE SimMoves("start", "quote") /\ Emit("session.started", None)
  <2>1. PICK e : e = [session |-> k, arm |-> Arm(k), type |-> "session.started", item |-> None]
    OBVIOUS
  <2>2. e \in outbox' /\ e.session = k /\ e.type = "session.started"
    BY <1>2, <1>8, <2>1 DEF Emit
  <2>3. HasEvent(k, "session.started")'
    BY <2>2 DEF HasEvent
  <2> QED
    BY <1>3, <1>5, <1>8, <2>3
<1>9. CASE SimMoves("report", "offer") /\ Arm(sim.session) = "upsell"
    BY <1>2, <1>3, <1>5, <1>9
<1>10. CASE SimMoves("offer", "accept") /\ Emit("upsell.offered", None)
  <2>1. PICK e : e = [session |-> k, arm |-> Arm(k), type |-> "upsell.offered", item |-> None]
    OBVIOUS
  <2>2. e \in outbox' /\ e.session = k /\ e.type = "upsell.offered"
    BY <1>2, <1>10, <2>1 DEF Emit
  <2>3. HasEvent(k, "upsell.offered")'
    BY <2>2 DEF HasEvent
  <2> QED
    BY <1>3, <1>5, <1>10, <2>3
<1>11. CASE SimAccepts
  <2>1. sim.pc = "accept" /\ sim'.pc = "quote" /\ sim'.session = k
    BY <1>2, <1>11 DEF SimAccepts, Sells
  <2> QED
    BY <1>3, <2>1
<1>12. CASE SimCompletes
  <2>1. SimMoves("complete", "report")
    BY <1>12 DEF SimCompletes
  <2>2. PICK x \in orders : x.by = b /\ Restate(x, [x EXCEPT !.status = "CAPTURED"])
    BY <1>2, <1>12 DEF SimCompletes
  <2>3. PICK p : p = [x EXCEPT !.status = "CAPTURED"]
    OBVIOUS
  <2>4. x \in OrderRecords /\ x.source = "growth_simulation"
    BY <1>2, <1>5, <2>1, <2>2, TypedParts DEF ShopTyped, OrdersOK
  <2>5. p \in orders' /\ p.by = b /\ p.status = "CAPTURED" /\ p.source = "growth_simulation"
    BY <2>2, <2>3, <2>4 DEF OrderRecords, Restate
  <2>6. Captured(b)'
    BY <2>5 DEF Captured
  <2> QED
    BY <1>3, <1>5, <2>1, <2>6
<1> QED
    BY <1>1, <1>6, <1>7, <1>8, <1>9, <1>10, <1>11, <1>12
       DEF SimDoes, SimStarts, SimProposes, SimTags, SimReports, SimOffers

\* Every step keeps what the simulation's events say.
LEMMA SimOKStep ==
    ASSUME IsTyped, OrdersOK, SimOK, [Next]_vars
    PROVE  SimOK'
<1>1. CASE UNCHANGED vars
    BY <1>1, SimFrame DEF vars
<1>2. CASE SimKilled
  <2>1. UNCHANGED <<orders, outbox>> /\ Sells("done", sim.session, sim.item)
    BY <1>2, KilledIs
  <2>2. sim'.pc = "done" /\ sim'.session = sim.session /\ sim'.item = sim.item /\ Bought' = Bought
    BY <2>1 DEF Sells, Bought
  <2>3. \A s : Captured(s) => Captured(s)'
    BY <2>1 DEF Captured
  <2>4. /\ \A e \in outbox' : EventOK(e)'
        /\ \A s : Reported(s) => Reported(s)'
    BY <2>1, <2>3, EventsStep
  <2>5. PICK b : b = Bought
    OBVIOUS
  <2>6. \A o \in orders' : o.source = "growth_simulation" =>
          /\ o.by \in Sales
          /\ o.status = "CAPTURED" => Reported(o.by)' \/ (o.by = b /\ sim'.pc \in {"report", "done"})
    BY <2>1, <2>2, <2>4, <2>5 DEF SimOK
  <2> QED
    BY <2>1, <2>2, <2>4, <2>5, <2>6 DEF SimOK
<1>3. CASE SimStep
  <2>1. \A s : Captured(s) => Captured(s)'
    BY <1>3, CapturedStays
  <2>2. /\ IsFiniteSet(outbox') /\ \A e \in outbox' : EventOK(e)'
        /\ \A s : Reported(s) => Reported(s)'
        /\ \A s, type : HasEvent(s, type) => HasEvent(s, type)'
    BY <1>3, <2>1, EventOfStep, EventsStep
  <2>3. PICK b \in Sales : b = Bought
    <3>1. SimTyped /\ sim.session \in 1..2*Sessions
      BY <1>3, SimStepIs, TypedParts
    <3> QED
      BY <3>1, BoughtIs, TrustLabConstants DEF SimTyped
  <2>4. PICK c, n : c = Bought' /\ n = sim'.session
    OBVIOUS
  <2>5. /\ sim'.item = "upsell" \/ sim'.pc \in {"offer", "accept"} => Arm(n) = "upsell"
        /\ sim'.pc \notin {"seed", "start", "done"} => HasEvent(n, "session.started")'
        /\ sim'.pc = "accept" => HasEvent(n, "upsell.offered")'
        /\ sim'.pc = "report" => Captured(c)'
    BY <1>3, <2>2, <2>4, SimPlaceStep
  <2>6. \A o \in orders' : o.source = "growth_simulation" =>
          /\ o.by \in Sales
          /\ o.status = "CAPTURED" => Reported(o.by)' \/ (o.by = c /\ sim'.pc \in {"report", "done"})
    BY <1>3, <2>2, <2>3, <2>4, SalesStep
  <2> QED
    BY <2>2, <2>4, <2>5, <2>6 DEF SimOK
<1> QED
    BY <1>1, <1>2, <1>3, SimOtherStep DEF Next

\* The simulation's events say what happened, from the beginning.
LEMMA SimAlways == Lab => []SimOK
<1>1. Init => SimOK
  <2> SUFFICES ASSUME Init PROVE SimOK
    OBVIOUS
  <2>1. orders = {} /\ outbox = {} /\ sim.pc = "seed" /\ sim.item = "base"
    BY DEF Init
  <2>2. IsFiniteSet({})
    BY FS_EmptySet
  <2> QED
    BY <2>1, <2>2 DEF SimOK
<1> QED
    BY <1>1, SimOKStep, TypedAlways, OrdersAlways, PTL DEF Lab

-----------------------------------------------------------------------------
(* The revenue of the simulation's orders.                                 *)

Revenue(S) == MapThenSumSet(LAMBDA e : Total(e.item), S)

\* Among sets of finitely many there is one that contains no other of them.
LEMMA SmallestIn ==
    ASSUME NEW U, IsFiniteSet(U), NEW Bad, Bad \subseteq SUBSET U, Bad # {}
    PROVE  \E s \in Bad : \A u \in Bad : u \subseteq s => u = s
<1> DEFINE R == StrictSubsetOrdering(U)
<1>1. IsWellFoundedOn(R, SUBSET U)
    BY FS_FiniteSubsetsOfFinite, FS_StrictSubsetOrderingWellFounded
<1>2. \A u, s \in SUBSET U : u \subseteq s /\ u # s => <<u, s>> \in R
    BY DEF StrictSubsetOrdering
<1> HIDE DEF R
<1>3. PICK s \in Bad : \A u \in Bad : ~ (<<u, s>> \in R)
    BY <1>1, WFMin
<1> QED
    BY <1>2, <1>3

\* The sums of the subsets of S, as the fold computes them.
Pick(s) == CHOOSE x \in s : TRUE
SumOf(f, s) == IF s = {} THEN 0 ELSE Total(Pick(s).item) + f[s \ {Pick(s)}]
IsSum(f, S) == f = [s \in SUBSET S |-> SumOf(f, s)]

\* What Revenue is, by the definition of the fold.
LEMMA RevenueIs ==
    ASSUME NEW S
    PROVE  Revenue(S) = (CHOOSE f : IsSum(f, S))[S]
BY Zenon DEF Revenue, MapThenSumSet, MapThenFoldSet, IsSum, SumOf, Pick

\* A set that is not empty holds what is picked from it.
LEMMA PickIn ==
    ASSUME NEW s, s # {}
    PROVE  Pick(s) \in s
BY DEF Pick

\* Sums of the subsets of S include the revenue of each.
LEMMA RevenueFromSum ==
    ASSUME NEW U, IsFiniteSet(U), NEW S, S \subseteq U, NEW g, IsSum(g, S)
    PROVE  \A s \in SUBSET S : Revenue(s) = g[s]
<1> SUFFICES ASSUME NEW s \in SUBSET S PROVE Revenue(s) = g[s]
    OBVIOUS
<1>1. \A u \in SUBSET S : g[u] = SumOf(g, u)
    BY DEF IsSum
<1>2. PICK k : k = [u \in SUBSET s |-> g[u]]
    OBVIOUS
<1>3. IsSum(k, s)
    <2>1. ASSUME NEW u \in SUBSET s PROVE k[u] = SumOf(k, u)
        <3>1. CASE u = {}
            BY <1>1, <1>2, <3>1 DEF SumOf
        <3>2. CASE u # {}
            <4>1. u \ {Pick(u)} \in SUBSET s
                OBVIOUS
            <4> QED
                BY <1>1, <1>2, <3>2, <4>1 DEF SumOf
        <3> QED
            BY <3>1, <3>2
    <2> QED
        BY <1>2, <2>1 DEF IsSum
<1>4. PICK h : h = CHOOSE f : IsSum(f, s)
    OBVIOUS
<1>5. IsSum(h, s)
    BY <1>3, <1>4, Zenon
<1>6. \A u \in SUBSET s : h[u] = SumOf(h, u)
    BY <1>5 DEF IsSum
<1> DEFINE Bad == {u \in SUBSET s : h[u] # g[u]}
<1>7. Bad = {}
    <2> SUFFICES ASSUME Bad # {} PROVE FALSE
        OBVIOUS
    <2>1. PICK u \in Bad : \A v \in Bad : v \subseteq u => v = u
        <3>1. Bad \subseteq SUBSET U
            OBVIOUS
        <3> HIDE DEF Bad
        <3> QED
            BY <3>1, SmallestIn
    <2>2. u \in SUBSET s /\ u \in SUBSET S /\ h[u] # g[u]
        OBVIOUS
    <2>3. CASE u = {}
        BY <1>1, <1>6, <2>2, <2>3 DEF SumOf
    <2>4. CASE u # {}
        <3>1. PICK v : v = u \ {Pick(u)}
            OBVIOUS
        <3>2. v \subseteq u /\ v # u /\ v \in SUBSET s
            BY <2>2, <2>4, <3>1, PickIn
        <3>3. h[v] = g[v]
            BY <2>1, <3>2
        <3>4. h[u] = Total(Pick(u).item) + h[v] /\ g[u] = Total(Pick(u).item) + g[v]
            BY <1>1, <1>6, <2>2, <2>4, <3>1 DEF SumOf
        <3> QED
            BY <2>2, <3>3, <3>4
    <2> QED
        BY <2>3, <2>4
<1>8. h[s] = g[s]
    BY <1>7
<1> QED
    BY <1>4, <1>8, RevenueIs

Adds(g, S, U) == IsFiniteSet(U) /\ S \subseteq U /\ IsSum(g, S)

\* The same, with its hypotheses as one.
LEMMA AddsUp ==
    ASSUME NEW U, NEW S, NEW g, Adds(g, S, U)
    PROVE  \A s \in SUBSET S : Revenue(s) = g[s]
BY RevenueFromSum DEF Adds

\* There are sums of the subsets of such a set.
LEMMA SumExists ==
    ASSUME NEW U, IsFiniteSet(U), NEW S, S \subseteq U
    PROVE  \E f : IsSum(f, S)
<1> DEFINE Bad == {u \in SUBSET U : ~ \E f : IsSum(f, u)}
<1> SUFFICES ASSUME Bad # {} PROVE FALSE
    OBVIOUS
<1>1. PICK s \in Bad : \A u \in Bad : u \subseteq s => u = s
    <2>1. Bad \subseteq SUBSET U
        OBVIOUS
    <2> HIDE DEF Bad
    <2> QED
        BY <2>1, SmallestIn
<1>2. s \subseteq U /\ ~ \E f : IsSum(f, s)
    BY <1>1
<1>3. ASSUME NEW u, u \subseteq s, u # s PROVE \E f : IsSum(f, u)
    <2>1. u \notin Bad /\ u \in SUBSET U
        <3> HIDE DEF Bad
        <3> QED
            BY <1>1, <1>2, <1>3
    <2> QED
        BY <2>1
<1>4. PICK k : k = [u \in SUBSET s |-> IF u = s /\ s # {} THEN Total(Pick(s).item) + Revenue(s \ {Pick(s)})
                                      ELSE IF u = {} THEN 0 ELSE Revenue(u)]
    OBVIOUS
<1>5. ASSUME NEW u \in SUBSET s, u # s, s # {} PROVE k[u] = Revenue(u) /\ Revenue({}) = 0
    <2>1. PICK g : IsSum(g, {})
        BY <1>3, <1>5
    <2>2. g[{}] = 0
        BY <2>1 DEF IsSum, SumOf
    <2>3. Revenue({}) = 0
        BY <2>1, <2>2, RevenueFromSum
    <2> QED
        BY <1>4, <1>5, <2>3
<1>6. ASSUME NEW u \in SUBSET s PROVE k[u] = SumOf(k, u)
    <2>1. CASE u = {}
        BY <1>4, <2>1 DEF SumOf
    <2>2. CASE u # {} /\ u = s
        <3>1. s \ {Pick(s)} \in SUBSET s /\ s \ {Pick(s)} # s
            BY <2>2, PickIn
        <3>2. k[s \ {Pick(s)}] = Revenue(s \ {Pick(s)})
            BY <1>5, <2>2, <3>1
        <3> QED
            BY <1>4, <2>2, <3>2 DEF SumOf
    <2>3. CASE u # {} /\ u # s
        <3>1. PICK g : IsSum(g, u)
            BY <1>3, <2>3
        <3>2. PICK v : v = u \ {Pick(u)}
            OBVIOUS
        <3>3. v \subseteq u /\ v \in SUBSET s /\ v # s /\ s # {}
            BY <2>3, <3>2
        <3>4. u \subseteq U
            BY <1>2
        <3>5. \A x \in SUBSET u : Revenue(x) = g[x]
            <4>1. Adds(g, u, U)
                BY <3>1, <3>4 DEF Adds
            <4> QED
                BY <4>1, AddsUp
        <3>6. Revenue(u) = g[u] /\ Revenue(v) = g[v]
            BY <3>3, <3>5
        <3>7. g[u] = Total(Pick(u).item) + g[v]
            BY <2>3, <3>1, <3>2 DEF IsSum, SumOf
        <3>8. k[u] = Revenue(u) /\ k[v] = Revenue(v)
            BY <1>5, <2>3, <3>3
        <3> QED
            BY <2>3, <3>2, <3>6, <3>7, <3>8 DEF SumOf
    <2> QED
        BY <2>1, <2>2, <2>3
<1>7. IsSum(k, s)
    BY <1>4, <1>6 DEF IsSum
<1> QED
    BY <1>2, <1>7

\* What Revenue is, set by set.
LEMMA RevenueStep ==
    ASSUME NEW U, IsFiniteSet(U), NEW s, s \subseteq U
    PROVE  /\ s = {} => Revenue(s) = 0
           /\ s # {} => Revenue(s) = Total(Pick(s).item) + Revenue(s \ {Pick(s)})
<1>1. PICK g : IsSum(g, s)
    BY SumExists
<1>2. PICK v : v = s \ {Pick(s)}
    OBVIOUS
<1>3. Revenue(s) = g[s] /\ Revenue(v) = g[v]
    BY <1>1, <1>2, RevenueFromSum
<1>4. g[s] = SumOf(g, s)
    BY <1>1 DEF IsSum
<1> QED
    BY <1>2, <1>3, <1>4 DEF SumOf


\* A sale brings in the price of the base item at least, and no more than
\* that when nothing but base items is sold.
LEMMA RevenueBounds ==
    ASSUME NEW U, IsFiniteSet(U)
    PROVE  /\ Revenue(U) \in Nat /\ Revenue(U) >= 750 * Cardinality(U)
           /\ (\A e \in U : e.item = "base") => Revenue(U) = 750 * Cardinality(U)
<1> DEFINE Good(u) == /\ Revenue(u) \in Nat /\ Revenue(u) >= 750 * Cardinality(u)
                      /\ (\A e \in u : e.item = "base") => Revenue(u) = 750 * Cardinality(u)
           Bad == {u \in SUBSET U : ~Good(u)}
<1> SUFFICES ASSUME Bad # {} PROVE FALSE
    OBVIOUS
<1>1. PICK u \in Bad : \A v \in Bad : v \subseteq u => v = u
    <2>1. Bad \subseteq SUBSET U
        OBVIOUS
    <2> HIDE DEF Bad
    <2> QED
        BY <2>1, SmallestIn
<1>2. u \subseteq U /\ ~Good(u)
    BY <1>1
<1>3. IsFiniteSet(u)
    BY <1>2, FS_Subset
<1>4. CASE u = {}
    <2>1. Revenue(u) = 0 /\ Cardinality(u) = 0
        BY <1>3, <1>4, RevenueStep, FS_EmptySet
    <2> QED
        BY <1>2, <2>1
<1>5. CASE u # {}
    <2>1. PICK x \in u : x = Pick(u)
        BY <1>5, PickIn
    <2>2. PICK v : v = u \ {x}
        OBVIOUS
    <2>3. v \in SUBSET U /\ v \subseteq u /\ v # u
        BY <1>2, <2>1, <2>2
    <2>4. Good(v)
        <3>1. v \notin Bad
            <4> HIDE DEF Bad
            <4> QED
                BY <1>1, <2>3
        <3> HIDE DEF Good
        <3> QED
            BY <2>3, <3>1
    <2>5. Revenue(u) = Total(x.item) + Revenue(v)
        BY <1>3, <1>5, <2>1, <2>2, RevenueStep
    <2>6. Cardinality(v) = Cardinality(u) - 1 /\ Cardinality(u) \in Nat
        BY <1>3, <2>1, <2>2, FS_RemoveElement, FS_CardinalityType
    <2>7. Total(x.item) \in {750, 810} /\ (x.item = "base" => Total(x.item) = 750)
        BY DEF Total
    <2>8. (\A e \in u : e.item = "base") => x.item = "base" /\ \A e \in v : e.item = "base"
        BY <2>1, <2>3
    <2> HIDE DEF Bad
    <2>9. Good(u)
        BY <2>4, <2>5, <2>6, <2>7, <2>8
    <2> QED
        BY <1>2, <2>9
<1> QED
    BY <1>4, <1>5

\* The mean of as many amounts, of 750 or of at least 750 each.
LEMMA MeanBounds ==
    ASSUME NEW n \in Nat, n > 0, NEW a \in Nat
    PROVE  /\ a >= 750 * n => a \div n >= 750
           /\ a = 750 * n => a \div n = 750
           /\ a \div n \in Int
<1>1. a >= 750 * n => a \div n >= 750
    OBVIOUS
<1>2. a = 750 * n => a \div n = 750
    OBVIOUS
<1>3. a \div n \in Int
    OBVIOUS
<1> QED
    BY <1>1, <1>2, <1>3

-----------------------------------------------------------------------------
(* What the metrics are made of.                                           *)

\* The events of a kind are finitely many.
LEMMA EventsAreFinite ==
    ASSUME SimOK, NEW type, NEW arm
    PROVE  /\ Events(type, arm) \subseteq outbox /\ IsFiniteSet(Events(type, arm))
           /\ Cardinality(Events(type, arm)) \in Nat
<1>1. Events(type, arm) \subseteq outbox
    BY DEF Events
<1>2. IsFiniteSet(Events(type, arm))
    BY <1>1, FS_Subset DEF SimOK
<1> QED
    BY <1>1, <1>2, FS_CardinalityType

\* Events that each follow one of another kind in their session are no more
\* than those.
LEMMA NoMoreEvents ==
    ASSUME SimOK, IsTyped, NEW arm, NEW t, NEW u, t # "order.completed",
           \A e \in Events(t, arm) : HasEvent(e.session, u)
    PROVE  Cardinality(Events(t, arm)) <= Cardinality(Events(u, arm))
<1>1. PICK A, B : A = Events(t, arm) /\ B = Events(u, arm)
    OBVIOUS
<1>2. ASSUME NEW e \in A PROVE \E x \in B : x.session = e.session
  <2>1. e \in outbox /\ e.arm = arm /\ HasEvent(e.session, u)
    BY <1>1 DEF Events
  <2>2. PICK x \in outbox : x.session = e.session /\ x.type = u
    BY <2>1 DEF HasEvent
  <2>3. x.arm = arm
    BY <2>1, <2>2 DEF SimOK, EventOK
  <2> QED
    BY <1>1, <2>2, <2>3 DEF Events
<1>3. ASSUME NEW e \in A, NEW x \in A, e.session = x.session PROVE e = x
  <2>1. e \in EventRecords /\ x \in EventRecords /\ EventOK(e) /\ EventOK(x)
    BY <1>1, TypedParts DEF Events, SimTyped, SimOK
  <2>2. e.type = x.type /\ e.arm = x.arm /\ e.item = x.item
    BY <1>1, <2>1 DEF Events, EventOK
  <2> QED
    BY <1>3, <2>1, <2>2 DEF EventRecords
<1>4. PICK f : f = [e \in A |-> CHOOSE x \in B : x.session = e.session]
    OBVIOUS
<1>5. ASSUME NEW e \in A PROVE f[e] \in B /\ f[e].session = e.session
  <2>1. f[e] = CHOOSE x \in B : x.session = e.session
    BY <1>4
  <2> QED
    BY <1>2, <2>1, Zenon
<1>6. f \in [A -> B]
    BY <1>4, <1>5
<1>7. \A e, x \in A : f[e] = f[x] => e = x
    BY <1>3, <1>5
<1>8. f \in Injection(A, B)
    BY <1>6, <1>7 DEF Injection, IsInjective
<1> QED
    BY <1>1, <1>8, EventsAreFinite, FS_Injection

\* What an arm reports was sold, and what it sold is reported but for one.
LEMMA ReportedIsSold ==
    ASSUME SimOK, NEW arm
    PROVE  ReportedBy(arm) \subseteq SoldBy(arm) /\ Cardinality(SoldBy(arm) \ ReportedBy(arm)) <= 1
<1>1. ASSUME NEW s \in ReportedBy(arm) PROVE s \in SoldBy(arm)
  <2>1. PICK e \in outbox : s = <<e.session, e.item>> /\ e.type = "order.completed" /\ e.arm = arm
    BY DEF Events, ReportedBy
  <2>2. Captured(s) /\ Arm(s[1]) = arm
    BY <2>1 DEF SimOK, EventOK
  <2> QED
    BY <2>2 DEF Captured, SoldBy
<1>2. ASSUME NEW s \in SoldBy(arm), s # Bought PROVE s \in ReportedBy(arm)
  <2>1. PICK o \in orders : /\ o.by = s /\ o.source = "growth_simulation"
                            /\ o.status = "CAPTURED" /\ Arm(s[1]) = arm
    BY DEF SoldBy
  <2>2. Reported(s)
    BY <1>2, <2>1 DEF SimOK
  <2>3. PICK e \in outbox : e.type = "order.completed" /\ <<e.session, e.item>> = s
    BY <2>2 DEF Reported
  <2>4. e.arm = arm
    BY <2>1, <2>3 DEF SimOK, EventOK
  <2> QED
    BY <2>3, <2>4 DEF Events, ReportedBy
<1>3. PICK b : b = Bought
    OBVIOUS
<1>4. SoldBy(arm) \ ReportedBy(arm) \in SUBSET {b}
    BY <1>2, <1>3
<1>5. IsFiniteSet({b}) /\ Cardinality({b}) = 1
    BY FS_Singleton
<1>6. Cardinality(SoldBy(arm) \ ReportedBy(arm)) <= 1
    BY <1>4, <1>5, FS_Subset
<1> QED
    BY <1>1, <1>6

-----------------------------------------------------------------------------
(* Readings of the metrics.                                                *)

\* The statements of a reading are the ten figures, and an arm's total is read
\* after its orders.
LEMMA StatementsAre ==
    /\ \A i \in 1..10 : Statement(i) \in Queries
    /\ \A q \in Queries : \E i \in 1..10 : Statement(i) = q
    /\ \A i \in 1..10 : Statement(i)[2] = "total" =>
         \E j \in 1..i-1 : Statement(j) = <<Statement(i)[1], "orders">>
    /\ \A i, j \in 1..10 : Statement(i) = Statement(j) => i = j
<1>1. /\ Statement(1) = <<"baseline", "sessions">> /\ Statement(6) = <<"upsell", "sessions">>
      /\ Statement(2) = <<"baseline", "orders">> /\ Statement(7) = <<"upsell", "orders">>
      /\ Statement(3) = <<"baseline", "offered">> /\ Statement(8) = <<"upsell", "offered">>
      /\ Statement(4) = <<"baseline", "accepted">> /\ Statement(9) = <<"upsell", "accepted">>
      /\ Statement(5) = <<"baseline", "total">> /\ Statement(10) = <<"upsell", "total">>
    BY DEF Statement, _arm_metrics
<1>2. \A i \in 1..10 : i = 1 \/ i = 2 \/ i = 3 \/ i = 4 \/ i = 5 \/ i = 6 \/ i = 7 \/ i = 8
                       \/ i = 9 \/ i = 10
    OBVIOUS
<1>3. \A i \in 1..10 : Statement(i) \in Queries
    BY <1>1, <1>2 DEF Queries, Arms, Figures
<1>4. \A q \in Queries : \E i \in 1..10 : Statement(i) = q
    BY <1>1 DEF Queries, Arms, Figures
<1>5. \A i \in 1..10 : Statement(i)[2] = "total" =>
         \E j \in 1..i-1 : Statement(j) = <<Statement(i)[1], "orders">>
    <2> SUFFICES ASSUME NEW i \in 1..10, Statement(i)[2] = "total"
                 PROVE  \E j \in 1..i-1 : Statement(j) = <<Statement(i)[1], "orders">>
        OBVIOUS
    <2>1. i = 5 \/ i = 10
        BY <1>1, <1>2
    <2>2. CASE i = 5
        BY <1>1, <2>2
    <2>3. CASE i = 10
        BY <1>1, <2>3
    <2> QED
        BY <2>1, <2>2, <2>3
<1>6. \A i, j \in 1..10 : Statement(i) = Statement(j) => i = j
    BY <1>1, <1>2
<1> QED
    BY <1>3, <1>4, <1>5, <1>6

\* What the statements answer, of an outbox.
LEMMA AnswersAre ==
    ASSUME NEW box, NEW arm
    PROVE  /\ Answer(box, <<arm, "total">>) = Revenue(Rows(box, <<arm, "orders">>))
           /\ \A f \in Figures \ {"total"} :
                Answer(box, <<arm, f>>) = Cardinality(Rows(box, <<arm, f>>))
<1>1. PICK R : R = Rows(box, <<arm, "total">>)
    OBVIOUS
<1>2. R = Rows(box, <<arm, "orders">>)
    BY <1>1 DEF Rows, EventType
<1>3. PICK q : q = <<arm, "total">>
    OBVIOUS
<1>4. q[2] = "total" /\ R = Rows(box, q)
    BY <1>1, <1>3
<1>5. Answer(box, q) = Revenue(R)
    BY <1>4, Zenon DEF Answer, sum_order_total_minor, Revenue, MapThenSumSet, MapThenFoldSet
<1>6. ASSUME NEW f \in Figures \ {"total"}
      PROVE  Answer(box, <<arm, f>>) = Cardinality(Rows(box, <<arm, f>>))
    BY <1>6 DEF Answer, count_by_event_type_and_arm
<1> QED
    BY <1>2, <1>3, <1>5, <1>6

\* A count only goes up.
LEMMA CountsGrow ==
    ASSUME NEW b, NEW c, b \subseteq c, IsFiniteSet(c), NEW q \in Queries, q[2] # "total"
    PROVE  Answer(b, q) \in Nat /\ Answer(c, q) \in Nat /\ Answer(b, q) <= Answer(c, q)
<1>1. PICK A, B : A = Rows(b, q) /\ B = Rows(c, q)
    OBVIOUS
<1>2. A \subseteq B /\ B \subseteq c
    BY <1>1 DEF Rows
<1>3. IsFiniteSet(B) /\ IsFiniteSet(A)
    BY <1>2, FS_Subset
<1>4. Cardinality(A) \in Nat /\ Cardinality(B) \in Nat /\ Cardinality(A) <= Cardinality(B)
    BY <1>2, <1>3, FS_Subset, FS_CardinalityType
<1>5. Answer(b, q) = Cardinality(A) /\ Answer(c, q) = Cardinality(B)
    BY <1>1 DEF Answer, count_by_event_type_and_arm
<1> QED
    BY <1>4, <1>5

\* The figures of the outbox as it is at one time are consistent.
LEMMA OutboxIsTrue ==
    ASSUME SimOK, IsTyped
    PROVE  BoxIsTrue(outbox)
<1> SUFFICES ASSUME NEW arm \in Arms
             PROVE  LET said(figure) == Answer(outbox, <<arm, figure>>) IN
                    /\ \A figure \in Figures : said(figure) \in Nat
                    /\ said("accepted") <= said("offered") /\ said("offered") <= said("sessions")
                    /\ said("total") >= 750 * said("orders")
                    /\ arm = "baseline" => said("offered") = 0 /\ said("total") = 750 * said("orders")
    BY DEF BoxIsTrue
<1>1. /\ Rows(outbox, <<arm, "sessions">>) = Events("session.started", arm)
      /\ Rows(outbox, <<arm, "orders">>) = Events("order.completed", arm)
      /\ Rows(outbox, <<arm, "offered">>) = Events("upsell.offered", arm)
      /\ Rows(outbox, <<arm, "accepted">>) = Events("upsell.accepted", arm)
    BY DEF Rows, Events, EventType
<1>2. PICK s, o, f, a, t :
        /\ s = Answer(outbox, <<arm, "sessions">>) /\ o = Answer(outbox, <<arm, "orders">>)
        /\ f = Answer(outbox, <<arm, "offered">>) /\ a = Answer(outbox, <<arm, "accepted">>)
        /\ t = Answer(outbox, <<arm, "total">>)
    OBVIOUS
<1>3. /\ s = Cardinality(Events("session.started", arm))
      /\ o = Cardinality(Events("order.completed", arm))
      /\ f = Cardinality(Events("upsell.offered", arm))
      /\ a = Cardinality(Events("upsell.accepted", arm))
      /\ t = Revenue(Events("order.completed", arm))
    BY <1>1, <1>2, AnswersAre DEF Figures
<1>4. s \in Nat /\ o \in Nat /\ f \in Nat /\ a \in Nat
    BY <1>3, EventsAreFinite
<1>5. a <= f /\ f <= s
    <2>1. \A e \in Events("upsell.accepted", arm) : HasEvent(e.session, "upsell.offered")
      BY DEF Events, SimOK, EventOK
    <2>2. \A e \in Events("upsell.offered", arm) : HasEvent(e.session, "session.started")
      BY DEF Events, SimOK, EventOK
    <2> QED
      BY <1>3, <2>1, <2>2, NoMoreEvents
<1>6. PICK E : E = Events("order.completed", arm)
    OBVIOUS
<1>7. IsFiniteSet(E) /\ (arm = "baseline" => \A e \in E : e.item = "base")
    <2>1. IsFiniteSet(E)
      BY <1>6, EventsAreFinite
    <2>2. \A e \in E : EventOK(e) /\ e.type = "order.completed" /\ e.arm = arm
      BY <1>6 DEF Events, SimOK
    <2> QED
      BY <2>1, <2>2 DEF EventOK
<1>8. t \in Nat /\ t >= 750 * o /\ (arm = "baseline" => t = 750 * o)
    BY <1>3, <1>6, <1>7, RevenueBounds
<1>9. arm = "baseline" => f = 0
    <2>1. arm = "baseline" => Events("upsell.offered", arm) = {}
      BY DEF Events, SimOK, EventOK
    <2> QED
      BY <1>3, <2>1, FS_EmptySet
<1>10. \A figure \in Figures : Answer(outbox, <<arm, figure>>) \in Nat
    BY <1>2, <1>4, <1>8 DEF Figures
<1> QED
    BY <1>2, <1>5, <1>8, <1>9, <1>10

\* No step takes an event out of the outbox.
LEMMA OutboxGrows ==
    ASSUME [Next]_vars
    PROVE  outbox \subseteq outbox'
<1>1. ASSUME NEW r \in Runs, RunStep(r) PROVE outbox' = outbox
    BY <1>1, Zenon DEF RunStep, Execute, Open, _seed_item, Quote, Mutate, Hash, Propose, set_source,
       Complete, _sweep_new_audit_entries, Tail_, Verify, Close
<1>2. ASSUME NEW r \in Runs, NEW k, start_demo_run(r, k) PROVE outbox' = outbox
    BY <1>2, Zenon DEF start_demo_run
<1>3. ASSUME NEW r \in Runs, Fail(r) PROVE outbox' = outbox
    BY <1>3, Zenon DEF Fail
<1>4. ASSUME Crash \/ SimKilled PROVE outbox' = outbox
    BY <1>4, Zenon DEF Crash, SimKilled
<1>5. ASSUME NEW c \in Customers, Buy(c) PROVE outbox' = outbox
    BY <1>5, Zenon DEF Buy
<1>6. ASSUME SimStep PROVE outbox \subseteq outbox'
    BY <1>6, Zenon DEF SimStep, SimSeed, SimStart, SimQuote, SimPropose, SimTag, SimComplete,
       SimReport, SimOffer, SimAccept, Emit
<1>7. CASE UNCHANGED vars
    BY <1>7 DEF vars
<1> QED
    BY <1>1, <1>2, <1>3, <1>4, <1>5, <1>6, <1>7 DEF Next

\* A reading goes on being one while the outbox grows.
LEMMA ReadingStays ==
    ASSUME NEW x, NEW b, NEW c, IsReading(x, b), b \subseteq c, IsFiniteSet(c)
    PROVE  IsReading(x, c)
<1>1. ASSUME NEW i \in 1..x.at, NEW q, q = Statement(i), q[2] # "total"
      PROVE  x.got[q] <= Answer(c, q)
  <2>1. q \in Queries /\ x.got \in [Queries -> Nat]
    BY <1>1, StatementsAre DEF IsReading
  <2>2. x.got[q] <= Answer(b, q) /\ x.got[q] \in Nat
    BY <1>1, <2>1 DEF IsReading
  <2>3. Answer(b, q) \in Nat /\ Answer(c, q) \in Nat /\ Answer(b, q) <= Answer(c, q)
    BY <1>1, <2>1, CountsGrow
  <2> QED
    BY <2>2, <2>3
<1>2. x.since \subseteq c /\ (x.since = c => x.still)
  <2>1. x.since \subseteq b /\ (x.since = b => x.still)
    BY DEF IsReading
  <2> QED
    BY <2>1
<1> QED
    BY <1>1, <1>2 DEF IsReading

\* What a reading is after a statement: its first, or one more.
LEMMA SelectIs ==
    ASSUME ReportOK, Select
    PROVE  \E i \in 1..10 : \E x, y :
             /\ report' = y
             /\ IF i = 1 THEN x = [NoReport EXCEPT !.since = outbox]
                ELSE x = report /\ x.at = i - 1
             /\ y = [x EXCEPT !.at = i, !.got[Statement(i)] = Answer(outbox, Statement(i)),
                              !.still = (outbox = x.since)]
<1>1. PICK i : i = IF report.at = 10 THEN 1 ELSE report.at + 1
    OBVIOUS
<1>2. report.at \in 0..10
    BY DEF ReportOK, IsReading
<1>3. i \in 1..10 /\ (i # 1 => report.at = i - 1)
    BY <1>1, <1>2
<1>4. PICK x : x = IF i = 1 THEN [NoReport EXCEPT !.since = outbox] ELSE report
    OBVIOUS
<1>5. report' = [x EXCEPT !.at = i, !.got[Statement(i)] = Answer(outbox, Statement(i)),
                          !.still = (outbox = x.since)]
    BY <1>1, <1>4, Zenon DEF Select
<1> QED
    BY <1>3, <1>4, <1>5, Zenon

\* A reading with one more statement is one.
LEMMA SelectReads ==
    ASSUME ReportOK, SimOK, IsTyped, Select
    PROVE  \E y : report' = y /\ IsReading(y, outbox)
<1>0. PICK i \in 1..10 : \E x, y :
        /\ report' = y
        /\ IF i = 1 THEN x = [NoReport EXCEPT !.since = outbox]
           ELSE x = report /\ x.at = i - 1
        /\ y = [x EXCEPT !.at = i, !.got[Statement(i)] = Answer(outbox, Statement(i)),
                         !.still = (outbox = x.since)]
    BY SelectIs
<1>1. PICK x, y :
        /\ i \in 1..10
        /\ report' = y
        /\ IF i = 1 THEN x = [NoReport EXCEPT !.since = outbox]
           ELSE x = report /\ x.at = i - 1
        /\ y = [x EXCEPT !.at = i, !.got[Statement(i)] = Answer(outbox, Statement(i)),
                         !.still = (outbox = x.since)]
    BY <1>0
<1>2. BoxIsTrue(outbox)
    BY OutboxIsTrue
<1>3. PICK q \in Queries : q = Statement(i)
    BY StatementsAre
<1>4. PICK a : a = Answer(outbox, q)
    OBVIOUS
<1>5. /\ x.got \in [Queries -> Nat] /\ x.since \subseteq outbox /\ BoxIsTrue(x.since)
      /\ DOMAIN x = DOMAIN NoReport /\ (x.since = outbox => x.still)
      /\ \A j \in 1..i-1 :
           LET p == Statement(j) IN
           /\ p[2] # "total" => x.got[p] <= Answer(outbox, p)
           /\ p[2] = "total" => x.got[p] >= 750 * x.got[<<p[1], "orders">>]
           /\ p = <<"baseline", "offered">> => x.got[p] = 0
           /\ x.still => x.got[p] = Answer(x.since, p)
  <2>1. CASE i = 1
    <3>1. x = [NoReport EXCEPT !.since = outbox]
      BY <1>1, <2>1
    <3>2. x.got = [p \in Queries |-> 0] /\ x.since = outbox /\ x.still = TRUE
          /\ DOMAIN x = DOMAIN NoReport
      BY <3>1 DEF NoReport
    <3> QED
      BY <1>2, <2>1, <3>2
  <2>2. CASE i # 1
    <3>1. x.at = i - 1 /\ x.at > 0 /\ IsReading(x, outbox)
      BY <1>1, <2>2 DEF ReportOK
    <3> QED
      BY <3>1 DEF IsReading
  <2> QED
    BY <2>1, <2>2
<1>6. PICK arm \in Arms, f \in Figures : q = <<arm, f>>
    BY <1>3 DEF Queries
<1>7. a \in Nat
    BY <1>2, <1>4, <1>6 DEF BoxIsTrue
<1>8. /\ y.at = i /\ y.got = [x.got EXCEPT ![q] = a] /\ y.since = x.since
      /\ y.still = (outbox = x.since) /\ DOMAIN y = DOMAIN NoReport
    BY <1>1, <1>3, <1>4, <1>5 DEF NoReport
<1>9. \A p \in Queries : y.got[p] = IF p = q THEN a ELSE x.got[p]
    BY <1>5, <1>8
<1>10. y.got \in [Queries -> Nat]
    BY <1>5, <1>7, <1>8
<1>11. ASSUME NEW j \in 1..i, NEW p, p = Statement(j)
       PROVE  /\ p[2] # "total" => y.got[p] <= Answer(outbox, p)
              /\ p[2] = "total" => y.got[p] >= 750 * y.got[<<p[1], "orders">>]
              /\ p = <<"baseline", "offered">> => y.got[p] = 0
              /\ y.still => y.got[p] = Answer(y.since, p)
  <2>1. p \in Queries /\ j \in 1..10 /\ (j # i => j \in 1..i-1)
    BY <1>11, StatementsAre
  <2>2. PICK o : o = <<p[1], "orders">>
    OBVIOUS
  <2>3. o \in Queries /\ o[2] # "total" /\ o[1] = p[1] /\ o[2] = "orders"
    BY <2>1, <2>2 DEF Queries, Figures
  <2>4. p[2] = "total" =>
          /\ o # q /\ y.got[o] = x.got[o]
          /\ x.got[o] <= Answer(outbox, o)
    <3> SUFFICES ASSUME p[2] = "total"
                 PROVE  o # q /\ y.got[o] = x.got[o] /\ x.got[o] <= Answer(outbox, o)
      OBVIOUS
    <3>1. PICK k \in 1..j-1 : Statement(k) = o
      BY <1>11, <2>1, <2>2, StatementsAre
    <3>2. k \in 1..10 /\ k # i /\ k \in 1..i-1
      BY <2>1, <3>1
    <3>3. o # q
      BY <1>3, <3>1, <3>2, StatementsAre
    <3>4. x.got[o] <= Answer(outbox, o)
      BY <1>5, <2>3, <3>1, <3>2
    <3> QED
      BY <1>9, <2>3, <3>3, <3>4
  <2>5. CASE j # i
    <3>1. p # q
      BY <1>3, <1>11, <2>1, <2>5, StatementsAre
    <3>2. y.got[p] = x.got[p]
      BY <1>9, <2>1, <3>1
    <3>3. y.still => x.still
      BY <1>5, <1>8
    <3>4. /\ p[2] # "total" => x.got[p] <= Answer(outbox, p)
          /\ p[2] = "total" => x.got[p] >= 750 * x.got[o]
          /\ p = <<"baseline", "offered">> => x.got[p] = 0
          /\ x.still => x.got[p] = Answer(x.since, p)
      BY <1>5, <1>11, <2>1, <2>2, <2>5
    <3> QED
      BY <1>8, <2>2, <2>4, <3>2, <3>3, <3>4
  <2>6. CASE j = i
    <3>1. p = q /\ y.got[p] = a
      BY <1>3, <1>9, <1>11, <2>6
    <3>2. p[2] = "total" => a >= 750 * y.got[o]
      <4> SUFFICES ASSUME p[2] = "total" PROVE a >= 750 * y.got[o]
        OBVIOUS
      <4>1. p = <<arm, "total">> /\ o = <<arm, "orders">>
        BY <1>6, <2>2, <3>1
      <4>2. /\ Answer(outbox, <<arm, "orders">>) \in Nat
            /\ Answer(outbox, <<arm, "total">>) >= 750 * Answer(outbox, <<arm, "orders">>)
        BY <1>2 DEF BoxIsTrue, Figures
      <4>3. PICK m : m = Answer(outbox, o)
        OBVIOUS
      <4>4. m \in Nat /\ a >= 750 * m
        BY <1>4, <3>1, <4>1, <4>2, <4>3
      <4>5. y.got[o] <= m /\ y.got[o] \in Nat
        BY <1>10, <2>3, <2>4, <4>3
      <4> QED
        BY <1>7, <4>4, <4>5
    <3>3. p = <<"baseline", "offered">> => a = 0
      <4>1. Answer(outbox, <<"baseline", "offered">>) = 0
        BY <1>2 DEF BoxIsTrue, Arms
      <4> QED
        BY <1>4, <3>1, <4>1
    <3>4. y.still => a = Answer(y.since, p)
      BY <1>4, <1>8, <3>1
    <3>5. a <= Answer(outbox, p)
      BY <1>4, <1>7, <3>1
    <3> QED
      BY <2>2, <3>1, <3>2, <3>3, <3>4, <3>5
  <2> QED
    BY <2>5, <2>6
<1>12. y.at \in 0..10 /\ y.still \in BOOLEAN /\ (y.since = outbox => y.still)
  <2>1. y.at \in 0..10
    BY <1>8
  <2>2. y.still \in BOOLEAN /\ (y.since = outbox => y.still)
    BY <1>8, Zenon
  <2> QED
    BY <2>1, <2>2
<1>13. IsReading(y, outbox)
    BY <1>5, <1>8, <1>10, <1>11, <1>12 DEF IsReading
<1> QED
    BY <1>1, <1>13

\* What is read of the metrics is read beside the lab, and disturbs nothing.
LEMMA ReadingsAreBeside == MetricsSpec => Lab
<1>1. [MetricsNext]_<<vars, report>> => [Next]_vars
    BY DEF MetricsNext
<1> QED
    BY <1>1, PTL DEF MetricsSpec, MetricsInit, Lab

\* A reading is one at every step.
LEMMA ReadingStep ==
    ASSUME ReportOK, IsTyped, SimOK, SimOK', [MetricsNext]_<<vars, report>>
    PROVE  ReportOK'
<1>1. PICK c : c = outbox'
    OBVIOUS
<1>2. CASE UNCHANGED report /\ [Next]_vars
  <2>1. outbox \subseteq c /\ IsFiniteSet(c)
    BY <1>1, <1>2, OutboxGrows DEF SimOK
  <2>2. IsReading(report, c)
    BY <2>1, ReadingStays DEF ReportOK
  <2> QED
    BY <1>1, <1>2, <2>2 DEF ReportOK
<1>3. CASE Select /\ UNCHANGED vars
  <2>1. PICK y : report' = y /\ IsReading(y, outbox)
    BY <1>3, SelectReads
  <2>2. outbox' = outbox
    BY <1>3 DEF vars
  <2> QED
    BY <2>1, <2>2 DEF ReportOK
<1> QED
    BY <1>2, <1>3 DEF MetricsNext

\* A finished reading during which no event was written is consistent.
LEMMA StillIsConsistent ==
    ASSUME ReportOK, report.at = 10, report.still
    PROVE  IsConsistent
<1>1. BoxIsTrue(report.since)
    BY DEF ReportOK, IsReading
<1>2. \A q \in Queries : report.got[q] = Answer(report.since, q)
    BY StatementsAre DEF ReportOK, IsReading
<1>3. \A arm \in Arms, f \in Figures : Got(arm, f) = Answer(report.since, <<arm, f>>)
    BY <1>2 DEF Got, Queries
<1>4. ASSUME NEW arm \in Arms
      PROVE  /\ \A f \in Figures : Got(arm, f) \in Nat
             /\ Got(arm, "accepted") <= Got(arm, "offered")
             /\ Got(arm, "offered") <= Got(arm, "sessions")
             /\ Got(arm, "total") >= 750 * Got(arm, "orders")
             /\ arm = "baseline" => Got(arm, "total") = 750 * Got(arm, "orders")
  <2>1. PICK s, o, f, a, t :
          /\ s = Answer(report.since, <<arm, "sessions">>) /\ o = Answer(report.since, <<arm, "orders">>)
          /\ f = Answer(report.since, <<arm, "offered">>) /\ a = Answer(report.since, <<arm, "accepted">>)
          /\ t = Answer(report.since, <<arm, "total">>)
    OBVIOUS
  <2>2. /\ a <= f /\ f <= s /\ t >= 750 * o
        /\ arm = "baseline" => t = 750 * o
    BY <1>1, <2>1 DEF BoxIsTrue
  <2>3. \A g \in Figures : Answer(report.since, <<arm, g>>) \in Nat
    BY <1>1 DEF BoxIsTrue
  <2>4. /\ Got(arm, "sessions") = s /\ Got(arm, "orders") = o /\ Got(arm, "offered") = f
        /\ Got(arm, "accepted") = a /\ Got(arm, "total") = t
    BY <1>3, <2>1 DEF Figures
  <2>5. \A g \in Figures : Got(arm, g) \in Nat
    BY <1>3, <2>3
  <2> QED
    BY <2>2, <2>4, <2>5
<1>5. ASSUME revenue_uplift # None PROVE revenue_uplift >= 0
  <2>1. PICK a, m, b, n : /\ a = Got("upsell", "total") /\ m = Got("upsell", "orders")
                          /\ b = Got("baseline", "total") /\ n = Got("baseline", "orders")
    OBVIOUS
  <2>2. /\ aov_minor("upsell") # None /\ aov_minor("baseline") # None
        /\ revenue_uplift = aov_minor("upsell") - aov_minor("baseline")
    BY <1>5 DEF revenue_uplift, Arms
  <2>3. /\ m # 0 /\ n # 0
        /\ aov_minor("upsell") = a \div m /\ aov_minor("baseline") = b \div n
    BY <2>1, <2>2 DEF aov_minor
  <2>4. /\ a \in Nat /\ m \in Nat /\ b \in Nat /\ n \in Nat
        /\ a >= 750 * m /\ b = 750 * n
    BY <1>4, <2>1 DEF Arms, Figures
  <2>5. a \div m >= 750 /\ a \div m \in Int /\ b \div n = 750
    BY <2>3, <2>4, MeanBounds
  <2> QED
    BY <2>2, <2>3, <2>5
<1> QED
    BY <1>4, <1>5 DEF IsConsistent

\* A finished reading counts nothing that did not happen, offers nothing in
\* the baseline and puts no average under the price of the base item.
LEMMA FinishedIsTrue ==
    ASSUME ReportOK, report.at = 10
    PROVE  /\ \A q \in Queries : q[2] # "total" => report.got[q] <= Answer(outbox, q)
           /\ \A arm \in Arms : aov_minor(arm) # None => aov_minor(arm) >= 750
           /\ attach_rate("baseline") = None
<1>1. \A q \in Queries :
        /\ q[2] # "total" => report.got[q] <= Answer(outbox, q)
        /\ q[2] = "total" => report.got[q] >= 750 * report.got[<<q[1], "orders">>]
        /\ q = <<"baseline", "offered">> => report.got[q] = 0
    BY StatementsAre DEF ReportOK, IsReading
<1>2. ASSUME NEW arm \in Arms, aov_minor(arm) # None PROVE aov_minor(arm) >= 750
  <2>1. PICK a, m : a = Got(arm, "total") /\ m = Got(arm, "orders")
    OBVIOUS
  <2>2. /\ <<arm, "total">> \in Queries /\ <<arm, "orders">> \in Queries
        /\ report.got \in [Queries -> Nat]
    BY DEF Queries, Figures, ReportOK, IsReading
  <2>3. a \in Nat /\ m \in Nat /\ a >= 750 * m
    BY <1>1, <2>1, <2>2 DEF Got
  <2>4. m # 0 /\ aov_minor(arm) = a \div m
    BY <1>2, <2>1 DEF aov_minor
  <2> QED
    BY <2>3, <2>4, MeanBounds
<1>3. attach_rate("baseline") = None
  <2>1. <<"baseline", "offered">> \in Queries
    BY DEF Queries, Arms, Figures
  <2> QED
    BY <1>1, <2>1 DEF attach_rate, Got
<1> QED
    BY <1>1, <1>2, <1>3

\* What compute_growth_metrics reports was sold, for any number of sessions,
\* wherever the command is killed and whatever events come in between the
\* statements of a reading; and what a reading says is consistent if none does.
THEOREM MetricsStayTrue == MetricsSpec => []MetricsAreTrue
<1>1. Init /\ report = NoReport => ReportOK
  <2> SUFFICES ASSUME Init, report = NoReport PROVE IsReading(NoReport, outbox)
    BY DEF ReportOK
  <2> QED
    BY DEF IsReading, NoReport
<1>2. ReportOK /\ IsTyped /\ SimOK /\ SimOK' /\ [MetricsNext]_<<vars, report>> => ReportOK'
    BY ReadingStep
<1>3. ReportOK /\ SimOK => MetricsAreTrue
    BY FinishedIsTrue, StillIsConsistent, ReportedIsSold DEF MetricsAreTrue
<1> QED
    BY <1>1, <1>2, <1>3, ReadingsAreBeside, TypedAlways, SimAlways, PTL
    DEF MetricsSpec, MetricsInit
=============================================================================
