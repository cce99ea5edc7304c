-------------------------- MODULE StoredCase_proofs --------------------------
(***************************************************************************)
(* What StoredCase promises of the tables, proved for every instance.      *)
(* First, that a save writes enough: after every operation the tables hold *)
(* every part of the case, whatever the clock shows, although most columns *)
(* are written once.  It rests on rows that have keys of their own.        *)
(* Then, that a load puts the same case together and that the list of      *)
(* batches is in order, when writes are a second or more apart: rows come  *)
(* back in the order of times as text.                                     *)
(***************************************************************************)
EXTENDS StoredCase, CaseHistory_proofs

-----------------------------------------------------------------------------
(* The order of rows.                                                      *)

\* The texts of times that are a second or more apart sort like the times.
LEMMA SecondsSort ==
  ASSUME NEW a \in Nat, NEW b \in Nat, a + 100 <= b
  PROVE  SortsBefore(TimeText(a), TimeText(b)) /\ ~SortsBefore(TimeText(b), TimeText(a))
<1>1. ASSUME NEW time \in Nat
      PROVE  DOMAIN TimeText(time) = 1..3 /\ TimeText(time)[1] = time \div 100
  BY DEF TimeText
<1>2. a \div 100 \in Nat /\ b \div 100 \in Nat /\ a \div 100 < b \div 100
  OBVIOUS
<1>3. ASSUME NEW s, NEW t, DOMAIN s = 1..3, DOMAIN t = 1..3, s[1] \in Nat, t[1] \in Nat, s[1] < t[1]
      PROVE  SortsBefore(s, t) /\ ~SortsBefore(t, s)
  <2>1. 1 \in DOMAIN s /\ \A j \in 1..(1 - 1) : s[j] = t[j]
    BY <1>3
  <2>2. ASSUME NEW i \in DOMAIN t, \A j \in 1..(i - 1) : t[j] = s[j]
        PROVE  ~(t[i] < s[i])
    <3>1. i = 1
      <4>1. i \in 1..3 /\ (i # 1 => 1 \in 1..(i - 1))
        BY <1>3
      <4> QED
        BY <1>3, <2>2, <4>1
    <3> QED
      BY <1>3, <3>1
  <2> QED
    BY <1>3, <2>1, <2>2 DEF SortsBefore
<1> QED
  BY <1>1, <1>2, <1>3

\* No text sorts before itself.
LEMMA TextAfterItself ==
  ASSUME NEW time \in Nat
  PROVE  ~SortsBefore(TimeText(time), TimeText(time))
<1> DEFINE s == TimeText(time)
<1>1. \A i \in DOMAIN s : s[i] \in Int
  BY DEF TimeText, Z
<1>2. \A i \in DOMAIN s : ~(s[i] < s[i])
  BY <1>1
<1> HIDE DEF s
<1>3. ~SortsBefore(s, s)
  BY <1>2 DEF SortsBefore
<1> QED
  BY <1>3 DEF s

\* How many numbers come before one of 1..N, counted up and counted down.
LEMMA Ranks ==
  ASSUME NEW N \in Nat
  PROVE  /\ Cardinality(1..N) = N
         /\ \A n \in 1..N : /\ Cardinality({m \in 1..N : m < n}) = n - 1
                            /\ Cardinality({m \in 1..N : m > n}) = N - n
<1>1. Cardinality(1..N) = N
  BY FS_Interval
<1>2. ASSUME NEW n \in 1..N
      PROVE  /\ Cardinality({m \in 1..N : m < n}) = n - 1
             /\ Cardinality({m \in 1..N : m > n}) = N - n
  <2>1. /\ {m \in 1..N : m < n} = 1..(n - 1)
        /\ {m \in 1..N : m > n} = (n + 1)..N
    OBVIOUS
  <2>2. Cardinality(1..(n - 1)) = n - 1
    BY FS_Interval
  <2>3. Cardinality((n + 1)..N) = IF n + 1 > N THEN 0 ELSE N - (n + 1) + 1
    BY FS_Interval
  <2>4. Cardinality((n + 1)..N) = N - n
    BY <2>3
  <2>5. Cardinality({m \in 1..N : m < n}) = n - 1
    BY <2>1, <2>2
  <2>6. Cardinality({m \in 1..N : m > n}) = N - n
    BY <2>1, <2>4
  <2> QED
    BY <2>5, <2>6
<1> QED
  BY <1>1, <1>2

\* Rows each of which is a second or more later than those before it.
Ascending(times, N) ==
  /\ DOMAIN times = 1..N
  /\ \A n \in 1..N : times[n] \in Nat
  /\ \A m, n \in 1..N : m < n => times[m] + 100 <= times[n]

\* They come back in the order in which they were written.
LEMMA AscendingInOrder ==
  ASSUME NEW times, NEW N \in Nat, Ascending(times, N)
  PROVE  InOrder(times) = [k \in 1..N |-> k]
<1> DEFINE Before(m, n) == \/ SortsBefore(TimeText(times[m]), TimeText(times[n]))
                           \/ times[m] = times[n] /\ m < n
           First(n) == {m \in 1..N : Before(m, n)}
<1>1. ASSUME NEW m \in 1..N, NEW n \in 1..N
      PROVE  Before(m, n) <=> m < n
  <2>1. /\ times[m] \in Nat /\ times[n] \in Nat
        /\ m < n => times[m] + 100 <= times[n]
        /\ n < m => times[n] + 100 <= times[m]
    BY DEF Ascending
  <2>2. CASE m < n
    BY <2>1, <2>2, SecondsSort
  <2>3. CASE n < m
    <3>1. ~SortsBefore(TimeText(times[m]), TimeText(times[n])) /\ times[m] # times[n]
      BY <2>1, <2>3, SecondsSort
    <3> QED
      BY <2>3, <3>1
  <2>4. CASE m = n
    <3>1. ~SortsBefore(TimeText(times[m]), TimeText(times[m]))
      BY <2>1, TextAfterItself
    <3> QED
      BY <2>4, <3>1
  <2> QED
    BY <2>2, <2>3, <2>4
<1>2. ASSUME NEW n \in 1..N
      PROVE  Cardinality(First(n)) = n - 1
  <2>1. First(n) = {m \in 1..N : m < n}
    BY <1>1
  <2> QED
    BY <2>1, Ranks
<1>3. InOrder(times) = [k \in 1..Cardinality(1..N) |-> CHOOSE n \in 1..N : Cardinality(First(n)) = k - 1]
  BY DEF InOrder, Ordered, Ascending
<1>4. ASSUME NEW k \in 1..N
      PROVE  (CHOOSE n \in 1..N : Cardinality(First(n)) = k - 1) = k
  BY <1>2
<1> QED
  BY <1>3, <1>4, Ranks

-----------------------------------------------------------------------------
(* What keeps rows apart: the keys of findings and of issues.              *)

\* The severity of a hit is that of its rule.
SeverityOf(code) == IF code \in {"POINT_OWN_MARGIN", "POINT_MARGIN"} THEN WARNING ELSE BLOCKING

\* No rule has two severities.
LEMMA SeverityFollowsCode ==
  ASSUME NEW pts, NEW qs, NEW limit, NEW h \in Evaluate(pts, qs, limit)
  PROVE  h.severity = SeverityOf(h.code)
<1> DEFINE Fair(hits) == \A x \in hits : x.severity = SeverityOf(x.code)
<1>1. ASSUME NEW code, NEW severity, NEW refs
      PROVE  Hit(code, severity, refs).code = code /\ Hit(code, severity, refs).severity = severity
  BY DEF Hit
<1>2. Fair(StructureHits(pts)) /\ Fair(UnrootedHits(pts))
  <2>1. ASSUME NEW code \in {"ORPHAN_PARENT", "CONNECTION_CYCLE", "UNROOTED_POINT"}, NEW refs
        PROVE  Hit(code, BLOCKING, refs).severity = SeverityOf(Hit(code, BLOCKING, refs).code)
    BY <1>1 DEF SeverityOf
  <2>2. Fair(StructureHits(pts))
    BY <2>1 DEF StructureHits
  <2>3. Fair(UnrootedHits(pts))
    BY <2>1 DEF UnrootedHits
  <2> QED
    BY <2>2, <2>3
<1>3. ASSUME NEW over, NEW close, NEW p, NEW load, NEW refs,
             SeverityOf(over) = BLOCKING, SeverityOf(close) = WARNING
      PROVE  Fair(CapacityHits(over, close, p, load, refs))
  BY <1>1, <1>3 DEF CapacityHits
<1>4. /\ SeverityOf("POINT_OWN_CAPACITY") = BLOCKING /\ SeverityOf("POINT_OWN_MARGIN") = WARNING
      /\ SeverityOf("POINT_CAPACITY") = BLOCKING /\ SeverityOf("POINT_MARGIN") = WARNING
      /\ SeverityOf("CALCULATION_OVERFLOW") = BLOCKING
  BY DEF SeverityOf
<1>5. ASSUME NEW id PROVE Fair(OwnHits(pts, id)) /\ Fair(CascadeHits(pts, id))
  <2>1. Fair({Hit("CALCULATION_OVERFLOW", BLOCKING, {id})})
    BY <1>1, <1>4
  <2>2. Fair(OwnHits(pts, id))
    BY <1>3, <1>4, <2>1 DEF OwnHits
  <2>3. Fair(CascadeHits(pts, id))
    BY <1>3, <1>4, <2>1 DEF CascadeHits
  <2> QED
    BY <2>2, <2>3
<1>6. Fair(LoadHits(pts))
  BY <1>5 DEF LoadHits
<1>7. Fair(VenueHits(pts, limit)) /\ Fair(MutexHits(qs)) /\ Fair(RequiredHits(pts, qs))
  BY <1>1 DEF VenueHits, MutexHits, RequiredHits, SeverityOf
<1> HIDE DEF Fair
<1>8. Fair(Evaluate(pts, qs, limit))
  BY <1>2, <1>6, <1>7 DEF Evaluate, Fair
<1> QED
  BY <1>8 DEF Fair

\* No two findings are identified alike, of whatever source.
FindingsDiffer == \A f, g \in findings : Key(f) = Key(g) => f = g

\* A finding of a validation names a batch of the case.
OriginsAreBatches ==
  \A f \in findings : f.source = "VALIDATION" => f.origin \in DOMAIN batches

\* A batch has one issue by each code and references.
OneOfEach(issues) == \A i, j \in issues : Identity(i) = Identity(j) => i = j

\* In every batch the issues have rows of their own.
IssuesDiffer == \A n \in DOMAIN batches : OneOfEach(batches[n].issues)

\* What keeps the rows of a case apart.
RowsDiffer == FindingsDiffer /\ OriginsAreBatches /\ IssuesDiffer

\* A validation brings in issues that differ, if those of the batch before do.
LEMMA NewIssuesDiffer ==
  ASSUME NEW hits, \A h \in hits : h.severity = SeverityOf(h.code),
         NEW previous, OneOfEach(previous)
  PROVE  OneOfEach(IssuesAfter(hits, previous))
<1> DEFINE State(h) == IF \E p \in previous : Identity(p) = Identity(h) THEN "PERSISTING" ELSE "NEW"
<1>1. \A h, state : Identity(Issue(h, state)) = Identity(h)
  BY DEF Identity, Issue
<1>2. ASSUME NEW h \in hits, NEW g \in hits, Identity(h) = Identity(g)
      PROVE  Issue(h, State(h)) = Issue(g, State(g))
  <2>1. h.code = g.code /\ h.refs = g.refs /\ h.severity = g.severity
    BY <1>2 DEF Identity
  <2>2. State(h) = State(g)
    BY <1>2
  <2> QED
    BY <2>1, <2>2 DEF Issue
<1>3. ASSUME NEW p \in previous, NEW q \in previous, Identity(p) = Identity(q)
      PROVE  Issue(p, "RESOLVED") = Issue(q, "RESOLVED")
  BY <1>3 DEF OneOfEach
<1>4. ASSUME NEW i \in IssuesAfter(hits, previous)
      PROVE  \/ \E h \in hits : i = Issue(h, State(h))
             \/ \E p \in previous : i = Issue(p, "RESOLVED") /\ \A h \in hits : Identity(p) # Identity(h)
  BY DEF IssuesAfter
<1> HIDE DEF State
<1> QED
  BY <1>1, <1>2, <1>3, <1>4 DEF OneOfEach

\* In every step rows stay apart.
LEMMA RowsStayApart ==
  TypeInv /\ RunsMatchFindings /\ RowsDiffer /\ [Next]_vars => RowsDiffer'
<1> SUFFICES ASSUME TypeInv, RunsMatchFindings, RowsDiffer, [Next]_vars
             PROVE  RowsDiffer'
  OBVIOUS
<1>0. /\ TypeOK /\ batches \in Seq(Batches) /\ findings \subseteq Findings
      /\ FindingsDiffer /\ OriginsAreBatches /\ IssuesDiffer
  BY DEF TypeInv, TypeOK, RowsDiffer
<1>a. ASSUME NEW f, NEW g
      PROVE  Key(f) = Key(g) => /\ f.source = g.source /\ f.origin = g.origin
                                /\ f.code = g.code /\ f.refs = g.refs
  BY DEF Key
<1>b. ASSUME NEW f \in findings
      PROVE  /\ Key([f EXCEPT !.status = "CLOSED"]) = Key(f)
             /\ [f EXCEPT !.status = "CLOSED"].source = f.source
             /\ [f EXCEPT !.status = "CLOSED"].origin = f.origin
  BY <1>0 DEF Key, Findings
<1>1. ASSUME RunValidation
      PROVE  RowsDiffer'
  <2> DEFINE hits == Evaluate(points, cues, VenueLimit)
             last == Len(batches)
             found == {Finding("VALIDATION", last + 1, Blank, h) : h \in hits}
             kept == CloseOpenValidations(findings)
             batch == [version |-> version, baseline |-> Baseline, final |-> Verdict(hits),
                       stale |-> FALSE, changed |-> {},
                       issues |-> IssuesAfter(hits, PreviousIssues)]
  <2>1. findings' = kept \cup found /\ batches' = Append(batches, batch)
    BY <1>1 DEF RunValidation
  <2>2. \A h \in hits : h.severity = SeverityOf(h.code)
    BY SeverityFollowsCode
  <2>3. batch.issues = IssuesAfter(hits, PreviousIssues)
    OBVIOUS
  <2> HIDE DEF hits, batch
  <2>4. /\ last \in Nat /\ DOMAIN batches = 1..last /\ DOMAIN batches' = 1..(last + 1)
        /\ \A n \in 1..last : batches'[n] = batches[n]
        /\ batches'[last + 1] = batch
    BY <1>0, <2>1
  <2> HIDE DEF last
  <2>5. \A f \in found : f.source = "VALIDATION" /\ f.origin = last + 1
    BY DEF Finding
  <2>6. ASSUME NEW f \in found, NEW g \in found, Key(f) = Key(g)
        PROVE  f = g
    <3>1. PICK h \in hits : f = Finding("VALIDATION", last + 1, Blank, h)
      OBVIOUS
    <3>2. PICK i \in hits : g = Finding("VALIDATION", last + 1, Blank, i)
      OBVIOUS
    <3>3. h.code = i.code /\ h.refs = i.refs
      BY <1>a, <2>6, <3>1, <3>2 DEF Finding
    <3>4. h.severity = i.severity
      BY <2>2, <3>3
    <3> QED
      BY <3>1, <3>2, <3>3, <3>4 DEF Finding
  <2>7. ASSUME NEW f \in kept
        PROVE  \E g \in findings : /\ f = g \/ (f = [g EXCEPT !.status = "CLOSED"])
                                   /\ Key(f) = Key(g) /\ f.source = g.source /\ f.origin = g.origin
                                   /\ f = IF g.source = "VALIDATION" /\ g.status = "OPEN"
                                          THEN [g EXCEPT !.status = "CLOSED"] ELSE g
    BY <1>b DEF CloseOpenValidations
  <2>8. \A f, g \in kept : Key(f) = Key(g) => f = g
    BY <1>0, <2>7 DEF FindingsDiffer
  <2> HIDE DEF found, kept
  <2>9. \A f \in kept : f.source = "VALIDATION" => f.origin \in 1..last
    BY <1>0, <2>4, <2>7 DEF OriginsAreBatches
  <2>10. \A f \in kept, g \in found : Key(f) # Key(g)
    BY <1>a, <2>4, <2>5, <2>9
  <2>11. FindingsDiffer'
    BY <2>1, <2>6, <2>8, <2>10 DEF FindingsDiffer
  <2>12. OriginsAreBatches'
    BY <2>1, <2>4, <2>5, <2>9 DEF OriginsAreBatches
  <2>13. OneOfEach(PreviousIssues)
    <3>1. CASE last = 0
      <4>1. PreviousIssues = {}
        BY <1>0, <3>1 DEF PreviousIssues, last
      <4> QED
        BY <4>1 DEF OneOfEach
    <3>2. CASE last # 0
      <4>1. PreviousIssues \subseteq batches[last].issues /\ last \in DOMAIN batches
        BY <1>0, <2>4, <3>2 DEF PreviousIssues, LatestBatch, Unresolved, last
      <4> QED
        BY <1>0, <4>1 DEF OneOfEach, IssuesDiffer
    <3> QED
      BY <3>1, <3>2
  <2>14. OneOfEach(batch.issues)
    BY <2>2, <2>3, <2>13, NewIssuesDiffer
  <2>15. IssuesDiffer'
    BY <1>0, <2>4, <2>14 DEF IssuesDiffer
  <2> QED
    BY <2>11, <2>12, <2>15 DEF RowsDiffer
<1>2. ASSUME NEW n \in DOMAIN runs, NEW legacy \in LegacyInputs, CompleteRehearsal(n, legacy)
      PROVE  RowsDiffer'
  <2> DEFINE results == Record(runs[n].results, legacy)
             found == Found(n, results)
  <2>1. /\ findings' = findings \cup found
        /\ runs[n].outcome = "PENDING"
        /\ UNCHANGED batches
    BY <1>2 DEF CompleteRehearsal, CompletionOK, Found, PendingRun
  <2>2. /\ \A f \in found : f.source = "REHEARSAL" /\ f.origin = n
        /\ \A f, g \in found : Key(f) = Key(g) => f = g
    BY CompletionFindings
  <2> HIDE DEF found
  <2>3. \A f \in findings, g \in found : Key(f) # Key(g)
    <3>1. ~\E f \in findings : f.source = "REHEARSAL" /\ f.origin = n
      BY <2>1 DEF RunsMatchFindings, BlockedRunsLeaveFindings
    <3> QED
      BY <1>a, <2>2, <3>1
  <2>4. FindingsDiffer'
    BY <1>0, <2>1, <2>2, <2>3 DEF FindingsDiffer
  <2>5. OriginsAreBatches' /\ IssuesDiffer'
    BY <1>0, <2>1, <2>2 DEF OriginsAreBatches, IssuesDiffer
  <2> QED
    BY <2>4, <2>5 DEF RowsDiffer
<1>3. ASSUME NEW f \in findings, NEW input \in CueResults \cup {NoResult},
             AttemptRemediation(f, input)
      PROVE  RowsDiffer'
  <2> DEFINE closedOne == [f EXCEPT !.status = "CLOSED"]
  <2>1. /\ findings' = findings \/ findings' = (findings \ {f}) \cup {closedOne}
        /\ UNCHANGED batches
    BY <1>3 DEF AttemptRemediation
  <2>2. Key(closedOne) = Key(f) /\ closedOne.source = f.source /\ closedOne.origin = f.origin
    BY <1>b
  <2> HIDE DEF closedOne
  <2>3. FindingsDiffer'
    BY <1>0, <2>1, <2>2 DEF FindingsDiffer
  <2>4. OriginsAreBatches' /\ IssuesDiffer'
    BY <1>0, <2>1, <2>2 DEF OriginsAreBatches, IssuesDiffer
  <2> QED
    BY <2>3, <2>4 DEF RowsDiffer
<1>4. ASSUME NEW refs \in SUBSET (PointIds \cup CueIds), batches' = MarkStale(refs), UNCHANGED findings
      PROVE  RowsDiffer'
  <2>1. /\ DOMAIN batches' = DOMAIN batches
        /\ \A i \in DOMAIN batches : batches'[i].issues = batches[i].issues
    BY <1>0, <1>4, MarkingKeepsBatches
  <2> QED
    BY <1>0, <1>4, <2>1 DEF RowsDiffer, FindingsDiffer, OriginsAreBatches, IssuesDiffer
<1>5. CASE UNCHANGED <<findings, batches>>
  BY <1>0, <1>5 DEF RowsDiffer, FindingsDiffer, OriginsAreBatches, IssuesDiffer
<1>6. ASSUME NEW changes \in ChangeSetInputs, ApplyChangeSet(changes)
      PROVE  RowsDiffer'
  <2>1. /\ changes.points \subseteq Items(PointIds, PointValues)
        /\ changes.cues \subseteq Items(CueIds, CueValues)
    BY CaseAssumption
  <2>2. Changed(points, changes.points) \cup Changed(cues, changes.cues)
          \in SUBSET (PointIds \cup CueIds)
    BY <2>1 DEF Changed, Ids, Items
  <2>3. /\ findings' = findings
        /\ batches' = MarkStale(Changed(points, changes.points) \cup Changed(cues, changes.cues))
    BY <1>6 DEF ApplyChangeSet
  <2> QED
    BY <1>4, <2>2, <2>3
<1>7. StartRehearsal \/ Release \/ UNCHANGED vars
       \/ (\E n \in DOMAIN runs, r \in CueResults : SaveCueResult(n, r))
        => UNCHANGED <<findings, batches>>
  BY DEF StartRehearsal, SaveCueResult, Release, vars
<1> QED
  BY <1>1, <1>2, <1>3, <1>5, <1>6, <1>7 DEF Next

-----------------------------------------------------------------------------
(* What a step does to the history.                                        *)

\* A list of the history gets at most one entry more.
Grows(old, new) == Len(new) \in {Len(old), Len(old) + 1}

\* In every operation each list gets at most one entry, and the case a new version.
LEMMA StepGrows ==
  ASSUME TypeInv, Next
  PROVE  /\ version' = version + 1
         /\ Grows(runs, runs') /\ Grows(attempts, attempts') /\ Grows(batches, batches')
<1>0. runs \in Seq(Runs) /\ attempts \in Seq(Attempts) /\ batches \in Seq(Batches)
  BY DEF TypeInv, TypeOK
<1>a. ASSUME NEW S, NEW s \in Seq(S), NEW x
      PROVE  Len(Append(s, x)) = Len(s) + 1
  OBVIOUS
<1>b. ASSUME NEW S, NEW s \in Seq(S), NEW n, NEW x
      PROVE  Len([s EXCEPT ![n] = x]) = Len(s)
  OBVIOUS
<1>1. ASSUME NEW changes \in ChangeSetInputs, ApplyChangeSet(changes)
      PROVE  /\ version' = version + 1 /\ UNCHANGED <<runs, attempts>>
             /\ Len(batches') = Len(batches)
  <2>1. /\ version' = version + 1 /\ UNCHANGED <<runs, attempts>>
        /\ batches' = MarkStale(Changed(points, changes.points) \cup Changed(cues, changes.cues))
    BY <1>1 DEF ApplyChangeSet, Bump
  <2>2. \A refs : Len(MarkStale(refs)) = Len(batches)
    BY <1>0, <1>b DEF MarkStale
  <2> QED
    BY <2>1, <2>2
<1>2. ASSUME RunValidation
      PROVE  /\ version' = version + 1 /\ UNCHANGED <<runs, attempts>>
             /\ Len(batches') = Len(batches) + 1
  BY <1>0, <1>2, <1>a DEF RunValidation, Bump
<1>3. ASSUME StartRehearsal
      PROVE  /\ version' = version + 1 /\ UNCHANGED <<batches, attempts>>
             /\ Len(runs') = Len(runs) + 1
  BY <1>0, <1>3, <1>a DEF StartRehearsal, Bump
<1>4. ASSUME NEW n \in DOMAIN runs, NEW r \in CueResults, SaveCueResult(n, r)
      PROVE  /\ version' = version + 1 /\ UNCHANGED <<batches, attempts>>
             /\ Len(runs') = Len(runs)
  BY <1>0, <1>4, <1>b DEF SaveCueResult, Bump
<1>5. ASSUME NEW n \in DOMAIN runs, NEW legacy \in LegacyInputs, CompleteRehearsal(n, legacy)
      PROVE  /\ version' = version + 1 /\ UNCHANGED <<batches, attempts>>
             /\ Len(runs') = Len(runs)
  BY <1>0, <1>5, <1>b DEF CompleteRehearsal, Bump
<1>6. ASSUME NEW f \in findings, NEW input \in CueResults \cup {NoResult}, AttemptRemediation(f, input)
      PROVE  /\ version' = version + 1 /\ UNCHANGED <<batches, runs>>
             /\ Len(attempts') = Len(attempts) + 1
  BY <1>0, <1>6, <1>a DEF AttemptRemediation, Bump
<1>7. ASSUME Release
      PROVE  version' = version + 1 /\ UNCHANGED <<batches, runs, attempts>>
  BY <1>7 DEF Release, Bump
<1> QED
  BY <1>1, <1>2, <1>3, <1>4, <1>5, <1>6, <1>7 DEF Next, Grows

-----------------------------------------------------------------------------
(* The tables and the case.                                                *)

\* A table of stamped rows holds the entries of a list.
Mirrors(rows, list) ==
  /\ DOMAIN rows = DOMAIN list
  /\ \A n \in DOMAIN list : rows[n].row = list[n]

\* The table of batches holds the columns of the batches.
BatchesMirror(rows, bs) ==
  /\ DOMAIN rows = DOMAIN bs
  /\ \A n \in DOMAIN bs :
       /\ rows[n].version = bs[n].version /\ rows[n].final = bs[n].final
       /\ rows[n].stale = bs[n].stale /\ rows[n].changed = bs[n].changed

\* Every part of the case is in its table as it is: nothing is lost, whatever the
\* times of the writes.
TablesMatch ==
  /\ tables.case = [status |-> status, version |-> version]
  /\ tables.points = RowsOf(points, pointRev)
  /\ tables.cues = RowsOf(cues, cueRev)
  /\ Mirrors(tables.runs, runs)
  /\ Mirrors(tables.attempts, attempts)
  /\ tables.findings = FindingRows(findings)
  /\ BatchesMirror(tables.batches, batches)
  /\ tables.inputs = InputRows(batches)
  /\ tables.issues = IssueRows(batches)

\* A table is written again as a whole.
LEMMA StampedMirror ==
  ASSUME NEW rows, NEW list
  PROVE  Mirrors(Stamped(rows, list), list)
BY DEF Mirrors, Stamped

\* Of a table that is never written again the rows there stay; that is enough if
\* the entries there do.
LEMMA InsertedMirror ==
  ASSUME NEW rows, NEW old, NEW new, Mirrors(rows, old),
         DOMAIN old \subseteq DOMAIN new, \A n \in DOMAIN old : new[n] = old[n]
  PROVE  Mirrors(Insert(rows, Stamped(rows, new), Ignore), new)
<1> DEFINE rows2 == Insert(rows, Stamped(rows, new), Ignore)
<1>1. DOMAIN Stamped(rows, new) = DOMAIN new /\ \A n \in DOMAIN new : Stamped(rows, new)[n].row = new[n]
  BY DEF Stamped
<1>2. rows2 = [n \in DOMAIN rows \cup DOMAIN Stamped(rows, new) |->
                 IF n \notin DOMAIN Stamped(rows, new) THEN rows[n]
                 ELSE IF n \notin DOMAIN rows THEN Stamped(rows, new)[n]
                 ELSE rows[n]]
  BY DEF Insert, Ignore
<1> HIDE DEF rows2
<1>3. DOMAIN rows2 = DOMAIN new
  BY <1>1, <1>2 DEF Mirrors
<1>4. ASSUME NEW n \in DOMAIN new
      PROVE  rows2[n].row = new[n]
  <2>1. rows2[n] = IF n \notin DOMAIN rows THEN Stamped(rows, new)[n] ELSE rows[n]
    BY <1>1, <1>2
  <2> QED
    BY <1>1, <2>1 DEF Mirrors
<1> QED
  BY <1>3, <1>4 DEF Mirrors, rows2

\* Of a batch the version and the verdict are written once, the marks again.
LEMMA BatchesWritten ==
  ASSUME NEW old, NEW new, BatchesMirror(tables.batches, old), DOMAIN old \subseteq DOMAIN new,
         \A n \in DOMAIN tables.batches :
           tables.batches[n] = [version |-> tables.batches[n].version, final |-> tables.batches[n].final,
                                stale |-> tables.batches[n].stale, changed |-> tables.batches[n].changed,
                                time |-> tables.batches[n].time],
         \A n \in DOMAIN old : new[n].version = old[n].version /\ new[n].final = old[n].final
  PROVE  BatchesMirror(Insert(tables.batches, BatchRows(new), UpdateBatch), new)
<1> DEFINE rows == tables.batches
           rows2 == Insert(rows, BatchRows(new), UpdateBatch)
<1>1. /\ DOMAIN BatchRows(new) = DOMAIN new
      /\ \A n \in DOMAIN new :
           LET r == BatchRows(new)[n]
           IN  /\ r.version = new[n].version /\ r.final = new[n].final
               /\ r.stale = new[n].stale /\ r.changed = new[n].changed
  BY DEF BatchRows
<1>2. rows2 = [n \in DOMAIN rows \cup DOMAIN BatchRows(new) |->
                 IF n \notin DOMAIN BatchRows(new) THEN rows[n]
                 ELSE IF n \notin DOMAIN rows THEN BatchRows(new)[n]
                 ELSE [rows[n] EXCEPT !.stale = BatchRows(new)[n].stale,
                                      !.changed = BatchRows(new)[n].changed]]
  BY DEF Insert, UpdateBatch
<1> HIDE DEF rows2
<1>3. DOMAIN rows2 = DOMAIN new
  BY <1>1, <1>2 DEF BatchesMirror
<1>4. ASSUME NEW n \in DOMAIN new
      PROVE  /\ rows2[n].version = new[n].version /\ rows2[n].final = new[n].final
             /\ rows2[n].stale = new[n].stale /\ rows2[n].changed = new[n].changed
  <2>1. CASE n \notin DOMAIN rows
    <3>1. rows2[n] = BatchRows(new)[n]
      BY <1>1, <1>2, <2>1
    <3> QED
      BY <1>1, <3>1
  <2>2. CASE n \in DOMAIN rows
    <3> DEFINE r == rows[n]
               s == BatchRows(new)[n].stale
               c == BatchRows(new)[n].changed
    <3>1. rows2[n] = [r EXCEPT !.stale = s, !.changed = c]
      BY <1>1, <1>2, <2>2
    <3>2. r = [version |-> r.version, final |-> r.final, stale |-> r.stale, changed |-> r.changed,
               time |-> r.time]
      BY <2>2
    <3>3. s = new[n].stale /\ c = new[n].changed
      BY <1>1
    <3>4. r.version = new[n].version /\ r.final = new[n].final
      BY <2>2 DEF BatchesMirror
    <3> HIDE DEF r, s, c
    <3>5. /\ rows2[n].version = r.version /\ rows2[n].final = r.final
          /\ rows2[n].stale = s /\ rows2[n].changed = c
      BY <3>1, <3>2
    <3> QED
      BY <3>3, <3>4, <3>5
  <2> QED
    BY <2>1, <2>2
<1> QED
  BY <1>3, <1>4 DEF BatchesMirror, rows2

\* Of a finding only the status is written again: that is all that changes.
LEMMA FindingsWritten ==
  ASSUME NEW old \in SUBSET Findings, NEW new \in SUBSET Findings,
         \A f, g \in old : Key(f) = Key(g) => f = g,
         \A f, g \in new : Key(f) = Key(g) => f = g,
         \A f \in old : f \in new \/ [f EXCEPT !.status = "CLOSED"] \in new
  PROVE  Insert(FindingRows(old), FindingRows(new), UpdateFinding) = FindingRows(new)
<1> DEFINE Ks(fs) == {Key(f) : f \in fs}
<1>1. ASSUME NEW fs, \A f, g \in fs : Key(f) = Key(g) => f = g
      PROVE  /\ DOMAIN FindingRows(fs) = Ks(fs)
             /\ \A f \in fs : FindingRows(fs)[Key(f)] = f
  <2>1. FindingRows(fs) = [k \in Ks(fs) |-> CHOOSE f \in fs : Key(f) = k]
    BY DEF FindingRows
  <2>2. ASSUME NEW f \in fs
        PROVE  (CHOOSE g \in fs : Key(g) = Key(f)) = f
    BY <1>1
  <2> QED
    BY <2>1, <2>2
<1>2. ASSUME NEW f \in old
      PROVE  \E g \in new : /\ Key(g) = Key(f)
                            /\ g = [f EXCEPT !.status = g.status]
  <2>1. /\ Key([f EXCEPT !.status = "CLOSED"]) = Key(f)
        /\ [f EXCEPT !.status = "CLOSED"].status = "CLOSED"
        /\ f = [f EXCEPT !.status = f.status]
    BY DEF Key, Findings
  <2> QED
    BY <2>1
<1> DEFINE a == FindingRows(old)
           b == FindingRows(new)
           c == Insert(a, b, UpdateFinding)
<1>3. c = [k \in DOMAIN a \cup DOMAIN b |->
             IF k \notin DOMAIN b THEN a[k]
             ELSE IF k \notin DOMAIN a THEN b[k]
             ELSE [a[k] EXCEPT !.status = b[k].status]]
  BY DEF Insert, UpdateFinding
<1>4. DOMAIN a = Ks(old) /\ DOMAIN b = Ks(new)
  BY <1>1
<1>5. Ks(old) \subseteq Ks(new)
  BY <1>2
<1>6. ASSUME NEW k \in Ks(new), k \in Ks(old)
      PROVE  [a[k] EXCEPT !.status = b[k].status] = b[k]
  <2>1. PICK f \in old : Key(f) = k
    BY <1>6
  <2>2. PICK g \in new : Key(g) = Key(f) /\ g = [f EXCEPT !.status = g.status]
    BY <1>2
  <2>3. a[k] = f /\ b[k] = g
    BY <1>1, <2>1, <2>2
  <2> QED
    BY <2>2, <2>3
<1>7. b = [k \in Ks(new) |-> b[k]]
  BY <1>4 DEF FindingRows
<1> HIDE DEF a, b, c
<1>8. c = [k \in Ks(new) |-> b[k]]
  BY <1>3, <1>4, <1>5, <1>6
<1> QED
  BY <1>7, <1>8 DEF a, b, c

\* Baselines are written once, and that is enough: no later step changes them.
LEMMA InputsWritten ==
  ASSUME NEW old, NEW new, DOMAIN old \subseteq DOMAIN new,
         \A n \in DOMAIN old : new[n].baseline = old[n].baseline
  PROVE  Insert(InputRows(old), InputRows(new), Ignore) = InputRows(new)
<1> DEFINE Ks(bs) == {k \in (DOMAIN bs) \X (PointIds \cup CueIds) : bs[k[1]].baseline[k[2]] > 0}
           a == InputRows(old)
           b == InputRows(new)
           c == Insert(a, b, Ignore)
<1>1. /\ a = [k \in Ks(old) |-> old[k[1]].baseline[k[2]]]
      /\ b = [k \in Ks(new) |-> new[k[1]].baseline[k[2]]]
  BY DEF InputRows
<1>2. c = [k \in DOMAIN a \cup DOMAIN b |->
             IF k \notin DOMAIN b THEN a[k] ELSE IF k \notin DOMAIN a THEN b[k] ELSE a[k]]
  BY DEF Insert, Ignore
<1>3. \A k \in Ks(old) : k \in Ks(new) /\ new[k[1]].baseline[k[2]] = old[k[1]].baseline[k[2]]
  OBVIOUS
<1> HIDE DEF Ks, c
<1>4. DOMAIN a = Ks(old) /\ DOMAIN b = Ks(new) /\ \A k \in Ks(old) : k \in Ks(new) /\ a[k] = b[k]
  BY <1>1, <1>3
<1>5. b = [k \in Ks(new) |-> b[k]]
  BY <1>1
<1> HIDE DEF a, b
<1>6. c = [k \in Ks(new) |-> b[k]]
  BY <1>2, <1>4
<1> QED
  BY <1>5, <1>6 DEF a, b, c

\* So are issues.
LEMMA IssuesWritten ==
  ASSUME NEW old, NEW new, DOMAIN old \subseteq DOMAIN new,
         \A n \in DOMAIN old : new[n].issues = old[n].issues
  PROVE  Insert(IssueRows(old), IssueRows(new), Ignore) = IssueRows(new)
<1> DEFINE Ks(bs) == UNION {{<<n, Identity(i)>> : i \in bs[n].issues} : n \in DOMAIN bs}
           a == IssueRows(old)
           b == IssueRows(new)
           c == Insert(a, b, Ignore)
<1>1. /\ a = [k \in Ks(old) |-> CHOOSE i \in old[k[1]].issues : Identity(i) = k[2]]
      /\ b = [k \in Ks(new) |-> CHOOSE i \in new[k[1]].issues : Identity(i) = k[2]]
  BY DEF IssueRows
<1>2. c = [k \in DOMAIN a \cup DOMAIN b |->
             IF k \notin DOMAIN b THEN a[k] ELSE IF k \notin DOMAIN a THEN b[k] ELSE a[k]]
  BY DEF Insert, Ignore
<1>3. ASSUME NEW k \in Ks(old)
      PROVE  k \in Ks(new) /\ new[k[1]].issues = old[k[1]].issues
  <2>1. PICK n \in DOMAIN old : \E i \in old[n].issues : k = <<n, Identity(i)>>
    OBVIOUS
  <2>2. n \in DOMAIN new /\ new[n].issues = old[n].issues /\ k[1] = n
    BY <2>1
  <2> QED
    BY <2>1, <2>2
<1> HIDE DEF Ks, c
<1>4. DOMAIN a = Ks(old) /\ DOMAIN b = Ks(new) /\ \A k \in Ks(old) : k \in Ks(new) /\ a[k] = b[k]
  BY <1>1, <1>3
<1>5. b = [k \in Ks(new) |-> b[k]]
  BY <1>1
<1> HIDE DEF a, b
<1>6. c = [k \in Ks(new) |-> b[k]]
  BY <1>2, <1>4
<1> QED
  BY <1>5, <1>6 DEF a, b, c

\* A row of the batches has these columns.
BatchColumns ==
  \A n \in DOMAIN tables.batches :
    tables.batches[n] = [version |-> tables.batches[n].version, final |-> tables.batches[n].final,
                         stale |-> tables.batches[n].stale, changed |-> tables.batches[n].changed,
                         time |-> tables.batches[n].time]

\* The columns of what is written, and of what is written again.
LEMMA ColumnsWritten ==
  ASSUME BatchColumns, NEW new
  PROVE  LET rows == Insert(tables.batches, BatchRows(new), UpdateBatch)
         IN  \A n \in DOMAIN rows :
               rows[n] = [version |-> rows[n].version, final |-> rows[n].final,
                          stale |-> rows[n].stale, changed |-> rows[n].changed, time |-> rows[n].time]
<1> DEFINE rows == Insert(tables.batches, BatchRows(new), UpdateBatch)
           Columns(r) == [version |-> r.version, final |-> r.final, stale |-> r.stale,
                          changed |-> r.changed, time |-> r.time]
<1>1. rows = [n \in DOMAIN tables.batches \cup DOMAIN BatchRows(new) |->
                IF n \notin DOMAIN BatchRows(new) THEN tables.batches[n]
                ELSE IF n \notin DOMAIN tables.batches THEN BatchRows(new)[n]
                ELSE [tables.batches[n] EXCEPT !.stale = BatchRows(new)[n].stale,
                                               !.changed = BatchRows(new)[n].changed]]
  BY DEF Insert, UpdateBatch
<1>2. \A n \in DOMAIN BatchRows(new) : BatchRows(new)[n] = Columns(BatchRows(new)[n])
  BY DEF BatchRows
<1>3. \A n \in DOMAIN tables.batches : tables.batches[n] = Columns(tables.batches[n])
  BY DEF BatchColumns
<1>4. ASSUME NEW r, NEW e, NEW s, NEW c, r = Columns(r), e = [r EXCEPT !.stale = s, !.changed = c]
      PROVE  e = Columns(e)
  <2>1. e = [version |-> r.version, final |-> r.final, stale |-> s, changed |-> c, time |-> r.time]
    BY <1>4
  <2> QED
    BY ONLY <2>1
<1> HIDE DEF rows, Columns
<1>5. ASSUME NEW n \in DOMAIN rows
      PROVE  rows[n] = Columns(rows[n])
  <2>1. CASE n \notin DOMAIN BatchRows(new)
    BY <1>1, <1>3, <2>1
  <2>2. CASE n \in DOMAIN BatchRows(new) /\ n \notin DOMAIN tables.batches
    BY <1>1, <1>2, <2>2
  <2>3. CASE n \in DOMAIN BatchRows(new) /\ n \in DOMAIN tables.batches
    <3>1. rows[n] = [tables.batches[n] EXCEPT !.stale = BatchRows(new)[n].stale,
                                              !.changed = BatchRows(new)[n].changed]
      BY <1>1, <2>3
    <3>2. tables.batches[n] = Columns(tables.batches[n])
      BY <1>3, <2>3
    <3> QED
      BY <1>4, <3>1, <3>2
  <2> QED
    BY <2>1, <2>2, <2>3
<1> QED
  BY <1>5 DEF rows, Columns

-----------------------------------------------------------------------------
(* Every operation saves what it leaves.                                   *)

\* An operation on a case that the tables match, with what it leaves saved.
LEMMA SaveKeepsMatch ==
  ASSUME TypeInv, TypeInv', RowsDiffer, RowsDiffer', TablesMatch, BatchColumns,
         Next, KeepsHistory, Save
  PROVE  TablesMatch' /\ BatchColumns'
<1>0. /\ runs \in Seq(Runs) /\ attempts \in Seq(Attempts) /\ batches \in Seq(Batches)
      /\ runs' \in Seq(Runs) /\ attempts' \in Seq(Attempts) /\ batches' \in Seq(Batches)
      /\ findings \in SUBSET Findings /\ findings' \in SUBSET Findings
  BY DEF TypeInv, TypeOK
<1>1. /\ tables'.case = [status |-> status', version |-> version']
      /\ tables'.points = RowsOf(points', pointRev')
      /\ tables'.cues = RowsOf(cues', cueRev')
      /\ tables'.runs = Stamped(tables.runs, runs')
      /\ tables'.findings = Insert(tables.findings, FindingRows(findings'), UpdateFinding)
      /\ tables'.batches = Insert(tables.batches, BatchRows(batches'), UpdateBatch)
      /\ tables'.inputs = Insert(tables.inputs, InputRows(batches'), Ignore)
      /\ tables'.issues = Insert(tables.issues, IssueRows(batches'), Ignore)
      /\ tables'.attempts = Insert(tables.attempts, Stamped(tables.attempts, attempts'), Ignore)
  BY DEF Save
<1>2. /\ tables.findings = FindingRows(findings)
      /\ Mirrors(tables.attempts, attempts)
      /\ BatchesMirror(tables.batches, batches)
      /\ tables.inputs = InputRows(batches)
      /\ tables.issues = IssueRows(batches)
  BY DEF TablesMatch
<1>3. DOMAIN attempts \subseteq DOMAIN attempts' /\ DOMAIN batches \subseteq DOMAIN batches'
  <2>1. Grows(attempts, attempts') /\ Grows(batches, batches')
    BY StepGrows
  <2> QED
    BY <1>0, <2>1 DEF Grows
<1>4. ASSUME NEW n \in DOMAIN batches
      PROVE  /\ batches'[n].version = batches[n].version /\ batches'[n].final = batches[n].final
             /\ batches'[n].baseline = batches[n].baseline /\ batches'[n].issues = batches[n].issues
  <2>1. batches[n] \in Batches
    BY <1>0
  <2>2. batches'[n] = [batches[n] EXCEPT !.stale = batches'[n].stale, !.changed = batches'[n].changed]
    BY DEF KeepsHistory
  <2> QED
    BY <2>1, <2>2 DEF Batches
<1>5. \A n \in DOMAIN attempts : attempts'[n] = attempts[n]
  BY DEF KeepsHistory
<1>6. Mirrors(tables'.runs, runs')
  BY <1>1, StampedMirror
<1>7. Mirrors(tables'.attempts, attempts')
  BY <1>1, <1>2, <1>3, <1>5, InsertedMirror
<1>8. tables'.findings = FindingRows(findings')
  <2>1. \A f \in findings : f \in findings' \/ [f EXCEPT !.status = "CLOSED"] \in findings'
    BY DEF KeepsHistory
  <2>2. /\ \A f, g \in findings : Key(f) = Key(g) => f = g
        /\ \A f, g \in findings' : Key(f) = Key(g) => f = g
    BY DEF RowsDiffer, FindingsDiffer
  <2>3. Insert(FindingRows(findings), FindingRows(findings'), UpdateFinding) = FindingRows(findings')
    BY <1>0, <2>1, <2>2, FindingsWritten
  <2> QED
    BY <1>1, <1>2, <2>3
<1>9. BatchesMirror(tables'.batches, batches')
  <2>1. BatchesMirror(Insert(tables.batches, BatchRows(batches'), UpdateBatch), batches')
    BY <1>2, <1>3, <1>4, BatchesWritten DEF BatchColumns
  <2> QED
    BY <1>1, <2>1
<1>10. tables'.inputs = InputRows(batches')
  <2>1. Insert(InputRows(batches), InputRows(batches'), Ignore) = InputRows(batches')
    BY <1>3, <1>4, InputsWritten
  <2> QED
    BY <1>1, <1>2, <2>1
<1>11. tables'.issues = IssueRows(batches')
  <2>1. Insert(IssueRows(batches), IssueRows(batches'), Ignore) = IssueRows(batches')
    BY <1>3, <1>4, IssuesWritten
  <2> QED
    BY <1>1, <1>2, <2>1
<1>12. BatchColumns'
  BY <1>1, ColumnsWritten DEF BatchColumns
<1>13. /\ RowsOf(points, pointRev)' = RowsOf(points', pointRev')
       /\ RowsOf(cues, cueRev)' = RowsOf(cues', cueRev')
       /\ FindingRows(findings)' = FindingRows(findings')
       /\ InputRows(batches)' = InputRows(batches')
       /\ IssueRows(batches)' = IssueRows(batches')
  BY DEF RowsOf, FindingRows, InputRows, IssueRows
<1>14. TablesMatch'
  BY <1>1, <1>6, <1>7, <1>8, <1>9, <1>10, <1>11, <1>13 DEF TablesMatch, Mirrors, BatchesMirror
<1> QED
  BY <1>12, <1>14

\* An operation on the stored case is one on the case.
LEMMA StoredStepIsAStep == StoredNext => Next /\ Save
  BY DEF StoredNext, Next

\* The case of a stored case is a case: each step of it is one of RiggingCase.
LEMMA StoredCaseIsACase == StoredSpec => Spec
<1>1. StoredInit => Init
  BY DEF StoredInit
<1>2. [StoredNext]_storedVars => [Next]_vars
  BY StoredStepIsAStep DEF storedVars, vars
<1> QED
  BY <1>1, <1>2, PTL DEF StoredSpec, Spec

\* Rows stay apart in every behaviour of the case.
LEMMA RowsAreApart == Spec => [](RunsMatchFindings /\ RowsDiffer)
<1>1. Init => RunsMatchFindings /\ RowsDiffer
  BY DEF Init, RunsMatchFindings, BlockedRunsLeaveFindings, OriginsAreRuns,
         RowsDiffer, FindingsDiffer, OriginsAreBatches, IssuesDiffer
<1> QED
  BY <1>1, RunsMatchFindingsStep, RowsStayApart, TypeInvariant, PTL DEF Spec

\* The tables match the case in every behaviour.
LEMMA TablesAreWritten == StoredSpec => [](TablesMatch /\ BatchColumns)
<1>1. StoredInit => TablesMatch /\ BatchColumns
  <2> SUFFICES ASSUME StoredInit PROVE TablesMatch /\ BatchColumns
    OBVIOUS
  <2>1. /\ status = "DRAFT" /\ version = 1 /\ points = <<>> /\ cues = <<>> /\ findings = {}
        /\ batches = <<>> /\ runs = <<>> /\ attempts = <<>>
        /\ tables = [case |-> [status |-> "DRAFT", version |-> 1], points |-> <<>>, cues |-> <<>>,
                     runs |-> <<>>, findings |-> <<>>, batches |-> <<>>, inputs |-> <<>>,
                     issues |-> <<>>, attempts |-> <<>>]
    BY DEF StoredInit, Init, NoRows
  <2>2. /\ tables.case = [status |-> status, version |-> version]
        /\ tables.points = <<>> /\ tables.cues = <<>> /\ tables.findings = <<>>
        /\ tables.inputs = <<>> /\ tables.issues = <<>>
        /\ tables.runs = runs /\ tables.attempts = attempts /\ tables.batches = batches
    BY <2>1
  <2>3. DOMAIN <<>> = {} /\ \A F : DOMAIN F = {} /\ F = [x \in {} |-> F[x]] => F = <<>>
    OBVIOUS
  <2>4. RowsOf(points, pointRev) = <<>> /\ RowsOf(cues, cueRev) = <<>>
    BY <2>1, <2>3 DEF RowsOf
  <2>5. FindingRows(findings) = <<>>
    BY <2>1, <2>3 DEF FindingRows
  <2>6. InputRows(batches) = <<>>
    BY <2>1, <2>3 DEF InputRows
  <2>7. IssueRows(batches) = <<>>
    BY <2>1, <2>3 DEF IssueRows
  <2>8. Mirrors(tables.runs, runs) /\ Mirrors(tables.attempts, attempts) /\ BatchesMirror(tables.batches, batches)
    BY <2>1, <2>2, <2>3 DEF Mirrors, BatchesMirror
  <2>9. BatchColumns
    BY <2>1, <2>2, <2>3 DEF BatchColumns
  <2> QED
    BY <2>2, <2>4, <2>5, <2>6, <2>7, <2>8, <2>9 DEF TablesMatch
<1>2. /\ TypeInv /\ TypeInv' /\ RowsDiffer /\ RowsDiffer' /\ TablesMatch /\ BatchColumns
      /\ [StoredNext]_storedVars /\ [KeepsHistory]_vars
      => TablesMatch' /\ BatchColumns'
  <2> SUFFICES ASSUME TypeInv, TypeInv', RowsDiffer, RowsDiffer', TablesMatch, BatchColumns,
                      [StoredNext]_storedVars, [KeepsHistory]_vars
               PROVE  TablesMatch' /\ BatchColumns'
    OBVIOUS
  <2>1. CASE UNCHANGED storedVars
    BY <2>1 DEF storedVars, vars, TablesMatch, BatchColumns, Mirrors, BatchesMirror, RowsOf,
       FindingRows, InputRows, IssueRows
  <2>2. CASE StoredNext
    <3>1. Next /\ Save
      BY <2>2, StoredStepIsAStep
    <3>2. version' = version + 1 /\ version \in Nat
      BY <3>1, StepGrows DEF TypeInv, TypeOK, Positive
    <3>3. KeepsHistory
      <4>1. version' # version
        BY <3>2
      <4> QED
        BY <4>1 DEF vars
    <3> QED
      BY <3>1, <3>3, SaveKeepsMatch
  <2> QED
    BY <2>1, <2>2
<1>3. StoredSpec => [](TypeInv /\ RowsDiffer) /\ [][KeepsHistory]_vars
  BY StoredCaseIsACase, TypeInvariant, RowsAreApart, HistoryOnlyGrows, PTL DEF HistoryIsKept
<1> QED
  BY <1>1, <1>2, <1>3, PTL DEF StoredSpec

\* Whatever the times of the writes, the tables hold every part of the case as it
\* is after every operation: what is written once needs no second writing, and
\* what changes is written again.
THEOREM SavesLoseNothing == StoredSpec => []TablesMatch
  BY TablesAreWritten, PTL

-----------------------------------------------------------------------------
(* Times.  When writes are a second or more apart, rows come back in their *)
(* order.                                                                  *)

\* The rows of a list are ascending, and a second or more older than now.
Timed(rows, N, now) ==
  /\ Ascending(Times(rows), N)
  /\ \A n \in 1..N : rows[n].time + 100 <= now

\* The rows of runs, attempts and batches are.
TimesAscend ==
  /\ Timed(tables.runs, Len(runs), Now)
  /\ Timed(tables.attempts, Len(attempts), Now)
  /\ Timed(tables.batches, Len(batches), Now)

\* The clock at one write and at the next.
LEMMA Seconds ==
  ASSUME Ticks >= 100, version \in Nat, version' = version + 1
  PROVE  Now \in Nat /\ Now' \in Nat /\ Now + 100 <= Now'
<1>1. Ticks \in Nat
  BY StoredAssumption
<1>2. Now = version * Ticks /\ Now' = (version + 1) * Ticks
  BY DEF Now
<1>3. Now' = Now + Ticks /\ Now \in Nat
  BY <1>1, <1>2
<1> QED
  BY <1>1, <1>3

\* Rows that keep their times, with at most one more, which is of now.
LEMMA OneMoreRow ==
  ASSUME NEW N \in Nat, NEW M \in {N, N + 1}, NEW rows, NEW more, NEW now \in Nat, NEW next \in Nat,
         now + 100 <= next,
         Timed(rows, N, now), DOMAIN more = 1..M,
         \A n \in 1..N : more[n].time = rows[n].time,
         \A n \in 1..M : n \notin 1..N => more[n].time = now
  PROVE  Timed(more, M, next)
<1>1. /\ \A n \in 1..N : rows[n].time \in Nat /\ rows[n].time + 100 <= now
      /\ \A m, n \in 1..N : m < n => rows[m].time + 100 <= rows[n].time
  BY DEF Timed, Ascending, Times
<1>2. \A n \in 1..M : n \in 1..N \/ n = N + 1
  OBVIOUS
<1>3. \A n \in 1..M : more[n].time \in Nat /\ more[n].time + 100 <= next
  <2>1. ASSUME NEW n \in 1..N
        PROVE  more[n].time \in Nat /\ more[n].time + 100 <= next
    <3>1. rows[n].time \in Nat /\ rows[n].time + 100 <= now
      BY <1>1
    <3>2. more[n].time = rows[n].time
      OBVIOUS
    <3> QED
      BY <3>1, <3>2
  <2>2. ASSUME NEW n \in 1..M, n \notin 1..N
        PROVE  more[n].time \in Nat /\ more[n].time + 100 <= next
    BY <2>2
  <2> QED
    BY <2>1, <2>2
<1>4. ASSUME NEW m \in 1..M, NEW n \in 1..M, m < n
      PROVE  more[m].time + 100 <= more[n].time
  <2>1. CASE n \in 1..N
    <3>1. m \in 1..N
      BY <1>4, <2>1
    <3> QED
      BY <1>1, <1>4, <2>1, <3>1
  <2>2. CASE n = N + 1
    <3>1. m \in 1..N /\ n \notin 1..N
      BY <1>4, <2>2
    <3> QED
      BY <1>1, <3>1
  <2> QED
    BY <1>2, <2>1, <2>2
<1>5. DOMAIN Times(more) = 1..M /\ \A n \in 1..M : Times(more)[n] = more[n].time
  BY DEF Times
<1> QED
  BY <1>3, <1>4, <1>5 DEF Timed, Ascending

\* What a save does to the times of the rows.
LEMMA SavedTimes ==
  ASSUME NEW rows, NEW new
  PROVE  /\ \A n \in DOMAIN new : Stamped(rows, new)[n].time = IF n \in DOMAIN rows THEN rows[n].time ELSE Now
         /\ DOMAIN Stamped(rows, new) = DOMAIN new
         /\ DOMAIN rows \subseteq DOMAIN new =>
              LET more == Insert(rows, Stamped(rows, new), Ignore)
              IN  /\ DOMAIN more = DOMAIN new
                  /\ \A n \in DOMAIN new : more[n].time = IF n \in DOMAIN rows THEN rows[n].time ELSE Now
<1>1. /\ \A n \in DOMAIN new : Stamped(rows, new)[n].time = IF n \in DOMAIN rows THEN rows[n].time ELSE Now
      /\ DOMAIN Stamped(rows, new) = DOMAIN new
  BY DEF Stamped
<1>2. ASSUME DOMAIN rows \subseteq DOMAIN new
      PROVE  LET more == Insert(rows, Stamped(rows, new), Ignore)
             IN  /\ DOMAIN more = DOMAIN new
                 /\ \A n \in DOMAIN new : more[n].time = IF n \in DOMAIN rows THEN rows[n].time ELSE Now
  <2> DEFINE s == Stamped(rows, new)
  <2>1. Insert(rows, s, Ignore) =
          [n \in DOMAIN rows \cup DOMAIN s |->
             IF n \notin DOMAIN s THEN rows[n] ELSE IF n \notin DOMAIN rows THEN s[n] ELSE rows[n]]
    BY DEF Insert, Ignore
  <2> HIDE DEF s
  <2> QED
    BY <1>1, <1>2, <2>1 DEF s
<1> QED
  BY <1>1, <1>2

\* The same of the batches.
LEMMA SavedBatchTimes ==
  ASSUME NEW new, DOMAIN tables.batches \subseteq DOMAIN new, BatchColumns
  PROVE  LET rows == tables.batches
             more == Insert(rows, BatchRows(new), UpdateBatch)
         IN  /\ DOMAIN more = DOMAIN new
             /\ \A n \in DOMAIN new : more[n].time = IF n \in DOMAIN rows THEN rows[n].time ELSE Now
<1> DEFINE rows == tables.batches
           s == BatchRows(new)
           more == Insert(rows, s, UpdateBatch)
<1>1. /\ \A n \in DOMAIN new : s[n].time = IF n \in DOMAIN rows THEN rows[n].time ELSE Now
      /\ DOMAIN s = DOMAIN new
  BY DEF BatchRows
<1>2. more = [n \in DOMAIN rows \cup DOMAIN s |->
                IF n \notin DOMAIN s THEN rows[n]
                ELSE IF n \notin DOMAIN rows THEN s[n]
                ELSE [rows[n] EXCEPT !.stale = s[n].stale, !.changed = s[n].changed]]
  BY DEF Insert, UpdateBatch
<1>3. ASSUME NEW r, NEW v, NEW f, NEW st, NEW ch, NEW t,
             r = [version |-> v, final |-> f, stale |-> st, changed |-> ch, time |-> t], NEW a, NEW b
      PROVE  [r EXCEPT !.stale = a, !.changed = b].time = t
  BY <1>3
<1> HIDE DEF s, more
<1>4. ASSUME NEW n \in DOMAIN new
      PROVE  more[n].time = IF n \in DOMAIN rows THEN rows[n].time ELSE Now
  <2>1. CASE n \notin DOMAIN rows
    BY <1>1, <1>2, <2>1
  <2>2. CASE n \in DOMAIN rows
    <3>1. more[n] = [rows[n] EXCEPT !.stale = s[n].stale, !.changed = s[n].changed]
      BY <1>1, <1>2, <2>2
    <3>2. [rows[n] EXCEPT !.stale = s[n].stale, !.changed = s[n].changed].time = rows[n].time
      BY <1>3, <2>2 DEF BatchColumns
    <3> QED
      BY <2>2, <3>1, <3>2
  <2> QED
    BY <2>1, <2>2
<1>5. DOMAIN more = DOMAIN new
  BY <1>1, <1>2
<1> QED
  BY <1>4, <1>5 DEF more, s

\* A save keeps the order of the times.
LEMMA SaveKeepsTimes ==
  ASSUME Ticks >= 100, TypeInv, TypeInv', TablesMatch, BatchColumns, TimesAscend, Next, Save
  PROVE  TimesAscend'
<1>0. /\ runs \in Seq(Runs) /\ attempts \in Seq(Attempts) /\ batches \in Seq(Batches)
      /\ runs' \in Seq(Runs) /\ attempts' \in Seq(Attempts) /\ batches' \in Seq(Batches)
      /\ version \in Nat
  BY DEF TypeInv, TypeOK, Positive
<1>1. /\ tables'.runs = Stamped(tables.runs, runs')
      /\ tables'.batches = Insert(tables.batches, BatchRows(batches'), UpdateBatch)
      /\ tables'.attempts = Insert(tables.attempts, Stamped(tables.attempts, attempts'), Ignore)
  BY DEF Save
<1>2. /\ version' = version + 1
      /\ Len(runs') \in {Len(runs), Len(runs) + 1} /\ Len(attempts') \in {Len(attempts), Len(attempts) + 1}
      /\ Len(batches') \in {Len(batches), Len(batches) + 1}
  BY StepGrows DEF Grows
<1>3. Now \in Nat /\ Now' \in Nat /\ Now + 100 <= Now'
  BY <1>0, <1>2, Seconds
<1>4. /\ DOMAIN runs = 1..Len(runs) /\ DOMAIN attempts = 1..Len(attempts) /\ DOMAIN batches = 1..Len(batches)
      /\ DOMAIN runs' = 1..Len(runs') /\ DOMAIN attempts' = 1..Len(attempts')
      /\ DOMAIN batches' = 1..Len(batches')
      /\ Len(runs) \in Nat /\ Len(attempts) \in Nat /\ Len(batches) \in Nat
  BY <1>0
<1>5. /\ DOMAIN tables.runs = 1..Len(runs) /\ DOMAIN tables.attempts = 1..Len(attempts)
      /\ DOMAIN tables.batches = 1..Len(batches)
  BY <1>4 DEF TablesMatch, Mirrors, BatchesMirror
<1>6. /\ DOMAIN tables.attempts \subseteq DOMAIN attempts' /\ DOMAIN tables.batches \subseteq DOMAIN batches'
  <2>1. \A a, b \in Nat : b \in {a, a + 1} => 1..a \subseteq 1..b
    OBVIOUS
  <2>2. Len(attempts') \in Nat /\ Len(batches') \in Nat
    BY <1>0
  <2>3. 1..Len(attempts) \subseteq 1..Len(attempts') /\ 1..Len(batches) \subseteq 1..Len(batches')
    BY <1>2, <1>4, <2>1, <2>2
  <2> QED
    BY <1>4, <1>5, <2>3
<1>7. ASSUME NEW N \in Nat, NEW M \in {N, N + 1}, NEW rows, NEW more,
             Timed(rows, N, Now), DOMAIN rows = 1..N, DOMAIN more = 1..M,
             \A n \in 1..M : more[n].time = IF n \in DOMAIN rows THEN rows[n].time ELSE Now
      PROVE  Timed(more, M, Now')
  <2>1. /\ \A n \in 1..N : more[n].time = rows[n].time
        /\ \A n \in 1..M : n \notin 1..N => more[n].time = Now
    BY <1>7
  <2> HIDE DEF Timed
  <2> QED
    BY <1>3, <1>7, <2>1, OneMoreRow
<1>8. Timed(tables'.runs, Len(runs'), Now')
  <2>1. /\ DOMAIN Stamped(tables.runs, runs') = 1..Len(runs')
        /\ \A n \in 1..Len(runs') : Stamped(tables.runs, runs')[n].time =
             IF n \in DOMAIN tables.runs THEN tables.runs[n].time ELSE Now
    BY <1>4, SavedTimes
  <2> QED
    BY <1>1, <1>2, <1>4, <1>5, <1>7, <2>1 DEF TimesAscend
<1>9. Timed(tables'.attempts, Len(attempts'), Now')
  <2> DEFINE more == Insert(tables.attempts, Stamped(tables.attempts, attempts'), Ignore)
  <2>1. /\ DOMAIN more = 1..Len(attempts')
        /\ \A n \in 1..Len(attempts') : more[n].time =
             IF n \in DOMAIN tables.attempts THEN tables.attempts[n].time ELSE Now
    BY <1>4, <1>6, SavedTimes
  <2> HIDE DEF more
  <2>2. Timed(more, Len(attempts'), Now')
    BY <1>2, <1>4, <1>5, <1>7, <2>1 DEF TimesAscend
  <2> QED
    BY <1>1, <2>2 DEF more
<1>10. Timed(tables'.batches, Len(batches'), Now')
  <2> DEFINE more == Insert(tables.batches, BatchRows(batches'), UpdateBatch)
  <2>1. /\ DOMAIN more = 1..Len(batches')
        /\ \A n \in 1..Len(batches') : more[n].time =
             IF n \in DOMAIN tables.batches THEN tables.batches[n].time ELSE Now
    BY <1>4, <1>6, SavedBatchTimes
  <2> HIDE DEF more
  <2>2. Timed(more, Len(batches'), Now')
    BY <1>2, <1>4, <1>5, <1>7, <2>1 DEF TimesAscend
  <2> QED
    BY <1>1, <2>2 DEF more
<1> QED
  BY <1>8, <1>9, <1>10 DEF TimesAscend, Timed, Ascending, Times

\* With writes a second or more apart the rows are in their order, in every behaviour.
LEMMA TimesStayAscending ==
  Ticks >= 100 => (StoredSpec => [](TypeInv /\ RowsDiffer /\ TablesMatch /\ TimesAscend))
<1> SUFFICES ASSUME Ticks >= 100
             PROVE  StoredSpec => [](TypeInv /\ RowsDiffer /\ TablesMatch /\ TimesAscend)
  OBVIOUS
<1>1. StoredInit => TimesAscend
  <2> SUFFICES ASSUME StoredInit PROVE TimesAscend
    OBVIOUS
  <2>1. /\ batches = <<>> /\ runs = <<>> /\ attempts = <<>>
        /\ tables.runs = <<>> /\ tables.attempts = <<>> /\ tables.batches = <<>>
    BY DEF StoredInit, Init, NoRows
  <2>2. Times(<<>>) = <<>>
    BY DEF Times
  <2>3. \A now : Timed(<<>>, 0, now)
    BY <2>2 DEF Timed, Ascending
  <2>4. Len(runs) = 0 /\ Len(attempts) = 0 /\ Len(batches) = 0
    BY <2>1
  <2> QED
    BY <2>1, <2>3, <2>4 DEF TimesAscend
<1>2. /\ TypeInv /\ TypeInv' /\ TablesMatch /\ BatchColumns /\ TimesAscend /\ [StoredNext]_storedVars
      => TimesAscend'
  <2>1. UNCHANGED storedVars /\ TimesAscend => TimesAscend'
    <3> SUFFICES ASSUME UNCHANGED storedVars, TimesAscend
                 PROVE  TimesAscend'
      OBVIOUS
    <3>1. tables' = tables /\ runs' = runs /\ attempts' = attempts /\ batches' = batches /\ Now' = Now
      BY DEF storedVars, vars, Now
    <3> QED
      BY <3>1 DEF TimesAscend
  <2>2. TypeInv /\ TypeInv' /\ TablesMatch /\ BatchColumns /\ TimesAscend /\ StoredNext => TimesAscend'
    BY StoredStepIsAStep, SaveKeepsTimes
  <2> QED
    BY <2>1, <2>2
<1>3. StoredSpec => [](TypeInv /\ RowsDiffer)
  BY StoredCaseIsACase, TypeInvariant, RowsAreApart, PTL
<1> QED
  BY <1>1, <1>2, <1>3, TablesAreWritten, PTL DEF StoredSpec

-----------------------------------------------------------------------------
(* What is loaded.                                                         *)

\* A list comes back as it was.
LEMMA ListComesBack ==
  ASSUME NEW S, NEW list \in Seq(S), NEW rows, NEW now, Mirrors(rows, list), Timed(rows, Len(list), now)
  PROVE  LoadStamped(rows) = list
<1>1. Len(list) \in Nat /\ DOMAIN list = 1..Len(list) /\ list = [n \in 1..Len(list) |-> list[n]]
  OBVIOUS
<1>2. InOrder(Times(rows)) = [k \in 1..Len(list) |-> k]
  BY <1>1, AscendingInOrder DEF Timed
<1>3. LoadStamped(rows) = [i \in 1..Len(list) |-> rows[[k \in 1..Len(list) |-> k][i]].row]
  BY <1>2 DEF LoadStamped
<1>4. LoadStamped(rows) = [i \in 1..Len(list) |-> rows[i].row]
  BY <1>3
<1>5. \A i \in 1..Len(list) : rows[i].row = list[i]
  BY <1>1 DEF Mirrors
<1> QED
  BY <1>1, <1>4, <1>5

\* The values and revisions of load points, or of cues, come back as they were.
LEMMA ValuesComeBack ==
  ASSUME NEW ids, NEW value, value = [x \in DOMAIN value |-> value[x]], NEW revision \in [ids -> Nat],
         DOMAIN value = {x \in ids : revision[x] > 0}
  PROVE  /\ ValuesIn(RowsOf(value, revision)) = value
         /\ RevisionsIn(RowsOf(value, revision), ids) = revision
<1> DEFINE rows == RowsOf(value, revision)
<1>1. /\ DOMAIN rows = DOMAIN value
      /\ \A id \in DOMAIN value : rows[id].value = value[id] /\ rows[id].revision = revision[id]
  BY DEF RowsOf
<1> HIDE DEF rows
<1>2. ValuesIn(rows) = [id \in DOMAIN value |-> value[id]]
  BY <1>1 DEF ValuesIn
<1>3. RevisionsIn(rows, ids) = [id \in ids |-> revision[id]]
  <2>1. ASSUME NEW id \in ids
        PROVE  (IF id \in DOMAIN rows THEN rows[id].revision ELSE 0) = revision[id]
    BY <1>1
  <2> QED
    BY <2>1 DEF RevisionsIn
<1> QED
  BY <1>2, <1>3 DEF rows

\* Findings come back, since no two of them share a row.
LEMMA FindingsComeBack ==
  ASSUME NEW fs, \A f, g \in fs : Key(f) = Key(g) => f = g
  PROVE  {FindingRows(fs)[k] : k \in DOMAIN FindingRows(fs)} = fs
<1> DEFINE Ks == {Key(f) : f \in fs}
           rows == FindingRows(fs)
<1>1. rows = [k \in Ks |-> CHOOSE f \in fs : Key(f) = k]
  BY DEF FindingRows
<1>2. ASSUME NEW f \in fs
      PROVE  rows[Key(f)] = f
  BY <1>1
<1> HIDE DEF rows
<1>3. DOMAIN rows = Ks
  BY <1>1
<1> QED
  BY <1>2, <1>3 DEF rows

\* The issues of a batch come back, since no two of them share a row.
LEMMA IssuesComeBack ==
  ASSUME NEW bs, NEW n \in DOMAIN bs, OneOfEach(bs[n].issues)
  PROVE  {IssueRows(bs)[k] : k \in {j \in DOMAIN IssueRows(bs) : j[1] = n}} = bs[n].issues
<1> DEFINE Ks == UNION {{<<m, Identity(i)>> : i \in bs[m].issues} : m \in DOMAIN bs}
           rows == IssueRows(bs)
<1>1. rows = [k \in Ks |-> CHOOSE i \in bs[k[1]].issues : Identity(i) = k[2]]
  BY DEF IssueRows
<1>2. ASSUME NEW i \in bs[n].issues
      PROVE  <<n, Identity(i)>> \in Ks /\ rows[<<n, Identity(i)>>] = i
  <2>1. <<n, Identity(i)>> \in Ks
    OBVIOUS
  <2>2. rows[<<n, Identity(i)>>] = CHOOSE j \in bs[n].issues : Identity(j) = Identity(i)
    BY <1>1, <2>1
  <2>3. (CHOOSE j \in bs[n].issues : Identity(j) = Identity(i)) = i
    BY DEF OneOfEach
  <2> QED
    BY <2>1, <2>2, <2>3
<1>3. ASSUME NEW k \in Ks, k[1] = n
      PROVE  \E i \in bs[n].issues : k = <<n, Identity(i)>>
  BY <1>3
<1> HIDE DEF rows
<1>4. DOMAIN rows = Ks
  BY <1>1
<1> HIDE DEF Ks
<1>5. ASSUME NEW k \in Ks, k[1] = n
      PROVE  rows[k] \in bs[n].issues
  BY <1>2, <1>3, <1>5
<1>6. ASSUME NEW i \in bs[n].issues
      PROVE  \E k \in Ks : k[1] = n /\ rows[k] = i
  BY <1>2
<1> QED
  BY <1>4, <1>5, <1>6 DEF rows

\* A batch comes back from its row, its baseline and its issues.
LEMMA BatchComesBack ==
  ASSUME TypeInv, RowsDiffer, TablesMatch, NEW n \in DOMAIN batches
  PROVE  LoadBatch(n) = batches[n]
<1> DEFINE b == batches[n]
<1>0. b \in Batches /\ OneOfEach(b.issues)
  <2>1. batches \in Seq(Batches)
    BY DEF TypeInv, TypeOK
  <2> QED
    BY <2>1 DEF RowsDiffer, IssuesDiffer
<1>1. /\ tables.batches[n].version = b.version /\ tables.batches[n].final = b.final
      /\ tables.batches[n].stale = b.stale /\ tables.batches[n].changed = b.changed
  BY DEF TablesMatch, BatchesMirror
<1>2. [ref \in PointIds \cup CueIds |->
         IF <<n, ref>> \in DOMAIN tables.inputs THEN tables.inputs[<<n, ref>>] ELSE 0] = b.baseline
  <2> DEFINE Ks == {k \in (DOMAIN batches) \X (PointIds \cup CueIds) : batches[k[1]].baseline[k[2]] > 0}
  <2>1. tables.inputs = [k \in Ks |-> batches[k[1]].baseline[k[2]]]
    BY DEF TablesMatch, InputRows
  <2>2. b.baseline \in [PointIds \cup CueIds -> Nat]
    BY <1>0 DEF Batches
  <2>3. ASSUME NEW ref \in PointIds \cup CueIds
        PROVE  (IF <<n, ref>> \in DOMAIN tables.inputs THEN tables.inputs[<<n, ref>>] ELSE 0) = b.baseline[ref]
    <3>1. <<n, ref>> \in Ks <=> b.baseline[ref] > 0
      OBVIOUS
    <3>2. <<n, ref>> \in Ks => tables.inputs[<<n, ref>>] = b.baseline[ref]
      BY <2>1
    <3>3. DOMAIN tables.inputs = Ks
      BY <2>1
    <3>4. b.baseline[ref] \in Nat
      BY <2>2
    <3> HIDE DEF Ks, b
    <3> QED
      BY <3>1, <3>2, <3>3, <3>4
  <2> HIDE DEF b
  <2> QED
    BY <2>2, <2>3
<1>3. {tables.issues[k] : k \in {j \in DOMAIN tables.issues : j[1] = n}} = b.issues
  <2>1. tables.issues = IssueRows(batches)
    BY DEF TablesMatch
  <2> QED
    BY <1>0, <2>1, IssuesComeBack
<1>4. b = [version |-> b.version, final |-> b.final, stale |-> b.stale, changed |-> b.changed,
           baseline |-> b.baseline, issues |-> b.issues]
  BY <1>0 DEF Batches
<1> HIDE DEF b
<1>5. LoadBatch(n) = [version |-> b.version, final |-> b.final, stale |-> b.stale, changed |-> b.changed,
                      baseline |-> b.baseline, issues |-> b.issues]
  BY <1>1, <1>2, <1>3 DEF LoadBatch
<1>6. LoadBatch(n) = b
  BY <1>4, <1>5
<1> QED
  BY <1>6 DEF b

\* A load finds the case as the last operation left it.
LEMMA CaseComesBack ==
  ASSUME TypeInv, RowsDiffer, TablesMatch, TimesAscend
  PROVE  SavedCaseIsTheCase /\ LoadedIds = [k \in 1..Len(batches) |-> k]
<1>0. /\ runs \in Seq(Runs) /\ attempts \in Seq(Attempts) /\ batches \in Seq(Batches)
      /\ points = [p \in DOMAIN points |-> points[p]] /\ cues = [q \in DOMAIN cues |-> cues[q]]
      /\ pointRev \in [PointIds -> Nat] /\ DOMAIN points = {p \in PointIds : pointRev[p] > 0}
      /\ cueRev \in [CueIds -> Nat] /\ DOMAIN cues = {q \in CueIds : cueRev[q] > 0}
  BY DEF TypeInv, TypeOK
<1>1. Load.status = status /\ Load.version = version
  BY DEF Load, TablesMatch
<1>2. ValuesIn(tables.points) = points /\ RevisionsIn(tables.points, PointIds) = pointRev
  <2>1. /\ points = [x \in DOMAIN points |-> points[x]] /\ pointRev \in [PointIds -> Nat]
        /\ DOMAIN points = {x \in PointIds : pointRev[x] > 0}
    BY <1>0
  <2>2. /\ ValuesIn(RowsOf(points, pointRev)) = points
        /\ RevisionsIn(RowsOf(points, pointRev), PointIds) = pointRev
    BY ONLY <2>1, ValuesComeBack
  <2>3. tables.points = RowsOf(points, pointRev)
    BY DEF TablesMatch
  <2> QED
    BY <2>2, <2>3
<1>3. ValuesIn(tables.cues) = cues /\ RevisionsIn(tables.cues, CueIds) = cueRev
  <2>1. /\ cues = [x \in DOMAIN cues |-> cues[x]] /\ cueRev \in [CueIds -> Nat]
        /\ DOMAIN cues = {x \in CueIds : cueRev[x] > 0}
    BY <1>0
  <2>2. /\ ValuesIn(RowsOf(cues, cueRev)) = cues
        /\ RevisionsIn(RowsOf(cues, cueRev), CueIds) = cueRev
    BY ONLY <2>1, ValuesComeBack
  <2>3. tables.cues = RowsOf(cues, cueRev)
    BY DEF TablesMatch
  <2> QED
    BY <2>2, <2>3
<1>4. {tables.findings[k] : k \in DOMAIN tables.findings} = findings
  BY FindingsComeBack DEF TablesMatch, RowsDiffer, FindingsDiffer
<1>5. LoadStamped(tables.runs) = runs
  BY <1>0, ListComesBack DEF TablesMatch, TimesAscend
<1>6. LoadStamped(tables.attempts) = attempts
  BY <1>0, ListComesBack DEF TablesMatch, TimesAscend
<1>7. InOrder(Times(tables.batches)) = [k \in 1..Len(batches) |-> k]
  <2>1. Len(batches) \in Nat
    BY <1>0
  <2> QED
    BY <2>1, AscendingInOrder DEF TimesAscend, Timed
<1>8. LoadBatches = batches
  <2>1. LoadBatches = [i \in 1..Len(batches) |-> LoadBatch([k \in 1..Len(batches) |-> k][i])]
    BY <1>7 DEF LoadBatches
  <2>2. LoadBatches = [i \in 1..Len(batches) |-> LoadBatch(i)]
    BY <2>1
  <2>3. DOMAIN batches = 1..Len(batches) /\ batches = [i \in 1..Len(batches) |-> batches[i]]
    BY <1>0
  <2>4. \A i \in 1..Len(batches) : LoadBatch(i) = batches[i]
    BY <2>3, BatchComesBack
  <2> QED
    BY <2>2, <2>3, <2>4
<1>9. tables.case.status = status /\ tables.case.version = version
  BY DEF TablesMatch
<1>10. Load = Aggregate
  BY <1>2, <1>3, <1>4, <1>5, <1>6, <1>8, <1>9 DEF Load, Aggregate
<1> QED
  BY <1>7, <1>10 DEF SavedCaseIsTheCase, LoadedIds

\* When writes are a second or more apart, a load finds the case that the last
\* operation left, however long its history: in between, text and rows change nothing.
THEOREM SavedCasesComeBack == Ticks >= 100 => (StoredSpec => []SavedCaseIsTheCase)
<1>1. TypeInv /\ RowsDiffer /\ TablesMatch /\ TimesAscend => SavedCaseIsTheCase
  BY CaseComesBack
<1> QED
  BY <1>1, TimesStayAscending, PTL

-----------------------------------------------------------------------------
(* The list of batches.                                                    *)

\* Sorted from the newest on, the batches are listed backwards.
LEMMA ListedBackwards ==
  ASSUME TypeInv, TimesAscend, NEW ids, Range(ids) = 1..Len(batches)
  PROVE  NewestFirst(ids) = [k \in 1..Len(batches) |-> Len(batches) + 1 - k]
<1> DEFINE N == Len(batches)
           Newer(m, n) == \/ tables.batches[m].time > tables.batches[n].time
                          \/ tables.batches[m].time = tables.batches[n].time /\ m > n
           First(n) == {m \in 1..N : Newer(m, n)}
           Pick(k) == CHOOSE n \in 1..N : Cardinality(First(n)) = k - 1
<1>0. N \in Nat
  BY DEF TypeInv, TypeOK
<1>1. Range(ids) = 1..N
  OBVIOUS
<1>2. /\ \A n \in 1..N : tables.batches[n].time \in Nat
      /\ \A m, n \in 1..N : m < n => tables.batches[m].time + 100 <= tables.batches[n].time
  BY DEF TimesAscend, Timed, Ascending, Times
<1>3. ASSUME NEW m \in 1..N, NEW n \in 1..N
      PROVE  Newer(m, n) <=> m > n
  <2> DEFINE a == tables.batches[m].time
             b == tables.batches[n].time
  <2>0. /\ a \in Nat /\ b \in Nat
        /\ m < n => a + 100 <= b
        /\ n < m => b + 100 <= a
        /\ m = n => a = b
    BY <1>2
  <2> HIDE DEF a, b
  <2>1. /\ a \in Nat /\ b \in Nat
        /\ m < n => a < b
        /\ n < m => b < a
        /\ m = n => a = b
    BY <2>0
  <2>2. Newer(m, n) <=> (a > b \/ (a = b /\ m > n))
    BY DEF a, b
  <2>3. m \in Nat /\ n \in Nat
    BY <1>0
  <2>4. (a > b \/ (a = b /\ m > n)) <=> m > n
    BY ONLY <2>1, <2>3
  <2> QED
    BY ONLY <2>2, <2>4
<1>4. ASSUME NEW n \in 1..N
      PROVE  Cardinality(First(n)) = N - n
  <2>1. First(n) = {m \in 1..N : m > n}
    BY <1>3
  <2> QED
    BY <1>0, <2>1, Ranks
<1>5. NewestFirst(ids) =
        [k \in 1..Cardinality(1..N) |-> Pick(k)]
  BY <1>1 DEF NewestFirst, Ordered
<1>6. Cardinality(1..N) = N
  BY <1>0, Ranks
<1> HIDE DEF N, First
<1>7. ASSUME NEW k \in 1..N
      PROVE  Pick(k) = N + 1 - k
  BY <1>0, <1>4
<1> HIDE DEF Pick
<1>8. [k \in 1..Cardinality(1..N) |-> Pick(k)] = [k \in 1..N |-> N + 1 - k]
  BY ONLY <1>6, <1>7
<1>9. NewestFirst(ids) = [k \in 1..N |-> N + 1 - k]
  BY ONLY <1>5, <1>8
<1> QED
  BY <1>9 DEF N

\* The smaller of two numbers.
LEMMA LeastOfTwo ==
  ASSUME NEW a \in Nat, NEW b \in Nat
  PROVE  Min({a, b}) = IF a <= b THEN a ELSE b
<1>1. CASE a <= b
  <2>1. a \in {a, b} /\ \A y \in {a, b} : a <= y
    BY <1>1
  <2> QED
    BY <1>1, <2>1 DEF Min
<1>2. CASE b < a
  <2>1. b \in {a, b} /\ \A y \in {a, b} : b <= y
    BY <1>2
  <2>2. \A x \in {a, b} : (\A y \in {a, b} : x <= y) => x = b
    BY <1>2
  <2>3. Min({a, b}) = b
    BY <2>1, <2>2 DEF Min
  <2> QED
    BY <1>2, <2>3
<1> QED
  BY <1>1, <1>2

\* When writes are a second or more apart, the list of batches begins with the batch that
\* the case treats as its latest, and no limit skips a newer one.
THEOREM NewestBatchesAreListed == Ticks >= 100 => (StoredSpec => []ListStartsWithTheLatest)
<1>1. TypeInv /\ RowsDiffer /\ TablesMatch /\ TimesAscend => ListStartsWithTheLatest
  <2> SUFFICES ASSUME TypeInv, RowsDiffer, TablesMatch, TimesAscend,
                      NEW limit \in 1..(Len(batches) + 1)
               PROVE  LET shown == ListValidationBatches(limit)
                      IN  /\ Len(shown) = Min({limit, Len(batches)})
                          /\ \A i \in DOMAIN shown : shown[i] = batches[Len(batches) + 1 - i]
    BY DEF ListStartsWithTheLatest
  <2> DEFINE N == Len(batches)
             back == [k \in 1..N |-> N + 1 - k]
             m == Min({limit, N})
             ids == FirstOf(limit, NewestFirst(LoadedIds))
  <2>0. N \in Nat /\ DOMAIN batches = 1..N /\ limit \in Nat
    BY DEF TypeInv, TypeOK
  <2>1. NewestFirst(LoadedIds) = back
    <3>1. LoadedIds = [k \in 1..N |-> k]
      BY CaseComesBack
    <3>2. Range(LoadedIds) = 1..N
      BY <3>1 DEF Range
    <3> QED
      BY <3>2, ListedBackwards
  <2>2. m \in Nat /\ m <= N /\ m <= limit
    BY <2>0, LeastOfTwo
  <2>3. back \in Seq(Int) /\ Len(back) = N
    BY <2>0
  <2>4. ids = SubSeq(back, 1, m)
    BY <2>1, <2>3 DEF FirstOf
  <2> HIDE DEF m, ids, N
  <2>5. ids = [i \in 1..m |-> back[i]]
    BY <2>0, <2>2, <2>3, <2>4
  <2>6. \A i \in 1..m : ids[i] = N + 1 - i /\ ids[i] \in DOMAIN batches
    BY <2>0, <2>2, <2>5
  <2> HIDE DEF back
  <2>7. DOMAIN ids = 1..m
    BY <2>5
  <2> DEFINE shown == [i \in DOMAIN ids |-> LoadBatch(ids[i])]
  <2>8. ListValidationBatches(limit) = shown
    BY DEF ListValidationBatches, ids
  <2>9. Len(shown) = m
    BY <2>2, <2>7
  <2>10. \A i \in DOMAIN shown : shown[i] = batches[N + 1 - i]
    BY <2>6, <2>7, BatchComesBack
  <2> QED
    BY <2>8, <2>9, <2>10 DEF m, N
<1> QED
  BY <1>1, TimesStayAscending, PTL

-----------------------------------------------------------------------------
(* The progress of a rehearsal.                                            *)

\* Nothing sent with a completion adds nothing.
LEMMA NothingSent ==
  ASSUME NEW results
  PROVE  Recorded(Record(results, {})) = Recorded(results)
<1>1. \A q \in CueIds : Record(results, {})[q] = results[q]
  BY DEF Record
<1> QED
  BY <1>1 DEF Recorded

\* A result that is there after a completion was there before or was sent with it.
LEMMA RecordedOrSent ==
  ASSUME NEW results, NEW legacy
  PROVE  Recorded(Record(results, legacy)) \subseteq Recorded(results) \cup {r.cue : r \in legacy}
<1> SUFFICES ASSUME NEW q \in CueIds, Record(results, legacy)[q] # NoResult,
                    ~ \E r \in legacy : r.cue = q
             PROVE  results[q] # NoResult
  BY DEF Recorded
<1>1. Record(results, legacy)[q] = results[q]
  BY DEF Record
<1> QED
  BY <1>1

\* When writes are a second or more apart, a view reports a rehearsal exactly while
\* there is one, and what it calls pending is exactly what completing the rehearsal
\* asks for, after any corrections, edits and earlier runs.
THEOREM ProgressIsRight == Ticks >= 100 => (StoredSpec => []ProgressIsWhatIsAskedFor)
<1>1. TypeInv /\ OnePendingRun /\ SavedCaseIsTheCase => ProgressIsWhatIsAskedFor
  <2> SUFFICES ASSUME TypeInv, OnePendingRun, SavedCaseIsTheCase
               PROVE  ProgressIsWhatIsAskedFor
    OBVIOUS
  <2>1. Load.runs = runs /\ Load.cues = cues
    BY DEF SavedCaseIsTheCase, Aggregate
  <2>2. runs \in Seq(Runs) /\ DOMAIN cues \subseteq CueIds
    BY DEF TypeInv, TypeOK
  <2> DEFINE N == Len(runs)
             done == Recorded(runs[N].results)
  <2>3. N \in Nat /\ DOMAIN runs = 1..N /\ (runs = <<>> <=> N = 0)
    BY <2>2
  <2>4. RehearsalProgress =
          IF N # 0 /\ runs[N].outcome = "PENDING"
          THEN {[run |-> N, recorded |-> done, pending |-> DOMAIN cues \ done]} ELSE {}
    BY <2>1, <2>3 DEF RehearsalProgress, ProgressOf
  <2>5. status = "REHEARSING" <=> N # 0 /\ runs[N].outcome = "PENDING"
    <3>1. N # 0 => N \in DOMAIN runs
      BY <2>3
    <3>2. 0 \notin DOMAIN runs
      BY <2>3
    <3> QED
      BY <3>1, <3>2 DEF OnePendingRun
  <2> HIDE DEF N, done
  <2>6. ASSUME NEW progress \in RehearsalProgress
        PROVE  /\ progress.run = N /\ progress.pending = DOMAIN cues \ done
               /\ status = "REHEARSING" /\ PendingRun(N)
    <3>1. progress = [run |-> N, recorded |-> done, pending |-> DOMAIN cues \ done]
      BY <2>4
    <3>2. N # 0 /\ runs[N].outcome = "PENDING"
      BY <2>4
    <3> QED
      BY <2>3, <2>5, <3>1, <3>2 DEF PendingRun
  <2>7. ASSUME NEW progress \in RehearsalProgress, progress.pending = {}
        PROVE  CompletionOK(progress.run, {})
    <3>1. DOMAIN cues \subseteq done
      BY <2>6, <2>7
    <3>2. DOMAIN cues \subseteq Recorded(Record(runs[N].results, {}))
      BY <3>1, NothingSent DEF done
    <3> QED
      BY <2>6, <3>2 DEF CompletionOK
  <2>8. ASSUME NEW progress \in RehearsalProgress, NEW legacy \in LegacyInputs,
               CompletionOK(progress.run, legacy)
        PROVE  /\ {r.cue : r \in legacy} = progress.pending
               /\ \A q \in progress.pending : \E r \in legacy : {s \in legacy : s.cue = q} = {r}
    <3>1. /\ \A r \in legacy : r.cue \in DOMAIN cues /\ r.cue \notin done
          /\ DOMAIN cues \subseteq Recorded(Record(runs[N].results, legacy))
      BY <2>6, <2>8 DEF CompletionOK, ResultOK, done
    <3>2. DOMAIN cues \subseteq done \cup {r.cue : r \in legacy}
      BY <3>1, RecordedOrSent DEF done
    <3>3. progress.pending = DOMAIN cues \ done
      BY <2>6
    <3>4. {r.cue : r \in legacy} = progress.pending
      BY <3>1, <3>2, <3>3
    <3>5. \A r, s \in legacy : r.cue = s.cue => r = s
      BY <2>8 DEF CompletionOK
    <3>6. ASSUME NEW q \in progress.pending
          PROVE  \E r \in legacy : {s \in legacy : s.cue = q} = {r}
      <4>1. PICK r \in legacy : r.cue = q
        BY <3>4
      <4> QED
        BY <3>5, <4>1
    <3> QED
      BY <3>4, <3>6
  <2> QED
    BY <2>4, <2>5, <2>7, <2>8 DEF ProgressIsWhatIsAskedFor
<1>2. StoredSpec => [](TypeInv /\ OnePendingRun)
  BY StoredCaseIsACase, TypeInvariant, OneRehearsalAtATime, PTL
<1>3. CASE Ticks >= 100
  BY <1>1, <1>2, <1>3, SavedCasesComeBack, PTL
<1> QED
  BY <1>3
=============================================================================
