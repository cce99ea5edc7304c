-------------------------- MODULE RiggingCase_proofs --------------------------
(***************************************************************************)
(* Theorems about RiggingCase, for every set of ids, every width of the    *)
(* integers and every number of steps.                                     *)
(***************************************************************************)
EXTENDS RiggingCase, TLAPS

-----------------------------------------------------------------------------
(* What the operators of the rules and of editing return.                  *)

Hits == [code : Codes, severity : Severities, refs : SUBSET Refs]

\* Every hit of Evaluate refers to parts of the case: a rule reports no id that
\* the case does not know, except the unknown parent of an orphan.
LEMMA EvaluateIsHits ==
  ASSUME NEW pts, NEW D \in SUBSET PointIds, pts \in [D -> PointValues],
         NEW qs, DOMAIN qs \subseteq CueIds, NEW limit
  PROVE  Evaluate(pts, qs, limit) \subseteq Hits
<1>0. DOMAIN pts = D
  OBVIOUS
<1>1. \A code \in Codes, severity \in Severities, refs \in SUBSET Refs :
        Hit(code, severity, refs) \in Hits
  BY DEF Hit, Hits
<1>2. BLOCKING \in Severities /\ WARNING \in Severities /\ RuleCodes \subseteq Codes
  BY DEF Severities, Codes
<1>3. \A id \in D : {id} \in SUBSET Refs /\ Subtree(pts, id) \in SUBSET Refs
  BY <1>0 DEF Refs, Subtree
<1>4. \A id \in Orphans(pts) : id \in D /\ pts[id].parent \in PointIds
  BY <1>0 DEF Orphans, PointValues
<1>5. StructureHits(pts) \subseteq Hits
  <2>1. \A id \in Orphans(pts) : {id, pts[id].parent} \in SUBSET Refs
    BY <1>4 DEF Refs
  <2>2. \A id \in ConnectionCycleIDs(pts) : {id} \in SUBSET Refs
    BY <1>0, <1>3 DEF ConnectionCycleIDs
  <2>3. \A id \in Orphans(pts) :
          Hit("ORPHAN_PARENT", BLOCKING, {id, pts[id].parent}) \in Hits
    BY <1>1, <1>2, <2>1 DEF RuleCodes
  <2>4. \A id \in ConnectionCycleIDs(pts) : Hit("CONNECTION_CYCLE", BLOCKING, {id}) \in Hits
    BY <1>1, <1>2, <2>2 DEF RuleCodes
  <2> QED
    BY <2>3, <2>4 DEF StructureHits
<1>6. UnrootedHits(pts) \subseteq Hits
  <2>1. \A id \in D : Hit("UNROOTED_POINT", BLOCKING, {id}) \in Hits
    BY <1>1, <1>2, <1>3 DEF RuleCodes
  <2> QED
    BY <1>0, <2>1 DEF UnrootedHits
<1>7. ASSUME NEW over \in Codes, NEW close \in Codes, NEW p, NEW load, NEW refs \in SUBSET Refs
      PROVE  CapacityHits(over, close, p, load, refs) \subseteq Hits
  BY <1>1, <1>2 DEF CapacityHits
<1>8. \A id \in D : OwnHits(pts, id) \subseteq Hits
  BY <1>1, <1>2, <1>3, <1>7 DEF OwnHits, RuleCodes
<1>9. \A id \in D : CascadeHits(pts, id) \subseteq Hits
  BY <1>1, <1>2, <1>3, <1>7 DEF CascadeHits, RuleCodes
<1>10. VenueHits(pts, limit) \subseteq Hits
  <2>1. {"venue"} \in SUBSET Refs /\ ({"venue"} \cup Rooted(pts)) \in SUBSET Refs
    BY <1>0 DEF Rooted, Subtree, Refs
  <2> QED
    BY <1>1, <1>2, <2>1 DEF VenueHits, RuleCodes
<1>11. MutexHits(qs) \subseteq Hits
  <2>1. MutexPairs(qs) \subseteq SUBSET Refs
    BY DEF Refs, MutexPairs
  <2> QED
    BY <1>1, <1>2, <2>1 DEF MutexHits, RuleCodes
<1>12. RequiredHits(pts, qs) \subseteq Hits
  BY <1>1, <1>2 DEF RequiredHits, Refs, RuleCodes
<1>13. LoadHits(pts) \subseteq Hits
  BY <1>0, <1>8, <1>9 DEF LoadHits
<1> QED
  BY <1>5, <1>6, <1>10, <1>11, <1>12, <1>13 DEF Evaluate

\* Editing keeps the shape of the values, and a value is there exactly when its
\* revision is positive.
LEMMA MergeKeepsShape ==
  ASSUME NEW Ident, NEW Values, NEW vals, NEW revs, NEW items,
         vals \in [DOMAIN vals -> Values],
         revs \in [Ident -> Nat],
         \A x : x \in DOMAIN vals <=> x \in Ident /\ revs[x] > 0,
         items \subseteq Items(Ident, Values)
  PROVE  /\ Merge(vals, items) \in [DOMAIN vals \cup Ids(items) -> Values]
         /\ Ids(items) \subseteq Ident
         /\ Changed(vals, items) \subseteq Ids(items)
         /\ Revised(revs, Changed(vals, items)) \in [Ident -> Nat]
         /\ \A x : x \in DOMAIN vals \cup Ids(items)
                    <=> x \in Ident /\ Revised(revs, Changed(vals, items))[x] > 0
<1>1. Ids(items) \subseteq Ident
  BY DEF Ids, Items
<1>2. ASSUME NEW id \in Ids(items)
      PROVE  (CHOOSE i \in items : i.id = id).value \in Values
  <2>1. \E i \in items : i.id = id
    BY DEF Ids
  <2>2. (CHOOSE i \in items : i.id = id) \in items
    BY <2>1
  <2> QED
    BY <2>2 DEF Items
<1>3. Merge(vals, items) \in [DOMAIN vals \cup Ids(items) -> Values]
  BY <1>2 DEF Merge
<1>4. Changed(vals, items) \subseteq Ids(items)
  BY DEF Changed
<1>5. Revised(revs, Changed(vals, items)) \in [Ident -> Nat]
  BY DEF Revised
<1>6. ASSUME NEW x \in Ident
      PROVE  x \in DOMAIN vals \cup Ids(items) <=> Revised(revs, Changed(vals, items))[x] > 0
  <2>1. x \in Ids(items) /\ x \notin DOMAIN vals => x \in Changed(vals, items)
    BY DEF Changed
  <2> QED
    BY <1>4, <2>1 DEF Revised
<1> QED
  BY <1>1, <1>3, <1>4, <1>5, <1>6

-----------------------------------------------------------------------------
(* The shape of the state.                                                 *)

\* The revisions of the inputs are natural numbers, whoever asks for them.
LEMMA RevisionsAreNat ==
  ASSUME TypeOK
  PROVE  /\ \A ref : RevisionOf(ref) \in Nat
         /\ \A refs : Observed(refs) \in [Refs -> Nat]
         /\ Baseline \in [PointIds \cup CueIds -> Nat]
<1>1. \A ref : RevisionOf(ref) \in Nat
  BY DEF TypeOK, RevisionOf
<1>2. \A refs : Observed(refs) \in [Refs -> Nat]
  BY <1>1 DEF Observed
<1>3. Baseline \in [PointIds \cup CueIds -> Nat]
  BY DEF TypeOK, Baseline
<1> QED
  BY <1>1, <1>2, <1>3

\* The hits of the inputs the case has.
LEMMA CurrentHits ==
  ASSUME TypeOK
  PROVE  Evaluate(points, cues, VenueLimit) \subseteq Hits
<1>1. /\ DOMAIN points \in SUBSET PointIds
      /\ points \in [DOMAIN points -> PointValues]
      /\ DOMAIN cues \subseteq CueIds
  BY DEF TypeOK
<1> QED
  BY <1>1, EvaluateIsHits

\* The last batch is a batch, and marking it leaves a sequence of batches.
LEMMA MarkStaleKeepsBatches ==
  ASSUME batches \in Seq(Batches), NEW refs \in SUBSET (PointIds \cup CueIds)
  PROVE  /\ MarkStale(refs) \in Seq(Batches)
         /\ batches # <<>> => LatestBatch \in Batches
<1>1. CASE batches = <<>>
  BY <1>1 DEF MarkStale
<1>2. CASE batches # <<>>
  <2>1. Len(batches) \in DOMAIN batches /\ LatestBatch \in Batches
    BY <1>2 DEF LatestBatch
  <2>2. Marked(LatestBatch, refs) \in Batches
    BY <2>1 DEF Batches, Marked
  <2> QED
    BY <1>2, <2>1, <2>2 DEF MarkStale
<1> QED
  BY <1>1, <1>2

\* A finding made from a hit.
LEMMA FindingIsFinding ==
  ASSUME TypeOK, NEW source \in Sources, NEW origin \in Positive,
         NEW cue \in CueIds \cup {Blank}, NEW hit \in Hits
  PROVE  Finding(source, origin, cue, hit) \in Findings
  BY RevisionsAreNat DEF Finding, Findings, Hits

\* Closing findings leaves findings.
LEMMA ClosedIsFinding ==
  ASSUME NEW f \in Findings
  PROVE  [f EXCEPT !.status = "CLOSED"] \in Findings
  BY DEF Findings

\* The hits of a result have the shape of hits.
LEMMA ResultHitsAreHits ==
  ASSUME TypeOK, NEW r, r.cue \in CueIds
  PROVE  ResultHits(r) \subseteq Hits
<1>1. PeakViolation(r) \in SUBSET PointIds
  BY DEF PeakViolation, TypeOK
<1>2. /\ {r.cue} \in SUBSET Refs
      /\ ({r.cue} \cup PeakViolation(r)) \in SUBSET Refs
  BY <1>1 DEF Refs
<1>3. /\ Hit("REHEARSAL_PEAK", BLOCKING, {r.cue} \cup PeakViolation(r)) \in Hits
      /\ Hit("REHEARSAL_DEVIATION", BLOCKING, {r.cue}) \in Hits
  BY <1>2 DEF Hit, Hits, Codes, Severities
<1> QED
  BY <1>3 DEF ResultHits

\* Recording results keeps the shape of a run, and what is recorded for a cue
\* is about that cue.
LEMMA RecordKeepsResults ==
  ASSUME NEW results \in [CueIds -> CueResults \cup {NoResult}],
         NEW rs \in SUBSET CueResults
  PROVE  /\ Record(results, rs) \in [CueIds -> CueResults \cup {NoResult}]
         /\ \A q \in CueIds : (\E r \in rs : r.cue = q) =>
              Record(results, rs)[q] \in rs /\ Record(results, rs)[q].cue = q
         /\ \A q \in CueIds : ~(\E r \in rs : r.cue = q) => Record(results, rs)[q] = results[q]
  BY DEF Record

\* A result a client may send.
LEMMA ResultsAreResults ==
  /\ CueResults \subseteq Results
  /\ \A legacy \in LegacyInputs : legacy \in SUBSET CueResults
  /\ NoResult \notin CueResults
  BY CaseAssumption

\* The results a completion takes over, and the findings it makes of them.
LEMMA CompletionIsTyped ==
  ASSUME TypeOK, NEW n \in DOMAIN runs, NEW legacy \in LegacyInputs,
         DOMAIN cues \subseteq Recorded(Record(runs[n].results, legacy)),
         \A q \in CueIds : runs[n].results[q] # NoResult => runs[n].results[q].cue = q
  PROVE  /\ Record(runs[n].results, legacy) \in [CueIds -> CueResults \cup {NoResult}]
         /\ \A q \in DOMAIN cues :
              /\ Record(runs[n].results, legacy)[q] # NoResult
              /\ Record(runs[n].results, legacy)[q].cue = q
              /\ \A h \in ResultHits(Record(runs[n].results, legacy)[q]) :
                   Finding("REHEARSAL", n, q, h) \in Findings
<1> DEFINE results == Record(runs[n].results, legacy)
<1>1. runs[n].results \in [CueIds -> CueResults \cup {NoResult}] /\ n \in Positive
  <2>1. runs[n] \in Runs /\ n \in Positive
    BY DEF TypeOK, Positive
  <2> QED
    BY <2>1 DEF Runs
<1>2. legacy \in SUBSET CueResults
  BY ResultsAreResults
<1>3. DOMAIN cues \subseteq CueIds
  BY DEF TypeOK
<1>4. results \in [CueIds -> CueResults \cup {NoResult}]
  BY <1>1, <1>2, RecordKeepsResults
<1>5. ASSUME NEW q \in DOMAIN cues
      PROVE  results[q] # NoResult /\ results[q].cue = q
  <2>1. q \in CueIds /\ results[q] # NoResult
    BY <1>3 DEF Recorded
  <2>2. CASE \E r \in legacy : r.cue = q
    BY <1>1, <1>2, <2>1, <2>2, RecordKeepsResults
  <2>3. CASE ~(\E r \in legacy : r.cue = q)
    BY <1>1, <1>2, <2>1, <2>3, RecordKeepsResults
  <2> QED
    BY <2>1, <2>2, <2>3
<1>6. ASSUME NEW q \in DOMAIN cues, NEW h \in ResultHits(results[q])
      PROVE  Finding("REHEARSAL", n, q, h) \in Findings
  <2>1. results[q].cue \in CueIds
    BY <1>3, <1>5
  <2>2. h \in Hits
    BY <2>1, ResultHitsAreHits
  <2>3. "REHEARSAL" \in Sources /\ q \in CueIds \cup {Blank}
    BY <1>3 DEF Sources
  <2> QED
    BY <1>1, <2>2, <2>3, FindingIsFinding
<1> QED
  BY <1>4, <1>5, <1>6

\* Whatever a run holds under a cue was measured on that cue.  A completion
\* looks its findings up by that cue, so even the shape of a finding needs it.
ResultsByCue ==
  \A n \in DOMAIN runs : \A q \in CueIds :
    runs[n].results[q] # NoResult => runs[n].results[q].cue = q

TypeInv == TypeOK /\ ResultsByCue

\* The invariant of types holds at first.
LEMMA InitTypeInv == Init => TypeInv
<1> SUFFICES ASSUME Init PROVE TypeInv
  OBVIOUS
<1>1. TypeOK
  <2>1. status \in Statuses /\ version \in Positive
    BY DEF Init, Statuses, Positive
  <2>2. points \in [DOMAIN points -> PointValues] /\ cues \in [DOMAIN cues -> CueValues]
    BY DEF Init
  <2>3. /\ pointRev \in [PointIds -> Nat]
        /\ DOMAIN points = {p \in PointIds : pointRev[p] > 0}
        /\ cueRev \in [CueIds -> Nat]
        /\ DOMAIN cues = {q \in CueIds : cueRev[q] > 0}
    BY DEF Init
  <2>4. /\ findings \subseteq Findings
        /\ batches \in Seq(Batches)
        /\ runs \in Seq(Runs)
        /\ attempts \in Seq(Attempts)
    BY DEF Init
  <2> QED
    BY <2>1, <2>2, <2>3, <2>4 DEF TypeOK
<1>2. ResultsByCue
  BY DEF Init, ResultsByCue
<1> QED
  BY <1>1, <1>2 DEF TypeInv

\* Every step keeps it.
LEMMA NextTypeInv == TypeInv /\ [Next]_vars => TypeInv'
<1> SUFFICES ASSUME TypeInv, [Next]_vars PROVE TypeInv'
  OBVIOUS
<1> USE DEF TypeInv
<1>b. ASSUME Bump PROVE version' \in Positive
  BY <1>b DEF Bump, TypeOK, Positive
<1>1. ASSUME NEW changes \in ChangeSetInputs, ApplyChangeSet(changes)
      PROVE  TypeInv'
  <2>1. /\ changes.points \subseteq Items(PointIds, PointValues)
        /\ changes.cues \subseteq Items(CueIds, CueValues)
    BY CaseAssumption
  <2>2. /\ points' = Merge(points, changes.points)
        /\ pointRev' = Revised(pointRev, Changed(points, changes.points))
        /\ cues' = Merge(cues, changes.cues)
        /\ cueRev' = Revised(cueRev, Changed(cues, changes.cues))
    BY <1>1 DEF ApplyChangeSet
  <2>3. /\ points' \in [DOMAIN points' -> PointValues]
        /\ pointRev' \in [PointIds -> Nat]
        /\ DOMAIN points' = {p \in PointIds : pointRev'[p] > 0}
        /\ Changed(points, changes.points) \subseteq PointIds
    <3>1. /\ points \in [DOMAIN points -> PointValues]
          /\ pointRev \in [PointIds -> Nat]
          /\ \A x : x \in DOMAIN points <=> x \in PointIds /\ pointRev[x] > 0
      BY DEF TypeOK
    <3>2. /\ Merge(points, changes.points) \in [DOMAIN points \cup Ids(changes.points) -> PointValues]
          /\ Ids(changes.points) \subseteq PointIds
          /\ Changed(points, changes.points) \subseteq Ids(changes.points)
          /\ Revised(pointRev, Changed(points, changes.points)) \in [PointIds -> Nat]
          /\ \A x : x \in DOMAIN points \cup Ids(changes.points)
                     <=> x \in PointIds /\ Revised(pointRev, Changed(points, changes.points))[x] > 0
      BY <2>1, <3>1, MergeKeepsShape
    <3> QED
      BY <2>2, <3>2
  <2>4. /\ cues' \in [DOMAIN cues' -> CueValues]
        /\ cueRev' \in [CueIds -> Nat]
        /\ DOMAIN cues' = {q \in CueIds : cueRev'[q] > 0}
        /\ Changed(cues, changes.cues) \subseteq CueIds
    <3>1. /\ cues \in [DOMAIN cues -> CueValues]
          /\ cueRev \in [CueIds -> Nat]
          /\ \A x : x \in DOMAIN cues <=> x \in CueIds /\ cueRev[x] > 0
      BY DEF TypeOK
    <3>2. /\ Merge(cues, changes.cues) \in [DOMAIN cues \cup Ids(changes.cues) -> CueValues]
          /\ Ids(changes.cues) \subseteq CueIds
          /\ Changed(cues, changes.cues) \subseteq Ids(changes.cues)
          /\ Revised(cueRev, Changed(cues, changes.cues)) \in [CueIds -> Nat]
          /\ \A x : x \in DOMAIN cues \cup Ids(changes.cues)
                     <=> x \in CueIds /\ Revised(cueRev, Changed(cues, changes.cues))[x] > 0
      BY <2>1, <3>1, MergeKeepsShape
    <3> QED
      BY <2>2, <3>2
  <2>5. batches' \in Seq(Batches)
    BY <1>1, <2>3, <2>4, MarkStaleKeepsBatches DEF ApplyChangeSet, TypeOK
  <2>6. version' \in Positive
    BY <1>1, <1>b DEF ApplyChangeSet
  <2>7. UNCHANGED <<status, findings, runs, attempts>>
    BY <1>1 DEF ApplyChangeSet
  <2>8. TypeOK'
    BY <2>3, <2>4, <2>5, <2>6, <2>7 DEF TypeOK
  <2> QED
    BY <2>7, <2>8 DEF ResultsByCue
<1>2. ASSUME RunValidation
      PROVE  TypeInv'
  <2> DEFINE hits == Evaluate(points, cues, VenueLimit)
  <2>1. hits \subseteq Hits
    BY CurrentHits
  <2>2. status' \in Statuses /\ Verdict(hits) \in {"DRAFT", "VALIDATED"}
    BY <1>2 DEF RunValidation, Verdict, Statuses
  <2>3. Len(batches) + 1 \in Positive
    BY DEF TypeOK, Positive
  <2>4. findings' \subseteq Findings
    <3>1. \A h \in hits : Finding("VALIDATION", Len(batches) + 1, Blank, h) \in Findings
      BY <2>1, <2>3, FindingIsFinding DEF Sources
    <3>2. CloseOpenValidations(findings) \subseteq Findings
      BY ClosedIsFinding DEF CloseOpenValidations, TypeOK
    <3> QED
      BY <1>2, <3>1, <3>2 DEF RunValidation
  <2>5. PreviousIssues \subseteq Issues
    <3>1. batches # <<>> => LatestBatch \in Batches
      BY MarkStaleKeepsBatches DEF TypeOK
    <3> QED
      BY <3>1 DEF PreviousIssues, Unresolved, Batches
  <2>6. IssuesAfter(hits, PreviousIssues) \subseteq Issues
    <3>1. \A h \in hits, state \in {"NEW", "PERSISTING"} : Issue(h, state) \in Issues
      BY <2>1 DEF Issue, Issues, Hits
    <3>2. \A p \in PreviousIssues : Issue(p, "RESOLVED") \in Issues
      BY <2>5 DEF Issue, Issues
    <3> QED
      BY <3>1, <3>2 DEF IssuesAfter
  <2>7. [version |-> version, baseline |-> Baseline, final |-> Verdict(hits), stale |-> FALSE,
         changed |-> {}, issues |-> IssuesAfter(hits, PreviousIssues)] \in Batches
    BY <2>2, <2>6, RevisionsAreNat DEF Batches, TypeOK
  <2>8. batches' \in Seq(Batches)
    BY <1>2, <2>7 DEF RunValidation, TypeOK
  <2>9. version' \in Positive /\ UNCHANGED <<inputs, runs, attempts>>
    BY <1>2, <1>b DEF RunValidation
  <2>10. TypeOK'
    BY <2>2, <2>4, <2>8, <2>9 DEF TypeOK, inputs
  <2> QED
    BY <2>9, <2>10 DEF ResultsByCue
<1>3. ASSUME StartRehearsal
      PROVE  TypeInv'
  <2> DEFINE run == [outcome |-> "PENDING", results |-> [q \in CueIds |-> NoResult]]
  <2>1. run \in Runs /\ \A q \in CueIds : run.results[q] = NoResult
    BY DEF Runs
  <2>2. runs' = Append(runs, run) /\ runs \in Seq(Runs)
    BY <1>3 DEF StartRehearsal, TypeOK
  <2>3. runs' \in Seq(Runs)
    BY <2>1, <2>2
  <2>4. status' \in Statuses
    BY <1>3 DEF StartRehearsal, Statuses
  <2>5. version' \in Positive /\ UNCHANGED <<inputs, findings, batches, attempts>>
    BY <1>3, <1>b DEF StartRehearsal
  <2>6. TypeOK'
    BY <2>3, <2>4, <2>5 DEF TypeOK, inputs
  <2>7. \A n \in DOMAIN runs' : (n \in DOMAIN runs /\ runs'[n] = runs[n]) \/ runs'[n] = run
    BY <2>1, <2>2
  <2> QED
    BY <2>1, <2>6, <2>7 DEF ResultsByCue
<1>4. ASSUME NEW n \in DOMAIN runs, NEW r \in CueResults, SaveCueResult(n, r)
      PROVE  TypeInv'
  <2> DEFINE results == Record(runs[n].results, {r})
  <2>1. runs[n] \in Runs
    BY DEF TypeOK
  <2>2. /\ results \in [CueIds -> CueResults \cup {NoResult}]
        /\ \A q \in CueIds : results[q] # NoResult => results[q].cue = q
    BY <2>1, RecordKeepsResults DEF Runs, ResultsByCue
  <2>3. runs' = [runs EXCEPT ![n].results = results]
    BY <1>4 DEF SaveCueResult
  <2>4. [runs[n] EXCEPT !.results = results] \in Runs
    BY <2>1, <2>2 DEF Runs
  <2>5. runs' \in Seq(Runs)
    BY <2>3, <2>4 DEF TypeOK
  <2>6. version' \in Positive /\ UNCHANGED <<status, inputs, findings, batches, attempts>>
    BY <1>4, <1>b DEF SaveCueResult
  <2>7. TypeOK'
    BY <2>5, <2>6 DEF TypeOK, inputs
  <2>8. DOMAIN runs' = DOMAIN runs /\ runs'[n].results = results
        /\ \A i \in DOMAIN runs : i # n => runs'[i] = runs[i]
    BY <2>1, <2>3 DEF Runs
  <2> QED
    BY <2>2, <2>7, <2>8 DEF ResultsByCue
<1>5. ASSUME NEW n \in DOMAIN runs, NEW legacy \in LegacyInputs, CompleteRehearsal(n, legacy)
      PROVE  TypeInv'
  <2> DEFINE results == Record(runs[n].results, legacy)
             run == [outcome |-> IF Blocked(results) THEN "BLOCKED" ELSE "PASSED",
                     results |-> results]
  <2>1. /\ DOMAIN cues \subseteq Recorded(results)
        /\ \A q \in CueIds : runs[n].results[q] # NoResult => runs[n].results[q].cue = q
    BY <1>5 DEF CompleteRehearsal, CompletionOK, ResultsByCue
  <2>2. /\ results \in [CueIds -> CueResults \cup {NoResult}]
        /\ \A q \in DOMAIN cues : \A h \in ResultHits(results[q]) :
             Finding("REHEARSAL", n, q, h) \in Findings
    BY <2>1, CompletionIsTyped
  <2>3. findings' = findings \cup UNION {{Finding("REHEARSAL", n, q, h) :
                                             h \in ResultHits(results[q])} : q \in DOMAIN cues}
    BY <1>5 DEF CompleteRehearsal
  <2>4. findings' \subseteq Findings
    BY <2>2, <2>3 DEF TypeOK
  <2>5. run \in Runs
    BY <2>2 DEF Runs
  <2>6. runs' = [runs EXCEPT ![n] = run]
    BY <1>5 DEF CompleteRehearsal
  <2>7. runs' \in Seq(Runs)
    BY <2>5, <2>6 DEF TypeOK
  <2>8. status' \in Statuses
    BY <1>5 DEF CompleteRehearsal, Statuses
  <2>9. version' \in Positive /\ UNCHANGED <<inputs, batches, attempts>>
    BY <1>5, <1>b DEF CompleteRehearsal
  <2>10. TypeOK'
    BY <2>4, <2>7, <2>8, <2>9 DEF TypeOK, inputs
  <2>11. \A q \in CueIds : results[q] # NoResult => results[q].cue = q
    <3>1. runs[n] \in Runs
      BY DEF TypeOK
    <3>2. runs[n].results \in [CueIds -> CueResults \cup {NoResult}]
      BY <3>1 DEF Runs
    <3> QED
      BY <2>1, <3>2, RecordKeepsResults, ResultsAreResults
  <2>12. DOMAIN runs' = DOMAIN runs /\ runs'[n].results = results
         /\ \A i \in DOMAIN runs : i # n => runs'[i] = runs[i]
    BY <2>6
  <2> QED
    BY <2>10, <2>11, <2>12 DEF ResultsByCue
<1>6. ASSUME NEW f \in findings, NEW input \in CueResults \cup {NoResult},
             AttemptRemediation(f, input)
      PROVE  TypeInv'
  <2>1. f \in Findings /\ [f EXCEPT !.status = "CLOSED"] \in Findings
    BY ClosedIsFinding DEF TypeOK
  <2>2. findings' \subseteq Findings
    BY <1>6, <2>1 DEF AttemptRemediation, TypeOK
  <2>3. Key(f) \in Keys
    BY <2>1 DEF Key, Keys, Findings
  <2>4. RecheckPasses(f, input) \in BOOLEAN
    BY DEF RecheckPasses, StaticRecheck, Retest
  <2>5. [finding |-> Key(f), observed |-> Observed(f.refs), input |-> input,
         passed |-> RecheckPasses(f, input)] \in Attempts
    BY <2>3, <2>4, RevisionsAreNat DEF Attempts
  <2>6. attempts' \in Seq(Attempts)
    BY <1>6, <2>5 DEF AttemptRemediation, TypeOK
  <2>7. status' \in Statuses
    BY <1>6 DEF AttemptRemediation, TypeOK, Statuses
  <2>8. version' \in Positive /\ UNCHANGED <<inputs, batches, runs>>
    BY <1>6, <1>b DEF AttemptRemediation
  <2>9. TypeOK'
    BY <2>2, <2>6, <2>7, <2>8 DEF TypeOK, inputs
  <2> QED
    BY <2>8, <2>9 DEF ResultsByCue
<1>7. ASSUME Release
      PROVE  TypeInv'
  <2>1. status' \in Statuses /\ version' \in Positive
    BY <1>7, <1>b DEF Release, Statuses
  <2>2. UNCHANGED <<inputs, findings, batches, runs, attempts>>
    BY <1>7 DEF Release
  <2> QED
    BY <2>1, <2>2 DEF TypeOK, ResultsByCue, inputs
<1>8. CASE UNCHANGED vars
  BY <1>8 DEF vars, TypeOK, ResultsByCue
<1> QED
  BY <1>1, <1>2, <1>3, <1>4, <1>5, <1>6, <1>7, <1>8 DEF Next

\* In every reachable state the aggregate has its shape, and the inputs of a
\* case are exactly those that have a revision.
THEOREM TypeCorrect == Spec => []TypeOK
<1>1. TypeInv => TypeOK
  BY DEF TypeInv
<1> QED
  BY <1>1, InitTypeInv, NextTypeInv, PTL DEF Spec

\* The invariant itself, for the theorems that build on it.
LEMMA TypeInvariant == Spec => []TypeInv
  BY InitTypeInv, NextTypeInv, PTL DEF Spec

-----------------------------------------------------------------------------
(* Inputs.                                                                 *)

\* After any series of edits the load points have distinct equipment and form a
\* forest and the cues have distinct sequence numbers: ApplyChangeSet is the
\* only action that touches them, and preflight judges the final case.
THEOREM InputsStayWellFormed == Spec => []WellFormed
<1>1. Init => WellFormed
  <2> SUFFICES ASSUME Init PROVE WellFormed
    OBVIOUS
  <2>1. DOMAIN points = {} /\ DOMAIN cues = {}
    BY DEF Init
  <2> QED
    BY <2>1 DEF WellFormed, UniqueEquipment, UniqueSequences, Forest, Orphans, ConnectionCycleIDs
<1>2. WellFormed /\ [Next]_vars => WellFormed'
  <2> SUFFICES ASSUME WellFormed, [Next]_vars PROVE WellFormed'
    OBVIOUS
  <2>1. ASSUME NEW changes \in ChangeSetInputs, ApplyChangeSet(changes)
        PROVE  WellFormed'
    BY <2>1 DEF ApplyChangeSet, Preflight, WellFormed
  <2>2. CASE UNCHANGED inputs
    BY <2>2 DEF inputs, WellFormed
  <2>3. (\E changes \in ChangeSetInputs : ApplyChangeSet(changes)) \/ UNCHANGED inputs
    BY DEF Next, RunValidation, StartRehearsal, SaveCueResult, CompleteRehearsal,
           AttemptRemediation, Release, vars, inputs
  <2> QED
    BY <2>1, <2>2, <2>3
<1> QED
  BY <1>1, <1>2, PTL DEF Spec

-----------------------------------------------------------------------------
(* Validation.                                                             *)

\* A case can be VALIDATED or REHEARSING only on inputs without a blocking hit,
\* and its latest batch is about these inputs: between the validation and the
\* end of the rehearsal no action changes them.
THEOREM ValidatedInputsKeepPassing == Spec => []ValidatedInputsPass
<1>1. Init => ValidatedInputsPass
  BY DEF Init, ValidatedInputsPass
<1>2. TypeInv /\ ValidatedInputsPass /\ [Next]_vars => ValidatedInputsPass'
  <2> SUFFICES ASSUME TypeInv, ValidatedInputsPass, [Next]_vars PROVE ValidatedInputsPass'
    OBVIOUS
  <2>1. ASSUME NEW changes \in ChangeSetInputs, ApplyChangeSet(changes)
        PROVE  ValidatedInputsPass'
    BY <2>1 DEF ApplyChangeSet, Editable, ValidatedInputsPass
  <2>2. ASSUME RunValidation
        PROVE  ValidatedInputsPass'
    <3> DEFINE hits == Evaluate(points, cues, VenueLimit)
               batch == [version |-> version, baseline |-> Baseline, final |-> Verdict(hits),
                         stale |-> FALSE, changed |-> {},
                         issues |-> IssuesAfter(hits, PreviousIssues)]
    <3>1. batches' = Append(batches, batch) /\ batches \in Seq(Batches)
      BY <2>2 DEF RunValidation, TypeInv, TypeOK
    <3>2. LatestBatch' = batch /\ batches' # <<>>
      BY <3>1 DEF LatestBatch
    <3>3. hits' = hits
      BY <2>2 DEF RunValidation, inputs
    <3>4. status' = Verdict(hits)
      BY <2>2 DEF RunValidation
    <3>5. status' = "VALIDATED" \/ status' = "DRAFT"
      BY <3>4 DEF Verdict
    <3>6. status' = "VALIDATED" => Blockers(hits) = {}
      BY <3>4 DEF Verdict
    <3> QED
      BY <3>2, <3>3, <3>4, <3>5, <3>6 DEF ValidatedInputsPass
  <2>3. CASE UNCHANGED <<inputs, batches>> /\ (status' = status \/ status' \notin {"VALIDATED", "REHEARSING"}
                                                \/ status = "VALIDATED")
    <3>1. UNCHANGED <<points, cues, batches>>
      BY <2>3 DEF inputs
    <3>2. LatestBatch' = LatestBatch
          /\ Evaluate(points, cues, VenueLimit)' = Evaluate(points, cues, VenueLimit)
      BY <3>1 DEF LatestBatch
    <3> QED
      BY <2>3, <3>1, <3>2 DEF ValidatedInputsPass
  <2>4. \/ \E changes \in ChangeSetInputs : ApplyChangeSet(changes)
        \/ RunValidation
        \/ UNCHANGED <<inputs, batches>> /\ (status' = status
                                             \/ status' \notin {"VALIDATED", "REHEARSING"}
                                             \/ status = "VALIDATED")
    BY DEF Next, StartRehearsal, SaveCueResult, CompleteRehearsal, AttemptRemediation,
           Release, vars, inputs
  <2> QED
    BY <2>1, <2>2, <2>3, <2>4
<1> QED
  BY <1>1, <1>2, TypeInvariant, PTL DEF Spec

-----------------------------------------------------------------------------
(* Rehearsals.                                                             *)

\* At most one rehearsal is pending, it is the newest, and a case is REHEARSING
\* exactly then; the cues it has results for stay in the case.
THEOREM OneRehearsalAtATime == Spec => []OnePendingRun
<1>1. Init => OnePendingRun
  BY DEF Init, OnePendingRun
<1>2. TypeInv /\ OnePendingRun /\ [Next]_vars => OnePendingRun'
  <2> SUFFICES ASSUME TypeInv, OnePendingRun, [Next]_vars PROVE OnePendingRun'
    OBVIOUS
  <2>0. runs \in Seq(Runs) /\ DOMAIN runs = 1..Len(runs) /\ Len(runs) \in Nat
    BY DEF TypeInv, TypeOK
  <2>1. ASSUME DOMAIN cues \subseteq DOMAIN cues', UNCHANGED <<status, runs>>
        PROVE  OnePendingRun'
    BY <2>1 DEF OnePendingRun
  <2>2. ASSUME NEW changes \in ChangeSetInputs, ApplyChangeSet(changes)
        PROVE  OnePendingRun'
    <3>1. DOMAIN cues \subseteq DOMAIN cues'
      BY <2>2 DEF ApplyChangeSet, Merge
    <3> QED
      BY <2>1, <2>2, <3>1 DEF ApplyChangeSet
  <2>3. ASSUME RunValidation
        PROVE  OnePendingRun'
    <3>1. status # "REHEARSING" /\ status' # "REHEARSING"
      BY <2>3 DEF RunValidation, Editable, Verdict
    <3>2. UNCHANGED <<cues, runs>>
      BY <2>3 DEF RunValidation, inputs
    <3> QED
      BY <3>1, <3>2 DEF OnePendingRun
  <2>4. ASSUME StartRehearsal
        PROVE  OnePendingRun'
    <3> DEFINE run == [outcome |-> "PENDING", results |-> [q \in CueIds |-> NoResult]]
    <3>1. runs' = Append(runs, run) /\ status = "VALIDATED" /\ status' = "REHEARSING" /\ cues' = cues
      BY <2>4 DEF StartRehearsal, inputs
    <3>2. /\ DOMAIN runs' = DOMAIN runs \cup {Len(runs')}
          /\ \A n \in DOMAIN runs : runs'[n] = runs[n]
          /\ runs'[Len(runs')] = run
      BY <2>0, <3>1
    <3>3. Recorded(run.results) = {}
      BY DEF Recorded
    <3>4. \A n \in DOMAIN runs : runs[n].outcome # "PENDING"
      BY <3>1 DEF OnePendingRun
    <3>5. {n \in DOMAIN runs' : runs'[n].outcome = "PENDING"} = {Len(runs')}
      <4>1. runs'[Len(runs')].outcome = "PENDING"
        BY <3>2
      <4>2. \A n \in DOMAIN runs' : runs'[n].outcome = "PENDING" => n = Len(runs')
        BY <3>2, <3>4
      <4> QED
        BY <3>2, <4>1, <4>2
    <3> QED
      BY <3>1, <3>2, <3>3, <3>5 DEF OnePendingRun
  <2>5. ASSUME NEW n \in DOMAIN runs, NEW r \in CueResults, SaveCueResult(n, r)
        PROVE  OnePendingRun'
    <3> DEFINE results == Record(runs[n].results, {r})
    <3>1. runs' = [runs EXCEPT ![n].results = results] /\ UNCHANGED <<status, cues>>
      BY <2>5 DEF SaveCueResult, inputs
    <3>2. runs[n] \in Runs /\ Len(runs') = Len(runs)
      BY <2>0, <3>1
    <3>3. /\ DOMAIN runs' = DOMAIN runs
          /\ \A i \in DOMAIN runs : i # n => runs'[i] = runs[i]
          /\ runs'[n].outcome = runs[n].outcome
          /\ runs'[n].results = results
      BY <3>1, <3>2 DEF Runs
    <3>4. r.cue \in DOMAIN cues
      BY <2>5 DEF SaveCueResult, ResultOK
    <3>5. Recorded(results) \subseteq Recorded(runs[n].results) \cup {r.cue}
      BY DEF Recorded, Record
    <3>6. Recorded(results) \subseteq DOMAIN cues
      BY <3>4, <3>5 DEF OnePendingRun
    <3>7. {i \in DOMAIN runs' : runs'[i].outcome = "PENDING"}
            = {i \in DOMAIN runs : runs[i].outcome = "PENDING"}
      BY <3>3
    <3> QED
      BY <3>1, <3>2, <3>3, <3>6, <3>7 DEF OnePendingRun
  <2>6. ASSUME NEW n \in DOMAIN runs, NEW legacy \in LegacyInputs, CompleteRehearsal(n, legacy)
        PROVE  OnePendingRun'
    <3> DEFINE results == Record(runs[n].results, legacy)
               run == [outcome |-> IF Blocked(results) THEN "BLOCKED" ELSE "PASSED",
                       results |-> results]
    <3>1. /\ runs' = [runs EXCEPT ![n] = run]
          /\ status = "REHEARSING" /\ status' # "REHEARSING"
          /\ runs[n].outcome = "PENDING"
          /\ cues' = cues
      BY <2>6 DEF CompleteRehearsal, CompletionOK, PendingRun, inputs
    <3>2. /\ DOMAIN runs' = DOMAIN runs
          /\ \A i \in DOMAIN runs : i # n => runs'[i] = runs[i]
          /\ runs'[n] = run
      BY <3>1
    <3>3. \A r \in legacy : r.cue \in DOMAIN cues
      BY <2>6 DEF CompleteRehearsal, CompletionOK, ResultOK
    <3>4. Recorded(results) \subseteq DOMAIN cues
      <4>1. Recorded(results) \subseteq Recorded(runs[n].results) \cup {r.cue : r \in legacy}
        BY DEF Recorded, Record
      <4> QED
        BY <3>3, <4>1 DEF OnePendingRun
    <3>5. {i \in DOMAIN runs : runs[i].outcome = "PENDING"} = {n}
      BY <3>1 DEF OnePendingRun
    <3>6. {i \in DOMAIN runs' : runs'[i].outcome = "PENDING"} = {}
      BY <3>2, <3>5
    <3> QED
      BY <3>1, <3>2, <3>4, <3>6 DEF OnePendingRun
  <2>7. ASSUME NEW f \in findings, NEW input \in CueResults \cup {NoResult},
               AttemptRemediation(f, input)
        PROVE  OnePendingRun'
    <3>1. status # "REHEARSING" /\ status' # "REHEARSING" /\ UNCHANGED <<cues, runs>>
      BY <2>7 DEF AttemptRemediation, inputs
    <3> QED
      BY <3>1 DEF OnePendingRun
  <2>8. ASSUME Release
        PROVE  OnePendingRun'
    <3>1. status # "REHEARSING" /\ status' # "REHEARSING" /\ UNCHANGED <<cues, runs>>
      BY <2>8 DEF Release, ReviewChecklist, inputs
    <3> QED
      BY <3>1 DEF OnePendingRun
  <2>9. CASE UNCHANGED vars
    BY <2>1, <2>9 DEF vars
  <2> QED
    BY <2>2, <2>3, <2>4, <2>5, <2>6, <2>7, <2>8, <2>9 DEF Next
<1> QED
  BY <1>1, <1>2, TypeInvariant, PTL DEF Spec

-----------------------------------------------------------------------------
(* Remediation.                                                            *)

\* What makes a retest possible: the finding of a rehearsal names its cue among
\* its references, and that cue is still in the case.
RetestPossible ==
  \A f \in findings : f.source = "REHEARSAL" => f.cue \in f.refs \cap DOMAIN cues

\* The findings of a run are about the cues of the case.
LEMMA HitsNameTheirCue ==
  ASSUME NEW r, NEW h \in ResultHits(r)
  PROVE  r.cue \in h.refs /\ h.severity = BLOCKING
  BY DEF ResultHits, Hit

\* A case that leaves DRAFT has lost its blocking validation findings, and while
\* it is under remediation a rehearsal finding with a cue to measure is open.
THEOREM RemediationAlwaysHasWork == Spec => []RemediatingHasWork
<1> DEFINE Inv == RemediatingHasWork /\ RetestPossible
<1>1. Init => Inv
  BY DEF Init, RemediatingHasWork, RetestPossible
<1>2. TypeInv /\ Inv /\ [Next]_vars => Inv'
  <2> SUFFICES ASSUME TypeInv, Inv, [Next]_vars PROVE Inv'
    OBVIOUS
  <2> USE DEF OpenBlocking
  <2>1. ASSUME DOMAIN cues \subseteq DOMAIN cues', UNCHANGED <<status, findings>>
        PROVE  Inv'
    BY <2>1 DEF RemediatingHasWork, RetestPossible
  <2>2. ASSUME NEW changes \in ChangeSetInputs, ApplyChangeSet(changes)
        PROVE  Inv'
    <3>1. DOMAIN cues \subseteq DOMAIN cues'
      BY <2>2 DEF ApplyChangeSet, Merge
    <3> QED
      BY <2>1, <2>2, <3>1 DEF ApplyChangeSet
  <2>3. ASSUME RunValidation
        PROVE  Inv'
    <3> DEFINE hits == Evaluate(points, cues, VenueLimit)
               found == {Finding("VALIDATION", Len(batches) + 1, Blank, h) : h \in hits}
    <3>1. /\ findings' = CloseOpenValidations(findings) \cup found
          /\ status' = Verdict(hits)
          /\ cues' = cues
      BY <2>3 DEF RunValidation, inputs
    <3>2. \A f \in found : f.source = "VALIDATION" /\ \E h \in hits : f.severity = h.severity
      BY DEF Finding
    <3>3. ASSUME NEW f \in CloseOpenValidations(findings)
          PROVE  f \in findings \/ (f.source = "VALIDATION" /\ f.status = "CLOSED")
      BY DEF CloseOpenValidations, Findings, TypeInv, TypeOK
    <3>4. ASSUME NEW f \in CloseOpenValidations(findings), f.status = "OPEN"
          PROVE  f.source = "REHEARSAL"
      BY <3>4 DEF CloseOpenValidations, Findings, Sources, TypeInv, TypeOK
    <3>5. RetestPossible'
      BY <3>1, <3>2, <3>3 DEF RetestPossible
    <3>6. status' # "DRAFT" => \A h \in hits : h.severity # BLOCKING
      BY <3>1 DEF Verdict, Blockers
    <3>7. status' # "REMEDIATING"
      BY <3>1 DEF Verdict
    <3>8. status' # "DRAFT" => \A f \in OpenBlocking(findings') : f.source = "REHEARSAL"
      BY <3>1, <3>2, <3>4, <3>6
    <3> QED
      BY <3>5, <3>7, <3>8 DEF RemediatingHasWork
  <2>4. ASSUME UNCHANGED <<cues, findings>>, status # "DRAFT", status' # "REMEDIATING"
        PROVE  Inv'
    BY <2>4 DEF RemediatingHasWork, RetestPossible
  <2>5. ASSUME NEW n \in DOMAIN runs, NEW legacy \in LegacyInputs, CompleteRehearsal(n, legacy)
        PROVE  Inv'
    <3> DEFINE results == Record(runs[n].results, legacy)
               found == UNION {{Finding("REHEARSAL", n, q, h) :
                                  h \in ResultHits(results[q])} : q \in DOMAIN cues}
    <3>1. /\ findings' = findings \cup found
          /\ status = "REHEARSING"
          /\ cues' = cues
          /\ DOMAIN cues \subseteq Recorded(results)
          /\ status' = IF Blocked(results) THEN "REMEDIATING" ELSE "READY_FOR_REVIEW"
      BY <2>5 DEF CompleteRehearsal, CompletionOK, inputs
    <3>2. \A q \in DOMAIN cues : results[q].cue = q
      BY <3>1, CompletionIsTyped DEF TypeInv, ResultsByCue
    <3>3. ASSUME NEW q \in DOMAIN cues, NEW h \in ResultHits(results[q])
          PROVE  LET f == Finding("REHEARSAL", n, q, h)
                 IN  /\ f.source = "REHEARSAL" /\ f.status = "OPEN" /\ f.severity = BLOCKING
                     /\ f.cue \in f.refs \cap DOMAIN cues
      BY <3>2, HitsNameTheirCue DEF Finding
    <3>4. RetestPossible'
      BY <3>1, <3>3 DEF RetestPossible
    <3>5. \A f \in OpenBlocking(findings') : f.source = "REHEARSAL"
      BY <3>1, <3>3 DEF RemediatingHasWork
    <3>6. ASSUME Blocked(results)
          PROVE  \E f \in OpenBlocking(findings') : f.cue \in f.refs \cap DOMAIN cues'
      <4>1. PICK q \in DOMAIN cues : PeakViolation(results[q]) # {} \/ Deviates(results[q])
        BY <3>6 DEF Blocked
      <4>2. PICK h \in ResultHits(results[q]) : TRUE
        BY <4>1 DEF ResultHits
      <4>3. Finding("REHEARSAL", n, q, h) \in found
        BY <4>2
      <4> QED
        BY <3>1, <3>3, <4>3
    <3> QED
      BY <3>1, <3>4, <3>5, <3>6 DEF RemediatingHasWork
  <2>6. ASSUME NEW f \in findings, NEW input \in CueResults \cup {NoResult},
               AttemptRemediation(f, input)
        PROVE  Inv'
    <3> DEFINE closedOne == [f EXCEPT !.status = "CLOSED"]
               closed == (findings \ {f}) \cup {closedOne}
    <3>1. f \in Findings /\ closedOne.source = f.source /\ closedOne.status = "CLOSED"
          /\ closedOne.cue = f.cue /\ closedOne.refs = f.refs
      BY DEF TypeInv, TypeOK, Findings
    <3>2. /\ findings' = findings \/ findings' = closed
          /\ status = "REMEDIATING"
          /\ cues' = cues
          /\ status' \in {"REMEDIATING", "READY_FOR_REVIEW"}
          /\ status' = "REMEDIATING" => OpenBlocking(findings') # {}
      BY <2>6 DEF AttemptRemediation, inputs
    <3>3. RetestPossible'
      BY <3>1, <3>2 DEF RetestPossible
    <3>4. OpenBlocking(findings') \subseteq OpenBlocking(findings)
      BY <3>1, <3>2
    <3> QED
      BY <3>2, <3>3, <3>4 DEF RemediatingHasWork, RetestPossible
  <2>7. CASE UNCHANGED vars
    BY <2>1, <2>7 DEF vars
  <2>8. ASSUME StartRehearsal \/ Release
        PROVE  Inv'
    BY <2>4, <2>8 DEF StartRehearsal, Release, ReviewChecklist, inputs
  <2>9. ASSUME NEW n \in DOMAIN runs, NEW r \in CueResults, SaveCueResult(n, r)
        PROVE  Inv'
    BY <2>1, <2>9 DEF SaveCueResult, inputs
  <2> QED
    BY <2>2, <2>3, <2>5, <2>6, <2>7, <2>8, <2>9 DEF Next
<1>3. Inv => RemediatingHasWork
  OBVIOUS
<1> QED
  BY <1>1, <1>2, <1>3, TypeInvariant, PTL DEF Spec

-----------------------------------------------------------------------------
(* Findings and batches.                                                   *)

OpenValidations == {g \in findings : g.source = "VALIDATION" /\ g.status = "OPEN"}

\* The issues a validation leaves unresolved are its hits.
LEMMA UnresolvedAreHits ==
  ASSUME NEW hits, NEW previous
  PROVE  {Identity(i) : i \in Unresolved(IssuesAfter(hits, previous))}
           = {Identity(h) : h \in hits}
<1> DEFINE state(h) == IF \E p \in previous : Identity(p) = Identity(h) THEN "PERSISTING" ELSE "NEW"
<1>1. \A h \in hits : /\ Issue(h, state(h)) \in Unresolved(IssuesAfter(hits, previous))
                      /\ Identity(Issue(h, state(h))) = Identity(h)
  BY DEF Unresolved, IssuesAfter, Issue, Identity
<1>2. ASSUME NEW i \in Unresolved(IssuesAfter(hits, previous))
      PROVE  \E h \in hits : Identity(i) = Identity(h)
  BY DEF Unresolved, IssuesAfter, Issue, Identity
<1> HIDE DEF state
<1> QED
  BY <1>1, <1>2

\* The open validation findings are the unresolved issues of the latest batch.
\* No retest breaks this: under remediation every open blocker is a rehearsal's.
THEOREM FindingsFollowTheLatestBatch == Spec => []OpenFindingsMatchLatestBatch
<1> DEFINE Inv == OpenFindingsMatchLatestBatch
<1>1. Init => Inv
  BY DEF Init, OpenFindingsMatchLatestBatch, PreviousIssues
<1>2. TypeInv /\ RemediatingHasWork /\ Inv /\ [Next]_vars => Inv'
  <2> SUFFICES ASSUME TypeInv, RemediatingHasWork, Inv, [Next]_vars PROVE Inv'
    OBVIOUS
  <2>0. Inv <=> {Identity(f) : f \in OpenValidations} = {Identity(i) : i \in PreviousIssues}
    BY DEF OpenFindingsMatchLatestBatch, OpenValidations
  <2>1. ASSUME OpenValidations' = OpenValidations, PreviousIssues' = PreviousIssues
        PROVE  Inv'
    BY <2>0, <2>1 DEF OpenFindingsMatchLatestBatch, OpenValidations
  <2>2. UNCHANGED batches => PreviousIssues' = PreviousIssues
    BY DEF PreviousIssues, LatestBatch
  <2>3. UNCHANGED findings => OpenValidations' = OpenValidations
    BY DEF OpenValidations
  <2>4. ASSUME NEW changes \in ChangeSetInputs, ApplyChangeSet(changes)
        PROVE  Inv'
    <3> DEFINE refs == Changed(points, changes.points) \cup Changed(cues, changes.cues)
    <3>1. batches' = MarkStale(refs) /\ findings' = findings /\ batches \in Seq(Batches)
      BY <2>4 DEF ApplyChangeSet, TypeInv, TypeOK
    <3>2. CASE batches = <<>>
      BY <2>1, <2>2, <2>3, <3>1, <3>2 DEF MarkStale
    <3>3. CASE batches # <<>>
      <4>1. LatestBatch \in Batches
        BY <3>1, <3>3 DEF LatestBatch
      <4>2. batches' # <<>> /\ LatestBatch' = Marked(LatestBatch, refs)
        BY <3>1, <3>3 DEF MarkStale, LatestBatch
      <4>3. Marked(LatestBatch, refs).issues = LatestBatch.issues
        BY <4>1 DEF Marked, Batches
      <4>4. PreviousIssues' = PreviousIssues
        BY <3>3, <4>2, <4>3 DEF PreviousIssues
      <4> QED
        BY <2>1, <2>3, <3>1, <4>4
    <3> QED
      BY <3>2, <3>3
  <2>5. ASSUME RunValidation
        PROVE  Inv'
    <3> DEFINE hits == Evaluate(points, cues, VenueLimit)
               found == {Finding("VALIDATION", Len(batches) + 1, Blank, h) : h \in hits}
               batch == [version |-> version, baseline |-> Baseline, final |-> Verdict(hits),
                         stale |-> FALSE, changed |-> {},
                         issues |-> IssuesAfter(hits, PreviousIssues)]
    <3>1. /\ findings' = CloseOpenValidations(findings) \cup found
          /\ batches' = Append(batches, batch)
          /\ batches \in Seq(Batches)
      BY <2>5 DEF RunValidation, TypeInv, TypeOK
    <3>2. LatestBatch' = batch /\ batches' # <<>>
      BY <3>1 DEF LatestBatch
    <3>3. PreviousIssues' = Unresolved(IssuesAfter(hits, PreviousIssues))
      BY <3>2 DEF PreviousIssues
    <3>4. \A f \in CloseOpenValidations(findings) : f.source = "VALIDATION" => f.status # "OPEN"
      BY DEF CloseOpenValidations, Findings, TypeInv, TypeOK
    <3>5. \A h \in hits : LET f == Finding("VALIDATION", Len(batches) + 1, Blank, h)
                          IN  /\ f.source = "VALIDATION" /\ f.status = "OPEN"
                              /\ Identity(f) = Identity(h)
      BY DEF Finding, Identity
    <3>6. OpenValidations' = found
      BY <3>1, <3>4, <3>5 DEF OpenValidations
    <3>7. {Identity(f) : f \in found} = {Identity(h) : h \in hits}
      BY <3>5
    <3>8. {Identity(f) : f \in OpenValidations'} = {Identity(i) : i \in PreviousIssues'}
      BY <3>3, <3>6, <3>7, UnresolvedAreHits
    <3> QED
      BY <3>8 DEF OpenFindingsMatchLatestBatch, OpenValidations
  <2>6. ASSUME NEW n \in DOMAIN runs, NEW legacy \in LegacyInputs, CompleteRehearsal(n, legacy)
        PROVE  Inv'
    <3> DEFINE results == Record(runs[n].results, legacy)
               found == UNION {{Finding("REHEARSAL", n, q, h) :
                                  h \in ResultHits(results[q])} : q \in DOMAIN cues}
    <3>1. findings' = findings \cup found /\ UNCHANGED batches
      BY <2>6 DEF CompleteRehearsal
    <3>2. \A f \in found : f.source # "VALIDATION"
      BY DEF Finding
    <3>3. OpenValidations' = OpenValidations
      BY <3>1, <3>2 DEF OpenValidations
    <3> QED
      BY <2>1, <2>2, <3>1, <3>3
  <2>7. ASSUME NEW f \in findings, NEW input \in CueResults \cup {NoResult},
               AttemptRemediation(f, input)
        PROVE  Inv'
    <3> DEFINE closedOne == [f EXCEPT !.status = "CLOSED"]
    <3>1. f.source = "REHEARSAL"
      BY <2>7 DEF AttemptRemediation, RemediatingHasWork
    <3>2. closedOne.source = f.source
      BY DEF TypeInv, TypeOK, Findings
    <3>3. /\ findings' = findings \/ findings' = (findings \ {f}) \cup {closedOne}
          /\ UNCHANGED batches
      BY <2>7 DEF AttemptRemediation
    <3>4. OpenValidations' = OpenValidations
      BY <3>1, <3>2, <3>3 DEF OpenValidations
    <3> QED
      BY <2>1, <2>2, <3>3, <3>4
  <2>8. CASE UNCHANGED <<findings, batches>>
    BY <2>1, <2>2, <2>3, <2>8
  <2>9. (StartRehearsal \/ Release \/ UNCHANGED vars \/ \E n \in DOMAIN runs, r \in CueResults : SaveCueResult(n, r))
          => UNCHANGED <<findings, batches>>
    BY DEF StartRehearsal, Release, SaveCueResult, vars
  <2> QED
    BY <2>4, <2>5, <2>6, <2>7, <2>8, <2>9 DEF Next
<1> QED
  BY <1>1, <1>2, TypeInvariant, RemediationAlwaysHasWork, PTL DEF Spec
=============================================================================
