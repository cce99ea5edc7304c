--------------------------- MODULE CaseHistory_proofs ---------------------------
(***************************************************************************)
(* Theorems about what the steps of a case do to its past (revisions,      *)
(* stale marks, the states of issues, and the history as a whole) and      *)
(* about the way from a rehearsal to the review: what a blocked run        *)
(* leaves, what closes it, and what a release can still wait for.          *)
(***************************************************************************)
EXTENDS RiggingCase_proofs, FiniteSetTheorems

-----------------------------------------------------------------------------
(* Revisions.                                                              *)

\* Merging leaves alone what is not sent, and a revision moves with its value.
LEMMA RevisionFollowsValue ==
  ASSUME NEW vals, NEW Ident, NEW revs \in [Ident -> Nat], NEW items,
         NEW id \in DOMAIN vals, id \in Ident
  PROVE  Revised(revs, Changed(vals, items))[id]
           = revs[id] + (IF Merge(vals, items)[id] = vals[id] THEN 0 ELSE 1)
<1>1. id \notin Ids(items) => Merge(vals, items)[id] = vals[id]
  BY DEF Merge
<1>2. id \in Changed(vals, items) <=> Merge(vals, items)[id] # vals[id]
  BY <1>1 DEF Changed
<1> QED
  BY <1>2 DEF Revised

\* The revision of a load point or cue moves by one exactly when its value does,
\* in every step of every behaviour.
THEOREM RevisionsAreCounts == Spec => RevisionsCountChanges
<1>1. TypeInv /\ [Next]_vars => [CountsChanges]_vars
  <2> SUFFICES ASSUME TypeInv, [Next]_vars PROVE CountsChanges
    OBVIOUS
  <2>1. /\ pointRev \in [PointIds -> Nat] /\ DOMAIN points \subseteq PointIds
        /\ cueRev \in [CueIds -> Nat] /\ DOMAIN cues \subseteq CueIds
    BY DEF TypeInv, TypeOK
  <2>2. ASSUME NEW changes \in ChangeSetInputs, ApplyChangeSet(changes)
        PROVE  CountsChanges
    <3>1. /\ points' = Merge(points, changes.points)
          /\ pointRev' = Revised(pointRev, Changed(points, changes.points))
          /\ cues' = Merge(cues, changes.cues)
          /\ cueRev' = Revised(cueRev, Changed(cues, changes.cues))
      BY <2>2 DEF ApplyChangeSet
    <3>2. \A p \in DOMAIN points :
            pointRev'[p] = pointRev[p] + (IF points'[p] = points[p] THEN 0 ELSE 1)
      BY <2>1, <3>1, RevisionFollowsValue
    <3>3. \A q \in DOMAIN cues :
            cueRev'[q] = cueRev[q] + (IF cues'[q] = cues[q] THEN 0 ELSE 1)
      BY <2>1, <3>1, RevisionFollowsValue
    <3> QED
      BY <3>2, <3>3 DEF CountsChanges
  <2>3. CASE UNCHANGED inputs
    BY <2>1, <2>3 DEF inputs, CountsChanges
  <2>4. (\E changes \in ChangeSetInputs : ApplyChangeSet(changes)) \/ UNCHANGED inputs
    BY DEF Next, RunValidation, StartRehearsal, SaveCueResult, CompleteRehearsal,
           AttemptRemediation, Release, vars, inputs
  <2> QED
    BY <2>2, <2>3, <2>4
<1> QED
  BY <1>1, TypeInvariant, PTL DEF Spec, RevisionsCountChanges

-----------------------------------------------------------------------------
(* What the service sees.                                                  *)

\* What changing one field of a row makes of it.
LEMMA RowUpdates ==
  ASSUME NEW row \in [version : Nat, released : BOOLEAN, batches : Seq(BOOLEAN)],
         NEW n \in Nat, NEW r \in BOOLEAN, NEW b \in Seq(BOOLEAN)
  PROVE  /\ [row EXCEPT !.version = n]
              = [version |-> n, released |-> row.released, batches |-> row.batches]
         /\ [row EXCEPT !.released = r]
              = [version |-> row.version, released |-> r, batches |-> row.batches]
         /\ [row EXCEPT !.batches = b]
              = [version |-> row.version, released |-> row.released, batches |-> b]
  OBVIOUS

\* The rows an operation may leave of a case that is not released and has not
\* reached the bound.
LEMMA OutcomesOfOpenCase ==
  ASSUME NEW v \in Nat, v < MaxVersion, NEW b \in Seq(BOOLEAN)
  PROVE  LET row == [version |-> v, released |-> FALSE, batches |-> b]
         IN  /\ [version |-> v + 1, released |-> FALSE, batches |-> Service!MarkedStale(b)]
                  \in Service!Outcomes("CHANGE_SET_APPLIED", row)
             /\ [version |-> v + 1, released |-> FALSE, batches |-> Append(b, FALSE)]
                  \in Service!Outcomes("CASE_VALIDATED", row)
             /\ [version |-> v + 1, released |-> TRUE, batches |-> b]
                  \in Service!Outcomes("CASE_RELEASED", row)
             /\ \A op \in Service!RehearsalSteps \cup {"FINDING_REMEDIATED"} :
                  [version |-> v + 1, released |-> FALSE, batches |-> b]
                    \in Service!Outcomes(op, row)
<1> DEFINE row == [version |-> v, released |-> FALSE, batches |-> b]
           bumped == [version |-> v + 1, released |-> FALSE, batches |-> b]
<1>0. /\ row.version = v /\ row.released = FALSE /\ row.batches = b
      /\ row \in [version : Nat, released : BOOLEAN, batches : Seq(BOOLEAN)]
      /\ bumped.version = v + 1 /\ bumped.released = FALSE /\ bumped.batches = b
      /\ bumped \in [version : Nat, released : BOOLEAN, batches : Seq(BOOLEAN)]
      /\ v + 1 \in Nat
  OBVIOUS
<1>1. Service!Bumped(row) = bumped
  <2> HIDE DEF row
  <2> QED
    BY <1>0, RowUpdates DEF Service!Bumped
<1>2. ~(row.released \/ row.version >= MaxVersion)
  BY <1>0, CaseAssumption
<1>3. Service!MarkedStale(b) \in Seq(BOOLEAN) /\ Append(b, FALSE) \in Seq(BOOLEAN)
  <2>1. [b EXCEPT ![Len(b)] = TRUE] \in Seq(BOOLEAN)
    <3>1. Len(b) \in Nat /\ b \in [1..Len(b) -> BOOLEAN]
      OBVIOUS
    <3>2. [b EXCEPT ![Len(b)] = TRUE] \in [1..Len(b) -> BOOLEAN]
      BY <3>1
    <3> QED
      BY <3>1, <3>2
  <2>2. Append(b, FALSE) \in Seq(BOOLEAN)
    OBVIOUS
  <2> QED
    BY <2>1, <2>2 DEF Service!MarkedStale
<1>4. /\ [Service!Bumped(row) EXCEPT !.batches = Service!MarkedStale(@)]
           = [version |-> v + 1, released |-> FALSE, batches |-> Service!MarkedStale(b)]
      /\ [Service!Bumped(row) EXCEPT !.batches = Append(@, FALSE)]
           = [version |-> v + 1, released |-> FALSE, batches |-> Append(b, FALSE)]
      /\ [Service!Bumped(row) EXCEPT !.released = TRUE]
           = [version |-> v + 1, released |-> TRUE, batches |-> b]
  <2> HIDE DEF row, bumped
  <2> QED
    BY <1>0, <1>1, <1>3, RowUpdates
<1> HIDE DEF row
<1>5. [version |-> v + 1, released |-> FALSE, batches |-> Service!MarkedStale(b)]
        \in Service!Outcomes("CHANGE_SET_APPLIED", row)
  BY <1>2, <1>4 DEF Service!Outcomes, Service!Edits
<1>6. [version |-> v + 1, released |-> FALSE, batches |-> Append(b, FALSE)]
        \in Service!Outcomes("CASE_VALIDATED", row)
  BY <1>2, <1>4 DEF Service!Outcomes, Service!Edits
<1>7. [version |-> v + 1, released |-> TRUE, batches |-> b]
        \in Service!Outcomes("CASE_RELEASED", row)
  BY <1>2, <1>4 DEF Service!Outcomes, Service!Edits
<1>8. ASSUME NEW op \in Service!RehearsalSteps \cup {"FINDING_REMEDIATED"}
      PROVE  [version |-> v + 1, released |-> FALSE, batches |-> b]
               \in Service!Outcomes(op, row)
  BY <1>1, <1>2, <1>8 DEF Service!Outcomes, Service!Edits, Service!RehearsalSteps
<1> QED
  BY <1>5, <1>6, <1>7, <1>8 DEF row

\* The stale marks of the batches, after each of the two steps that touch them.
LEMMA StaleMarksAfter ==
  ASSUME batches \in Seq(Batches)
  PROVE  LET marks == [i \in DOMAIN batches |-> batches[i].stale]
         IN  /\ \A refs :
                  batches' = MarkStale(refs) =>
                    [i \in DOMAIN batches |-> batches[i].stale]' = Service!MarkedStale(marks)
             /\ \A b :
                  batches' = Append(batches, b) =>
                    [i \in DOMAIN batches |-> batches[i].stale]' = Append(marks, b.stale)
<1> DEFINE marks == [i \in DOMAIN batches |-> batches[i].stale]
           last == Len(batches)
<1>a. \A b \in Batches : b.stale \in BOOLEAN
  BY DEF Batches
<1>1. /\ last \in Nat /\ DOMAIN batches = 1..last
      /\ \A i \in DOMAIN batches : batches[i] \in Batches /\ batches[i].stale \in BOOLEAN
  BY <1>a
<1>2. /\ marks \in Seq(BOOLEAN) /\ Len(marks) = last /\ DOMAIN marks = 1..last
      /\ batches = <<>> <=> last = 0
      /\ marks = <<>> <=> last = 0
  BY <1>1
<1>3. ASSUME NEW refs, batches' = MarkStale(refs)
      PROVE  marks' = Service!MarkedStale(marks)
  <2>1. CASE batches = <<>>
    BY <1>1, <1>2, <1>3, <2>1 DEF MarkStale, Service!MarkedStale
  <2>2. CASE batches # <<>>
    <3>1. last \in DOMAIN batches
      BY <1>1, <1>2, <2>2
    <3>2. Marked(LatestBatch, refs).stale = TRUE
      BY <1>1, <3>1 DEF LatestBatch, Marked, Batches
    <3>3. batches' = [batches EXCEPT ![last] = Marked(LatestBatch, refs)]
      BY <1>3, <2>2 DEF MarkStale
    <3>4. /\ DOMAIN batches' = DOMAIN batches
          /\ batches'[last].stale = TRUE
          /\ \A i \in DOMAIN batches : i # last => batches'[i] = batches[i]
      BY <3>1, <3>2, <3>3
    <3>5. Service!MarkedStale(marks) = [marks EXCEPT ![last] = TRUE]
      BY <1>2, <2>2 DEF Service!MarkedStale
    <3>6. marks' = [i \in DOMAIN batches |-> batches'[i].stale]
      BY <3>4
    <3>7. \A i \in DOMAIN batches :
            batches'[i].stale = IF i = last THEN TRUE ELSE batches[i].stale
      BY <3>4
    <3> HIDE DEF last
    <3> QED
      BY <3>5, <3>6, <3>7
  <2> QED
    BY <2>1, <2>2
<1>4. ASSUME NEW b, batches' = Append(batches, b)
      PROVE  marks' = Append(marks, b.stale)
  <2>1. /\ DOMAIN batches' = 1..(last + 1)
        /\ batches'[last + 1] = b
        /\ \A i \in 1..last : batches'[i] = batches[i]
    BY <1>1, <1>4
  <2>2. marks' = [i \in 1..(last + 1) |-> batches'[i].stale]
    BY <2>1
  <2>3. Append(marks, b.stale) =
          [i \in 1..(last + 1) |-> IF i \in 1..last THEN marks[i] ELSE b.stale]
    BY <1>1, <1>2
  <2> QED
    BY <1>1, <2>1, <2>2, <2>3
<1> QED
  BY <1>3, <1>4

\* No operation of the domain does more to a case than the service counts on when
\* it compares versions, notes a stale batch or refuses a released case: the
\* domain that RiggingService assumes is the one of case.go and its neighbours.
THEOREM OperationsDoAsExpected == Spec => OperationsAreOutcomes
<1> DEFINE marks == [i \in DOMAIN batches |-> batches[i].stale]
<1>1. TypeInv /\ [Next]_vars => [DoesAsExpected]_vars
  <2> SUFFICES ASSUME TypeInv, [Next]_vars PROVE DoesAsExpected
    OBVIOUS
  <2>0. /\ version \in Nat /\ MaxVersion \in Nat
        /\ batches \in Seq(Batches)
        /\ marks \in Seq(BOOLEAN)
    <3>1. version \in Nat /\ MaxVersion \in Nat /\ batches \in Seq(Batches)
      BY CaseAssumption DEF TypeInv, TypeOK, Positive
    <3>2. \A b \in Batches : b.stale \in BOOLEAN
      BY DEF Batches
    <3> QED
      BY <3>1, <3>2
  <2>1. ASSUME Bump, status # "RELEASED"
        PROVE  /\ version < MaxVersion /\ version' = version + 1
               /\ Row = [version |-> version, released |-> FALSE, batches |-> marks]
    BY <2>0, <2>1 DEF Bump, Row
  <2>2. Row' = [version |-> version', released |-> (status' = "RELEASED"), batches |-> marks']
    BY DEF Row
  <2>3. batches' = batches => marks' = marks
    OBVIOUS
  <2>4. ASSUME Bump, status # "RELEASED", status' # "RELEASED", batches' = batches,
               NEW op \in Service!RehearsalSteps \cup {"FINDING_REMEDIATED"}
        PROVE  Row' \in Service!Outcomes(op, Row)
    <3>1. Row' = [version |-> version + 1, released |-> FALSE, batches |-> marks]
      BY <2>1, <2>2, <2>3, <2>4
    <3> HIDE DEF marks
    <3> QED
      BY <2>0, <2>1, <2>4, <3>1, OutcomesOfOpenCase
  <2>5. ASSUME NEW changes \in ChangeSetInputs, ApplyChangeSet(changes)
        PROVE  Row' \in Service!Outcomes("CHANGE_SET_APPLIED", Row)
    <3>1. PICK refs : batches' = MarkStale(refs)
      BY <2>5 DEF ApplyChangeSet
    <3>2. marks' = Service!MarkedStale(marks)
      BY <2>0, <3>1, StaleMarksAfter
    <3>3. Bump /\ status # "RELEASED" /\ status' # "RELEASED"
      BY <2>5 DEF ApplyChangeSet, Editable
    <3>4. Row' = [version |-> version + 1, released |-> FALSE,
                  batches |-> Service!MarkedStale(marks)]
      BY <2>1, <2>2, <3>2, <3>3
    <3> HIDE DEF marks
    <3> QED
      BY <2>0, <2>1, <3>3, <3>4, OutcomesOfOpenCase
  <2>6. ASSUME RunValidation
        PROVE  Row' \in Service!Outcomes("CASE_VALIDATED", Row)
    <3>1. PICK b : batches' = Append(batches, b) /\ b.stale = FALSE
      BY <2>6 DEF RunValidation
    <3>2. marks' = Append(marks, FALSE)
      BY <2>0, <3>1, StaleMarksAfter
    <3>3. Bump /\ status # "RELEASED" /\ status' # "RELEASED"
      BY <2>6 DEF RunValidation, Editable, Verdict
    <3>4. Row' = [version |-> version + 1, released |-> FALSE, batches |-> Append(marks, FALSE)]
      BY <2>1, <2>2, <3>2, <3>3
    <3> HIDE DEF marks
    <3> QED
      BY <2>0, <2>1, <3>3, <3>4, OutcomesOfOpenCase
  <2>7. StartRehearsal => Row' \in Service!Outcomes("REHEARSAL_STARTED", Row)
    <3> SUFFICES ASSUME StartRehearsal
                 PROVE  Row' \in Service!Outcomes("REHEARSAL_STARTED", Row)
      OBVIOUS
    <3>1. Bump /\ status # "RELEASED" /\ status' # "RELEASED" /\ batches' = batches
      BY DEF StartRehearsal
    <3> QED
      BY <2>4, <3>1 DEF Service!RehearsalSteps
  <2>8. ASSUME NEW n \in DOMAIN runs, NEW r \in CueResults, SaveCueResult(n, r)
        PROVE  Row' \in Service!Outcomes("REHEARSAL_CUE_SAVED", Row)
    <3>1. Bump /\ status # "RELEASED" /\ status' # "RELEASED" /\ batches' = batches
      BY <2>8 DEF SaveCueResult
    <3> QED
      BY <2>4, <3>1 DEF Service!RehearsalSteps
  <2>9. ASSUME NEW n \in DOMAIN runs, NEW legacy \in LegacyInputs, CompleteRehearsal(n, legacy)
        PROVE  Row' \in Service!Outcomes("REHEARSAL_COMPLETED", Row)
    <3>1. Bump /\ status # "RELEASED" /\ status' # "RELEASED" /\ batches' = batches
      BY <2>9 DEF CompleteRehearsal, CompletionOK
    <3> QED
      BY <2>4, <3>1 DEF Service!RehearsalSteps
  <2>10. ASSUME NEW f \in findings, NEW input \in CueResults \cup {NoResult},
                AttemptRemediation(f, input)
         PROVE  Row' \in Service!Outcomes("FINDING_REMEDIATED", Row)
    <3>1. Bump /\ status # "RELEASED" /\ status' # "RELEASED" /\ batches' = batches
      BY <2>10 DEF AttemptRemediation
    <3> QED
      BY <2>4, <3>1
  <2>11. Release => Row' \in Service!Outcomes("CASE_RELEASED", Row)
    <3> SUFFICES ASSUME Release PROVE Row' \in Service!Outcomes("CASE_RELEASED", Row)
      OBVIOUS
    <3>1. Bump /\ status # "RELEASED" /\ status' = "RELEASED" /\ batches' = batches
      BY DEF Release, ReviewChecklist
    <3>2. Row' = [version |-> version + 1, released |-> TRUE, batches |-> marks]
      BY <2>1, <2>2, <2>3, <3>1
    <3> HIDE DEF marks
    <3> QED
      BY <2>0, <2>1, <3>1, <3>2, OutcomesOfOpenCase
  <2> QED
    BY <2>5, <2>6, <2>7, <2>8, <2>9, <2>10, <2>11 DEF DoesAsExpected
<1> QED
  BY <1>1, TypeInvariant, PTL DEF Spec, OperationsAreOutcomes

-----------------------------------------------------------------------------
(* The stale mark.                                                         *)

\* Where no cue has the id of a load point, the baseline of a batch takes its
\* numbers from the two kinds of revisions, and a value that is not there has 0.
LEMMA BaselineIsRevisions ==
  ASSUME TypeOK, PointIds \cap CueIds = {}, NEW ref \in PointIds \cup CueIds
  PROVE  Baseline[ref] = IF ref \in CueIds THEN cueRev[ref] ELSE pointRev[ref]
  BY DEF Baseline, TypeOK

\* The latest batch never knows a newer revision than the case has.
BatchIsOfThePast ==
  batches # <<>> =>
    \A ref \in PointIds \cup CueIds : LatestBatch.baseline[ref] <= Baseline[ref]

\* With ids that load points and cues do not share, the latest batch is marked
\* with exactly the inputs added or revised since it was taken.
THEOREM StaleMarkIsExact ==
  PointIds \cap CueIds = {} => (Spec => []LatestBatchTracksInputs)
<1> SUFFICES ASSUME PointIds \cap CueIds = {} PROVE Spec => []LatestBatchTracksInputs
  OBVIOUS
<1> DEFINE Inv == LatestBatchTracksInputs /\ BatchIsOfThePast
<1>1. Init => Inv
  BY DEF Init, LatestBatchTracksInputs, BatchIsOfThePast
<1>2. TypeInv /\ TypeInv' /\ Inv /\ [Next]_vars => Inv'
  <2> SUFFICES ASSUME TypeInv, TypeInv', Inv, [Next]_vars PROVE Inv'
    OBVIOUS
  <2>0. /\ batches \in Seq(Batches)
        /\ pointRev \in [PointIds -> Nat] /\ cueRev \in [CueIds -> Nat]
        /\ Baseline \in [PointIds \cup CueIds -> Nat]
    BY RevisionsAreNat DEF TypeInv, TypeOK
  <2>1. /\ \A ref \in PointIds \cup CueIds :
             Baseline[ref] = IF ref \in CueIds THEN cueRev[ref] ELSE pointRev[ref]
        /\ \A ref \in PointIds \cup CueIds :
             Baseline'[ref] = IF ref \in CueIds THEN cueRev'[ref] ELSE pointRev'[ref]
    <3>1. TypeOK /\ TypeOK'
      BY DEF TypeInv
    <3> QED
      BY <3>1, BaselineIsRevisions DEF Baseline, TypeOK
  <2>2. ASSUME NEW changes \in ChangeSetInputs, ApplyChangeSet(changes)
        PROVE  Inv'
    <3> DEFINE ofPoints == Changed(points, changes.points)
               ofCues == Changed(cues, changes.cues)
               refs == ofPoints \cup ofCues
    <3>1. /\ pointRev' = Revised(pointRev, ofPoints)
          /\ cueRev' = Revised(cueRev, ofCues)
          /\ batches' = MarkStale(refs)
          /\ refs # {}
      BY <2>2 DEF ApplyChangeSet
    <3>2. ofPoints \subseteq PointIds /\ ofCues \subseteq CueIds
      <4>1. /\ changes.points \subseteq Items(PointIds, PointValues)
            /\ changes.cues \subseteq Items(CueIds, CueValues)
        BY CaseAssumption
      <4> QED
        BY <4>1 DEF Changed, Ids, Items
    <3> HIDE DEF ofPoints, ofCues
    <3>3. \A ref \in PointIds \cup CueIds :
            Baseline'[ref] = IF ref \in refs THEN Baseline[ref] + 1 ELSE Baseline[ref]
      BY <2>0, <2>1, <3>1, <3>2 DEF Revised
    <3>4. CASE batches = <<>>
      BY <3>1, <3>4 DEF MarkStale, LatestBatchTracksInputs, BatchIsOfThePast
    <3>5. CASE batches # <<>>
      <4>1. LatestBatch \in Batches
        BY <2>0, <3>5 DEF LatestBatch
      <4>2. batches' # <<>> /\ LatestBatch' = Marked(LatestBatch, refs)
        BY <2>0, <3>1, <3>5 DEF MarkStale, LatestBatch
      <4> DEFINE b == LatestBatch
                 c == Marked(b, refs)
      <4>3. /\ c.baseline = b.baseline
            /\ c.stale = TRUE
            /\ c.changed = IF b.stale THEN b.changed \cup refs ELSE refs
        BY <4>1 DEF Marked, Batches
      <4>4. /\ b.changed = {ref \in PointIds \cup CueIds : Baseline[ref] # b.baseline[ref]}
            /\ b.stale <=> b.changed # {}
            /\ \A ref \in PointIds \cup CueIds : b.baseline[ref] <= Baseline[ref]
            /\ b.baseline \in [PointIds \cup CueIds -> Nat]
        BY <3>5, <4>1 DEF LatestBatchTracksInputs, BatchIsOfThePast, Batches
      <4>5. c.changed = b.changed \cup refs
        BY <4>3, <4>4
      <4> HIDE DEF b, c
      <4>6. \A ref \in PointIds \cup CueIds :
              /\ b.baseline[ref] <= Baseline'[ref]
              /\ Baseline'[ref] # b.baseline[ref]
                   <=> Baseline[ref] # b.baseline[ref] \/ ref \in refs
        BY <2>0, <3>3, <4>4
      <4>7. c.changed = {ref \in PointIds \cup CueIds : Baseline'[ref] # c.baseline[ref]}
        BY <3>2, <4>3, <4>4, <4>5, <4>6
      <4>8. LatestBatch' = c
        BY <4>2 DEF b, c
      <4>9. LatestBatchTracksInputs'
        BY <3>1, <4>3, <4>5, <4>7, <4>8 DEF LatestBatchTracksInputs
      <4>10. BatchIsOfThePast'
        BY <4>3, <4>6, <4>8 DEF BatchIsOfThePast
      <4> QED
        BY <4>9, <4>10
    <3> QED
      BY <3>4, <3>5
  <2>3. ASSUME RunValidation
        PROVE  Inv'
    <3> DEFINE hits == Evaluate(points, cues, VenueLimit)
               batch == [version |-> version, baseline |-> Baseline, final |-> Verdict(hits),
                         stale |-> FALSE, changed |-> {},
                         issues |-> IssuesAfter(hits, PreviousIssues)]
    <3>1. batches' = Append(batches, batch) /\ batches \in Seq(Batches) /\ UNCHANGED inputs
      BY <2>0, <2>3 DEF RunValidation
    <3>2. LatestBatch' = batch /\ batches' # <<>>
      BY <3>1 DEF LatestBatch
    <3>3. Baseline' = Baseline
      BY <3>1 DEF Baseline, inputs
    <3>4. /\ batch.baseline = Baseline
          /\ batch.stale = FALSE
          /\ batch.changed = {}
      OBVIOUS
    <3> HIDE DEF batch
    <3>5. LatestBatchTracksInputs'
      BY <3>2, <3>3, <3>4 DEF LatestBatchTracksInputs
    <3>6. BatchIsOfThePast'
      BY <2>0, <3>2, <3>3, <3>4 DEF BatchIsOfThePast
    <3> QED
      BY <3>5, <3>6
  <2>4. CASE UNCHANGED <<inputs, batches>>
    <3>1. Baseline' = Baseline /\ LatestBatch' = LatestBatch /\ batches' = batches
      BY <2>4 DEF Baseline, LatestBatch, inputs
    <3> QED
      BY <3>1 DEF LatestBatchTracksInputs, BatchIsOfThePast
  <2>5. \/ \E changes \in ChangeSetInputs : ApplyChangeSet(changes)
        \/ RunValidation
        \/ UNCHANGED <<inputs, batches>>
    BY DEF Next, StartRehearsal, SaveCueResult, CompleteRehearsal, AttemptRemediation,
           Release, vars, inputs
  <2> QED
    BY <2>2, <2>3, <2>4, <2>5
<1> QED
  BY <1>1, <1>2, TypeInvariant, PTL DEF Spec

-----------------------------------------------------------------------------
(* Batches.                                                                *)

\* What the actions may do to the batches: nothing, mark the latest, add one.
LEMMA BatchSteps ==
  ASSUME TypeInv, [Next]_vars
  PROVE  \/ UNCHANGED batches
         \/ \E refs \in SUBSET (PointIds \cup CueIds) : batches' = MarkStale(refs)
         \/ RunValidation
<1>1. ASSUME NEW changes \in ChangeSetInputs, ApplyChangeSet(changes)
      PROVE  \E refs \in SUBSET (PointIds \cup CueIds) : batches' = MarkStale(refs)
  <2>1. /\ changes.points \subseteq Items(PointIds, PointValues)
        /\ changes.cues \subseteq Items(CueIds, CueValues)
    BY CaseAssumption
  <2>2. Changed(points, changes.points) \cup Changed(cues, changes.cues)
          \in SUBSET (PointIds \cup CueIds)
    BY <2>1 DEF Changed, Ids, Items
  <2> QED
    BY <1>1, <2>2 DEF ApplyChangeSet
<1>2. \/ \E changes \in ChangeSetInputs : ApplyChangeSet(changes)
      \/ RunValidation
      \/ UNCHANGED batches
  BY DEF Next, StartRehearsal, SaveCueResult, CompleteRehearsal, AttemptRemediation,
         Release, vars
<1> QED
  BY <1>1, <1>2

\* Marking the latest batch keeps all batches but for their stale marks.
LEMMA MarkingKeepsBatches ==
  ASSUME TypeOK, NEW refs \in SUBSET (PointIds \cup CueIds), batches' = MarkStale(refs)
  PROVE  /\ DOMAIN batches' = DOMAIN batches
         /\ \A i \in DOMAIN batches :
              LET b == batches[i]  c == batches'[i]
              IN  /\ c = [b EXCEPT !.stale = c.stale, !.changed = c.changed]
                  /\ c.issues = b.issues
                  /\ b.stale => c.stale
                  /\ (b.stale \/ b.changed = {}) => b.changed \subseteq c.changed
<1>1. batches \in Seq(Batches) /\ \A i \in DOMAIN batches : batches[i] \in Batches
  BY DEF TypeOK
<1>2. ASSUME NEW b \in Batches
      PROVE  /\ b = [b EXCEPT !.stale = b.stale, !.changed = b.changed]
             /\ LET c == Marked(b, refs)
                IN  /\ c = [b EXCEPT !.stale = c.stale, !.changed = c.changed]
                    /\ c.issues = b.issues
                    /\ b.stale => c.stale
                    /\ (b.stale \/ b.changed = {}) => b.changed \subseteq c.changed
  BY DEF Batches, Marked
<1>3. CASE batches = <<>>
  BY <1>3 DEF MarkStale
<1>4. CASE batches # <<>>
  <2>1. Len(batches) \in DOMAIN batches
    BY <1>1, <1>4
  <2>2. /\ DOMAIN batches' = DOMAIN batches
        /\ \A i \in DOMAIN batches :
             batches'[i] = IF i = Len(batches) THEN Marked(batches[i], refs) ELSE batches[i]
    BY <1>4, <2>1 DEF MarkStale, LatestBatch
  <2>3. ASSUME NEW i \in DOMAIN batches
        PROVE  LET b == batches[i]  c == batches'[i]
               IN  /\ c = [b EXCEPT !.stale = c.stale, !.changed = c.changed]
                   /\ c.issues = b.issues
                   /\ b.stale => c.stale
                   /\ (b.stale \/ b.changed = {}) => b.changed \subseteq c.changed
    <3>1. batches[i] \in Batches
      BY <1>1
    <3>2. CASE i = Len(batches)
      <4>1. batches'[i] = Marked(batches[i], refs)
        BY <2>2, <3>2
      <4> QED
        BY <1>2, <3>1, <4>1
    <3>3. CASE i # Len(batches)
      <4>1. batches'[i] = batches[i]
        BY <2>2, <3>3
      <4> QED
        BY <1>2, <3>1, <4>1
    <3> QED
      BY <3>2, <3>3
  <2> QED
    BY <2>2, <2>3
<1> QED
  BY <1>3, <1>4

\* A batch decides the fate of its issues so that the difference to the batch
\* before, worked out from the two, says the same.
LEMMA IssueStatesAreTheDiff ==
  ASSUME NEW hits, NEW from, NEW to,
         to.issues = IssuesAfter(hits, Unresolved(from.issues))
  PROVE  Diff(from, to) = [new        |-> InState(to, "NEW"),
                           persistent |-> InState(to, "PERSISTING"),
                           resolved   |-> InState(to, "RESOLVED")]
<1> DEFINE previous == Unresolved(from.issues)
           now == {Identity(h) : h \in hits}
           before == {Identity(p) : p \in previous}
<1>0. to.issues = IssuesAfter(hits, previous)
  OBVIOUS
<1>1. CurrentIdentities(to) = now
  BY UnresolvedAreHits DEF CurrentIdentities
<1>2. CurrentIdentities(from) = before
  BY DEF CurrentIdentities
<1> HIDE DEF previous
<1>3. \A h, state : Identity(Issue(h, state)) = Identity(h) /\ Issue(h, state).state = state
  BY DEF Identity, Issue
<1>a. ASSUME NEW i \in to.issues
      PROVE  \/ \E h \in hits : i = Issue(h, "NEW") /\ Identity(h) \notin before
             \/ \E h \in hits : i = Issue(h, "PERSISTING") /\ Identity(h) \in before
             \/ \E p \in previous : i = Issue(p, "RESOLVED") /\ Identity(p) \notin now
  <2>1. CASE \E p \in previous : i = Issue(p, "RESOLVED") /\ \A h \in hits : Identity(p) # Identity(h)
    BY <2>1
  <2>2. CASE \E h \in hits : i = Issue(h, IF \E p \in previous : Identity(p) = Identity(h)
                                          THEN "PERSISTING" ELSE "NEW")
    <3>1. PICK h \in hits : i = Issue(h, IF \E p \in previous : Identity(p) = Identity(h)
                                         THEN "PERSISTING" ELSE "NEW")
      BY <2>2
    <3>2. CASE \E p \in previous : Identity(p) = Identity(h)
      <4>1. i = Issue(h, "PERSISTING") /\ Identity(h) \in before
        BY <3>1, <3>2
      <4> QED
        BY <4>1
    <3>3. CASE ~(\E p \in previous : Identity(p) = Identity(h))
      <4>1. i = Issue(h, "NEW") /\ Identity(h) \notin before
        BY <3>1, <3>3
      <4> QED
        BY <4>1
    <3> QED
      BY <3>2, <3>3
  <2> QED
    BY <1>0, <2>1, <2>2 DEF IssuesAfter
<1>4. InState(to, "NEW") = now \ before
  <2>1. ASSUME NEW i \in to.issues, i.state = "NEW"
        PROVE  Identity(i) \in now \ before
    BY <1>3, <1>a, <2>1
  <2>2. ASSUME NEW h \in hits, Identity(h) \notin before
        PROVE  /\ Issue(h, "NEW") \in to.issues
               /\ Issue(h, "NEW").state = "NEW"
               /\ Identity(Issue(h, "NEW")) = Identity(h)
    BY <1>0, <1>3, <2>2 DEF IssuesAfter
  <2> QED
    BY <2>1, <2>2 DEF InState
<1>5. InState(to, "PERSISTING") = now \cap before
  <2>1. ASSUME NEW i \in to.issues, i.state = "PERSISTING"
        PROVE  Identity(i) \in now \cap before
    BY <1>3, <1>a, <2>1
  <2>2. ASSUME NEW h \in hits, Identity(h) \in before
        PROVE  /\ Issue(h, "PERSISTING") \in to.issues
               /\ Issue(h, "PERSISTING").state = "PERSISTING"
               /\ Identity(Issue(h, "PERSISTING")) = Identity(h)
    BY <1>0, <1>3, <2>2 DEF IssuesAfter
  <2> QED
    BY <2>1, <2>2 DEF InState
<1>6. InState(to, "RESOLVED") = before \ now
  <2>1. ASSUME NEW i \in to.issues, i.state = "RESOLVED"
        PROVE  Identity(i) \in before \ now
    BY <1>3, <1>a, <2>1
  <2>2. ASSUME NEW p \in previous, Identity(p) \notin now
        PROVE  /\ Issue(p, "RESOLVED") \in to.issues
               /\ Issue(p, "RESOLVED").state = "RESOLVED"
               /\ Identity(Issue(p, "RESOLVED")) = Identity(p)
    BY <1>0, <1>3, <2>2 DEF IssuesAfter
  <2> QED
    BY <2>1, <2>2 DEF InState
<1> HIDE DEF now, before
<1>7. Diff(from, to) =
          [new |-> now \ before, persistent |-> now \cap before, resolved |-> before \ now]
  BY <1>1, <1>2 DEF Diff
<1> QED
  BY <1>4, <1>5, <1>6, <1>7

\* The states of the issues, decided when a batch is taken, are those that the
\* comparison of the batch with the one before it works out later.
THEOREM IssueStatesFollowTheDiff == Spec => []DiffMatchesIssueStates
<1> DEFINE Agrees(from, to) ==
             Diff(from, to) = [new        |-> InState(to, "NEW"),
                               persistent |-> InState(to, "PERSISTING"),
                               resolved   |-> InState(to, "RESOLVED")]
<1>1. Init => DiffMatchesIssueStates
  BY DEF Init, DiffMatchesIssueStates
<1>2. TypeInv /\ DiffMatchesIssueStates /\ [Next]_vars => DiffMatchesIssueStates'
  <2> SUFFICES ASSUME TypeInv, DiffMatchesIssueStates, [Next]_vars
               PROVE  DiffMatchesIssueStates'
    OBVIOUS
  <2>0. batches \in Seq(Batches) /\ TypeOK
    BY DEF TypeInv, TypeOK
  <2>1. \A i \in DOMAIN batches \ {1} : i - 1 \in DOMAIN batches /\ Agrees(batches[i - 1], batches[i])
    BY <2>0 DEF DiffMatchesIssueStates
  <2>2. ASSUME NEW from, NEW to, NEW from2, NEW to2,
               from2.issues = from.issues, to2.issues = to.issues, Agrees(from, to)
        PROVE  Agrees(from2, to2)
    BY <2>2 DEF Diff, CurrentIdentities, InState
  <2> HIDE DEF Agrees
  <2>3. ASSUME NEW refs \in SUBSET (PointIds \cup CueIds), batches' = MarkStale(refs)
        PROVE  \A i \in DOMAIN batches' \ {1} : Agrees(batches'[i - 1], batches'[i])
    <3>1. /\ DOMAIN batches' = DOMAIN batches
          /\ \A i \in DOMAIN batches : batches'[i].issues = batches[i].issues
      BY <2>0, <2>3, MarkingKeepsBatches
    <3> QED
      BY <2>1, <2>2, <3>1
  <2>4. ASSUME RunValidation
        PROVE  \A i \in DOMAIN batches' \ {1} : Agrees(batches'[i - 1], batches'[i])
    <3> DEFINE hits == Evaluate(points, cues, VenueLimit)
               batch == [version |-> version, baseline |-> Baseline, final |-> Verdict(hits),
                         stale |-> FALSE, changed |-> {},
                         issues |-> IssuesAfter(hits, PreviousIssues)]
               last == Len(batches)
    <3>1. batches' = Append(batches, batch)
      BY <2>4 DEF RunValidation
    <3>2. batch.issues = IssuesAfter(hits, PreviousIssues)
      OBVIOUS
    <3> HIDE DEF batch, hits
    <3>3. /\ last \in Nat
          /\ DOMAIN batches = 1..last /\ DOMAIN batches' = 1..(last + 1)
          /\ \A i \in 1..last : batches'[i] = batches[i]
          /\ batches'[last + 1] = batch
      BY <2>0, <3>1
    <3>4. ASSUME last # 0 PROVE Agrees(batches[last], batch)
      <4>1. PreviousIssues = Unresolved(batches[last].issues)
        BY <3>3, <3>4 DEF PreviousIssues, LatestBatch
      <4> QED
        <5>1. Diff(batches[last], batch)
                = [new        |-> InState(batch, "NEW"),
                   persistent |-> InState(batch, "PERSISTING"),
                   resolved   |-> InState(batch, "RESOLVED")]
          <6>1. batch.issues = IssuesAfter(hits, Unresolved(batches[last].issues))
            BY <3>2, <4>1
          <6> QED
            BY <6>1, IssueStatesAreTheDiff
        <5> QED
          BY <5>1 DEF Agrees
    <3> HIDE DEF last
    <3> QED
      BY <2>1, <3>3, <3>4
  <2>5. CASE UNCHANGED batches
    BY <2>5 DEF DiffMatchesIssueStates
  <2>6. ASSUME \A i \in DOMAIN batches' \ {1} : Agrees(batches'[i - 1], batches'[i])
        PROVE  DiffMatchesIssueStates'
    BY <2>6 DEF Agrees, DiffMatchesIssueStates
  <2> QED
    BY <2>3, <2>4, <2>5, <2>6, BatchSteps
<1> QED
  BY <1>1, <1>2, TypeInvariant, PTL DEF Spec

-----------------------------------------------------------------------------
(* The history as a whole.                                                 *)

\* A batch that is not stale names no change; only the latest can be marked,
\* and marking it makes it stale.
FreshBatchIsUnchanged ==
  batches # <<>> => (LatestBatch.stale \/ LatestBatch.changed = {})

\* A batch that is not stale names no change, in every behaviour.
LEMMA FreshnessInvariant == Spec => []FreshBatchIsUnchanged
<1>1. Init => FreshBatchIsUnchanged
  BY DEF Init, FreshBatchIsUnchanged
<1>2. TypeInv /\ FreshBatchIsUnchanged /\ [Next]_vars => FreshBatchIsUnchanged'
  <2> SUFFICES ASSUME TypeInv, FreshBatchIsUnchanged, [Next]_vars PROVE FreshBatchIsUnchanged'
    OBVIOUS
  <2>0. batches \in Seq(Batches)
    BY DEF TypeInv, TypeOK
  <2>1. ASSUME NEW refs \in SUBSET (PointIds \cup CueIds), batches' = MarkStale(refs)
        PROVE  FreshBatchIsUnchanged'
    <3>1. CASE batches = <<>>
      BY <2>1, <3>1 DEF MarkStale, FreshBatchIsUnchanged
    <3>2. CASE batches # <<>>
      <4>1. LatestBatch \in Batches
        BY <2>0, <3>2 DEF LatestBatch
      <4>2. LatestBatch' = Marked(LatestBatch, refs)
        BY <2>0, <2>1, <3>2 DEF MarkStale, LatestBatch
      <4>3. Marked(LatestBatch, refs).stale = TRUE
        BY <4>1 DEF Marked, Batches
      <4> QED
        BY <4>2, <4>3 DEF FreshBatchIsUnchanged
    <3> QED
      BY <3>1, <3>2
  <2>2. ASSUME RunValidation
        PROVE  FreshBatchIsUnchanged'
    <3>1. LatestBatch'.changed = {}
      BY <2>0, <2>2 DEF RunValidation, LatestBatch
    <3> QED
      BY <3>1 DEF FreshBatchIsUnchanged
  <2>3. CASE UNCHANGED batches
    BY <2>3 DEF FreshBatchIsUnchanged, LatestBatch
  <2> QED
    BY <2>1, <2>2, <2>3, BatchSteps
<1> QED
  BY <1>1, <1>2, TypeInvariant, PTL DEF Spec

\* No step takes back what is on record: not a finished run, not an attempt, not
\* a finding (which can only be closed), not a batch but for its stale mark.
THEOREM HistoryOnlyGrows == Spec => HistoryIsKept
<1> DEFINE KeepsRuns == \A n \in DOMAIN runs : runs[n].outcome # "PENDING" => runs'[n] = runs[n]
           KeepsAttempts == \A k \in DOMAIN attempts : attempts'[k] = attempts[k]
           KeepsFindings == \A f \in findings :
                              \/ f \in findings'
                              \/ /\ f.status = "OPEN"
                                 /\ [f EXCEPT !.status = "CLOSED"] \in findings'
           KeepsBatches == \A i \in DOMAIN batches :
                             LET b == batches[i]  c == batches'[i]
                             IN  /\ c = [b EXCEPT !.stale = c.stale, !.changed = c.changed]
                                 /\ b.stale => c.stale
                                 /\ b.changed \subseteq c.changed
<1>1. TypeInv /\ FreshBatchIsUnchanged /\ [Next]_vars => [KeepsHistory]_vars
  <2> SUFFICES ASSUME TypeInv, FreshBatchIsUnchanged, [Next]_vars PROVE KeepsHistory
    OBVIOUS
  <2>0. /\ TypeOK
        /\ batches \in Seq(Batches) /\ runs \in Seq(Runs) /\ attempts \in Seq(Attempts)
    BY DEF TypeInv, TypeOK
  <2>1. KeepsRuns
    <3>1. ASSUME StartRehearsal PROVE KeepsRuns
      BY <2>0, <3>1 DEF StartRehearsal
    <3>2. ASSUME NEW n \in DOMAIN runs, NEW r \in CueResults, SaveCueResult(n, r)
          PROVE  KeepsRuns
      BY <3>2 DEF SaveCueResult, PendingRun
    <3>3. ASSUME NEW n \in DOMAIN runs, NEW legacy \in LegacyInputs, CompleteRehearsal(n, legacy)
          PROVE  KeepsRuns
      BY <3>3 DEF CompleteRehearsal, CompletionOK, PendingRun
    <3>4. CASE UNCHANGED runs
      BY <3>4
    <3> QED
      BY <3>1, <3>2, <3>3, <3>4 DEF Next, ApplyChangeSet, RunValidation, AttemptRemediation,
         Release, vars
  <2>2. KeepsAttempts
    <3>1. ASSUME NEW f \in findings, NEW input \in CueResults \cup {NoResult},
                 AttemptRemediation(f, input)
          PROVE  KeepsAttempts
      BY <2>0, <3>1 DEF AttemptRemediation
    <3>2. CASE UNCHANGED attempts
      BY <3>2
    <3> QED
      BY <3>1, <3>2 DEF Next, ApplyChangeSet, RunValidation, StartRehearsal, SaveCueResult,
         CompleteRehearsal, Release, vars
  <2>3. KeepsFindings
    <3>1. ASSUME RunValidation PROVE KeepsFindings
      <4>1. CloseOpenValidations(findings) \subseteq findings'
        BY <3>1 DEF RunValidation
      <4> QED
        BY <4>1 DEF CloseOpenValidations
    <3>2. ASSUME NEW n \in DOMAIN runs, NEW legacy \in LegacyInputs, CompleteRehearsal(n, legacy)
          PROVE  KeepsFindings
      BY <3>2 DEF CompleteRehearsal
    <3>3. ASSUME NEW f \in findings, NEW input \in CueResults \cup {NoResult},
                 AttemptRemediation(f, input)
          PROVE  KeepsFindings
      BY <3>3 DEF AttemptRemediation, OpenBlocking
    <3>4. CASE UNCHANGED findings
      BY <3>4
    <3> QED
      BY <3>1, <3>2, <3>3, <3>4 DEF Next, ApplyChangeSet, StartRehearsal, SaveCueResult,
         Release, vars
  <2>4. KeepsBatches
    <3>1. ASSUME NEW b \in Batches
          PROVE  b = [b EXCEPT !.stale = b.stale, !.changed = b.changed]
      BY DEF Batches
    <3>2. \A i \in DOMAIN batches : batches[i] \in Batches
      BY <2>0
    <3>3. CASE \A i \in DOMAIN batches : batches'[i] = batches[i]
      BY <3>1, <3>2, <3>3
    <3>4. ASSUME RunValidation PROVE \A i \in DOMAIN batches : batches'[i] = batches[i]
      BY <2>0, <3>4 DEF RunValidation
    <3>5. ASSUME NEW refs \in SUBSET (PointIds \cup CueIds), batches' = MarkStale(refs)
          PROVE  KeepsBatches
      <4>1. ASSUME NEW i \in DOMAIN batches, i # Len(batches)
            PROVE  batches'[i] = batches[i]
        BY <2>0, <3>5, <4>1 DEF MarkStale
      <4>2. ASSUME NEW i \in DOMAIN batches, i = Len(batches)
            PROVE  batches[i].stale \/ batches[i].changed = {}
        BY <2>0, <4>2 DEF FreshBatchIsUnchanged, LatestBatch
      <4>3. ASSUME NEW i \in DOMAIN batches
            PROVE  LET b == batches[i]  c == batches'[i]
                   IN  /\ c = [b EXCEPT !.stale = c.stale, !.changed = c.changed]
                       /\ b.stale => c.stale
                       /\ (b.stale \/ b.changed = {}) => b.changed \subseteq c.changed
        BY <2>0, <3>5, MarkingKeepsBatches
      <4> QED
        BY <4>1, <4>2, <4>3
    <3> QED
      BY <3>3, <3>4, <3>5, BatchSteps
  <2> QED
    BY <2>1, <2>2, <2>3, <2>4 DEF KeepsHistory
<1> QED
  BY <1>1, TypeInvariant, FreshnessInvariant, PTL DEF Spec, HistoryIsKept

-----------------------------------------------------------------------------
(* The review.                                                             *)

\* Past DRAFT there are load points and cues, and past the rehearsal a run is
\* on record with measurements.
ReviewIsPrepared ==
  /\ status # "DRAFT" => DOMAIN points # {} /\ DOMAIN cues # {}
  /\ status \in {"REMEDIATING", "READY_FOR_REVIEW"} => HasFinishedRehearsal

\* A validation passes only with a load point and a cue.
LEMMA RequiredInputs ==
  ASSUME Blockers(Evaluate(points, cues, VenueLimit)) = {}
  PROVE  DOMAIN points # {} /\ DOMAIN cues # {}
<1>1. Blockers(RequiredHits(points, cues)) = {}
  BY DEF Evaluate, Blockers
<1>2. \A code, refs : Hit(code, BLOCKING, refs).severity = BLOCKING
  BY DEF Hit
<1>3. \A h \in RequiredHits(points, cues) : h.severity # BLOCKING
  BY <1>1 DEF Blockers
<1> QED
  BY <1>2, <1>3 DEF RequiredHits

\* A finished run stays one as long as the runs do not change.
LEMMA RehearsalStaysFinished ==
  ASSUME UNCHANGED runs
  PROVE  HasFinishedRehearsal' <=> HasFinishedRehearsal
  BY DEF HasFinishedRehearsal, Recorded

\* Under review only an open blocking finding can stand in the way of release.
THEOREM ReviewNeedsNothingElse == Spec => []ReviewWaitsForBlockersOnly
<1>1. Init => ReviewIsPrepared
  BY DEF Init, ReviewIsPrepared
<1>2. TypeInv /\ ReviewIsPrepared /\ [Next]_vars => ReviewIsPrepared'
  <2> SUFFICES ASSUME TypeInv, ReviewIsPrepared, [Next]_vars PROVE ReviewIsPrepared'
    OBVIOUS
  <2>1. ASSUME NEW changes \in ChangeSetInputs, ApplyChangeSet(changes)
        PROVE  ReviewIsPrepared'
    <3>1. DOMAIN points \subseteq DOMAIN points' /\ DOMAIN cues \subseteq DOMAIN cues'
      BY <2>1 DEF ApplyChangeSet, Merge
    <3>2. UNCHANGED <<status, runs>>
      BY <2>1 DEF ApplyChangeSet
    <3> QED
      BY <3>1, <3>2, RehearsalStaysFinished DEF ReviewIsPrepared
  <2>2. ASSUME RunValidation
        PROVE  ReviewIsPrepared'
    <3> DEFINE hits == Evaluate(points, cues, VenueLimit)
    <3>1. /\ status' = Verdict(hits)
          /\ UNCHANGED <<points, cues>>
      BY <2>2 DEF RunValidation, inputs
    <3>2. status' \in {"DRAFT", "VALIDATED"} /\ (status' # "DRAFT" => Blockers(hits) = {})
      BY <3>1 DEF Verdict
    <3> QED
      BY <3>1, <3>2, RequiredInputs DEF ReviewIsPrepared
  <2>3. ASSUME UNCHANGED <<points, cues>>, status # "DRAFT",
               status' \notin {"REMEDIATING", "READY_FOR_REVIEW"}
        PROVE  ReviewIsPrepared'
    BY <2>3 DEF ReviewIsPrepared
  <2>4. ASSUME NEW n \in DOMAIN runs, NEW legacy \in LegacyInputs, CompleteRehearsal(n, legacy)
        PROVE  ReviewIsPrepared'
    <3> DEFINE results == Record(runs[n].results, legacy)
               run == [outcome |-> IF Blocked(results) THEN "BLOCKED" ELSE "PASSED",
                       results |-> results]
    <3>1. /\ runs' = [runs EXCEPT ![n] = run]
          /\ status = "REHEARSING"
          /\ DOMAIN cues \subseteq Recorded(results)
          /\ UNCHANGED <<points, cues>>
      BY <2>4 DEF CompleteRehearsal, CompletionOK, inputs
    <3>2. n \in DOMAIN runs' /\ runs'[n].outcome # "PENDING" /\ runs'[n].results = results
      BY <3>1
    <3>3. DOMAIN points # {} /\ DOMAIN cues # {}
      BY <3>1 DEF ReviewIsPrepared
    <3>4. HasFinishedRehearsal'
      BY <3>1, <3>2, <3>3 DEF HasFinishedRehearsal, Recorded
    <3> QED
      BY <3>1, <3>3, <3>4 DEF ReviewIsPrepared
  <2>5. ASSUME NEW f \in findings, NEW input \in CueResults \cup {NoResult},
               AttemptRemediation(f, input)
        PROVE  ReviewIsPrepared'
    <3>1. UNCHANGED <<points, cues, runs>> /\ status = "REMEDIATING"
      BY <2>5 DEF AttemptRemediation, inputs
    <3> QED
      BY <3>1, RehearsalStaysFinished DEF ReviewIsPrepared
  <2>6. ASSUME StartRehearsal \/ Release \/ \E n \in DOMAIN runs, r \in CueResults : SaveCueResult(n, r)
        PROVE  ReviewIsPrepared'
    BY <2>3, <2>6 DEF StartRehearsal, Release, ReviewChecklist, SaveCueResult, inputs
  <2>7. CASE UNCHANGED vars
    BY <2>7, RehearsalStaysFinished DEF vars, ReviewIsPrepared
  <2> QED
    BY <2>1, <2>2, <2>4, <2>5, <2>6, <2>7 DEF Next
<1>3. ReviewIsPrepared => ReviewWaitsForBlockersOnly
  BY DEF ReviewIsPrepared, ReviewWaitsForBlockersOnly, ReviewChecklist
<1> QED
  BY <1>1, <1>2, <1>3, TypeInvariant, PTL DEF Spec

-----------------------------------------------------------------------------
(* Runs and their findings.                                                *)

\* A finding of a rehearsal belongs to a run that has taken place.
OriginsAreRuns ==
  \A f \in findings : f.source = "REHEARSAL" => f.origin \in DOMAIN runs

\* Validation leaves the findings of rehearsals alone, in both directions.
LEMMA ValidationKeepsRehearsalFindings ==
  ASSUME TypeOK, RunValidation
  PROVE  {f \in findings' : f.source = "REHEARSAL"} = {f \in findings : f.source = "REHEARSAL"}
<1> DEFINE found == {Finding("VALIDATION", Len(batches) + 1, Blank, h) :
                       h \in Evaluate(points, cues, VenueLimit)}
<1>1. findings' = CloseOpenValidations(findings) \cup found
  BY DEF RunValidation
<1>2. \A f \in found : f.source # "REHEARSAL"
  BY DEF Finding
<1>3. \A f \in findings : f.source = "REHEARSAL" => f \in CloseOpenValidations(findings)
  BY DEF CloseOpenValidations
<1>4. \A g \in CloseOpenValidations(findings) : g.source = "REHEARSAL" => g \in findings
  BY DEF CloseOpenValidations, TypeOK, Findings
<1> QED
  BY <1>1, <1>2, <1>3, <1>4

\* What completion n adds: findings of run n only, open and blocking, each known
\* by its cue, code and references, and some exactly when the run is blocked.
Found(n, results) ==
  UNION {{Finding("REHEARSAL", n, q, h) : h \in ResultHits(results[q])} : q \in DOMAIN cues}

\* What completing a run adds to the findings.
LEMMA CompletionFindings ==
  ASSUME NEW n, NEW results
  PROVE  /\ \A f \in Found(n, results) :
              f.source = "REHEARSAL" /\ f.origin = n /\ f.status = "OPEN"
         /\ \A f, g \in Found(n, results) : Key(f) = Key(g) => f = g
         /\ Found(n, results) # {} <=> Blocked(results)
<1>1. ASSUME NEW q \in DOMAIN cues, NEW h \in ResultHits(results[q])
      PROVE  LET f == Finding("REHEARSAL", n, q, h)
             IN  /\ f.source = "REHEARSAL" /\ f.origin = n /\ f.status = "OPEN"
                 /\ f = [source |-> "REHEARSAL", origin |-> n, cue |-> f.cue, code |-> f.code,
                         severity |-> BLOCKING, refs |-> f.refs, observed |-> Observed(f.refs),
                         status |-> "OPEN"]
  <2>1. h.severity = BLOCKING
    BY HitsNameTheirCue
  <2> QED
    BY <2>1 DEF Finding
<1>2. \A f \in Found(n, results) :
        /\ f.source = "REHEARSAL" /\ f.origin = n /\ f.status = "OPEN"
        /\ f = [source |-> "REHEARSAL", origin |-> n, cue |-> f.cue, code |-> f.code,
                severity |-> BLOCKING, refs |-> f.refs, observed |-> Observed(f.refs),
                status |-> "OPEN"]
  BY <1>1 DEF Found
<1>3. ASSUME NEW f \in Found(n, results), NEW g \in Found(n, results), Key(f) = Key(g)
      PROVE  f = g
  <2>1. f.cue = g.cue /\ f.code = g.code /\ f.refs = g.refs
    BY <1>3 DEF Key
  <2> QED
    BY <1>2, <2>1
<1>4. \A q \in DOMAIN cues :
        ResultHits(results[q]) # {} <=> PeakViolation(results[q]) # {} \/ Deviates(results[q])
  BY DEF ResultHits
<1>5. Found(n, results) # {} <=> Blocked(results)
  <2>1. Found(n, results) # {} <=> \E q \in DOMAIN cues : ResultHits(results[q]) # {}
    <3>1. ASSUME NEW f \in Found(n, results)
          PROVE  \E q \in DOMAIN cues : ResultHits(results[q]) # {}
      BY DEF Found
    <3>2. ASSUME NEW q \in DOMAIN cues, NEW h \in ResultHits(results[q])
          PROVE  Finding("REHEARSAL", n, q, h) \in Found(n, results)
      BY DEF Found
    <3> QED
      BY <3>1, <3>2
  <2> QED
    BY <1>4, <2>1 DEF Blocked
<1> QED
  BY <1>2, <1>3, <1>5

\* The findings of rehearsals and the outcomes of runs agree.
RunsMatchFindings == BlockedRunsLeaveFindings /\ OriginsAreRuns

\* Every step keeps the findings of rehearsals and the outcomes of runs in step.
LEMMA RunsMatchFindingsStep ==
  TypeInv /\ RunsMatchFindings /\ [Next]_vars => RunsMatchFindings'
<1> SUFFICES ASSUME TypeInv, RunsMatchFindings, [Next]_vars PROVE RunsMatchFindings'
  OBVIOUS
<1>0. TypeOK /\ runs \in Seq(Runs)
  BY DEF TypeInv, TypeOK
<1>1. ASSUME {f \in findings' : f.source = "REHEARSAL"} = {f \in findings : f.source = "REHEARSAL"},
             DOMAIN runs' = DOMAIN runs,
             \A n \in DOMAIN runs : runs'[n].outcome = runs[n].outcome
      PROVE  RunsMatchFindings'
  BY <1>1 DEF RunsMatchFindings, BlockedRunsLeaveFindings, OriginsAreRuns
<1>2. ASSUME RunValidation
      PROVE  RunsMatchFindings'
  BY <1>0, <1>1, <1>2, ValidationKeepsRehearsalFindings DEF RunValidation
<1>3. ASSUME StartRehearsal
      PROVE  RunsMatchFindings'
  <2> DEFINE run == [outcome |-> "PENDING", results |-> [q \in CueIds |-> NoResult]]
  <2>1. runs' = Append(runs, run) /\ findings' = findings
    BY <1>3 DEF StartRehearsal
  <2>2. /\ DOMAIN runs = 1..Len(runs) /\ Len(runs) \in Nat
        /\ DOMAIN runs' = 1..(Len(runs) + 1)
        /\ \A n \in DOMAIN runs : runs'[n] = runs[n]
        /\ runs'[Len(runs) + 1].outcome = "PENDING"
    BY <1>0, <2>1
  <2>3. OriginsAreRuns'
    BY <2>1, <2>2 DEF RunsMatchFindings, OriginsAreRuns
  <2>4. ~\E f \in findings : f.source = "REHEARSAL" /\ f.origin = Len(runs) + 1
    BY <2>2 DEF RunsMatchFindings, OriginsAreRuns
  <2>5. BlockedRunsLeaveFindings'
    BY <2>1, <2>2, <2>4 DEF RunsMatchFindings, BlockedRunsLeaveFindings
  <2> QED
    BY <2>3, <2>5 DEF RunsMatchFindings
<1>4. ASSUME NEW n \in DOMAIN runs, NEW r \in CueResults, SaveCueResult(n, r)
      PROVE  RunsMatchFindings'
  <2>1. runs' = [runs EXCEPT ![n].results = Record(@, {r})] /\ findings' = findings
    BY <1>4 DEF SaveCueResult
  <2>2. DOMAIN runs' = DOMAIN runs /\ \A i \in DOMAIN runs : runs'[i].outcome = runs[i].outcome
    <3>1. \A i \in DOMAIN runs : runs[i] \in Runs
      BY <1>0
    <3> QED
      BY <2>1, <3>1 DEF Runs
  <2> QED
    BY <1>1, <2>1, <2>2
<1>5. ASSUME NEW n \in DOMAIN runs, NEW legacy \in LegacyInputs, CompleteRehearsal(n, legacy)
      PROVE  RunsMatchFindings'
  <2> DEFINE results == Record(runs[n].results, legacy)
             run == [outcome |-> IF Blocked(results) THEN "BLOCKED" ELSE "PASSED",
                     results |-> results]
  <2>1. /\ runs' = [runs EXCEPT ![n] = run]
        /\ findings' = findings \cup Found(n, results)
        /\ runs[n].outcome = "PENDING"
    BY <1>5 DEF CompleteRehearsal, CompletionOK, Found, PendingRun
  <2>2. /\ DOMAIN runs' = DOMAIN runs
        /\ \A i \in DOMAIN runs : i # n => runs'[i] = runs[i]
        /\ runs'[n].outcome = "BLOCKED" <=> Blocked(results)
    BY <2>1
  <2>3. ~\E f \in findings : f.source = "REHEARSAL" /\ f.origin = n
    BY <2>1 DEF RunsMatchFindings, BlockedRunsLeaveFindings
  <2> HIDE DEF results
  <2>4. /\ \A f \in Found(n, results) : f.source = "REHEARSAL" /\ f.origin = n
        /\ Found(n, results) # {} <=> Blocked(results)
    BY CompletionFindings
  <2>5. OriginsAreRuns'
    BY <2>1, <2>2, <2>4 DEF RunsMatchFindings, OriginsAreRuns
  <2>6. ASSUME NEW i \in DOMAIN runs, i # n
        PROVE  runs'[i].outcome = "BLOCKED"
                 <=> \E f \in findings' : f.source = "REHEARSAL" /\ f.origin = i
    BY <2>1, <2>2, <2>4, <2>6 DEF RunsMatchFindings, BlockedRunsLeaveFindings
  <2>7. runs'[n].outcome = "BLOCKED"
          <=> \E f \in findings' : f.source = "REHEARSAL" /\ f.origin = n
    BY <2>1, <2>2, <2>3, <2>4
  <2> QED
    BY <2>2, <2>5, <2>6, <2>7 DEF RunsMatchFindings, BlockedRunsLeaveFindings
<1>6. ASSUME NEW f \in findings, NEW input \in CueResults \cup {NoResult},
             AttemptRemediation(f, input)
      PROVE  RunsMatchFindings'
  <2> DEFINE closedOne == [f EXCEPT !.status = "CLOSED"]
  <2>1. closedOne.source = f.source /\ closedOne.origin = f.origin
    BY <1>0 DEF TypeOK, Findings
  <2>2. /\ findings' = findings \/ findings' = (findings \ {f}) \cup {closedOne}
        /\ runs' = runs
    BY <1>6 DEF AttemptRemediation
  <2> HIDE DEF closedOne
  <2> QED
    BY <2>1, <2>2 DEF RunsMatchFindings, BlockedRunsLeaveFindings, OriginsAreRuns
<1>7. CASE UNCHANGED <<findings, runs>>
  BY <1>1, <1>7
<1>8. (\E changes \in ChangeSetInputs : ApplyChangeSet(changes)) \/ Release \/ UNCHANGED vars
        => UNCHANGED <<findings, runs>>
  BY DEF ApplyChangeSet, Release, vars
<1> QED
  BY <1>2, <1>3, <1>4, <1>5, <1>6, <1>7, <1>8 DEF Next

\* A run is recorded as blocked exactly when it left findings, at any time later.
THEOREM BlockedRunsHaveFindings == Spec => []BlockedRunsLeaveFindings
<1>1. Init => RunsMatchFindings
  BY DEF Init, RunsMatchFindings, BlockedRunsLeaveFindings, OriginsAreRuns
<1>2. RunsMatchFindings => BlockedRunsLeaveFindings
  BY DEF RunsMatchFindings
<1> QED
  BY <1>1, <1>2, RunsMatchFindingsStep, TypeInvariant, PTL DEF Spec

-----------------------------------------------------------------------------
(* Findings and attempts.                                                  *)

PassedAttempts(f) == {k \in DOMAIN attempts : attempts[k].finding = Key(f) /\ attempts[k].passed}

\* Two findings of rehearsals never share what identifies them.
KeysAreUnique ==
  \A f, g \in findings :
    f.source = "REHEARSAL" /\ g.source = "REHEARSAL" /\ Key(f) = Key(g) => f = g

\* An attempt is about a finding on record.
AttemptsHaveFindings ==
  \A k \in DOMAIN attempts : \E f \in findings : attempts[k].finding = Key(f)

\* An open finding of a rehearsal has no successful attempt, a closed one has one.
AttemptsMatchStatus ==
  \A f \in findings : f.source = "REHEARSAL" =>
    /\ f.status = "OPEN" => PassedAttempts(f) = {}
    /\ f.status = "CLOSED" => \E k : PassedAttempts(f) = {k}

RetestsMatchFindings == KeysAreUnique /\ AttemptsHaveFindings /\ AttemptsMatchStatus

\* Every step keeps findings and attempts in step.
LEMMA RetestsMatchFindingsStep ==
  TypeInv /\ RunsMatchFindings /\ RetestsMatchFindings /\ [Next]_vars => RetestsMatchFindings'
<1> SUFFICES ASSUME TypeInv, RunsMatchFindings, RetestsMatchFindings, [Next]_vars
             PROVE  RetestsMatchFindings'
  OBVIOUS
<1>0. /\ TypeOK /\ attempts \in Seq(Attempts)
      /\ KeysAreUnique /\ AttemptsHaveFindings /\ AttemptsMatchStatus
  BY DEF TypeInv, TypeOK, RetestsMatchFindings
<1>a. ASSUME NEW f, NEW g
      PROVE  Key(f) = Key(g) => f.source = g.source /\ f.origin = g.origin
  BY DEF Key
<1>b. ASSUME NEW f \in findings
      PROVE  /\ Key([f EXCEPT !.status = "CLOSED"]) = Key(f)
             /\ [f EXCEPT !.status = "CLOSED"].source = f.source
             /\ [f EXCEPT !.status = "CLOSED"].status = "CLOSED"
  BY <1>0 DEF Key, TypeOK, Findings
<1>1. ASSUME RunValidation
      PROVE  RetestsMatchFindings'
  <2>1. {f \in findings' : f.source = "REHEARSAL"} = {f \in findings : f.source = "REHEARSAL"}
        /\ UNCHANGED attempts
    BY <1>0, <1>1, ValidationKeepsRehearsalFindings DEF RunValidation
  <2>2. KeysAreUnique' /\ AttemptsMatchStatus'
    BY <1>0, <2>1 DEF KeysAreUnique, AttemptsMatchStatus, PassedAttempts
  <2>3. \A f \in findings : f \in findings' \/ [f EXCEPT !.status = "CLOSED"] \in findings'
    BY <1>1 DEF RunValidation, CloseOpenValidations
  <2>4. AttemptsHaveFindings'
    <3>1. \A f \in findings : \E g \in findings' : Key(g) = Key(f)
      BY <1>b, <2>3
    <3> QED
      BY <1>0, <2>1, <3>1 DEF AttemptsHaveFindings
  <2> QED
    BY <2>2, <2>4 DEF RetestsMatchFindings
<1>2. ASSUME NEW n \in DOMAIN runs, NEW legacy \in LegacyInputs, CompleteRehearsal(n, legacy)
      PROVE  RetestsMatchFindings'
  <2> DEFINE results == Record(runs[n].results, legacy)
             found == Found(n, results)
  <2>1. /\ findings' = findings \cup found
        /\ runs[n].outcome = "PENDING"
        /\ UNCHANGED attempts
    BY <1>2 DEF CompleteRehearsal, CompletionOK, Found, PendingRun
  <2>2. /\ \A f \in found : f.source = "REHEARSAL" /\ f.origin = n /\ f.status = "OPEN"
        /\ \A f, g \in found : Key(f) = Key(g) => f = g
    BY CompletionFindings
  <2> HIDE DEF found
  <2>3. \A f \in findings, g \in found : Key(f) # Key(g)
    <3>1. ~\E f \in findings : f.source = "REHEARSAL" /\ f.origin = n
      BY <2>1 DEF RunsMatchFindings, BlockedRunsLeaveFindings
    <3> QED
      BY <1>a, <2>2, <3>1
  <2>4. KeysAreUnique'
    BY <1>0, <2>1, <2>2, <2>3 DEF KeysAreUnique
  <2>5. AttemptsHaveFindings'
    BY <1>0, <2>1 DEF AttemptsHaveFindings
  <2>6. \A g \in found : PassedAttempts(g) = {}
    BY <1>0, <2>3 DEF AttemptsHaveFindings, PassedAttempts
  <2>7. AttemptsMatchStatus'
    <3>1. \A f : PassedAttempts(f)' = PassedAttempts(f)
      BY <2>1 DEF PassedAttempts
    <3> QED
      BY <1>0, <2>1, <2>2, <2>6, <3>1 DEF AttemptsMatchStatus
  <2> QED
    BY <2>4, <2>5, <2>7 DEF RetestsMatchFindings
<1>3. ASSUME NEW f \in findings, NEW input \in CueResults \cup {NoResult},
             AttemptRemediation(f, input)
      PROVE  RetestsMatchFindings'
  <2> DEFINE passed == RecheckPasses(f, input)
             closedOne == [f EXCEPT !.status = "CLOSED"]
             attempt == [finding |-> Key(f), observed |-> Observed(f.refs),
                         input |-> input, passed |-> passed]
             last == Len(attempts) + 1
  <2>1. /\ attempts' = Append(attempts, attempt)
        /\ findings' = IF passed THEN (findings \ {f}) \cup {closedOne} ELSE findings
        /\ f.status = "OPEN"
    BY <1>3 DEF AttemptRemediation, OpenBlocking
  <2>2. /\ Key(closedOne) = Key(f)
        /\ closedOne.source = f.source
        /\ closedOne.status = "CLOSED"
    BY <1>b
  <2>3. attempt.finding = Key(f) /\ attempt.passed = passed /\ passed \in BOOLEAN
    BY DEF RecheckPasses, StaticRecheck, Retest
  <2> HIDE DEF passed, closedOne, attempt
  <2>4. /\ DOMAIN attempts' = DOMAIN attempts \cup {last}
        /\ last \notin DOMAIN attempts
        /\ \A k \in DOMAIN attempts : attempts'[k] = attempts[k]
        /\ attempts'[last] = attempt
    BY <1>0, <2>1
  <2> HIDE DEF last
  <2>5. KeysAreUnique'
    BY <1>0, <2>1, <2>2 DEF KeysAreUnique
  <2>6. AttemptsHaveFindings'
    BY <1>0, <2>1, <2>2, <2>3, <2>4 DEF AttemptsHaveFindings
  <2>7. ASSUME NEW g
        PROVE  PassedAttempts(g)' = PassedAttempts(g) \cup
                 (IF Key(g) = Key(f) /\ passed THEN {last} ELSE {})
    BY <2>3, <2>4 DEF PassedAttempts
  <2>8. AttemptsMatchStatus'
    <3>1. CASE ~passed
      BY <1>0, <2>1, <2>7, <3>1 DEF AttemptsMatchStatus
    <3>2. CASE passed
      <4>1. ASSUME f.source = "REHEARSAL"
            PROVE  PassedAttempts(closedOne)' = {last}
        <5>1. PassedAttempts(f) = {} /\ PassedAttempts(closedOne) = PassedAttempts(f)
          BY <1>0, <2>1, <2>2, <4>1 DEF AttemptsMatchStatus, PassedAttempts
        <5> QED
          BY <2>2, <2>7, <3>2, <5>1
      <4>2. ASSUME NEW g \in findings, g # f, g.source = "REHEARSAL"
            PROVE  PassedAttempts(g)' = PassedAttempts(g)
        <5>1. Key(g) # Key(f)
          BY <1>0, <1>a, <4>2 DEF KeysAreUnique
        <5> QED
          BY <2>7, <5>1
      <4>3. \A g \in findings' : g = closedOne \/ (g \in findings /\ g # f)
        BY <2>1, <3>2
      <4> QED
        BY <1>0, <2>2, <4>1, <4>2, <4>3 DEF AttemptsMatchStatus
    <3> QED
      BY <3>1, <3>2
  <2> QED
    BY <2>5, <2>6, <2>8 DEF RetestsMatchFindings
<1>4. CASE UNCHANGED <<findings, attempts>>
  BY <1>0, <1>4 DEF RetestsMatchFindings, KeysAreUnique, AttemptsHaveFindings,
     AttemptsMatchStatus, PassedAttempts
<1>5. (\/ \E changes \in ChangeSetInputs : ApplyChangeSet(changes)
       \/ StartRehearsal \/ Release \/ UNCHANGED vars
       \/ \E n \in DOMAIN runs, r \in CueResults : SaveCueResult(n, r))
        => UNCHANGED <<findings, attempts>>
  BY DEF ApplyChangeSet, StartRehearsal, SaveCueResult, Release, vars
<1> QED
  BY <1>1, <1>2, <1>3, <1>4, <1>5 DEF Next

\* A finding of a rehearsal is closed by exactly one successful attempt, and an
\* open one has none: nothing but a retest closes it.
THEOREM OneRetestCloses == Spec => []ClosedByOneRetest
<1>1. Init => RunsMatchFindings /\ RetestsMatchFindings
  BY DEF Init, RunsMatchFindings, BlockedRunsLeaveFindings, OriginsAreRuns,
         RetestsMatchFindings, KeysAreUnique, AttemptsHaveFindings, AttemptsMatchStatus
<1>2. TypeInv /\ RetestsMatchFindings => ClosedByOneRetest
  <2> SUFFICES ASSUME TypeInv, RetestsMatchFindings,
                      NEW f \in findings, f.source = "REHEARSAL"
               PROVE  Cardinality(PassedAttempts(f)) = IF f.status = "CLOSED" THEN 1 ELSE 0
    BY DEF ClosedByOneRetest, PassedAttempts
  <2>1. f.status \in {"OPEN", "CLOSED"}
    BY DEF TypeInv, TypeOK, Findings
  <2>2. /\ f.status = "OPEN" => PassedAttempts(f) = {}
        /\ f.status = "CLOSED" => \E k : PassedAttempts(f) = {k}
    BY DEF RetestsMatchFindings, AttemptsMatchStatus
  <2> QED
    BY <2>1, <2>2, FS_EmptySet, FS_Singleton
<1> QED
  BY <1>1, <1>2, RunsMatchFindingsStep, RetestsMatchFindingsStep, TypeInvariant, PTL DEF Spec
=============================================================================
