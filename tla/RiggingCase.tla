----------------------------- MODULE RiggingCase -----------------------------
(***************************************************************************)
(* One rigging case: the aggregate of internal/domain, from DRAFT to       *)
(* RELEASED.  An action is one accepted operation; a refused one leaves    *)
(* the stored case as it was (the service drops its copy), so refusals are *)
(* disabled actions.  A list only grows at its end, so a list position     *)
(* stands for the generated id.  Names, messages and times are left out;   *)
(* an optional text is Blank or not.                                       *)
(***************************************************************************)
EXTENDS ChangeSets, Sequences

CONSTANTS
  PointIds, CueIds,    \* ids of load points and cues: one namespace in the code
  Equipment, Mutexes, Texts,
  VenueLimit,          \* venueLimitKg
  ChangeSetInputs,     \* the change sets clients may send
  CueResults,          \* the measurements clients may send
  LegacyInputs,        \* the results a completion may carry, as sets
  NoResult,            \* a cue not recorded yet, a remediation without a retest
  MaxCues,             \* 200 in the code
  MaxRunDuration,      \* 60 minutes in the code
  MaxVersion           \* bound: no step is taken from this version on

VARIABLES
  status, version,
  points, pointRev,    \* the load points and their revisions
  cues, cueRev,        \* the cues and their revisions
  findings, batches, runs, attempts

inputs == <<points, pointRev, cues, cueRev>>
vars == <<status, version, points, pointRev, cues, cueRev, findings, batches, runs, attempts>>

Statuses == {"DRAFT", "VALIDATED", "REHEARSING", "REMEDIATING", "READY_FOR_REVIEW", "RELEASED"}

Refs == PointIds \cup CueIds \cup {"venue", "loadPoints", "cues"}

PointValues ==
  [equipment : Equipment \cup {Blank}, parent : PointIds \cup {NoParent},
   capacity : Int, static : Int, factor : Int]

CueValues ==
  [sequence : Int, action : Texts, equipment : SUBSET Equipment,
   mutex : Mutexes \cup {Blank}, duration : Int]

Items(ids, values) == [id : ids, value : values]

Results == [cue : Refs, success : BOOLEAN, peak : Int, deviation : Texts, evidence : Texts]

ASSUME CaseAssumption ==
  /\ VenueLimit \in Nat \ {0}
  /\ MaxVersion \in Nat
  /\ Blank \in Texts
  /\ \A ch \in ChangeSetInputs :
       /\ ch.points \subseteq Items(PointIds, PointValues)
       /\ ch.cues \subseteq Items(CueIds, CueValues)
       /\ IsFiniteSet(ch.points) /\ IsFiniteSet(ch.cues)
  /\ \A r \in CueResults : r \in Results
  /\ \A rs \in LegacyInputs : rs \subseteq CueResults
  /\ NoResult \notin CueResults

-----------------------------------------------------------------------------
(* Helpers of case.go.                                                     *)

\* RevisionOf looks among the points first; a ref like "venue" has none.
RevisionOf(ref) ==
  IF ref \in DOMAIN points THEN pointRev[ref]
  ELSE IF ref \in DOMAIN cues THEN cueRev[ref]
  ELSE 0

Observed(refs) == [ref \in Refs |-> IF ref \in refs THEN RevisionOf(ref) ELSE 0]

OpenBlocking(fs) == {f \in fs : f.status = "OPEN" /\ f.severity = BLOCKING}

LatestBatch == batches[Len(batches)]

\* Variant: the second edit after a batch replaces what the first one noted.
MarkStaleAnew(refs) ==
  IF batches = <<>> THEN batches
  ELSE [batches EXCEPT ![Len(batches)] = [@ EXCEPT !.stale = TRUE, !.changed = refs]]

\* Variant: the earlier batches are marked as well.
MarkAllStale(refs) ==
  [i \in DOMAIN batches |-> [batches[i] EXCEPT !.stale = TRUE, !.changed = @ \cup refs]]

\* markValidationStale: only the latest batch is ever marked.
Marked(b, refs) ==
  [b EXCEPT !.stale = TRUE, !.changed = IF b.stale THEN @ \cup refs ELSE refs]

MarkStale(refs) ==
  IF batches = <<>> THEN batches
  ELSE [batches EXCEPT ![Len(batches)] = Marked(LatestBatch, refs)]

Bump == /\ version < MaxVersion
        /\ version' = version + 1

-----------------------------------------------------------------------------
(* Editing.  A change set that changes nothing is accepted and not counted *)
(* as a change: that is a step of the service, not of the case.            *)

\* Variant: anything but a released case may be edited.
EditableUntilReleased == Statuses \ {"RELEASED"}

\* The states in which inputs may change and validation may run.
Editable == {"DRAFT", "REMEDIATING"}

ApplyChangeSet(changes) ==
  LET changed == Changed(points, changes.points) \cup Changed(cues, changes.cues)
  IN  /\ status \in Editable
      /\ Preflight(points, cues, changes)
      /\ changed # {}
      /\ points' = Merge(points, changes.points)
      /\ pointRev' = Revised(pointRev, Changed(points, changes.points))
      /\ cues' = Merge(cues, changes.cues)
      /\ cueRev' = Revised(cueRev, Changed(cues, changes.cues))
      /\ batches' = MarkStale(changed)
      /\ Bump
      /\ UNCHANGED <<status, findings, runs, attempts>>

-----------------------------------------------------------------------------
(* Validation: one batch, with the fate of each issue of the batch before, *)
(* and one finding per hit in place of the open ones of earlier batches.   *)

Identity(x) == <<x.code, x.refs>>

Unresolved(issues) == {i \in issues : i.state # "RESOLVED"}

PreviousIssues == IF batches = <<>> THEN {} ELSE Unresolved(LatestBatch.issues)

Issue(hit, state) ==
  [code |-> hit.code, severity |-> hit.severity, refs |-> hit.refs, state |-> state]

IssuesAfter(hits, previous) ==
  {Issue(h, IF \E p \in previous : Identity(p) = Identity(h) THEN "PERSISTING" ELSE "NEW") :
     h \in hits}
  \cup {Issue(p, "RESOLVED") : p \in {q \in previous : \A h \in hits : Identity(q) # Identity(h)}}

\* Variant: every open finding is closed, of whatever source.
CloseAllOpen(fs) == {[f EXCEPT !.status = "CLOSED"] : f \in fs}

\* Variant: warnings are left open.
CloseOpenBlockers(fs) ==
  {IF f.source = "VALIDATION" /\ f.severity = BLOCKING THEN [f EXCEPT !.status = "CLOSED"] ELSE f :
     f \in fs}

CloseOpenValidations(fs) ==
  {IF f.source = "VALIDATION" /\ f.status = "OPEN" THEN [f EXCEPT !.status = "CLOSED"] ELSE f :
     f \in fs}

Finding(source, origin, cue, hit) ==
  [source |-> source, origin |-> origin, cue |-> cue, code |-> hit.code,
   severity |-> hit.severity, refs |-> hit.refs, observed |-> Observed(hit.refs),
   status |-> "OPEN"]

\* The cues are entered after the points: a cue's revision hides that of a
\* point with its id.
Baseline ==
  [ref \in PointIds \cup CueIds |->
     IF ref \in DOMAIN cues THEN cueRev[ref]
     ELSE IF ref \in DOMAIN points THEN pointRev[ref]
     ELSE 0]

\* Variant: a case under remediation stays there while its inputs are refused.
VerdictKeepingRemediation(hits) ==
  IF Blockers(hits) = {} THEN "VALIDATED" ELSE status

Verdict(hits) == IF Blockers(hits) # {} THEN "DRAFT" ELSE "VALIDATED"

RunValidation ==
  LET hits == Evaluate(points, cues, VenueLimit)
  IN  /\ status \in Editable
      /\ status' = Verdict(hits)
      /\ findings' = CloseOpenValidations(findings) \cup
                       {Finding("VALIDATION", Len(batches) + 1, Blank, h) : h \in hits}
      /\ batches' = Append(batches,
                      [version |-> version, baseline |-> Baseline, final |-> Verdict(hits),
                       stale |-> FALSE, changed |-> {},
                       issues |-> IssuesAfter(hits, PreviousIssues)])
      /\ Bump
      /\ UNCHANGED <<inputs, runs, attempts>>

-----------------------------------------------------------------------------
(* Rehearsal.  A run is finished exactly when its outcome is not PENDING;  *)
(* the results of its cues are a function, NoResult where there is none.   *)

RehearsalFits ==
  /\ Cardinality(DOMAIN cues) <= MaxCues
  /\ SumFunction([q \in DOMAIN cues |-> cues[q].duration]) <= MaxRunDuration

StartRehearsal ==
  /\ status = "VALIDATED"
  /\ batches # <<>>
  /\ ~LatestBatch.stale
  /\ RehearsalFits
  /\ runs' = Append(runs, [outcome |-> "PENDING", results |-> [q \in CueIds |-> NoResult]])
  /\ status' = "REHEARSING"
  /\ Bump
  /\ UNCHANGED <<inputs, findings, batches, attempts>>

Deviates(r) == ~r.success \/ r.deviation # Blank

\* Variant: the cue is not looked up.
ResultOfAnyCue(r) == r.peak >= 0 /\ (Deviates(r) => r.evidence # Blank)

ResultOK(r) ==
  /\ r.cue \in DOMAIN cues
  /\ r.peak >= 0
  /\ Deviates(r) => r.evidence # Blank

Recorded(results) == {q \in CueIds : results[q] # NoResult}

Record(results, rs) ==
  [q \in CueIds |-> IF \E r \in rs : r.cue = q THEN CHOOSE r \in rs : r.cue = q ELSE results[q]]

\* Variant: a finished run is found as well.
AnyRun(n) == n \in DOMAIN runs

PendingRun(n) == n \in DOMAIN runs /\ runs[n].outcome = "PENDING"

\* A cue recorded before is overwritten: results may be corrected.
SaveCueResult(n, r) ==
  /\ status = "REHEARSING"
  /\ PendingRun(n)
  /\ ResultOK(r)
  /\ runs' = [runs EXCEPT ![n].results = Record(@, {r})]
  /\ Bump
  /\ UNCHANGED <<status, inputs, findings, batches, attempts>>

\* The points whose capacity the peak of a cue exceeds: none for an unknown
\* cue, and none for equipment no point carries any more.
PeakViolation(r) ==
  IF r.cue \notin DOMAIN cues \/ r.peak = 0 THEN {}
  ELSE {p \in DOMAIN points : /\ points[p].equipment \in cues[r.cue].equipment
                              /\ r.peak > points[p].capacity}

ResultHits(r) ==
  (IF PeakViolation(r) = {} THEN {}
   ELSE {Hit("REHEARSAL_PEAK", BLOCKING, {r.cue} \cup PeakViolation(r))})
  \cup (IF Deviates(r) THEN {Hit("REHEARSAL_DEVIATION", BLOCKING, {r.cue})} ELSE {})

\* Variant: a peak too high leaves its finding and does not block the run.
BlockedByDeviation(results) == \E q \in DOMAIN cues : Deviates(results[q])

Blocked(results) ==
  \E q \in DOMAIN cues : PeakViolation(results[q]) # {} \/ Deviates(results[q])

\* The results of the request are added to the saved ones and may not repeat
\* a cue; every cue must then have a result.
CompletionOK(n, legacy) ==
  /\ status = "REHEARSING"
  /\ PendingRun(n)
  /\ \A r \in legacy : ResultOK(r) /\ r.cue \notin Recorded(runs[n].results)
  /\ \A r, s \in legacy : r.cue = s.cue => r = s
  /\ DOMAIN cues \subseteq Recorded(Record(runs[n].results, legacy))

CompleteRehearsal(n, legacy) ==
  LET results == Record(runs[n].results, legacy)
  IN  /\ CompletionOK(n, legacy)
      /\ findings' = findings \cup UNION {{Finding("REHEARSAL", n, q, h) :
                                             h \in ResultHits(results[q])} : q \in DOMAIN cues}
      /\ runs' = [runs EXCEPT ![n] =
                    [outcome |-> IF Blocked(results) THEN "BLOCKED" ELSE "PASSED", results |-> results]]
      /\ status' = IF Blocked(results) THEN "REMEDIATING" ELSE "READY_FOR_REVIEW"
      /\ Bump
      /\ UNCHANGED <<inputs, batches, attempts>>

-----------------------------------------------------------------------------
(* Remediation: a failed attempt is kept as well as a successful one.      *)

Key(f) == <<f.source, f.origin, f.cue, f.code, f.refs>>

\* A validation finding needs a newer revision of something it refers to and
\* its rule not to hit there any more.
StaticRecheck(f) ==
  /\ \E ref \in f.refs : RevisionOf(ref) > f.observed[ref]
  /\ \A h \in Evaluate(points, cues, VenueLimit) : h.code = f.code => h.refs \cap f.refs = {}

\* A rehearsal finding needs a good measurement of something it refers to.
Retest(f, input) ==
  /\ input # NoResult
  /\ input.cue \in f.refs
  /\ input.evidence # Blank
  /\ ~Deviates(input)
  /\ PeakViolation(input) = {}

RecheckPasses(f, input) ==
  IF f.source = "VALIDATION" THEN StaticRecheck(f) ELSE Retest(f, input)

AttemptRemediation(f, input) ==
  LET passed == RecheckPasses(f, input)
      closed == (findings \ {f}) \cup {[f EXCEPT !.status = "CLOSED"]}
  IN  /\ status = "REMEDIATING"
      /\ f \in OpenBlocking(findings)
      /\ attempts' = Append(attempts, [finding |-> Key(f), observed |-> Observed(f.refs),
                                       input |-> input, passed |-> passed])
      /\ findings' = IF passed THEN closed ELSE findings
      /\ status' = IF passed /\ OpenBlocking(closed) = {} THEN "READY_FOR_REVIEW" ELSE status
      /\ Bump
      /\ UNCHANGED <<inputs, batches, runs>>

-----------------------------------------------------------------------------
(* Release.                                                                *)

\* One finished rehearsal is enough, however old.
HasFinishedRehearsal ==
  \E n \in DOMAIN runs : runs[n].outcome # "PENDING" /\ Recorded(runs[n].results) # {}

ReviewChecklist ==
  /\ status = "READY_FOR_REVIEW"
  /\ DOMAIN points # {}
  /\ DOMAIN cues # {}
  /\ HasFinishedRehearsal
  /\ OpenBlocking(findings) = {}
  /\ status # "RELEASED"   \* no certificate and no date: they come with the status

Release ==
  /\ ReviewChecklist
  /\ status' = "RELEASED"
  /\ Bump
  /\ UNCHANGED <<inputs, findings, batches, runs, attempts>>

-----------------------------------------------------------------------------
(* The difference of two batches, worked out from what they hold.          *)

\* Variant: what was resolved counts as still there.
AllIdentities(batch) == {Identity(i) : i \in batch.issues}

CurrentIdentities(batch) == {Identity(i) : i \in Unresolved(batch.issues)}

Diff(from, to) ==
  [new        |-> CurrentIdentities(to) \ CurrentIdentities(from),
   persistent |-> CurrentIdentities(to) \cap CurrentIdentities(from),
   resolved   |-> CurrentIdentities(from) \ CurrentIdentities(to)]

-----------------------------------------------------------------------------
Init ==
  /\ status = "DRAFT"
  /\ version = 1
  /\ points = <<>> /\ pointRev = [p \in PointIds |-> 0]
  /\ cues = <<>> /\ cueRev = [q \in CueIds |-> 0]
  /\ findings = {}
  /\ batches = <<>> /\ runs = <<>> /\ attempts = <<>>

Next ==
  \/ \E changes \in ChangeSetInputs : ApplyChangeSet(changes)
  \/ RunValidation
  \/ StartRehearsal
  \/ \E n \in DOMAIN runs, r \in CueResults : SaveCueResult(n, r)
  \/ \E n \in DOMAIN runs, legacy \in LegacyInputs : CompleteRehearsal(n, legacy)
  \/ \E f \in findings, input \in CueResults \cup {NoResult} : AttemptRemediation(f, input)
  \/ Release

Spec == Init /\ [][Next]_vars
-----------------------------------------------------------------------------
(* Properties.                                                             *)

Positive == Nat \ {0}

Sources == {"VALIDATION", "REHEARSAL"}

Codes == RuleCodes \cup {"REHEARSAL_PEAK", "REHEARSAL_DEVIATION"}

Findings ==
  [source : Sources, origin : Positive, cue : CueIds \cup {Blank}, code : Codes,
   severity : Severities, refs : SUBSET Refs, observed : [Refs -> Nat],
   status : {"OPEN", "CLOSED"}]

Issues ==
  [code : Codes, severity : Severities, refs : SUBSET Refs,
   state : {"NEW", "PERSISTING", "RESOLVED"}]

Batches ==
  [version : Positive, baseline : [PointIds \cup CueIds -> Nat],
   final : {"DRAFT", "VALIDATED"}, stale : BOOLEAN, changed : SUBSET (PointIds \cup CueIds),
   issues : SUBSET Issues]

Runs == [outcome : {"PENDING", "PASSED", "BLOCKED"}, results : [CueIds -> CueResults \cup {NoResult}]]

Keys == Sources \X Positive \X (CueIds \cup {Blank}) \X Codes \X SUBSET Refs

Attempts ==
  [finding : Keys, observed : [Refs -> Nat], input : CueResults \cup {NoResult},
   passed : BOOLEAN]

\* Every part of the aggregate has its shape, and every value a revision.
TypeOK ==
  /\ status \in Statuses
  /\ version \in Positive
  /\ points \in [DOMAIN points -> PointValues]
  /\ cues \in [DOMAIN cues -> CueValues]
  /\ pointRev \in [PointIds -> Nat] /\ DOMAIN points = {p \in PointIds : pointRev[p] > 0}
  /\ cueRev \in [CueIds -> Nat] /\ DOMAIN cues = {q \in CueIds : cueRev[q] > 0}
  /\ findings \subseteq Findings
  /\ batches \in Seq(Batches)
  /\ runs \in Seq(Runs)
  /\ attempts \in Seq(Attempts)

\* What preflight promises of the case as a whole holds after any series of
\* edits: no two points share equipment, the connections form a forest, no two
\* cues share a sequence number.  (changeset.go checks the final case, so an
\* item that was left alone may be the one that collides.)
WellFormed ==
  /\ UniqueEquipment(points)
  /\ Forest(points)
  /\ UniqueSequences(cues)

\* The stale mark of the latest batch is exact: it names the inputs that were
\* added or revised since the batch was taken, no others, and a batch without
\* such inputs is not stale.
LatestBatchTracksInputs ==
  batches # <<>> =>
    /\ LatestBatch.changed = {ref \in PointIds \cup CueIds :
                               Baseline[ref] # LatestBatch.baseline[ref]}
    /\ LatestBatch.stale <=> LatestBatch.changed # {}

\* A case that is validated or being rehearsed has no blocking hit and its
\* latest batch is about the inputs it has now.
ValidatedInputsPass ==
  status \in {"VALIDATED", "REHEARSING"} =>
    /\ batches # <<>>
    /\ ~LatestBatch.stale
    /\ LatestBatch.final = "VALIDATED"
    /\ Blockers(Evaluate(points, cues, VenueLimit)) = {}

\* The open validation findings are the unresolved issues of the latest batch:
\* findings and batch history, kept by different code, never drift apart.
OpenFindingsMatchLatestBatch ==
  {Identity(f) : f \in {g \in findings : g.source = "VALIDATION" /\ g.status = "OPEN"}}
    = {Identity(i) : i \in PreviousIssues}

\* Outside DRAFT no blocking validation finding is open, and a case under
\* remediation always has a rehearsal finding left that a retest can close.
RemediatingHasWork ==
  /\ status # "DRAFT" => \A f \in OpenBlocking(findings) : f.source = "REHEARSAL"
  /\ status = "REMEDIATING" => \E f \in OpenBlocking(findings) : f.cue \in f.refs \cap DOMAIN cues

\* A rehearsal is under way exactly when one run is pending, and that run is
\* the newest; whatever is recorded is about cues of the case.
OnePendingRun ==
  /\ {n \in DOMAIN runs : runs[n].outcome = "PENDING"}
       = IF status = "REHEARSING" THEN {Len(runs)} ELSE {}
  /\ \A n \in DOMAIN runs : Recorded(runs[n].results) \subseteq DOMAIN cues

\* A run is recorded as blocked exactly when it left findings.
BlockedRunsLeaveFindings ==
  \A n \in DOMAIN runs :
    runs[n].outcome = "BLOCKED" <=> \E f \in findings : f.source = "REHEARSAL" /\ f.origin = n

\* A rehearsal finding is closed by exactly one successful attempt and an open
\* one has none: no edit, validation or later run closes it.
ClosedByOneRetest ==
  \A f \in findings : f.source = "REHEARSAL" =>
    Cardinality({k \in DOMAIN attempts : attempts[k].finding = Key(f) /\ attempts[k].passed})
      = IF f.status = "CLOSED" THEN 1 ELSE 0

\* A case under review has everything else that its release asks for: the only
\* thing it can still wait for is an open blocking finding.
ReviewWaitsForBlockersOnly ==
  status = "READY_FOR_REVIEW" => (OpenBlocking(findings) = {} => ReviewChecklist)

InState(batch, state) == {Identity(i) : i \in {j \in batch.issues : j.state = state}}

\* The fate of each issue is decided when its batch is taken (rules.go:241) and
\* worked out again when two batches are compared (history.go:78): of a batch and
\* the one before it both say the same.
DiffMatchesIssueStates ==
  \A i \in DOMAIN batches \ {1} :
    Diff(batches[i - 1], batches[i])
      = [new        |-> InState(batches[i], "NEW"),
         persistent |-> InState(batches[i], "PERSISTING"),
         resolved   |-> InState(batches[i], "RESOLVED")]

\* The history only grows: a finished run, an attempt, a closed finding, and of
\* a batch everything but its stale mark stay as they are, and a stale mark is
\* neither lifted nor loses a name.
KeepsHistory ==
  /\ \A n \in DOMAIN runs : runs[n].outcome # "PENDING" => runs'[n] = runs[n]
  /\ \A k \in DOMAIN attempts : attempts'[k] = attempts[k]
  /\ \A f \in findings : \/ f \in findings'
                        \/ /\ f.status = "OPEN"
                           /\ [f EXCEPT !.status = "CLOSED"] \in findings'
  /\ \A i \in DOMAIN batches :
       LET b == batches[i]  c == batches'[i]
       IN  /\ c = [b EXCEPT !.stale = c.stale, !.changed = c.changed]
           /\ b.stale => c.stale
           /\ b.changed \subseteq c.changed

\* In every step (rehearsal.go, remediation.go and rules.go only add or close).
HistoryIsKept == [][KeepsHistory]_vars

\* A revision counts the changes of its value: it moves by one exactly when
\* the value does, and nothing is ever taken out of a case.
CountsChanges ==
  /\ \A p \in DOMAIN points :
       pointRev'[p] = pointRev[p] + (IF points'[p] = points[p] THEN 0 ELSE 1)
  /\ \A q \in DOMAIN cues :
       cueRev'[q] = cueRev[q] + (IF cues'[q] = cues[q] THEN 0 ELSE 1)

\* In every step (changeset.go raises a revision with its value).
RevisionsCountChanges == [][CountsChanges]_vars

Service == INSTANCE CaseOutcomes

\* What the service sees of the case.
Row == [version |-> version, released |-> status = "RELEASED",
        batches |-> [i \in DOMAIN batches |-> batches[i].stale]]

\* An operation does to the case what the service counts on when it compares
\* versions, notes a stale batch or refuses a released case: nothing but a release
\* ends it, nothing but a validation adds a batch, nothing but an edit marks one.
DoesAsExpected ==
  LET Leaves(op) == Row' \in Service!Outcomes(op, Row)
  IN  /\ (\E changes \in ChangeSetInputs : ApplyChangeSet(changes)) => Leaves("CHANGE_SET_APPLIED")
      /\ RunValidation => Leaves("CASE_VALIDATED")
      /\ StartRehearsal => Leaves("REHEARSAL_STARTED")
      /\ (\E n \in DOMAIN runs, r \in CueResults : SaveCueResult(n, r)) => Leaves("REHEARSAL_CUE_SAVED")
      /\ (\E n \in DOMAIN runs, legacy \in LegacyInputs : CompleteRehearsal(n, legacy)) =>
           Leaves("REHEARSAL_COMPLETED")
      /\ (\E f \in findings, input \in CueResults \cup {NoResult} : AttemptRemediation(f, input)) =>
           Leaves("FINDING_REMEDIATED")
      /\ Release => Leaves("CASE_RELEASED")

\* In every step: the domain is the one that RiggingService is built on.
OperationsAreOutcomes == [][DoesAsExpected]_vars

-----------------------------------------------------------------------------
(* Expectations of the documentation that the code does not meet.          *)

\* README.md:34: a blocked rehearsal leads to REMEDIATING; review.go:16 asks of a
\* case under review that every blocking finding is closed.  A finding that is
\* still open should therefore keep the case out of READY_FOR_REVIEW.
ReadyHasNoOpenBlocker == status = "READY_FOR_REVIEW" => OpenBlocking(findings) = {}

\* README.md:33-34: after a validation without blocking issues comes the
\* rehearsal.  No operation but StartRehearsal takes a case out of VALIDATED.
ValidatedCanBeRehearsed == status = "VALIDATED" => RehearsalFits

\* README.md:35: a finding of a rehearsal is closed by a new measurement of a cue.
RetestMeasuresACue ==
  \A k \in DOMAIN attempts : attempts[k].passed => attempts[k].input.cue \in DOMAIN cues

\* changeset.go:186-189 refuses a cue whose equipment no load point carries: the
\* peak of such a cue is compared with no capacity at all.
CueEquipmentExists ==
  \A q \in DOMAIN cues : cues[q].equipment \subseteq EquipmentOf(points)

\* review.go:15 asks of a released case that the rehearsal has been completed,
\* which README.md:34 makes a result for every cue.
ReleasedCuesWereRehearsed ==
  status = "RELEASED" =>
    \A q \in DOMAIN cues : \E n \in DOMAIN runs : q \in Recorded(runs[n].results)
=============================================================================
