# Stage rigging clearance: specifications, model checking and proofs

This directory holds the TLA+ specifications of the stage rigging clearance
service in `src/`: a Go program that takes a rigging case (load points, scene
cues) through editing, validation, rehearsal, remediation and review to a frozen
release with a certificate. The specifications are translated from the code; the
documentation is only quoted where it says something else than the code does
(see "Findings").

## 1. The system

| Component | Code | State | Operations |
|---|---|---|---|
| Case aggregate and editing | `domain/case.go`, `changeset.go`, `edit.go`, `types.go` | status, version, load points and cues with revisions, stale marks | change sets; a single upsert is a change set of one item |
| Validation rules | `domain/rules.go` | findings, validation batches with issues | `Evaluate` (pure), `RunValidation` |
| Rehearsals | `domain/rehearsal.go` | runs with results per cue | start, save a result, complete |
| Remediation and review | `domain/remediation.go`, `review.go` | attempts, status of findings | recheck or retest, checklist, release |
| Frozen snapshot | `domain/snapshot.go` | none | freeze |
| Write service | `application/service.go`, `create.go`, `edit.go`, `rehearsal.go`, `release.go` | none of its own | every write: idempotency, version, domain operation, save, audit, record, in one transaction |
| Read service | `application/query.go`, `history.go` | none | view, list, batches, differences of batches |
| Integrity and lookup | `application/integrity.go`, `certificate.go` | none | verification of the audit chain, look up a certificate |
| Audit digests | `audit/` | none | digests, canonical JSON, `VerifyChain` |
| Store | `store/` | SQLite tables, triggers, one connection | transactions, load and save of the aggregate, audit head, serials |
| HTTP transport, page | `transport/` | none | one service call per handler |
| Server process | `cmd/server/` | none | configuration, start, stop, self-check |

How they interact. A handler calls one service method. A write method opens a
transaction; in it the service looks up the idempotency key, loads the aggregate,
compares versions, calls the domain on its private copy, saves the copy guarded by
the version it read, appends audit events, and stores the answer under the key.
An error at any point rolls everything back; two kinds of failure, a conflict and
a failed remediation, are committed and *then* answered with an error. A read
method runs its queries directly on the pool. The pool has one connection, so an
open transaction excludes every other query, but two queries of one reader may
have a whole transaction between them.

What is hard here:

* **Orders of legal calls.** Edit, validate, rehearse, retest and validate again
  can be interleaved in ways no test has; several pieces of state (findings and
  batches, runs and findings, revisions and stale marks) are kept by different
  functions and have to agree.
* **Retries and concurrent clients.** Answers are lost, requests repeated, keys
  reused, versions outdated.
* **Failure in the middle of a write** and the end of the process.
* **Integer limits** in sums along trees of load points.
* **Reads in several queries**, beside writes, over one connection that a call
  keeps while it has rows or a transaction open.
* **Damaged rows**, which the audit chain and the digests of certificates are there
  to show, judged by four loops and three rules written at different places.
* **What a save writes and a load brings back**: most columns of the history are
  written once, and the order of rows is that of times as text.

What makes each component correct: inputs stay well formed and revisions count changes
(editing); the algorithms find what the rules mean and never accept a sum they cannot
compute (rules); batches, findings and inputs agree (validation); one pending run,
about the validated inputs (rehearsals); a finding of a rehearsal is closed by one
retest, and remediation can always go on (remediation); at most one effect per request
and one request per version, and a log, answers and certificates that agree with the
cases (write service and store); a save followed by a load is the same case (store); a
mixed view does no harm, and every call and every stop ends (read service, server);
the verifiers agree and never raise or miss an alarm (integrity, lookup, digests).
`PROJECT.json` lists every hazard with its line and the properties that would catch it
going wrong.

## 2. The modules

| Module | What it models |
|---|---|
| `LoadRules` | the rules of `Evaluate` as definitions on functions of load points and cues |
| `ChangeSets` | merging, change detection, revisions and preflight of a change set |
| `CaseOutcomes` | what an operation may do to a case as far as the service can tell; used by the two sides of it, `RiggingCase` and `RiggingService` |
| `RiggingCase` | the aggregate as a state machine, one action per operation; EXTENDS `LoadRules` and `ChangeSets` |
| `LoadGraph` | load points that are added and loaded one after the other, and what the rules promise of every such graph; EXTENDS `LoadRules` |
| `CascadeWalk` | the graph algorithms of `Evaluate` as the code computes them, on such a graph; EXTENDS `LoadGraph` |
| `CaseLedger` | abstract specification of the write service: versions, frozen cases, accepted requests |
| `RiggingService` | transactions, idempotency, versions, audit log, certificates, readers; EXTENDS `CaseOutcomes`, implements `CaseLedger` |
| `StoredCase` | the tables of one case: what a save writes, what a load reads and in which order; EXTENDS `RiggingCase` |
| `AuditChain` | digests, the four loops over the chain of events, the ways to judge a certificate |
| `AuditReaders` | all readers query by query, writers, the one connection, clients that go away, stop and restart, damage of rows; EXTENDS `AuditChain` |
| `MCRiggingCase`, `MCStoredCase`, `MCCascadeWalk`, `MCRiggingService` | instances for TLC (that of `AuditReaders` needs none) |
| `RiggingCase_proofs` | theorems about `RiggingCase`: types, inputs, validation, rehearsals, remediation |
| `CaseHistory_proofs` | more of them: revisions, what the service sees, stale marks and history; runs, attempts and review |
| `RiggingService_proofs` | the invariant of `RiggingService`; types, answers, releases and serials |
| `ServiceLedger_proofs` | the refinement of `CaseLedger`, versions, certificates, views; the audit log |
| `LoadRules_proofs` | theorems about `LoadRules`, `LoadGraph` and `CascadeWalk`: arithmetic, more load, the walks, the recursion and the loop over the roots |
| `StoredCase_proofs` | theorems about the tables: nothing is lost, everything comes back in order |
| `AuditChain_proofs` | what the loops over a chain report, for every sequence of events |
| `AuditReaders_proofs` | theorems about the readers: alarms, lookups, the connection |

### RiggingCase and its operators

Each variable is a field of `domain.RiggingCase`. `points` and `cues` are functions
from ids to values, `pointRev` and `cueRev` their revisions, 0 for what is not
there. Findings are a set of records; a finding is identified by its source, the
batch or run it comes from, the cue, rule code and references, in place of a
generated id. Batches, runs and attempts are sequences. An action is an *accepted*
call of the domain: a refused one changes nothing, because the service throws its
copy away. What each action does is the whole handler:

| Action | Code |
|---|---|
| `ApplyChangeSet` | preflight on the resulting case, merge, revisions, stale mark of the latest batch, version |
| `RunValidation` | `Evaluate`, issue states against the previous batch, closing of open validation findings, new findings, verdict, batch with its baseline, version |
| `StartRehearsal` | status, fresh batch, limits, new pending run |
| `SaveCueResult` | pending run, known cue, evidence; an earlier result is overwritten |
| `CompleteRehearsal` | sent results added to saved ones, every cue covered, findings for deviations and peaks, outcome, status |
| `AttemptRemediation` | static recheck or retest, attempt kept whether it passes or not, finding closed, status if it was the last |
| `Release` | review checklist, status |

A change set that changes nothing is accepted by the code and leaves the aggregate
as it was: a stuttering step here, a recorded request with an unchanged version
in `RiggingService`. `CompletionOK` is the list of guards of `CompleteRehearsal`, under
a name of its own because a property of the tables compares them with what a reader
is told.

`LoadRules` states the rules as sets (a subtree is the set of points whose way up
leads through a point, a load is a sum over such a set); sorting and removal of
duplicates are what a set does anyway. `CascadeWalk` has the code's own walk with
its path, the recursion with its refusals and the loop over the roots, and compares
them. Recursion is written as recursive functions, as the proof system takes no
RECURSIVE operators: `Way` over the steps of a walk, `Cascades` over the load points. The
order in which the code visits load points (`sort.Strings`) is the constant `Sorted`,
any listing of a set that names each element once. The graphs, with the two properties
that need no algorithm, are in `LoadGraph`; the run `rules` checks all five together.

Left out of `RiggingCase`: messages, names, times and generated ids; trimming of
texts (a text is `Blank` or not); the optional `remediationRevision` noted at a
closed finding, which nothing reads. `Diff` is what `DiffValidationBatches` works
out from two stored batches.

### StoredCase

`tables` holds the rows of the case by table and key. `StoredNext` is every action of
`RiggingCase` together with `Save`, which is `saveAggregate` statement by statement:
points, cues and runs are deleted and inserted again, findings are upserted with their
status only, batches with their stale mark and changed refs only, baselines, issues
and attempts inserted if they are not there. `Load` is `loadCase`: it puts the case
together again, batches, runs and attempts in the order of the text of their times
(`TimeText`, from the seconds on, in hundredths; `Ordered` gives each row its rank).
The time of a write is `version * Ticks`: the clock only moves forward, and every
write has a version of its own. The actions work on the case as the last one left it;
`SavedCaseIsTheCase` is what makes that the same as the case the next operation loads.
`ListValidationBatches` and `RehearsalProgress` are the two reads that judge rows
again on their own. `SavedCaseIsTheCase` holds when writes are a second or more apart:
the run `case` has `Ticks = 125`, so that times with no, one and two decimals occur,
and section 4 has the proof for every such clock. The run `latest_by_clock` (`Ticks =
25`, four writes a second) shows what happens when they are not, and its
counterexample ends with the first step after which the two differ.

### AuditChain and AuditReaders

An event is its columns with the digest as a tuple of what was hashed, so that two
digests are equal exactly when the same was hashed. The number and the time of an
event are not part of it; white space in a payload is not either (`Compact`), and a
payload that is no JSON makes `json.Marshal` fail and the digest that of no bytes
(`EmptyDigest`). `Loop` is the loop over the chain, the function `run` from a position
to the digest and number carried there; `TimelineAccepts`, `ReportAccepts` and
`ChainAccepts` are its bodies in `query.go`, in `certificate.go` and `integrity.go`,
and in `verify.go`.

In `AuditReaders` `stored` has what these readers see of the tables: version and
release of the case, the certificate with its snapshot, the log. A call is the list
of the queries it has left (`Programs`) and what it has seen. `Query` needs the
connection to be free; the ids of the cases and the rows of the batches come through
a cursor that keeps it until `Close`, a write keeps it from `Begin` to `Commit` or
`Rollback`. `GiveUp` is a client that goes away (the context is cancelled,
database/sql closes rows and transaction). `Signal`, `Finish`, `Die` and `Restart`
are the life of the process in `main.go`. `Fault` changes one column of one event,
loses an event, or changes the snapshot, within the keys of the tables. `written`,
`sealed` and `faults` are history variables: what was ever written, and the log the
certificate was issued on.

### RiggingService

`db` holds what is committed: per case a row with version, released mark and the
stale marks of the batches, the audit log, and the idempotency records and
certificates. `tx` is the open transaction with the database it would leave and the
answer it would give; nobody else can see it. `BeginKnown`, `BeginCreate`,
`BeginOutdated` and `BeginWrite` are the ways a request can go in `mutate`,
`Remediate`, `Release` and `CreateCase`; `Commit` makes the effect visible and
sends the answer, `Abort` is an error, a cancelled request or the end of the
process. Requests are not consumed: any request may be handled again at any time,
which is what retries, duplicates and lost answers amount to. A reader
(`BeginView`, `Query`) notes the version each of its queries sees.

The aggregate is reduced to what the service looks at: an operation leaves any
row in `Outcomes` (module `CaseOutcomes`). So everything shown here holds whatever the
domain decides within it: an operation adds one to the version or leaves the aggregate
alone, an edit marks the latest batch and no other, only a validation adds one, only a
release ends the case, and a released case refuses everything. That the domain keeps
to it is a property of `RiggingCase`, `OperationsAreOutcomes`: every action, seen as
a row (`Row`), is an outcome of its operation. A digest stands for one event (SHA-256 is taken as injective), so the number of the event is used.

## 3. The runs

| Run | Instance | What it shows |
|---|---|---|
| `case` | 2 points, 2 cues, 6 change sets, 5 results, 10 versions, with tables (about 97,000 states) | the consistency of the aggregate and of its tables, see below |
| `rules` | every graph of up to 3 points incl. cycles and unknown parents, 2 loads, 2 factors, 2 capacities, width 20 | walk, recursion and loop compute what `LoadRules` defines; more load never helps; margins and dynamic loads are exact |
| `service` | 1 case, 3 keys, 4 operations, 4 versions, 7 events (about 155,000 states) | at most one effect per request, records, log and certificate agree, refinement of `CaseLedger` |
| `releases` | 2 cases, 2 keys, 1 reader (about 350,000 states) | serials without gaps, mixed views carry an old version |
| `readers` | 1 reader, 1 writer, 4 events, 1 damage (about 33,000 states) | verifiers agree, no false and no missed alarm, every call and stop ends |
| `ready_with_blocker`, `validated_stuck`, `retest_of_point`, `unrehearsed_release`, `dangling_equipment`, `torn_view`, `latest_by_clock` | small | each violates one expectation of the documentation, see "Findings" |

The properties of `case`:

* `WellFormed`: no series of change sets breaks unique equipment, the forest or
  unique sequence numbers.
* `LatestBatchTracksInputs`: the stale mark names exactly what changed since the batch.
* `ValidatedInputsPass`: VALIDATED and REHEARSING are about inputs that pass now.
* `OpenFindingsMatchLatestBatch`: findings and issue history never drift apart.
* `RemediatingHasWork`: remediation can always be finished. Its first half shows
  that outside DRAFT no blocking validation finding is open; so the static recheck
  of `AttemptRemediation` (remediation.go:38-61) is never reached by any series of
  calls.
* `OnePendingRun`, `BlockedRunsLeaveFindings`, `ClosedByOneRetest`: runs, findings
  and attempts agree.
* `ReviewWaitsForBlockersOnly`: of the checklist only open blockers can fail.
* `HistoryIsKept`, `RevisionsCountChanges`: what a step may never do.
* `OperationsAreOutcomes`: each operation does to version, release and stale marks what
  `RiggingService` takes it to do.
* `DiffMatchesIssueStates`: the difference of a batch and the one before it, worked
  out from stored issues, is what the issue states say.
* `SavedCaseIsTheCase`: no operation changes a column that a save does not write.
* `ListStartsWithTheLatest`: the list of batches, cut at any limit, starts with the
  batch the case treats as its latest.
* `ProgressIsWhatIsAskedFor`: the pending cues a view reports are exactly those that
  completing the rehearsal asks for: it compares the view with the guards of completing.
  A completion takes one result for each of them: a cue that has one already, or is sent
  twice with results that differ (`CaseLegacy` has such a request), is refused.

The properties of `readers`:

* `VerifiersAgree`, `BreakpointsAgree`, `ReadersAgree`: on every log that writes,
  one damage and further writes can lead to, the four loops report the same first
  damage, a breakpoint before it finds it and one behind it invents nothing, and the
  certificate check by the first release event says the same as those by any.
* `LookupIsTrustworthy`: when all five checks pass, every event of the log was written,
  the release among them, the snapshot is the frozen one, and the log up to the release
  is what it was when the certificate was issued. The last part needs that log to have
  been in order then: a release does not look at the log, so it can be sealed while
  damaged, and the damage undone later.
* `NoFalseAlarm`: on undamaged tables no reader reports damage, whatever commits
  between its queries. It rests on the order of the queries: the case, with its
  certificate, before the log.
* `TypeOK`: besides shapes, the connection always belongs to a call under way.
* `EveryCallEnds`, `StopIsCarriedOut`: liveness, see "Fairness".

Why the bounds are enough. A failed validation, a corrected input, a blocked
rehearsal, a retest and release take nine versions; two rehearsals with a blocked one
first take eight. Ten versions hold these with a step to spare, which is also room for
a third validation, so that an issue can be NEW, PERSISTING and RESOLVED, and for a
batch that becomes stale twice. Two points allow a connection, a cycle and shared
equipment; two cues allow a shared sequence number, a saved and a sent result, and a
cue that was added late. Three points allow a tail leading into a cycle of two, a root
with two branches, and a chain of three. The width of 20 is passed by sums of two and
three points (their own loads reach 18); a capacity of 20 has a margin of exactly 3,
so the loads just within, at and beyond 15% are tried. With a factor of 2, a static
load of 10 passes the width by its rounding term alone. In `readers`, four events hold
a creation, a release and an event on either side of it, or conflicts after it; one
damage is enough for every way a single column or row can be wrong, at every place and
time, with events chained onto it later. While a row is damaged no reader makes new
calls (`ReadDamaged`): what a call would answer is a function of the tables, and the
invariants compare those functions in every state; with calls on damaged tables the
run has about a million states and shows the same. Two clients, one that reads and one
that writes, are enough for a wait: a call waits for the other client or for itself. What
more clients would add, a choice among several that wait, is left to the fairness
assumed, and `EveryCallEnds` is shown for these two only.
Three keys give a creation and two writes that can repeat, collide and reuse each
other's key; seven events leave room for conflicts after the release. TLC stops at the
bounds named `MaxVersion` and `MaxEvents`; for this reason, and because a released
case has no further step, the runs do not look for deadlocks.

Operators commented "Variant" are deliberate mistakes (a forgotten guard, a
swapped order) that no specification uses. `PROJECT.json` pairs each property with
one of them: put in the place of the definition it varies, TLC finds the property
violated.

Fairness. `RiggingCase`, `RiggingService` and `CascadeWalk` assume none: every step
is a request of a person or a client, and nothing in that code runs by itself. What
must remain *possible* is stated as safety (`RemediatingHasWork`,
`ReviewWaitsForBlockersOnly`, and, violated, `ValidatedCanBeRehearsed` and
`ReadyHasNoOpenBlocker`). In `AuditReaders` a call that has begun runs by itself:

* strong fairness of `Query \/ Begin` for each client: database/sql hands a
  connection that comes free to one of the waiting calls picked at random, so a call
  that waits again and again gets it;
* weak fairness of `Close`, `Commit`, `Rollback` and `Return` (together) for each
  client: a goroutine that can go on does; which of commit and rollback is open;
* weak fairness of `Finish`: `Shutdown` looks again and again whether calls are open.

None is assumed of clients (they need not call, nor give up), of faults, of the end
of the process or of the deadline of the shutdown. `EveryCallEnds` then fails as
soon as a call queries while it has rows open, which the code avoids at two places
(store/query.go:28, aggregate.go:190); `StopIsCarriedOut` shows that a stop does not
depend on its deadline. Deadlocks are looked for in `readers`.

## 4. Proofs

Proved for every value of the constants are every invariant and every action property
that the runs check of `RiggingCase`, of `StoredCase` and of `RiggingService`, the
refinement of `CaseLedger`, every safety property of `AuditReaders`, and the properties
of `LoadGraph` and `CascadeWalk`: of what the passing runs check, only liveness is left.
The order of rows in `StoredCase` is the one place with a hypothesis: writes a second
or more apart.

### The aggregate

Assumed are `RuleNumbersAssumption` and `CaseAssumption` (any set of ids, any inputs,
any limits, any bound on the version):

| Theorem | Property | Argument |
|---|---|---|
| `TypeCorrect` | `TypeOK` | `TypeInv` is inductive: `TypeOK` together with `ResultsByCue` |
| `InputsStayWellFormed` | `WellFormed` | inductive by itself: only `ApplyChangeSet` touches the inputs, and preflight judges the final case |
| `ValidatedInputsKeepPassing` | `ValidatedInputsPass` | inductive over `TypeInv`: validation establishes it, editing needs another status |
| `OneRehearsalAtATime` | `OnePendingRun` | inductive over `TypeInv` |
| `RemediationAlwaysHasWork` | `RemediatingHasWork` | strengthened by `RetestPossible` |
| `FindingsFollowTheLatestBatch` | `OpenFindingsMatchLatestBatch` | inductive over `TypeInv` and the theorem before |
| `RevisionsAreCounts` | `RevisionsCountChanges` | a fact about one step, from `TypeInv` |
| `OperationsDoAsExpected` | `OperationsAreOutcomes` | one step, from `TypeInv`, with `OutcomesOfOpenCase` and `StaleMarksAfter` for the two sides |
| `StaleMarkIsExact` | `LatestBatchTracksInputs` | strengthened by `BatchIsOfThePast`; assumes disjoint ids |
| `IssueStatesFollowTheDiff` | `DiffMatchesIssueStates` | inductive: only the newest batch is compared anew |
| `HistoryOnlyGrows` | `HistoryIsKept` | one step, from `TypeInv` and `FreshBatchIsUnchanged` |
| `ReviewNeedsNothingElse` | `ReviewWaitsForBlockersOnly` | strengthened by `ReviewIsPrepared` |
| `BlockedRunsHaveFindings` | `BlockedRunsLeaveFindings` | strengthened to `RunsMatchFindings` |
| `OneRetestCloses` | `ClosedByOneRetest` | strengthened to `RetestsMatchFindings`, over `RunsMatchFindings` |

`TypeOK` alone is not inductive: completing a run makes findings of the results on
record, and that these belong to the cue they are recorded under (`ResultsByCue`)
is needed to know that the finding refers to parts of the case. `RemediatingHasWork`
needs `RetestPossible`: every rehearsal finding names its cue, which stays in the
case since nothing is ever removed. `FindingsFollowTheLatestBatch` depends on the one
before it: a retest can close only findings of rehearsals, because under remediation
no other blocking finding is open.

The stale mark names what changed since the batch. That needs two things beyond it: the
baseline of the batch is nowhere newer than the case (`BatchIsOfThePast`), so that a
changed revision never comes back to the one noted; and an id is not both a load
point and a cue, because `RevisionOf` looks among the points first and the baseline
lets the cue win. With shared ids the property is not claimed.

"Closed by exactly one attempt" counts attempts per finding, so two findings must not
be confused (`KeysAreUnique`), attempts must be about findings on record
(`AttemptsHaveFindings`), and a run that is completed later must not bring in a finding
that an old attempt already names (`OriginsAreRuns`). The review needs to know that
no status past DRAFT is reached without load points and cues, nor one past the
rehearsal without a finished run (`ReviewIsPrepared`).

`OperationsDoAsExpected` joins these theorems to those about the write service: what is
proved there of every domain that leaves only rows of `Outcomes` holds with this one.

The rules enter these proofs through one lemma, `EvaluateIsHits`, and through what a
passing evaluation requires, so the theorems hold for whatever the rules compute.

### The tables

Assumed is, besides `CaseAssumption`, a clock that moves (`StoredAssumption`).

| Theorem | Property | Holds |
|---|---|---|
| `SavesLoseNothing` | `TablesMatch` | for any clock |
| `SavedCasesComeBack` | `SavedCaseIsTheCase` | if `Ticks >= 100` |
| `NewestBatchesAreListed` | `ListStartsWithTheLatest` | if `Ticks >= 100` |
| `ProgressIsRight` | `ProgressIsWhatIsAskedFor` | if `Ticks >= 100` |

`TablesMatch` says of every table that its rows are the part of the case they stand
for. It is inductive once rows have keys of their own (`RowsDiffer`): a batch has one
issue per identity and the case one finding per key, because the severity of an issue
follows from its rule code. Then comes a fact about one step, `StepGrows`: an
operation only appends to batches, runs and attempts and changes nothing of a finding
but its status, nothing of a batch but the mark and the changed refs; those are the
columns written again. The step forms of `RunsMatchFindings` (no two runs bring in one
finding) are taken over from `CaseHistory_proofs`.

What comes back also depends on the order of rows. `Ordered` gives a row the rank that
counts the rows before it, so `AscendingInOrder` needs only that the times of the rows
ascend with their numbers, as text: `SecondsSort` shows that of times a second apart,
and no less will do, as `latest_by_clock` shows. From there on the load is the case
(`CaseComesBack`), the list is the batches backwards (`ListedBackwards`), and the
progress that a view reports is about the last run of the case, the pending one by
`OnePendingRun`.

### The readers

Assumed is `ReadersAssumption`: nobody is reader and writer, `None` is no client, there
is room for an event, and the number of faults is a number. The sets of clients, the
length of the log and the number of damages are any.

| Theorem | Property | Argument |
|---|---|---|
| `NothingLeaks` | `TypeOK` | follows from `Safe` |
| `AllVerifiersAgree`, `AllBreakpointsAgree` | `VerifiersAgree`, `BreakpointsAgree` | of any sequence of events with numbers |
| `AllReadersAgree` | `ReadersAgree` | from `Safe`: a valid log has one release |
| `NoFalseAlarms` | `NoFalseAlarm` | strengthened by what a call has seen |
| `LookupsAreTrustworthy` | `LookupIsTrustworthy` | from `Safe`, along the digests |

`AuditChain_proofs` is about loops and not about states. An event is `Good` when its
number, its previous digest and its digest fit the one before; each of the three bodies
accepts exactly the good events; so all loops stop at the first event after their
start that is not good. This is an induction along the log, which the prover cannot be
given: instead the first position where the function `run` is not as said is taken
(`LeastNumber`), and its predecessor shows that it is.

`Safe` is the inductive invariant (`AlwaysSafe`), about tables (`TablesInv`) and calls
(`CallsInv`). Of the tables it says that a row has lost its digest or has that of an
event that was written, with its number or one no valid log has (`Traced`), and that
the only release ever written is the last event of the sealed log, anchored to the
certificate (`ReleaseWritten`). Of the calls it says that each is at a position of the
program of its client and that exactly the call which holds rows or a transaction has
the connection: that is why nothing leaks, whoever goes away when.

A false alarm would take tables that are clean and a reader whose queries fall before
and after a commit. `NoFalseAlarms` therefore adds to `Safe` what a call in the middle
of its program has seen: a certificate that is the current one, or none while the log
it reads later may already have one. The order of the queries, case before log, is what
makes this inductive.

A lookup is argued backwards: a digest is the tuple of what was hashed, so two equal
digests have equal events under them and equal digests before these; from the release,
which is anchored to the certificate, equality is carried to the first event.

### The rules

Assumed are `RuleNumbersAssumption`; for graphs `GraphAssumption`: loads, factors,
capacities and the limit are numbers, and no load point has the id that stands for none;
and for the algorithms `SortedAssumption`: a sorted list names each id of its set once.

| Theorem | Property | What it says |
|---|---|---|
| `MarginIsExactlyRounded` | | the margin in two parts with two roundings is 15% rounded down once, for every load and capacity |
| `DynamicLoadIsRoundedUp` | | a dynamic load that is not refused is computed within the width, and is the true load rounded up to the next kilogram |
| `MarginsAreExact` | `MarginIsExact` | the first, in every graph |
| `DynamicLoadsAreExact` | `DynamicLoadIsExact` | the second, in every graph, and nothing is refused that could be computed (`ComputableLoadFits`) |
| `MoreLoadIsNoWayOut` | `MoreLoadNeverHelps` | raising one load never turns a refused case into an accepted one |
| `WalksAreExact` | `WalkFindsTheCycles` | the walks report exactly the load points on a cycle |
| `RecursionIsTheSubtreeSum` | `CascadeIsTheSubtreeSum` | the recursion gives the load of the whole subtree, or no number |
| `VenueCountsOnce` | `VenueCountsEachPointOnce` | the loop over the roots counts each load point below a root once |

So a margin warning is never false; it is missing only where less than a kilogram is
missing to the 15% (a capacity of 10 with one left gives none).

More load could help if a sum that passes the width were dropped with its findings.
The proof compares two graphs of the same shape, one `Heavier` than the other: ways
up, cycles and subtrees are the same (`SameShape`), every own load that is still
computable is at least as large (`OwnLoadGrows`), and so is every sum over a finite
set of points (`SumsGrow`; sums are unrolled along an enumeration of the set,
`PartialSums`). So a cascade that exceeded a capacity still does, or has stopped being
computable, and then it is reported as an overflow itself or the point that causes it
is (`HeavierIsRefused`).

The last three compare what the code computes with what `LoadRules` says, for graphs of
any size. The prover cannot be given an induction over a recursive function; two
arguments take its place. That a recursive function exists is shown by giving its values
outright: the results that `LoadRules` defines solve the recursion of `Cascades`, as the
first ways of every length make up the one of `Way`. That nothing else solves it is shown
by looking at a smallest place where a solution would differ (`LeastNumber`).

A walk that does not end has come back after as many steps as there are load points
(`WayComesBack`, by the pigeonhole principle), so a bounded climb meets what the whole way
meets (`ClimbIsTheWay`), and being on a cycle means that the way leads back
(`OnACycle`). What a walk reports since the first id met again is on a cycle
(`WalkedLieOnCycles`); a load point on a cycle is itself the first that its own walk meets
again, because a shorter return elsewhere would shorten the one to it
(`CyclesAreWalked`).

For the recursion, a subtree is its load point and the subtrees of those connected to it
(`SubtreeIsOfChildren`). Off cycles these share nothing (`SubtreesStayApart`), do not
hold the load point itself (`NotBelowItself`) and are smaller (`SubtreesShrink`), which is
what the smallest place is taken by. So their loads add up (`LoadsAdd`), and the loop,
which refuses a sum before it would pass the width, gives the sum exactly when it fits
(`SumsOfALoop`): partial sums of loads only grow. The loop over the roots is the same
loop, as two roots share nothing either.

### The service

Assumed is `ServiceAssumption`: the scope of creations is not the id of a case, the
operations are those of the service, the bounds are numbers. Cases, keys, bodies and
readers are any sets.

| Theorem | Property | Argument |
|---|---|---|
| `ServiceTypeCorrect` | `TypeOK` | follows from `ServiceInv` |
| `SerialsAreCounted` | `SerialsHaveNoGap` | part of `ServiceInv` |
| `AnswersStayOnRecord` | `AnswersAreRecorded` | inductive over `ServiceInv` |
| `ReleasesAreFinal` | `ReleaseIsFinal` | what a commit does, from `ServiceInv` |
| `ServiceImplementsLedger` | `LedgerSpec` | a commit is `Open`, `Write` or a stutter of `CaseLedger`, anything else a stutter |
| `EachVersionHasItsRequest` | `OneRequestPerVersion` | strengthened to `VersionsHaveMakers` |
| `CertificatesStayTrue` | `CertificatesHold` | strengthened to `Certified` |
| `TornViewsAreRefused` | `NoWriteFromTornView` | from `SeenInOrder`: versions are seen in order |
| `LogTellsWhatHappened` | `LogMatchesLedger` | strengthened to `LogInv` |

An open transaction is the difficulty: its properties would have to be stated of a
database nobody sees yet. But while it is open the committed database does not change,
since there is one connection, so it can be described by the request and the database
it began with: it is a replay, a conflict, a creation or a write (`Legal`). Together
with the types, with the fact that records, views and releases are about cases that exist
(`Grounded`) and with the serials, from whose maximum the next one is computed, that is
the inductive `ServiceInv`. `CommitCases` then says what a commit can do to the
database, and every theorem is an argument about these few cases.

`VersionsHaveMakers` adds that no record is about a version its case has not reached:
only then is the request that makes a version the first to do so. `Certified` adds
that a case which is not released has no release event. `LogInv` adds that no event is
newer than its case, that a case not yet created has no batches, and that there are
finitely many records, as the property compares counts.

### Model-checked only

* `EveryCallEnds` and `StopIsCarriedOut`: liveness under fairness is out of the
  prover's reach.
* The seven runs of section 5 refute what they check, so there is nothing to prove.

## 5. Findings

Seven expectations stated by the documentation, a comment or a message are not met;
each has a run that ends in a counterexample.

* `ready_with_blocker`: after remediation is left by a new validation, a second
  rehearsal passes and the case is READY_FOR_REVIEW with a blocking finding of the
  first rehearsal still open. Nothing leads back: it can never be released.
* `validated_stuck`: a case that validates can exceed the limits of a rehearsal;
  in VALIDATED nothing can be edited any more.
* `retest_of_point`: a peak finding is closed by a "retest" of a load point, which
  is compared with no capacity.
* `unrehearsed_release`: a cue added under remediation is released unrehearsed.
* `dangling_equipment`: editing a load point leaves cues with equipment that does
  not exist.
* `torn_view`: a view read while a write commits mixes two versions. `releases`
  shows that such a view always carries the older version, so that no write based
  on it is accepted.
* `latest_by_clock`: times are stored as text without the zeros at the end of their
  fraction, so within a second `..01Z` sorts behind `..01.5Z`. A failed batch of a
  whole second, or of a fraction with fewer digits, is read back behind the passing
  one that came after it; its stale mark then stops the rehearsal of a case that can
  do nothing else.

## 6. Plan and what is not modelled

The modules were written in the order rules, change sets, aggregate, proofs about
the aggregate, service, audit chain and readers, tables, proofs about the service, so
that the core of the program comes first; proofs about readers, tables and rules came
last, among them those about the algorithms of the rules and the theorem that joins
aggregate and service. What is left to the model checker is liveness.

Not modelled: HTTP decoding, routing and error codes, the page, configuration and
the self-check (no state of their own); sorting inside the frozen snapshot;
wording, JSON and SQL encodings other than that of times; SHA-256, taken as
injective; two instances of the program on one database file.
