----------------------------- MODULE StoredCase -----------------------------
(***************************************************************************)
(* A case and its rows in the store.  An operation works on a copy of the  *)
(* case that was put together from the tables (loadCase) and writes the    *)
(* whole copy back (saveAggregate): some tables are written anew, others   *)
(* get new rows only, or new values in some columns.  Batches, runs and    *)
(* attempts are read back in the order of their times as text.  A write    *)
(* has its own version, so the time it is made is a function of that.      *)
(***************************************************************************)
EXTENDS RiggingCase, SequencesExt

CONSTANT Ticks   \* hundredths of a second between two writes

ASSUME StoredAssumption == Ticks \in Nat \ {0}

VARIABLE tables   \* the rows of the case, by table and key

storedVars == <<vars, tables>>

Now == version * Ticks

-----------------------------------------------------------------------------
(* Times as text, from the seconds on: zeros at the end of the fraction    *)
(* are left out, and so is the point of an empty one.  'Z' follows, which  *)
(* sorts behind the point and behind every digit.                          *)

Z == 10

TimeText(time) ==
  LET fraction == time % 100
  IN  IF fraction = 0 THEN <<time \div 100, Z, Z>>
      ELSE IF fraction % 10 = 0 THEN <<time \div 100, fraction \div 10, Z>>
      ELSE <<time \div 100, fraction \div 10, fraction % 10>>

SortsBefore(s, t) ==
  \E i \in DOMAIN s : s[i] < t[i] /\ \A j \in 1..(i - 1) : s[j] = t[j]

\* The numbers ids in the order that Before gives them: the k-th one is the one
\* that k - 1 of them come before.
Ordered(ids, Before(_, _)) ==
  [k \in 1..Cardinality(ids) |->
     CHOOSE n \in ids : Cardinality({m \in ids : Before(m, n)}) = k - 1]

\* ORDER BY a time, id: the ids of the rows, a sequence of times, in that order.
InOrder(times) ==
  LET Before(m, n) == \/ SortsBefore(TimeText(times[m]), TimeText(times[n]))
                      \/ times[m] = times[n] /\ m < n
  IN  Ordered(DOMAIN times, Before)

-----------------------------------------------------------------------------
(* saveAggregate.                                                          *)

\* INSERT ... ON CONFLICT: Conflict says what becomes of a row that is there.
Insert(rows, new, Conflict(_, _)) ==
  [id \in DOMAIN rows \cup DOMAIN new |->
     IF id \notin DOMAIN new THEN rows[id]
     ELSE IF id \notin DOMAIN rows THEN new[id]
     ELSE Conflict(rows[id], new[id])]

Ignore(row, new) == row

UpdateFinding(row, new) == [row EXCEPT !.status = new.status]

\* Variant: the changed refs are written with the batch and never again.
UpdateStale(row, new) == [row EXCEPT !.stale = new.stale]

UpdateBatch(row, new) == [row EXCEPT !.stale = new.stale, !.changed = new.changed]

\* A new row gets the time of the write, one that is there keeps its own.
Stamped(rows, new) ==
  [id \in DOMAIN new |->
     [row |-> new[id], time |-> IF id \in DOMAIN rows THEN rows[id].time ELSE Now]]

RowsOf(value, revision) ==
  [id \in DOMAIN value |-> [value |-> value[id], revision |-> revision[id]]]

FindingRows(fs) == [k \in {Key(f) : f \in fs} |-> CHOOSE f \in fs : Key(f) = k]

BatchRows(bs) ==
  [n \in DOMAIN bs |->
     [version |-> bs[n].version, final |-> bs[n].final, stale |-> bs[n].stale,
      changed |-> bs[n].changed, time |-> IF n \in DOMAIN tables.batches THEN tables.batches[n].time ELSE Now]]

\* A baseline names the values that were there.
InputRows(bs) ==
  LET keys == {k \in (DOMAIN bs) \X (PointIds \cup CueIds) : bs[k[1]].baseline[k[2]] > 0}
  IN  [k \in keys |-> bs[k[1]].baseline[k[2]]]

IssueRows(bs) ==
  LET keys == UNION {{<<n, Identity(i)>> : i \in bs[n].issues} : n \in DOMAIN bs}
  IN  [k \in keys |-> CHOOSE i \in bs[k[1]].issues : Identity(i) = k[2]]

Save ==
  /\ tables.case.version = version
  /\ tables' =
       [case     |-> [status |-> status', version |-> version'],
        points   |-> RowsOf(points', pointRev'),
        cues     |-> RowsOf(cues', cueRev'),
        runs     |-> Stamped(tables.runs, runs'),
        findings |-> Insert(tables.findings, FindingRows(findings'), UpdateFinding),
        batches  |-> Insert(tables.batches, BatchRows(batches'), UpdateBatch),
        inputs   |-> Insert(tables.inputs, InputRows(batches'), Ignore),
        issues   |-> Insert(tables.issues, IssueRows(batches'), Ignore),
        attempts |-> Insert(tables.attempts, Stamped(tables.attempts, attempts'), Ignore)]

-----------------------------------------------------------------------------
(* loadCase.                                                               *)

Times(rows) == [id \in DOMAIN rows |-> rows[id].time]

ValuesIn(rows) == [id \in DOMAIN rows |-> rows[id].value]

RevisionsIn(rows, ids) == [id \in ids |-> IF id \in DOMAIN rows THEN rows[id].revision ELSE 0]

LoadStamped(rows) ==
  LET order == InOrder(Times(rows)) IN [i \in DOMAIN order |-> rows[order[i]].row]

LoadBatch(n) ==
  [version |-> tables.batches[n].version, final |-> tables.batches[n].final,
   stale |-> tables.batches[n].stale, changed |-> tables.batches[n].changed,
   baseline |-> [ref \in PointIds \cup CueIds |->
                   IF <<n, ref>> \in DOMAIN tables.inputs THEN tables.inputs[<<n, ref>>] ELSE 0],
   issues |-> {tables.issues[k] : k \in {j \in DOMAIN tables.issues : j[1] = n}}]

LoadBatches ==
  LET order == InOrder(Times(tables.batches)) IN [i \in DOMAIN order |-> LoadBatch(order[i])]

Load ==
  [status   |-> tables.case.status,
   version  |-> tables.case.version,
   points   |-> ValuesIn(tables.points),
   pointRev |-> RevisionsIn(tables.points, PointIds),
   cues     |-> ValuesIn(tables.cues),
   cueRev   |-> RevisionsIn(tables.cues, CueIds),
   findings |-> {tables.findings[k] : k \in DOMAIN tables.findings},
   batches  |-> LoadBatches,
   runs     |-> LoadStamped(tables.runs),
   attempts |-> LoadStamped(tables.attempts)]

-----------------------------------------------------------------------------
(* What a reader is shown of the loaded case.                              *)

NewestFirst(ids) ==
  LET Newer(m, n) == \/ tables.batches[m].time > tables.batches[n].time
                     \/ tables.batches[m].time = tables.batches[n].time /\ m > n
  IN  Ordered(Range(ids), Newer)

FirstOf(limit, s) == SubSeq(s, 1, Min({limit, Len(s)}))

LoadedIds == InOrder(Times(tables.batches))

\* Variant: the list is cut before it is sorted.
ListCutFirst(limit) ==
  LET ids == NewestFirst(FirstOf(limit, LoadedIds)) IN [i \in DOMAIN ids |-> LoadBatch(ids[i])]

ListValidationBatches(limit) ==
  LET ids == FirstOf(limit, NewestFirst(LoadedIds)) IN [i \in DOMAIN ids |-> LoadBatch(ids[i])]

ProgressOf(n) ==
  LET run == Load.runs[n]
  IN  IF run.outcome = "PENDING"
      THEN {[run |-> n, recorded |-> Recorded(run.results),
             pending |-> DOMAIN Load.cues \ Recorded(run.results)]}
      ELSE {}

\* Variant: the run that was started first is looked at.
ProgressOfFirst == IF Load.runs = <<>> THEN {} ELSE ProgressOf(1)

\* Of the last run, if it is pending.
RehearsalProgress == IF Load.runs = <<>> THEN {} ELSE ProgressOf(Len(Load.runs))

-----------------------------------------------------------------------------
NoRows == <<>>

StoredInit ==
  /\ Init
  /\ tables = [case |-> [status |-> "DRAFT", version |-> 1], points |-> NoRows, cues |-> NoRows,
               runs |-> NoRows, findings |-> NoRows, batches |-> NoRows, inputs |-> NoRows,
               issues |-> NoRows, attempts |-> NoRows]

StoredNext ==
  \/ \E changes \in ChangeSetInputs : ApplyChangeSet(changes) /\ Save
  \/ RunValidation /\ Save
  \/ StartRehearsal /\ Save
  \/ \E n \in DOMAIN runs, r \in CueResults : SaveCueResult(n, r) /\ Save
  \/ \E n \in DOMAIN runs, legacy \in LegacyInputs : CompleteRehearsal(n, legacy) /\ Save
  \/ \E f \in findings, input \in CueResults \cup {NoResult} : AttemptRemediation(f, input) /\ Save
  \/ Release /\ Save

StoredSpec == StoredInit /\ [][StoredNext]_storedVars
-----------------------------------------------------------------------------
(* Properties.                                                             *)

Aggregate ==
  [status |-> status, version |-> version, points |-> points, pointRev |-> pointRev,
   cues |-> cues, cueRev |-> cueRev, findings |-> findings, batches |-> batches,
   runs |-> runs, attempts |-> attempts]

\* The next operation finds the case that the last one left, although most
\* columns are never written again: no change of a stored finding, batch, run or
\* attempt gets lost (aggregate.go:290-324), and all come back in their order.
SavedCaseIsTheCase == Load = Aggregate

\* The list of batches, sorted by time (history.go:31), starts with the batch
\* that a rehearsal, an edit and the next validation take as the latest one, and
\* no limit leaves out a newer batch than one it shows.
ListStartsWithTheLatest ==
  \A limit \in 1..(Len(batches) + 1) :
    LET shown == ListValidationBatches(limit)
    IN  /\ Len(shown) = Min({limit, Len(batches)})
        /\ \A i \in DOMAIN shown : shown[i] = batches[Len(batches) + 1 - i]

\* What a view calls pending (query.go:36-50) is what a completion asks for
\* (rehearsal.go:91-122), after any corrections, edits and earlier runs: one result
\* for each of these cues, and none for others, completes the run.
ProgressIsWhatIsAskedFor ==
  /\ status = "REHEARSING" <=> RehearsalProgress # {}
  /\ \A progress \in RehearsalProgress :
       /\ progress.pending = {} => CompletionOK(progress.run, {})
       /\ \A legacy \in LegacyInputs :
            CompletionOK(progress.run, legacy) =>
              /\ {r.cue : r \in legacy} = progress.pending
              /\ \A q \in progress.pending : \E r \in legacy : {s \in legacy : s.cue = q} = {r}

\* README.md:33-34: rehearsal follows a passed validation; rehearsal.go:18-20
\* refuses it when the most recent batch is stale.  Nothing changes inputs after
\* a passed validation, so the batch of a validated case is never stale: it has to
\* be the one that comes out last when the case is loaded.
ValidatedLatestIsFresh ==
  tables.case.status = "VALIDATED" => ~Last(Load.batches).stale
=============================================================================
