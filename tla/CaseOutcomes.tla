---------------------------- MODULE CaseOutcomes ----------------------------
(***************************************************************************)
(* What an operation of the domain may do to a case, as far as the service *)
(* can tell: the rows [version, released, batches] it may leave, batches   *)
(* being the stale marks.  RiggingService builds its transactions on this, *)
(* and RiggingCase is shown to do nothing else.                            *)
(***************************************************************************)
EXTENDS Naturals, Sequences

CONSTANT MaxVersion   \* bound on the version of a case

Edits == {"LOAD_POINT_UPSERTED", "CUE_UPSERTED", "CHANGE_SET_APPLIED"}
RehearsalSteps == {"REHEARSAL_STARTED", "REHEARSAL_CUE_SAVED", "REHEARSAL_COMPLETED"}
AllOperations ==
  Edits \cup RehearsalSteps \cup {"CASE_VALIDATED", "FINDING_REMEDIATED", "CASE_RELEASED"}

MarkedStale(batches) ==
  IF batches = <<>> THEN batches ELSE [batches EXCEPT ![Len(batches)] = TRUE]

Bumped(row) == [row EXCEPT !.version = @ + 1]

Outcomes(op, row) ==
  IF row.released \/ row.version >= MaxVersion THEN {}
  ELSE CASE op \in Edits -> {row, [Bumped(row) EXCEPT !.batches = MarkedStale(@)]}
         [] op = "CASE_VALIDATED" -> {[Bumped(row) EXCEPT !.batches = Append(@, FALSE)]}
         [] op = "CASE_RELEASED" -> {[Bumped(row) EXCEPT !.released = TRUE]}
         [] OTHER -> {Bumped(row)}
=============================================================================
