\* A write commits between two queries of one view.
SPECIFICATION Spec
CONSTANTS
  CaseIds = {c1}
  Keys = {k1}
  Operations = {"REHEARSAL_STARTED", "CASE_RELEASED"}
  Bodies = {"b1"}
  Readers = {rd}
  Create = "create"
  None = None
  MaxVersion = 3
  MaxEvents = 5
SYMMETRY MCSymmetry
INVARIANT
  ViewShowsOneVersion
CHECK_DEADLOCK FALSE
