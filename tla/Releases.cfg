\* Two cases that are released in either order, and a reader.
SPECIFICATION Spec
CONSTANTS
  CaseIds = {c1, c2}
  Keys = {k1, k2}
  Operations = {"REHEARSAL_STARTED", "CASE_RELEASED"}
  Bodies = {"b1"}
  Readers = {rd}
  Create = "create"
  None = None
  MaxVersion = 3
  MaxEvents = 5
SYMMETRY MCSymmetry
INVARIANTS
  SerialsHaveNoGap
  NoWriteFromTornView
CHECK_DEADLOCK FALSE
