\* Writes, retries, conflicts and lost answers on one case.
SPECIFICATION Spec
CONSTANTS
  CaseIds = {c1}
  Keys = {k1, k2, k3}
  Operations = {"CHANGE_SET_APPLIED", "CASE_VALIDATED", "FINDING_REMEDIATED", "CASE_RELEASED"}
  Bodies = {"b1"}
  Readers = {}
  Create = "create"
  None = None
  MaxVersion = 4
  MaxEvents = 7
SYMMETRY MCSymmetry
INVARIANTS
  TypeOK
  AnswersAreRecorded
  OneRequestPerVersion
  LogMatchesLedger
  CertificatesHold
PROPERTIES
  ReleaseIsFinal
  LedgerSpec
CHECK_DEADLOCK FALSE
