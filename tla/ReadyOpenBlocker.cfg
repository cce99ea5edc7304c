\* A second rehearsal passes while a blocking finding of the first is open.
SPECIFICATION Spec
CONSTANTS
  NoParent = "none"
  Blank = ""
  Permille = 1000
  MaxInt = 2000000000
  MaxChangeSetItems = 2
  MaxLoadKg = 100
  MaxCueDuration = 3
  MaxCues = 2
  MaxRunDuration = 3
  PointIds = {"p1", "p2"}
  CueIds = {"q1", "q2"}
  Equipment = {"e1", "e2", "e3"}
  Mutexes = {"m"}
  Texts <- MCTexts
  VenueLimit = 100
  ChangeSetInputs <- CaseChanges
  CueResults <- CaseResults
  LegacyInputs <- CaseLegacy
  NoResult = NoResult
  MaxVersion = 10
INVARIANT
  ReadyHasNoOpenBlocker
CHECK_DEADLOCK FALSE
