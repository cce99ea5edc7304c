\* Four writes in a second: the first time of each second has no fraction.
SPECIFICATION StoredSpec
CONSTANTS
  NoParent = "none"
  Blank = ""
  Permille = 1000
  MaxInt = 2000000000
  MaxChangeSetItems = 2
  MaxLoadKg = 100
  MaxCueDuration = 3
  MaxCues = 2
  MaxRunDuration = 3
  PointIds = {"p1", "p2"}
  CueIds = {"q1", "q2"}
  Equipment = {"e1", "e2", "e3"}
  Mutexes = {"m"}
  Texts <- MCTexts
  VenueLimit = 100
  ChangeSetInputs <- CaseChanges
  CueResults <- CaseResults
  LegacyInputs <- CaseLegacy
  NoResult = NoResult
  MaxVersion = 8
  Ticks = 25
INVARIANT
  ValidatedLatestIsFresh
CHECK_DEADLOCK FALSE
