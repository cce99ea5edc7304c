\* The life of one case with edits, three or more validations, several runs, and
\* its rows in the store.
\* Writes are more than a second apart; their times have no, one or two decimals.
SPECIFICATION StoredSpec
CONSTANTS
  NoParent = "none"
  Blank = ""
  Permille = 1000
  MaxInt = 2000000000
  MaxChangeSetItems = 2
  MaxLoadKg = 100
  MaxCueDuration = 3
  MaxCues = 2
  MaxRunDuration = 3
  PointIds = {"p1", "p2"}
  CueIds = {"q1", "q2"}
  Equipment = {"e1", "e2", "e3"}
  Mutexes = {"m"}
  Texts <- MCTexts
  VenueLimit = 100
  ChangeSetInputs <- CaseChanges
  CueResults <- CaseResults
  LegacyInputs <- CaseLegacy
  NoResult = NoResult
  MaxVersion = 10
  Ticks = 125
INVARIANTS
  TypeOK
  WellFormed
  LatestBatchTracksInputs
  ValidatedInputsPass
  OpenFindingsMatchLatestBatch
  RemediatingHasWork
  OnePendingRun
  BlockedRunsLeaveFindings
  ClosedByOneRetest
  ReviewWaitsForBlockersOnly
  DiffMatchesIssueStates
  SavedCaseIsTheCase
  ListStartsWithTheLatest
  ProgressIsWhatIsAskedFor
PROPERTIES
  HistoryIsKept
  RevisionsCountChanges
  OperationsAreOutcomes
CHECK_DEADLOCK FALSE
