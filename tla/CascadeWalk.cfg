\* The graph algorithms of the rules on all small graphs, with an integer width
\* that the sums of two or three points pass.
SPECIFICATION Spec
CONSTANTS
  NoParent = "none"
  Blank = ""
  Permille = 2
  MaxInt = 20
  Sorted <- IdsInOrder
  PointIds = {"p1", "p2", "p3"}
  Parents = {"none", "p1", "p2", "p3", "ghost"}
  Statics = {3, 6}
  Factors = {2, 6}
  Capacities = {8, 20}
  VenueLimit = 12
INVARIANTS
  WalkFindsTheCycles
  CascadeIsTheSubtreeSum
  VenueCountsEachPointOnce
  MarginIsExact
  DynamicLoadIsExact
PROPERTIES
  MoreLoadNeverHelps
CHECK_DEADLOCK FALSE
