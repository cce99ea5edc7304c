------------------------------ MODULE LoadRules ------------------------------
(***************************************************************************)
(* The deterministic safety rules of internal/domain/rules.go as operators *)
(* on the inputs of a case.  The load points are a function from ids to    *)
(*   [equipment, parent, capacity, static, factor]                         *)
(* and the cues a function from ids to                                     *)
(*   [sequence, action, equipment, mutex, duration].                       *)
(* A rule hit is a record [code, severity, refs].  Evaluate sorts its hits *)
(* and drops those with the identity (code, refs) of an earlier one: a set *)
(* does both.  The wording of a hit is left out.                           *)
(***************************************************************************)
EXTENDS Integers, FiniteSets, Functions

CONSTANTS
  NoParent,   \* a nil parentPointId: the point is the root of a tree
  Blank,      \* a text that is empty once its spaces are trimmed
  Permille,   \* the scale of the dynamic factor, 1000 in the code
  MaxInt      \* math.MaxInt64

ASSUME RuleNumbersAssumption ==
  /\ Permille \in Nat \ {0}
  /\ MaxInt \in Nat
  /\ MaxInt >= Permille

BLOCKING == "BLOCKING"
WARNING == "WARNING"
Severities == {BLOCKING, WARNING}

RuleCodes ==
  {"ORPHAN_PARENT", "CONNECTION_CYCLE", "UNROOTED_POINT", "CALCULATION_OVERFLOW",
   "POINT_OWN_CAPACITY", "POINT_OWN_MARGIN", "POINT_CAPACITY", "POINT_MARGIN",
   "VENUE_CAPACITY", "MUTEX_ACTION", "LOAD_REQUIRED", "CUE_REQUIRED"}

Hit(code, severity, refs) == [code |-> code, severity |-> severity, refs |-> refs]

-----------------------------------------------------------------------------
(* The connection forest.                                                  *)

\* Every id met on the way up from id, id and an unknown last parent included.
Climb(points, id) ==
  LET up[n \in 0..Cardinality(DOMAIN points)] ==
        IF n = 0 THEN {id}
        ELSE up[n-1] \cup {points[x].parent : x \in {y \in up[n-1] \cap DOMAIN points :
                                                        points[y].parent # NoParent}}
  IN  up[Cardinality(DOMAIN points)]

\* connectionCycleIDs: the points met again on the way up from their parent.
ConnectionCycleIDs(points) ==
  {id \in DOMAIN points : /\ points[id].parent # NoParent
                          /\ id \in Climb(points, points[id].parent)}

Orphans(points) ==
  {id \in DOMAIN points : points[id].parent \notin DOMAIN points \cup {NoParent}}

Roots(points) == {id \in DOMAIN points : points[id].parent = NoParent}

\* A point together with everything that hangs below it.
Subtree(points, id) == {d \in DOMAIN points : id \in Climb(points, d)}

-----------------------------------------------------------------------------
(* Loads in 64 bits: a sum or product that would pass MaxInt is refused.   *)

\* Variant: the bound forgets the term that rounds up.
DynamicLoadFitsUnrounded(static, factor) ==
  /\ static >= 0
  /\ factor >= 0
  /\ factor # 0 => static <= MaxInt \div factor

DynamicLoadFits(static, factor) ==
  /\ static >= 0
  /\ factor >= 0
  /\ factor # 0 => static <= (MaxInt - (Permille - 1)) \div factor

\* Rounded up to whole kilograms.
DynamicLoad(static, factor) == (static * factor + Permille - 1) \div Permille

OwnFits(p) == DynamicLoadFits(p.static, p.factor)
Own(p) == DynamicLoad(p.static, p.factor)

\* Variant: the part of the capacity below a hundred is rounded to nothing.
LowMarginOfHundreds(load, capacity) ==
  /\ capacity > 0
  /\ load >= 0
  /\ load <= capacity
  /\ capacity - load < (capacity \div 100) * 15 + ((capacity % 100) \div 100) * 15

\* Less than 15% of the capacity is left; the 15% are rounded down.
LowMargin(load, capacity) ==
  /\ capacity > 0
  /\ load >= 0
  /\ load <= capacity
  /\ capacity - load < (capacity \div 100) * 15 + ((capacity % 100) * 15) \div 100

StructurallyInvalid(points) ==
  Orphans(points) \cup ConnectionCycleIDs(points) \cup
    {id \in DOMAIN points : ~OwnFits(points[id])}

LoadOf(points, ids) == SumFunctionOnSet([id \in ids |-> Own(points[id])], ids)

CascadeTotal(points, id) == LoadOf(points, Subtree(points, id))

CascadeFits(points, id) ==
  /\ Subtree(points, id) \cap StructurallyInvalid(points) = {}
  /\ CascadeTotal(points, id) <= MaxInt

\* UNION over roots: each point hangs below at most one of them.
Rooted(points) == UNION {Subtree(points, r) : r \in Roots(points)}

VenueFits(points) ==
  /\ \A r \in Roots(points) : CascadeFits(points, r)
  /\ LoadOf(points, Rooted(points)) <= MaxInt

-----------------------------------------------------------------------------
(* The rules.                                                              *)

StructureHits(points) ==
  {Hit("ORPHAN_PARENT", BLOCKING, {id, points[id].parent}) : id \in Orphans(points)}
  \cup {Hit("CONNECTION_CYCLE", BLOCKING, {id}) : id \in ConnectionCycleIDs(points)}
UnrootedHits(points) ==
  {Hit("UNROOTED_POINT", BLOCKING, {id}) :
     id \in {x \in DOMAIN points : Climb(points, x) \cap Roots(points) = {}}}

\* One load against the capacity of a point: too much, or too close to it.
CapacityHits(over, close, p, load, refs) ==
  (IF load > p.capacity THEN {Hit(over, BLOCKING, refs)} ELSE {})
  \cup (IF LowMargin(load, p.capacity) THEN {Hit(close, WARNING, refs)} ELSE {})

OwnHits(points, id) ==
  IF OwnFits(points[id])
  THEN CapacityHits("POINT_OWN_CAPACITY", "POINT_OWN_MARGIN", points[id], Own(points[id]), {id})
  ELSE {Hit("CALCULATION_OVERFLOW", BLOCKING, {id})}

CascadeHits(points, id) ==
  IF CascadeFits(points, id)
  THEN CapacityHits("POINT_CAPACITY", "POINT_MARGIN", points[id],
                    CascadeTotal(points, id), Subtree(points, id))
  ELSE IF id \in StructurallyInvalid(points) THEN {}
  ELSE {Hit("CALCULATION_OVERFLOW", BLOCKING, {id})}

LoadHits(points) == UNION {OwnHits(points, id) \cup CascadeHits(points, id) : id \in DOMAIN points}

\* Variant: a load that cannot be computed is not compared with the limit.
VenueHitsIfComputable(points, venueLimit) ==
  IF VenueFits(points) /\ LoadOf(points, Rooted(points)) > venueLimit
  THEN {Hit("VENUE_CAPACITY", BLOCKING, {"venue"} \cup Rooted(points))}
  ELSE {}

VenueHits(points, venueLimit) ==
  IF ~VenueFits(points) THEN {Hit("CALCULATION_OVERFLOW", BLOCKING, {"venue"})}
  ELSE IF LoadOf(points, Rooted(points)) > venueLimit
  THEN {Hit("VENUE_CAPACITY", BLOCKING, {"venue"} \cup Rooted(points))}
  ELSE {}

MutexPairs(cues) ==
  {pair \in SUBSET DOMAIN cues :
     \E a, b \in DOMAIN cues : /\ pair = {a, b}
                              /\ a # b
                              /\ cues[a].mutex # Blank
                              /\ cues[a].mutex = cues[b].mutex
                              /\ cues[a].sequence = cues[b].sequence}

MutexHits(cues) == {Hit("MUTEX_ACTION", BLOCKING, pair) : pair \in MutexPairs(cues)}

\* Variant: a case without cues passes.
LoadsRequiredHits(points, cues) ==
  IF DOMAIN points = {} THEN {Hit("LOAD_REQUIRED", BLOCKING, {"loadPoints"})} ELSE {}

RequiredHits(points, cues) ==
  (IF DOMAIN points = {} THEN {Hit("LOAD_REQUIRED", BLOCKING, {"loadPoints"})} ELSE {})
  \cup (IF DOMAIN cues = {} THEN {Hit("CUE_REQUIRED", BLOCKING, {"cues"})} ELSE {})

Evaluate(points, cues, venueLimit) ==
  StructureHits(points)
  \cup UnrootedHits(points)
  \cup LoadHits(points)
  \cup VenueHits(points, venueLimit)
  \cup MutexHits(cues)
  \cup RequiredHits(points, cues)

Blockers(hits) == {h \in hits : h.severity = BLOCKING}
=============================================================================
