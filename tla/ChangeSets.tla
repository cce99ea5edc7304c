----------------------------- MODULE ChangeSets -----------------------------
(***************************************************************************)
(* The editing operations of internal/domain/changeset.go as operators.  A *)
(* change set is [points, cues], two sets of items [id, value]; a request  *)
(* that saves a single load point or cue is a change set of one item.  The *)
(* values are those of LoadRules; a revision is kept beside each value.    *)
(* Preflight looks at the case as it would be afterwards, and one refused  *)
(* item refuses the whole set: only the verdict is kept, not the list of   *)
(* messages.                                                               *)
(***************************************************************************)
EXTENDS LoadRules

CONSTANTS
  MaxChangeSetItems,   \* 250 in the code
  MaxLoadKg,           \* 10^12 in the code
  MaxCueDuration       \* 60 minutes in the code

-----------------------------------------------------------------------------
(* The case after the change set.                                          *)

Ids(items) == {i.id : i \in items}

\* The values of a case once the items are in.
Merge(values, items) ==
  [id \in DOMAIN values \cup Ids(items) |->
     IF id \in Ids(items) THEN (CHOOSE i \in items : i.id = id).value ELSE values[id]]

\* Variant: a resent item counts even if it is equal to what is stored.
ChangedOrResent(values, items) == Ids(items)

\* The items that are new or differ from what is stored: only these count.
Changed(values, items) ==
  {id \in Ids(items) : id \notin DOMAIN values \/ values[id] # Merge(values, items)[id]}

\* Variant: the whole case is revised with any of its items.
RevisedTogether(revisions, changed) ==
  [id \in DOMAIN revisions |-> IF changed # {} THEN revisions[id] + 1 ELSE revisions[id]]

\* A new item has revision 1, a changed one the next, an equal one keeps its
\* own.  What is not there has revision 0.
Revised(revisions, changed) ==
  [id \in DOMAIN revisions |-> IF id \in changed THEN revisions[id] + 1 ELSE revisions[id]]

-----------------------------------------------------------------------------
(* Preflight.                                                              *)

PointInputOK(id, p) ==
  /\ id # Blank
  /\ p.equipment # Blank
  /\ p.capacity > 0 /\ p.capacity <= MaxLoadKg
  /\ p.static >= 0 /\ p.static <= MaxLoadKg
  /\ p.factor >= Permille /\ p.factor <= 3 * Permille

CueInputOK(id, q) ==
  /\ id # Blank
  /\ q.sequence > 0
  /\ q.action # Blank
  /\ q.duration > 0 /\ q.duration <= MaxCueDuration
  /\ q.equipment # {}

EquipmentOf(points) == {points[id].equipment : id \in DOMAIN points}

UniqueEquipment(points) ==
  \A a, b \in DOMAIN points : points[a].equipment = points[b].equipment => a = b

UniqueSequences(cues) ==
  \A a, b \in DOMAIN cues : cues[a].sequence = cues[b].sequence => a = b

Forest(points) ==
  /\ Orphans(points) = {}
  /\ ConnectionCycleIDs(points) = {}

OncePerId(items) == \A i, j \in items : i.id = j.id => i = j

\* Variant: only the items sent are compared with each other.
PreflightOfItems(points, cues, changes) ==
  LET sentPoints == Merge(<<>>, changes.points)
  IN  /\ Cardinality(changes.points) + Cardinality(changes.cues) \in 1..MaxChangeSetItems
      /\ OncePerId(changes.points)
      /\ OncePerId(changes.cues)
      /\ UniqueEquipment(sentPoints)
      /\ UniqueSequences(Merge(<<>>, changes.cues))

\* The equipment of a cue is looked up for the cues of the change set only.
Preflight(points, cues, changes) ==
  LET newPoints == Merge(points, changes.points)
      newCues == Merge(cues, changes.cues)
  IN  /\ Cardinality(changes.points) + Cardinality(changes.cues) \in 1..MaxChangeSetItems
      /\ OncePerId(changes.points)
      /\ OncePerId(changes.cues)
      /\ \A i \in changes.points : PointInputOK(i.id, i.value)
      /\ UniqueEquipment(newPoints)
      /\ Forest(newPoints)
      /\ \A i \in changes.cues : /\ CueInputOK(i.id, i.value)
                                 /\ i.value.equipment \subseteq EquipmentOf(newPoints)
      /\ UniqueSequences(newCues)
=============================================================================
