----------------------------- MODULE CascadeWalk -----------------------------
(***************************************************************************)
(* The graph algorithms of Evaluate the way internal/domain computes them: *)
(* the walk to the parents with its path, the recursion over the children  *)
(* that gives up at the first failure or overflow, and the loop over the   *)
(* roots.  LoadRules says what they should find.                           *)
(***************************************************************************)
EXTENDS LoadGraph, FiniteSetsExt, Sequences

\* The ids of a set in the order of their text (sort.Strings).  That each of them
\* comes once is all that matters of the order.
CONSTANT Sorted(_)

ASSUME SortedAssumption ==
  \A ids \in SUBSET PointIds :
    IsFiniteSet(ids) => Sorted(ids) \in Bijection(1..Cardinality(ids), ids)

-----------------------------------------------------------------------------
(* connectionCycleIDs.                                                     *)

\* The ids met one after the other; NoParent when the walk is over.
Way(points, id) ==
  LET way[n \in Nat] ==
        IF n = 0 THEN id
        ELSE IF way[n - 1] \in DOMAIN points THEN points[way[n - 1]].parent
        ELSE NoParent
  IN  way

\* Variant: a repeated id condemns the whole path, its approach included.
WholePath(path, id) == Range(path)

CycleOfPath(path, id) == {path[k] : k \in {i \in DOMAIN path : \E j \in 1..i : path[j] = id}}

\* The walk is over at the latest when every id was met.
WalkToParent(points, id) ==
  LET way == Way(points, id)
      again == {n \in 1..Cardinality(DOMAIN points) :
                  way[n] # NoParent /\ \E i \in 0..(n - 1) : way[i] = way[n]}
  IN  IF again = {} THEN {}
      ELSE CycleOfPath([k \in 1..Min(again) |-> way[k - 1]], way[Min(again)])

WalkedCycles(points) == UNION {WalkToParent(points, id) : id \in DOMAIN points}

-----------------------------------------------------------------------------
(* cascade: [ok, total, refs] of a point; nothing is kept of a failure.    *)

Failed == [ok |-> FALSE, total |-> 0, refs |-> {}]

\* Variant: the sum is not compared with MaxInt before it is made.
WrappedAdd(sum, more) ==
  IF ~sum.ok \/ ~more.ok THEN Failed
  ELSE [ok |-> TRUE, total |-> (sum.total + more.total) % (MaxInt + 1),
        refs |-> sum.refs \cup more.refs]

Add(sum, more) ==
  IF ~sum.ok \/ ~more.ok THEN Failed
  ELSE IF more.total > MaxInt - sum.total THEN Failed
  ELSE [ok |-> TRUE, total |-> sum.total + more.total, refs |-> sum.refs \cup more.refs]

\* What the loop over results makes of first.
SumOf(first, results) ==
  LET sum[k \in 0..Len(results)] == IF k = 0 THEN first ELSE Add(sum[k - 1], results[k])
  IN  sum[Len(results)]

Children(points, id) == Sorted({c \in DOMAIN points : points[c].parent = id})

\* The results by id; the code keeps those that it has.  Its mark against visiting a
\* point twice is left out: what is on a cycle has failed before.
Cascades(points) ==
  LET cascade[id \in DOMAIN points] ==
        IF id \in Orphans(points) \cup WalkedCycles(points) \/ ~OwnFits(points[id]) THEN Failed
        ELSE LET children == Children(points, id)
             IN  SumOf([ok |-> TRUE, total |-> Own(points[id]), refs |-> {id}],
                       [k \in DOMAIN children |-> cascade[children[k]]])
  IN  cascade

\* The net load of the points in a list.
NetLoad(points, list) ==
  SumOf([ok |-> TRUE, total |-> 0, refs |-> {}], [k \in DOMAIN list |-> Cascades(points)[list[k]]])

\* Variant: a point counts for the venue once below each ancestor.
VenueOverPoints(points) == NetLoad(points, Sorted(DOMAIN points))

\* The net load of the venue: the roots only.
Venue(points) == NetLoad(points, Sorted(Roots(points)))

-----------------------------------------------------------------------------
(* Properties.                                                             *)

\* The walk reports the points that lie on a cycle and none that only leads to
\* one.
WalkFindsTheCycles == WalkedCycles(graph) = ConnectionCycleIDs(graph)

\* The recursion gives each point the load of its whole subtree in full, or no
\* number at all: never a partial or a wrapped sum.
CascadeIsTheSubtreeSum ==
  \A id \in DOMAIN graph :
    LET c == Cascades(graph)[id]
    IN  IF CascadeFits(graph, id)
        THEN c = [ok |-> TRUE, total |-> CascadeTotal(graph, id), refs |-> Subtree(graph, id)]
        ELSE ~c.ok

\* The venue carries each point that hangs below a root exactly once.
VenueCountsEachPointOnce ==
  LET v == Venue(graph)
  IN  IF VenueFits(graph)
      THEN v = [ok |-> TRUE, total |-> LoadOf(graph, Rooted(graph)), refs |-> Rooted(graph)]
      ELSE ~v.ok
=============================================================================
