------------------------------ MODULE LoadGraph ------------------------------
(***************************************************************************)
(* Load points that are added and loaded one after the other: every graph  *)
(* the rules can be asked about, cycles and unknown parents included, and  *)
(* what the rules of Evaluate promise of it whatever it is.                *)
(***************************************************************************)
EXTENDS LoadRules

CONSTANTS
  PointIds,     \* ids of load points
  Parents,      \* parents they may name, NoParent among them
  Statics,      \* static loads in kilograms
  Factors,      \* dynamic factors in thousandths
  Capacities,   \* in kilograms
  VenueLimit    \* in kilograms

\* What preflightChangeSet lets through; a nil parent is no id.
ASSUME GraphAssumption ==
  /\ NoParent \notin PointIds
  /\ Statics \cup Factors \cup Capacities \subseteq Nat
  /\ VenueLimit \in Nat

VARIABLE graph   \* the load points, by id

vars == graph

Init == graph = <<>>

AddPoint(id) ==
  /\ id \notin DOMAIN graph
  /\ \E parent \in Parents, s \in Statics, f \in Factors, c \in Capacities :
       graph' = [i \in DOMAIN graph \cup {id} |->
                   IF i \in DOMAIN graph THEN graph[i]
                   ELSE [parent |-> parent, static |-> s, factor |-> f, capacity |-> c]]

RaiseLoad(id) ==
  /\ id \in DOMAIN graph
  /\ \E s \in Statics : /\ s > graph[id].static
                        /\ graph' = [graph EXCEPT ![id].static = s]

Next == \E id \in PointIds : AddPoint(id) \/ RaiseLoad(id)

Spec == Init /\ [][Next]_vars

-----------------------------------------------------------------------------
(* Properties.                                                             *)

\* The margin is taken in two parts with two roundings (rules.go:194): together
\* they give 15% of the capacity rounded down once, so a warning is never false,
\* and one is missing only where less than a kilogram is missing to the 15%.
MarginIsExact ==
  \A id \in DOMAIN graph, load \in 0..MaxInt :
    LET left == graph[id].capacity - load
    IN  /\ LowMargin(load, graph[id].capacity) => left >= 0 /\ 100 * left < 15 * graph[id].capacity
        /\ left >= 0 /\ 100 * (left + 1) <= 15 * graph[id].capacity =>
             LowMargin(load, graph[id].capacity)

\* A dynamic load is refused exactly when the product and the term that rounds it
\* up would pass the width (rules.go:181), and is otherwise the true load rounded
\* up to the next kilogram, for every static load on every point.
DynamicLoadIsExact ==
  \A id \in DOMAIN graph, static \in 0..MaxInt :
    LET factor == graph[id].factor
        load == DynamicLoad(static, factor)
    IN  /\ DynamicLoadFits(static, factor) <=> static * factor + (Permille - 1) <= MaxInt
        /\ DynamicLoadFits(static, factor) =>
             /\ static * factor <= Permille * load
             /\ Permille * load < static * factor + Permille

OneCue == [q \in {"q1"} |-> [mutex |-> Blank, sequence |-> 1]]

Refused(ps) == Blockers(Evaluate(ps, OneCue, VenueLimit)) # {}

\* More load never turns a refused case into an accepted one: not where a sum
\* stops being computable either.
MoreLoadNeverHelps ==
  [][\A id \in DOMAIN graph : RaiseLoad(id) /\ Refused(graph) => Refused(graph')]_vars
=============================================================================
