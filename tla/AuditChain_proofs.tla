-------------------------- MODULE AuditChain_proofs --------------------------
(***************************************************************************)
(* What the loops over the chain of digests report, for every sequence of  *)
(* events: the first event that does not follow the one before it, and     *)
(* nothing when there is none.                                             *)
(***************************************************************************)
EXTENDS AuditChain, WellFoundedInduction, TLAPS

-----------------------------------------------------------------------------
(* The loops over the chain.                                               *)

\* A set of numbers has a least one; this stands for induction below.
LEMMA LeastNumber ==
  ASSUME NEW T, T \subseteq Nat, T # {}
  PROVE  \E n \in T : \A m \in T : n <= m
<1> DEFINE Less == OpToRel(<, Nat)
<1>1. \A x, y \in Nat : y < x => <<y, x>> \in Less
  BY DEF OpToRel
<1>2. IsWellFoundedOn(Less, Nat)
  BY NatLessThanWellFounded
<1> HIDE DEF Less
<1>3. PICK n \in T : \A m \in T : <<m, n>> \notin Less
  BY <1>2, WFMin
<1>4. ASSUME NEW m \in T PROVE n <= m
  <2>1. m \in Nat /\ n \in Nat /\ ~(m < n)
    BY <1>1, <1>3
  <2> QED
    BY <2>1
<1> QED
  BY <1>4

\* A loop that carries carry[i - 1] to position i, and from a position that is not
\* in ok on halt of that position.
IsLoop(n, from, run, carry, halt, ok) ==
  /\ \A i \in 0..n : carry[i].damaged = 0 /\ halt[i].damaged = i
  /\ run[from] = carry[from]
  /\ \A i \in (from + 1)..n :
       /\ run[i - 1].damaged # 0 => run[i] = run[i - 1]
       /\ run[i - 1] = carry[i - 1] => run[i] = IF i \in ok THEN carry[i] ELSE halt[i]

EndsAtTheFirst(n, from, run, carry, halt, ok) ==
  \/ /\ \A i \in (from + 1)..n : i \in ok
     /\ run[n] = carry[n]
  \/ \E i \in (from + 1)..n :
       /\ i \notin ok
       /\ \A j \in (from + 1)..(i - 1) : j \in ok
       /\ run[n] = halt[i]

\* Seen from the end: what a run came to is decided at the first event that it did not
\* accept, or nowhere.
LEMMA LoopStopsAtTheFirst ==
  ASSUME NEW n \in Nat, NEW from \in 0..n, NEW run, NEW carry, NEW halt, NEW ok,
         IsLoop(n, from, run, carry, halt, ok)
  PROVE  EndsAtTheFirst(n, from, run, carry, halt, ok)
<1> USE DEF IsLoop, EndsAtTheFirst
<1> DEFINE Goes(m) == (\A i \in (from + 1)..m : i \in ok) /\ run[m] = carry[m]
           StoppedAt(m, i) == /\ i \notin ok
                              /\ \A j \in (from + 1)..(i - 1) : j \in ok
                              /\ run[m] = halt[i]
           Stopped(m) == \E i \in (from + 1)..m : StoppedAt(m, i)
           T == {m \in from..n : ~(Goes(m) \/ Stopped(m))}
<1>1. ASSUME T # {} PROVE FALSE
  <2>1. PICK m \in T : \A k \in T : m <= k
    <3>1. T \subseteq Nat
      OBVIOUS
    <3> HIDE DEF T
    <3> QED
      BY <1>1, <3>1, LeastNumber
  <2>2. m \in from..n /\ ~Goes(m) /\ ~Stopped(m)
    BY <2>1
  <2>3. Goes(from)
    OBVIOUS
  <2>4. m \in (from + 1)..n /\ m - 1 \in from..n
    BY <2>2, <2>3
  <2>5. Goes(m - 1) \/ Stopped(m - 1)
    <3>1. m - 1 \in T => m <= m - 1
      <4> HIDE DEF T
      <4> QED
        BY <2>1
    <3>2. m - 1 \notin T
      <4> HIDE DEF T
      <4> QED
        BY <2>4, <3>1
    <3> HIDE DEF Goes, Stopped
    <3> QED
      BY <2>4, <3>2
  <2>6. CASE Goes(m - 1)
    <3>1. run[m] = IF m \in ok THEN carry[m] ELSE halt[m]
      BY <2>4, <2>6
    <3>2. CASE m \in ok
      BY <2>2, <2>4, <2>6, <3>1, <3>2
    <3>3. CASE m \notin ok
      <4>1. StoppedAt(m, m)
        BY <2>4, <2>6, <3>1, <3>3
      <4> QED
        BY <2>2, <2>4, <4>1
    <3> QED
      BY <3>2, <3>3
  <2>7. CASE Stopped(m - 1)
    <3>1. PICK i \in (from + 1)..(m - 1) : StoppedAt(m - 1, i)
      BY <2>7
    <3>2. run[m - 1].damaged = i /\ i # 0
      BY <2>4, <3>1
    <3>3. run[m] = run[m - 1]
      BY <2>4, <3>2
    <3>4. StoppedAt(m, i)
      BY <3>1, <3>3
    <3> QED
      BY <2>2, <2>4, <3>4
  <2> QED
    BY <2>5, <2>6, <2>7
<1>2. Goes(n) \/ Stopped(n)
  BY <1>1
<1> QED
  BY <1>2

\* Event i follows the one before it, whose number and digest Start has.
Good(events, i) ==
  LET before == Start(events, i - 1)
  IN  /\ events[i].previous = before.previous
      /\ events[i].sequence = before.sequence + 1
      /\ events[i].digest = Recomputed(events[i], before.previous)

IsSeq(events) == events \in Seq(Range(events))

\* How a loop ends: at the first event after from that is not good.
Outcome(events, from, result) ==
  \/ /\ \A i \in (from + 1)..Len(events) : Good(events, i)
     /\ result = Start(events, Len(events))
  \/ \E i \in (from + 1)..Len(events) :
       /\ ~Good(events, i)
       /\ \A j \in (from + 1)..(i - 1) : Good(events, j)
       /\ result = [Start(events, i - 1) EXCEPT !.damaged = i]

\* One iteration of a loop at position i, with what it carried and carries.
Iteration(events, i, old, new) ==
  IF old.damaged # 0 THEN new = old
  ELSE /\ old = Start(events, i - 1)
       /\ new = IF Good(events, i) THEN Start(events, i) ELSE [old EXCEPT !.damaged = i]

\* What a loop carries before its end has no damage, and stopping records one.
LEMMA StartFacts ==
  ASSUME NEW events, NEW i
  PROVE  /\ Start(events, i).damaged = 0
         /\ \A k : [Start(events, i) EXCEPT !.damaged = k].damaged = k
         /\ i # 0 => Start(events, i) = [previous |-> events[i].digest,
                                         sequence |-> events[i].sequence, damaged |-> 0]
BY DEF Start

\* There is a first event that is not good, or all are.
LEMMA FirstBad ==
  ASSUME NEW events, NEW n \in Nat, NEW from \in 0..n
  PROVE  \/ \A i \in (from + 1)..n : Good(events, i)
         \/ \E i \in (from + 1)..n : ~Good(events, i) /\ \A j \in (from + 1)..(i - 1) : Good(events, j)
<1> DEFINE T == {i \in (from + 1)..n : ~Good(events, i)}
<1>1. CASE T = {}
  BY <1>1
<1>2. CASE T # {}
  <2>1. T \subseteq Nat
    OBVIOUS
  <2>2. PICK i \in T : \A j \in T : i <= j
    <3> HIDE DEF T
    <3> QED
      BY <1>2, <2>1, LeastNumber
  <2>3. \A j \in (from + 1)..(i - 1) : j \notin T
    BY <2>1, <2>2
  <2>4. \A j \in (from + 1)..(i - 1) : Good(events, j)
    BY <2>2, <2>3
  <2> QED
    BY <2>2, <2>4
<1> QED
  BY <1>1, <1>2

\* There are values for a loop to carry.
LEMMA LoopExists ==
  ASSUME NEW events, NEW n \in Nat, NEW from \in 0..n
  PROVE  \E run : /\ run = [i \in 0..n |-> run[i]]
                  /\ \A i \in 0..from : run[i] = Start(events, from)
                  /\ \A i \in (from + 1)..n : Iteration(events, i, run[i - 1], run[i])
<1>1. CASE \A i \in (from + 1)..n : Good(events, i)
  <2> DEFINE run == [i \in 0..n |-> IF i <= from THEN Start(events, from) ELSE Start(events, i)]
  <2>1. \A i \in 0..from : run[i] = Start(events, from)
    OBVIOUS
  <2>2. ASSUME NEW i \in (from + 1)..n PROVE Iteration(events, i, run[i - 1], run[i])
    <3>1. run[i - 1] = Start(events, i - 1) /\ run[i] = Start(events, i)
      OBVIOUS
    <3> HIDE DEF run
    <3> QED
      BY <1>1, <3>1, StartFacts DEF Iteration
  <2>3. run = [i \in 0..n |-> run[i]]
    OBVIOUS
  <2> QED
    BY <2>1, <2>2, <2>3
<1>2. ASSUME NEW k \in (from + 1)..n, ~Good(events, k), \A j \in (from + 1)..(k - 1) : Good(events, j)
      PROVE  \E run : /\ run = [i \in 0..n |-> run[i]]
                      /\ \A i \in 0..from : run[i] = Start(events, from)
                      /\ \A i \in (from + 1)..n : Iteration(events, i, run[i - 1], run[i])
  <2> DEFINE stop == [Start(events, k - 1) EXCEPT !.damaged = k]
             run == [i \in 0..n |-> IF i <= from THEN Start(events, from)
                                    ELSE IF i < k THEN Start(events, i) ELSE stop]
  <2>1. \A i \in 0..from : run[i] = Start(events, from)
    OBVIOUS
  <2>2. ASSUME NEW i \in (from + 1)..n PROVE Iteration(events, i, run[i - 1], run[i])
    <3>1. CASE i < k
      <4>1. run[i - 1] = Start(events, i - 1) /\ run[i] = Start(events, i) /\ Good(events, i)
        BY <1>2, <3>1
      <4> HIDE DEF run
      <4> QED
        BY <4>1, StartFacts DEF Iteration
    <3>2. CASE i = k
      <4>1. run[i - 1] = Start(events, i - 1) /\ run[i] = [Start(events, i - 1) EXCEPT !.damaged = i]
        BY <3>2
      <4> HIDE DEF run
      <4> QED
        BY <1>2, <3>2, <4>1, StartFacts DEF Iteration
    <3>3. CASE i > k
      <4>1. run[i - 1] = stop /\ run[i] = stop
        BY <3>3
      <4>2. stop.damaged # 0
        BY StartFacts
      <4> HIDE DEF run, stop
      <4> QED
        BY <4>1, <4>2 DEF Iteration
    <3> QED
      BY <3>1, <3>2, <3>3
  <2>3. run = [i \in 0..n |-> run[i]]
    OBVIOUS
  <2> QED
    BY <2>1, <2>2, <2>3
<1> QED
  BY <1>1, <1>2, FirstBad

\* A run that follows the rule of the loop, with `good' events in place of accepted ones,
\* ends with the first event that is not good.
LEMMA LoopEnds ==
  ASSUME NEW events, IsSeq(events), NEW from \in 0..Len(events), NEW run,
         run[from] = Start(events, from),
         \A i \in (from + 1)..Len(events) :
           /\ run[i - 1].damaged # 0 => run[i] = run[i - 1]
           /\ run[i - 1] = Start(events, i - 1) =>
                run[i] = IF Good(events, i) THEN Start(events, i)
                         ELSE [Start(events, i - 1) EXCEPT !.damaged = i]
  PROVE  Outcome(events, from, run[Len(events)])
<1> DEFINE n == Len(events)
           carry == [i \in 0..n |-> Start(events, i)]
           halt == [i \in 0..n |-> [Start(events, i - 1) EXCEPT !.damaged = i]]
           ok == {i \in 0..n : Good(events, i)}
<1>1. n \in Nat /\ from \in 0..n
  BY DEF IsSeq
<1>2. \A i \in 0..n : /\ carry[i] = Start(events, i)
                      /\ halt[i] = [Start(events, i - 1) EXCEPT !.damaged = i]
                      /\ i \in ok <=> Good(events, i)
  BY <1>1
<1>3. \A i \in (from + 1)..n : i \in 0..n /\ i - 1 \in 0..n
  BY <1>1
<1> HIDE DEF carry, halt, ok
<1>4. \A i \in 0..n : carry[i].damaged = 0 /\ halt[i].damaged = i
  <2> SUFFICES ASSUME NEW i \in 0..n PROVE carry[i].damaged = 0 /\ halt[i].damaged = i
    OBVIOUS
  <2>1. Start(events, i).damaged = 0 /\ [Start(events, i - 1) EXCEPT !.damaged = i].damaged = i
    BY StartFacts
  <2> HIDE DEF n
  <2> QED
    BY <1>2, <2>1
<1>5. IsLoop(n, from, run, carry, halt, ok)
  <2>1. run[from] = carry[from]
    BY <1>1, <1>2
  <2>2. ASSUME NEW i \in (from + 1)..n
        PROVE  /\ run[i - 1].damaged # 0 => run[i] = run[i - 1]
               /\ run[i - 1] = carry[i - 1] => run[i] = IF i \in ok THEN carry[i] ELSE halt[i]
    BY <1>2, <1>3
  <2> HIDE DEF n
  <2> QED
    BY <1>4, <2>1, <2>2 DEF IsLoop
<1>6. EndsAtTheFirst(n, from, run, carry, halt, ok)
  <2> HIDE DEF n
  <2> QED
    BY <1>1, <1>5, LoopStopsAtTheFirst
<1>7. \A i \in (from + 1)..n : \A j \in (from + 1)..(i - 1) : j \in (from + 1)..n
  BY <1>1
<1>8. CASE (\A i \in (from + 1)..n : i \in ok) /\ run[n] = carry[n]
  <2>1. run[n] = Start(events, n)
    <3> HIDE DEF n
    <3>1. n \in 0..n
      BY <1>1
    <3> QED
      BY <1>2, <1>8, <3>1
  <2>2. \A i \in (from + 1)..n : Good(events, i)
    <3> HIDE DEF n
    <3> QED
      BY <1>2, <1>3, <1>8
  <2> QED
    BY <2>1, <2>2 DEF Outcome
<1>9. ASSUME NEW i \in (from + 1)..n, i \notin ok, \A j \in (from + 1)..(i - 1) : j \in ok, run[n] = halt[i]
      PROVE  Outcome(events, from, run[n])
  <2>1. ~Good(events, i) /\ run[n] = [Start(events, i - 1) EXCEPT !.damaged = i]
    <3> HIDE DEF n
    <3> QED
      BY <1>2, <1>3, <1>9
  <2>2. \A j \in (from + 1)..(i - 1) : Good(events, j)
    <3> HIDE DEF n
    <3> QED
      BY <1>2, <1>3, <1>7, <1>9
  <2> QED
    BY <2>1, <2>2 DEF Outcome
<1> QED
  BY <1>6, <1>8, <1>9 DEF EndsAtTheFirst

\* What the code asks of an event at its four places is the same.
LEMMA AcceptsTheGood ==
  ASSUME NEW events, IsSeq(events), NEW i \in 1..Len(events)
  PROVE  LET before == Start(events, i - 1)
         IN  /\ TimelineAccepts(events, i, before) <=> Good(events, i)
             /\ ReportAccepts(events, i, before) <=> Good(events, i)
             /\ ChainAccepts(events, i, before) <=> Good(events, i)
<1>1. CASE i = 1
  <2>1. Start(events, i - 1).sequence + 1 = 1
    BY <1>1 DEF Start
  <2> QED
    BY <1>1, <2>1 DEF TimelineAccepts, ReportAccepts, ChainAccepts, Good
<1>2. CASE i > 1
  <2>1. Start(events, i - 1).sequence = events[i - 1].sequence
    BY <1>2 DEF Start
  <2> QED
    BY <1>2, <2>1 DEF TimelineAccepts, ReportAccepts, ChainAccepts, Good
<1>3. i = 1 \/ i > 1
  BY DEF IsSeq
<1> QED
  BY <1>1, <1>2, <1>3

\* verifyTimeline stops at the first event that is not good.
LEMMA TimelineLoop ==
  ASSUME NEW events, IsSeq(events), NEW from \in 0..Len(events)
  PROVE  Outcome(events, from, Loop(events, from, TimelineAccepts))
<1> DEFINE n == Len(events)
           Body(run) == [i \in 0..n |->
                           IF i <= from THEN Start(events, from)
                           ELSE IF run[i - 1].damaged # 0 THEN run[i - 1]
                           ELSE IF TimelineAccepts(events, i, run[i - 1])
                                THEN [previous |-> events[i].digest, sequence |-> events[i].sequence,
                                      damaged |-> 0]
                                ELSE [run[i - 1] EXCEPT !.damaged = i]]
           g == CHOOSE run : run = Body(run)
<1>1. n \in Nat
  BY DEF IsSeq
<1>2. \A i \in (from + 1)..n :
        /\ i \in 1..n /\ ~(i <= from)
        /\ TimelineAccepts(events, i, Start(events, i - 1)) <=> Good(events, i)
        /\ [previous |-> events[i].digest, sequence |-> events[i].sequence, damaged |-> 0]
             = Start(events, i)
  BY <1>1, AcceptsTheGood, StartFacts
<1>3. \A run : /\ \A i \in 0..from : Body(run)[i] = Start(events, from)
               /\ \A i \in (from + 1)..n :
                    Body(run)[i] = IF run[i - 1].damaged # 0 THEN run[i - 1]
                                   ELSE IF TimelineAccepts(events, i, run[i - 1]) THEN Start(events, i)
                                   ELSE [run[i - 1] EXCEPT !.damaged = i]
  BY <1>1, <1>2
<1>4. \E run : run = Body(run)
  <2>1. PICK w : /\ w = [i \in 0..n |-> w[i]]
                 /\ \A i \in 0..from : w[i] = Start(events, from)
                 /\ \A i \in (from + 1)..n : Iteration(events, i, w[i - 1], w[i])
    BY <1>1, LoopExists
  <2>2. ASSUME NEW i \in (from + 1)..n PROVE w[i] = Body(w)[i]
    <3>1. Iteration(events, i, w[i - 1], w[i])
      BY <2>1
    <3>2. w[i - 1].damaged = 0 => (TimelineAccepts(events, i, w[i - 1]) <=> Good(events, i))
      BY <1>2, <3>1 DEF Iteration
    <3> HIDE DEF Body
    <3> QED
      BY <1>3, <3>1, <3>2 DEF Iteration
  <2>3. \A i \in 0..n : w[i] = Body(w)[i]
    <3>1. \A i \in 0..n : i \in 0..from \/ i \in (from + 1)..n
      BY <1>1
    <3> HIDE DEF Body
    <3> QED
      BY <1>3, <2>1, <2>2, <3>1
  <2>4. Body(w) = [i \in 0..n |-> Body(w)[i]]
    OBVIOUS
  <2> QED
    BY <2>1, <2>3, <2>4
<1>5. g = Body(g)
  <2> HIDE DEF Body
  <2> QED
    BY <1>4
<1>6. Loop(events, from, TimelineAccepts) = g[n]
  BY DEF Loop
<1> HIDE DEF g, Body
<1>7. g[from] = Start(events, from)
  BY <1>3, <1>5
<1>8. ASSUME NEW i \in (from + 1)..n
      PROVE  /\ g[i - 1].damaged # 0 => g[i] = g[i - 1]
             /\ g[i - 1] = Start(events, i - 1) =>
                  g[i] = IF Good(events, i) THEN Start(events, i)
                         ELSE [Start(events, i - 1) EXCEPT !.damaged = i]
  <2>1. g[i] = IF g[i - 1].damaged # 0 THEN g[i - 1]
               ELSE IF TimelineAccepts(events, i, g[i - 1]) THEN Start(events, i)
               ELSE [g[i - 1] EXCEPT !.damaged = i]
    <3>1. g[i] = Body(g)[i]
      BY <1>5, Zenon
    <3> QED
      BY <1>3, <3>1, Zenon
  <2>2. Start(events, i - 1).damaged = 0
    BY StartFacts
  <2> QED
    BY <1>2, <2>1, <2>2
<1> QED
  BY <1>6, <1>7, <1>8, LoopEnds

\* The loop of the integrity report and of the lookup does so too.
LEMMA ReportLoop ==
  ASSUME NEW events, IsSeq(events), NEW from \in 0..Len(events)
  PROVE  Outcome(events, from, Loop(events, from, ReportAccepts))
<1> DEFINE n == Len(events)
           Body(run) == [i \in 0..n |->
                           IF i <= from THEN Start(events, from)
                           ELSE IF run[i - 1].damaged # 0 THEN run[i - 1]
                           ELSE IF ReportAccepts(events, i, run[i - 1])
                                THEN [previous |-> events[i].digest, sequence |-> events[i].sequence,
                                      damaged |-> 0]
                                ELSE [run[i - 1] EXCEPT !.damaged = i]]
           g == CHOOSE run : run = Body(run)
<1>1. n \in Nat
  BY DEF IsSeq
<1>2. \A i \in (from + 1)..n :
        /\ i \in 1..n /\ ~(i <= from)
        /\ ReportAccepts(events, i, Start(events, i - 1)) <=> Good(events, i)
        /\ [previous |-> events[i].digest, sequence |-> events[i].sequence, damaged |-> 0]
             = Start(events, i)
  BY <1>1, AcceptsTheGood, StartFacts
<1>3. \A run : /\ \A i \in 0..from : Body(run)[i] = Start(events, from)
               /\ \A i \in (from + 1)..n :
                    Body(run)[i] = IF run[i - 1].damaged # 0 THEN run[i - 1]
                                   ELSE IF ReportAccepts(events, i, run[i - 1]) THEN Start(events, i)
                                   ELSE [run[i - 1] EXCEPT !.damaged = i]
  BY <1>1, <1>2
<1>4. \E run : run = Body(run)
  <2>1. PICK w : /\ w = [i \in 0..n |-> w[i]]
                 /\ \A i \in 0..from : w[i] = Start(events, from)
                 /\ \A i \in (from + 1)..n : Iteration(events, i, w[i - 1], w[i])
    BY <1>1, LoopExists
  <2>2. ASSUME NEW i \in (from + 1)..n PROVE w[i] = Body(w)[i]
    <3>1. Iteration(events, i, w[i - 1], w[i])
      BY <2>1
    <3>2. w[i - 1].damaged = 0 => (ReportAccepts(events, i, w[i - 1]) <=> Good(events, i))
      BY <1>2, <3>1 DEF Iteration
    <3> HIDE DEF Body
    <3> QED
      BY <1>3, <3>1, <3>2 DEF Iteration
  <2>3. \A i \in 0..n : w[i] = Body(w)[i]
    <3>1. \A i \in 0..n : i \in 0..from \/ i \in (from + 1)..n
      BY <1>1
    <3> HIDE DEF Body
    <3> QED
      BY <1>3, <2>1, <2>2, <3>1
  <2>4. Body(w) = [i \in 0..n |-> Body(w)[i]]
    OBVIOUS
  <2> QED
    BY <2>1, <2>3, <2>4
<1>5. g = Body(g)
  <2> HIDE DEF Body
  <2> QED
    BY <1>4
<1>6. Loop(events, from, ReportAccepts) = g[n]
  BY DEF Loop
<1> HIDE DEF g, Body
<1>7. g[from] = Start(events, from)
  BY <1>3, <1>5
<1>8. ASSUME NEW i \in (from + 1)..n
      PROVE  /\ g[i - 1].damaged # 0 => g[i] = g[i - 1]
             /\ g[i - 1] = Start(events, i - 1) =>
                  g[i] = IF Good(events, i) THEN Start(events, i)
                         ELSE [Start(events, i - 1) EXCEPT !.damaged = i]
  <2>1. g[i] = IF g[i - 1].damaged # 0 THEN g[i - 1]
               ELSE IF ReportAccepts(events, i, g[i - 1]) THEN Start(events, i)
               ELSE [g[i - 1] EXCEPT !.damaged = i]
    <3>1. g[i] = Body(g)[i]
      BY <1>5, Zenon
    <3> QED
      BY <1>3, <3>1, Zenon
  <2>2. Start(events, i - 1).damaged = 0
    BY StartFacts
  <2> QED
    BY <1>2, <2>1, <2>2
<1> QED
  BY <1>6, <1>7, <1>8, LoopEnds

\* So does audit.VerifyChain, which reads the number of the event before again.
LEMMA ChainLoop ==
  ASSUME NEW events, IsSeq(events), NEW from \in 0..Len(events)
  PROVE  Outcome(events, from, Loop(events, from, ChainAccepts))
<1> DEFINE n == Len(events)
           Body(run) == [i \in 0..n |->
                           IF i <= from THEN Start(events, from)
                           ELSE IF run[i - 1].damaged # 0 THEN run[i - 1]
                           ELSE IF ChainAccepts(events, i, run[i - 1])
                                THEN [previous |-> events[i].digest, sequence |-> events[i].sequence,
                                      damaged |-> 0]
                                ELSE [run[i - 1] EXCEPT !.damaged = i]]
           g == CHOOSE run : run = Body(run)
<1>1. n \in Nat
  BY DEF IsSeq
<1>2. \A i \in (from + 1)..n :
        /\ i \in 1..n /\ ~(i <= from)
        /\ ChainAccepts(events, i, Start(events, i - 1)) <=> Good(events, i)
        /\ [previous |-> events[i].digest, sequence |-> events[i].sequence, damaged |-> 0]
             = Start(events, i)
  BY <1>1, AcceptsTheGood, StartFacts
<1>3. \A run : /\ \A i \in 0..from : Body(run)[i] = Start(events, from)
               /\ \A i \in (from + 1)..n :
                    Body(run)[i] = IF run[i - 1].damaged # 0 THEN run[i - 1]
                                   ELSE IF ChainAccepts(events, i, run[i - 1]) THEN Start(events, i)
                                   ELSE [run[i - 1] EXCEPT !.damaged = i]
  BY <1>1, <1>2
<1>4. \E run : run = Body(run)
  <2>1. PICK w : /\ w = [i \in 0..n |-> w[i]]
                 /\ \A i \in 0..from : w[i] = Start(events, from)
                 /\ \A i \in (from + 1)..n : Iteration(events, i, w[i - 1], w[i])
    BY <1>1, LoopExists
  <2>2. ASSUME NEW i \in (from + 1)..n PROVE w[i] = Body(w)[i]
    <3>1. Iteration(events, i, w[i - 1], w[i])
      BY <2>1
    <3>2. w[i - 1].damaged = 0 => (ChainAccepts(events, i, w[i - 1]) <=> Good(events, i))
      BY <1>2, <3>1 DEF Iteration
    <3> HIDE DEF Body
    <3> QED
      BY <1>3, <3>1, <3>2 DEF Iteration
  <2>3. \A i \in 0..n : w[i] = Body(w)[i]
    <3>1. \A i \in 0..n : i \in 0..from \/ i \in (from + 1)..n
      BY <1>1
    <3> HIDE DEF Body
    <3> QED
      BY <1>3, <2>1, <2>2, <3>1
  <2>4. Body(w) = [i \in 0..n |-> Body(w)[i]]
    OBVIOUS
  <2> QED
    BY <2>1, <2>3, <2>4
<1>5. g = Body(g)
  <2> HIDE DEF Body
  <2> QED
    BY <1>4
<1>6. Loop(events, from, ChainAccepts) = g[n]
  BY DEF Loop
<1> HIDE DEF g, Body
<1>7. g[from] = Start(events, from)
  BY <1>3, <1>5
<1>8. ASSUME NEW i \in (from + 1)..n
      PROVE  /\ g[i - 1].damaged # 0 => g[i] = g[i - 1]
             /\ g[i - 1] = Start(events, i - 1) =>
                  g[i] = IF Good(events, i) THEN Start(events, i)
                         ELSE [Start(events, i - 1) EXCEPT !.damaged = i]
  <2>1. g[i] = IF g[i - 1].damaged # 0 THEN g[i - 1]
               ELSE IF ChainAccepts(events, i, g[i - 1]) THEN Start(events, i)
               ELSE [g[i - 1] EXCEPT !.damaged = i]
    <3>1. g[i] = Body(g)[i]
      BY <1>5, Zenon
    <3> QED
      BY <1>3, <3>1, Zenon
  <2>2. Start(events, i - 1).damaged = 0
    BY StartFacts
  <2> QED
    BY <1>2, <2>1, <2>2
<1> QED
  BY <1>6, <1>7, <1>8, LoopEnds

\* One log, one outcome: two loops that start at the same place end in the same way.
LEMMA OneOutcome ==
  ASSUME NEW events, NEW from \in Nat, NEW r, NEW s, IsSeq(events),
         Outcome(events, from, r), Outcome(events, from, s)
  PROVE  r = s
<1>0. Len(events) \in Nat
  BY DEF IsSeq
<1>1. ASSUME NEW i \in (from + 1)..Len(events), NEW k \in (from + 1)..Len(events),
             ~Good(events, i), \A j \in (from + 1)..(i - 1) : Good(events, j),
             ~Good(events, k), \A j \in (from + 1)..(k - 1) : Good(events, j)
      PROVE  i = k
  <2>1. ~(i < k) /\ ~(k < i)
    BY <1>0, <1>1
  <2> QED
    BY <1>0, <2>1
<1> QED
  BY <1>1 DEF Outcome

\* What is reported as damaged: nothing, or the first event that is not good.
Reported(events, from, damaged) ==
  \/ damaged = 0 /\ \A i \in (from + 1)..Len(events) : Good(events, i)
  \/ /\ damaged \in (from + 1)..Len(events)
     /\ ~Good(events, damaged)
     /\ \A j \in (from + 1)..(damaged - 1) : Good(events, j)

\* What a run ends with, read off at the field that is reported.
LEMMA OutcomeIsReported ==
  ASSUME NEW events, NEW from \in Nat, NEW r, Outcome(events, from, r)
  PROVE  Reported(events, from, r.damaged)
<1>1. CASE r = Start(events, Len(events)) /\ \A i \in (from + 1)..Len(events) : Good(events, i)
  BY <1>1, StartFacts DEF Reported
<1>2. ASSUME NEW i \in (from + 1)..Len(events), ~Good(events, i),
             \A j \in (from + 1)..(i - 1) : Good(events, j),
             r = [Start(events, i - 1) EXCEPT !.damaged = i]
      PROVE  Reported(events, from, r.damaged)
  <2>1. r.damaged = i
    BY <1>2, StartFacts
  <2> QED
    BY <1>2, <2>1 DEF Reported
<1> QED
  BY <1>1, <1>2 DEF Outcome

\* The three loops end alike, so they report the same.
LEMMA LoopsReport ==
  ASSUME NEW events, IsSeq(events), NEW from \in 0..Len(events)
  PROVE  /\ Loop(events, from, TimelineAccepts) = Loop(events, from, ReportAccepts)
         /\ Loop(events, from, ChainAccepts) = Loop(events, from, ReportAccepts)
         /\ Reported(events, from, Loop(events, from, ReportAccepts).damaged)
<1>1. from \in Nat
  OBVIOUS
<1>2. Loop(events, from, TimelineAccepts) = Loop(events, from, ReportAccepts)
  BY <1>1, TimelineLoop, ReportLoop, OneOutcome
<1>3. Loop(events, from, ChainAccepts) = Loop(events, from, ReportAccepts)
  BY <1>1, ChainLoop, ReportLoop, OneOutcome
<1>4. Reported(events, from, Loop(events, from, ReportAccepts).damaged)
  BY <1>1, ReportLoop, OutcomeIsReported
<1> QED
  BY <1>2, <1>3, <1>4

\* The number that is reported of a damaged event is never 0.
LEMMA NumbersAreReported ==
  ASSUME NEW events, IsSeq(events), \A i \in DOMAIN events : events[i].sequence \in Nat
  PROVE  FirstDamagedSequence(events) = 0 <=> FirstDamagedIndex(events, 0) = 0
<1> DEFINE run == Loop(events, 0, ReportAccepts)
<1>0. Len(events) \in Nat /\ DOMAIN events = 1..Len(events)
  BY DEF IsSeq
<1>1. Outcome(events, 0, run)
  BY <1>0, ReportLoop
<1>2. run.damaged = 0 \/ (run.damaged # 0 /\ run.sequence \in Nat)
  <2>1. ASSUME NEW i \in 1..Len(events), run = [Start(events, i - 1) EXCEPT !.damaged = i]
        PROVE  run.sequence \in Nat
    <3>1. run.sequence = Start(events, i - 1).sequence
      BY <2>1 DEF Start
    <3>2. CASE i = 1
      BY <3>1, <3>2 DEF Start
    <3>3. CASE i # 1
      <4>1. i - 1 \in DOMAIN events
        BY <1>0, <3>3
      <4> QED
        BY <3>1, <3>3, <4>1 DEF Start
    <3> QED
      BY <3>2, <3>3
  <2> HIDE DEF run
  <2> QED
    BY <1>1, <2>1, StartFacts DEF Outcome
<1>3. run.damaged # 0 => run.damaged \in DOMAIN events
  <2>1. Reported(events, 0, run.damaged)
    BY <1>1, OutcomeIsReported
  <2> HIDE DEF run
  <2> QED
    BY <1>0, <2>1 DEF Reported
<1>4. FirstDamagedIndex(events, 0) = run.damaged
  BY DEF FirstDamagedIndex
<1>5. FirstDamagedSequence(events) = IF run.damaged = 0 THEN 0
                                     ELSE IF events[run.damaged].sequence = 0 THEN run.sequence + 1
                                     ELSE events[run.damaged].sequence
  BY DEF FirstDamagedSequence
<1> HIDE DEF run
<1> QED
  BY <1>2, <1>3, <1>4, <1>5

Chained(events) == \A i \in DOMAIN events : Good(events, i)

\* A log is found valid exactly when every event follows the one before it.
LEMMA ValidIsChained ==
  ASSUME NEW events, IsSeq(events), \A i \in DOMAIN events : events[i].sequence \in Nat
  PROVE  /\ TimelineValid(events) <=> Chained(events)
         /\ FirstDamagedIndex(events, 0) = 0 <=> Chained(events)
         /\ FirstDamagedSequence(events) = 0 <=> Chained(events)
<1>1. 0 \in 0..Len(events) /\ DOMAIN events = 1..Len(events)
  BY DEF IsSeq
<1>2. Reported(events, 0, FirstDamagedIndex(events, 0))
  BY <1>1, LoopsReport DEF FirstDamagedIndex
<1>3. FirstDamagedIndex(events, 0) = 0 <=> Chained(events)
  BY <1>1, <1>2 DEF Reported, Chained
<1>4. TimelineValid(events) <=> FirstDamagedIndex(events, 0) = 0
  BY <1>1, LoopsReport DEF TimelineValid, FirstDamagedIndex
<1> QED
  BY <1>3, <1>4, NumbersAreReported
=============================================================================
