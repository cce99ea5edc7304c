--------------------------- MODULE MCRiggingCase ---------------------------
(* Small instances of RiggingCase.                                         *)
EXTENDS RiggingCase

Point(id, equipment, parent, capacity, static) ==
  [id |-> id, value |-> [equipment |-> equipment, parent |-> parent, capacity |-> capacity,
                         static |-> static, factor |-> Permille]]

Cue(id, sequence, equipment, duration) ==
  [id |-> id, value |-> [sequence |-> sequence, action |-> "text", equipment |-> equipment,
                         mutex |-> Blank, duration |-> duration]]

Changes(ps, qs) == [points |-> ps, cues |-> qs]

Result(cue, success, peak, deviation, evidence) ==
  [cue |-> cue, success |-> success, peak |-> peak, deviation |-> deviation,
   evidence |-> evidence]

MCTexts == {Blank, "text"}

\* One hoist and one cue; the hoist overloaded; a second hoist below it with a
\* cue; the hoist with other equipment, or below the second one (a cycle once
\* that one hangs below it); the second cue in the place of the first.
CaseChanges ==
  {Changes({Point("p1", "e1", NoParent, 10, 5)}, {Cue("q1", 1, {"e1"}, 1)}),
   Changes({Point("p1", "e1", NoParent, 10, 12)}, {}),
   Changes({Point("p2", "e2", "p1", 10, 5)}, {Cue("q2", 2, {"e2"}, 1)}),
   Changes({Point("p1", "e2", "p2", 10, 5)}, {}),
   Changes({Point("p1", "e3", NoParent, 10, 5)}, {}),
   Changes({}, {Cue("q2", 1, {"e1"}, 1)})}

CaseResults ==
  {Result("q1", TRUE, 6, Blank, Blank),
   Result("q1", TRUE, 11, Blank, "text"),
   Result("q1", FALSE, 0, Blank, "text"),
   Result("q2", TRUE, 0, Blank, "text"),
   Result("p1", TRUE, 11, Blank, "text")}

\* Nothing, one cue, and one cue twice with results that do not agree.
CaseLegacy ==
  {{}, {Result("q1", TRUE, 11, Blank, "text")},
   {Result("q1", TRUE, 6, Blank, Blank), Result("q1", TRUE, 11, Blank, "text")}}
=============================================================================
