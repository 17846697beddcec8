--------------------------- MODULE MCCaseFileRun ---------------------------
(* Case files small enough for TLC: background and foreground lines, control *)
(* lines, prefixes that change, and files that are refused.                  *)
EXTENDS CaseFileRun

Stress(p, b, bg) ==
  [kind |-> "stress", ok |-> TRUE, bg |-> bg, errorBreak |-> b, prefix |-> p]
Control(b, bg) ==
  [kind |-> "control", ok |-> TRUE, bg |-> bg, errorBreak |-> b, prefix |-> NoPrefix]
Empty == [kind |-> "empty", ok |-> TRUE, bg |-> FALSE, errorBreak |-> FALSE, prefix |-> NoPrefix]
Broken == [Empty EXCEPT !.kind = "stress", !.ok = FALSE]

MCFiles == {
  << Stress("p", TRUE, TRUE), Stress(Variable, FALSE, FALSE) >>,
  << Stress("p", TRUE, FALSE), Control(FALSE, FALSE), Stress("q", TRUE, FALSE) >>,
  << Stress("p", TRUE, TRUE), Control(FALSE, TRUE), Stress("q", FALSE, FALSE) >>,
  << Stress(NoPrefix, FALSE, TRUE), Empty, Stress("q", TRUE, TRUE) >>,
  << Control(TRUE, FALSE), Stress("q", FALSE, TRUE) >>,
  << Stress("p", TRUE, FALSE), Broken >>,
  << Empty >> }
=============================================================================
