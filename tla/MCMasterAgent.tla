--------------------------- MODULE MCMasterAgent ---------------------------
(* The instance of MasterAgent that TLC checks.                            *)
EXTENDS MasterAgent

L(kind, background, errorBreak) ==
  [kind |-> kind, background |-> background, errorBreak |-> errorBreak]

R(script, copy, ids) ==
  [script |-> script, target |-> Agent, rounds |-> 1, copy |-> copy, ids |-> ids]

MCRequests ==
  { R(<<L("stress", TRUE, TRUE), L("one", FALSE, TRUE)>>, TRUE, 1),
    R(<<L("reboot", FALSE, FALSE), L("stress", TRUE, TRUE)>>, FALSE, 5) }
=============================================================================
