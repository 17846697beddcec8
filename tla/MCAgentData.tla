---------------------------- MODULE MCAgentData ----------------------------
(* The instance of AgentData that TLC checks.                              *)
EXTENDS AgentData

CONSTANTS t1, t2, r1

\* Task t1 has a record and partial flushes, t2 shares the collector with it.
MCTaskOf == [r \in Record |-> t1]
=============================================================================
