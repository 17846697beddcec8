----------------------------- MODULE UserTask -----------------------------
(***************************************************************************)
(* The tasks of one User, which the table of RPCs and the action guard     *)
(* both name.                                                              *)
(***************************************************************************)
CONSTANTS
  Task,    \* the tasks of one user; their ids are unique in the process
  NoTask   \* nil, the id 0

ASSUME TaskAssumption == NoTask \notin Task
=============================================================================
