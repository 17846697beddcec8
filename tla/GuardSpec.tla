----------------------------- MODULE GuardSpec -----------------------------
(***************************************************************************)
(* What the action guard of a User promises to the tasks that run on it:   *)
(* at any time at most one task is inside, and a task enters only when     *)
(* nobody is.                                                              *)
(***************************************************************************)
CONSTANT Task

VARIABLE inside

Init == inside = {}

Enter(t) == inside = {} /\ inside' = {t}

Leave(t) == inside = {t} /\ inside' = {}

Next == \E t \in Task : Enter(t) \/ Leave(t)

Spec == Init /\ [][Next]_inside
=============================================================================
