---------------------------- MODULE BalanceSplit ----------------------------
(***************************************************************************)
(* How distributeSingleCase (mode/master/distributor.go) shares the open   *)
(* ids of a stress line among n agents, numbered from 0.  A range holds    *)
(* its first and not its last number.                                      *)
(***************************************************************************)
EXTENDS Integers

\* Mutant of PerAgent: the division rounds down.
PerAgentRoundedDown(s, e, n) == (e - s) \div n

\* The size of a share: the ids divided by the agents, rounded up.
PerAgent(s, e, n) == (e - s + n - 1) \div n

ShareStart(s, e, n, i) == s + i * PerAgent(s, e, n)

ShareEnd(s, e, n, i) ==
  LET end == ShareStart(s, e, n, i) + PerAgent(s, e, n) IN IF end > e THEN e ELSE end

\* An agent whose share would be empty gets no task.
HasShare(s, e, n, i) == ShareStart(s, e, n, i) < ShareEnd(s, e, n, i)

InShare(s, e, n, i, id) ==
  ShareStart(s, e, n, i) <= id /\ id < ShareEnd(s, e, n, i)

\* Every id of the line is run, by one agent, and no other id is.
ExactlyOnce(s, e, n) ==
  /\ \A id \in s..(e - 1) : \E i \in 0..(n - 1) :
       /\ InShare(s, e, n, i, id)
       /\ \A j \in 0..(n - 1) : InShare(s, e, n, j, id) => j = i
  /\ \A i \in 0..(n - 1) :
       HasShare(s, e, n, i) => s <= ShareStart(s, e, n, i) /\ ShareEnd(s, e, n, i) <= e
=============================================================================
