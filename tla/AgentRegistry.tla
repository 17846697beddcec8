--------------------------- MODULE AgentRegistry ---------------------------
(***************************************************************************)
(* How the master (mode/master/master.go) knows its agents and hands work  *)
(* to them, and the poll loop of the agent process (mode/agent/agent.go).  *)
(* An agent process registers, asks for work with a long poll and starts   *)
(* over; each process has a session of its own.  The master keeps a status *)
(* and a queue per agent id and learns that an agent is gone only from the *)
(* end of a poll connection.  What is queued is abstract here (Work);      *)
(* module MasterAgent gives it its meaning.                                *)
(***************************************************************************)
EXTENDS Naturals, Sequences

CONSTANTS
  Agent,      \* agent ids
  Work,       \* what Put queues ({} in MasterAgent, which queues parts of a case)
  Faulty,     \* the agents whose process or connection may fail
  MaxSession, \* bound on the processes started per agent id
  QueueCap    \* capacity of an agent's queue (8 in the code)

ASSUME AgentRegistryAssumption ==
  /\ Faulty \subseteq Agent
  /\ MaxSession \in Nat \ {0}
  /\ QueueCap \in Nat \ {0}

VARIABLES
  registry, \* m.agents: the status and the session of each id, "none" if absent
  queue,    \* m.agentQueues
  proc,     \* the agent process: its session and where its pollLoop is
  gone      \* agents with a poll handler whose client has left unnoticed

registryVars == <<registry, queue, proc, gone>>

\* The statuses that the distributor accepts.
Selectable == {"online", "busy"}

RegistryInit ==
  /\ registry = [a \in Agent |-> [status |-> "none", session |-> 0]]
  /\ queue = [a \in Agent |-> << >>]
  /\ proc = [a \in Agent |-> [session |-> 0, at |-> "down"]]
  /\ gone = {}

Up(a) == proc[a].at # "down"

At(a, l) == proc' = [proc EXCEPT ![a].at = l]

\* A handler changes the status only of an agent that is in the table.
SetStatus(a, s) ==
  registry' = [registry EXCEPT ![a].status = IF @ = "none" THEN @ ELSE s]

\* NewAgent, StartAgent: a process with a new session.
Start(a) ==
  /\ proc[a].at = "down"
  /\ proc[a].session < MaxSession
  /\ proc' = [proc EXCEPT ![a] = [session |-> @.session + 1, at |-> "register"]]
  /\ UNCHANGED <<registry, queue, gone>>

\* handleAgentRegister answers 409 if another session has the id and is online.
Conflict(a) ==
  /\ registry[a].status = "online"
  /\ registry[a].session # proc[a].session

\* registerToMaster, before each poll.  On a conflict pollLoop calls
\* log.Fatalf; on any other error it tries again.
Register(a) ==
  /\ proc[a].at = "register"
  /\ IF Conflict(a)
     THEN At(a, "down") /\ UNCHANGED registry
     ELSE /\ registry' = [registry EXCEPT ![a] =
                            [status |-> "online", session |-> proc[a].session]]
          /\ At(a, "poll")
  /\ UNCHANGED <<queue, gone>>

\* handleAgentPoll, up to its select: the agent counts as online.
Poll(a) ==
  /\ proc[a].at = "poll"
  /\ SetStatus(a, "online")
  /\ At(a, "polling")
  /\ UNCHANGED <<queue, gone>>

\* handleAgentPoll takes the oldest task and writes it to the agent.
Take(a) ==
  /\ proc[a].at = "polling"
  /\ queue[a] # << >>
  /\ queue' = [queue EXCEPT ![a] = Tail(@)]
  /\ SetStatus(a, "busy")
  /\ At(a, "register")
  /\ UNCHANGED gone

\* The same in a handler whose client has left: the task is lost.
TakeGone(a) ==
  /\ a \in gone
  /\ queue[a] # << >>
  /\ queue' = [queue EXCEPT ![a] = Tail(@)]
  /\ SetStatus(a, "busy")
  /\ gone' = gone \ {a}
  /\ UNCHANGED proc

\* Mutant of PollTimeout: a poll that ends without a task marks the agent offline.
PollTimeoutGoesOffline(a) ==
  /\ proc[a].at = "polling"
  /\ At(a, "register")
  /\ SetStatus(a, "offline")
  /\ UNCHANGED <<queue, gone>>

\* 30 s without a task: 204, and the status stays.
PollTimeout(a) ==
  /\ proc[a].at = "polling"
  /\ At(a, "register")
  /\ UNCHANGED <<registry, queue, gone>>

\* The poll connection breaks (at most one handler per agent is left behind).
Disconnect(a) ==
  /\ a \in Faulty
  /\ proc[a].at = "polling"
  /\ a \notin gone
  /\ gone' = gone \cup {a}
  /\ At(a, "register")
  /\ UNCHANGED <<registry, queue>>

\* The handler sees that its client has left.
Noticed(a) ==
  /\ a \in gone
  /\ gone' = gone \ {a}
  /\ registry' = [registry EXCEPT ![a].status =
                    IF @ = "online" THEN "offline" ELSE @]
  /\ UNCHANGED <<queue, proc>>

LeaveConnection(a) == gone' = IF proc[a].at = "polling" THEN gone \cup {a} ELSE gone

\* The process ends.
Crash(a) ==
  /\ a \in Faulty
  /\ Up(a)
  /\ LeaveConnection(a)
  /\ At(a, "down")
  /\ UNCHANGED <<registry, queue>>

\* startAgentCleanup.  LastSeen is more than 5 minutes old only if no process
\* has polled for that long.
Cleanup(a) ==
  /\ registry[a].status \in {"offline", "busy"}
  /\ ~Up(a)
  /\ a \notin gone
  /\ registry' = [registry EXCEPT ![a] = [status |-> "none", session |-> 0]]
  /\ queue' = [queue EXCEPT ![a] = << >>]
  /\ UNCHANGED <<proc, gone>>

\* Somebody queues work for an agent that is selectable.
Put(a, w) ==
  /\ registry[a].status \in Selectable
  /\ Len(queue[a]) < QueueCap
  /\ queue' = [queue EXCEPT ![a] = Append(@, w)]
  /\ UNCHANGED <<registry, proc, gone>>

RegistryNext ==
  \E a \in Agent :
    \/ Start(a) \/ Register(a) \/ Poll(a) \/ Take(a) \/ TakeGone(a)
    \/ PollTimeout(a) \/ Disconnect(a) \/ Noticed(a) \/ Crash(a) \/ Cleanup(a)
    \/ \E w \in Work : Put(a, w)

\* The steps of a process that runs and of the master; not those of the network,
\* nor crashes and restarts.
RegistryFairness ==
  \A a \in Agent :
    /\ WF_registryVars(Register(a))
    /\ WF_registryVars(Poll(a))
    /\ WF_registryVars(Take(a) \/ PollTimeout(a))
    /\ WF_registryVars(TakeGone(a) \/ Noticed(a))
    /\ WF_registryVars(Cleanup(a))

RegistrySpec == RegistryInit /\ [][RegistryNext]_registryVars /\ RegistryFairness
-----------------------------------------------------------------------------
\* The comment of startAgentCleanup: that an agent has gone is seen at once
\* from the end of its poll connection.  So an agent process that has ended is
\* not counted as online for ever.
DownIsNoticed ==
  \A a \in Agent :
    ~Up(a) ~> (Up(a) \/ registry[a].status # "online")

\* An agent that stays up, and whose connections last, ends up being accepted
\* by the distributor, and stays so.
LiveAgentIsSelectable ==
  \A a \in Agent :
    <>[](Up(a) /\ a \notin gone) => <>[](registry[a].status \in Selectable)
=============================================================================
