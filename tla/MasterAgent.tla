---------------------------- MODULE MasterAgent ----------------------------
(***************************************************************************)
(* A report's way through the master and the agents: handleSubmitTask,     *)
(* distributeAndWait and the calls below it (mode/master/distributor.go),  *)
(* the execution of the parts on the agents (mode/agent/agent.go), and     *)
(* stop.                                                                   *)
(*                                                                         *)
(* A line of the case file is sent as one part to each of the agents that  *)
(* share it.  The master waits for the part's result on a channel it finds *)
(* in taskResults under the part's key.  Any number of parts run on one    *)
(* agent at the same time; each stress part watches for a cancel signal.   *)
(***************************************************************************)
EXTENDS AgentRegistry, BalanceSplit, FiniteSets

CONSTANTS
  Report,    \* report ids
  Requests,  \* what may be submitted
  MaxIndex,  \* bound on the case index (rounds times lines)
  OneSecond, \* all control instructions are sent within one second
  CancelCap  \* capacity of an agent's cancel channel (8 in the code)

\* "all" and "one" are control instructions, by their DispatchMode; "reboot" is
\* the one that the agent handles itself.
Line == [kind : {"stress", "all", "one", "reboot"},
         background : BOOLEAN, errorBreak : BOOLEAN]

\* The lines of the case file, the agents meant (target_group, target_agents),
\* repeated_time, the distribute_mode, and the number of open ids per line.
Request == [script : Seq(Line), target : SUBSET Agent, rounds : Nat \ {0},
            copy : BOOLEAN, ids : Nat \ {0}]

ASSUME MasterAgentAssumption ==
  /\ \A q \in Requests : /\ q \in Request
                         /\ q.script # << >>
                         /\ q.rounds * Len(q.script) <= MaxIndex
  /\ MaxIndex \in Nat
  /\ OneSecond \in BOOLEAN
  /\ CancelCap \in Nat \ {0}

Part == [r : Report, i : 1..MaxIndex, a : Agent]

VARIABLES
  req,      \* the request a report id stands for
  status,   \* taskStatus.Status, "none" before the submission
  dist,     \* the goroutine of a report: where it is, next line, unwaited lines
  ctx,      \* the reports whose context is cancelled
  stop,     \* the progress of handleStopTask
  line,     \* the goroutine of a line: "none", "spawned", "sent", "failed"
  sel,      \* the agents a line was sent to
  call,     \* enqueueAgentTask of a part
  results,  \* m.taskResults: key -> the part that waits, as a set of pairs
  inbox,    \* the content of a part's result channel
  run,      \* the execution of a part on its agent
  watch,    \* the cancel_watch request of a part: "none", "open", "gone"
  signal,   \* m.agentCancelChs
  lapsed    \* agents that had two parts at once, or were unknown after a stop (history)

taskVars == <<status, dist, ctx, stop>>
lineVars == <<line, sel>>
callVars == <<call, results, inbox>>
runVars == <<run, watch, signal>>

stepVars == <<registryVars, taskVars, lineVars, callVars, runVars>>
vars == <<stepVars, req, lapsed>>

\* caseIndex: the lines of all rounds.
Index(r) == 1..(req[r].rounds * Len(req[r].script))
LineAt(r, i) == req[r].script[((i - 1) % Len(req[r].script)) + 1]
EndsRound(r, i) == i % Len(req[r].script) = 0

\* The key of a control part has the second it was sent in, not the report.
Key(p) ==
  IF LineAt(p.r, p.i).kind # "stress" /\ OneSecond
  THEN <<"control", p.i, LineAt(p.r, p.i).kind, p.a>> ELSE <<p.r, p.i, p.a>>

Owner(p) == {q \in Part : <<Key(p), q>> \in results}

\* The channel is of no use to anyone once its receiver has returned.
Forget(p) ==
  /\ results' = {e \in results : e[1] # Key(p)}
  /\ inbox' = [inbox EXCEPT ![p] = "empty"]

Init ==
  /\ RegistryInit
  /\ req \in [Report -> Requests]
  /\ status = [r \in Report |-> "none"]
  /\ dist = [r \in Report |-> [at |-> "none", i |-> 1, bg |-> << >>]]
  /\ ctx = {}
  /\ stop = [r \in Report |-> "none"]
  /\ line = [r \in Report |-> [i \in 1..MaxIndex |-> "none"]]
  /\ sel = [r \in Report |-> [i \in 1..MaxIndex |-> {}]]
  /\ call = [p \in Part |-> "none"]
  /\ results = {}
  /\ inbox = [p \in Part |-> "empty"]
  /\ run = [p \in Part |-> "none"]
  /\ watch = [p \in Part |-> "none"]
  /\ signal = [a \in Agent |-> << >>]
  /\ lapsed = {}
-----------------------------------------------------------------------------
(* handleSubmitTask and its goroutine.                                     *)

Candidates(r) == {a \in req[r].target : registry[a].status \in Selectable}

SetDist(r, l) == dist' = [dist EXCEPT ![r].at = l]

\* Up to the answer.  The cancel function is stored after the task is listed.
SubmitTask(r) ==
  /\ status[r] = "none"
  /\ Candidates(r) # {}
  /\ status' = [status EXCEPT ![r] = "running"]
  /\ SetDist(r, "submit")
  /\ UNCHANGED <<registryVars, ctx, stop, lineVars, callVars, runVars>>

SubmitStart(r) ==
  /\ dist[r].at = "submit"
  /\ SetDist(r, "next")
  /\ UNCHANGED <<registryVars, status, ctx, stop, lineVars, callVars,
                 runVars>>

\* The goroutine ends with an error.
EndWithError(r) ==
  /\ dist' = [dist EXCEPT ![r].at = "end", ![r].bg = << >>]
  /\ status' = [status EXCEPT ![r] = "error"]

\* Mutant of WaitsAfter: the background lines of a round are left running.
WaitsAfterForeground(r, i) == ~LineAt(r, i).background

\* waitBackground follows a foreground line and the last line of a round.
WaitsAfter(r, i) == ~LineAt(r, i).background \/ EndsRound(r, i)

\* distributeAndWait: the next line, unless the context is cancelled.
DistNext(r) ==
  /\ dist[r].at = "next"
  /\ LET i == dist[r].i IN
     IF i \notin Index(r)
     THEN SetDist(r, "aggregate") /\ UNCHANGED line
     ELSE IF r \in ctx
     THEN SetDist(r, "drain") /\ UNCHANGED line
     ELSE /\ line' = [line EXCEPT ![r][i] = "spawned"]
          /\ dist' = [dist EXCEPT ![r] =
                        [at |-> IF WaitsAfter(r, i) THEN "wait" ELSE "next",
                         i |-> i + 1, bg |-> Append(@.bg, i)]]
  /\ UNCHANGED <<registryVars, status, ctx, stop, sel, callVars, runVars>>

Returned(r, i) ==
  \/ line[r][i] = "failed"
  \/ /\ line[r][i] = "sent"
     /\ \A a \in sel[r][i] : call[[r |-> r, i |-> i, a |-> a]] \in {"ok", "err"}

Failed(r, i) ==
  \/ line[r][i] = "failed"
  \/ \E a \in sel[r][i] : call[[r |-> r, i |-> i, a |-> a]] = "err"

\* waitBackground: the lines in order, up to the first error that breaks.
DistWait(r) ==
  /\ dist[r].at \in {"wait", "drain"}
  /\ IF dist[r].bg = << >>
     THEN IF dist[r].at = "drain" THEN EndWithError(r)
                                  ELSE SetDist(r, "next") /\ UNCHANGED status
     ELSE LET i == Head(dist[r].bg) IN
          /\ Returned(r, i)
          /\ IF Failed(r, i) /\ LineAt(r, i).errorBreak
             THEN EndWithError(r)
             ELSE /\ dist' = [dist EXCEPT ![r].bg = Tail(@)]
                  /\ UNCHANGED status
  /\ UNCHANGED <<registryVars, ctx, stop, lineVars, callVars, runVars>>

\* aggregateAndGenerate fails or not (module ReportStore).
Aggregate(r) ==
  /\ dist[r].at = "aggregate"
  /\ SetDist(r, "end")
  /\ \E s \in {"done", "error"} : status' = [status EXCEPT ![r] = s]
  /\ UNCHANGED <<registryVars, ctx, stop, lineVars, callVars, runVars>>
-----------------------------------------------------------------------------
(* distributeSingleCase, distributeControlInstruction, enqueueAgentTask.   *)

\* The agents that get a part, out of those available.  The order of agents is
\* that of a map, so any of them may be the ones without a share.
Recipients(r, i) ==
  LET C == Candidates(r)
      n == Cardinality(C)
      sharing == {k \in 0..(n - 1) : HasShare(0, req[r].ids, n, k)}
      number == CASE LineAt(r, i).kind = "one" -> 1
                  [] LineAt(r, i).kind = "stress" /\ ~req[r].copy -> Cardinality(sharing)
                  [] OTHER -> n
  IN {S \in SUBSET C : Cardinality(S) = number}

PartsOf(r, i, S) == {p \in Part : p.r = r /\ p.i = i /\ p.a \in S}

\* Without agents a stress line fails and a control line succeeds.
LineNoAgent(r, i) ==
  /\ line[r][i] = "spawned"
  /\ Candidates(r) = {}
  /\ line' = [line EXCEPT ![r][i] =
                IF LineAt(r, i).kind = "stress" THEN "failed" ELSE "sent"]
  /\ UNCHANGED <<registryVars, taskVars, sel, callVars, runVars>>

LineSend(r, i) ==
  /\ line[r][i] = "spawned"
  /\ Candidates(r) # {}
  /\ \E S \in Recipients(r, i) :
       LET P == PartsOf(r, i, S) IN
       /\ sel' = [sel EXCEPT ![r][i] = S]
       /\ call' = [p \in Part |-> IF p \in P THEN "enqueue" ELSE call[p]]
       /\ results' = {e \in results : \A p \in P : e[1] # Key(p)}
                       \cup {<<Key(p), p>> : p \in P}
  /\ line' = [line EXCEPT ![r][i] = "sent"]
  /\ UNCHANGED <<registryVars, taskVars, inbox, runVars>>

\* getOrCreateAgentQueueLocked makes a channel of this capacity.
QueueRoom(a) == Len(queue[a]) < QueueCap

SetCall(p, l) == call' = [call EXCEPT ![p] = l]

\* A select with several ready cases takes any of them: a part may be queued
\* although its context is cancelled.
Enqueue(p) ==
  /\ call[p] = "enqueue"
  /\ QueueRoom(p.a)
  /\ queue' = [queue EXCEPT ![p.a] = Append(@, p)]
  /\ SetCall(p, "wait")
  /\ UNCHANGED <<registry, proc, gone, taskVars, lineVars, results, inbox, runVars>>

CallResult(p) ==
  /\ call[p] = "wait"
  /\ inbox[p] # "empty"
  /\ SetCall(p, inbox[p])
  /\ Forget(p)
  /\ UNCHANGED <<registryVars, taskVars, lineVars, runVars>>

\* Mutant of CanGiveUp: the wait for the result has no limit.
CanGiveUpUnqueued(p) ==
  \/ call[p] \in {"enqueue", "void", "wait"} /\ p.r \in ctx
  \/ call[p] = "enqueue" /\ ~QueueRoom(p.a)
  \/ call[p] = "void"

\* "task cancelled"; or 35 s before a place in the queue, 35 min for the result.
CanGiveUp(p) ==
  \/ call[p] \in {"enqueue", "void", "wait"} /\ p.r \in ctx
  \/ call[p] = "enqueue" /\ ~QueueRoom(p.a)
  \/ call[p] \in {"void", "wait"}

CallGiveUp(p) ==
  /\ CanGiveUp(p)
  /\ SetCall(p, "err")
  /\ Forget(p)
  /\ UNCHANGED <<registryVars, taskVars, lineVars, runVars>>
-----------------------------------------------------------------------------
(* The agents.                                                             *)

Lives(p) == run[p] \in {"run", "stopped"}

\* The process of agent a ends: so do its parts, and their connections break.
KillParts(a) ==
  /\ run' = [p \in Part |-> IF p.a = a /\ Lives(p) THEN "dead" ELSE run[p]]
  /\ watch' = [p \in Part |-> IF p.a = a /\ watch[p] = "open" THEN "gone"
                              ELSE watch[p]]

\* pollLoop starts executeTask; a stress part opens its cancel watch.
AgentTake(a) ==
  /\ Take(a)
  /\ LET p == Head(queue[a]) IN
     /\ run' = [run EXCEPT ![p] = "run"]
     /\ watch' = [watch EXCEPT ![p] =
                    IF LineAt(p.r, p.i).kind = "stress" THEN "open" ELSE @]
  /\ UNCHANGED <<taskVars, lineVars, callVars, signal>>

\* postResult and handleAgentResult: the result goes to whoever waits under the
\* part's key, if nobody was quicker; the request may also get lost.
PostResult(p, res) ==
  \/ inbox' = [q \in Part |-> IF q \in Owner(p) /\ inbox[q] = "empty" THEN res
                              ELSE inbox[q]]
  \/ inbox' = inbox

\* executeTask after RunCaseInner (its writes to Redis are in AgentData), or
\* executeControlTask.  A stopped case may report success too.
PartEnd(p) ==
  /\ Lives(p)
  /\ LineAt(p.r, p.i).kind # "reboot"
  /\ \E res \in {"ok", "err"} :
       run' = [run EXCEPT ![p] = res] /\ PostResult(p, res)
  /\ watch' = [watch EXCEPT ![p] = IF @ = "open" THEN "gone" ELSE @]
  /\ UNCHANGED <<registryVars, taskVars, lineVars, call, results, signal>>

\* performReboot: the result is sent before the process is replaced.
RebootReport(p) ==
  /\ run[p] = "run"
  /\ LineAt(p.r, p.i).kind = "reboot"
  /\ run' = [run EXCEPT ![p] = "exec"]
  /\ PostResult(p, "ok")
  /\ UNCHANGED <<registryVars, taskVars, lineVars, call, results, watch, signal>>

\* execSelf: a new process in the place of the old one (MaxSession does not count
\* it, but bounds it), or no new process.
RebootExec(p) ==
  /\ run[p] = "exec"
  /\ IF Up(p.a) /\ proc[p.a].session <= MaxSession
     THEN /\ LeaveConnection(p.a)
          /\ proc' = [proc EXCEPT ![p.a] =
                        [session |-> @.session + 1, at |-> "register"]]
          /\ watch' = [q \in Part |-> IF q.a = p.a /\ watch[q] = "open"
                                      THEN "gone" ELSE watch[q]]
          /\ run' = [q \in Part |-> IF q = p THEN "ok"
                                    ELSE IF q.a = p.a /\ Lives(q) THEN "dead"
                                    ELSE run[q]]
     ELSE /\ run' = [run EXCEPT ![p] = "ok"]
          /\ UNCHANGED <<proc, gone, watch>>
  /\ UNCHANGED <<registry, queue, taskVars, lineVars, callVars, signal>>

\* watchCancelSignal: a signal for another report is read and dropped.
WatchSignal(p) ==
  /\ watch[p] = "open"
  /\ signal[p.a] # << >>
  /\ signal' = [signal EXCEPT ![p.a] = Tail(@)]
  /\ IF Head(signal[p.a]) = p.r
     THEN /\ run' = [run EXCEPT ![p] = "stopped"]
          /\ watch' = [watch EXCEPT ![p] = "none"]
     ELSE UNCHANGED <<run, watch>>
  /\ UNCHANGED <<registryVars, taskVars, lineVars, callVars>>

\* handleAgentCancelWatch for a client that has left: it ends, with a signal or
\* without.
WatchGone(p) ==
  /\ watch[p] = "gone"
  /\ watch' = [watch EXCEPT ![p] = "none"]
  /\ \/ UNCHANGED signal
     \/ signal[p.a] # << >> /\ signal' = [signal EXCEPT ![p.a] = Tail(@)]
  /\ UNCHANGED <<registryVars, taskVars, lineVars, callVars, run>>

\* A registration that is refused ends the process, as a crash does.
AgentEnds(a) ==
  /\ Crash(a) \/ (Register(a) /\ Conflict(a))
  /\ KillParts(a)
  /\ UNCHANGED <<taskVars, lineVars, callVars, signal>>

AgentCleanup(a) ==
  /\ Cleanup(a)
  /\ signal' = [signal EXCEPT ![a] = << >>]
  /\ call' = [p \in Part |-> IF p.a = a /\ call[p] = "enqueue" THEN "void"
                             ELSE call[p]]
  /\ UNCHANGED <<taskVars, lineVars, results, inbox, run, watch>>

\* Register and Poll in one: the master is in the same state between them.
Connect(a) ==
  /\ proc[a].at = "register"
  /\ ~Conflict(a)
  /\ registry' = [registry EXCEPT ![a] =
                    [status |-> "online", session |-> proc[a].session]]
  /\ At(a, "polling")
  /\ UNCHANGED <<queue, gone>>

\* The steps of AgentRegistry that have no other effect.
RegistryStep(a) ==
  /\ \/ Start(a) \/ Connect(a) \/ TakeGone(a)
     \/ PollTimeout(a) \/ Disconnect(a) \/ Noticed(a)
  /\ UNCHANGED <<taskVars, lineVars, callVars, runVars>>
-----------------------------------------------------------------------------
(* handleStopTask.                                                         *)

\* The status is read under one lock and written under another; without a
\* cancel function the context is not cancelled.
StopTask(r) ==
  /\ status[r] = "running"
  /\ stop[r] = "none"
  /\ ctx' = IF dist[r].at \in {"submit", "end"} THEN ctx ELSE ctx \cup {r}
  /\ stop' = [stop EXCEPT ![r] = "write"]
  /\ UNCHANGED <<registryVars, status, dist, lineVars, callVars, runVars>>

StopWrite(r) ==
  /\ stop[r] = "write"
  /\ status' = [status EXCEPT ![r] = "stopped"]
  /\ stop' = [stop EXCEPT ![r] = "send"]
  /\ UNCHANGED <<registryVars, dist, ctx, lineVars, callVars, runVars>>

\* Mutant of Cancelled: the signal goes to the agents that wait for work.
CancelledOnline(r) == {a \in req[r].target : registry[a].status = "online"}

\* sendCancelToAgents looks at no status.
Cancelled(r) == {a \in req[r].target : registry[a].status # "none"}

StopSend(r) ==
  /\ stop[r] = "send"
  /\ stop' = [stop EXCEPT ![r] = "sent"]
  /\ signal' = [a \in Agent |->
                  IF a \in Cancelled(r) /\ Len(signal[a]) < CancelCap
                  THEN Append(signal[a], r) ELSE signal[a]]
  /\ UNCHANGED <<registryVars, status, dist, ctx, lineVars, callVars, run,
                 watch>>
-----------------------------------------------------------------------------
ReportStep(r) ==
  \/ SubmitTask(r) \/ SubmitStart(r) \/ DistNext(r) \/ DistWait(r)
  \/ Aggregate(r)
  \/ StopTask(r) \/ StopWrite(r) \/ StopSend(r)
  \/ \E i \in 1..MaxIndex : LineNoAgent(r, i) \/ LineSend(r, i)

PartStep(p) ==
  \/ Enqueue(p) \/ CallResult(p) \/ CallGiveUp(p)
  \/ PartEnd(p) \/ RebootReport(p) \/ RebootExec(p)
  \/ WatchSignal(p) \/ WatchGone(p)

AgentStep(a) ==
  AgentTake(a) \/ AgentEnds(a) \/ AgentCleanup(a) \/ RegistryStep(a)

Step ==
  \/ \E r \in Report : ReportStep(r)
  \/ \E p \in Part : PartStep(p)
  \/ \E a \in Agent : AgentStep(a)

\* The parts an agent has or may get, up to the end of the cancel watch.
PartsAt(a) ==
  {p \in Part : /\ p.a = a
                /\ \/ line[p.r][p.i] = "spawned" /\ a \in req[p.r].target
                   \/ call[p] \in {"enqueue", "wait"}
                   \/ \E k \in DOMAIN queue[a] : queue[a][k] = p
                   \/ Lives(p) \/ run[p] = "exec" \/ watch[p] # "none"}

Next ==
  /\ Step
  /\ UNCHANGED req
  /\ lapsed' = lapsed \cup {a \in Agent :
                    \/ Cardinality(PartsAt(a)') > 1
                    \/ registry'[a].status = "none" /\ ctx' # {}}

\* The goroutines of the master, with their time limits; an agent that runs
\* registers, polls and ends a case whose context is cancelled.  A case need not
\* end by itself.
Fairness ==
  /\ \A r \in Report :
       /\ WF_stepVars(SubmitStart(r) \/ DistNext(r) \/ DistWait(r) \/ Aggregate(r))
       /\ WF_stepVars(StopWrite(r) \/ StopSend(r))
       /\ \A i \in 1..MaxIndex : WF_stepVars(LineNoAgent(r, i) \/ LineSend(r, i))
  /\ \A p \in Part :
       /\ WF_stepVars(Enqueue(p) \/ CallResult(p) \/ CallGiveUp(p))
       /\ WF_stepVars(run[p] = "stopped" /\ PartEnd(p))
       /\ WF_stepVars(WatchSignal(p))
       /\ WF_stepVars(WatchGone(p))
  /\ \A a \in Agent :
       /\ WF_stepVars((Register(a) /\ AgentEnds(a)) \/ (Connect(a) /\ RegistryStep(a)))
       /\ WF_stepVars(AgentTake(a) \/ (PollTimeout(a) /\ RegistryStep(a)))

Spec == Init /\ [][Next]_vars /\ Fairness
-----------------------------------------------------------------------------
TypeOK ==
  /\ registry \in [Agent -> [status : {"none", "online", "busy", "offline"},
                             session : 0..(MaxSession + 1)]]
  /\ proc \in [Agent -> [session : 0..(MaxSession + 1),
                         at : {"down", "register", "poll", "polling"}]]
  /\ gone \subseteq Agent
  /\ \A a \in Agent : Len(queue[a]) <= QueueCap /\ Len(signal[a]) <= CancelCap
  /\ status \in [Report -> {"none", "running", "stopped", "done", "error"}]
  /\ call \in [Part -> {"none", "enqueue", "void", "wait", "ok", "err"}]
  /\ run \in [Part -> {"none", "run", "stopped", "exec", "ok", "err", "dead"}]
  /\ results \subseteq {<<Key(p), q>> : p, q \in Part}

\* A task that is "done" has run: every part of every line with error_break was
\* executed by its agent and reported success, the background lines included
\* (waitBackground, errorBreak).  The exception is a control instruction sent in
\* the same second as one of another report: they share a key (taskKey).
DoneIsHonest ==
  \A r \in Report : \A i \in Index(r) :
    status[r] = "done" /\ LineAt(r, i).errorBreak =>
      \/ OneSecond /\ LineAt(r, i).kind # "stress"
      \/ line[r][i] = "sent" /\ \A a \in sel[r][i] :
            run[[r |-> r, i |-> i, a |-> a]] \in {"ok", "exec"}

\* However many agents share a stress line, every open id is run by one of them
\* (distributeSingleCase, "balance").
IdsRunOnce ==
  \A r \in Report : \A n \in 1..4 : ExactlyOnce(0, req[r].ids, n)

\* A submitted task comes to an end, whatever becomes of the agents, and leaves
\* no result channel behind in taskResults (distributeAndWait, enqueueAgentTask).
TaskEnds ==
  /\ \A r \in Report : dist[r].at # "none" ~> dist[r].at = "end"
  /\ <>[](results = {})

\* A stress part of a stopped report does not go on running: the signal of
\* sendCancelToAgents is in the agent's channel, however late the part is taken
\* from the queue.  With two parts on one agent the wrong watch may read the
\* signal, and an agent that is not registered is sent none.
StopIsObeyed ==
  \A p \in Part :
    <>[](p.r \in ctx => \/ p.a \in lapsed
                        \/ run[p] # "run"
                        \/ LineAt(p.r, p.i).kind # "stress")
=============================================================================
