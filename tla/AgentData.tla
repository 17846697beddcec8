----------------------------- MODULE AgentData -----------------------------
(***************************************************************************)
(* The way of the measured data: executeTask (mode/agent/agent.go) flushes *)
(* the tracer of each task and the metrics of the agent into Redis         *)
(* (report/impl/redis_writer.go); when all tasks have reported, the master *)
(* reads the report back (redis_reader.go), writes the page and marks the  *)
(* task done; meanwhile the report may be deleted (mode/master).  One      *)
(* report, whose tasks run at the same time on one agent.                  *)
(***************************************************************************)
EXTENDS Tracer, MetricsCollector, FiniteSets

CONSTANT LongTasks  \* the tasks whose case outlasts the flush interval

ASSUME AgentDataAssumption ==
  /\ IsFiniteSet(Task)
  /\ LongTasks \subseteq Task
  /\ "none" \notin Record  \* the mark of a missing page is not a record

VARIABLES
  pc,      \* executeTask
  count,   \* activeTaskCount
  redis,   \* the records in the report's tracing lists
  refused, \* records of writes that failed (history)
  inTime,  \* records added while the case ran (history)
  overlap, \* a task began while the last one was ending (history)
  wasted,  \* final points thrown away by a Flush without a write (history)
  meta,    \* report:meta exists
  page,    \* the records in the generated page, NoPage before
  master,  \* the goroutine of handleSubmitTask, from the last result on
  read,    \* the records aggregateAndGenerate has read
  listed,  \* the report is in the task table
  del      \* deleteReport (at most once)

agentVars == <<pc, count, overlap, wasted>>
storeVars == <<redis, refused, meta>>
masterVars == <<page, master, read, listed, del>>
vars == <<tracerVars, collectorVars, agentVars, storeVars, inTime, masterVars>>

NoPage == {"none"}

Init ==
  /\ TracerInit
  /\ CollectorInit
  /\ pc = [t \in Task |-> "new"]
  /\ count = 0
  /\ redis = {}
  /\ refused = {}
  /\ inTime = {}
  /\ overlap = FALSE
  /\ wasted = {}
  /\ meta = TRUE
  /\ page = NoPage
  /\ master = "wait"
  /\ read = {}
  /\ listed = TRUE
  /\ del = "none"

Goto(t, l) == pc' = [pc EXCEPT ![t] = l]
-----------------------------------------------------------------------------
(* The tracer, used by the case of a task.                                 *)

RecordEnd(r) ==
  /\ pc[TaskOf[r]] = "run"
  /\ EntryEnd(r)
  /\ UNCHANGED <<collectorVars, agentVars, storeVars, inTime, masterVars>>

RecordAdd(r) ==
  /\ AddRecord(r)
  /\ inTime' = IF pc[TaskOf[r]] = "run" THEN inTime \cup {r} ELSE inTime
  /\ UNCHANGED <<collectorVars, agentVars, storeVars, masterVars>>
-----------------------------------------------------------------------------
(* executeTask.                                                            *)

\* A task that ends as the last one, before it has flushed its final point.
Ending(t) == pc[t] \in {"stop", "collect", "flush", "write"}

\* The first task of several switches the collector on.
TaskBegin(t) ==
  /\ pc[t] = "new"
  /\ count' = count + 1
  /\ Goto(t, IF count = 0 THEN "discard" ELSE "run")
  /\ overlap' = (overlap \/ (count = 0 /\ \E u \in Task : Ending(u)))
  /\ UNCHANGED <<tracerVars, collectorVars, wasted, storeVars, inTime, masterVars>>

\* The points of the idle time are thrown away.
TaskDiscard(t) ==
  /\ pc[t] = "discard"
  /\ wasted' = wasted \cup series
  /\ series' = {}
  /\ Goto(t, "start")
  /\ UNCHANGED <<tracerVars, running, stopCh, collector, count, overlap, storeVars,
                 inTime, masterVars>>

TaskStart(t) ==
  /\ pc[t] = "start"
  /\ StartAutoCollect
  /\ Goto(t, "run")
  /\ UNCHANGED <<tracerVars, series, count, overlap, wasted, storeVars, inTime,
                 masterVars>>

\* flushPartialData, by the ticker: Flush...
PartialFlush(t) ==
  /\ t \in LongTasks
  /\ pc[t] = "run"
  /\ \/ out[t] = {} /\ FlushClear(t)
     \/ FlushSwitch(t)
     \/ FlushHarvest(t)
  /\ UNCHANGED <<collectorVars, agentVars, storeVars, inTime, masterVars>>

\* WriteTracings: RPush appends to what is there; an error is only logged.
WriteTracings(t) ==
  /\ \/ redis' = redis \cup out[t] /\ UNCHANGED refused
     \/ refused' = refused \cup out[t] /\ UNCHANGED redis
  /\ out' = [out EXCEPT ![t] = {}]

\* ...and the writes.
PartialWrite(t) ==
  /\ pc[t] = "run"
  /\ flush[t] = "idle"
  /\ out[t] # {}
  /\ WriteTracings(t)
  /\ series' = {}
  /\ UNCHANGED <<active, bank, entry, flush, lost, late, running, stopCh, collector,
                 agentVars, meta, inTime, masterVars>>

\* RunCaseInner returns and the flush goroutine has ended.
CaseReturns(t) ==
  /\ pc[t] = "run"
  /\ flush[t] = "idle"
  /\ out[t] = {}
  /\ Goto(t, "leave")
  /\ UNCHANGED <<tracerVars, collectorVars, count, overlap, wasted, storeVars, inTime,
                 masterVars>>

\* Mutant of LastOne: any task that ends switches the collector off.
LastOneAny == count >= 1

LastOne == count = 1

TaskLeave(t) ==
  /\ pc[t] = "leave"
  /\ count' = count - 1
  /\ Goto(t, IF LastOne THEN "stop" ELSE "flush")
  /\ UNCHANGED <<tracerVars, collectorVars, overlap, wasted, storeVars, inTime,
                 masterVars>>

TaskStop(t) ==
  /\ pc[t] = "stop"
  /\ StopAutoCollect
  /\ Goto(t, "collect")
  /\ UNCHANGED <<tracerVars, series, count, overlap, wasted, storeVars, inTime,
                 masterVars>>

\* The last task takes a final point.
TaskCollect(t) ==
  /\ pc[t] = "collect"
  /\ series' = series \cup {t}
  /\ Goto(t, "flush")
  /\ UNCHANGED <<tracerVars, running, stopCh, collector, count, overlap, wasted,
                 storeVars, inTime, masterVars>>

FinalFlush(t) ==
  /\ pc[t] = "flush"
  /\ \/ /\ FlushClear(t) \/ FlushSwitch(t)
        /\ UNCHANGED pc
     \/ FlushHarvest(t) /\ Goto(t, "write")
  /\ UNCHANGED <<collectorVars, count, overlap, wasted, storeVars, inTime, masterVars>>

\* WriteTracings, WriteMetrics, BarrierACK and postResult.
FinalWrite(t) ==
  /\ pc[t] = "write"
  /\ WriteTracings(t)
  /\ series' = {}
  /\ Goto(t, "done")
  /\ UNCHANGED <<active, bank, entry, flush, lost, late, running, stopCh, collector,
                 count, overlap, wasted, meta, inTime, masterVars>>

Collector(g) ==
  /\ CollectorTick(g) \/ CollectorCollect(g) \/ CollectorStop(g)
  /\ UNCHANGED <<tracerVars, agentVars, storeVars, inTime, masterVars>>
-----------------------------------------------------------------------------
(* The master.                                                             *)

\* EndTime is saved, and aggregateAndGenerate reads the report (ReadReport).
Aggregate ==
  /\ master = "wait"
  /\ \A t \in Task : pc[t] = "done"
  /\ IF meta THEN read' = redis /\ master' = "generate"
             ELSE read' = read /\ master' = "error"
  /\ UNCHANGED <<tracerVars, collectorVars, agentVars, storeVars, inTime, page, listed,
                 del>>

\* GenerateToFile, and the meta data with the sizes; or an error.
Generate ==
  /\ master = "generate"
  /\ meta' = TRUE
  /\ \/ page' = read /\ master' = "done"
     \/ page' = page /\ master' = "error"
  /\ UNCHANGED <<tracerVars, collectorVars, agentVars, redis, refused, inTime, read,
                 listed, del>>

\* handleGenerateHTML, handleViewReport: from what Redis holds now.
Regenerate ==
  /\ meta
  /\ page' = redis
  /\ UNCHANGED <<tracerVars, collectorVars, agentVars, storeVars, inTime, master, read,
                 listed, del>>

\* deleteReport, on request or by startExpiryCleanup: the keys in Redis...
DeleteKeys ==
  /\ del = "none"
  /\ meta' = FALSE
  /\ redis' = {}
  /\ del' = "page"
  /\ UNCHANGED <<tracerVars, collectorVars, agentVars, refused, inTime, page, master,
                 read, listed>>

\* ...the page...
DeletePage ==
  /\ del = "page"
  /\ page' = NoPage
  /\ del' = "table"
  /\ UNCHANGED <<tracerVars, collectorVars, agentVars, storeVars, inTime, master, read,
                 listed>>

\* ...and the entry of the task table.
DeleteEntry ==
  /\ del = "table"
  /\ listed' = FALSE
  /\ del' = "done"
  /\ UNCHANGED <<tracerVars, collectorVars, agentVars, storeVars, inTime, page, master,
                 read>>
-----------------------------------------------------------------------------
TaskStep(t) ==
  \/ TaskBegin(t) \/ TaskDiscard(t) \/ TaskStart(t)
  \/ PartialFlush(t) \/ PartialWrite(t)
  \/ CaseReturns(t) \/ TaskLeave(t) \/ TaskStop(t) \/ TaskCollect(t)
  \/ FinalFlush(t) \/ FinalWrite(t)

Next ==
  \/ \E r \in Record : RecordEnd(r) \/ RecordAdd(r)
  \/ \E t \in Task : TaskStep(t)
  \/ \E g \in DOMAIN collector : Collector(g)
  \/ Aggregate \/ Generate \/ Regenerate \/ DeleteKeys \/ DeletePage \/ DeleteEntry

\* The goroutines go on; a select with a closed channel takes it in the end.
Fairness ==
  /\ \A t \in Task : WF_vars(TaskStep(t))
  /\ \A g \in 1..Cardinality(Task) :
       /\ WF_vars(g \in DOMAIN collector /\ CollectorCollect(g) /\ Collector(g))
       /\ SF_vars(g \in DOMAIN collector /\ CollectorStop(g) /\ Collector(g))

Spec == Init /\ [][Next]_vars /\ Fairness
-----------------------------------------------------------------------------
TypeOK ==
  /\ active \in [Task -> 0..1]
  /\ bank \in [Task -> [0..1 -> SUBSET Record]]
  /\ entry \in [Record -> [at : {"new", "ended", "added"}, b : 0..1]]
  /\ flush \in [Task -> {"idle", "cleared", "switched"}]
  /\ count = Cardinality({t \in Task :
                pc[t] \in {"discard", "start", "run", "leave"}})
  /\ stopCh \in 0..Cardinality(Task)
  /\ redis \cup refused \cup inTime \cup lost \cup late \cup read \subseteq Record

\* A record is counted once: it is in one bank, or was returned by one Flush and
\* written once, and is not thrown away as well.
RecordOnce ==
  LET kept(t) == <<bank[t][0], bank[t][1], out[t]>>
      gone == <<redis, refused, lost>>
  IN /\ \A t \in Task : \A i, j \in 1..3 : i # j => kept(t)[i] \cap kept(t)[j] = {}
     /\ \A t \in Task : \A i, j \in 1..3 : kept(t)[i] \cap gone[j] = {}
     /\ \A i, j \in 1..3 : i # j => gone[i] \cap gone[j] = {}

\* A task that the table shows as done has its page, unless it is being deleted,
\* and the page has every record that was added while the case ran, except those
\* whose write failed and those added to a bank after its harvest (addRecord
\* reads the index before it locks).
PageIsComplete ==
  /\ listed /\ master = "done" => page # NoPage \/ del \in {"page", "table"}
  /\ master = "done" /\ del = "none" =>
       inTime \ (refused \cup late) \subseteq page

\* While a case runs the collector is on or about to be, and no final point is
\* thrown away by the next task, unless that task began while the last one was
\* ending: then the count goes 0, 1 before StopAutoCollect and Flush.
CollectorFollowsTasks ==
  \/ overlap
  \/ /\ wasted = {}
     /\ (\E t \in Task : pc[t] = "run") =>
          running \/ \E u \in Task : pc[u] \in {"discard", "start"}

\* When all tasks are done no collector goroutine is left.
CollectorEnds ==
  (\A t \in Task : pc[t] = "done") ~>
     (\A g \in DOMAIN collector : collector[g] = Ended)
=============================================================================
