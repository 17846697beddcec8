---------------------------- MODULE CaseFileRun ----------------------------
(***************************************************************************)
(* One process that executes a case file by itself: StartSolo              *)
(* (mode/solo/solo.go), which measures and writes a report, or             *)
(* StartStandalone with RunCaseFileStandAlone (mode/standalone,            *)
(* case/case.go), which only runs the cases.  The main goroutine goes      *)
(* through the lines, round after round; every line runs in a goroutine of *)
(* its own; a line without & waits for all lines before it.  A case is     *)
(* what CaseTasks shows of RunCaseInner: it returns, with or without an    *)
(* error.                                                                  *)
(***************************************************************************)
EXTENDS CaseFile, FiniteSets

CONSTANTS
  Files,     \* the case files tried, sequences of raw lines
  Repeated,  \* the flag case_file_repeated
  MaxRecords \* bound: the tracing records the cases make together

ASSUME CaseFileRunAssumption ==
  /\ Repeated \in Int
  /\ MaxRecords \in Nat
  /\ Files \subseteq Seq(RawLine)
  /\ \E f \in Files : \A g \in Files : Len(g) <= Len(f)

Rounds == IF Repeated < 1 THEN 1 ELSE Repeated

VARIABLES
  mode,    \* "solo" or "standalone"
  file,    \* the raw lines
  parsed,  \* the lines parsed so far, see ParseStep
  main,    \* where the main goroutine is
  round,   \* the round, from 0
  at,      \* the next line of the round, before that of the file
  bgTasks, \* the tasks to be waited for, in order
  waitAt,  \* the task waitRunningTask is at
  abort,   \* abortRemaining
  task,    \* the goroutine of each task
  failed,  \* the task's result is an error
  tracer,  \* the records in the task's tracer
  batch,   \* the records flushOnce has taken from it
  online,  \* the collector of online_users runs
  redis,   \* the records in the report's tracing lists
  refused, \* the records of writes that failed (history)
  all,     \* allTracings
  cleaned, \* the records the metrics of the report are computed from
  page,    \* the records in the page, NoPage before
  status   \* the exit status, "none" while the process runs

mainVars == <<main, round, at, bgTasks, waitAt, abort>>
dataVars == <<tracer, batch, redis, refused, all>>
endVars == <<cleaned, page, status>>
vars == <<mode, file, parsed, mainVars, task, failed, online, dataVars, endVars>>

lines == parsed.lines

NoPage == {<<0, -1>>}  \* no record of a task

\* A task is named by its caseIndex.
MaxLen == CHOOSE n \in {Len(f) : f \in Files} : \A f \in Files : Len(f) <= n
Task == 0 .. Rounds * MaxLen - 1
LineOf(t) == lines[(t % Len(lines)) + 1]
RoundOf(t) == t \div Len(lines)

Init ==
  /\ mode \in {"solo", "standalone"}
  /\ file \in Files
  /\ parsed = ParseBegin
  /\ main = "parse"
  /\ round = 0
  /\ at = 1
  /\ bgTasks = <<>>
  /\ waitAt = 1
  /\ abort = FALSE
  /\ task = [t \in Task |-> "none"]
  /\ failed = [t \in Task |-> FALSE]
  /\ tracer = [t \in Task |-> {}]
  /\ batch = [t \in Task |-> {}]
  /\ online = FALSE
  /\ redis = {}
  /\ refused = {}
  /\ all = {}
  /\ cleaned = {}
  /\ page = NoPage
  /\ status = "none"
-----------------------------------------------------------------------------
(* The main goroutine.                                                     *)

Exit(s) == main' = "exit" /\ status' = s

\* ParseCaseFileContent: the next line of the file.
ParseLineOfFile ==
  /\ main = "parse"
  /\ ~parsed.err
  /\ at <= Len(file)
  /\ parsed' = ParseStep(parsed, file[at])
  /\ at' = at + 1
  /\ UNCHANGED <<mode, file, main, round, bgTasks, waitAt, abort, task, failed, online,
                 dataVars, endVars>>

\* A file that is refused ends the process; an empty one is no error standalone.
ParseOver ==
  /\ main = "parse"
  /\ parsed.err \/ at > Len(file)
  /\ at' = 1
  /\ IF parsed.err \/ lines = <<>>
     THEN Exit(IF parsed.err \/ mode = "solo" THEN "failed" ELSE "ok")
     ELSE main' = "line" /\ UNCHANGED status
  /\ UNCHANGED <<mode, file, parsed, round, bgTasks, waitAt, abort, task, failed, online,
                 dataVars, cleaned, page>>

\* Control lines are skipped standalone; after a breaking failure solo goes on
\* only with control lines that do not break.
Skipped(line) ==
  IF mode = "standalone" THEN line.control
  ELSE abort /\ (~line.control \/ line.errorBreak)

MainSkip ==
  /\ main = "line"
  /\ at <= Len(lines)
  /\ Skipped(lines[at])
  /\ at' = at + 1
  /\ UNCHANGED <<mode, file, parsed, main, round, bgTasks, waitAt, abort, task, failed,
                 online, dataVars, endVars>>

\* Start the line's goroutine; a line without & waits.
MainLaunch ==
  LET t == round * Len(lines) + at - 1
  IN  /\ main = "line"
      /\ at <= Len(lines)
      /\ ~Skipped(lines[at])
      /\ bgTasks' = Append(bgTasks, t)
      /\ task' = [task EXCEPT ![t] = "begin"]
      /\ at' = at + 1
      /\ main' = IF lines[at].bg THEN "line" ELSE "wait"
      /\ waitAt' = 1
      /\ UNCHANGED <<mode, file, parsed, round, abort, failed, online, dataVars, endVars>>

\* The end of a round waits for what is left, unless a failure has broken it.
MainRoundEnd ==
  /\ main = "line"
  /\ at > Len(lines)
  /\ main' = IF abort THEN "clean" ELSE "roundwait"
  /\ waitAt' = 1
  /\ UNCHANGED <<mode, file, parsed, round, at, bgTasks, abort, task, failed, online,
                 dataVars, endVars>>

\* Mutant of Breaks: ErrorBreak is ignored.
BreaksNever(t) == FALSE

\* Does the failure of a task end the wait?  Standalone, any does.
Breaks(t) == failed[t] /\ (mode = "standalone" \/ LineOf(t).errorBreak)

\* waitRunningTask, runCaseWait: the result of the next task.  After a breaking
\* failure the wait is over, and bgTasks stays as it is.
WaitReceive ==
  /\ main \in {"wait", "roundwait"}
  /\ waitAt <= Len(bgTasks)
  /\ LET t == bgTasks[waitAt]
     IN  /\ task[t] = "done"
         /\ task' = [task EXCEPT ![t] = "received"]
         /\ IF ~Breaks(t)
            THEN waitAt' = waitAt + 1 /\ UNCHANGED <<main, abort, status>>
            ELSE /\ abort' = TRUE
                 /\ UNCHANGED waitAt
                 /\ IF mode = "standalone" THEN Exit("failed")
                    ELSE /\ main' = IF main = "wait" THEN "line" ELSE "clean"
                         /\ UNCHANGED status
  /\ UNCHANGED <<mode, file, parsed, round, at, bgTasks, failed, online, dataVars,
                 cleaned, page>>

\* Mutant of WaitedFor: the tasks that were waited for stay in the list.
WaitedForKept(s) == s

WaitedFor(s) == <<>>

RoundsLeft == round + 1 < Rounds

\* All results are there: go on with the next line, the next round, or the end.
WaitOver ==
  /\ main \in {"wait", "roundwait"}
  /\ waitAt > Len(bgTasks)
  /\ bgTasks' = WaitedFor(bgTasks)
  /\ IF main = "wait" THEN main' = "line" /\ UNCHANGED <<round, at, status>>
     ELSE IF RoundsLeft
     THEN main' = "line" /\ round' = round + 1 /\ at' = 1 /\ UNCHANGED status
     ELSE /\ IF mode = "standalone" THEN Exit("ok")
             ELSE main' = "clean" /\ UNCHANGED status
          /\ UNCHANGED <<round, at>>
  /\ waitAt' = 1
  /\ UNCHANGED <<mode, file, parsed, abort, task, failed, online, dataVars, cleaned,
                 page>>

\* CleanTracingsToMetrics.
MainClean ==
  /\ main = "clean"
  /\ cleaned' = all
  /\ main' = "page"
  /\ UNCHANGED <<mode, file, parsed, round, at, bgTasks, waitAt, abort, task, failed,
                 online, dataVars, page, status>>

\* The page, LogoutAllUsers and the end; the page may not be writable.
MainPage ==
  /\ main = "page"
  /\ \/ page' = all /\ Exit(IF abort THEN "failed" ELSE "ok")
     \/ page' = page /\ Exit("failed")
  /\ UNCHANGED <<mode, file, parsed, round, at, bgTasks, waitAt, abort, task, failed,
                 online, dataVars, cleaned>>
-----------------------------------------------------------------------------
(* The goroutine of a line.                                                *)

Goto(t, l) == task' = [task EXCEPT ![t] = l]

Measured(t) == mode = "solo" /\ ~LineOf(t).control

\* A measured case starts the collector all cases share.
TaskBegin(t) ==
  /\ task[t] = "begin"
  /\ Goto(t, "run")
  /\ online' = (online \/ Measured(t))
  /\ UNCHANGED <<mode, file, parsed, mainVars, failed, dataVars, endVars>>

Made == all \cup UNION {tracer[t] \cup batch[t] : t \in Task}

TaskRecord(t) ==
  LET k == Cardinality(Made) + 1
  IN  /\ task[t] = "run"
      /\ Measured(t)
      /\ k <= MaxRecords
      /\ tracer' = [tracer EXCEPT ![t] = @ \cup {<<k, t>>}]
      /\ UNCHANGED <<mode, file, parsed, mainVars, task, failed, online, batch, redis,
                     refused, all, endVars>>

\* flushOnce: Flush of the tracer...
Flush(t) ==
  /\ tracer' = [tracer EXCEPT ![t] = {}]
  /\ batch' = [batch EXCEPT ![t] = tracer[t]]
  /\ UNCHANGED <<redis, refused, all>>

\* ...then Redis, whose errors are only logged, and, under accMu, allTracings.
Store(t) ==
  /\ \/ redis' = redis \cup batch[t] /\ UNCHANGED refused
     \/ refused' = refused \cup batch[t] /\ UNCHANGED redis
  /\ all' = all \cup batch[t]
  /\ batch' = [batch EXCEPT ![t] = {}]
  /\ UNCHANGED tracer

\* The ticker of the case.
TickFlush(t) ==
  /\ task[t] = "run"
  /\ tracer[t] # {}
  /\ batch[t] = {}
  /\ Flush(t)
  /\ UNCHANGED <<mode, file, parsed, mainVars, task, failed, online, endVars>>

TickStore(t) ==
  /\ task[t] \in {"run", "stop"}
  /\ batch[t] # {}
  /\ Store(t)
  /\ UNCHANGED <<mode, file, parsed, mainVars, task, failed, online, endVars>>

\* RunCaseInner or RunControlInner returns.
TaskReturn(t, err) ==
  /\ task[t] = "run"
  /\ failed' = [failed EXCEPT ![t] = err]
  /\ Goto(t, IF Measured(t) THEN "stop" ELSE "done")
  /\ UNCHANGED <<mode, file, parsed, mainVars, online, dataVars, endVars>>

\* <-flushDone, StopAutoCollect, Collect.
TaskStop(t) ==
  /\ task[t] = "stop"
  /\ batch[t] = {}
  /\ online' = FALSE
  /\ Goto(t, "flush")
  /\ UNCHANGED <<mode, file, parsed, mainVars, failed, dataVars, endVars>>

\* Mutant of FinalFlush: what the ticker has not taken is left in the tracer.
FinalFlushSkipped(t) == UNCHANGED dataVars

FinalFlush(t) == Flush(t)

TaskFlush(t) ==
  /\ task[t] = "flush"
  /\ FinalFlush(t)
  /\ Goto(t, "store")
  /\ UNCHANGED <<mode, file, parsed, mainVars, failed, online, endVars>>

\* The last writes; the result goes into the channel.
TaskStore(t) ==
  /\ task[t] = "store"
  /\ Store(t)
  /\ Goto(t, "done")
  /\ UNCHANGED <<mode, file, parsed, mainVars, failed, online, endVars>>
-----------------------------------------------------------------------------
MainStep ==
  \/ ParseLineOfFile
  \/ ParseOver
  \/ MainSkip
  \/ MainLaunch
  \/ MainRoundEnd
  \/ WaitReceive
  \/ WaitOver
  \/ MainClean
  \/ MainPage

TaskEnds(t) ==
  \/ TaskBegin(t)
  \/ TickStore(t)
  \/ \E err \in BOOLEAN : TaskReturn(t, err)
  \/ TaskStop(t)
  \/ TaskFlush(t)
  \/ TaskStore(t)

\* The end of the process ends its goroutines.
Next ==
  /\ status = "none"
  /\ \/ MainStep
     \/ \E t \in Task : TaskEnds(t) \/ TickFlush(t) \/ TaskRecord(t)

Spec == Init /\ [][Next]_vars

\* Goroutines run and every case returns (CaseReturns of CaseTasks).
FairSpec ==
  /\ Spec
  /\ WF_vars(status = "none" /\ MainStep)
  /\ \A t \in Task : WF_vars(status = "none" /\ TaskEnds(t))
-----------------------------------------------------------------------------
Line == [control : BOOLEAN, bg : BOOLEAN, errorBreak : BOOLEAN, prefix : Prefix]
TaskRecords == (1 .. MaxRecords) \X Task

TypeOK ==
  /\ mode \in {"solo", "standalone"}
  /\ file \in Files
  /\ parsed \in [lines : Seq(Line), prefix : Prefix, err : BOOLEAN]
  /\ main \in {"parse", "line", "wait", "roundwait", "clean", "page", "exit"}
  /\ round \in 0 .. Rounds - 1
  /\ at \in 1 .. MaxLen + 1
  /\ bgTasks \in Seq(Task)
  /\ waitAt \in 1 .. Len(bgTasks) + 1
  /\ abort \in BOOLEAN
  /\ task \in [Task -> {"none", "begin", "run", "stop", "flush", "store", "done",
                        "received"}]
  /\ failed \in [Task -> BOOLEAN]
  /\ tracer \in [Task -> SUBSET TaskRecords]
  /\ batch \in [Task -> SUBSET TaskRecords]
  /\ online \in BOOLEAN
  /\ redis \subseteq TaskRecords
  /\ refused \subseteq TaskRecords
  /\ all \subseteq TaskRecords
  /\ cleaned \subseteq TaskRecords
  /\ page = NoPage \/ page \subseteq TaskRecords
  /\ status \in {"none", "ok", "failed"}

Active(t) == task[t] \in {"begin", "run", "stop", "flush", "store"}

\* "The prefix may not change from a background line to the next foreground line"
\* (parse_case.go): cases that run at the same time, in whatever order they
\* start and end, work on users with the same prefix, except beside a case
\* whose prefix is empty, and never in two different rounds.
RunningSharePrefix ==
  \A t, u \in Task : Active(t) /\ Active(u) /\ t # u =>
    /\ RoundOf(t) = RoundOf(u)
    /\ ~LineOf(t).control /\ ~LineOf(u).control =>
         \/ LineOf(t).prefix = LineOf(u).prefix
         \/ NoPrefix \in {LineOf(t).prefix, LineOf(u).prefix}

\* A report that is not cut short by a breaking failure is complete: every
\* record of every case is in the page, in the metrics, and, unless a write
\* failed, in Redis, and nothing is left in a tracer.
ReportComplete ==
  page # NoPage /\ ~abort =>
    /\ \A t \in Task : tracer[t] = {} /\ batch[t] = {}
    /\ page = cleaned
    /\ page = redis \cup refused

\* The exit status is honest: 0 only if every line that was started has been
\* waited for and none that counts has failed.
StatusIsHonest ==
  status = "ok" =>
    \A t \in Task :
      /\ ~Active(t) /\ task[t] # "done"
      /\ task[t] = "received" /\ failed[t] =>
           mode = "solo" /\ ~LineOf(t).errorBreak

\* waitRunningTask waits for a result that was received by an earlier wait.
Hung ==
  /\ main = "wait"
  /\ abort
  /\ waitAt <= Len(bgTasks)
  /\ task[bgTasks[waitAt]] = "received"

\* The process ends with a status, and solo with a report, unless a foreground
\* control line that does not break comes after a breaking failure: then
\* waitRunningTask waits for ever.
ProcessEnds == <>(status # "none" \/ Hung)
=============================================================================
