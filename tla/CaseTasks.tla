----------------------------- MODULE CaseTasks -----------------------------
(***************************************************************************)
(* RunCaseInner (case/case.go) with the order of its channels and with its *)
(* task objects.  A task object outlives a run: onFinishFunc puts it into  *)
(* the worker's sync.Pool, and the worker resets and starts it again.      *)
(* TimeoutKill finishes a task that is not waiting in Yield while its      *)
(* HookRun goes on, so a run and the object it was started with are told   *)
(* apart.  As long as no timer expires this implements CaseDispatch.       *)
(***************************************************************************)
EXTENDS CaseParams, Sequences

CONSTANT MaxTimers  \* bound: the number of tasks that arm their timer

ASSUME MaxTimersAssumption == MaxTimers \in Nat

\* The goroutines that execute a run, and the task objects the pools create.
Run == 1 .. UserCount * RunTime
Object == 1 .. UserCount * RunTime
NoObject == 0

VARIABLES
  dispatch,   \* dispatchTaskCount of each user
  queue,      \* userHolderChannel of each worker
  wpc,        \* where each worker is
  hand,       \* the task object the worker is about to start
  started,    \* runTaskCount of each worker
  wg,         \* the WaitGroup counter of the worker's manager
  pool,       \* how often each object is in the worker's pool
  objects,    \* the number of objects created
  holder,     \* UserHolder of each object
  finished,   \* the finished flag of each object
  onFinish,   \* onFinishFunc is registered with the object
  timer,      \* the object's timer, and the Finish it may be in
  runs,       \* the runs that are not over: state, object, user, outcome
  ran,        \* the number of runs started for each user
  bad,        \* some run has returned an error or has been timed out
  failed,     \* failedCount
  broke,      \* errorBreakState is set
  cancelled,  \* ctx.Err() # nil
  result      \* what RunCaseInner has returned; "panic": the process is gone

workerVars == <<wpc, hand, started>>
objectVars == <<holder, finished, onFinish, timer>>
poolVars == <<pool, objects>>
countVars == <<ran, bad>>
outcomeVars == <<failed, broke>>
vars == <<dispatch, queue, wpc, hand, started, wg, pool, objects, holder,
          finished, onFinish, timer, runs, ran, bad, failed, broke, cancelled, result>>

NoRun == [st |-> "none", obj |-> NoObject, user |-> NoUser, err |-> FALSE]

\* The users of a worker in the order in which they are first put in: the users
\* go round the workers.
Share(w) ==
  [k \in 1 .. ((UserCount - 1 - w) \div WorkerCount) + 1 |-> w + (k - 1) * WorkerCount]

\* The share, n times over.
Repeat(s, n) == [i \in 1 .. n * Len(s) |-> s[((i - 1) % Len(s)) + 1]]

Init ==
  /\ dispatch = [u \in User |-> InitialRounds]
  /\ queue = [w \in Worker |-> Repeat(Share(w), InitialRounds)]
  /\ wpc = [w \in Worker |-> "loop"]
  /\ hand = [w \in Worker |-> NoObject]
  /\ started = [w \in Worker |-> 0]
  /\ wg = [w \in Worker |-> 0]
  /\ pool = [w \in Worker |-> [o \in Object |-> 0]]
  /\ objects = 0
  /\ holder = [o \in Object |-> NoUser]
  /\ finished = [o \in Object |-> FALSE]
  /\ onFinish = [o \in Object |-> FALSE]
  /\ timer = [o \in Object |-> "none"]
  /\ runs = [r \in Run |-> NoRun]
  /\ ran = [u \in User |-> 0]
  /\ bad = FALSE
  /\ failed = 0
  /\ broke = FALSE
  /\ cancelled = FALSE
  /\ result = "none"
-----------------------------------------------------------------------------
(* A worker.                                                               *)

WGoto(w, l) == wpc' = [wpc EXCEPT ![w] = l]

\* The top of the loop: stop on the first error or when cancelled, without
\* waiting for the tasks in flight.
WorkerLoop(w) ==
  /\ wpc[w] = "loop"
  /\ WGoto(w, IF broke \/ cancelled THEN "returned" ELSE "receive")
  /\ UNCHANGED <<dispatch, queue, hand, started, wg, poolVars, objectVars, runs,
                 countVars, outcomeVars, cancelled, result>>

\* Mutant of Prepare: a reused object keeps the user of its first run.
PrepareOnce(o, u) ==
  /\ holder' = [holder EXCEPT ![o] = IF @ = NoUser THEN u ELSE @]
  /\ finished' = [finished EXCEPT ![o] = FALSE]
  /\ onFinish' = [onFinish EXCEPT ![o] = TRUE]
  /\ timer' = [timer EXCEPT ![o] = IF @ = "armed" THEN "off" ELSE @]

\* ResetForReuse, UserHolder = u, InitOnFinish.  The timer is stopped and never
\* armed again: AwaitChannel is kept, and SetAwaitData arms with the channel.
Prepare(o, u) ==
  /\ holder' = [holder EXCEPT ![o] = u]
  /\ finished' = [finished EXCEPT ![o] = FALSE]
  /\ onFinish' = [onFinish EXCEPT ![o] = TRUE]
  /\ timer' = [timer EXCEPT ![o] = IF @ = "armed" THEN "off" ELSE @]

\* A user that is due, and a task object: a new one or one from the pool.
WorkerReceive(w, o) ==
  /\ wpc[w] = "receive"
  /\ queue[w] # <<>>
  /\ queue' = [queue EXCEPT ![w] = Tail(@)]
  /\ \/ /\ o = objects + 1
        /\ objects' = o
        /\ pool' = pool
     \/ /\ pool[w][o] > 0
        /\ objects' = objects
        /\ pool' = [pool EXCEPT ![w][o] = @ - 1]
  /\ Prepare(o, Head(queue[w]))
  /\ hand' = [hand EXCEPT ![w] = o]
  /\ WGoto(w, "acquire")
  /\ UNCHANGED <<dispatch, started, wg, runs, countVars, outcomeVars,
                 cancelled, result>>

\* A goroutine that is free.
FreeRun == CHOOSE r \in Run : runs[r] = NoRun

\* Acquire has returned: RunTaskAction (InitTaskId, wg.Add, Invoke).
WorkerRun(w) ==
  LET o == hand[w]
  IN  /\ wpc[w] = "acquire"
      /\ finished' = [finished EXCEPT ![o] = FALSE]
      /\ wg' = [wg EXCEPT ![w] = @ + 1]
      /\ runs' = [runs EXCEPT ![FreeRun] =
                    [st |-> "running", obj |-> o, user |-> holder[o], err |-> FALSE]]
      /\ ran' = [ran EXCEPT ![holder[o]] = @ + 1]
      /\ started' = [started EXCEPT ![w] = @ + 1]
      /\ hand' = [hand EXCEPT ![w] = NoObject]
      /\ WGoto(w, IF started'[w] >= TotalTasks(w) THEN "waitall" ELSE "loop")
      /\ UNCHANGED <<dispatch, queue, poolVars, holder, onFinish, timer, bad,
                     outcomeVars, cancelled, result>>

WorkerWaitAll(w) ==
  /\ wpc[w] = "waitall"
  /\ wg[w] = 0
  /\ WGoto(w, "returned")
  /\ UNCHANGED <<dispatch, queue, hand, started, wg, poolVars, objectVars, runs,
                 countVars, outcomeVars, cancelled, result>>

\* wg.Wait of RunCaseInner, and the result.
CaseReturn ==
  /\ result = "none"
  /\ \A w \in Worker : wpc[w] = "returned"
  /\ result' = IF cancelled THEN "cancelled"
               ELSE IF failed # 0 THEN "failed" ELSE "success"
  /\ UNCHANGED <<dispatch, queue, workerVars, wg, poolVars, objectVars, runs,
                 countVars, outcomeVars, cancelled>>
-----------------------------------------------------------------------------
(* A run, its timer, and Finish with onFinishFunc.                         *)

SetRun(r, l) ==
  runs' = [runs EXCEPT ![r] = IF l = "done" THEN NoRun ELSE [@ EXCEPT !.st = l]]
SetTimer(o, l) == timer' = [timer EXCEPT ![o] = IF l = "done" THEN "off" ELSE l]

\* The first request sent from a new object arms its timer.
RunAwaits(r) ==
  /\ "timeout" \in Faults
  /\ runs[r].st = "running"
  /\ timer[runs[r].obj] = "none"
  /\ Cardinality({o \in Object : timer[o] # "none"}) < MaxTimers
  /\ SetTimer(runs[r].obj, "armed")
  /\ UNCHANGED <<dispatch, queue, workerVars, wg, poolVars, holder, finished,
                 onFinish, runs, countVars, outcomeVars, cancelled, result>>

\* The first caller of Finish sets the flag, and onFinishFunc counts; the caller
\* goes on at AfterFirst(o).
FinishFirst(o) ==
  IF finished[o]
  THEN UNCHANGED <<dispatch, finished, onFinish>>
  ELSE /\ finished' = [finished EXCEPT ![o] = TRUE]
       /\ onFinish' = [onFinish EXCEPT ![o] = FALSE]
       /\ dispatch' = IF onFinish[o] THEN [dispatch EXCEPT ![holder[o]] = @ + 1]
                      ELSE dispatch

AfterFirst(o) ==
  IF finished[o] \/ ~onFinish[o] THEN "done"
  ELSE IF RunsLeft(dispatch[holder[o]] + 1) THEN "send" ELSE "rest"

\* HookRun returns, and Finish stops the timer; Finish does no more if the timer
\* has already finished the task.
RunReturn(r, err) ==
  LET o == runs[r].obj
  IN  /\ runs[r].st = "running"
      /\ err => "fail" \in Faults
      /\ FinishFirst(o)
      /\ timer' = [timer EXCEPT ![o] = IF @ = "armed" THEN "off" ELSE @]
      /\ runs' = [runs EXCEPT ![r] =
                    IF AfterFirst(o) = "done" THEN NoRun
                    ELSE [@ EXCEPT !.st = AfterFirst(o), !.err = err]]
      /\ bad' = (bad \/ err)
      /\ UNCHANGED <<queue, workerVars, wg, poolVars, holder, ran, outcomeVars,
                     cancelled, result>>

\* TimeoutKill of a task that is not waiting: Finish, while HookRun goes on.
TimeoutFinish(o) ==
  /\ timer[o] = "armed"
  /\ FinishFirst(o)
  /\ SetTimer(o, AfterFirst(o))
  /\ bad' = (bad \/ ~finished[o])
  /\ UNCHANGED <<queue, workerVars, wg, poolVars, holder, runs, ran, outcomeVars,
                 cancelled, result>>

\* The user goes back into the channel of its worker; blocks when it is full.
PutBack(o) ==
  LET u == holder[o]
  IN  /\ Len(queue[WorkerOf(u)]) < ChannelCap
      /\ queue' = [queue EXCEPT ![WorkerOf(u)] = Append(@, u)]

\* Mutant of FinishRest: the failure is not counted.
FinishRestUncounted(o, err) ==
  LET w == WorkerOf(holder[o])
  IN  /\ failed' = failed
      /\ broke' = (broke \/ (err /\ ErrorBreak))
      /\ wg' = [wg EXCEPT ![w] = IF @ = 0 THEN 0 ELSE @ - 1]
      /\ result' = IF wg[w] = 0 THEN "panic" ELSE result
      /\ pool' = [pool EXCEPT ![w][o] = @ + 1]

\* The rest of onFinishFunc: the failure, OnTaskFinish, and the pool.  Done on a
\* WaitGroup that is at 0 panics, and the pool's panic handler panics again.
FinishRest(o, err) ==
  LET w == WorkerOf(holder[o])
  IN  /\ failed' = IF err THEN failed + 1 ELSE failed
      /\ broke' = (broke \/ (err /\ ErrorBreak))
      /\ wg' = [wg EXCEPT ![w] = IF @ = 0 THEN 0 ELSE @ - 1]
      /\ result' = IF wg[w] = 0 THEN "panic" ELSE result
      /\ pool' = [pool EXCEPT ![w][o] = @ + 1]

RunSend(r) ==
  /\ runs[r].st = "send"
  /\ PutBack(runs[r].obj)
  /\ SetRun(r, "rest")
  /\ UNCHANGED <<dispatch, workerVars, wg, poolVars, objectVars, countVars,
                 outcomeVars, cancelled, result>>

RunRest(r) ==
  /\ runs[r].st = "rest"
  /\ FinishRest(runs[r].obj, runs[r].err)
  /\ SetRun(r, "done")
  /\ UNCHANGED <<dispatch, queue, workerVars, objects, objectVars, countVars,
                 cancelled>>

TimerSend(o) ==
  /\ timer[o] = "send"
  /\ PutBack(o)
  /\ SetTimer(o, "rest")
  /\ UNCHANGED <<dispatch, workerVars, wg, poolVars, holder, finished, onFinish,
                 runs, countVars, outcomeVars, cancelled, result>>

TimerRest(o) ==
  /\ timer[o] = "rest"
  /\ FinishRest(o, TRUE)
  /\ SetTimer(o, "fired")
  /\ UNCHANGED <<dispatch, queue, workerVars, objects, holder, finished,
                 onFinish, runs, countVars, cancelled>>

\* The caller's context is cancelled (the stop button of the master).
Cancel ==
  /\ "cancel" \in Faults
  /\ result = "none"
  /\ ~cancelled
  /\ cancelled' = TRUE
  /\ UNCHANGED <<dispatch, queue, workerVars, wg, poolVars, objectVars, runs,
                 countVars, outcomeVars, result>>
-----------------------------------------------------------------------------
WorkerStep(w) ==
  \/ WorkerLoop(w)
  \/ \E o \in Object : WorkerReceive(w, o)
  \/ WorkerRun(w)
  \/ WorkerWaitAll(w)

RunStep(r) ==
  \/ \E err \in BOOLEAN : RunReturn(r, err)
  \/ RunSend(r)
  \/ RunRest(r)

TimerStep(o) ==
  \/ TimeoutFinish(o)
  \/ TimerSend(o)
  \/ TimerRest(o)

Next ==
  /\ result # "panic"
  /\ \/ \E w \in Worker : WorkerStep(w)
     \/ \E r \in Run : RunStep(r) \/ RunAwaits(r)
     \/ \E o \in Object : TimerStep(o)
     \/ Cancel
     \/ CaseReturn

Spec == Init /\ [][Next]_vars

\* Goroutines run, the limiter grants tokens (SomeoneProceeds of QPSController),
\* and a case function returns.  A timer need not expire.
Fairness ==
  /\ \A w \in Worker : WF_vars(WorkerStep(w))
  /\ \A r \in Run : WF_vars(RunStep(r))
  /\ \A o \in Object : WF_vars(TimerSend(o) \/ TimerRest(o))
  /\ WF_vars(CaseReturn)

FairSpec == Spec /\ Fairness
-----------------------------------------------------------------------------
RunRecord == [st : {"none", "running", "send", "rest"}, obj : Object \cup {NoObject},
              user : User \cup {NoUser}, err : BOOLEAN]

TypeOK ==
  /\ dispatch \in [User -> Nat]
  /\ queue \in [Worker -> Seq(User)]
  /\ wpc \in [Worker -> {"loop", "receive", "acquire", "waitall", "returned"}]
  /\ hand \in [Worker -> Object \cup {NoObject}]
  /\ started \in [Worker -> Nat]
  /\ wg \in [Worker -> Nat]
  /\ pool \in [Worker -> [Object -> Nat]]
  /\ objects \in Object \cup {NoObject}
  /\ holder \in [Object -> User \cup {NoUser}]
  /\ finished \in [Object -> BOOLEAN]
  /\ onFinish \in [Object -> BOOLEAN]
  /\ timer \in [Object -> {"none", "armed", "send", "rest", "fired", "off"}]
  /\ runs \in [Run -> RunRecord]
  /\ ran \in [User -> Nat]
  /\ bad \in BOOLEAN
  /\ failed \in Nat
  /\ broke \in BOOLEAN
  /\ cancelled \in BOOLEAN
  /\ result \in {"none", "cancelled", "failed", "success", "panic"}

\* RunCaseInner reports success only if every user has had exactly RunTime runs,
\* all of them are over, and none has failed or has been timed out, even when
\* the runs that share an object finish each other.
SuccessIsEarned ==
  result = "success" => /\ \A u \in User : ran[u] = RunTime
                        /\ \A r \in Run : runs[r] = NoRun
                        /\ ~bad

\* RunCaseInner returns: no worker waits for a user that nobody puts back, nor
\* for a WaitGroup that nobody counts down.
CaseReturns == <>(result # "none")
-----------------------------------------------------------------------------
(* The refinement of CaseDispatch.                                         *)

RunsAt(u, l) == {r \in Run : runs[r].user = u /\ runs[r].st = l}
ByOutcome(u, l) ==
  [out \in {"ok", "err"} |->
     Cardinality({r \in RunsAt(u, l) : runs[r].err = (out = "err")})]

\* The places of a user in the channel of its worker, whatever their order.
PlacesOf(u) == {i \in DOMAIN queue[WorkerOf(u)] : queue[WorkerOf(u)][i] = u}

due == [u \in User |-> Cardinality(PlacesOf(u))]
userInHand == [w \in Worker |-> IF hand[w] = NoObject THEN NoUser ELSE holder[hand[w]]]
running == [u \in User |-> Cardinality(RunsAt(u, "running"))]
sending == [u \in User |-> ByOutcome(u, "send")]
resting == [u \in User |-> ByOutcome(u, "rest")]

Dispatch == INSTANCE CaseDispatch WITH hand <- userInHand

\* A timer has finished a task that was not waiting in Yield.
Late == \E o \in Object : timer[o] \in {"send", "rest", "fired"}

\* The task objects, which are handed from run to run through the pool while
\* other goroutines may still hold them, never show: each step of the workers
\* and of Finish is a step of CaseDispatch on the user the run was started for.
\* Until a timer has finished a task whose HookRun goes on (then more runs of a
\* user may be in flight than CaseDispatch allows).
DispatchSteps == Dispatch!Init /\ [][Dispatch!Next \/ Late']_(Dispatch!vars)

\* The same, and what CaseDispatch promises to happen happens.
ImplementsDispatch == DispatchSteps /\ (Dispatch!Fairness \/ <>Late)
=============================================================================
