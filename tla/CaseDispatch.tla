---------------------------- MODULE CaseDispatch ----------------------------
(***************************************************************************)
(* RunCaseInner (case/case.go): one case runs RunTime times for each of    *)
(* UserCount users.  Each worker goroutine owns a share of the users and a *)
(* channel of the users that are due; it takes a user, waits for the rate  *)
(* limiter and starts a task for it.  When the task's HookRun returns,     *)
(* onFinishFunc counts the user and puts it back into the channel as long  *)
(* as runs are left.  A worker returns when it has started all its tasks   *)
(* and they are over, or at once on the first error or cancellation.       *)
(*                                                                         *)
(* The channel is a bag of users here (its order is abstracted), a task is *)
(* counted under its user and the step it is in, and the rate limiter      *)
(* (module QPSController) is a pause at "acquire".  Module CaseTasks has   *)
(* the channel's order and the task objects, and implements this one.      *)
(***************************************************************************)
EXTENDS CaseParams

VARIABLES
  dispatch,   \* dispatchTaskCount of each user
  due,        \* how often each user is in userHolderChannel
  wpc,        \* where each worker is
  hand,       \* the user the worker is about to start a task for
  started,    \* runTaskCount of each worker
  wg,         \* the WaitGroup counter of the worker's manager
  running,    \* for each user, the tasks whose HookRun has not returned
  sending,    \* the tasks in onFinishFunc before the send, by outcome
  resting,    \* the tasks in onFinishFunc after it, by outcome
  ran,        \* the number of tasks started for each user
  bad,        \* some HookRun has returned an error
  failed,     \* failedCount
  broke,      \* errorBreakState is set
  cancelled,  \* ctx.Err() # nil
  result      \* what RunCaseInner has returned

workerVars == <<wpc, hand, started>>
taskVars == <<running, sending, resting>>
outcomeVars == <<bad, failed, broke>>
endVars == <<cancelled, result>>
vars == <<dispatch, due, wpc, hand, started, wg, running, sending, resting, ran,
          bad, failed, broke, cancelled, result>>

\* What HookRun returns: nil or an error.
Outcome == {"ok", "err"}

Init ==
  /\ dispatch = [u \in User |-> InitialRounds]
  /\ due = [u \in User |-> InitialRounds]
  /\ wpc = [w \in Worker |-> "loop"]
  /\ hand = [w \in Worker |-> NoUser]
  /\ started = [w \in Worker |-> 0]
  /\ wg = [w \in Worker |-> 0]
  /\ running = [u \in User |-> 0]
  /\ sending = [u \in User |-> [out \in Outcome |-> 0]]
  /\ resting = [u \in User |-> [out \in Outcome |-> 0]]
  /\ ran = [u \in User |-> 0]
  /\ bad = FALSE
  /\ failed = 0
  /\ broke = FALSE
  /\ cancelled = FALSE
  /\ result = "none"
-----------------------------------------------------------------------------
(* A worker.                                                               *)

Goto(w, l) == wpc' = [wpc EXCEPT ![w] = l]

\* The top of the loop: stop on the first error or when cancelled, without
\* waiting for the tasks in flight.
WorkerLoop(w) ==
  /\ wpc[w] = "loop"
  /\ Goto(w, IF broke \/ cancelled THEN "returned" ELSE "receive")
  /\ UNCHANGED <<dispatch, due, hand, started, wg, taskVars, ran,
                 outcomeVars, endVars>>

WorkerReceive(w, u) ==
  /\ wpc[w] = "receive"
  /\ u \in UsersOf(w)
  /\ due[u] > 0
  /\ due' = [due EXCEPT ![u] = @ - 1]
  /\ hand' = [hand EXCEPT ![w] = u]
  /\ Goto(w, "acquire")
  /\ UNCHANGED <<dispatch, started, wg, taskVars, ran, outcomeVars,
                 endVars>>

\* Acquire has returned: RunTaskAction.
WorkerRun(w) ==
  LET u == hand[w]
  IN  /\ wpc[w] = "acquire"
      /\ wg' = [wg EXCEPT ![w] = @ + 1]
      /\ running' = [running EXCEPT ![u] = @ + 1]
      /\ ran' = [ran EXCEPT ![u] = @ + 1]
      /\ started' = [started EXCEPT ![w] = @ + 1]
      /\ hand' = [hand EXCEPT ![w] = NoUser]
      /\ Goto(w, IF started[w] + 1 >= TotalTasks(w) THEN "waitall" ELSE "loop")
      /\ UNCHANGED <<dispatch, due, sending, resting, outcomeVars, endVars>>

\* Mutant of WorkerWaitAll: the worker does not wait for its tasks.
WorkerWaitNone(w) ==
  /\ wpc[w] = "waitall"
  /\ Goto(w, "returned")
  /\ UNCHANGED <<dispatch, due, hand, started, wg, taskVars, ran,
                 outcomeVars, endVars>>

WorkerWaitAll(w) ==
  /\ wpc[w] = "waitall"
  /\ wg[w] = 0
  /\ Goto(w, "returned")
  /\ UNCHANGED <<dispatch, due, hand, started, wg, taskVars, ran,
                 outcomeVars, endVars>>

\* wg.Wait of RunCaseInner, and its result.
CaseReturn ==
  /\ result = "none"
  /\ \A w \in Worker : wpc[w] = "returned"
  /\ result' = IF cancelled THEN "cancelled"
               ELSE IF failed # 0 THEN "failed" ELSE "success"
  /\ UNCHANGED <<dispatch, due, workerVars, wg, taskVars, ran,
                 outcomeVars, cancelled>>
-----------------------------------------------------------------------------
(* A task.                                                                 *)

\* HookRun returns; Finish calls onFinishFunc, which counts first.
TaskReturn(u, out) ==
  /\ running[u] > 0
  /\ out = "err" => "fail" \in Faults
  /\ running' = [running EXCEPT ![u] = @ - 1]
  /\ dispatch' = [dispatch EXCEPT ![u] = @ + 1]
  /\ IF RunsLeft(dispatch[u] + 1)
     THEN sending' = [sending EXCEPT ![u][out] = @ + 1] /\ UNCHANGED resting
     ELSE resting' = [resting EXCEPT ![u][out] = @ + 1] /\ UNCHANGED sending
  /\ bad' = (bad \/ out = "err")
  /\ UNCHANGED <<due, workerVars, wg, ran, failed, broke, endVars>>

\* An element for each unit of f on S: its size is the sum.
Units(f, S) == UNION {{u} \X (1 .. f[u]) : u \in S}

ChannelLen(w) == Cardinality(Units(due, UsersOf(w)))

\* The user goes back into the channel of its worker; blocks when it is full.
TaskSend(u, out) ==
  /\ sending[u][out] > 0
  /\ ChannelLen(WorkerOf(u)) < ChannelCap
  /\ due' = [due EXCEPT ![u] = @ + 1]
  /\ sending' = [sending EXCEPT ![u][out] = @ - 1]
  /\ resting' = [resting EXCEPT ![u][out] = @ + 1]
  /\ UNCHANGED <<dispatch, workerVars, wg, running, ran, outcomeVars, endVars>>

\* The failure is noted, then OnTaskFinish counts the WaitGroup down.
TaskRest(u, out) ==
  /\ resting[u][out] > 0
  /\ resting' = [resting EXCEPT ![u][out] = @ - 1]
  /\ failed' = IF out = "err" THEN failed + 1 ELSE failed
  /\ broke' = (broke \/ (out = "err" /\ ErrorBreak))
  /\ wg' = [wg EXCEPT ![WorkerOf(u)] = @ - 1]
  /\ UNCHANGED <<dispatch, due, workerVars, running, sending, ran, bad, endVars>>

\* The caller's context is cancelled (a stop request reaches the agent).
Cancel ==
  /\ "cancel" \in Faults
  /\ result = "none"
  /\ ~cancelled
  /\ cancelled' = TRUE
  /\ UNCHANGED <<dispatch, due, workerVars, wg, taskVars, ran,
                 outcomeVars, result>>
-----------------------------------------------------------------------------
WorkerStep(w) ==
  \/ WorkerLoop(w)
  \/ \E u \in User : WorkerReceive(w, u)
  \/ WorkerRun(w)
  \/ WorkerWaitAll(w)

TaskStep(u) ==
  \E out \in Outcome : \/ TaskReturn(u, out)
                       \/ TaskSend(u, out)
                       \/ TaskRest(u, out)

Next ==
  \/ \E w \in Worker : WorkerStep(w)
  \/ \E u \in User : TaskStep(u)
  \/ Cancel
  \/ CaseReturn

Spec == Init /\ [][Next]_vars

\* Goroutines run, the limiter grants tokens (SomeoneProceeds of QPSController),
\* and a case function returns.
Fairness ==
  /\ \A w \in Worker : WF_vars(WorkerStep(w))
  /\ \A u \in User : WF_vars(TaskStep(u))
  /\ WF_vars(CaseReturn)

FairSpec == Spec /\ Fairness
-----------------------------------------------------------------------------
TypeOK ==
  /\ dispatch \in [User -> Nat]
  /\ due \in [User -> Nat]
  /\ wpc \in [Worker -> {"loop", "receive", "acquire", "waitall", "returned"}]
  /\ hand \in [Worker -> User \cup {NoUser}]
  /\ started \in [Worker -> Nat]
  /\ wg \in [Worker -> Int]
  /\ running \in [User -> Nat]
  /\ sending \in [User -> [Outcome -> Nat]]
  /\ resting \in [User -> [Outcome -> Nat]]
  /\ ran \in [User -> Nat]
  /\ bad \in BOOLEAN
  /\ failed \in Nat
  /\ broke \in BOOLEAN
  /\ cancelled \in BOOLEAN
  /\ result \in {"none", "cancelled", "failed", "success"}

\* "user_batch_count is the limit of the tasks of one user that are in flight at
\* the same time" (README): the tasks whose HookRun has not returned.
InFlightBounded == \A u \in User : running[u] <= BatchSize

\* No user gets more runs than asked for, whatever the tasks of the other users
\* of its worker do: the worker only counts the sum.
RunsBounded == \A u \in User : ran[u] <= RunTime

\* The send in onFinishFunc, done by a pool goroutine that holds finishLock,
\* never finds the channel full: the capacity covers what a worker's users can
\* have due, also when the users do not divide evenly.
SendNeverBlocks ==
  \A u \in User, out \in Outcome :
    sending[u][out] > 0 => ChannelLen(WorkerOf(u)) < ChannelCap

\* RunCaseInner reports success only if every user has had exactly RunTime runs,
\* all of them are over, and none has failed.
SuccessIsHonest ==
  result = "success" =>
    /\ \A u \in User : ran[u] = RunTime /\ running[u] = 0
    /\ ~bad
-----------------------------------------------------------------------------
(* The inductive invariant of InFlightBounded and RunsBounded.  A user's   *)
(* places: in the channel, in its worker's hand, or on the way back.  The  *)
(* runs started and the places left make up what has been dispatched, but  *)
(* never more than RunTime; and every count beyond the first BatchSize is  *)
(* a run that is over.                                                     *)

InHand(u) == IF hand[WorkerOf(u)] = u THEN 1 ELSE 0

Places(u) ==
  due[u] + InHand(u) + sending[u]["ok"] + sending[u]["err"]

HandInv ==
  \A w \in Worker : /\ hand[w] # NoUser => WorkerOf(hand[w]) = w
                    /\ wpc[w] = "acquire" <=> hand[w] # NoUser

PlacesInv ==
  \A u \in User :
    ran[u] + Places(u) = IF dispatch[u] <= RunTime THEN dispatch[u] ELSE RunTime

RunningInv == \A u \in User : running[u] = ran[u] + BatchSize - dispatch[u]

DispatchInv ==
  /\ TypeOK
  /\ HandInv
  /\ PlacesInv
  /\ RunningInv
-----------------------------------------------------------------------------
(* What SuccessIsHonest needs besides.  A worker's counters are the sums   *)
(* over its users; a failure is counted or on its way to be; and a worker  *)
(* has returned early, or with all its tasks started and over.             *)

Tasks == [u \in User |-> running[u] + sending[u]["ok"] + sending[u]["err"]
                           + resting[u]["ok"] + resting[u]["err"]]

CountInv ==
  \A w \in Worker : /\ wg[w] = Cardinality(Units(Tasks, UsersOf(w)))
                    /\ started[w] = Cardinality(Units(ran, UsersOf(w)))

FailInv ==
  /\ bad => failed > 0 \/ \E u \in User : sending[u]["err"] + resting[u]["err"] > 0
  /\ broke => failed > 0

Over(w) == started[w] >= TotalTasks(w) /\ wg[w] = 0

ReturnInv ==
  /\ \A w \in Worker :
       /\ wpc[w] = "waitall" => started[w] >= TotalTasks(w)
       /\ wpc[w] = "returned" => broke \/ cancelled \/ Over(w)
  /\ result = "success" =>
       failed = 0 /\ \A w \in Worker : wpc[w] = "returned" /\ Over(w)
=============================================================================
