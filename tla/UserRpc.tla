------------------------------ MODULE UserRpc ------------------------------
(***************************************************************************)
(* One User (data/impl/user.go) and the tasks that run on it               *)
(* (base/task_action.go, data/action.go).  A task is a goroutine that runs *)
(* Fn while it holds the user's action guard.  SendReq registers the task  *)
(* in the ring buffer, writes the request and parks the task in Yield,     *)
(* with the guard released, until a message appears in its AwaitChannel:   *)
(* the answer, put there by the ReceiveHandler goroutine (Resume), or an   *)
(* error, put there by TimeoutKill (the task's timer) or by Kill (CloseAll *)
(* of the "ReceiveHandler Close" task, when the connection is gone).       *)
(*                                                                         *)
(* Each step below is one access to state another goroutine uses.  Steps   *)
(* of one goroutine are merged only where no other goroutine can tell.     *)
(* AwaitData is read and written without a lock; its two words are only    *)
(* compared, and every torn read equals a read of the value before or      *)
(* after the write, so a step reads it at once.  The guard is taken and    *)
(* released atomically here; module ActionGuard shows that TakeActionGuard *)
(* and ReleaseActionGuard provide that.                                    *)
(***************************************************************************)
EXTENDS RPCRingBuffer

CONSTANTS
  CloseTask,    \* the "ReceiveHandler Close" task
  TimeoutTasks, \* the tasks started with a timeout > 0
  Faults,       \* what may go wrong outside the program (see Fault)
  MaxSeq        \* bound on the sequence numbers allocated

\* "lost": an answer never comes; "reset": the connection breaks or a task
\* logs out; "garbage": a message that does not unmarshal; "timeout": a
\* timer may expire.
Fault == {"lost", "reset", "garbage", "timeout"}

ASSUME UserRpcAssumption ==
  /\ CloseTask \notin Task \cup {NoTask}
  /\ TimeoutTasks \subseteq Task
  /\ Faults \subseteq Fault
  /\ MaxSeq \in Nat

VARIABLES
  pc,         \* where the goroutine of each task is
  seqOf,      \* the sequence of the task's last SendReq, 0 before
  awaitData,  \* AwaitData.WaitingId (type RPC), 0 is "none"
  made,       \* AwaitChannel # nil
  chan,       \* the content of AwaitChannel (capacity 1), NoMsg if empty
  got,        \* what the last Yield returned
  timer,      \* Timeout: "none", "armed" or "stopped"
  kill,       \* the kill flag
  finished,   \* the finished flag
  killer,     \* progress of TimeoutKill and Kill on each task
  guard,      \* the holder of the action guard
  slots,      \* rpcAwaitTask
  sequence,   \* connectionSequence, counted from the value NewUser gives it (99)
  server,     \* sequences the server has been asked and has not answered
  recv,       \* the ReceiveHandler goroutine
  conn,       \* the connection: "open", "lost"; "nil" once user.connection = nil
  closed,     \* Closed
  closer,     \* the goroutine of CloseTask
  toKill      \* tasks CloseAll has still to visit

taskVars == <<pc, seqOf, got>>
awaitVars == <<awaitData, made, chan>>
killVars == <<timer, kill, finished, killer>>
connVars == <<server, conn, closed>>
closeVars == <<closer, toKill>>

vars == <<pc, seqOf, awaitData, made, chan, got, timer, kill, finished, killer,
          guard, slots, sequence, server, recv, conn, closed, closer, toKill>>

NoMsg == [kind |-> "none", seq |-> 0]
KillMsg == [kind |-> "kill", seq |-> 0]
Rsp(s) == [kind |-> "rsp", seq |-> s]
Msg == [kind : {"none", "kill", "rsp"}, seq : Nat]

\* The goroutine of the task is inside SendReq, before it is parked.
Sending == {"store", "write", "yield"}
Parked == {"wait", "clear", "retake"}
\* The places where the task holds the action guard.
Guarded == {"run"} \cup Sending
TaskPc == {"new", "start", "finish", "done"} \cup Guarded \cup Parked

Killers == {"timer", "close"}

Idle == [st |-> "read", seq |-> 0, task |-> NoTask]

Init ==
  /\ pc = [t \in Task |-> "new"]
  /\ seqOf = [t \in Task |-> 0]
  /\ awaitData = [t \in Task |-> 0]
  /\ made = [t \in Task |-> FALSE]
  /\ chan = [t \in Task |-> NoMsg]
  /\ got = [t \in Task |-> NoMsg]
  /\ timer = [t \in Task |-> "none"]
  /\ kill = [t \in Task |-> FALSE]
  /\ finished = [t \in Task |-> FALSE]
  /\ killer = [k \in Killers |-> [t \in Task |-> "idle"]]
  /\ guard = NoTask
  /\ slots = NewRPCRingBuffer
  /\ sequence = 0
  /\ server = {}
  /\ recv = Idle
  /\ conn = "open"
  /\ closed = FALSE
  /\ closer = "none"
  /\ toKill = {}
-----------------------------------------------------------------------------
(* The life of a task: RunTask, HookRun, Finish.                           *)

Goto(t, l) == pc' = [pc EXCEPT ![t] = l]

\* RunTask: called by a case, a command or the handler of a pushed message.
RunTask(t) ==
  /\ pc[t] = "new"
  /\ Goto(t, "start")
  /\ UNCHANGED <<seqOf, got, awaitVars, killVars, guard, slots, sequence,
                 recv, connVars, closeVars>>

\* TakeActionGuard, at the start of HookRun or after the wait in Yield.
TakeActionGuard(t) ==
  /\ pc[t] \in {"start", "retake"}
  /\ guard = NoTask
  /\ guard' = t
  /\ Goto(t, "run")
  /\ UNCHANGED <<seqOf, got, awaitVars, killVars, slots, sequence, recv,
                 connVars, closeVars>>

\* Fn returns and HookRun releases the guard.
FnReturn(t) ==
  /\ pc[t] = "run"
  /\ guard' = NoTask
  /\ Goto(t, "finish")
  /\ UNCHANGED <<seqOf, got, awaitVars, killVars, slots, sequence, recv,
                 connVars, closeVars>>

\* Finish: stop the timer, then the first caller sets finished.
FinishTask(t) ==
  /\ finished' = [finished EXCEPT ![t] = TRUE]
  /\ timer' = [timer EXCEPT ![t] = IF @ = "armed" THEN "stopped" ELSE @]

TaskFinish(t) ==
  /\ pc[t] = "finish"
  /\ FinishTask(t)
  /\ Goto(t, "done")
  /\ UNCHANGED <<seqOf, got, awaitVars, kill, killer, guard, slots, sequence,
                 recv, connVars, closeVars>>

\* Logout by the running task: Close sets Closed and closes the connection.
Logout(t) ==
  /\ "reset" \in Faults
  /\ pc[t] = "run"
  /\ ~closed
  /\ closed' = TRUE
  /\ conn' = IF conn = "nil" THEN "nil" ELSE "lost"
  /\ UNCHANGED <<taskVars, awaitVars, killVars, guard, slots, sequence, server,
                 recv, closeVars>>
-----------------------------------------------------------------------------
(* SendReq with needRsp.                                                   *)

\* AllocSequence, then the checks of SendReq, which fail without effect.
SendReqRefused(t) ==
  /\ pc[t] = "run"
  /\ sequence < MaxSeq
  /\ conn = "nil" \/ closed
  /\ sequence' = sequence + 1
  /\ UNCHANGED <<taskVars, awaitVars, killVars, guard, slots, recv, connVars,
                 closeVars>>

\* SetAwaitData: the channel is made, and the timer armed, only once.
SetAwaitData(t, seq) ==
  /\ awaitData' = [awaitData EXCEPT ![t] = seq]
  /\ made' = [made EXCEPT ![t] = TRUE]
  /\ timer' = [timer EXCEPT ![t] =
                 IF ~made[t] /\ t \in TimeoutTasks THEN "armed" ELSE @]

SendReq(t) ==
  /\ pc[t] = "run"
  /\ sequence < MaxSeq
  /\ conn # "nil"
  /\ ~closed
  /\ sequence' = sequence + 1
  /\ SetAwaitData(t, sequence + 1)
  /\ seqOf' = [seqOf EXCEPT ![t] = sequence + 1]
  /\ got' = [got EXCEPT ![t] = NoMsg]
  /\ Goto(t, "store")
  /\ UNCHANGED <<chan, kill, finished, killer, guard, slots, recv, connVars,
                 closeVars>>

SendReqStore(t) ==
  /\ pc[t] = "store"
  /\ CanStore(slots, seqOf[t])
  /\ slots' = StoreBlocking(slots, seqOf[t], t)
  /\ Goto(t, "write")
  /\ UNCHANGED <<seqOf, got, awaitVars, killVars, guard, sequence, recv,
                 connVars, closeVars>>

\* WriteMessage succeeds, which on a broken connection only means that the
\* request went into a buffer: the server never sees it.
SendReqWrite(t) ==
  /\ pc[t] = "write"
  /\ conn # "nil"
  /\ server' = IF conn = "open" THEN server \cup {seqOf[t]} ELSE server
  /\ Goto(t, "yield")
  /\ UNCHANGED <<seqOf, got, awaitVars, killVars, guard, slots, sequence, recv,
                 conn, closed, closeVars>>

\* WriteMessage fails: the request is not sent, and is taken back.
SendReqWriteError(t) ==
  /\ pc[t] = "write"
  /\ conn # "open"
  /\ awaitData' = [awaitData EXCEPT ![t] = IF @ = seqOf[t] THEN 0 ELSE @]
  /\ slots' = Delete(slots, seqOf[t])
  /\ got' = [got EXCEPT ![t] = KillMsg]
  /\ Goto(t, "run")
  /\ UNCHANGED <<seqOf, made, chan, killVars, guard, sequence, recv, connVars,
                 closeVars>>

\* Mutant of YieldRefused: Yield does not look at the kill flag.
YieldRefusedUnlessKilled(t) == ~made[t] \/ guard # t

\* Yield returns an error at once if the task is killed, has no channel or does
\* not hold the guard.
YieldRefused(t) == kill[t] \/ ~made[t] \/ guard # t

\* Yield up to the receive: BeforeYield releases the guard.
Yield(t) ==
  /\ pc[t] = "yield"
  /\ IF YieldRefused(t)
     THEN /\ got' = [got EXCEPT ![t] = KillMsg]
          /\ Goto(t, "run")
          /\ guard' = guard
     ELSE /\ got' = got
          /\ Goto(t, "wait")
          /\ guard' = NoTask
  /\ UNCHANGED <<seqOf, awaitVars, killVars, slots, sequence, recv, connVars,
                 closeVars>>

YieldReceive(t) ==
  /\ pc[t] = "wait"
  /\ chan[t] # NoMsg
  /\ got' = [got EXCEPT ![t] = chan[t]]
  /\ chan' = [chan EXCEPT ![t] = NoMsg]
  /\ Goto(t, "clear")
  /\ UNCHANGED <<seqOf, awaitData, made, killVars, guard, slots, sequence, recv,
                 connVars, closeVars>>

\* AwaitData is cleared after the receive; AfterYield (TakeActionGuard) follows.
YieldClear(t) ==
  /\ pc[t] = "clear"
  /\ awaitData' = [awaitData EXCEPT ![t] = 0]
  /\ Goto(t, "retake")
  /\ UNCHANGED <<seqOf, got, made, chan, killVars, guard, slots, sequence, recv,
                 connVars, closeVars>>
-----------------------------------------------------------------------------
(* TimeoutKill and Kill.                                                   *)

SetKiller(k, t, l) == killer' = [killer EXCEPT ![k][t] = l]

\* Mutant of SetKill: the flag is not stored.
SetKillForgotten(t) == kill' = [kill EXCEPT ![t] = @]

SetKill(t) == kill' = [kill EXCEPT ![t] = TRUE]

\* The timer expires: TimeoutKill finds the task unfinished and sets kill.
TimeoutKill(t) ==
  /\ "timeout" \in Faults
  /\ timer[t] = "armed"
  /\ timer' = [timer EXCEPT ![t] = "stopped"]
  /\ SetKill(t)
  /\ SetKiller("timer", t, "check")
  /\ UNCHANGED <<taskVars, awaitVars, finished, guard, slots, sequence, recv,
                 connVars, closeVars>>

\* Does the task wait?  Then an error is sent to it, else it is finished.
KillCheck(k, t) ==
  /\ killer[k][t] = "check"
  /\ SetKiller(k, t, IF awaitData[t] # 0 THEN "send" ELSE "finish")
  /\ UNCHANGED <<taskVars, awaitVars, timer, kill, finished, guard, slots,
                 sequence, recv, connVars, closeVars>>

\* The send blocks while the channel is full.
KillSend(k, t) ==
  /\ killer[k][t] = "send"
  /\ chan[t] = NoMsg
  /\ chan' = [chan EXCEPT ![t] = KillMsg]
  /\ SetKiller(k, t, "done")
  /\ UNCHANGED <<taskVars, awaitData, made, timer, kill, finished, guard, slots,
                 sequence, recv, connVars, closeVars>>

KillFinish(k, t) ==
  /\ killer[k][t] = "finish"
  /\ FinishTask(t)
  /\ SetKiller(k, t, "done")
  /\ UNCHANGED <<taskVars, awaitVars, kill, guard, slots, sequence, recv,
                 connVars, closeVars>>
-----------------------------------------------------------------------------
(* The ReceiveHandler goroutine.                                           *)

\* A message arrives and LoadAndDelete looks for the task that waits for it.
\* Without one it is a push (or a late answer), which may start a task.
ReceiveMessage(seq) ==
  /\ recv.st = "read"
  /\ seq \in server
  /\ server' = server \ {seq}
  /\ slots' = Delete(slots, seq)
  /\ recv' = IF Load(slots, seq) = NoTask THEN recv
             ELSE [st |-> "resume", seq |-> seq, task |-> Load(slots, seq)]
  /\ UNCHANGED <<taskVars, awaitVars, killVars, guard, sequence, conn, closed,
                 closeVars>>

\* Resume compares AwaitData with the sequence of the answer ...
ResumeCheck ==
  /\ recv.st = "resume"
  /\ recv' = IF made[recv.task] /\ awaitData[recv.task] = recv.seq
             THEN [recv EXCEPT !.st = "send"] ELSE Idle
  /\ UNCHANGED <<taskVars, awaitVars, killVars, guard, slots, sequence,
                 connVars, closeVars>>

\* ... and sends it; the send blocks while the channel is full.
ResumeSend ==
  /\ recv.st = "send"
  /\ chan[recv.task] = NoMsg
  /\ chan' = [chan EXCEPT ![recv.task] = Rsp(recv.seq)]
  /\ recv' = Idle
  /\ UNCHANGED <<taskVars, awaitData, made, killVars, guard, slots, sequence,
                 connVars, closeVars>>

\* Mutant of ReceiveExit: no CloseTask for a user that is already closed.
ReceiveExitClosed ==
  /\ recv.st = "read"
  /\ conn = "lost" \/ "garbage" \in Faults
  /\ recv' = [Idle EXCEPT !.st = "exit"]
  /\ closer' = IF closed THEN "none" ELSE "start"
  /\ UNCHANGED <<taskVars, awaitVars, killVars, guard, slots, sequence,
                 connVars, toKill>>

\* ReadMessage or Unmarshal fails: the handler returns and starts CloseTask.
ReceiveExit ==
  /\ recv.st = "read"
  /\ conn = "lost" \/ "garbage" \in Faults
  /\ recv' = [Idle EXCEPT !.st = "exit"]
  /\ closer' = "start"
  /\ UNCHANGED <<taskVars, awaitVars, killVars, guard, slots, sequence,
                 connVars, toKill>>
-----------------------------------------------------------------------------
(* The "ReceiveHandler Close" task.                                        *)

\* Fn of the task, with the guard: connection = nil, then Close.
CloseTaskRun ==
  /\ closer = "start"
  /\ guard = NoTask
  /\ guard' = CloseTask
  /\ conn' = "nil"
  /\ closed' = TRUE
  /\ closer' = "run"
  /\ UNCHANGED <<taskVars, awaitVars, killVars, slots, sequence, server, recv,
                 toKill>>

\* The guard is released; Finish calls CloseAll, which takes the snapshot of
\* active: every task ever started, since OnTaskFinish is not called for it.
CloseAll ==
  /\ closer = "run"
  /\ guard' = NoTask
  /\ closer' = "closeall"
  /\ toKill' = {t \in Task : pc[t] # "new"}
  /\ UNCHANGED <<taskVars, awaitVars, killVars, slots, sequence, recv, connVars>>

CloseAllBusy == \E t \in Task : killer["close"][t] \in {"check", "send", "finish"}

\* The next task of the snapshot: Kill returns if it has finished or never
\* waited, and sets kill otherwise.
CloseAllKill(t) ==
  /\ closer = "closeall"
  /\ ~CloseAllBusy
  /\ t \in toKill
  /\ toKill' = toKill \ {t}
  /\ IF finished[t] \/ ~made[t]
     THEN UNCHANGED <<kill, killer>>
     ELSE /\ SetKill(t)
          /\ SetKiller("close", t, "check")
  /\ UNCHANGED <<taskVars, awaitVars, timer, finished, guard, slots, sequence,
                 recv, connVars, closer>>

CloseAllDone ==
  /\ closer = "closeall"
  /\ ~CloseAllBusy
  /\ toKill = {}
  /\ closer' = "done"
  /\ UNCHANGED <<taskVars, awaitVars, killVars, guard, slots, sequence, recv,
                 connVars, toKill>>
-----------------------------------------------------------------------------
(* What happens outside the program.                                       *)

ConnectionLost ==
  /\ "reset" \in Faults
  /\ conn = "open"
  /\ conn' = "lost"
  /\ UNCHANGED <<taskVars, awaitVars, killVars, guard, slots, sequence, server,
                 recv, closed, closeVars>>

\* The answer never comes, or ReceiveHandler drops it before LoadAndDelete:
\* unpack fails, or the message type is not registered.
AnswerLost(seq) ==
  /\ "lost" \in Faults
  /\ seq \in server
  /\ server' = server \ {seq}
  /\ UNCHANGED <<taskVars, awaitVars, killVars, guard, slots, sequence, recv,
                 conn, closed, closeVars>>
-----------------------------------------------------------------------------
\* The steps a task's goroutine takes inside the framework.
TaskStep(t) ==
  \/ TaskFinish(t)
  \/ SendReqStore(t)
  \/ SendReqWrite(t)
  \/ SendReqWriteError(t)
  \/ Yield(t)
  \/ YieldReceive(t)
  \/ YieldClear(t)

\* The steps Fn and its caller choose.
FnStep(t) ==
  \/ RunTask(t)
  \/ SendReq(t)
  \/ SendReqRefused(t)
  \/ Logout(t)

KillStep(k, t) ==
  \/ KillCheck(k, t)
  \/ KillSend(k, t)
  \/ KillFinish(k, t)

ResumeStep ==
  \/ ResumeCheck
  \/ ResumeSend

CloseStep ==
  \/ CloseAll
  \/ CloseAllDone
  \/ \E t \in Task : CloseAllKill(t)

Environment ==
  \/ ConnectionLost
  \/ \E seq \in 1..MaxSeq : AnswerLost(seq)

Next ==
  \/ \E t \in Task : \/ TaskStep(t)
                     \/ FnStep(t)
                     \/ FnReturn(t)
                     \/ TakeActionGuard(t)
                     \/ TimeoutKill(t)
  \/ \E t \in Task, k \in Killers : KillStep(k, t)
  \/ \E seq \in 1..MaxSeq : ReceiveMessage(seq)
  \/ ResumeStep
  \/ ReceiveExit
  \/ CloseTaskRun
  \/ CloseStep
  \/ Environment

Spec == Init /\ [][Next]_vars

\* Goroutines and timers run, and Go's mutex hands itself to a waiter that has
\* waited long enough (its starvation mode).  Fn returns in the end.  The server
\* answers what it is asked, unless the answer is lost, and the stream delivers
\* every answer while the handler keeps reading.
Fairness ==
  /\ \A t \in Task : /\ WF_vars(TaskStep(t))
                     /\ WF_vars(FnReturn(t))
                     /\ SF_vars(TakeActionGuard(t))
                     /\ WF_vars(TimeoutKill(t))
                     /\ \A k \in Killers : WF_vars(KillStep(k, t))
  /\ \A seq \in 1..MaxSeq : SF_vars(ReceiveMessage(seq))
  /\ WF_vars(ResumeStep)
  /\ WF_vars(conn = "lost" /\ ReceiveExit)
  /\ SF_vars(CloseTaskRun)
  /\ WF_vars(CloseStep)

FairSpec == Spec /\ Fairness
-----------------------------------------------------------------------------
TypeOK ==
  /\ pc \in [Task -> TaskPc]
  /\ seqOf \in [Task -> Nat]
  /\ awaitData \in [Task -> Nat]
  /\ made \in [Task -> BOOLEAN]
  /\ chan \in [Task -> Msg]
  /\ got \in [Task -> Msg]
  /\ timer \in [Task -> {"none", "armed", "stopped"}]
  /\ kill \in [Task -> BOOLEAN]
  /\ finished \in [Task -> BOOLEAN]
  /\ killer \in [Killers -> [Task -> {"idle", "check", "send", "finish", "done"}]]
  /\ guard \in Task \cup {CloseTask, NoTask}
  /\ slots \in [SlotIndex -> Slot]
  /\ sequence \in Nat
  /\ server \subseteq Nat
  /\ recv \in [st : {"read", "resume", "send", "exit"}, seq : Nat,
               task : Task \cup {NoTask}]
  /\ conn \in {"open", "lost", "nil"}
  /\ closed \in BOOLEAN
  /\ closer \in {"none", "start", "run", "closeall", "done"}
  /\ toKill \subseteq Task

\* SendReq never returns the answer of another request: what Yield hands back
\* carries the sequence of the request the task sent last, although an answer
\* may sit in the channel, or be on its way into it, while the task gives up on
\* one request and sends the next ("matched by sequence", README, RPC).
AnswerMatchesRequest ==
  \A t \in Task : got[t].kind = "rsp" => got[t].seq = seqOf[t]

\* Where the answer of t's current request can still come from.
AnswerExpected(t) ==
  \/ slots[SlotOf(seqOf[t])] = [seq |-> seqOf[t], task |-> t]
  \/ /\ recv.st \in {"resume", "send"}
     /\ recv.task = t
     /\ recv.seq = seqOf[t]

\* No lost wakeup: a task parked on an empty channel is still registered in the
\* ring buffer, or the receive handler holds its answer, and AwaitData still
\* matches, so that Resume will accept the answer.
NoLostWakeup ==
  \A t \in Task :
    pc[t] = "wait" /\ chan[t] = NoMsg =>
      AnswerExpected(t) /\ awaitData[t] = seqOf[t]

\* The receive handler serves every task of the user; the only task whose
\* channel can be full when an answer is to be sent is one that was killed.
ReceiverBlockedOnlyByKilled ==
  recv.st = "send" /\ chan[recv.task] # NoMsg => kill[recv.task]

\* Every request comes back to Fn: with its answer, with an error when the
\* connection ends, or with an error when the task's timer expires.
RequestReturns ==
  \A t \in Task : pc[t] \in Sending \cup Parked ~> pc[t] \notin Sending \cup Parked
-----------------------------------------------------------------------------
(* The inductive invariant behind AnswerMatchesRequest, NoLostWakeup and   *)
(* ReceiverBlockedOnlyByKilled.  A task is Live while what the table, the  *)
(* receive handler and the channel hold for it belongs to its current      *)
(* request: until it is killed, and even then until the wait it was killed *)
(* in is over.  What is left of an abandoned request after that is harmless *)
(* because Yield never waits again once kill is set.                       *)

Live(t) == ~kill[t] \/ pc[t] = "wait"

RecvHolds(t) == recv.st \in {"resume", "send"} /\ recv.task = t

GuardInv ==
  /\ \A t \in Task : pc[t] \in Guarded <=> guard = t
  /\ closer = "run" <=> guard = CloseTask
  /\ recv.st # "exit" => closer = "none"

\* Sequences are never reused and AwaitData names the current request only.
SequenceInv ==
  /\ \A t \in Task : seqOf[t] <= sequence
  /\ \A t, u \in Task : t # u /\ seqOf[t] # 0 => seqOf[t] # seqOf[u]
  /\ \A t \in Task : awaitData[t] \in {0, seqOf[t]}
  /\ \A t \in Task : pc[t] \in Sending \cup {"wait", "clear"} =>
       seqOf[t] # 0 /\ awaitData[t] = seqOf[t] /\ made[t]

\* Only requests that were written can be answered.
ServerInv ==
  /\ \A s \in server : s # 0 /\ s <= sequence
  /\ \A t \in Task : seqOf[t] \in server => pc[t] \notin {"store", "write"}

KillInv ==
  \A t \in Task :
    /\ \A k \in Killers : killer[k][t] \in {"check", "send", "finish"} => kill[t]
    /\ chan[t].kind = "kill" => kill[t]
    /\ chan[t].kind = "none" => chan[t] = NoMsg

ChanInv ==
  \A t \in Task : Live(t) /\ chan[t].kind = "rsp" =>
    chan[t].seq = seqOf[t] /\ pc[t] \in {"yield", "wait"}

RecvInv ==
  /\ recv.st \in {"resume", "send"} => recv.task \in Task /\ recv.seq # 0
  /\ \A t \in Task : Live(t) /\ RecvHolds(t) =>
       recv.seq = seqOf[t] /\ pc[t] \in {"yield", "wait"} /\ chan[t].kind # "rsp"

SlotInv ==
  /\ \A i \in SlotIndex : slots[i].seq # 0 =>
       /\ slots[i].task \in Task
       /\ SlotOf(slots[i].seq) = i
       /\ slots[i].seq <= sequence
       /\ \A u \in Task : slots[i].seq = seqOf[u] => slots[i].task = u
  /\ \A i \in SlotIndex, t \in Task :
       slots[i].seq # 0 /\ slots[i].task = t /\ Live(t) =>
         /\ slots[i].seq = seqOf[t]
         /\ pc[t] \in {"write", "yield", "wait"}
         /\ chan[t].kind # "rsp"
         /\ ~RecvHolds(t)

WakeupInv ==
  \A t \in Task :
    /\ pc[t] = "write" => slots[SlotOf(seqOf[t])] = [seq |-> seqOf[t], task |-> t]
    /\ pc[t] = "yield" /\ ~kill[t] => chan[t] # NoMsg \/ AnswerExpected(t)
    /\ pc[t] = "wait" => chan[t] # NoMsg \/ AnswerExpected(t)

IInv ==
  /\ TypeOK
  /\ GuardInv
  /\ SequenceInv
  /\ ServerInv
  /\ KillInv
  /\ ChanInv
  /\ RecvInv
  /\ SlotInv
  /\ WakeupInv
  /\ AnswerMatchesRequest
=============================================================================
