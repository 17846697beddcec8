---------------------------- MODULE UserProofs ----------------------------
(***************************************************************************)
(* TLAPS proofs about the tasks of one User: the action guard (module      *)
(* ActionGuard), for any set of tasks, and the requests, answers and kills *)
(* (module UserRpc), for every set of tasks, every capacity of the ring    *)
(* buffer and every choice of faults.  UserRpc takes and releases the      *)
(* guard in one step; GuardRefinement is what allows it to.                *)
(***************************************************************************)
EXTENDS UserRpc, ActionGuard, TLAPS

-----------------------------------------------------------------------------
(* The action guard.                                                       *)

USE TaskAssumption DEF MutexTypeOK, Pc, Holding, Named, Step

\* No task runs yet: the mutex is free and the id is 0.
LEMMA MutexInitInv == MutexInit => MutexInv
  BY DEF MutexInit, MutexInv, OneTaskHolds, NeverRefused

\* Every step of a task preserves the invariant.
LEMMA MutexStepInv ==
  ASSUME MutexInv, NEW t \in Task, TaskNext(t)
  PROVE  MutexInv'
<1> USE DEF MutexInv, OneTaskHolds, NeverRefused
<1>1. CASE CallTake(t)
  BY <1>1 DEF CallTake
<1>2. CASE TakeCheck(t)
  BY <1>2 DEF TakeCheck
<1>3. CASE TakeLock(t)
  \* The mutex was free, so nobody was holding.
  BY <1>3 DEF TakeLock
<1>4. CASE TakeStore(t)
  BY <1>4 DEF TakeStore
<1>5. CASE CallYield(t)
  BY <1>5 DEF CallYield
<1>6. CASE FnEnds(t)
  BY <1>6 DEF FnEnds
<1>7. ASSUME NEW from, NEW to, ReleaseCas(t, from, to),
             <<from, to>> \in {<<"casY", "unlockY">>, <<"casE", "unlockE">>}
      PROVE  MutexInv'
  <2>1. gpc[t] \in Named /\ guardId = t
    BY <1>7 DEF ReleaseCas
  <2>2. guardId' = NoTask /\ mutex' = mutex /\ gpc' = [gpc EXCEPT ![t] = to]
        /\ to \in {"unlockY", "unlockE"}
    BY <1>7, <2>1 DEF ReleaseCas
  <2> QED BY <2>1, <2>2
<1>8. ASSUME NEW from, NEW to, ReleaseUnlock(t, from, to),
             <<from, to>> \in {<<"unlockY", "wait">>, <<"unlockE", "done">>}
      PROVE  MutexInv'
  <2>1. /\ gpc[t] \in {"unlockY", "unlockE"} /\ to \in {"wait", "done"}
        /\ gpc' = [gpc EXCEPT ![t] = to] /\ mutex' = FALSE /\ guardId' = guardId
    BY <1>8 DEF ReleaseUnlock
  <2>2. \A u \in Task : u # t => gpc[u] \notin Holding
    BY <2>1
  <2> QED BY <2>1, <2>2
<1> QED BY <1>1, <1>2, <1>3, <1>4, <1>5, <1>6, <1>7, <1>8
        DEF TaskNext, BeforeYield, EndOfHookRun

\* MutexInv is an invariant of the guard.
THEOREM MutexInvariant == MutexSpec => []MutexInv
<1>1. MutexInv /\ [MutexNext]_mutexVars => MutexInv'
  <2>1. MutexInv /\ UNCHANGED mutexVars => MutexInv'
    BY DEF mutexVars, MutexInv, OneTaskHolds, NeverRefused
  <2> QED BY <2>1, MutexStepInv DEF MutexNext
<1> QED BY MutexInitInv, <1>1, PTL DEF MutexSpec

\* Mutual exclusion of the tasks of one user, whatever their number.
THEOREM MutualExclusion == MutexSpec => []OneTaskHolds
<1>1. MutexInv => OneTaskHolds
  BY DEF MutexInv
<1> QED BY <1>1, MutexInvariant, PTL

\* TakeActionGuard and ReleaseActionGuard never return an error to HookRun,
\* BeforeYield or AfterYield.
THEOREM CallsAccepted == MutexSpec => []NeverRefused
<1>1. MutexInv => NeverRefused
  BY DEF MutexInv
<1> QED BY <1>1, MutexInvariant, PTL
-----------------------------------------------------------------------------
\* A step of a task enters, leaves or does not touch the abstract guard.
LEMMA StepRefines ==
  ASSUME MutexInv, NEW t \in Task, TaskNext(t)
  PROVE  Abstract!Enter(t) \/ Abstract!Leave(t) \/ UNCHANGED Inside
<1> USE DEF MutexInv, Inside, NeverRefused
<1>1. CASE TakeLock(t)
  <2>1. Inside = {} /\ Inside' = {t}
    BY <1>1 DEF TakeLock
  <2> QED BY <2>1 DEF Abstract!Enter
<1>2. CASE ReleaseUnlock(t, "unlockY", "wait") \/ ReleaseUnlock(t, "unlockE", "done")
  <2>1. Inside = {t} /\ Inside' = {}
    BY <1>2 DEF ReleaseUnlock, OneTaskHolds
  <2> QED BY <2>1 DEF Abstract!Leave
<1>3. CASE CallTake(t) \/ TakeCheck(t) \/ TakeStore(t) \/ CallYield(t) \/ FnEnds(t)
  BY <1>3 DEF CallTake, TakeCheck, TakeStore, CallYield, FnEnds
<1>4. CASE ReleaseCas(t, "casY", "unlockY") \/ ReleaseCas(t, "casE", "unlockE")
  <2>1. guardId = t
    BY <1>4 DEF ReleaseCas
  <2> QED BY <1>4, <2>1 DEF ReleaseCas
<1> QED BY <1>1, <1>2, <1>3, <1>4 DEF TaskNext, BeforeYield, EndOfHookRun

\* The guard implements its abstract specification.
THEOREM GuardRefinement == MutexSpec => ImplementsGuardSpec
<1>1. MutexInit => Abstract!Init
  BY DEF MutexInit, Abstract!Init, Inside
<1>2. MutexInv /\ [MutexNext]_mutexVars => [Abstract!Next]_Inside
  <2> SUFFICES ASSUME MutexInv, [MutexNext]_mutexVars
               PROVE  Abstract!Next \/ UNCHANGED Inside
    OBVIOUS
  <2>1. CASE UNCHANGED mutexVars
    BY <2>1 DEF mutexVars, Inside
  <2>2. CASE MutexNext
    BY <2>2, StepRefines DEF MutexNext, Abstract!Next
  <2> QED BY <2>1, <2>2
<1> QED BY <1>1, <1>2, MutexInvariant, PTL
        DEF MutexSpec, ImplementsGuardSpec, Abstract!Spec

HIDE DEF MutexTypeOK, Pc, Holding, Named, Step
-----------------------------------------------------------------------------
(* The requests of the tasks.                                              *)

\* The index sequence & (capacity - 1) is an index of the array.
LEMMA SlotOfType == \A s \in Nat : SlotOf(s) \in SlotIndex
  BY CapacityAssumption DEF SlotOf, SlotIndex

USE TaskAssumption, UserRpcAssumption, SlotOfType
USE DEF Goto, SetKiller, SetKill, YieldRefused,
        taskVars, awaitVars, killVars, connVars, closeVars,
        Guarded, Sending, Parked, TaskPc, Killers, NoMsg, KillMsg, Rsp, Msg,
        Idle, FreeSlot, Slot
-----------------------------------------------------------------------------
\* The initial state of a user: no task, no request, an open connection.
LEMMA InitInv == Init => IInv
<1> SUFFICES ASSUME Init PROVE IInv
  OBVIOUS
<1> USE DEF Init, NewRPCRingBuffer
<1>1. TypeOK /\ GuardInv
  BY DEF TypeOK, GuardInv
<1>2. SequenceInv /\ ServerInv /\ KillInv /\ ChanInv
  BY DEF SequenceInv, ServerInv, KillInv, ChanInv, Live
<1>3. RecvInv /\ SlotInv
  BY DEF RecvInv, SlotInv, Live, RecvHolds
<1>4. WakeupInv /\ AnswerMatchesRequest
  BY DEF WakeupInv, AnswerMatchesRequest
<1> QED BY <1>1, <1>2, <1>3, <1>4 DEF IInv

\* The life of a task: start, guard, return, finish, logout.
LEMMA TaskStepInv ==
  ASSUME IInv,
         \E t \in Task : RunTask(t) \/ TakeActionGuard(t) \/ FnReturn(t)
                        \/ TaskFinish(t) \/ Logout(t)
  PROVE  IInv'
<1> USE DEF IInv
<1>1. ASSUME NEW t \in Task, RunTask(t)
      PROVE  IInv'
  <2>1. TypeOK'
    BY <1>1 DEF TypeOK, RunTask
  <2>2. KillInv' /\ AnswerMatchesRequest'
    BY <1>1 DEF KillInv, AnswerMatchesRequest, RunTask
  <2>3. GuardInv'
    BY <1>1 DEF TypeOK, GuardInv, RunTask
  <2>4. SequenceInv'
    BY <1>1 DEF TypeOK, SequenceInv, RunTask
  <2>5. ServerInv'
    BY <1>1 DEF TypeOK, ServerInv, RunTask
  <2>6. ChanInv'
    BY <1>1 DEF TypeOK, ChanInv, Live, RunTask
  <2>7. RecvInv'
    BY <1>1 DEF TypeOK, RecvInv, Live, RecvHolds, RunTask
  <2>8. SlotInv'
    BY <1>1 DEF TypeOK, SlotInv, Live, RecvHolds, RunTask
  <2>9. WakeupInv'
    BY <1>1 DEF TypeOK, WakeupInv, AnswerExpected, RunTask
  <2> QED BY <2>1, <2>2, <2>3, <2>4, <2>5, <2>6, <2>7, <2>8, <2>9 DEF IInv
<1>2. ASSUME NEW t \in Task, TakeActionGuard(t)
      PROVE  IInv'
  <2>1. TypeOK'
    BY <1>2 DEF TypeOK, TakeActionGuard
  <2>2. KillInv' /\ AnswerMatchesRequest'
    BY <1>2 DEF KillInv, AnswerMatchesRequest, TakeActionGuard
  <2>3. GuardInv'
    BY <1>2 DEF TypeOK, GuardInv, TakeActionGuard
  <2>4. SequenceInv'
    BY <1>2 DEF TypeOK, SequenceInv, TakeActionGuard
  <2>5. ServerInv'
    BY <1>2 DEF TypeOK, ServerInv, TakeActionGuard
  <2>6. ChanInv'
    BY <1>2 DEF TypeOK, ChanInv, Live, TakeActionGuard
  <2>7. RecvInv'
    BY <1>2 DEF TypeOK, RecvInv, Live, RecvHolds, TakeActionGuard
  <2>8. SlotInv'
    BY <1>2 DEF TypeOK, SlotInv, Live, RecvHolds, TakeActionGuard
  <2>9. WakeupInv'
    BY <1>2 DEF TypeOK, WakeupInv, AnswerExpected, TakeActionGuard
  <2> QED BY <2>1, <2>2, <2>3, <2>4, <2>5, <2>6, <2>7, <2>8, <2>9 DEF IInv
<1>3. ASSUME NEW t \in Task, FnReturn(t)
      PROVE  IInv'
  <2>1. TypeOK'
    BY <1>3 DEF TypeOK, FnReturn
  <2>2. KillInv' /\ AnswerMatchesRequest'
    BY <1>3 DEF KillInv, AnswerMatchesRequest, FnReturn
  <2>3. GuardInv'
    BY <1>3 DEF TypeOK, GuardInv, FnReturn
  <2>4. SequenceInv'
    BY <1>3 DEF TypeOK, SequenceInv, FnReturn
  <2>5. ServerInv'
    BY <1>3 DEF TypeOK, ServerInv, FnReturn
  <2>6. ChanInv'
    BY <1>3 DEF TypeOK, ChanInv, Live, FnReturn
  <2>7. RecvInv'
    BY <1>3 DEF TypeOK, RecvInv, Live, RecvHolds, FnReturn
  <2>8. SlotInv'
    BY <1>3 DEF TypeOK, SlotInv, Live, RecvHolds, FnReturn
  <2>9. WakeupInv'
    BY <1>3 DEF TypeOK, WakeupInv, AnswerExpected, FnReturn
  <2> QED BY <2>1, <2>2, <2>3, <2>4, <2>5, <2>6, <2>7, <2>8, <2>9 DEF IInv
<1>4. ASSUME NEW t \in Task, TaskFinish(t)
      PROVE  IInv'
  <2>1. TypeOK'
    BY <1>4 DEF TypeOK, TaskFinish, FinishTask
  <2>2. KillInv' /\ AnswerMatchesRequest'
    BY <1>4 DEF KillInv, AnswerMatchesRequest, TaskFinish, FinishTask
  <2>3. GuardInv'
    BY <1>4 DEF TypeOK, GuardInv, TaskFinish, FinishTask
  <2>4. SequenceInv'
    BY <1>4 DEF TypeOK, SequenceInv, TaskFinish, FinishTask
  <2>5. ServerInv'
    BY <1>4 DEF TypeOK, ServerInv, TaskFinish, FinishTask
  <2>6. ChanInv'
    BY <1>4 DEF TypeOK, ChanInv, Live, TaskFinish, FinishTask
  <2>7. RecvInv'
    BY <1>4 DEF TypeOK, RecvInv, Live, RecvHolds, TaskFinish, FinishTask
  <2>8. SlotInv'
    BY <1>4 DEF TypeOK, SlotInv, Live, RecvHolds, TaskFinish, FinishTask
  <2>9. WakeupInv'
    BY <1>4 DEF TypeOK, WakeupInv, AnswerExpected, TaskFinish, FinishTask
  <2> QED BY <2>1, <2>2, <2>3, <2>4, <2>5, <2>6, <2>7, <2>8, <2>9 DEF IInv
<1>5. ASSUME NEW t \in Task, Logout(t)
      PROVE  IInv'
  <2>1. TypeOK'
    BY <1>5 DEF TypeOK, Logout
  <2>2. /\ GuardInv' /\ SequenceInv' /\ ServerInv' /\ KillInv' /\ ChanInv'
        /\ RecvInv' /\ SlotInv' /\ WakeupInv' /\ AnswerMatchesRequest'
    BY <1>5 DEF
       GuardInv, SequenceInv, ServerInv, KillInv, ChanInv, Live, RecvInv,
       RecvHolds, SlotInv, WakeupInv, AnswerExpected, AnswerMatchesRequest,
       Logout
  <2> QED BY <2>1, <2>2 DEF IInv
<1> QED BY <1>1, <1>2, <1>3, <1>4, <1>5

\* The steps of SendReq and Yield.
LEMMA SendReqInv ==
  ASSUME IInv,
         \E t \in Task : SendReqRefused(t) \/ SendReq(t) \/ SendReqStore(t)
                        \/ SendReqWrite(t) \/ SendReqWriteError(t) \/ Yield(t)
                        \/ YieldReceive(t) \/ YieldClear(t)
  PROVE  IInv'
<1> USE DEF IInv
<1>1. ASSUME NEW t \in Task, SendReqRefused(t)
      PROVE  IInv'
  <2>1. TypeOK'
    BY <1>1 DEF TypeOK, SendReqRefused
  <2>2. /\ GuardInv' /\ KillInv' /\ ChanInv' /\ RecvInv' /\ WakeupInv'
        /\ AnswerMatchesRequest'
    BY <1>1 DEF
       GuardInv, KillInv, ChanInv, Live, RecvInv, RecvHolds, WakeupInv,
       AnswerExpected, AnswerMatchesRequest, SendReqRefused
  <2>3. SequenceInv'
    BY <1>1 DEF TypeOK, SequenceInv, SendReqRefused
  <2>4. ServerInv'
    BY <1>1 DEF TypeOK, ServerInv, SendReqRefused
  <2>5. SlotInv'
    BY <1>1 DEF TypeOK, SlotInv, Live, RecvHolds, SendReqRefused
  <2> QED BY <2>1, <2>2, <2>3, <2>4, <2>5 DEF IInv
<1>2. ASSUME NEW t \in Task, SendReq(t)
      PROVE  IInv'
  <2>1. TypeOK'
    BY <1>2 DEF TypeOK, SendReq, SetAwaitData
  <2>2. KillInv'
    BY <1>2 DEF KillInv, SendReq, SetAwaitData
  <2>3. GuardInv'
    BY <1>2 DEF TypeOK, GuardInv, SendReq, SetAwaitData
  <2>4. SequenceInv'
    BY <1>2 DEF TypeOK, SequenceInv, SendReq, SetAwaitData
  <2>5. ServerInv'
    BY <1>2 DEF TypeOK, ServerInv, SendReq, SetAwaitData
  <2>6. ChanInv'
    BY <1>2 DEF TypeOK, ChanInv, Live, SendReq, SetAwaitData
  <2>7. RecvInv'
    BY <1>2 DEF TypeOK, RecvInv, Live, RecvHolds, SendReq, SetAwaitData
  <2>8. SlotInv'
    BY <1>2 DEF TypeOK, SlotInv, Live, RecvHolds, SendReq, SetAwaitData
  <2>9. WakeupInv'
    BY <1>2 DEF TypeOK, WakeupInv, AnswerExpected, SendReq, SetAwaitData
  <2>10. AnswerMatchesRequest'
    BY <1>2 DEF TypeOK, AnswerMatchesRequest, SendReq, SetAwaitData
  <2> QED BY <2>1, <2>2, <2>3, <2>4, <2>5, <2>6, <2>7, <2>8, <2>9, <2>10 DEF IInv
<1>3. ASSUME NEW t \in Task, SendReqStore(t)
      PROVE  IInv'
  <2>1. TypeOK'
    BY <1>3 DEF TypeOK, SendReqStore, StoreBlocking, CanStore
  <2>2. KillInv' /\ AnswerMatchesRequest'
    BY <1>3 DEF
       KillInv, AnswerMatchesRequest, SendReqStore, StoreBlocking, CanStore
  <2>3. GuardInv'
    BY <1>3 DEF TypeOK, GuardInv, SendReqStore, StoreBlocking, CanStore
  <2>4. SequenceInv'
    BY <1>3 DEF TypeOK, SequenceInv, SendReqStore, StoreBlocking, CanStore
  <2>5. ServerInv'
    BY <1>3 DEF TypeOK, ServerInv, SendReqStore, StoreBlocking, CanStore
  <2>6. ChanInv'
    BY <1>3 DEF TypeOK, ChanInv, Live, SendReqStore, StoreBlocking, CanStore
  <2>7. RecvInv'
    BY <1>3 DEF
       TypeOK, RecvInv, Live, RecvHolds, SendReqStore, StoreBlocking, CanStore
  <2>8. SlotInv'
    BY <1>3 DEF
       TypeOK, SlotInv, Live, RecvHolds, SequenceInv, ChanInv, RecvInv,
       SendReqStore, StoreBlocking, CanStore
  <2>9. WakeupInv'
    BY <1>3 DEF
       TypeOK, WakeupInv, AnswerExpected, SequenceInv, SendReqStore,
       StoreBlocking, CanStore
  <2> QED BY <2>1, <2>2, <2>3, <2>4, <2>5, <2>6, <2>7, <2>8, <2>9 DEF IInv
<1>4. ASSUME NEW t \in Task, SendReqWrite(t)
      PROVE  IInv'
  <2>1. seqOf[t] \in Nat /\ {seqOf[t]} \subseteq Nat
    BY DEF TypeOK
  <2>2. TypeOK'
    BY <1>4, <2>1 DEF TypeOK, SendReqWrite
  <2>3. KillInv' /\ AnswerMatchesRequest'
    BY <1>4 DEF KillInv, AnswerMatchesRequest, SendReqWrite
  <2>4. GuardInv'
    BY <1>4 DEF TypeOK, GuardInv, SendReqWrite
  <2>5. SequenceInv'
    BY <1>4 DEF TypeOK, SequenceInv, SendReqWrite
  <2>6. ServerInv'
    BY <1>4 DEF TypeOK, ServerInv, SequenceInv, SendReqWrite
  <2>7. ChanInv'
    BY <1>4 DEF TypeOK, ChanInv, Live, SendReqWrite
  <2>8. RecvInv'
    BY <1>4 DEF TypeOK, RecvInv, Live, RecvHolds, SendReqWrite
  <2>9. SlotInv'
    BY <1>4 DEF TypeOK, SlotInv, Live, RecvHolds, SendReqWrite
  <2>10. WakeupInv'
    BY <1>4 DEF TypeOK, WakeupInv, AnswerExpected, SendReqWrite
  <2> QED BY <2>1, <2>2, <2>3, <2>4, <2>5, <2>6, <2>7, <2>8, <2>9, <2>10 DEF IInv
<1>5. ASSUME NEW t \in Task, SendReqWriteError(t)
      PROVE  IInv'
  <2>1. TypeOK'
    BY <1>5 DEF TypeOK, SendReqWriteError, Delete, Holds
  <2>2. KillInv'
    BY <1>5 DEF KillInv, SendReqWriteError, Delete, Holds
  <2>3. GuardInv'
    BY <1>5 DEF TypeOK, GuardInv, SendReqWriteError, Delete, Holds
  <2>4. SequenceInv'
    BY <1>5 DEF TypeOK, SequenceInv, SendReqWriteError, Delete, Holds
  <2>5. ServerInv'
    BY <1>5 DEF TypeOK, ServerInv, SendReqWriteError, Delete, Holds
  <2>6. ChanInv'
    BY <1>5 DEF TypeOK, ChanInv, Live, SendReqWriteError, Delete, Holds
  <2>7. RecvInv'
    BY <1>5 DEF
       TypeOK, RecvInv, Live, RecvHolds, SendReqWriteError, Delete, Holds
  <2>8. SlotInv'
    BY <1>5 DEF
       TypeOK, SlotInv, Live, RecvHolds, SendReqWriteError, Delete, Holds
  <2>9. WakeupInv'
    BY <1>5 DEF
       TypeOK, WakeupInv, AnswerExpected, SequenceInv, SendReqWriteError,
       Delete, Holds
  <2>10. AnswerMatchesRequest'
    BY <1>5 DEF TypeOK, AnswerMatchesRequest, SendReqWriteError, Delete, Holds
  <2> QED BY <2>1, <2>2, <2>3, <2>4, <2>5, <2>6, <2>7, <2>8, <2>9, <2>10 DEF IInv
<1>6. ASSUME NEW t \in Task, Yield(t)
      PROVE  IInv'
  <2>1. made[t] /\ guard = t
    BY <1>6 DEF Yield, GuardInv, SequenceInv
  <2>2. CASE kill[t]
    <3>1. pc' = [pc EXCEPT ![t] = "run"] /\ guard' = guard
          /\ got' = [got EXCEPT ![t] = KillMsg]
      BY <1>6, <2>2 DEF Yield
    <3>2. TypeOK' /\ KillInv' /\ AnswerMatchesRequest'
      BY <1>6, <3>1 DEF Yield, TypeOK, KillInv, AnswerMatchesRequest
    <3>3. GuardInv' /\ SequenceInv' /\ ServerInv'
      BY <1>6, <3>1 DEF Yield, TypeOK, GuardInv, SequenceInv, ServerInv
    <3>4. ChanInv' /\ RecvInv'
      BY <1>6, <2>2, <3>1 DEF Yield, TypeOK, ChanInv, RecvInv, Live, RecvHolds
    <3>5. SlotInv' /\ WakeupInv'
      BY <1>6, <2>2, <3>1 DEF Yield, TypeOK, SlotInv, Live, RecvHolds,
         WakeupInv, AnswerExpected
    <3> QED BY <3>2, <3>3, <3>4, <3>5 DEF IInv
  <2>3. CASE ~kill[t]
    <3>1. pc' = [pc EXCEPT ![t] = "wait"] /\ guard' = NoTask /\ got' = got
      BY <1>6, <2>1, <2>3 DEF Yield
    <3>2. TypeOK' /\ KillInv' /\ AnswerMatchesRequest'
      BY <1>6, <3>1 DEF Yield, TypeOK, KillInv, AnswerMatchesRequest
    <3>3. GuardInv' /\ SequenceInv' /\ ServerInv'
      BY <1>6, <2>1, <3>1 DEF Yield, TypeOK, GuardInv, SequenceInv, ServerInv
    <3>4. ChanInv' /\ RecvInv'
      BY <1>6, <2>3, <3>1 DEF Yield, TypeOK, ChanInv, RecvInv, Live, RecvHolds
    <3>5. SlotInv' /\ WakeupInv'
      BY <1>6, <2>3, <3>1 DEF Yield, TypeOK, SlotInv, Live, RecvHolds,
         WakeupInv, AnswerExpected
    <3> QED BY <3>2, <3>3, <3>4, <3>5 DEF IInv
  <2> QED BY <2>2, <2>3
<1>7. ASSUME NEW t \in Task, YieldReceive(t)
      PROVE  IInv'
  <2>1. TypeOK'
    BY <1>7 DEF TypeOK, YieldReceive
  <2>2. GuardInv'
    BY <1>7 DEF TypeOK, GuardInv, YieldReceive
  <2>3. SequenceInv'
    BY <1>7 DEF TypeOK, SequenceInv, YieldReceive
  <2>4. ServerInv'
    BY <1>7 DEF TypeOK, ServerInv, YieldReceive
  <2>5. KillInv'
    BY <1>7 DEF TypeOK, KillInv, YieldReceive
  <2>6. ChanInv'
    BY <1>7 DEF TypeOK, ChanInv, Live, YieldReceive
  <2>7. RecvInv'
    BY <1>7 DEF TypeOK, RecvInv, Live, RecvHolds, KillInv, YieldReceive
  <2>8. SlotInv'
    BY <1>7 DEF TypeOK, SlotInv, Live, RecvHolds, KillInv, YieldReceive
  <2>9. WakeupInv'
    BY <1>7 DEF TypeOK, WakeupInv, AnswerExpected, YieldReceive
  <2>10. AnswerMatchesRequest'
    BY <1>7 DEF TypeOK, AnswerMatchesRequest, ChanInv, Live, YieldReceive
  <2> QED BY <2>1, <2>2, <2>3, <2>4, <2>5, <2>6, <2>7, <2>8, <2>9, <2>10 DEF IInv
<1>8. ASSUME NEW t \in Task, YieldClear(t)
      PROVE  IInv'
  <2>1. TypeOK'
    BY <1>8 DEF TypeOK, YieldClear
  <2>2. KillInv' /\ AnswerMatchesRequest'
    BY <1>8 DEF KillInv, AnswerMatchesRequest, YieldClear
  <2>3. GuardInv'
    BY <1>8 DEF TypeOK, GuardInv, YieldClear
  <2>4. SequenceInv'
    BY <1>8 DEF TypeOK, SequenceInv, YieldClear
  <2>5. ServerInv'
    BY <1>8 DEF TypeOK, ServerInv, YieldClear
  <2>6. ChanInv'
    BY <1>8 DEF TypeOK, ChanInv, Live, YieldClear
  <2>7. RecvInv'
    BY <1>8 DEF TypeOK, RecvInv, Live, RecvHolds, YieldClear
  <2>8. SlotInv'
    BY <1>8 DEF TypeOK, SlotInv, Live, RecvHolds, YieldClear
  <2>9. WakeupInv'
    BY <1>8 DEF TypeOK, WakeupInv, AnswerExpected, YieldClear
  <2> QED BY <2>1, <2>2, <2>3, <2>4, <2>5, <2>6, <2>7, <2>8, <2>9 DEF IInv
<1> QED BY <1>1, <1>2, <1>3, <1>4, <1>5, <1>6, <1>7, <1>8

\* TimeoutKill and Kill.
LEMMA KillStepInv ==
  ASSUME IInv,
         \E t \in Task : TimeoutKill(t) \/ \E k \in Killers : KillStep(k, t)
  PROVE  IInv'
<1> USE DEF IInv
<1>1. ASSUME NEW t \in Task, TimeoutKill(t)
      PROVE  IInv'
  <2>1. TypeOK'
    BY <1>1 DEF TypeOK, TimeoutKill
  <2>2. GuardInv' /\ SequenceInv' /\ ServerInv' /\ AnswerMatchesRequest'
    BY <1>1 DEF
       GuardInv, SequenceInv, ServerInv, AnswerMatchesRequest, TimeoutKill
  <2>3. KillInv'
    BY <1>1 DEF TypeOK, KillInv, TimeoutKill
  <2>4. ChanInv'
    BY <1>1 DEF TypeOK, ChanInv, Live, TimeoutKill
  <2>5. RecvInv'
    BY <1>1 DEF TypeOK, RecvInv, Live, RecvHolds, TimeoutKill
  <2>6. SlotInv'
    BY <1>1 DEF TypeOK, SlotInv, Live, RecvHolds, TimeoutKill
  <2>7. WakeupInv'
    BY <1>1 DEF TypeOK, WakeupInv, AnswerExpected, TimeoutKill
  <2> QED BY <2>1, <2>2, <2>3, <2>4, <2>5, <2>6, <2>7 DEF IInv
<1>2. ASSUME NEW k \in Killers, NEW t \in Task, KillCheck(k, t)
      PROVE  IInv'
  <2>1. TypeOK'
    BY <1>2 DEF TypeOK, KillCheck
  <2>2. /\ GuardInv' /\ SequenceInv' /\ ServerInv' /\ ChanInv' /\ RecvInv'
        /\ SlotInv' /\ WakeupInv' /\ AnswerMatchesRequest'
    BY <1>2 DEF
       GuardInv, SequenceInv, ServerInv, ChanInv, Live, RecvInv, RecvHolds,
       SlotInv, WakeupInv, AnswerExpected, AnswerMatchesRequest, KillCheck
  <2>3. KillInv'
    BY <1>2 DEF TypeOK, KillInv, KillCheck
  <2> QED BY <2>1, <2>2, <2>3 DEF IInv
<1>3. ASSUME NEW k \in Killers, NEW t \in Task, KillSend(k, t)
      PROVE  IInv'
  <2>1. TypeOK'
    BY <1>3 DEF TypeOK, KillSend
  <2>2. GuardInv' /\ SequenceInv' /\ ServerInv' /\ AnswerMatchesRequest'
    BY <1>3 DEF
       GuardInv, SequenceInv, ServerInv, AnswerMatchesRequest, KillSend
  <2>3. KillInv'
    BY <1>3 DEF TypeOK, KillInv, KillSend
  <2>4. ChanInv'
    BY <1>3 DEF TypeOK, ChanInv, Live, KillSend
  <2>5. RecvInv'
    BY <1>3 DEF TypeOK, RecvInv, Live, RecvHolds, KillSend
  <2>6. SlotInv'
    BY <1>3 DEF TypeOK, SlotInv, Live, RecvHolds, KillSend
  <2>7. WakeupInv'
    BY <1>3 DEF TypeOK, WakeupInv, AnswerExpected, KillSend
  <2> QED BY <2>1, <2>2, <2>3, <2>4, <2>5, <2>6, <2>7 DEF IInv
<1>4. ASSUME NEW k \in Killers, NEW t \in Task, KillFinish(k, t)
      PROVE  IInv'
  <2>1. TypeOK'
    BY <1>4 DEF TypeOK, KillFinish, FinishTask
  <2>2. /\ GuardInv' /\ SequenceInv' /\ ServerInv' /\ ChanInv' /\ RecvInv'
        /\ SlotInv' /\ WakeupInv' /\ AnswerMatchesRequest'
    BY <1>4 DEF
       GuardInv, SequenceInv, ServerInv, ChanInv, Live, RecvInv, RecvHolds,
       SlotInv, WakeupInv, AnswerExpected, AnswerMatchesRequest, KillFinish,
       FinishTask
  <2>3. KillInv'
    BY <1>4 DEF TypeOK, KillInv, KillFinish, FinishTask
  <2> QED BY <2>1, <2>2, <2>3 DEF IInv
<1> QED BY <1>1, <1>2, <1>3, <1>4
       DEF KillStep

\* The receive handler.
LEMMA ReceiveStepInv ==
  ASSUME IInv,
         (\E s \in 1..MaxSeq : ReceiveMessage(s)) \/ ResumeStep \/ ReceiveExit
  PROVE  IInv'
<1> USE DEF IInv
<1>1. ASSUME NEW s \in 1..MaxSeq, ReceiveMessage(s)
      PROVE  IInv'
  <2>1. TypeOK'
    BY <1>1 DEF TypeOK, ReceiveMessage, Delete, Holds, Load
  <2>2. SequenceInv' /\ KillInv' /\ ChanInv' /\ AnswerMatchesRequest'
    BY <1>1 DEF
       SequenceInv, KillInv, ChanInv, Live, AnswerMatchesRequest,
       ReceiveMessage, Delete, Holds, Load
  <2>3. GuardInv'
    BY <1>1 DEF TypeOK, GuardInv, ReceiveMessage, Delete, Holds, Load
  <2>4. ServerInv'
    BY <1>1 DEF TypeOK, ServerInv, ReceiveMessage, Delete, Holds, Load
  <2>5. RecvInv'
    BY <1>1 DEF
       TypeOK, RecvInv, Live, RecvHolds, ServerInv, SlotInv, ReceiveMessage,
       Delete, Holds, Load
  <2>6. SlotInv'
    <3> DEFINE i == SlotOf(s)
    <3>1. s \in Nat /\ s # 0 /\ i \in SlotIndex
      BY <1>1 DEF ReceiveMessage, ServerInv
    <3>2. CASE ~Holds(slots, s)
      <4>1. slots' = slots /\ recv' = recv
        BY <1>1, <3>2 DEF ReceiveMessage, Delete, Load
      <4> QED BY <1>1, <4>1 DEF ReceiveMessage, SlotInv, Live, RecvHolds
    <3>3. CASE Holds(slots, s)
      <4> DEFINE u == slots[i].task
      <4>1. u \in Task /\ slots[i].seq = s
        BY <3>1, <3>3 DEF Holds, SlotInv
      <4>2. slots' = [slots EXCEPT ![i] = FreeSlot]
        BY <1>1, <3>3 DEF ReceiveMessage, Delete
      <4>3. recv' = [st |-> "resume", seq |-> s, task |-> u]
        BY <1>1, <3>3, <4>1 DEF ReceiveMessage, Load
      <4> HIDE DEF i, u
      <4>4. \A j \in SlotIndex : slots'[j].seq # 0 => j # i /\ slots'[j] = slots[j]
        BY <3>1, <4>2 DEF TypeOK
      \* The only slot of a live task is the one of its current request.
      <4>5. \A j \in SlotIndex :
              j # i /\ slots[j].seq # 0 /\ slots[j].task = u => ~Live(u)
        <5> SUFFICES ASSUME NEW j \in SlotIndex, slots[j].seq # 0,
                            slots[j].task = u, Live(u)
                     PROVE  j = i
          OBVIOUS
        <5>1. slots[j].seq = seqOf[u] /\ slots[i].seq = seqOf[u]
          BY <3>1, <4>1 DEF SlotInv, u
        <5> QED BY <3>1, <4>1, <5>1 DEF SlotInv, i
      <4>6. \A t \in Task : RecvHolds(t)' => t = u
        BY <4>3 DEF RecvHolds
      <4>7. UNCHANGED <<sequence, seqOf, pc, chan>> /\ \A t \in Task : Live(t)' = Live(t)
        BY <1>1 DEF ReceiveMessage, Live
      <4>8. \A j \in SlotIndex, t \in Task :
              slots'[j].seq # 0 /\ slots'[j].task = t /\ Live(t)' =>
                /\ slots'[j].seq = seqOf[t]
                /\ pc[t] \in {"write", "yield", "wait"}
                /\ chan[t].kind # "rsp"
                /\ ~RecvHolds(t)'
        BY <4>1, <4>4, <4>5, <4>6, <4>7 DEF SlotInv
      <4> QED BY <4>4, <4>7, <4>8 DEF SlotInv
    <3> QED BY <3>2, <3>3
  <2>7. WakeupInv'
    BY <1>1 DEF
       TypeOK, WakeupInv, AnswerExpected, ServerInv, ReceiveMessage, Delete,
       Holds, Load
  <2> QED BY <2>1, <2>2, <2>3, <2>4, <2>5, <2>6, <2>7 DEF IInv
<1>2. ASSUME ResumeCheck
      PROVE  IInv'
  <2>1. \/ recv' = [st |-> "send", seq |-> recv.seq, task |-> recv.task]
        \/ recv' = Idle
    BY <1>2 DEF ResumeCheck, TypeOK
  <2>2. TypeOK'
    BY <1>2, <2>1 DEF TypeOK, ResumeCheck
  <2>3. /\ SequenceInv' /\ ServerInv' /\ KillInv' /\ ChanInv'
        /\ AnswerMatchesRequest'
    BY <1>2 DEF SequenceInv, ServerInv, KillInv, ChanInv, Live,
       AnswerMatchesRequest, ResumeCheck
  <2>4. GuardInv'
    BY <1>2 DEF TypeOK, GuardInv, ResumeCheck
  <2>5. RecvInv'
    BY <1>2 DEF TypeOK, RecvInv, Live, RecvHolds, ResumeCheck
  <2>6. SlotInv'
    BY <1>2 DEF TypeOK, SlotInv, Live, RecvHolds, ResumeCheck
  <2>7. WakeupInv'
    BY <1>2 DEF TypeOK, WakeupInv, AnswerExpected, SequenceInv, ServerInv,
       ResumeCheck
  <2> QED BY <2>2, <2>3, <2>4, <2>5, <2>6, <2>7 DEF IInv
<1>3. ASSUME ResumeSend
      PROVE  IInv'
  <2>1. TypeOK'
    BY <1>3 DEF TypeOK, RecvInv, Live, RecvHolds, ResumeSend
  <2>2. SequenceInv' /\ ServerInv' /\ AnswerMatchesRequest'
    BY <1>3 DEF SequenceInv, ServerInv, AnswerMatchesRequest, ResumeSend
  <2>3. GuardInv'
    BY <1>3 DEF TypeOK, GuardInv, ResumeSend
  <2>4. KillInv'
    BY <1>3 DEF TypeOK, KillInv, ResumeSend
  <2>5. ChanInv'
    BY <1>3 DEF TypeOK, ChanInv, Live, RecvInv, RecvHolds, SlotInv, ResumeSend
  <2>6. RecvInv'
    BY <1>3 DEF TypeOK, RecvInv, Live, RecvHolds, ResumeSend
  <2>7. SlotInv'
    BY <1>3 DEF TypeOK, SlotInv, Live, RecvHolds, ResumeSend
  <2>8. WakeupInv'
    BY <1>3 DEF TypeOK, WakeupInv, AnswerExpected, ResumeSend
  <2> QED BY <2>1, <2>2, <2>3, <2>4, <2>5, <2>6, <2>7, <2>8 DEF IInv
<1>4. ASSUME ReceiveExit
      PROVE  IInv'
  <2>1. TypeOK'
    BY <1>4 DEF TypeOK, SlotInv, Live, RecvHolds, ReceiveExit
  <2>2. /\ SequenceInv' /\ ServerInv' /\ KillInv' /\ ChanInv'
        /\ AnswerMatchesRequest'
    BY <1>4 DEF
       SequenceInv, ServerInv, KillInv, ChanInv, Live, AnswerMatchesRequest,
       ReceiveExit
  <2>3. GuardInv'
    BY <1>4 DEF TypeOK, GuardInv, ReceiveExit
  <2>4. RecvInv'
    BY <1>4 DEF TypeOK, RecvInv, Live, RecvHolds, ReceiveExit
  <2>5. SlotInv'
    BY <1>4 DEF TypeOK, SlotInv, Live, RecvHolds, ReceiveExit
  <2>6. WakeupInv'
    BY <1>4 DEF TypeOK, WakeupInv, AnswerExpected, ReceiveExit
  <2> QED BY <2>1, <2>2, <2>3, <2>4, <2>5, <2>6 DEF IInv
<1> QED BY <1>1, <1>2, <1>3, <1>4
       DEF ResumeStep

\* The closing task and the outside world.
LEMMA CloseStepInv ==
  ASSUME IInv,
         CloseTaskRun \/ CloseStep \/ Environment
  PROVE  IInv'
<1> USE DEF IInv
<1>1. ASSUME CloseTaskRun
      PROVE  IInv'
  <2>1. TypeOK'
    BY <1>1 DEF TypeOK, CloseTaskRun
  <2>2. /\ SequenceInv' /\ ServerInv' /\ KillInv' /\ ChanInv' /\ RecvInv'
        /\ SlotInv' /\ WakeupInv' /\ AnswerMatchesRequest'
    BY <1>1 DEF
       SequenceInv, ServerInv, KillInv, ChanInv, Live, RecvInv, RecvHolds,
       SlotInv, WakeupInv, AnswerExpected, AnswerMatchesRequest, CloseTaskRun
  <2>3. GuardInv'
    BY <1>1 DEF TypeOK, GuardInv, CloseTaskRun
  <2> QED BY <2>1, <2>2, <2>3 DEF IInv
<1>2. ASSUME CloseAll
      PROVE  IInv'
  <2>1. TypeOK'
    BY <1>2 DEF TypeOK, CloseAll
  <2>2. /\ SequenceInv' /\ ServerInv' /\ KillInv' /\ ChanInv' /\ RecvInv'
        /\ SlotInv' /\ WakeupInv' /\ AnswerMatchesRequest'
    BY <1>2 DEF
       SequenceInv, ServerInv, KillInv, ChanInv, Live, RecvInv, RecvHolds,
       SlotInv, WakeupInv, AnswerExpected, AnswerMatchesRequest, CloseAll
  <2>3. GuardInv'
    BY <1>2 DEF TypeOK, GuardInv, CloseAll
  <2> QED BY <2>1, <2>2, <2>3 DEF IInv
<1>3. ASSUME NEW t \in Task, CloseAllKill(t)
      PROVE  IInv'
  <2>1. CASE finished[t] \/ ~made[t]
    <3>1. UNCHANGED <<kill, killer>> /\ toKill' \subseteq Task
      BY <1>3, <2>1 DEF CloseAllKill, TypeOK
    <3>2. /\ TypeOK' /\ GuardInv' /\ SequenceInv' /\ ServerInv' /\ KillInv'
          /\ AnswerMatchesRequest'
      BY <1>3, <3>1 DEF CloseAllKill, TypeOK, GuardInv, SequenceInv,
         ServerInv, KillInv, AnswerMatchesRequest
    <3>3. ChanInv' /\ RecvInv' /\ SlotInv' /\ WakeupInv'
      BY <1>3, <3>1 DEF CloseAllKill, ChanInv, RecvInv, SlotInv, Live,
         RecvHolds, WakeupInv, AnswerExpected
    <3> QED BY <3>2, <3>3 DEF IInv
  <2>2. CASE ~(finished[t] \/ ~made[t])
    <3>1. /\ kill' = [kill EXCEPT ![t] = TRUE]
          /\ killer' = [killer EXCEPT !["close"][t] = "check"]
          /\ toKill' \subseteq Task
      BY <1>3, <2>2 DEF CloseAllKill, TypeOK
    <3>2. TypeOK' /\ KillInv'
      BY <1>3, <3>1 DEF CloseAllKill, TypeOK, KillInv
    <3>3. GuardInv' /\ SequenceInv' /\ ServerInv' /\ AnswerMatchesRequest'
      BY <1>3 DEF CloseAllKill, GuardInv, SequenceInv, ServerInv,
         AnswerMatchesRequest
    <3>4. ChanInv' /\ RecvInv'
      BY <1>3, <3>1 DEF CloseAllKill, TypeOK, ChanInv, RecvInv, Live, RecvHolds
    <3>5. SlotInv'
      BY <1>3, <3>1 DEF CloseAllKill, TypeOK, SlotInv, Live, RecvHolds
    <3>6. WakeupInv'
      BY <1>3, <3>1 DEF CloseAllKill, TypeOK, WakeupInv, AnswerExpected
    <3> QED BY <3>2, <3>3, <3>4, <3>5, <3>6 DEF IInv
  <2> QED BY <2>1, <2>2
<1>4. ASSUME CloseAllDone
      PROVE  IInv'
  <2>1. TypeOK'
    BY <1>4 DEF TypeOK, CloseAllDone
  <2>2. /\ SequenceInv' /\ ServerInv' /\ KillInv' /\ ChanInv' /\ RecvInv'
        /\ SlotInv' /\ WakeupInv' /\ AnswerMatchesRequest'
    BY <1>4 DEF
       SequenceInv, ServerInv, KillInv, ChanInv, Live, RecvInv, RecvHolds,
       SlotInv, WakeupInv, AnswerExpected, AnswerMatchesRequest, CloseAllDone
  <2>3. GuardInv'
    BY <1>4 DEF TypeOK, GuardInv, CloseAllDone
  <2> QED BY <2>1, <2>2, <2>3 DEF IInv
<1>5. ASSUME ConnectionLost
      PROVE  IInv'
  <2>1. TypeOK'
    BY <1>5 DEF TypeOK, ConnectionLost
  <2>2. /\ GuardInv' /\ SequenceInv' /\ ServerInv' /\ KillInv' /\ ChanInv'
        /\ RecvInv' /\ SlotInv' /\ WakeupInv' /\ AnswerMatchesRequest'
    BY <1>5 DEF
       GuardInv, SequenceInv, ServerInv, KillInv, ChanInv, Live, RecvInv,
       RecvHolds, SlotInv, WakeupInv, AnswerExpected, AnswerMatchesRequest,
       ConnectionLost
  <2> QED BY <2>1, <2>2 DEF IInv
<1>6. ASSUME NEW s \in 1..MaxSeq, AnswerLost(s)
      PROVE  IInv'
  <2>1. TypeOK'
    BY <1>6 DEF TypeOK, AnswerLost
  <2>2. /\ GuardInv' /\ SequenceInv' /\ KillInv' /\ ChanInv' /\ RecvInv'
        /\ SlotInv' /\ WakeupInv' /\ AnswerMatchesRequest'
    BY <1>6 DEF
       GuardInv, SequenceInv, KillInv, ChanInv, Live, RecvInv, RecvHolds,
       SlotInv, WakeupInv, AnswerExpected, AnswerMatchesRequest, AnswerLost
  <2>3. ServerInv'
    BY <1>6 DEF TypeOK, ServerInv, AnswerLost
  <2> QED BY <2>1, <2>2, <2>3 DEF IInv
<1> QED BY <1>1, <1>2, <1>3, <1>4, <1>5, <1>6
       DEF CloseStep, Environment
-----------------------------------------------------------------------------
\* A step in which nothing changes.
LEMMA StutterInv == IInv /\ UNCHANGED vars => IInv'
<1> SUFFICES ASSUME IInv, UNCHANGED vars PROVE IInv'
  OBVIOUS
<1> USE DEF IInv, vars
<1>1. TypeOK' /\ GuardInv' /\ SequenceInv' /\ ServerInv' /\ KillInv'
  BY DEF TypeOK, GuardInv, SequenceInv, ServerInv, KillInv
<1>2. ChanInv' /\ RecvInv' /\ SlotInv'
  BY DEF ChanInv, RecvInv, SlotInv, Live, RecvHolds
<1>3. WakeupInv' /\ AnswerMatchesRequest'
  BY DEF WakeupInv, AnswerExpected, AnswerMatchesRequest
<1> QED BY <1>1, <1>2, <1>3

\* IInv is an invariant of a user and its tasks: it holds at the start and no
\* step of a task, a killer, the receive handler or the closing task breaks it.
THEOREM UserRpcInvariant == Spec => []IInv
<1>1. IInv /\ [Next]_vars => IInv'
  BY TaskStepInv, SendReqInv, KillStepInv, ReceiveStepInv, CloseStepInv,
     StutterInv DEF Next, TaskStep, FnStep
<1> QED BY InitInv, <1>1, PTL DEF Spec

\* Every variable keeps its type.
THEOREM UserRpcTypeOK == Spec => []TypeOK
<1>1. IInv => TypeOK
  BY DEF IInv
<1> QED BY <1>1, UserRpcInvariant, PTL

\* An RPC answer is only ever returned to the request it answers, for any
\* number of tasks, requests, timeouts and connection losses.
THEOREM AnswersMatch == Spec => []AnswerMatchesRequest
<1>1. IInv => AnswerMatchesRequest
  BY DEF IInv
<1> QED BY <1>1, UserRpcInvariant, PTL

\* A parked task can always still be woken by its answer.
THEOREM NoWakeupLost == Spec => []NoLostWakeup
<1>1. IInv => NoLostWakeup
  BY DEF IInv, NoLostWakeup, WakeupInv, SequenceInv, TypeOK
<1> QED BY <1>1, UserRpcInvariant, PTL

\* The receive handler is only ever blocked by a task that was killed.
THEOREM ReceiverBlockedByKilled == Spec => []ReceiverBlockedOnlyByKilled
<1>1. IInv => ReceiverBlockedOnlyByKilled
  BY DEF IInv, ReceiverBlockedOnlyByKilled, RecvInv, KillInv, Live, RecvHolds,
         TypeOK
<1> QED BY <1>1, UserRpcInvariant, PTL
=============================================================================
