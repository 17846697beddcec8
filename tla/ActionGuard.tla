---------------------------- MODULE ActionGuard ----------------------------
(***************************************************************************)
(* The action guard of a User (data/impl/user.go) as the tasks of the user *)
(* take it (data/action.go): the mutex taskActionGuard beside the atomic   *)
(* takeActionGuardId, which names the task that holds it.  Neither         *)
(* TakeActionGuard nor ReleaseActionGuard is atomic: the id is compared    *)
(* before the lock is requested and stored after it is obtained, and it is *)
(* cleared before the mutex is unlocked.  Every lock, load, store and      *)
(* compare-and-swap is a step here.                                        *)
(***************************************************************************)
EXTENDS UserTask

VARIABLES
  mutex,   \* taskActionGuard is locked
  guardId, \* takeActionGuardId
  gpc      \* where each task is

mutexVars == <<mutex, guardId, gpc>>

\* "check", "lock" and "store" are the steps of TakeActionGuard; "cas" and
\* "unlock" those of ReleaseActionGuard, called to yield ("Y") or at the end of
\* HookRun ("E").  A call that returns an error ends in "refused".
Pc == {"new", "check", "lock", "store", "exec", "casY", "unlockY", "wait",
       "casE", "unlockE", "done", "refused"}

MutexInit ==
  /\ mutex = FALSE
  /\ guardId = NoTask
  /\ gpc = [t \in Task |-> "new"]

Step(t, l) == gpc' = [gpc EXCEPT ![t] = l]

\* HookRun starts, or the message the task waits for has come (AfterYield).
CallTake(t) ==
  /\ gpc[t] \in {"new", "wait"}
  /\ Step(t, "check")
  /\ UNCHANGED <<mutex, guardId>>

\* takeActionGuardId.Load() == taskId: "already taken action guard".
TakeCheck(t) ==
  /\ gpc[t] = "check"
  /\ Step(t, IF guardId = t THEN "refused" ELSE "lock")
  /\ UNCHANGED <<mutex, guardId>>

\* Mutant of TakeLock: TryLock, its result ignored.
TakeTryLock(t) ==
  /\ gpc[t] = "lock"
  /\ mutex' = TRUE
  /\ Step(t, "store")
  /\ UNCHANGED guardId

TakeLock(t) ==
  /\ gpc[t] = "lock"
  /\ ~mutex
  /\ mutex' = TRUE
  /\ Step(t, "store")
  /\ UNCHANGED guardId

\* Mutant of TakeStore: the id is not stored.
TakeStoreForgotten(t) ==
  /\ gpc[t] = "store"
  /\ Step(t, "exec")
  /\ UNCHANGED <<mutex, guardId>>

TakeStore(t) ==
  /\ gpc[t] = "store"
  /\ guardId' = t
  /\ Step(t, "exec")
  /\ UNCHANGED mutex

\* Fn waits for something; Yield first asks IsTakenActionGuard.
CallYield(t) ==
  /\ gpc[t] = "exec"
  /\ Step(t, IF guardId = t THEN "casY" ELSE "refused")
  /\ UNCHANGED <<mutex, guardId>>

\* Fn returns, with or without an error.
FnEnds(t) ==
  /\ gpc[t] = "exec"
  /\ Step(t, "casE")
  /\ UNCHANGED <<mutex, guardId>>

\* takeActionGuardId.CompareAndSwap(taskId, 0), or "not taken by this task".
ReleaseCas(t, from, to) ==
  /\ gpc[t] = from
  /\ IF guardId = t
     THEN guardId' = NoTask /\ Step(t, to)
     ELSE UNCHANGED guardId /\ Step(t, "refused")
  /\ UNCHANGED mutex

\* Mutant of ReleaseUnlock: the mutex stays locked.
ReleaseUnlockForgotten(t, from, to) ==
  /\ gpc[t] = from
  /\ Step(t, to)
  /\ UNCHANGED <<mutex, guardId>>

\* Unlock.  In "unlockY" and "unlockE" the id is already 0.
ReleaseUnlock(t, from, to) ==
  /\ gpc[t] = from
  /\ mutex' = FALSE
  /\ Step(t, to)
  /\ UNCHANGED guardId

BeforeYield(t) ==
  \/ ReleaseCas(t, "casY", "unlockY")
  \/ ReleaseUnlock(t, "unlockY", "wait")

EndOfHookRun(t) ==
  \/ ReleaseCas(t, "casE", "unlockE")
  \/ ReleaseUnlock(t, "unlockE", "done")

TaskNext(t) ==
  \/ CallTake(t)
  \/ TakeCheck(t)
  \/ TakeLock(t)
  \/ TakeStore(t)
  \/ CallYield(t)
  \/ FnEnds(t)
  \/ BeforeYield(t)
  \/ EndOfHookRun(t)

MutexNext == \E t \in Task : TaskNext(t)

MutexSpec == MutexInit /\ [][MutexNext]_mutexVars

\* A task that holds the guard goes on until it has released it.  A waiter of
\* sync.Mutex is served in the end (starvation mode).
MutexFairness ==
  \A t \in Task :
    /\ WF_mutexVars(TaskNext(t) /\ gpc[t] \notin {"new", "wait"})
    /\ SF_mutexVars(TakeLock(t))

MutexFairSpec == MutexSpec /\ MutexFairness
-----------------------------------------------------------------------------
MutexTypeOK ==
  /\ mutex \in BOOLEAN
  /\ guardId \in Task \cup {NoTask}
  /\ gpc \in [Task -> Pc]

\* From the moment Lock returns until Unlock a task owns the mutex.
Holding == {"store", "exec", "casY", "casE", "unlockY", "unlockE"}
\* Between the two the id is stored.
Named == {"exec", "casY", "casE"}

\* "At any time only one task executes user operations" (README): the fine
\* steps of TakeActionGuard and ReleaseActionGuard never let two tasks hold.
OneTaskHolds ==
  \A t, u \in Task : gpc[t] \in Holding /\ gpc[u] \in Holding => t = u

\* No call is ever refused: a task never finds its own id when it takes the
\* guard, and always finds it when it yields or releases, even though the id is
\* read outside the mutex.  (Yield and HookRun give up the task on an error.)
NeverRefused == \A t \in Task : gpc[t] # "refused"

\* A task that asks for the guard gets it.
GuardObtained ==
  \A t \in Task : gpc[t] = "check" ~> gpc[t] = "exec"

\* The inductive invariant: the mutex is locked exactly while a task holds it,
\* and the id names the holder exactly between the store and the swap.
MutexInv ==
  /\ MutexTypeOK
  /\ OneTaskHolds
  /\ NeverRefused
  /\ mutex <=> \E t \in Task : gpc[t] \in Holding
  /\ \A t \in Task : guardId = t <=> gpc[t] \in Named
-----------------------------------------------------------------------------
\* The guard implements GuardSpec: a task is inside while it owns the mutex.
Inside == {t \in Task : gpc[t] \in Holding}

Abstract == INSTANCE GuardSpec WITH inside <- Inside

\* Every step of TakeActionGuard and ReleaseActionGuard is a step of GuardSpec
\* or leaves it unchanged.
ImplementsGuardSpec == Abstract!Spec
=============================================================================
