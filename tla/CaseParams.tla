----------------------------- MODULE CaseParams -----------------------------
(***************************************************************************)
(* What RunCaseInner (case/case.go) computes from its parameters before it *)
(* starts its workers: how many runs of a user may be in flight, how the   *)
(* users are shared out, and how large the channels are.                   *)
(***************************************************************************)
EXTENDS Integers, FiniteSets

CONSTANTS
  UserCount,      \* params.UserCount()
  RunTime,        \* params.RunTime, at least 1
  UserBatchCount, \* params.UserBatchCount
  Procs,          \* GOMAXPROCS
  ErrorBreak,     \* params.ErrorBreak
  Faults          \* what may happen to a run, see Fault

\* "fail": a run returns an error; "cancel": ctx is cancelled; "timeout": the
\* timer of a task expires while the task is not waiting in Yield.
Fault == {"fail", "cancel", "timeout"}

ASSUME CaseAssumption ==
  /\ UserCount \in Nat \ {0}
  /\ RunTime \in Nat \ {0}
  /\ UserBatchCount \in Int
  /\ Procs \in Nat \ {0}
  /\ ErrorBreak \in BOOLEAN
  /\ Faults \subseteq Fault

User == 0 .. UserCount - 1
NoUser == UserCount

\* At least one run, at most RunTime, and never more than 5 at a time.
BatchSize ==
  LET asked == IF UserBatchCount <= 0 \/ UserBatchCount > RunTime
               THEN RunTime ELSE UserBatchCount
  IN  IF asked > 5 THEN 5 ELSE asked

\* GOMAXPROCS / 2, at least 1 and at most one per user.
WorkerCount ==
  LET half == IF Procs \div 2 < 1 THEN 1 ELSE Procs \div 2
  IN  IF half > UserCount THEN UserCount ELSE half

Worker == 0 .. WorkerCount - 1

WorkerOf(u) == u % WorkerCount

UsersOf(w) == {u \in User : WorkerOf(u) = w}

\* Mutant of ChannelCap: the users that do not divide evenly are forgotten.
ChannelCapEven == BatchSize * (UserCount \div WorkerCount)

\* The capacity of userHolderChannel.
ChannelCap == BatchSize * ((UserCount \div WorkerCount) + 1)

\* totalTaskCount of a worker.
TotalTasks(w) == RunTime * Cardinality(UsersOf(w))

\* Mutant of InitialRounds: one round too many.
InitialRoundsOneMore == BatchSize + 1

\* How often each user is put in at first: once, and BatchSize - 1 times more.
InitialRounds == BatchSize

\* Mutants of RunsLeft: the last run is not put in; one run too many is.
RunsLeftStrict(n) == n < RunTime
RunsLeftOneMore(n) == n <= RunTime + 1

\* Is a user to be put back when its dispatchTaskCount has become n?
RunsLeft(n) == n <= RunTime
=============================================================================
