--------------------------- MODULE CaseTasksProofs ---------------------------
(***************************************************************************)
(* For every number of users, runs, workers and timers: until a timer      *)
(* finishes a task that still runs, the task objects implement the bag of  *)
(* users and tasks of CaseDispatch and inherit its limits; and success     *)
(* means RunTime runs of every user, all over, none failed or timed out.   *)
(***************************************************************************)
EXTENDS CaseTasks, FiniteSetTheorems, TLAPS

-----------------------------------------------------------------------------
(* The inductive invariant.  UseInv says which objects, runs and users are *)
(* in use, whatever happens.  As long as no timer has completed a Finish   *)
(* (Clean), an object is in one place: in its worker's hand, in its        *)
(* worker's pool, or busy, and then with at most one run; and the          *)
(* WaitGroup counts the busy ones.  A timer that completes has counted a   *)
(* failure, so that a run that shares its object can hide no other one.    *)

Active(r) == runs[r].st # "none"

UseInv ==
  /\ \A w \in Worker : /\ wpc[w] = "acquire" <=> hand[w] # NoObject
                       /\ hand[w] \in 0 .. objects
                       /\ \A i \in 1 .. Len(queue[w]) : WorkerOf(queue[w][i]) = w
  /\ \A r \in Run : IF Active(r) THEN runs[r].obj \in 1 .. objects
                                 ELSE runs[r] = NoRun
  /\ \A o \in Object : IF o <= objects THEN holder[o] \in User
                       ELSE timer[o] = "none" /\ \A w \in Worker : pool[w][o] = 0

Clean == \A o \in Object : timer[o] # "fired"

Quiet(o) == timer[o] \in {"none", "off"}

HeldInv ==
  \A w \in Worker : hand[w] # NoObject =>
    /\ WorkerOf(holder[hand[w]]) = w
    /\ ~finished[hand[w]] /\ onFinish[hand[w]] /\ Quiet(hand[w])
    /\ \A v \in Worker : pool[v][hand[w]] = 0
    /\ \A r \in Run : Active(r) => runs[r].obj # hand[w]

PoolInv ==
  \A w \in Worker, o \in Object : pool[w][o] # 0 =>
    /\ pool[w][o] = 1 /\ WorkerOf(holder[o]) = w
    /\ finished[o] /\ Quiet(o)
    /\ \A r \in Run : Active(r) => runs[r].obj # o

RunInv ==
  /\ \A r \in Run : Active(r) =>
       /\ runs[r].user = holder[runs[r].obj]
       /\ IF runs[r].st = "running" /\ ~finished[runs[r].obj]
          THEN onFinish[runs[r].obj] /\ timer[runs[r].obj] \in {"none", "armed", "off"}
          ELSE /\ finished[runs[r].obj]
               /\ IF runs[r].st = "running" THEN timer[runs[r].obj] \in {"send", "rest"}
                                            ELSE Quiet(runs[r].obj)
  /\ \A r, q \in Run : Active(r) /\ Active(q) /\ runs[r].obj = runs[q].obj => r = q

TimerInv ==
  \A o \in Object : /\ timer[o] = "armed" => ~finished[o] /\ onFinish[o]
                    /\ timer[o] \in {"send", "rest"} => finished[o]

Busy(w) == {o \in 1 .. objects : WorkerOf(holder[o]) = w /\ hand[w] # o /\ pool[w][o] = 0}

CountInv == \A w \in Worker : wg[w] = Cardinality(Busy(w))

CleanInv == HeldInv /\ PoolInv /\ RunInv /\ TimerInv /\ CountInv

FailInv ==
  /\ broke \/ ~Clean => failed > 0
  /\ bad => \/ failed > 0
            \/ \E r \in Run : runs[r].st \in {"send", "rest"} /\ runs[r].err
            \/ \E o \in Object : timer[o] \in {"send", "rest"}

ReturnInv ==
  /\ \A w \in Worker : wpc[w] = "returned" => cancelled \/ failed > 0 \/ wg[w] = 0
  /\ result = "success" =>
       failed = 0 /\ \A w \in Worker : wpc[w] = "returned" /\ wg[w] = 0

IInv == TypeOK /\ UseInv /\ (Clean => CleanInv) /\ FailInv /\ ReturnInv
-----------------------------------------------------------------------------
\* The parameters RunCaseInner works with are in range.
LEMMA ParamsOK ==
  /\ BatchSize \in Nat \ {0}
  /\ WorkerCount \in Nat \ {0} /\ WorkerCount <= UserCount
  /\ \A u \in User : WorkerOf(u) \in Worker
  /\ NoUser \notin User
<1>1. BatchSize \in Nat \ {0}
  BY CaseAssumption DEF BatchSize
<1>2. WorkerCount \in Nat \ {0} /\ WorkerCount <= UserCount
  BY CaseAssumption DEF WorkerCount
<1>3. ASSUME NEW u \in User PROVE WorkerOf(u) \in Worker
  BY <1>2, CaseAssumption DEF WorkerOf, Worker, User
<1> QED
  BY <1>1, <1>2, <1>3, CaseAssumption DEF NoUser, User

\* Objects and runs are numbered from 1 to the same number.
LEMMA ObjectsOK ==
  /\ Run = Object /\ IsFiniteSet(Object) /\ NoObject \notin Object
  /\ \A o \in Object : o \in Nat /\ o > 0 /\ 1 .. o \subseteq Object
<1>1. UserCount * RunTime \in Nat
  BY CaseAssumption
<1> QED BY <1>1, FS_Interval DEF Object, Run, NoObject

\* The objects in use are objects.
LEMMA InUse ==
  ASSUME TypeOK
  PROVE  objects \in Nat /\ 1 .. objects \subseteq Object
         /\ 0 .. objects \subseteq Object \cup {NoObject}
         /\ \A o \in Object : o <= objects <=> o \in 1 .. objects
BY ObjectsOK DEF TypeOK, NoObject

\* The shares: every user is in the share of its worker, in one place.
LEMMA DivMod ==
  ASSUME NEW n \in Nat, n > 0, NEW q \in Int, NEW t \in Int, q * n <= t, t < q * n + n
  PROVE  t % n = t - q * n /\ t \div n = q
<1>1. /\ t \div n \in Int /\ t % n \in 0 .. n - 1
      /\ t % n = t - n * (t \div n)
  OBVIOUS
<1> DEFINE p == t \div n
<1>2. p \in Int /\ n * p <= t /\ t < n * p + n
  BY <1>1
<1> HIDE DEF p
<1>3. ASSUME p >= q + 1 PROVE FALSE
  <2>1. n * p >= n * (q + 1)
    BY <1>2, <1>3
  <2>2. n * (q + 1) = q * n + n
    OBVIOUS
  <2> QED BY <2>1, <2>2, <1>2
<1>4. ASSUME q >= p + 1 PROVE FALSE
  <2>1. n * q >= n * (p + 1)
    BY <1>2, <1>4
  <2>2. n * (p + 1) = n * p + n /\ n * q = q * n
    BY <1>2
  <2> QED BY <2>1, <2>2, <1>2
<1>5. p = q
  BY <1>2, <1>3, <1>4
<1> QED BY <1>1, <1>5 DEF p

LEMMA ShareOK ==
  ASSUME NEW w \in Worker
  PROVE  /\ Share(w) \in Seq(UsersOf(w)) /\ Len(Share(w)) \in Nat \ {0}
         /\ \A u \in UsersOf(w) : \E k \in 1 .. Len(Share(w)) :
              \A j \in 1 .. Len(Share(w)) : Share(w)[j] = u <=> j = k
<1> DEFINE C == WorkerCount
           q == (UserCount - 1 - w) \div C
<1>1. C \in Nat \ {0} /\ UserCount \in Nat /\ w \in Nat /\ w < C /\ C <= UserCount
  BY ParamsOK, CaseAssumption DEF Worker
<1> HIDE DEF C
<1>2. q \in Int /\ q * C <= UserCount - 1 - w /\ UserCount - 1 - w < q * C + C
  <2>1. UserCount - 1 - w \in Int
    BY <1>1
  <2>2. (UserCount - 1 - w) % C \in 0 .. C - 1
        /\ (UserCount - 1 - w) % C = (UserCount - 1 - w) - C * q /\ q \in Int
    BY <2>1, <1>1
  <2> QED BY <2>1, <2>2, <1>1
<1> HIDE DEF q
<1>3. q >= 0
  <2>1. SUFFICES ASSUME q + 1 <= 0 PROVE FALSE
    BY <1>2
  <2>2. (q + 1) * C <= 0
    BY <2>1, <1>1, <1>2
  <2>3. (q + 1) * C = q * C + C
    BY <1>1, <1>2
  <2> QED BY <2>2, <2>3, <1>1, <1>2
<1>4. Share(w) = [k \in 1 .. q + 1 |-> w + (k - 1) * C]
  BY DEF Share, q, C
<1>5. ASSUME NEW k \in 1 .. q + 1
      PROVE  w + (k - 1) * C \in UsersOf(w)
  <2>1. (k - 1) * C \in Nat /\ (k - 1) * C <= q * C
    BY <1>1, <1>2, <1>3
  <2>2. w + (k - 1) * C \in User
    BY <2>1, <1>1, <1>2 DEF User
  <2>3. (w + (k - 1) * C) % C = w
    <3>1. k - 1 \in Int /\ w + (k - 1) * C \in Int
      BY <1>1, <1>3
    <3>2. (k - 1) * C <= w + (k - 1) * C /\ w + (k - 1) * C < (k - 1) * C + C
      BY <1>1, <2>1
    <3>3. (w + (k - 1) * C) % C = w + (k - 1) * C - (k - 1) * C
      BY <3>1, <3>2, <1>1, DivMod
    <3> QED BY <3>3, <2>1, <1>1
  <2> QED BY <2>2, <2>3 DEF UsersOf, WorkerOf, C
<1>6. Len(Share(w)) = q + 1 /\ Share(w) \in Seq(UsersOf(w))
  BY <1>2, <1>3, <1>4, <1>5
<1>7. ASSUME NEW u \in UsersOf(w)
      PROVE  \E k \in 1 .. q + 1 : \A j \in 1 .. q + 1 : Share(w)[j] = u <=> j = k
  <2>1. u \in Nat /\ u <= UserCount - 1 /\ u % C = w
    BY <1>1 DEF UsersOf, User, WorkerOf, C
  <2> DEFINE d == u \div C
  <2>2. d \in Int /\ u = w + C * d
    BY <2>1, <1>1
  <2> HIDE DEF d
  <2>3. d >= 0
    <3>1. SUFFICES ASSUME d + 1 <= 0 PROVE FALSE
      BY <2>2
    <3>2. C * (d + 1) <= 0
      BY <3>1, <1>1, <2>2
    <3>3. C * (d + 1) = C * d + C
      BY <1>1, <2>2
    <3> QED BY <3>2, <3>3, <2>1, <2>2, <1>1
  <2>4. d <= q
    <3>1. SUFFICES ASSUME d >= q + 1 PROVE FALSE
      BY <1>2, <2>2
    <3>2. C * d >= C * (q + 1)
      BY <3>1, <1>1, <1>2, <2>2
    <3>3. C * (q + 1) = q * C + C
      BY <1>1, <1>2
    <3> QED BY <3>2, <3>3, <2>1, <2>2, <1>1, <1>2
  <2>5. ASSUME NEW j \in 1 .. q + 1
        PROVE  Share(w)[j] = u <=> j = d + 1
    <3>1. Share(w)[j] = w + (j - 1) * C
      BY <1>4
    <3>2. j = d + 1 => w + (j - 1) * C = u
      BY <2>2, <1>1
    <3>3. ASSUME w + (j - 1) * C = u PROVE j = d + 1
      <4>1. (j - 1) * C = C * d
        BY <3>3, <2>2, <1>1, <1>2
      <4>2. j - 1 < d => (j - 1) * C < C * d
        BY <1>1, <1>2, <2>2
      <4>3. j - 1 > d => (j - 1) * C > C * d
        BY <1>1, <1>2, <2>2
      <4> DEFINE a == (j - 1) * C
                 b == C * d
      <4>4. a = b /\ (j - 1 < d => a < b) /\ (j - 1 > d => a > b) /\ a \in Int
        BY <4>1, <4>2, <4>3, <1>1
      <4> HIDE DEF a, b
      <4> QED BY <4>4, <2>2
    <3> QED BY <3>1, <3>2, <3>3
  <2>6. d + 1 \in 1 .. q + 1
    BY <2>2, <2>3, <2>4, <1>2
  <2> QED BY <2>5, <2>6
<1> QED BY <1>2, <1>3, <1>6, <1>7

\* A share that is put in n times has each place n times.
LEMMA RepeatCount ==
  ASSUME NEW L \in Nat \ {0}, NEW n \in Nat, NEW k \in 1 .. L
  PROVE  Cardinality({i \in 1 .. n * L : ((i - 1) % L) + 1 = k}) = n
<1> DEFINE S == {i \in 1 .. n * L : ((i - 1) % L) + 1 = k}
           f == [j \in 1 .. n |-> (j - 1) * L + k]
<1>1. ASSUME NEW j \in 1 .. n PROVE (j - 1) * L + k \in S
  <2>1. (j - 1) * L \in Nat /\ (j - 1) * L + L = j * L /\ j * L <= n * L
    OBVIOUS
  <2>2. (j - 1) * L + k \in 1 .. n * L
    BY <2>1
  <2>3. ((j - 1) * L + k - 1) % L = (j - 1) * L + k - 1 - (j - 1) * L
    <3>1. /\ j - 1 \in Int /\ (j - 1) * L + k - 1 \in Int
          /\ (j - 1) * L <= (j - 1) * L + k - 1
          /\ (j - 1) * L + k - 1 < (j - 1) * L + L
      BY <2>1
    <3> QED BY <3>1, DivMod
  <2> QED BY <2>1, <2>2, <2>3
<1>2. ASSUME NEW j \in 1 .. n, NEW m \in 1 .. n, (j - 1) * L + k = (m - 1) * L + k
      PROVE  j = m
  <2>1. j < m => (j - 1) * L < (m - 1) * L
    OBVIOUS
  <2>2. m < j => (m - 1) * L < (j - 1) * L
    OBVIOUS
  <2>3. (j - 1) * L \in Int /\ (m - 1) * L \in Int
    OBVIOUS
  <2> DEFINE a == (j - 1) * L
             b == (m - 1) * L
  <2>4. a \in Int /\ b \in Int /\ (j < m => a < b) /\ (m < j => b < a) /\ a + k = b + k
    BY <2>1, <2>2, <2>3, <1>2
  <2> HIDE DEF a, b
  <2> QED BY <2>4
<1>3. ASSUME NEW i \in S PROVE \E j \in 1 .. n : (j - 1) * L + k = i
  <2>1. i \in 1 .. n * L /\ (i - 1) % L = k - 1
    OBVIOUS
  <2> DEFINE q == (i - 1) \div L
  <2>2. q \in Int /\ i - 1 = (k - 1) + L * q
    BY <2>1
  <2> HIDE DEF q
  <2>3. q >= 0
    <3>1. SUFFICES ASSUME q + 1 <= 0 PROVE FALSE
      BY <2>2
    <3>2. L * (q + 1) <= 0
      BY <3>1, <2>2
    <3>3. L * (q + 1) = L * q + L
      BY <2>2
    <3> QED BY <3>2, <3>3, <2>1, <2>2
  <2>4. q < n
    <3>1. SUFFICES ASSUME q >= n PROVE FALSE
      BY <2>2
    <3>2. L * q >= L * n /\ L * n = n * L /\ L * q \in Int /\ n * L \in Int
      BY <3>1, <2>2
    <3> QED BY <3>2, <2>1, <2>2
  <2>5. q + 1 \in 1 .. n /\ ((q + 1) - 1) * L + k = i
    BY <2>1, <2>2, <2>3, <2>4
  <2> QED BY <2>5
<1> HIDE DEF S
<1>4. f \in Bijection(1 .. n, S)
  BY <1>1, <1>2, <1>3 DEF Bijection, Injection, Surjection, IsInjective
<1>5. ExistsBijection(1 .. n, S)
  BY <1>4 DEF ExistsBijection
<1>6. IsFiniteSet(1 .. n) /\ Cardinality(1 .. n) = n
  BY FS_Interval
<1>7. Cardinality(S) = n
  BY <1>5, <1>6, FS_Bijection
<1> QED BY <1>7 DEF S

\* The channel of a worker when the workers start.
LEMMA FirstQueue ==
  ASSUME NEW w \in Worker, NEW n \in Nat
  PROVE  /\ Repeat(Share(w), n) \in Seq(User)
         /\ \A i \in 1 .. Len(Repeat(Share(w), n)) :
               WorkerOf(Repeat(Share(w), n)[i]) = w
         /\ \A u \in UsersOf(w) :
               Cardinality({i \in DOMAIN Repeat(Share(w), n) :
                              Repeat(Share(w), n)[i] = u}) = n
<1> DEFINE s == Share(w)
           L == Len(s)
           q == Repeat(s, n)
<1>1. /\ s \in Seq(UsersOf(w)) /\ L \in Nat \ {0}
      /\ \A u \in UsersOf(w) : \E k \in 1 .. L : \A j \in 1 .. L : s[j] = u <=> j = k
  BY ShareOK
<1>2. q = [i \in 1 .. n * L |-> s[((i - 1) % L) + 1]]
  BY DEF Repeat
<1> HIDE DEF s, L, q
<1>3. \A i \in 1 .. n * L : ((i - 1) % L) + 1 \in 1 .. L
  BY <1>1
<1>4. \A j \in 1 .. L : s[j] \in UsersOf(w)
  BY <1>1 DEF L
<1>5. n * L \in Nat
  BY <1>1
<1>6. q \in [1 .. n * L -> UsersOf(w)]
  BY <1>2, <1>3, <1>4
<1>7. q \in Seq(UsersOf(w)) /\ DOMAIN q = 1 .. n * L /\ Len(q) = n * L
  BY <1>5, <1>6
<1>8. q \in Seq(User) /\ \A i \in 1 .. Len(q) : WorkerOf(q[i]) = w
  BY <1>7 DEF UsersOf
<1>9. ASSUME NEW u \in UsersOf(w)
      PROVE  Cardinality({i \in DOMAIN q : q[i] = u}) = n
  <2>1. PICK k \in 1 .. L : \A j \in 1 .. L : s[j] = u <=> j = k
    BY <1>1
  <2>2. \A i \in 1 .. n * L : q[i] = u <=> ((i - 1) % L) + 1 = k
    BY <2>1, <1>2, <1>3
  <2>3. {i \in DOMAIN q : q[i] = u} = {i \in 1 .. n * L : ((i - 1) % L) + 1 = k}
    BY <2>2, <1>7
  <2> QED BY <2>3, <1>1, RepeatCount
<1> QED BY <1>8, <1>9 DEF q, s

\* Before the workers start there are no objects.
LEMMA InitInv == Init => IInv
<1> SUFFICES ASSUME Init PROVE IInv
  OBVIOUS
<1> USE DEF Init
<1>1. InitialRounds \in Nat
  BY ParamsOK DEF InitialRounds
<1>2. queue \in [Worker -> Seq(User)]
  BY <1>1, FirstQueue
<1>3. \A w \in Worker : \A i \in 1 .. Len(queue[w]) : WorkerOf(queue[w][i]) = w
  BY <1>1, FirstQueue
<1>4. /\ runs \in [Run -> RunRecord]
      /\ bad \in BOOLEAN /\ broke \in BOOLEAN /\ cancelled \in BOOLEAN
  BY DEF NoRun, RunRecord
<1>5. TypeOK
  BY <1>1, <1>2, <1>4 DEF TypeOK, NoObject
<1>6. UseInv
  BY <1>3, ObjectsOK DEF UseInv, Active, NoRun, NoObject
<1>7. HeldInv /\ PoolInv /\ TimerInv
  BY DEF HeldInv, PoolInv, TimerInv
<1>a. RunInv
  <2>1. \A r \in Run : ~Active(r)
    BY DEF Active, NoRun
  <2> QED BY <2>1 DEF RunInv
<1>8. CountInv
  <2>1. \A w \in Worker : Busy(w) = {}
    BY DEF Busy
  <2> QED BY <2>1, FS_EmptySet DEF CountInv
<1>9. FailInv /\ ReturnInv
  BY DEF FailInv, ReturnInv, Clean
<1> QED BY <1>5, <1>6, <1>7, <1>a, <1>8, <1>9 DEF IInv, CleanInv
-----------------------------------------------------------------------------
(* The steps.                                                              *)

\* Steps that leave the tasks alone keep what is said of them.
LEMMA TasksAlone ==
  ASSUME IInv, UNCHANGED <<hand, wg, poolVars, objectVars, runs>>
  PROVE  /\ Clean' <=> Clean
         /\ Clean' => CleanInv'
<1> USE DEF poolVars, objectVars
<1>1. Clean' <=> Clean
  BY DEF Clean
<1>2. HeldInv => HeldInv'
  BY DEF HeldInv, Quiet, Active
<1>3. PoolInv => PoolInv'
  BY DEF PoolInv, Quiet, Active
<1>4. RunInv => RunInv'
  BY DEF RunInv, Quiet, Active
<1>5. TimerInv => TimerInv'
  BY DEF TimerInv
<1>6. CountInv => CountInv'
  <2>1. \A w : Busy(w)' = Busy(w)
    BY DEF Busy
  <2> QED BY <2>1 DEF CountInv
<1> QED BY <1>1, <1>2, <1>3, <1>4, <1>5, <1>6 DEF IInv, CleanInv

\* A worker that looks whether to go on, or has waited; the cancellation; the
\* end of the case.
LEMMA WorkerPass ==
  ASSUME IInv, result # "panic", NEW w \in Worker, WorkerLoop(w) \/ WorkerWaitAll(w)
  PROVE  IInv'
<1> DEFINE to == wpc'[w]
<1>0. /\ wpc[w] \in {"loop", "waitall"} /\ wpc' = [wpc EXCEPT ![w] = to]
      /\ to \in {"receive", "returned"}
      /\ to = "returned" => broke \/ cancelled \/ wg[w] = 0
      /\ UNCHANGED <<dispatch, queue, hand, started, wg, poolVars, objectVars, runs,
                     countVars, outcomeVars, cancelled, result>>
  BY DEF WorkerLoop, WorkerWaitAll, WGoto, IInv, TypeOK
<1> HIDE DEF to
<1>1. TypeOK'
  BY <1>0 DEF IInv, TypeOK, poolVars, objectVars, countVars, outcomeVars
<1>2. wpc \in [Worker -> {"loop", "receive", "acquire", "waitall", "returned"}]
  BY DEF IInv, TypeOK
<1>3. \A v \in Worker : v # w => wpc'[v] = wpc[v]
  BY <1>0, <1>2
<1>4. wpc'[w] = to
  BY <1>0, <1>2
<1>5. UseInv'
  BY <1>0, <1>3, <1>4 DEF IInv, UseInv, Active, poolVars, objectVars
<1>6. Clean' => CleanInv'
  BY <1>0, TasksAlone
<1>7. FailInv'
  BY <1>0 DEF IInv, FailInv, Clean, objectVars, countVars, outcomeVars
<1>8. ReturnInv'
  <2>1. broke => failed > 0
    BY DEF IInv, FailInv
  <2>2. \A v \in Worker : wpc'[v] = "returned" => cancelled \/ failed > 0 \/ wg[v] = 0
    BY <2>1, <1>0, <1>3, <1>4 DEF IInv, ReturnInv
  <2>3. result # "success"
    BY <1>0 DEF IInv, ReturnInv
  <2> QED BY <2>2, <2>3, <1>0 DEF ReturnInv, outcomeVars
<1> QED BY <1>1, <1>5, <1>6, <1>7, <1>8 DEF IInv

LEMMA EndSteps ==
  ASSUME IInv, result # "panic", Cancel \/ CaseReturn
  PROVE  IInv'
<1>0. /\ result = "none"
      /\ UNCHANGED <<dispatch, queue, workerVars, wg, poolVars, objectVars, runs,
                     countVars, outcomeVars>>
      /\ cancelled => cancelled'
      /\ cancelled' \in BOOLEAN
      /\ result' \in {"none", "cancelled", "failed", "success"}
      /\ result' = "success" =>
           ~cancelled /\ failed = 0 /\ \A w \in Worker : wpc[w] = "returned"
  BY DEF Cancel, CaseReturn, IInv, TypeOK
<1>1. TypeOK'
  BY <1>0 DEF IInv, TypeOK, poolVars, objectVars, countVars, outcomeVars, workerVars
<1>2. UseInv'
  BY <1>0 DEF IInv, UseInv, Active, poolVars, objectVars, workerVars
<1>3. Clean' => CleanInv'
  BY <1>0, TasksAlone DEF workerVars
<1>4. FailInv'
  BY <1>0 DEF IInv, FailInv, Clean, objectVars, countVars, outcomeVars
<1>5. ReturnInv'
  <2>1. failed \in Nat
    BY DEF IInv, TypeOK
  <2> QED BY <2>1, <1>0 DEF IInv, ReturnInv, outcomeVars, workerVars
<1> QED BY <1>1, <1>2, <1>3, <1>4, <1>5 DEF IInv

\* A user that is due gets a task object that nobody else has.
LEMMA ReceiveInv ==
  ASSUME IInv, result # "panic", NEW w \in Worker, NEW o \in Object, WorkerReceive(w, o)
  PROVE  IInv'
<1> DEFINE u == Head(queue[w])
<1>0. /\ wpc[w] = "receive" /\ queue[w] # <<>>
      /\ queue' = [queue EXCEPT ![w] = Tail(@)]
      /\ \/ o = objects + 1 /\ objects' = o /\ pool' = pool
         \/ pool[w][o] > 0 /\ objects' = objects
            /\ pool' = [pool EXCEPT ![w] = [pool[w] EXCEPT ![o] = @ - 1]]
      /\ holder' = [holder EXCEPT ![o] = u]
      /\ finished' = [finished EXCEPT ![o] = FALSE]
      /\ onFinish' = [onFinish EXCEPT ![o] = TRUE]
      /\ timer' = [timer EXCEPT ![o] = IF @ = "armed" THEN "off" ELSE @]
      /\ hand' = [hand EXCEPT ![w] = o]
      /\ wpc' = [wpc EXCEPT ![w] = "acquire"]
      /\ UNCHANGED <<dispatch, started, wg, runs, countVars, outcomeVars, cancelled, result>>
  BY DEF WorkerReceive, Prepare, WGoto
<1>T. TypeOK /\ UseInv /\ FailInv /\ ReturnInv
  BY DEF IInv
<1>1. /\ queue \in [Worker -> Seq(User)] /\ pool \in [Worker -> [Object -> Nat]]
      /\ wpc \in [Worker -> {"loop", "receive", "acquire", "waitall", "returned"}]
      /\ hand \in [Worker -> Object \cup {NoObject}]
      /\ holder \in [Object -> User \cup {NoUser}]
      /\ finished \in [Object -> BOOLEAN] /\ onFinish \in [Object -> BOOLEAN]
      /\ timer \in [Object -> {"none", "armed", "send", "rest", "fired", "off"}]
  BY <1>T DEF TypeOK
<1>2. /\ objects \in Nat /\ 1 .. objects \subseteq Object /\ o \in Nat /\ o > 0
      /\ \A x \in Object : x \in Nat /\ x > 0
      /\ NoObject = 0 /\ NoObject \notin Object
  BY <1>T, InUse, ObjectsOK DEF NoObject
<1>3. /\ u \in User /\ WorkerOf(u) = w
      /\ queue'[w] \in Seq(User) /\ Len(queue'[w]) = Len(queue[w]) - 1
      /\ \A i \in 1 .. Len(queue[w]) - 1 : queue'[w][i] = queue[w][i + 1]
  <2>1. queue[w] \in Seq(User) /\ queue[w] # <<>> /\ queue'[w] = Tail(queue[w])
    BY <1>0, <1>1
  <2>2. \A i \in 1 .. Len(queue[w]) : WorkerOf(queue[w][i]) = w
    BY <1>T DEF UseInv
  <2>3. Len(queue[w]) > 0 /\ u = queue[w][1]
    BY <2>1
  <2> QED BY <2>1, <2>2, <2>3
<1> HIDE DEF u
\* What has become of the objects.
<1>4. /\ objects' \in Object /\ objects' \in Nat /\ o <= objects'
      /\ \A x \in Object : x # o => (x <= objects' <=> x <= objects)
  <2>1. ASSUME pool[w][o] > 0 PROVE o <= objects /\ objects \in Object
    <3>1. pool[w][o] # 0
      BY <2>1
    <3>2. o <= objects
      BY <3>1, <1>T DEF UseInv
    <3> QED BY <3>2, <1>T, <1>2 DEF TypeOK
  <2> QED BY <2>1, <1>0, <1>2
<1>5. /\ pool' \in [Worker -> [Object -> Nat]]
      /\ \A v \in Worker, x \in Object : x # o => pool'[v][x] = pool[v][x]
      /\ \A v \in Worker : v # w => pool'[v][o] = pool[v][o]
  <2>1. CASE pool' = pool
    BY <2>1, <1>1
  <2>2. CASE pool[w][o] > 0 /\ pool' = [pool EXCEPT ![w] = [pool[w] EXCEPT ![o] = @ - 1]]
    <3>1. pool[w] \in [Object -> Nat] /\ pool[w][o] \in Nat /\ pool[w][o] - 1 \in Nat
      BY <2>2, <1>1
    <3>2. [pool[w] EXCEPT ![o] = @ - 1] \in [Object -> Nat]
      BY <3>1
    <3>3. /\ \A v \in Worker : v # w => pool'[v] = pool[v]
          /\ pool'[w] = [pool[w] EXCEPT ![o] = @ - 1]
          /\ pool' \in [Worker -> [Object -> Nat]]
      BY <2>2, <3>2, <1>1
    <3>4. \A x \in Object : x # o => pool'[w][x] = pool[w][x]
      BY <3>3, <3>1
    <3> QED BY <3>3, <3>4
  <2> QED BY <2>1, <2>2, <1>0
<1>6. \A x \in Object : x # o => /\ holder'[x] = holder[x] /\ finished'[x] = finished[x]
                                 /\ onFinish'[x] = onFinish[x] /\ timer'[x] = timer[x]
  BY <1>0, <1>1
<1>7. /\ holder'[o] = u /\ finished'[o] = FALSE /\ onFinish'[o] = TRUE
      /\ timer'[o] = IF timer[o] = "armed" THEN "off" ELSE timer[o]
  BY <1>0, <1>1
<1>8. /\ hand'[w] = o /\ wpc'[w] = "acquire"
      /\ \A v \in Worker : v # w => hand'[v] = hand[v] /\ wpc'[v] = wpc[v]
  BY <1>0, <1>1
<1>9. hand[w] = NoObject
  BY <1>T, <1>0 DEF UseInv
<1>t. /\ holder' \in [Object -> User \cup {NoUser}]
      /\ finished' \in [Object -> BOOLEAN] /\ onFinish' \in [Object -> BOOLEAN]
      /\ timer' \in [Object -> {"none", "armed", "send", "rest", "fired", "off"}]
      /\ hand' \in [Worker -> Object \cup {NoObject}]
      /\ wpc' \in [Worker -> {"loop", "receive", "acquire", "waitall", "returned"}]
      /\ queue' \in [Worker -> Seq(User)]
  BY <1>0, <1>1, <1>3
<1>10. TypeOK'
  BY <1>T, <1>0, <1>4, <1>5, <1>t DEF TypeOK, countVars, outcomeVars
<1>11. UseInv'
  <2>1. ASSUME NEW v \in Worker
        PROVE  /\ wpc'[v] = "acquire" <=> hand'[v] # NoObject
               /\ hand'[v] \in 0 .. objects'
               /\ \A i \in 1 .. Len(queue'[v]) : WorkerOf(queue'[v][i]) = v
    <3>1. CASE v = w
      <4>1. \A i \in 1 .. Len(queue[w]) : WorkerOf(queue[w][i]) = w
        BY <1>T DEF UseInv
      <4>2. Len(queue[w]) \in Nat
        BY <1>1
      <4> QED BY <3>1, <4>1, <4>2, <1>3, <1>8, <1>4, <1>2
    <3>2. CASE v # w
      <4>1. queue'[v] = queue[v]
        BY <3>2, <1>0, <1>1
      <4>2. hand'[v] \in 0 .. objects'
        BY <3>2, <1>8, <1>T, <1>4, <1>2, <1>0 DEF UseInv
      <4> QED BY <3>2, <4>1, <4>2, <1>8, <1>T DEF UseInv
    <3> QED BY <3>1, <3>2
  <2>2. ASSUME NEW r \in Run
        PROVE  IF Active(r)' THEN runs'[r].obj \in 1 .. objects' ELSE runs'[r] = NoRun
    <3>1. IF Active(r) THEN runs[r].obj \in 1 .. objects ELSE runs[r] = NoRun
      BY <1>T DEF UseInv
    <3>2. objects <= objects'
      BY <1>0, <1>2
    <3> QED BY <3>1, <3>2, <1>0, <1>2, <1>4 DEF Active
  <2>3. ASSUME NEW x \in Object
        PROVE  IF x <= objects' THEN holder'[x] \in User
               ELSE timer'[x] = "none" /\ \A v \in Worker : pool'[v][x] = 0
    <3>1. IF x <= objects THEN holder[x] \in User
          ELSE timer[x] = "none" /\ \A v \in Worker : pool[v][x] = 0
      BY <1>T DEF UseInv
    <3>2. CASE x = o
      BY <3>2, <1>3, <1>4, <1>7
    <3>3. CASE x # o
      <4>1. holder'[x] = holder[x] /\ timer'[x] = timer[x] /\ (x <= objects' <=> x <= objects)
            /\ \A v \in Worker : pool'[v][x] = pool[v][x]
        BY <3>3, <1>4, <1>5, <1>6
      <4> QED BY <3>1, <4>1
    <3> QED BY <3>2, <3>3
  <2> QED BY <2>1, <2>2, <2>3 DEF UseInv
<1>12. Clean' <=> Clean
  BY <1>6, <1>7, <1>1 DEF Clean
<1>13. ASSUME Clean PROVE CleanInv'
  <2>0. HeldInv /\ PoolInv /\ RunInv /\ TimerInv /\ CountInv
    BY <1>13 DEF IInv, CleanInv
  \* Nobody else has the object.
  <2>1. /\ Quiet(o) /\ \A r \in Run : Active(r) => runs[r].obj # o
        /\ \A v \in Worker : hand[v] # o /\ pool'[v][o] = 0
        /\ \A v \in Worker : o \notin Busy(v)
    <3>1. CASE o = objects + 1
      <4>1. ~(o <= objects) /\ pool[w][o] = 0 /\ timer[o] = "none"
            /\ \A v \in Worker : pool[v][o] = 0
        BY <3>1, <1>2, <1>T DEF UseInv
      <4>2. pool' = pool
        BY <4>1, <1>0
      <4>3. /\ \A r \in Run : Active(r) => runs[r].obj \in 1 .. objects
            /\ \A v \in Worker : hand[v] \in 0 .. objects
        BY <1>T DEF UseInv
      <4> QED BY <4>1, <4>2, <4>3, <1>2 DEF Quiet, Busy
    <3>2. CASE pool[w][o] > 0 /\ pool' = [pool EXCEPT ![w] = [pool[w] EXCEPT ![o] = @ - 1]]
      <4>1. /\ pool[w][o] = 1 /\ WorkerOf(holder[o]) = w /\ Quiet(o)
            /\ \A r \in Run : Active(r) => runs[r].obj # o
        BY <3>2, <2>0 DEF PoolInv
      <4>2. \A v \in Worker : v # w => pool[v][o] = 0
        BY <4>1, <2>0 DEF PoolInv
      <4>3. \A v \in Worker : hand[v] # o
        BY <4>1, <1>2, <2>0 DEF HeldInv
      <4>4. pool'[w][o] = 0
        BY <3>2, <4>1, <1>1
      <4>5. \A v \in Worker : pool'[v][o] = 0
        BY <4>2, <4>4, <1>5
      <4> QED BY <4>1, <4>3, <4>5 DEF Busy
    <3> QED BY <3>1, <3>2, <1>0
  <2>2. timer'[o] = timer[o]
    BY <2>1, <1>7 DEF Quiet
  <2>3. \A x \in Object : Quiet(x)' <=> Quiet(x)
    BY <2>2, <1>6 DEF Quiet
  <2>4. \A r : Active(r)' <=> Active(r)
    BY <1>0 DEF Active
  <2>5. \A r \in Run : Active(r) => runs[r].obj \in Object
    BY <1>T, <1>2 DEF UseInv
  <2>6. HeldInv'
    <3> SUFFICES ASSUME NEW v \in Worker, hand'[v] # NoObject
                 PROVE  /\ WorkerOf(holder'[hand'[v]]) = v
                        /\ ~finished'[hand'[v]] /\ onFinish'[hand'[v]] /\ timer'[hand'[v]] \in {"none", "off"}
                        /\ \A x \in Worker : pool'[x][hand'[v]] = 0
                        /\ \A r \in Run : Active(r)' => runs'[r].obj # hand'[v]
      BY DEF HeldInv, Quiet
    <3>1. CASE v = w
      BY <3>1, <2>1, <2>2, <2>4, <1>0, <1>7, <1>8, <1>3 DEF Quiet
    <3>2. CASE v # w
      <4>1. hand'[v] = hand[v] /\ hand[v] \in Object /\ hand[v] # o
        BY <3>2, <1>8, <1>1, <2>1
      <4>2. /\ WorkerOf(holder[hand[v]]) = v
            /\ ~finished[hand[v]] /\ onFinish[hand[v]] /\ Quiet(hand[v])
            /\ \A x \in Worker : pool[x][hand[v]] = 0
            /\ \A r \in Run : Active(r) => runs[r].obj # hand[v]
        BY <4>1, <2>0 DEF HeldInv
      <4> QED BY <4>1, <4>2, <2>4, <1>0, <1>5, <1>6 DEF Quiet
    <3> QED BY <3>1, <3>2
  <2>7. PoolInv'
    <3> SUFFICES ASSUME NEW v \in Worker, NEW x \in Object, pool'[v][x] # 0
                 PROVE  /\ pool'[v][x] = 1 /\ WorkerOf(holder'[x]) = v
                        /\ finished'[x] /\ Quiet(x)'
                        /\ \A r \in Run : Active(r)' => runs'[r].obj # x
      BY DEF PoolInv
    <3>1. x # o /\ pool'[v][x] = pool[v][x]
      BY <2>1, <1>5
    <3>2. /\ pool[v][x] = 1 /\ WorkerOf(holder[x]) = v
          /\ finished[x] /\ Quiet(x)
          /\ \A r \in Run : Active(r) => runs[r].obj # x
      BY <3>1, <2>0 DEF PoolInv
    <3> QED BY <3>1, <3>2, <2>3, <2>4, <1>0, <1>6
  <2>8. RunInv'
    <3>1. \A r \in Run : Active(r) => runs[r].obj # o /\ runs[r].obj \in Object
      BY <2>1, <2>5
    <3> QED BY <3>1, <2>0, <2>3, <2>4, <1>0, <1>6 DEF RunInv
  <2>9. TimerInv'
    <3>1. timer'[o] # "armed" /\ timer'[o] \notin {"send", "rest"}
      BY <2>1, <2>2 DEF Quiet
    <3> QED BY <3>1, <2>0, <1>6 DEF TimerInv
  <2>10. CountInv'
    <3>1. ASSUME NEW v \in Worker PROVE Busy(v)' = Busy(v)
      <4>1. o \notin Busy(v)'
        BY <1>3, <1>7, <1>8 DEF Busy
      <4>2. ASSUME NEW x \in Object, x # o
            PROVE  x \in Busy(v)' <=> x \in Busy(v)
        <5>1. x \in 1 .. objects' <=> x \in 1 .. objects
          BY <4>2, <1>2, <1>4
        <5>2. /\ holder'[x] = holder[x] /\ pool'[v][x] = pool[v][x]
              /\ hand'[v] # x <=> hand[v] # x
          BY <4>2, <1>5, <1>6, <1>8, <1>9, <1>2
        <5> QED BY <5>1, <5>2 DEF Busy
      <4>3. Busy(v)' \subseteq Object /\ Busy(v) \subseteq Object
        <5>1. 1 .. objects' \subseteq Object
          BY <1>4, ObjectsOK
        <5> QED BY <5>1, <1>2 DEF Busy
      <4>4. \A x : x \in Busy(v)' <=> x \in Busy(v)
        BY <4>1, <4>2, <4>3, <2>1
      <4> QED BY <4>4
    <3> QED BY <3>1, <2>0, <1>0 DEF CountInv
  <2> QED BY <2>6, <2>7, <2>8, <2>9, <2>10 DEF CleanInv
<1>14. FailInv'
  <2>1. \A x \in Object : timer[x] \in {"send", "rest"} => timer'[x] = timer[x]
    BY <1>6, <1>7
  <2> QED BY <2>1, <1>T, <1>0, <1>12 DEF FailInv, countVars, outcomeVars
<1>15. ReturnInv'
  <2>1. result # "success"
    BY <1>T, <1>0 DEF ReturnInv
  <2> QED BY <2>1, <1>T, <1>0, <1>8 DEF ReturnInv, outcomeVars
<1> QED BY <1>10, <1>11, <1>12, <1>13, <1>14, <1>15 DEF IInv

\* While an object has no run, a goroutine is free to run it.
LEMMA FreeRunOK ==
  ASSUME TypeOK, UseInv, RunInv, NEW o \in Object,
         \A r \in Run : Active(r) => runs[r].obj # o
  PROVE  FreeRun \in Run /\ runs[FreeRun] = NoRun
<1>1. ASSUME \A r \in Run : runs[r] # NoRun PROVE FALSE
  <2> DEFINE f == [r \in Run |-> runs[r].obj]
  <2>1. \A r \in Run : Active(r) /\ runs[r].obj \in 1 .. objects
    BY <1>1 DEF UseInv
  <2>2. 1 .. objects \subseteq Object
    BY InUse
  <2>3. \A r \in Run : runs[r].obj \in Object \ {o}
    BY <2>1, <2>2
  <2>4. f \in [Run -> Object \ {o}]
    BY <2>3
  <2>5. /\ IsFiniteSet(Run) /\ IsFiniteSet(Object \ {o})
        /\ Cardinality(Object \ {o}) = Cardinality(Run) - 1
        /\ Cardinality(Run) \in Nat
    BY ObjectsOK, FS_RemoveElement, FS_CardinalityType
  <2>6. Cardinality(Object \ {o}) < Cardinality(Run)
    BY <2>5
  <2> HIDE DEF f
  <2>7. \E x, y \in Run : x # y /\ f[x] = f[y]
    BY <2>4, <2>5, <2>6, FS_PigeonHole
  <2> QED BY <2>1, <2>7 DEF RunInv, f
<1>2. \E r \in Run : runs[r] = NoRun
  BY <1>1
<1> QED BY <1>2 DEF FreeRun

\* A set of busy objects is finite.
LEMMA BusyFinite ==
  ASSUME TypeOK, NEW w
  PROVE  IsFiniteSet(Busy(w)) /\ Busy(w) \subseteq Object
<1>1. Busy(w) \subseteq 1 .. objects /\ 1 .. objects \subseteq Object
  BY InUse DEF Busy
<1> QED BY <1>1, ObjectsOK, FS_Subset

\* RunTaskAction: the object in the worker's hand becomes busy, with one run.
LEMMA RunTaskInv ==
  ASSUME IInv, result # "panic", NEW w \in Worker, WorkerRun(w)
  PROVE  IInv'
<1> DEFINE o == hand[w]
           u == holder[o]
           new == [st |-> "running", obj |-> o, user |-> u, err |-> FALSE]
           to == IF started'[w] >= TotalTasks(w) THEN "waitall" ELSE "loop"
<1>0. /\ wpc[w] = "acquire"
      /\ finished' = [finished EXCEPT ![o] = FALSE]
      /\ wg' = [wg EXCEPT ![w] = @ + 1]
      /\ runs' = [runs EXCEPT ![FreeRun] = new]
      /\ ran' = [ran EXCEPT ![u] = @ + 1]
      /\ started' = [started EXCEPT ![w] = @ + 1]
      /\ hand' = [hand EXCEPT ![w] = NoObject]
      /\ wpc' = [wpc EXCEPT ![w] = to]
      /\ UNCHANGED <<dispatch, queue, poolVars, holder, onFinish, timer, bad,
                     outcomeVars, cancelled, result>>
  BY DEF WorkerRun, WGoto
<1>a. to \in {"waitall", "loop"}
  OBVIOUS
<1> HIDE DEF to
<1>T. TypeOK /\ UseInv /\ FailInv /\ ReturnInv
  BY DEF IInv
<1>1. /\ wpc \in [Worker -> {"loop", "receive", "acquire", "waitall", "returned"}]
      /\ hand \in [Worker -> Object \cup {NoObject}]
      /\ wg \in [Worker -> Nat] /\ started \in [Worker -> Nat] /\ ran \in [User -> Nat]
      /\ finished \in [Object -> BOOLEAN]
      /\ runs \in [Run -> RunRecord]
  BY <1>T DEF TypeOK
<1>2. /\ objects \in Nat /\ 1 .. objects \subseteq Object
      /\ \A x \in Object : x \in Nat /\ x > 0
      /\ NoObject = 0 /\ NoObject \notin Object
  BY <1>T, InUse, ObjectsOK DEF NoObject
<1>3. o \in Object /\ o \in 1 .. objects /\ u \in User
  <2>1. o # NoObject /\ o \in 0 .. objects
    BY <1>T, <1>0 DEF UseInv
  <2>2. o \in Object /\ o \in 1 .. objects /\ o <= objects
    BY <2>1, <1>2
  <2> QED BY <2>2, <1>T DEF UseInv
<1>4. new \in RunRecord
      /\ new.st = "running" /\ new.obj = o /\ new.user = u /\ new.err = FALSE
  BY <1>3 DEF RunRecord
<1> HIDE DEF new, o, u
<1>5. /\ hand'[w] = NoObject /\ wpc'[w] = to /\ wg'[w] = wg[w] + 1
      /\ \A v \in Worker : v # w => hand'[v] = hand[v] /\ wpc'[v] = wpc[v] /\ wg'[v] = wg[v]
  BY <1>0, <1>1
<1>6. \A r \in Run : runs'[r] = IF r = FreeRun THEN new ELSE runs[r]
  BY <1>0, <1>1
<1>t. /\ wpc' \in [Worker -> {"loop", "receive", "acquire", "waitall", "returned"}]
      /\ hand' \in [Worker -> Object \cup {NoObject}]
      /\ wg' \in [Worker -> Nat] /\ started' \in [Worker -> Nat] /\ ran' \in [User -> Nat]
      /\ finished' \in [Object -> BOOLEAN]
      /\ runs' \in [Run -> RunRecord]
  <2>1. runs' \in [Run -> RunRecord]
    BY <1>0, <1>1, <1>4
  <2>2. wg' \in [Worker -> Nat] /\ started' \in [Worker -> Nat] /\ ran' \in [User -> Nat]
    BY <1>0, <1>1, <1>3
  <2> QED BY <2>1, <2>2, <1>0, <1>1, <1>a
<1>7. TypeOK'
  BY <1>T, <1>0, <1>t DEF TypeOK, poolVars, outcomeVars
<1>8. UseInv'
  <2>1. ASSUME NEW v \in Worker
        PROVE  /\ wpc'[v] = "acquire" <=> hand'[v] # NoObject
               /\ hand'[v] \in 0 .. objects'
               /\ \A i \in 1 .. Len(queue'[v]) : WorkerOf(queue'[v][i]) = v
    BY <1>T, <1>0, <1>2, <1>5, <1>a DEF UseInv, poolVars
  <2>2. ASSUME NEW r \in Run
        PROVE  IF Active(r)' THEN runs'[r].obj \in 1 .. objects' ELSE runs'[r] = NoRun
    BY <1>T, <1>0, <1>3, <1>4, <1>6 DEF UseInv, Active, poolVars
  <2> QED BY <2>1, <2>2, <1>T, <1>0 DEF UseInv, poolVars
<1>9. Clean' <=> Clean
  BY <1>0 DEF Clean
<1>10. ASSUME Clean PROVE CleanInv' /\ runs[FreeRun] = NoRun /\ FreeRun \in Run
  <2>0. HeldInv /\ PoolInv /\ RunInv /\ TimerInv /\ CountInv
    BY <1>10 DEF IInv, CleanInv
  <2>1. /\ WorkerOf(u) = w
        /\ ~finished[o] /\ onFinish[o] /\ Quiet(o)
        /\ \A v \in Worker : pool[v][o] = 0
        /\ \A r \in Run : Active(r) => runs[r].obj # o
    BY <1>2, <1>3, <2>0 DEF HeldInv, o, u
  <2>2. FreeRun \in Run /\ runs[FreeRun] = NoRun
    BY <1>3, <1>T, <2>0, <2>1, FreeRunOK
  <2>3. finished' = finished
    BY <1>0, <1>1, <2>1
  <2>4. \A r \in Run : r # FreeRun => runs'[r] = runs[r] /\ (Active(r)' <=> Active(r))
    BY <1>6 DEF Active
  <2>5. runs'[FreeRun] = new
    BY <1>6, <2>2
  <2>6. HeldInv'
    <3> SUFFICES ASSUME NEW v \in Worker, hand'[v] # NoObject
                 PROVE  /\ WorkerOf(holder[hand[v]]) = v /\ hand'[v] = hand[v]
                        /\ ~finished[hand[v]] /\ onFinish[hand[v]] /\ Quiet(hand[v])
                        /\ \A x \in Worker : pool[x][hand[v]] = 0
                        /\ \A r \in Run : Active(r)' => runs'[r].obj # hand[v]
      BY <1>0, <2>3 DEF HeldInv, Quiet, poolVars
    <3>1. v # w /\ hand'[v] = hand[v] /\ hand[v] # NoObject
      BY <1>5
    <3>2. /\ WorkerOf(holder[hand[v]]) = v
          /\ ~finished[hand[v]] /\ onFinish[hand[v]] /\ Quiet(hand[v])
          /\ \A x \in Worker : pool[x][hand[v]] = 0
          /\ \A r \in Run : Active(r) => runs[r].obj # hand[v]
      BY <3>1, <2>0 DEF HeldInv
    <3>3. hand[v] # o
      BY <3>1, <3>2, <2>1 DEF u
    <3> QED BY <3>1, <3>2, <3>3, <2>4, <2>5, <1>4
  <2>7. PoolInv'
    <3> SUFFICES ASSUME NEW v \in Worker, NEW x \in Object, pool[v][x] # 0
                 PROVE  /\ pool[v][x] = 1 /\ WorkerOf(holder[x]) = v
                        /\ finished[x] /\ Quiet(x)
                        /\ \A r \in Run : Active(r)' => runs'[r].obj # x
      BY <1>0, <2>3 DEF PoolInv, Quiet, poolVars
    <3>1. /\ pool[v][x] = 1 /\ WorkerOf(holder[x]) = v
          /\ finished[x] /\ Quiet(x)
          /\ \A r \in Run : Active(r) => runs[r].obj # x
      BY <2>0 DEF PoolInv
    <3>2. x # o
      BY <2>1
    <3> QED BY <3>1, <3>2, <2>4, <2>5, <1>4
  <2>8. RunInv'
    <3>1. ASSUME NEW r \in Run, Active(r)', NEW q \in Run, Active(q)',
                 runs'[r].obj = runs'[q].obj
          PROVE  r = q
      <4>1. CASE r = FreeRun \/ q = FreeRun
        BY <4>1, <3>1, <2>1, <2>4, <2>5, <1>4
      <4>2. CASE r # FreeRun /\ q # FreeRun
        BY <4>2, <3>1, <2>0, <2>4 DEF RunInv
      <4> QED BY <4>1, <4>2
    <3>2. ASSUME NEW r \in Run, Active(r)'
          PROVE  /\ runs'[r].user = holder[runs'[r].obj]
                 /\ IF runs'[r].st = "running" /\ ~finished[runs'[r].obj]
                    THEN onFinish[runs'[r].obj] /\ timer[runs'[r].obj] \in {"none", "armed", "off"}
                    ELSE /\ finished[runs'[r].obj]
                         /\ IF runs'[r].st = "running"
                            THEN timer[runs'[r].obj] \in {"send", "rest"}
                            ELSE timer[runs'[r].obj] \in {"none", "off"}
      <4>1. CASE r = FreeRun
        BY <4>1, <2>1, <2>5, <1>4 DEF Quiet, u
      <4>2. CASE r # FreeRun
        BY <4>2, <3>2, <2>0, <2>4 DEF RunInv, Quiet
      <4> QED BY <4>1, <4>2
    <3> QED BY <3>1, <3>2, <2>3, <1>0 DEF RunInv, Quiet
  <2>9. TimerInv'
    BY <2>0, <2>3, <1>0 DEF TimerInv
  <2>10. CountInv'
    <3>1. UNCHANGED <<holder, pool, objects>>
      BY <1>0 DEF poolVars
    <3>2. ASSUME NEW v \in Worker, v # w PROVE Busy(v)' = Busy(v)
      BY <3>1, <3>2, <1>5 DEF Busy
    <3>3. Busy(w)' = Busy(w) \cup {o}
      <4>1. \A x : x \in Busy(w)' <=> x \in Busy(w) \/ x = o
        <5>1. \A x : x \in Busy(w)' <=> x \in 1 .. objects /\ WorkerOf(holder[x]) = w
                                         /\ NoObject # x /\ pool[w][x] = 0
          BY <3>1, <1>5 DEF Busy
        <5>2. \A x : x \in Busy(w) <=> x \in 1 .. objects /\ WorkerOf(holder[x]) = w
                                        /\ o # x /\ pool[w][x] = 0
          BY DEF Busy, o
        <5>3. WorkerOf(holder[o]) = w /\ pool[w][o] = 0 /\ o \in 1 .. objects
              /\ NoObject \notin 1 .. objects
          BY <2>1, <1>2, <1>3 DEF u
        <5> QED BY <5>1, <5>2, <5>3
      <4> QED BY <4>1
    <3>4. o \notin Busy(w)
      BY DEF Busy, o
    <3>5. Cardinality(Busy(w)') = Cardinality(Busy(w)) + 1
      BY <3>3, <3>4, <1>T, BusyFinite, FS_AddElement
    <3>6. ASSUME NEW v \in Worker PROVE wg'[v] = Cardinality(Busy(v)')
      BY <3>2, <3>5, <1>5, <2>0 DEF CountInv
    <3> QED BY <3>6 DEF CountInv
  <2> QED BY <2>2, <2>6, <2>7, <2>8, <2>9, <2>10 DEF CleanInv
<1>11. FailInv'
  <2>1. CASE Clean
    <3>1. FreeRun \in Run /\ runs[FreeRun] = NoRun /\ NoRun.st = "none"
      BY <2>1, <1>10 DEF NoRun
    <3>2. \A r \in Run : runs[r].st \in {"send", "rest"} => runs'[r] = runs[r]
      BY <3>1, <1>6
    <3> QED BY <3>2, <1>T, <1>0, <1>9 DEF FailInv, outcomeVars
  <2>2. CASE ~Clean
    BY <2>2, <1>T, <1>0, <1>9 DEF FailInv, outcomeVars
  <2> QED BY <2>1, <2>2
<1>12. ReturnInv'
  <2>1. result # "success"
    BY <1>T, <1>0 DEF ReturnInv
  <2> QED BY <2>1, <1>T, <1>0, <1>5, <1>a DEF ReturnInv, outcomeVars
<1> QED BY <1>7, <1>8, <1>9, <1>10, <1>11, <1>12 DEF IInv

\* An object with a run, or with a timer that is armed or in Finish, is busy: in
\* no hand and in no pool, and the WaitGroup counts it.
LEMMA OneIsBusy ==
  ASSUME IInv, Clean, NEW o \in 1 .. objects,
         ~Quiet(o) \/ \E r \in Run : Active(r) /\ runs[r].obj = o
  PROVE  /\ \A v \in Worker : hand[v] # o /\ pool[v][o] = 0
         /\ WorkerOf(holder[o]) \in Worker /\ o \in Busy(WorkerOf(holder[o]))
         /\ wg[WorkerOf(holder[o])] > 0
         /\ result # "success"
<1> DEFINE w == WorkerOf(holder[o])
<1>0. TypeOK /\ UseInv /\ HeldInv /\ PoolInv /\ CountInv /\ ReturnInv
  BY DEF IInv, CleanInv
<1>1. o \in Object /\ o <= objects /\ o # NoObject
  BY <1>0, InUse DEF NoObject
<1>2. \A v \in Worker : hand[v] # o /\ pool[v][o] = 0
  BY <1>0, <1>1 DEF HeldInv, PoolInv
<1>3. w \in Worker
  BY <1>0, <1>1, ParamsOK DEF UseInv
<1>4. o \in Busy(w)
  BY <1>2, <1>3 DEF Busy
<1> HIDE DEF w
<1>5. Cardinality(Busy(w)) \in Nat /\ Cardinality(Busy(w)) # 0
  BY <1>0, <1>4, BusyFinite, FS_CardinalityType, FS_EmptySet
<1>6. wg[w] > 0
  BY <1>0, <1>3, <1>5 DEF CountInv
<1>7. result # "success"
  BY <1>0, <1>3, <1>6 DEF ReturnInv
<1> QED BY <1>2, <1>3, <1>4, <1>6, <1>7 DEF w

\* The first request of a run arms the timer of its object.
LEMMA AwaitInv ==
  ASSUME IInv, result # "panic", NEW r \in Run, RunAwaits(r)
  PROVE  IInv'
<1> DEFINE o == runs[r].obj
<1>0. /\ runs[r].st = "running" /\ timer[o] = "none"
      /\ timer' = [timer EXCEPT ![o] = "armed"]
      /\ UNCHANGED <<dispatch, queue, workerVars, wg, poolVars, holder, finished,
                     onFinish, runs, countVars, outcomeVars, cancelled, result>>
  BY DEF RunAwaits, SetTimer
<1>T. TypeOK /\ UseInv /\ FailInv /\ ReturnInv
  BY DEF IInv
<1>1. timer \in [Object -> {"none", "armed", "send", "rest", "fired", "off"}]
  BY <1>T DEF TypeOK
<1>2. Active(r) /\ o \in 1 .. objects /\ o \in Object /\ o <= objects
  BY <1>T, <1>0, InUse DEF UseInv, Active
<1> HIDE DEF o
<1>3. timer'[o] = "armed" /\ \A x \in Object : x # o => timer'[x] = timer[x]
  BY <1>0, <1>1, <1>2
<1>4. TypeOK'
  BY <1>T, <1>0 DEF TypeOK, workerVars, poolVars, countVars, outcomeVars
<1>5. UseInv'
  BY <1>T, <1>0, <1>2, <1>3 DEF UseInv, Active, workerVars, poolVars
<1>6. Clean' <=> Clean
  BY <1>0, <1>2, <1>3 DEF Clean
<1>7. ASSUME Clean PROVE CleanInv'
  <2>0. HeldInv /\ PoolInv /\ RunInv /\ TimerInv /\ CountInv
    BY <1>7 DEF IInv, CleanInv
  <2>1. \A v \in Worker : hand[v] # o /\ pool[v][o] = 0
    BY <1>2, <1>7, OneIsBusy DEF o
  <2>2. ~finished[o] /\ onFinish[o]
    BY <1>0, <1>2, <2>0 DEF RunInv, o
  <2>3. \A x \in Object : x # o => (Quiet(x)' <=> Quiet(x))
    BY <1>3 DEF Quiet
  <2>a. \A q : Active(q)' <=> Active(q)
    BY <1>0 DEF Active
  <2>b. \A v \in Worker : hand[v] # NoObject => hand[v] \in Object /\ hand[v] # o
    BY <2>1, <1>T DEF TypeOK
  <2>c. \A v \in Worker : hand[v] # NoObject => timer'[hand[v]] = timer[hand[v]]
    BY <2>b, <1>3
  <2>4. HeldInv'
    BY <2>0, <2>a, <2>c, <1>0 DEF HeldInv, Quiet, workerVars, poolVars
  <2>5. PoolInv'
    BY <2>0, <2>1, <2>3, <2>a, <1>0 DEF PoolInv, poolVars
  <2>6. RunInv'
    <3>1. ASSUME NEW q \in Run, Active(q), q # r
          PROVE  timer'[runs[q].obj] = timer[runs[q].obj]
      <4>1. runs[q].obj # o
        BY <3>1, <1>2, <2>0 DEF RunInv, o
      <4>2. runs[q].obj \in Object
        BY <3>1, <1>T, InUse DEF UseInv
      <4> QED BY <4>1, <4>2, <1>3
    <3>2. timer'[runs[r].obj] = "armed" /\ ~finished[runs[r].obj] /\ onFinish[runs[r].obj]
      BY <1>3, <2>2 DEF o
    <3> QED BY <3>1, <3>2, <2>0, <2>a, <1>0 DEF RunInv, Quiet
  <2>7. TimerInv'
    BY <2>0, <2>2, <1>0, <1>3 DEF TimerInv
  <2>8. CountInv'
    <3>1. \A v : Busy(v)' = Busy(v)
      BY <1>0 DEF Busy, workerVars, poolVars
    <3> QED BY <3>1, <2>0, <1>0 DEF CountInv
  <2> QED BY <2>4, <2>5, <2>6, <2>7, <2>8 DEF CleanInv
<1>8. FailInv'
  <2>1. \A x \in Object : timer[x] \in {"send", "rest"} => timer'[x] = timer[x]
    BY <1>0, <1>3
  <2> QED BY <2>1, <1>T, <1>0, <1>6 DEF FailInv, countVars, outcomeVars
<1>9. ReturnInv'
  BY <1>T, <1>0 DEF ReturnInv, workerVars, outcomeVars
<1> QED BY <1>4, <1>5, <1>6, <1>7, <1>8, <1>9 DEF IInv

\* The user of an object that is put back goes to its own worker.
LEMMA PutBackOK ==
  ASSUME TypeOK, UseInv, NEW o \in 1 .. objects, PutBack(o)
  PROVE  /\ queue' \in [Worker -> Seq(User)]
         /\ \A v \in Worker : \A i \in 1 .. Len(queue'[v]) : WorkerOf(queue'[v][i]) = v
         /\ holder[o] \in User /\ WorkerOf(holder[o]) \in Worker
<1> DEFINE u == holder[o]
           w == WorkerOf(u)
<1>1. o \in Object /\ o <= objects
  BY InUse
<1>2. u \in User /\ w \in Worker
  BY <1>1, ParamsOK DEF UseInv
<1>3. queue' = [queue EXCEPT ![w] = Append(@, u)]
  BY DEF PutBack
<1>4. queue \in [Worker -> Seq(User)]
  BY DEF TypeOK
<1>5. WorkerOf(u) = w
  OBVIOUS
<1> HIDE DEF u, w
<1>6. queue'[w] = Append(queue[w], u) /\ \A v \in Worker : v # w => queue'[v] = queue[v]
  BY <1>2, <1>3, <1>4
<1>7. queue[w] \in Seq(User) /\ Append(queue[w], u) \in Seq(User)
  BY <1>2, <1>4
<1>8. ASSUME NEW v \in Worker, NEW i \in 1 .. Len(queue'[v])
      PROVE  WorkerOf(queue'[v][i]) = v
  <2>1. CASE v = w
    <3>1. \A j \in 1 .. Len(queue[w]) : WorkerOf(queue[w][j]) = w
      BY <1>2 DEF UseInv
    <3> QED BY <2>1, <3>1, <1>5, <1>6, <1>7
  <2>2. CASE v # w
    BY <2>2, <1>6 DEF UseInv
  <2> QED BY <2>1, <2>2
<1> QED BY <1>2, <1>3, <1>4, <1>7, <1>8 DEF u, w

\* A Finish, of a run or of a timer, that puts its user back.
LEMMA SendInv ==
  ASSUME IInv, result # "panic",
         (\E r \in Run : RunSend(r)) \/ (\E o \in Object : TimerSend(o))
  PROVE  IInv'
<1>T. TypeOK /\ UseInv /\ FailInv /\ ReturnInv
  BY DEF IInv
<1> DEFINE Moved ==
             /\ UNCHANGED <<dispatch, workerVars, wg, poolVars, holder, finished, onFinish,
                            countVars, outcomeVars, cancelled, result>>
             /\ runs' \in [Run -> RunRecord]
             /\ timer' \in [Object -> {"none", "armed", "send", "rest", "fired", "off"}]
             /\ queue' \in [Worker -> Seq(User)]
             /\ \A v \in Worker : \A i \in 1 .. Len(queue'[v]) : WorkerOf(queue'[v][i]) = v
             /\ \A x \in Object : \/ timer'[x] = timer[x]
                                  \/ timer[x] = "send" /\ timer'[x] = "rest"
             /\ \A q \in Run : \/ runs'[q] = runs[q]
                               \/ /\ runs[q].st = "send" /\ runs'[q].st = "rest"
                                  /\ runs'[q].obj = runs[q].obj /\ runs'[q].user = runs[q].user
                                  /\ runs'[q].err = runs[q].err
<1>0. Moved
  <2>0. /\ runs \in [Run -> RunRecord]
        /\ timer \in [Object -> {"none", "armed", "send", "rest", "fired", "off"}]
    BY <1>T DEF TypeOK
  <2>1. ASSUME NEW r \in Run, RunSend(r)
        PROVE  Moved
    <3>1. runs[r].st = "send" /\ PutBack(runs[r].obj)
          /\ runs' = [runs EXCEPT ![r] = [@ EXCEPT !.st = "rest"]]
      BY <2>1 DEF RunSend, SetRun
    <3>2. runs[r] \in RunRecord /\ [runs[r] EXCEPT !.st = "rest"] \in RunRecord
      BY <2>0 DEF RunRecord
    <3>3. runs' \in [Run -> RunRecord]
      BY <3>1, <3>2, <2>0
    <3>4. runs[r].obj \in 1 .. objects
      BY <3>1, <1>T DEF UseInv, Active
    <3>5. runs'[r] = [runs[r] EXCEPT !.st = "rest"] /\ \A q \in Run : q # r => runs'[q] = runs[q]
      BY <3>1, <2>0
    <3>6. /\ runs'[r].st = "rest"
          /\ runs'[r].obj = runs[r].obj /\ runs'[r].user = runs[r].user
          /\ runs'[r].err = runs[r].err
      BY <3>5, <3>2 DEF RunRecord
    <3> QED BY <3>1, <3>3, <3>4, <3>5, <3>6, <2>0, <2>1, <1>T, PutBackOK DEF RunSend, objectVars
  <2>2. ASSUME NEW o \in Object, TimerSend(o)
        PROVE  Moved
    <3>1. timer[o] = "send" /\ PutBack(o) /\ timer' = [timer EXCEPT ![o] = "rest"]
      BY <2>2 DEF TimerSend, SetTimer
    <3>2. o \in 1 .. objects
      BY <3>1, <1>T, InUse DEF UseInv
    <3> QED BY <3>1, <3>2, <2>0, <2>2, <1>T, PutBackOK DEF TimerSend
  <2> QED BY <2>1, <2>2
<1>1. TypeOK'
  BY <1>T, <1>0 DEF TypeOK, workerVars, poolVars, countVars, outcomeVars
<1>2. \A q \in Run : /\ Active(q)' <=> Active(q)
                     /\ runs'[q].obj = runs[q].obj /\ runs'[q].user = runs[q].user
                     /\ runs'[q].err = runs[q].err
                     /\ runs'[q].st = "running" <=> runs[q].st = "running"
                     /\ runs[q].st \in {"send", "rest"} => runs'[q].st \in {"send", "rest"}
                     /\ ~Active(q) => runs'[q] = runs[q]
  BY <1>0 DEF Active
<1>3. \A x \in Object : /\ Quiet(x)' <=> Quiet(x)
                        /\ timer'[x] = "armed" <=> timer[x] = "armed"
                        /\ timer'[x] = "none" <=> timer[x] = "none"
                        /\ timer'[x] \in {"send", "rest"} <=> timer[x] \in {"send", "rest"}
                        /\ timer'[x] = "fired" <=> timer[x] = "fired"
  BY <1>0 DEF Quiet
<1>4. UseInv'
  BY <1>T, <1>0, <1>2, <1>3 DEF UseInv, workerVars, poolVars
<1>5. Clean' <=> Clean
  BY <1>3 DEF Clean
<1>6. ASSUME Clean PROVE CleanInv'
  <2>0. HeldInv /\ PoolInv /\ RunInv /\ TimerInv /\ CountInv
    BY <1>6 DEF IInv, CleanInv
  <2>1. UNCHANGED <<hand, holder, finished, onFinish, pool, objects, wg>>
    BY <1>0 DEF workerVars, poolVars
  <2>2. \A v \in Worker : hand[v] # NoObject => hand[v] \in Object
    BY <1>T DEF TypeOK
  <2>3. HeldInv'
    <3>1. \A v \in Worker : hand[v] # NoObject => timer[hand[v]] \in {"none", "off"}
                                                 /\ timer'[hand[v]] \in {"none", "off"}
      BY <2>0, <2>2, <1>3 DEF HeldInv, Quiet
    <3> QED BY <3>1, <2>0, <2>1, <1>2 DEF HeldInv, Quiet
  <2>4. PoolInv'
    BY <2>0, <2>1, <1>2, <1>3 DEF PoolInv
  <2>5. RunInv'
    <3>1. \A q \in Run : Active(q) => runs[q].obj \in Object
      BY <1>T, InUse DEF UseInv
    <3>2. ASSUME NEW q \in Run, Active(q)
          PROVE  /\ runs'[q].user = holder[runs'[q].obj]
                 /\ IF runs'[q].st = "running" /\ ~finished[runs'[q].obj]
                    THEN onFinish[runs'[q].obj] /\ timer'[runs'[q].obj] \in {"none", "armed", "off"}
                    ELSE /\ finished[runs'[q].obj]
                         /\ IF runs'[q].st = "running"
                            THEN timer'[runs'[q].obj] \in {"send", "rest"}
                            ELSE timer'[runs'[q].obj] \in {"none", "off"}
      BY <3>1, <3>2, <2>0, <1>2, <1>3 DEF RunInv, Quiet
    <3>3. \A r, q \in Run : Active(r)' /\ Active(q)' /\ runs'[r].obj = runs'[q].obj => r = q
      BY <2>0, <1>2 DEF RunInv
    <3> QED BY <3>2, <3>3, <2>1, <1>2 DEF RunInv, Quiet
  <2>6. TimerInv'
    BY <2>0, <2>1, <1>3 DEF TimerInv
  <2>7. CountInv'
    <3>1. \A v : Busy(v)' = Busy(v)
      BY <2>1 DEF Busy
    <3> QED BY <3>1, <2>0, <2>1 DEF CountInv
  <2> QED BY <2>3, <2>4, <2>5, <2>6, <2>7 DEF CleanInv
<1>7. FailInv'
  BY <1>T, <1>0, <1>2, <1>3, <1>5 DEF FailInv, countVars, outcomeVars
<1>8. ReturnInv'
  BY <1>T, <1>0 DEF ReturnInv, workerVars, outcomeVars
<1> QED BY <1>1, <1>4, <1>5, <1>6, <1>7, <1>8 DEF IInv

\* The first call of Finish on an object takes its flag and its callback.
LEMMA FinishFirstOK ==
  ASSUME TypeOK, UseInv, NEW o \in 1 .. objects, FinishFirst(o)
  PROVE  /\ dispatch' \in [User -> Nat]
         /\ finished' \in [Object -> BOOLEAN] /\ onFinish' \in [Object -> BOOLEAN]
         /\ \A x \in Object : x # o => finished'[x] = finished[x] /\ onFinish'[x] = onFinish[x]
         /\ finished'[o] = TRUE
         /\ finished[o] => onFinish'[o] = onFinish[o]
         /\ AfterFirst(o) \in {"done", "send", "rest"}
         /\ AfterFirst(o) = "done" <=> finished[o] \/ ~onFinish[o]
<1>1. o \in Object /\ o <= objects
  BY InUse
<1>2. holder[o] \in User
  BY <1>1 DEF UseInv
<1>3. /\ finished \in [Object -> BOOLEAN] /\ onFinish \in [Object -> BOOLEAN]
      /\ dispatch \in [User -> Nat]
  BY DEF TypeOK
<1>4. AfterFirst(o) \in {"done", "send", "rest"}
      /\ (AfterFirst(o) = "done" <=> finished[o] \/ ~onFinish[o])
  BY DEF AfterFirst
<1>5. CASE finished[o]
  <2>1. UNCHANGED <<dispatch, finished, onFinish>>
    BY <1>5 DEF FinishFirst
  <2> QED BY <2>1, <1>1, <1>3, <1>4, <1>5
<1>6. CASE ~finished[o]
  <2>1. /\ finished' = [finished EXCEPT ![o] = TRUE]
        /\ onFinish' = [onFinish EXCEPT ![o] = FALSE]
        /\ dispatch' = dispatch \/ dispatch' = [dispatch EXCEPT ![holder[o]] = @ + 1]
    BY <1>6 DEF FinishFirst
  <2>2. dispatch' \in [User -> Nat]
    BY <2>1, <1>2, <1>3
  <2> QED BY <2>1, <2>2, <1>1, <1>3, <1>4, <1>6
<1> QED BY <1>5, <1>6

\* HookRun returns: the run goes on in onFinishFunc, unless the timer does.
LEMMA ReturnStepInv ==
  ASSUME IInv, result # "panic", NEW r \in Run, NEW err \in BOOLEAN, RunReturn(r, err)
  PROVE  IInv'
<1> DEFINE o == runs[r].obj
           to == IF AfterFirst(o) = "done" THEN NoRun
                 ELSE [runs[r] EXCEPT !.st = AfterFirst(o), !.err = err]
<1>T. TypeOK /\ UseInv /\ FailInv /\ ReturnInv
  BY DEF IInv
<1>0. /\ runs[r].st = "running"
      /\ FinishFirst(o)
      /\ timer' = [timer EXCEPT ![o] = IF @ = "armed" THEN "off" ELSE @]
      /\ runs' = [runs EXCEPT ![r] = to]
      /\ bad' = (bad \/ err)
      /\ UNCHANGED <<queue, workerVars, wg, poolVars, holder, ran, outcomeVars,
                     cancelled, result>>
  <2>1. runs' = [runs EXCEPT ![r] = IF AfterFirst(o) = "done" THEN NoRun
                                    ELSE [@ EXCEPT !.st = AfterFirst(o), !.err = err]]
    BY DEF RunReturn
  <2> QED BY <2>1 DEF RunReturn
<1>1. Active(r) /\ o \in 1 .. objects /\ o \in Object /\ o <= objects
  BY <1>T, <1>0, InUse DEF UseInv, Active
<1>2. /\ runs \in [Run -> RunRecord]
      /\ timer \in [Object -> {"none", "armed", "send", "rest", "fired", "off"}]
      /\ bad \in BOOLEAN
  BY <1>T DEF TypeOK
<1>3. /\ dispatch' \in [User -> Nat]
      /\ finished' \in [Object -> BOOLEAN] /\ onFinish' \in [Object -> BOOLEAN]
      /\ \A x \in Object : x # o => finished'[x] = finished[x] /\ onFinish'[x] = onFinish[x]
      /\ finished'[o] = TRUE
      /\ finished[o] => onFinish'[o] = onFinish[o]
      /\ AfterFirst(o) \in {"done", "send", "rest"}
      /\ AfterFirst(o) = "done" <=> finished[o] \/ ~onFinish[o]
  BY <1>T, <1>0, <1>1, FinishFirstOK
<1>4. /\ to \in RunRecord
      /\ to # NoRun \/ AfterFirst(o) # "done" =>
           to.st \in {"send", "rest"} /\ to.obj = o /\ to.user = runs[r].user /\ to.err = err
      /\ AfterFirst(o) = "done" => to = NoRun
  <2>1. runs[r] \in RunRecord
    BY <1>2
  <2>2. CASE AfterFirst(o) = "done"
    BY <2>2 DEF NoRun, RunRecord
  <2>3. CASE AfterFirst(o) \in {"send", "rest"}
    <3>1. to = [runs[r] EXCEPT !.st = AfterFirst(o), !.err = err]
      BY <2>3
    <3> QED BY <2>1, <2>3, <3>1 DEF RunRecord
  <2> QED BY <2>2, <2>3, <1>3
<1>a. NoRun.st = "none"
  BY DEF NoRun
<1> HIDE DEF to, o
<1>5. runs'[r] = to /\ runs' \in [Run -> RunRecord] /\ \A q \in Run : q # r => runs'[q] = runs[q]
  BY <1>0, <1>2, <1>4
<1>6. /\ timer' \in [Object -> {"none", "armed", "send", "rest", "fired", "off"}]
      /\ \A x \in Object : x # o => timer'[x] = timer[x]
      /\ timer'[o] = IF timer[o] = "armed" THEN "off" ELSE timer[o]
  BY <1>0, <1>1, <1>2
<1>b. bad' \in BOOLEAN
  BY <1>0, <1>2
<1>7. TypeOK'
  BY <1>T, <1>0, <1>3, <1>5, <1>6, <1>b DEF TypeOK, workerVars, poolVars, outcomeVars
<1>8. UseInv'
  <2>1. ASSUME NEW q \in Run
        PROVE  IF Active(q)' THEN runs'[q].obj \in 1 .. objects ELSE runs'[q] = NoRun
    <3>1. CASE q = r
      BY <3>1, <1>1, <1>3, <1>4, <1>5, <1>a DEF Active
    <3>2. CASE q # r
      BY <3>2, <1>T, <1>5 DEF UseInv, Active
    <3> QED BY <3>1, <3>2
  <2>2. ASSUME NEW x \in Object, ~(x <= objects)
        PROVE  timer'[x] = "none"
    BY <2>2, <1>T, <1>1, <1>6 DEF UseInv
  <2> QED BY <2>1, <2>2, <1>T, <1>0 DEF UseInv, workerVars, poolVars
<1>9. Clean' <=> Clean
  BY <1>1, <1>6 DEF Clean
<1>10. ASSUME Clean
       PROVE  /\ CleanInv'
              /\ err => \/ runs'[r].st \in {"send", "rest"} /\ runs'[r].err
                        \/ timer'[o] \in {"send", "rest"}
              /\ ~finished[o] => onFinish[o]
              /\ \A x \in Object : timer[x] \in {"send", "rest"} => timer'[x] = timer[x]
  <2>0. HeldInv /\ PoolInv /\ RunInv /\ TimerInv /\ CountInv
    BY <1>10 DEF IInv, CleanInv
  <2>1. \A v \in Worker : hand[v] # o /\ pool[v][o] = 0
    BY <1>1, <1>10, OneIsBusy DEF o
  <2>2. /\ runs[r].user = holder[o]
        /\ \/ ~finished[o] /\ onFinish[o] /\ timer[o] \in {"none", "armed", "off"}
           \/ finished[o] /\ timer[o] \in {"send", "rest"}
    BY <1>0, <1>1, <2>0 DEF RunInv, o
  <2>3. \A q \in Run : Active(q) /\ q # r => runs[q].obj # o /\ runs[q].obj \in Object
    BY <1>1, <1>T, <2>0, InUse DEF RunInv, UseInv, o
  <2>4. \A q \in Run : q # r => (Active(q)' <=> Active(q)) /\ runs'[q] = runs[q]
    BY <1>5 DEF Active
  <2>5. Active(r)' => /\ ~finished[o] /\ timer'[o] \in {"none", "off"}
                      /\ runs'[r].st \in {"send", "rest"} /\ runs'[r].obj = o
                      /\ runs'[r].user = runs[r].user /\ runs'[r].err = err
    BY <1>3, <1>4, <1>5, <1>6, <1>a, <2>2 DEF Active
  <2>6. ~finished[o] => Active(r)'
    BY <1>3, <1>4, <1>5, <2>2 DEF Active
  <2>7. HeldInv'
    <3>1. UNCHANGED <<hand, holder, pool>>
      BY <1>0 DEF workerVars, poolVars
    <3> SUFFICES ASSUME NEW v \in Worker, hand[v] # NoObject
                 PROVE  /\ WorkerOf(holder[hand[v]]) = v
                        /\ ~finished'[hand[v]] /\ onFinish'[hand[v]]
                        /\ timer'[hand[v]] \in {"none", "off"}
                        /\ \A x \in Worker : pool[x][hand[v]] = 0
                        /\ \A q \in Run : Active(q)' => runs'[q].obj # hand[v]
      BY <3>1 DEF HeldInv, Quiet
    <3>2. hand[v] \in Object /\ hand[v] # o
      BY <1>T, <2>1 DEF TypeOK
    <3>3. /\ WorkerOf(holder[hand[v]]) = v
          /\ ~finished[hand[v]] /\ onFinish[hand[v]] /\ timer[hand[v]] \in {"none", "off"}
          /\ \A x \in Worker : pool[x][hand[v]] = 0
          /\ \A q \in Run : Active(q) => runs[q].obj # hand[v]
      BY <2>0 DEF HeldInv, Quiet
    <3>4. \A q \in Run : Active(q)' => runs'[q].obj # hand[v]
      BY <3>2, <3>3, <2>4, <2>5
    <3> QED BY <3>2, <3>3, <3>4, <1>3, <1>6
  <2>8. PoolInv'
    <3>1. UNCHANGED <<holder, pool>>
      BY <1>0 DEF poolVars
    <3> SUFFICES ASSUME NEW v \in Worker, NEW x \in Object, pool[v][x] # 0
                 PROVE  /\ pool[v][x] = 1 /\ WorkerOf(holder[x]) = v
                        /\ finished'[x] /\ timer'[x] \in {"none", "off"}
                        /\ \A q \in Run : Active(q)' => runs'[q].obj # x
      BY <3>1 DEF PoolInv, Quiet
    <3>2. x # o
      BY <2>1
    <3>3. /\ pool[v][x] = 1 /\ WorkerOf(holder[x]) = v
          /\ finished[x] /\ timer[x] \in {"none", "off"}
          /\ \A q \in Run : Active(q) => runs[q].obj # x
      BY <2>0 DEF PoolInv, Quiet
    <3>4. \A q \in Run : Active(q)' => runs'[q].obj # x
      BY <3>2, <3>3, <2>4, <2>5
    <3> QED BY <3>2, <3>3, <3>4, <1>3, <1>6
  <2>9. RunInv'
    <3>1. ASSUME NEW q \in Run, Active(q)', NEW p \in Run, Active(p)',
                 runs'[q].obj = runs'[p].obj
          PROVE  q = p
      <4>1. CASE q = r \/ p = r
        BY <4>1, <3>1, <2>3, <2>4, <2>5
      <4>2. CASE q # r /\ p # r
        BY <4>2, <3>1, <2>0, <2>4 DEF RunInv
      <4> QED BY <4>1, <4>2
    <3>2. ASSUME NEW q \in Run, Active(q)'
          PROVE  /\ runs'[q].user = holder[runs'[q].obj]
                 /\ IF runs'[q].st = "running" /\ ~finished'[runs'[q].obj]
                    THEN onFinish'[runs'[q].obj] /\ timer'[runs'[q].obj] \in {"none", "armed", "off"}
                    ELSE /\ finished'[runs'[q].obj]
                         /\ IF runs'[q].st = "running"
                            THEN timer'[runs'[q].obj] \in {"send", "rest"}
                            ELSE timer'[runs'[q].obj] \in {"none", "off"}
      <4>1. CASE q = r
        BY <4>1, <3>2, <2>2, <2>5, <1>3
      <4>2. CASE q # r
        <5>1. Active(q) /\ runs'[q] = runs[q] /\ runs[q].obj # o /\ runs[q].obj \in Object
          BY <4>2, <3>2, <2>3, <2>4
        <5>2. /\ finished'[runs[q].obj] = finished[runs[q].obj]
              /\ onFinish'[runs[q].obj] = onFinish[runs[q].obj]
              /\ timer'[runs[q].obj] = timer[runs[q].obj]
          BY <5>1, <1>3, <1>6
        <5> QED BY <5>1, <5>2, <2>0 DEF RunInv, Quiet
      <4> QED BY <4>1, <4>2
    <3> QED BY <3>1, <3>2, <1>0 DEF RunInv, Quiet
  <2>10. TimerInv'
    <3>1. timer'[o] # "armed"
      BY <1>6
    <3>2. ASSUME NEW x \in Object, x # o
          PROVE  timer'[x] = timer[x] /\ finished'[x] = finished[x] /\ onFinish'[x] = onFinish[x]
      BY <3>2, <1>3, <1>6
    <3> QED BY <3>1, <3>2, <2>0, <1>3 DEF TimerInv
  <2>11. CountInv'
    <3>1. \A v : Busy(v)' = Busy(v)
      BY <1>0 DEF Busy, workerVars, poolVars
    <3> QED BY <3>1, <2>0, <1>0 DEF CountInv
  <2>12. \A x \in Object : timer[x] \in {"send", "rest"} => timer'[x] = timer[x]
    BY <1>6
  <2>13. err => \/ runs'[r].st \in {"send", "rest"} /\ runs'[r].err
                \/ timer'[o] \in {"send", "rest"}
    BY <2>2, <2>5, <2>6, <1>6
  <2> QED BY <2>2, <2>7, <2>8, <2>9, <2>10, <2>11, <2>12, <2>13 DEF CleanInv
<1>11. FailInv'
  <2>1. CASE Clean
    <3>1. \A q \in Run : runs[q].st \in {"send", "rest"} => runs'[q] = runs[q]
      BY <1>0, <1>5
    <3>2. /\ err => \/ runs'[r].st \in {"send", "rest"} /\ runs'[r].err
                    \/ timer'[o] \in {"send", "rest"}
          /\ \A x \in Object : timer[x] \in {"send", "rest"} => timer'[x] = timer[x]
      BY <2>1, <1>10
    <3>3. ASSUME bad'
          PROVE  \/ failed > 0
                 \/ \E q \in Run : runs'[q].st \in {"send", "rest"} /\ runs'[q].err
                 \/ \E x \in Object : timer'[x] \in {"send", "rest"}
      <4>1. CASE err
        BY <4>1, <3>2, <1>1
      <4>2. CASE bad
        BY <4>2, <3>1, <3>2, <1>T DEF FailInv
      <4> QED BY <3>3, <4>1, <4>2, <1>0
    <3> QED BY <3>3, <1>T, <1>0, <1>9 DEF FailInv, outcomeVars
  <2>2. CASE ~Clean
    BY <2>2, <1>T, <1>0, <1>9 DEF FailInv, outcomeVars
  <2> QED BY <2>1, <2>2
<1>12. ReturnInv'
  BY <1>T, <1>0 DEF ReturnInv, workerVars, outcomeVars
<1> QED BY <1>7, <1>8, <1>9, <1>10, <1>11, <1>12 DEF IInv

\* The timer finishes a task that runs: the object is in the timer's hands now.
LEMMA TimeoutInv ==
  ASSUME IInv, result # "panic", NEW o \in Object, TimeoutFinish(o)
  PROVE  IInv'
<1>T. TypeOK /\ UseInv /\ FailInv /\ ReturnInv
  BY DEF IInv
<1> DEFINE to == IF AfterFirst(o) = "done" THEN "off" ELSE AfterFirst(o)
<1>0. /\ timer[o] = "armed" /\ FinishFirst(o)
      /\ timer' = [timer EXCEPT ![o] = to]
      /\ bad' = (bad \/ ~finished[o])
      /\ UNCHANGED <<queue, workerVars, wg, poolVars, holder, runs, ran, outcomeVars,
                     cancelled, result>>
  BY DEF TimeoutFinish, SetTimer
<1>1. o \in 1 .. objects /\ o <= objects
  BY <1>T, <1>0, InUse DEF UseInv
<1>2. /\ timer \in [Object -> {"none", "armed", "send", "rest", "fired", "off"}]
      /\ bad \in BOOLEAN /\ finished \in [Object -> BOOLEAN]
  BY <1>T DEF TypeOK
<1>3. /\ dispatch' \in [User -> Nat]
      /\ finished' \in [Object -> BOOLEAN] /\ onFinish' \in [Object -> BOOLEAN]
      /\ \A x \in Object : x # o => finished'[x] = finished[x] /\ onFinish'[x] = onFinish[x]
      /\ finished'[o] = TRUE
      /\ finished[o] => onFinish'[o] = onFinish[o]
      /\ AfterFirst(o) \in {"done", "send", "rest"}
      /\ AfterFirst(o) = "done" <=> finished[o] \/ ~onFinish[o]
  BY <1>T, <1>0, <1>1, FinishFirstOK
<1>4. /\ to \in {"off", "send", "rest"}
      /\ ~finished[o] /\ onFinish[o] => to \in {"send", "rest"}
  BY <1>3
<1> HIDE DEF to
<1>6. /\ timer' \in [Object -> {"none", "armed", "send", "rest", "fired", "off"}]
      /\ timer'[o] = to /\ \A x \in Object : x # o => timer'[x] = timer[x]
      /\ bad' \in BOOLEAN
  BY <1>0, <1>2, <1>4
<1>7. TypeOK'
  BY <1>T, <1>0, <1>3, <1>6 DEF TypeOK, workerVars, poolVars, outcomeVars
<1>8. UseInv'
  BY <1>T, <1>0, <1>1, <1>6 DEF UseInv, Active, workerVars, poolVars
<1>9. Clean' <=> Clean
  BY <1>0, <1>4, <1>6 DEF Clean
<1>10. ASSUME Clean PROVE CleanInv' /\ timer'[o] \in {"send", "rest"}
  <2>0. HeldInv /\ PoolInv /\ RunInv /\ TimerInv /\ CountInv
    BY <1>10 DEF IInv, CleanInv
  <2>1. \A v \in Worker : hand[v] # o /\ pool[v][o] = 0
    BY <1>0, <1>1, <1>10, OneIsBusy DEF Quiet
  <2>2. timer'[o] \in {"send", "rest"}
    BY <1>0, <1>4, <1>6, <2>0 DEF TimerInv
  <2>3. \A q \in Run : Active(q)' <=> Active(q)
    BY <1>0 DEF Active
  <2>4. UNCHANGED <<hand, holder, pool, objects, wg, runs>>
    BY <1>0 DEF workerVars, poolVars
  <2>5. HeldInv'
    <3>1. \A v \in Worker : hand[v] # NoObject => hand[v] \in Object /\ hand[v] # o
      BY <1>T, <2>1 DEF TypeOK
    <3>2. \A v \in Worker : hand[v] # NoObject =>
            /\ timer'[hand[v]] = timer[hand[v]] /\ finished'[hand[v]] = finished[hand[v]]
            /\ onFinish'[hand[v]] = onFinish[hand[v]]
      BY <3>1, <1>3, <1>6
    <3> QED BY <3>2, <2>0, <2>3, <2>4 DEF HeldInv, Quiet
  <2>6. PoolInv'
    <3>1. \A v \in Worker, x \in Object : pool[v][x] # 0 =>
            /\ timer'[x] = timer[x] /\ finished'[x] = finished[x]
      BY <2>1, <1>3, <1>6
    <3> QED BY <3>1, <2>0, <2>3, <2>4 DEF PoolInv, Quiet
  <2>7. RunInv'
    <3>1. ASSUME NEW q \in Run, Active(q)
          PROVE  /\ runs[q].user = holder[runs[q].obj]
                 /\ IF runs[q].st = "running" /\ ~finished'[runs[q].obj]
                    THEN onFinish'[runs[q].obj] /\ timer'[runs[q].obj] \in {"none", "armed", "off"}
                    ELSE /\ finished'[runs[q].obj]
                         /\ IF runs[q].st = "running"
                            THEN timer'[runs[q].obj] \in {"send", "rest"}
                            ELSE timer'[runs[q].obj] \in {"none", "off"}
      <4>0. runs[q].obj \in Object
        BY <3>1, <1>T, InUse DEF UseInv
      <4>1. CASE runs[q].obj = o
        <5>1. runs[q].user = holder[o] /\ runs[q].st = "running"
          BY <4>1, <3>1, <1>0, <2>0 DEF RunInv, Quiet
        <5> QED BY <4>1, <5>1, <2>2, <1>3
      <4>2. CASE runs[q].obj # o
        <5>1. /\ finished'[runs[q].obj] = finished[runs[q].obj]
              /\ onFinish'[runs[q].obj] = onFinish[runs[q].obj]
              /\ timer'[runs[q].obj] = timer[runs[q].obj]
          BY <4>0, <4>2, <1>3, <1>6
        <5> QED BY <5>1, <3>1, <2>0 DEF RunInv, Quiet
      <4> QED BY <4>1, <4>2
    <3> QED BY <3>1, <2>0, <2>3, <2>4 DEF RunInv, Quiet
  <2>8. TimerInv'
    BY <2>0, <2>2, <1>3, <1>6 DEF TimerInv
  <2>9. CountInv'
    <3>1. \A v : Busy(v)' = Busy(v)
      BY <2>4 DEF Busy
    <3> QED BY <3>1, <2>0, <2>4 DEF CountInv
  <2> QED BY <2>2, <2>5, <2>6, <2>7, <2>8, <2>9 DEF CleanInv
<1>11. FailInv'
  <2>1. CASE Clean
    BY <2>1, <1>10, <1>T, <1>0, <1>9 DEF FailInv, outcomeVars
  <2>2. CASE ~Clean
    BY <2>2, <1>T, <1>0, <1>9 DEF FailInv, outcomeVars
  <2> QED BY <2>1, <2>2
<1>12. ReturnInv'
  BY <1>T, <1>0 DEF ReturnInv, workerVars, outcomeVars
<1> QED BY <1>7, <1>8, <1>9, <1>10, <1>11, <1>12 DEF IInv

\* The rest of onFinishFunc: what it does to the counters and to the pool.
LEMMA FinishRestOK ==
  ASSUME TypeOK, UseInv, NEW o \in 1 .. objects, NEW err \in BOOLEAN, FinishRest(o, err)
  PROVE  LET w == WorkerOf(holder[o])
         IN  /\ w \in Worker /\ o \in Object
             /\ failed' \in Nat /\ failed' >= failed /\ (err => failed' > 0)
             /\ broke' \in BOOLEAN /\ (broke' => broke \/ err)
             /\ ~err => failed' = failed
             /\ wg' \in [Worker -> Nat] /\ wg'[w] = IF wg[w] = 0 THEN 0 ELSE wg[w] - 1
             /\ \A v \in Worker : v # w => wg'[v] = wg[v]
             /\ result' = IF wg[w] = 0 THEN "panic" ELSE result
             /\ pool' \in [Worker -> [Object -> Nat]]
             /\ \A v \in Worker, x \in Object : v # w \/ x # o => pool'[v][x] = pool[v][x]
             /\ pool'[w][o] = pool[w][o] + 1
<1> DEFINE w == WorkerOf(holder[o])
<1>1. o \in Object /\ o <= objects
  BY InUse
<1>2. w \in Worker
  BY <1>1, ParamsOK DEF UseInv
<1>3. /\ failed' = (IF err THEN failed + 1 ELSE failed)
      /\ broke' = (broke \/ (err /\ ErrorBreak))
      /\ wg' = [wg EXCEPT ![w] = IF @ = 0 THEN 0 ELSE @ - 1]
      /\ result' = IF wg[w] = 0 THEN "panic" ELSE result
      /\ pool' = [pool EXCEPT ![w] = [pool[w] EXCEPT ![o] = @ + 1]]
  BY DEF FinishRest
<1>4. /\ failed \in Nat /\ broke \in BOOLEAN /\ wg \in [Worker -> Nat]
      /\ pool \in [Worker -> [Object -> Nat]]
  BY DEF TypeOK
<1> HIDE DEF w
<1>5. /\ failed' \in Nat /\ failed' >= failed /\ (err => failed' > 0)
      /\ (~err => failed' = failed)
  BY <1>3, <1>4
<1>6. broke' \in BOOLEAN /\ (broke' => broke \/ err)
  BY <1>3, <1>4, CaseAssumption
<1>7. /\ wg' \in [Worker -> Nat] /\ wg'[w] = (IF wg[w] = 0 THEN 0 ELSE wg[w] - 1)
      /\ \A v \in Worker : v # w => wg'[v] = wg[v]
  <2>1. wg[w] \in Nat /\ (IF wg[w] = 0 THEN 0 ELSE wg[w] - 1) \in Nat
    BY <1>2, <1>4
  <2> QED BY <2>1, <1>2, <1>3, <1>4
<1>8. pool[w] \in [Object -> Nat] /\ [pool[w] EXCEPT ![o] = @ + 1] \in [Object -> Nat]
  BY <1>1, <1>2, <1>4
<1>9. /\ pool' \in [Worker -> [Object -> Nat]]
      /\ pool'[w] = [pool[w] EXCEPT ![o] = @ + 1]
      /\ \A v \in Worker : v # w => pool'[v] = pool[v]
  BY <1>2, <1>3, <1>4, <1>8
<1>10. /\ \A x \in Object : x # o => pool'[w][x] = pool[w][x]
       /\ pool'[w][o] = pool[w][o] + 1
  BY <1>1, <1>8, <1>9
<1>11. \A v \in Worker, x \in Object : v # w \/ x # o => pool'[v][x] = pool[v][x]
  BY <1>9, <1>10
<1> QED BY <1>1, <1>2, <1>3, <1>5, <1>6, <1>7, <1>9, <1>10, <1>11 DEF w

\* A run is over: its object is in the pool, once, and nobody else has it.
LEMMA RestInv ==
  ASSUME IInv, result # "panic", NEW r \in Run, RunRest(r)
  PROVE  IInv'
<1> DEFINE o == runs[r].obj
           err == runs[r].err
           w == WorkerOf(holder[o])
<1>T. TypeOK /\ UseInv /\ FailInv /\ ReturnInv
  BY DEF IInv
<1>0. /\ runs[r].st = "rest" /\ FinishRest(o, err)
      /\ runs' = [runs EXCEPT ![r] = NoRun]
      /\ UNCHANGED <<dispatch, queue, workerVars, objects, objectVars, countVars, cancelled>>
  BY DEF RunRest, SetRun
<1>1. Active(r) /\ o \in 1 .. objects /\ o \in Object
  BY <1>T, <1>0, InUse DEF UseInv, Active
<1>2. /\ runs \in [Run -> RunRecord] /\ failed \in Nat
      /\ result \in {"none", "cancelled", "failed", "success"}
  BY <1>T DEF TypeOK
<1>3. err \in BOOLEAN
  BY <1>2 DEF RunRecord
<1>4. /\ w \in Worker
      /\ failed' \in Nat /\ failed' >= failed /\ (err => failed' > 0)
      /\ broke' \in BOOLEAN /\ (broke' => broke \/ err)
      /\ ~err => failed' = failed
      /\ wg' \in [Worker -> Nat] /\ wg'[w] = (IF wg[w] = 0 THEN 0 ELSE wg[w] - 1)
      /\ \A v \in Worker : v # w => wg'[v] = wg[v]
      /\ result' = (IF wg[w] = 0 THEN "panic" ELSE result)
      /\ pool' \in [Worker -> [Object -> Nat]]
      /\ \A v \in Worker, x \in Object : v # w \/ x # o => pool'[v][x] = pool[v][x]
      /\ pool'[w][o] = pool[w][o] + 1
  BY <1>0, <1>1, <1>3, <1>T, FinishRestOK
<1> HIDE DEF o, err, w
<1>5. /\ runs'[r] = NoRun /\ \A q \in Run : q # r => runs'[q] = runs[q]
      /\ runs' \in [Run -> RunRecord]
  <2>1. NoRun \in RunRecord
    BY DEF NoRun, RunRecord
  <2> QED BY <2>1, <1>0, <1>2
<1>6. NoRun.st = "none" /\ ~Active(r)' /\ \A q \in Run : q # r => (Active(q)' <=> Active(q))
  BY <1>5 DEF NoRun, Active
<1>7. TypeOK'
  BY <1>T, <1>0, <1>2, <1>4, <1>5 DEF TypeOK, workerVars, objectVars, countVars
<1>8. UseInv'
  <2>1. ASSUME NEW q \in Run
        PROVE  IF Active(q)' THEN runs'[q].obj \in 1 .. objects ELSE runs'[q] = NoRun
    BY <1>T, <1>5, <1>6 DEF UseInv
  <2>2. ASSUME NEW x \in Object, ~(x <= objects)
        PROVE  \A v \in Worker : pool'[v][x] = 0
    <3>1. x # o
      BY <2>2, <1>1, <1>T, InUse
    <3> QED BY <2>2, <3>1, <1>T, <1>4 DEF UseInv
  <2> QED BY <2>1, <2>2, <1>T, <1>0 DEF UseInv, workerVars, objectVars
<1>9. Clean' <=> Clean
  BY <1>0 DEF Clean, objectVars
<1>10. ASSUME Clean PROVE CleanInv' /\ wg[w] > 0 /\ result # "success"
  <2>0. HeldInv /\ PoolInv /\ RunInv /\ TimerInv /\ CountInv
    BY <1>10 DEF IInv, CleanInv
  <2>1. /\ \A v \in Worker : hand[v] # o /\ pool[v][o] = 0
        /\ o \in Busy(w) /\ wg[w] > 0 /\ result # "success"
    BY <1>1, <1>10, OneIsBusy DEF o, w
  <2>2. /\ finished[o] /\ Quiet(o)
        /\ \A q \in Run : Active(q) /\ q # r => runs[q].obj # o
    BY <1>0, <1>1, <2>0 DEF RunInv, o
  <2>3. UNCHANGED <<hand, holder, finished, onFinish, timer, objects>>
    BY <1>0 DEF workerVars, objectVars
  <2>4. HeldInv'
    <3> SUFFICES ASSUME NEW v \in Worker, hand[v] # NoObject
                 PROVE  /\ WorkerOf(holder[hand[v]]) = v
                        /\ ~finished[hand[v]] /\ onFinish[hand[v]] /\ Quiet(hand[v])
                        /\ \A x \in Worker : pool'[x][hand[v]] = 0
                        /\ \A q \in Run : Active(q)' => runs'[q].obj # hand[v]
      BY <2>3 DEF HeldInv, Quiet
    <3>1. hand[v] \in Object /\ hand[v] # o
      BY <1>T, <2>1 DEF TypeOK
    <3>2. /\ WorkerOf(holder[hand[v]]) = v
          /\ ~finished[hand[v]] /\ onFinish[hand[v]] /\ Quiet(hand[v])
          /\ \A x \in Worker : pool[x][hand[v]] = 0
          /\ \A q \in Run : Active(q) => runs[q].obj # hand[v]
      BY <2>0 DEF HeldInv
    <3> QED BY <3>1, <3>2, <1>4, <1>5, <1>6
  <2>5. PoolInv'
    <3> SUFFICES ASSUME NEW v \in Worker, NEW x \in Object, pool'[v][x] # 0
                 PROVE  /\ pool'[v][x] = 1 /\ WorkerOf(holder[x]) = v
                        /\ finished[x] /\ Quiet(x)
                        /\ \A q \in Run : Active(q)' => runs'[q].obj # x
      BY <2>3 DEF PoolInv, Quiet
    <3>1. CASE x = o
      <4>1. v = w /\ pool'[v][x] = 1
        BY <3>1, <2>1, <1>4
      <4>2. \A q \in Run : Active(q)' => runs'[q].obj # o
        BY <2>2, <1>5, <1>6
      <4> QED BY <3>1, <4>1, <4>2, <2>2 DEF w
    <3>2. CASE x # o
      <4>1. pool'[v][x] = pool[v][x]
        BY <3>2, <1>4
      <4>2. /\ pool[v][x] = 1 /\ WorkerOf(holder[x]) = v
            /\ finished[x] /\ Quiet(x)
            /\ \A q \in Run : Active(q) => runs[q].obj # x
        BY <4>1, <2>0 DEF PoolInv
      <4> QED BY <4>1, <4>2, <1>5, <1>6
    <3> QED BY <3>1, <3>2
  <2>6. RunInv'
    <3>1. \A q \in Run : Active(q)' => q # r /\ Active(q) /\ runs'[q] = runs[q]
      BY <1>5, <1>6
    <3>2. \A p, q \in Run : Active(p)' /\ Active(q)' /\ runs'[p].obj = runs'[q].obj => p = q
      BY <3>1, <2>0 DEF RunInv
    <3>3. ASSUME NEW q \in Run, Active(q)'
          PROVE  /\ runs'[q].user = holder[runs'[q].obj]
                 /\ IF runs'[q].st = "running" /\ ~finished[runs'[q].obj]
                    THEN onFinish[runs'[q].obj] /\ timer[runs'[q].obj] \in {"none", "armed", "off"}
                    ELSE /\ finished[runs'[q].obj]
                         /\ IF runs'[q].st = "running"
                            THEN timer[runs'[q].obj] \in {"send", "rest"}
                            ELSE timer[runs'[q].obj] \in {"none", "off"}
      BY <3>1, <3>3, <2>0 DEF RunInv, Quiet
    <3> QED BY <3>2, <3>3, <2>3 DEF RunInv, Quiet
  <2>7. TimerInv'
    BY <2>0, <2>3 DEF TimerInv
  <2>8. CountInv'
    <3>1. \A v \in Worker : v # w => Busy(v)' = Busy(v)
      <4>1. ASSUME NEW v \in Worker, v # w PROVE Busy(v)' = Busy(v)
        <5>1. \A x \in 1 .. objects : pool'[v][x] = pool[v][x]
          BY <4>1, <1>4, <1>T, InUse
        <5> QED BY <5>1, <2>3 DEF Busy
      <4> QED BY <4>1
    <3>2. ASSUME NEW v \in Worker, v = w PROVE Busy(v)' = Busy(v) \ {o}
      <4>1. \A x \in 1 .. objects : x # o => pool'[v][x] = pool[v][x]
        BY <3>2, <1>4, <1>T, InUse
      <4>2. pool'[v][o] # 0
        BY <3>2, <2>1, <1>4
      <4>3. \A x : x \in Busy(v)' <=> x \in Busy(v) /\ x # o
        BY <4>1, <4>2, <2>3 DEF Busy
      <4> QED BY <4>3
    <3>3. ASSUME NEW v \in Worker, v = w
          PROVE  Cardinality(Busy(v)') = Cardinality(Busy(v)) - 1
      <4>1. o \in Busy(v) /\ IsFiniteSet(Busy(v))
        BY <3>3, <2>1, <1>T, BusyFinite
      <4> QED BY <3>2, <3>3, <4>1, FS_RemoveElement
    <3>4. ASSUME NEW v \in Worker PROVE wg'[v] = Cardinality(Busy(v)')
      <4>1. CASE v = w
        BY <4>1, <3>3, <2>0, <2>1, <1>4 DEF CountInv
      <4>2. CASE v # w
        BY <4>2, <3>1, <2>0, <1>4 DEF CountInv
      <4> QED BY <4>1, <4>2
    <3> QED BY <3>4 DEF CountInv
  <2> QED BY <2>1, <2>4, <2>5, <2>6, <2>7, <2>8 DEF CleanInv
<1>11. FailInv'
  <2>1. broke' \/ ~Clean' => failed' > 0
    BY <1>T, <1>2, <1>4, <1>9 DEF FailInv
  <2>2. ASSUME bad
        PROVE  \/ failed' > 0
               \/ \E q \in Run : runs'[q].st \in {"send", "rest"} /\ runs'[q].err
               \/ \E x \in Object : timer[x] \in {"send", "rest"}
    <3>1. CASE failed > 0 \/ err
      BY <3>1, <1>2, <1>4
    <3>2. ASSUME NEW q \in Run, runs[q].st \in {"send", "rest"}, runs[q].err, ~err
          PROVE  runs'[q].st \in {"send", "rest"} /\ runs'[q].err
      <4>1. q # r
        BY <3>2 DEF err
      <4> QED BY <4>1, <3>2, <1>5
    <3> QED BY <3>1, <3>2, <2>2, <1>T DEF FailInv
  <2> QED BY <2>1, <2>2, <1>0 DEF FailInv, countVars, objectVars
<1>12. ReturnInv'
  <2>1. result' # "success"
    <3>1. ASSUME result = "success" PROVE FALSE
      <4>1. failed = 0
        BY <3>1, <1>T DEF ReturnInv
      <4>2. Clean
        BY <4>1, <1>T DEF FailInv
      <4> QED BY <3>1, <4>2, <1>10
    <3> QED BY <3>1, <1>4
  <2>2. \A v \in Worker : wg[v] = 0 => wg'[v] = 0
    BY <1>4
  <2>3. failed > 0 => failed' > 0
    BY <1>2, <1>4
  <2> QED BY <2>1, <2>2, <2>3, <1>T, <1>0 DEF ReturnInv, workerVars
<1> QED BY <1>7, <1>8, <1>9, <1>10, <1>11, <1>12 DEF IInv

\* The timer's Finish is over: it has counted a failure, and from then on two
\* runs may share the object.
LEMMA TimerRestInv ==
  ASSUME IInv, result # "panic", NEW o \in Object, TimerRest(o)
  PROVE  IInv'
<1> DEFINE w == WorkerOf(holder[o])
<1>T. TypeOK /\ UseInv /\ FailInv /\ ReturnInv
  BY DEF IInv
<1>0. /\ timer[o] = "rest" /\ FinishRest(o, TRUE)
      /\ timer' = [timer EXCEPT ![o] = "fired"]
      /\ UNCHANGED <<dispatch, queue, workerVars, objects, holder, finished,
                     onFinish, runs, countVars, cancelled>>
  BY DEF TimerRest, SetTimer
<1>1. o \in 1 .. objects
  BY <1>T, <1>0, InUse DEF UseInv
<1>2. /\ timer \in [Object -> {"none", "armed", "send", "rest", "fired", "off"}]
      /\ result \in {"none", "cancelled", "failed", "success"}
  BY <1>T DEF TypeOK
<1>4. /\ w \in Worker
      /\ failed' \in Nat /\ failed' > 0
      /\ broke' \in BOOLEAN
      /\ wg' \in [Worker -> Nat] /\ wg'[w] = (IF wg[w] = 0 THEN 0 ELSE wg[w] - 1)
      /\ \A v \in Worker : v # w => wg'[v] = wg[v]
      /\ result' = (IF wg[w] = 0 THEN "panic" ELSE result)
      /\ pool' \in [Worker -> [Object -> Nat]]
      /\ \A v \in Worker, x \in Object : x # o => pool'[v][x] = pool[v][x]
  BY <1>0, <1>1, <1>T, FinishRestOK
<1> HIDE DEF w
<1>5. /\ timer' \in [Object -> {"none", "armed", "send", "rest", "fired", "off"}]
      /\ timer'[o] = "fired" /\ \A x \in Object : x # o => timer'[x] = timer[x]
  BY <1>0, <1>2
<1>6. TypeOK'
  BY <1>T, <1>0, <1>2, <1>4, <1>5 DEF TypeOK, workerVars, countVars
<1>7. UseInv'
  <2>1. ASSUME NEW x \in Object, ~(x <= objects)
        PROVE  timer'[x] = "none" /\ \A v \in Worker : pool'[v][x] = 0
    <3>1. x # o
      BY <2>1, <1>1, <1>T, InUse
    <3>2. timer[x] = "none" /\ \A v \in Worker : pool[v][x] = 0
      BY <2>1, <1>T DEF UseInv
    <3>3. \A v \in Worker : pool'[v][x] = pool[v][x]
      BY <3>1, <1>4
    <3> QED BY <3>1, <3>2, <3>3, <1>5
  <2> QED BY <2>1, <1>T, <1>0 DEF UseInv, Active, workerVars
<1>8. ~Clean'
  BY <1>5 DEF Clean
<1>9. FailInv'
  BY <1>4 DEF FailInv
<1>10. ReturnInv'
  <2>1. ASSUME result = "success" PROVE FALSE
    <3>1. failed = 0
      BY <2>1, <1>T DEF ReturnInv
    <3>2. Clean
      BY <3>1, <1>T DEF FailInv
    <3> QED BY <2>1, <3>2, <1>0, <1>1, OneIsBusy DEF Quiet
  <2> QED BY <2>1, <1>4 DEF ReturnInv
<1> QED BY <1>6, <1>7, <1>8, <1>9, <1>10 DEF IInv

\* Every step preserves the invariant.
LEMMA NextInv == IInv /\ [Next]_vars => IInv'
<1> SUFFICES ASSUME IInv, [Next]_vars PROVE IInv'
  OBVIOUS
<1>1. CASE UNCHANGED vars
  <2>1. TypeOK' /\ UseInv'
    BY <1>1 DEF vars, IInv, TypeOK, UseInv, Active
  <2>2. Clean' => CleanInv'
    BY <1>1, TasksAlone DEF vars, poolVars, objectVars
  <2>3. FailInv' /\ ReturnInv'
    BY <1>1 DEF vars, IInv, FailInv, ReturnInv, Clean
  <2> QED BY <2>1, <2>2, <2>3 DEF IInv
<1>2. CASE Next
  <2>0. result # "panic"
    BY <1>2 DEF Next
  <2>1. ASSUME NEW w \in Worker, WorkerStep(w) PROVE IInv'
    BY <2>0, <2>1, WorkerPass, ReceiveInv, RunTaskInv DEF WorkerStep
  <2>2. ASSUME NEW r \in Run, RunStep(r) \/ RunAwaits(r) PROVE IInv'
    BY <2>0, <2>2, ReturnStepInv, SendInv, RestInv, AwaitInv DEF RunStep
  <2>3. ASSUME NEW o \in Object, TimerStep(o) PROVE IInv'
    BY <2>0, <2>3, TimeoutInv, SendInv, TimerRestInv DEF TimerStep
  <2>4. ASSUME Cancel \/ CaseReturn PROVE IInv'
    BY <2>0, <2>4, EndSteps
  <2> QED BY <1>2, <2>1, <2>2, <2>3, <2>4 DEF Next
<1> QED BY <1>1, <1>2

\* What the objects, the runs and the timers of a case are used for, and, until
\* a timer has completed a Finish, that each object is in one place.
THEOREM TasksInvariant == Spec => []IInv
BY InitInv, NextInv, PTL DEF Spec

\* When RunCaseInner has reported success no run is left, no timer has finished
\* a task, and none has failed, however runs and timers finish each other's objects.
LEMMA SuccessIsQuiet ==
  ASSUME IInv, result = "success"
  PROVE  ~bad /\ ~Late /\ \A r \in Run : runs[r] = NoRun
<1>0. TypeOK /\ UseInv /\ FailInv /\ ReturnInv
  BY DEF IInv
<1>1. failed = 0 /\ ~(failed > 0)
  BY <1>0 DEF ReturnInv
<1>2. Clean
  BY <1>0, <1>1 DEF FailInv
<1>3. \A o \in 1 .. objects : Quiet(o) /\ \A r \in Run : Active(r) => runs[r].obj # o
  BY <1>2, OneIsBusy
<1>4. \A r \in Run : ~Active(r)
  BY <1>0, <1>3 DEF UseInv
<1>5. \A o \in Object : Quiet(o)
  BY <1>0, <1>3, InUse DEF UseInv, Quiet
<1>6. ~bad
  BY <1>0, <1>1, <1>4, <1>5 DEF FailInv, Active, Quiet
<1>7. ~Late
  BY <1>5 DEF Late, Quiet
<1> QED BY <1>0, <1>4, <1>6, <1>7 DEF UseInv
-----------------------------------------------------------------------------
(* The refinement.  What CaseDispatch counts, as functions of the queues   *)
(* and of the runs.                                                        *)

Outcome == {"ok", "err"}

IsErr(out) == out = "err"

At(R, r, u, l) == R[r].user = u /\ R[r].st = l

AtWith(R, r, u, l, out) == R[r].user = u /\ R[r].st = l /\ R[r].err = IsErr(out)

One(R, r, u, l) == IF At(R, r, u, l) THEN 1 ELSE 0

OneWith(R, r, u, l, out) == IF AtWith(R, r, u, l, out) THEN 1 ELSE 0

Occurrences(s, u) == Cardinality({i \in DOMAIN s : s[i] = u})

CountAt(R, u, l) == Cardinality({r \in Run : At(R, r, u, l)})

CountOutcome(R, u, l, out) == Cardinality({r \in Run : AtWith(R, r, u, l, out)})

\* The parameters of the two specifications are the same.
LEMMA SameParams ==
  /\ Dispatch!User = User /\ Dispatch!NoUser = NoUser /\ Dispatch!Worker = Worker
  /\ Dispatch!InitialRounds = InitialRounds /\ Dispatch!ChannelCap = ChannelCap
  /\ Dispatch!Outcome = Outcome
  /\ \A u : Dispatch!WorkerOf(u) = WorkerOf(u)
  /\ \A w : Dispatch!UsersOf(w) = UsersOf(w)
  /\ \A w : Dispatch!TotalTasks(w) = TotalTasks(w)
  /\ \A n : Dispatch!RunsLeft(n) <=> RunsLeft(n)
  /\ \A S : Dispatch!Cardinality(S) = Cardinality(S)
<1>0. ASSUME NEW S PROVE Dispatch!Cardinality(S) = Cardinality(S)
  <2>1. Dispatch!IsFiniteSet(S) <=> IsFiniteSet(S)
    BY DEF Dispatch!IsFiniteSet, IsFiniteSet
  <2> QED BY <2>1 DEF Dispatch!Cardinality, Cardinality
<1>1. Dispatch!WorkerCount = WorkerCount /\ Dispatch!BatchSize = BatchSize
  BY DEF Dispatch!WorkerCount, WorkerCount, Dispatch!BatchSize, BatchSize
<1>2. Dispatch!User = User
  BY DEF Dispatch!User, User
<1>3. \A u : Dispatch!WorkerOf(u) = WorkerOf(u)
  BY <1>1 DEF Dispatch!WorkerOf, WorkerOf
<1>4. \A w : Dispatch!UsersOf(w) = UsersOf(w)
  BY <1>2, <1>3 DEF Dispatch!UsersOf, UsersOf
<1> QED BY <1>0, <1>1, <1>2, <1>3, <1>4
        DEF Dispatch!NoUser, NoUser, Dispatch!Worker, Worker, Dispatch!InitialRounds,
            InitialRounds, Dispatch!ChannelCap, ChannelCap, Dispatch!Outcome, Outcome,
            Dispatch!TotalTasks, TotalTasks, Dispatch!RunsLeft, RunsLeft

Counted ==
  /\ due = [u \in User |-> Occurrences(queue[WorkerOf(u)], u)]
  /\ running = [u \in User |-> CountAt(runs, u, "running")]
  /\ sending = [u \in User |-> [out \in Outcome |-> CountOutcome(runs, u, "send", out)]]
  /\ resting = [u \in User |-> [out \in Outcome |-> CountOutcome(runs, u, "rest", out)]]

\* The refinement mapping counts places and runs.
LEMMA MapDefs == Counted
<1>1. \A u \in User : Cardinality(PlacesOf(u)) = Occurrences(queue[WorkerOf(u)], u)
  BY DEF PlacesOf, Occurrences
<1>2. \A u, l : Cardinality(RunsAt(u, l)) = CountAt(runs, u, l)
  BY DEF RunsAt, CountAt, At
<1>4. ASSUME NEW u, NEW l, NEW out
      PROVE  Cardinality({r \in RunsAt(u, l) : runs[r].err = (out = "err")})
               = CountOutcome(runs, u, l, out)
  <2> DEFINE e == IsErr(out)
             A == {r \in RunsAt(u, l) : runs[r].err = e}
             B == {r \in Run : runs[r].user = u /\ runs[r].st = l /\ runs[r].err = e}
  <2>2. CountOutcome(runs, u, l, out) = Cardinality(B)
    BY DEF CountOutcome, AtWith
  <2> HIDE DEF e
  <2>1. A = B
    BY DEF RunsAt
  <2> HIDE DEF A, B
  <2>3. CountOutcome(runs, u, l, out) = Cardinality(A)
    BY <2>1, <2>2
  <2> QED BY <2>3 DEF A, e, IsErr
<1>5. \A u, l : ByOutcome(u, l) = [out \in Outcome |-> CountOutcome(runs, u, l, out)]
  BY <1>4 DEF ByOutcome, Outcome
<1> QED BY <1>1, <1>2, <1>5 DEF Counted, due, running, sending, resting

LEMMA MapDefsNext == Counted'
BY MapDefs, PTL

\* Two parts of a finite set that differ in at most one element.
LEMMA CountChange ==
  ASSUME NEW A, IsFiniteSet(A), NEW S \in SUBSET A, NEW T \in SUBSET A, NEW x,
         \A y \in A : y # x => (y \in S <=> y \in T)
  PROVE  /\ Cardinality(S) \in Nat /\ Cardinality(T) \in Nat
         /\ (x \in S <=> x \in T) => Cardinality(T) = Cardinality(S)
         /\ x \notin S /\ x \in T => Cardinality(T) = Cardinality(S) + 1
         /\ x \in S /\ x \notin T => Cardinality(T) = Cardinality(S) - 1
         /\ x \in S => Cardinality(S) > 0
<1>1. /\ IsFiniteSet(S) /\ IsFiniteSet(T)
      /\ Cardinality(S) \in Nat /\ Cardinality(T) \in Nat
  BY FS_Subset, FS_CardinalityType
<1>2. (x \in S <=> x \in T) => S = T
  OBVIOUS
<1>3. ASSUME x \notin S, x \in T PROVE Cardinality(T) = Cardinality(S) + 1
  <2>1. T = S \cup {x}
    BY <1>3
  <2> QED BY <2>1, <1>1, <1>3, FS_AddElement
<1>4. ASSUME x \in S, x \notin T PROVE Cardinality(T) = Cardinality(S) - 1
  <2>1. T = S \ {x}
    BY <1>4
  <2> QED BY <2>1, <1>1, <1>4, FS_RemoveElement
<1>5. x \in S => Cardinality(S) > 0
  BY <1>1, FS_EmptySet
<1> QED BY <1>1, <1>2, <1>3, <1>4, <1>5

\* The counts of the runs after one of them has changed.
LEMMA RunCounts ==
  ASSUME NEW R, NEW Q, NEW r \in Run, \A x \in Run : x # r => Q[x] = R[x], NEW u, NEW l
  PROVE  /\ CountAt(R, u, l) \in Nat
         /\ CountAt(Q, u, l) = CountAt(R, u, l) + One(Q, r, u, l)
                                                - One(R, r, u, l)
         /\ At(R, r, u, l) => CountAt(R, u, l) > 0
<1> DEFINE S == {x \in Run : At(R, x, u, l)}
           T == {x \in Run : At(Q, x, u, l)}
<1>1. IsFiniteSet(Run) /\ S \in SUBSET Run /\ T \in SUBSET Run
  BY ObjectsOK
<1>2. CountAt(R, u, l) = Cardinality(S) /\ CountAt(Q, u, l) = Cardinality(T)
  BY DEF CountAt
<1>3. \A y \in Run : y # r => (y \in S <=> y \in T)
  BY DEF At
<1>4. (r \in S <=> At(R, r, u, l)) /\ (r \in T <=> At(Q, r, u, l))
  OBVIOUS
<1> HIDE DEF S, T
<1>5. /\ Cardinality(S) \in Nat /\ Cardinality(T) \in Nat
      /\ (r \in S <=> r \in T) => Cardinality(T) = Cardinality(S)
      /\ r \notin S /\ r \in T => Cardinality(T) = Cardinality(S) + 1
      /\ r \in S /\ r \notin T => Cardinality(T) = Cardinality(S) - 1
      /\ r \in S => Cardinality(S) > 0
  BY <1>1, <1>3, CountChange
<1> QED BY <1>2, <1>4, <1>5 DEF One

LEMMA OutcomeCounts ==
  ASSUME NEW R, NEW Q, NEW r \in Run, \A x \in Run : x # r => Q[x] = R[x],
         NEW u, NEW l, NEW out
  PROVE  /\ CountOutcome(R, u, l, out) \in Nat
         /\ CountOutcome(Q, u, l, out) = CountOutcome(R, u, l, out)
              + OneWith(Q, r, u, l, out)
              - OneWith(R, r, u, l, out)
         /\ AtWith(R, r, u, l, out) => CountOutcome(R, u, l, out) > 0
<1> DEFINE S == {x \in Run : AtWith(R, x, u, l, out)}
           T == {x \in Run : AtWith(Q, x, u, l, out)}
<1>1. IsFiniteSet(Run) /\ S \in SUBSET Run /\ T \in SUBSET Run
  BY ObjectsOK
<1>2. /\ CountOutcome(R, u, l, out) = Cardinality(S)
      /\ CountOutcome(Q, u, l, out) = Cardinality(T)
  BY DEF CountOutcome
<1>3. \A y \in Run : y # r => (y \in S <=> y \in T)
  BY DEF AtWith
<1>4. (r \in S <=> AtWith(R, r, u, l, out)) /\ (r \in T <=> AtWith(Q, r, u, l, out))
  OBVIOUS
<1> HIDE DEF S, T
<1>5. /\ Cardinality(S) \in Nat /\ Cardinality(T) \in Nat
      /\ (r \in S <=> r \in T) => Cardinality(T) = Cardinality(S)
      /\ r \notin S /\ r \in T => Cardinality(T) = Cardinality(S) + 1
      /\ r \in S /\ r \notin T => Cardinality(T) = Cardinality(S) - 1
      /\ r \in S => Cardinality(S) > 0
  BY <1>1, <1>3, CountChange
<1> QED BY <1>2, <1>4, <1>5 DEF OneWith

\* The channel without its first element, and with one more at its end.
LEMMA QueueCounts ==
  ASSUME NEW s \in Seq(User), NEW u, NEW v
  PROVE  /\ Occurrences(s, u) \in Nat
         /\ s # <<>> => Occurrences(Tail(s), u) =
                          Occurrences(s, u) - (IF Head(s) = u THEN 1 ELSE 0)
         /\ s # <<>> /\ Head(s) = u => Occurrences(s, u) > 0
         /\ v \in User => Occurrences(Append(s, v), u) =
                            Occurrences(s, u) + (IF v = u THEN 1 ELSE 0)
<1> DEFINE P == {i \in DOMAIN s : s[i] = u}
<1>1. DOMAIN s = 1 .. Len(s) /\ Len(s) \in Nat
  OBVIOUS
<1>2. IsFiniteSet(DOMAIN s)
  BY <1>1, FS_Interval
<1>3. IsFiniteSet(P) /\ Cardinality(P) \in Nat /\ Occurrences(s, u) = Cardinality(P)
  BY <1>2, FS_Subset, FS_CardinalityType DEF Occurrences
<1>4. ASSUME s # <<>>
      PROVE  /\ Occurrences(Tail(s), u) = Occurrences(s, u) - (IF Head(s) = u THEN 1 ELSE 0)
             /\ Head(s) = u => Occurrences(s, u) > 0
  <2> DEFINE T == {i \in DOMAIN Tail(s) : Tail(s)[i] = u}
             f == [i \in T |-> i + 1]
  <2>1. /\ Len(Tail(s)) = Len(s) - 1 /\ DOMAIN Tail(s) = 1 .. Len(s) - 1
        /\ \A i \in 1 .. Len(s) - 1 : Tail(s)[i] = s[i + 1]
        /\ Head(s) = s[1] /\ Len(s) > 0
    BY <1>4
  <2>2. \A i \in T : i \in Int /\ i + 1 \in P \ {1}
    BY <2>1, <1>1
  <2>3. \A k \in P \ {1} : k - 1 \in T /\ (k - 1) + 1 = k
    BY <2>1, <1>1
  <2> HIDE DEF T
  <2>4. f \in Bijection(T, P \ {1})
    <3>1. f \in [T -> P \ {1}]
      BY <2>2
    <3>2. \A a, b \in T : f[a] = f[b] => a = b
      BY <2>2
    <3>3. \A k \in P \ {1} : \E a \in T : f[a] = k
      BY <2>3
    <3> QED BY <3>1, <3>2, <3>3 DEF Bijection, Injection, Surjection, IsInjective
  <2>5. 1 \in P <=> Head(s) = u
    BY <2>1, <1>1
  <2> HIDE DEF P, f
  <2>6. IsFiniteSet(P \ {1}) /\ Cardinality(P \ {1}) = Cardinality(P) - (IF 1 \in P THEN 1 ELSE 0)
    BY <1>3, FS_RemoveElement
  <2>7. f \in Injection(T, P \ {1}) /\ f \in Surjection(T, P \ {1})
    BY <2>4 DEF Bijection
  <2>8. Cardinality(T) = Cardinality(P \ {1})
    BY <2>6, <2>7, FS_Injection
  <2>9. Occurrences(Tail(s), u) = Cardinality(T)
    BY DEF Occurrences, T
  <2>10. 1 \in P => Cardinality(P) > 0
    BY <1>3, FS_EmptySet
  <2> QED BY <2>5, <2>6, <2>8, <2>9, <2>10, <1>3
<1>5. ASSUME v \in User
      PROVE  Occurrences(Append(s, v), u) = Occurrences(s, u) + (IF v = u THEN 1 ELSE 0)
  <2> DEFINE n == Len(s) + 1
             A == {i \in DOMAIN Append(s, v) : Append(s, v)[i] = u}
  <2>1. /\ DOMAIN Append(s, v) = 1 .. n
        /\ Append(s, v)[n] = v /\ \A i \in 1 .. Len(s) : Append(s, v)[i] = s[i]
    BY <1>5, <1>1
  <2>2. n \notin P /\ (v = u => A = P \cup {n}) /\ (v # u => A = P)
    BY <2>1, <1>1
  <2>3. Occurrences(Append(s, v), u) = Cardinality(A)
    BY DEF Occurrences
  <2> HIDE DEF n, A, P
  <2> QED BY <2>2, <2>3, <1>3, FS_AddElement
<1> QED BY <1>3, <1>4, <1>5

\* The bag of users is no larger than the channel it stands for.
LEMMA ChannelFits ==
  ASSUME TypeOK, NEW w \in Worker
  PROVE  /\ Dispatch!ChannelLen(w) \in Nat
         /\ Dispatch!ChannelLen(w) <= Len(queue[w])
<1> DEFINE s == queue[w]
           P(u) == {i \in DOMAIN s : s[i] = u}
           U == UNION {{u} \X (1 .. due[u]) : u \in UsersOf(w)}
           b == [u \in UsersOf(w) |-> CHOOSE f : f \in Bijection(1 .. due[u], P(u))]
           g == [z \in U |-> b[z[1]][z[2]]]
<1>1. s \in Seq(User) /\ DOMAIN s = 1 .. Len(s) /\ Len(s) \in Nat
  BY DEF TypeOK
<1>2. ASSUME NEW u \in UsersOf(w) PROVE b[u] \in Bijection(1 .. due[u], P(u))
  <2>1. due[u] = Cardinality(P(u))
    BY DEF due, PlacesOf, UsersOf
  <2>2. IsFiniteSet(P(u))
    <3>1. IsFiniteSet(DOMAIN s) /\ P(u) \in SUBSET DOMAIN s
      BY <1>1, FS_Interval
    <3> QED BY <3>1, FS_Subset
  <2> HIDE DEF s, P
  <2>3. ExistsBijection(1 .. due[u], P(u))
    BY <2>1, <2>2, FS_CardinalityType
  <2> QED BY <2>3 DEF ExistsBijection
<1> HIDE DEF b
<1>3. ASSUME NEW u \in UsersOf(w), NEW k \in 1 .. due[u]
      PROVE  b[u][k] \in 1 .. Len(s) /\ s[b[u][k]] = u
  <2>1. b[u] \in [1 .. due[u] -> P(u)]
    BY <1>2 DEF Bijection, Injection, Surjection
  <2> QED BY <2>1, <1>1
<1>4. ASSUME NEW u \in UsersOf(w), NEW k \in 1 .. due[u], NEW m \in 1 .. due[u],
             b[u][k] = b[u][m]
      PROVE  k = m
  BY <1>2, <1>4 DEF Bijection, Injection, IsInjective
<1>5. \A z \in U : z[1] \in UsersOf(w) /\ z[2] \in 1 .. due[z[1]] /\ z = <<z[1], z[2]>>
  OBVIOUS
<1> HIDE DEF U, s, P
<1>6. g \in [U -> 1 .. Len(s)]
  BY <1>3, <1>5
<1>7. ASSUME NEW y \in U, NEW z \in U, g[y] = g[z] PROVE y = z
  <2>1. b[y[1]][y[2]] = b[z[1]][z[2]]
    BY <1>7
  <2>2. y[1] = z[1]
    BY <2>1, <1>3, <1>5
  <2>3. y[2] = z[2]
    BY <2>1, <2>2, <1>4, <1>5
  <2> QED BY <2>2, <2>3, <1>5
<1> HIDE DEF g
<1>8. g \in Injection(U, 1 .. Len(s))
  BY <1>6, <1>7 DEF Injection, IsInjective
<1>9. IsFiniteSet(1 .. Len(s)) /\ Cardinality(1 .. Len(s)) = Len(s)
  BY <1>1, FS_Interval
<1>10. IsFiniteSet(U) /\ Cardinality(U) <= Len(s)
  BY <1>8, <1>9, FS_Injection
<1>11. Dispatch!ChannelLen(w) = Cardinality(U)
  BY SameParams DEF Dispatch!ChannelLen, Dispatch!Units, U
<1> QED BY <1>10, <1>11, FS_CardinalityType DEF s

\* RunCaseInner starts where CaseDispatch does.
LEMMA MapInit == Init => Dispatch!Init
<1> SUFFICES ASSUME Init PROVE Dispatch!Init
  OBVIOUS
<1>1. due = [u \in User |-> InitialRounds]
  <2>1. ASSUME NEW u \in User PROVE Occurrences(queue[WorkerOf(u)], u) = InitialRounds
    <3>1. WorkerOf(u) \in Worker /\ u \in UsersOf(WorkerOf(u)) /\ InitialRounds \in Nat
      BY ParamsOK DEF UsersOf, InitialRounds
    <3>2. queue[WorkerOf(u)] = Repeat(Share(WorkerOf(u)), InitialRounds)
      BY <3>1 DEF Init
    <3> DEFINE w == WorkerOf(u)
               q == Repeat(Share(w), InitialRounds)
    <3>3. Cardinality({i \in DOMAIN q : q[i] = u}) = InitialRounds
      BY <3>1, FirstQueue
    <3>4. Occurrences(q, u) = InitialRounds
      BY <3>3 DEF Occurrences
    <3> QED BY <3>2, <3>4
  <2> QED BY <2>1, MapDefs DEF Counted
<1>2. ASSUME NEW u, NEW l, l # "none", NEW out
      PROVE  CountAt(runs, u, l) = 0 /\ CountOutcome(runs, u, l, out) = 0
  <2>1. \A r \in Run : runs[r].st = "none"
    BY DEF Init, NoRun
  <2>2. {r \in Run : runs[r].user = u /\ runs[r].st = l} = {}
    BY <2>1, <1>2
  <2>3. {r \in Run : runs[r].user = u /\ runs[r].st = l /\ runs[r].err = IsErr(out)} = {}
    BY <2>1, <1>2
  <2> QED BY <2>2, <2>3, FS_EmptySet DEF CountAt, CountOutcome, At, AtWith
<1>3. /\ running = [u \in User |-> 0]
      /\ sending = [u \in User |-> [out \in Outcome |-> 0]]
      /\ resting = [u \in User |-> [out \in Outcome |-> 0]]
  <2>1. \A u, out : /\ CountAt(runs, u, "running") = 0
                    /\ CountOutcome(runs, u, "send", out) = 0
                    /\ CountOutcome(runs, u, "rest", out) = 0
    BY <1>2
  <2> QED BY <2>1, MapDefs DEF Counted
<1>4. userInHand = [w \in Worker |-> NoUser]
  BY DEF userInHand, Init
<1> QED BY <1>1, <1>3, <1>4, SameParams DEF Init, Dispatch!Init

\* What the mapping shows of a step that leaves the channels, the runs or the
\* workers' hands alone.
LEMMA MapUnchanged ==
  /\ queue' = queue => due' = due
  /\ runs' = runs => running' = running /\ sending' = sending /\ resting' = resting
  /\ hand' = hand /\ holder' = holder => userInHand' = userInHand
<1>1. queue' = queue => due' = due
  BY MapDefs, MapDefsNext DEF Counted
<1>2. runs' = runs => running' = running /\ sending' = sending /\ resting' = resting
  BY MapDefs, MapDefsNext DEF Counted
<1>3. hand' = hand /\ holder' = holder => userInHand' = userInHand
  BY DEF userInHand
<1> QED BY <1>1, <1>2, <1>3

CountType ==
  /\ running \in [User -> Nat]
  /\ sending \in [User -> [Outcome -> Nat]] /\ resting \in [User -> [Outcome -> Nat]]

\* The types of the counts.
LEMMA CountTypes == CountType
<1>0. PICK r : r \in Run
  <2>1. UserCount * RunTime >= 1
    BY CaseAssumption
  <2> QED BY <2>1 DEF Run
<1>1. \A u, l, out : CountAt(runs, u, l) \in Nat /\ CountOutcome(runs, u, l, out) \in Nat
  BY <1>0, RunCounts, OutcomeCounts
<1> QED BY <1>1, MapDefs DEF Counted, CountType

LEMMA CountTypesNext == CountType'
BY CountTypes, PTL

\* What the mapping shows of a step that changes one run.
LEMMA MapRun ==
  ASSUME NEW r \in Run, \A x \in Run : x # r => runs'[x] = runs[x], NEW u \in User
  PROVE  /\ running'[u] = running[u] + One(runs', r, u, "running")
                                     - One(runs, r, u, "running")
         /\ At(runs, r, u, "running") => running[u] > 0
         /\ \A out \in Outcome :
              /\ sending'[u][out] = sending[u][out]
                   + OneWith(runs', r, u, "send", out)
                   - OneWith(runs, r, u, "send", out)
              /\ resting'[u][out] = resting[u][out]
                   + OneWith(runs', r, u, "rest", out)
                   - OneWith(runs, r, u, "rest", out)
              /\ AtWith(runs, r, u, "send", out) => sending[u][out] > 0
              /\ AtWith(runs, r, u, "rest", out) => resting[u][out] > 0
<1>3. /\ running[u] = CountAt(runs, u, "running")
      /\ running'[u] = CountAt(runs', u, "running")
      /\ \A out \in Outcome :
           /\ sending[u][out] = CountOutcome(runs, u, "send", out)
           /\ sending'[u][out] = CountOutcome(runs', u, "send", out)
           /\ resting[u][out] = CountOutcome(runs, u, "rest", out)
           /\ resting'[u][out] = CountOutcome(runs', u, "rest", out)
  BY MapDefs, MapDefsNext DEF Counted
<1> DEFINE R == runs
           Q == runs'
<1>4. \A x \in Run : x # r => Q[x] = R[x]
  OBVIOUS
<1> HIDE DEF R, Q
<1>5. /\ CountAt(Q, u, "running") = CountAt(R, u, "running")
           + One(Q, r, u, "running")
           - One(R, r, u, "running")
      /\ At(R, r, u, "running") => CountAt(R, u, "running") > 0
  BY <1>4, RunCounts
<1>6. ASSUME NEW l, NEW out
      PROVE  /\ CountOutcome(Q, u, l, out) = CountOutcome(R, u, l, out)
                  + OneWith(Q, r, u, l, out) - OneWith(R, r, u, l, out)
             /\ AtWith(R, r, u, l, out) => CountOutcome(R, u, l, out) > 0
  BY <1>4, OutcomeCounts
<1> QED BY <1>3, <1>5, <1>6 DEF R, Q

\* One entry of the counts by outcome has changed.
LEMMA OneOutcome ==
  ASSUME NEW f \in [User -> [Outcome -> Nat]], NEW g \in [User -> [Outcome -> Nat]],
         NEW u \in User, NEW out \in Outcome, NEW d,
         \A v \in User, p \in Outcome : g[v][p] = IF v = u /\ p = out THEN d ELSE f[v][p]
  PROVE  g = [f EXCEPT ![u] = [f[u] EXCEPT ![out] = d]]
<1>1. f[u] \in [Outcome -> Nat] /\ g[u] \in [Outcome -> Nat]
  OBVIOUS
<1>2. g[u] = [f[u] EXCEPT ![out] = d]
  BY <1>1
<1>3. \A v \in User : v # u => g[v] = f[v]
  <2> SUFFICES ASSUME NEW v \in User, v # u PROVE g[v] = f[v]
    OBVIOUS
  <2>1. f[v] \in [Outcome -> Nat] /\ g[v] \in [Outcome -> Nat]
    OBVIOUS
  <2> QED BY <2>1
<1> QED BY <1>2, <1>3

\* No entry has.
LEMMA SameOutcomes ==
  ASSUME NEW f \in [User -> [Outcome -> Nat]], NEW g \in [User -> [Outcome -> Nat]],
         \A v \in User, p \in Outcome : g[v][p] = f[v][p]
  PROVE  g = f
<1>1. ASSUME NEW v \in User PROVE g[v] = f[v]
  <2>1. f[v] \in [Outcome -> Nat] /\ g[v] \in [Outcome -> Nat]
    OBVIOUS
  <2> QED BY <2>1
<1> QED BY <1>1

\* The steps of a worker, of RunCaseInner and of its caller that move no user.
LEMMA MapQuiet ==
  /\ \A w \in Worker : WorkerLoop(w) => Dispatch!WorkerLoop(w)
  /\ \A w \in Worker : WorkerWaitAll(w) => Dispatch!WorkerWaitAll(w)
  /\ CaseReturn => Dispatch!CaseReturn
  /\ Cancel => Dispatch!Cancel
  /\ \A r \in Run : RunAwaits(r) => UNCHANGED Dispatch!vars
<1> USE DEF workerVars, objectVars, countVars, outcomeVars, Dispatch!workerVars,
            Dispatch!taskVars, Dispatch!outcomeVars, Dispatch!endVars
<1>1. ASSUME NEW w \in Worker, WorkerLoop(w) PROVE Dispatch!WorkerLoop(w)
  BY <1>1, MapUnchanged DEF WorkerLoop, WGoto, Dispatch!WorkerLoop, Dispatch!Goto
<1>2. ASSUME NEW w \in Worker, WorkerWaitAll(w) PROVE Dispatch!WorkerWaitAll(w)
  BY <1>2, MapUnchanged DEF WorkerWaitAll, WGoto, Dispatch!WorkerWaitAll, Dispatch!Goto
<1>3. ASSUME CaseReturn PROVE Dispatch!CaseReturn
  BY <1>3, MapUnchanged, SameParams DEF CaseReturn, Dispatch!CaseReturn
<1>4. ASSUME Cancel PROVE Dispatch!Cancel
  BY <1>4, MapUnchanged DEF Cancel, Dispatch!Cancel
<1>5. ASSUME NEW r \in Run, RunAwaits(r) PROVE UNCHANGED Dispatch!vars
  BY <1>5, MapUnchanged DEF RunAwaits, Dispatch!vars
<1> QED BY <1>1, <1>2, <1>3, <1>4, <1>5

\* A worker takes a user from its channel, with a new object or a pooled one:
\* no other worker holds the object, and no run has it.
LEMMA MapReceive ==
  ASSUME IInv, Clean, NEW w \in Worker, NEW o \in Object, WorkerReceive(w, o)
  PROVE  \E u \in User : Dispatch!WorkerReceive(w, u)
<1> DEFINE u == Head(queue[w])
<1>0. /\ wpc[w] = "receive" /\ queue[w] # <<>>
      /\ queue' = [queue EXCEPT ![w] = Tail(@)]
      /\ o = objects + 1 \/ pool[w][o] > 0
      /\ holder' = [holder EXCEPT ![o] = u]
      /\ hand' = [hand EXCEPT ![w] = o]
      /\ wpc' = [wpc EXCEPT ![w] = "acquire"]
      /\ UNCHANGED <<dispatch, started, wg, runs, countVars, outcomeVars, cancelled, result>>
  BY DEF WorkerReceive, Prepare, WGoto
<1>1. TypeOK /\ UseInv /\ HeldInv
  BY DEF IInv, CleanInv
<1>2. /\ queue \in [Worker -> Seq(User)] /\ queue[w] \in Seq(User)
      /\ hand \in [Worker -> Object \cup {NoObject}]
      /\ holder \in [Object -> User \cup {NoUser}]
  BY <1>1 DEF TypeOK
<1>3. u \in User /\ WorkerOf(u) = w
  <2>1. u = queue[w][1] /\ 1 \in 1 .. Len(queue[w]) /\ u \in User
    BY <1>0, <1>2
  <2> QED BY <2>1, <1>1 DEF UseInv
<1> HIDE DEF u
<1>4. due' = [due EXCEPT ![u] = @ - 1] /\ due[u] > 0
  <2>1. queue'[w] = Tail(queue[w]) /\ \A v \in Worker : v # w => queue'[v] = queue[v]
    BY <1>0, <1>2
  <2>2. ASSUME NEW v \in User
        PROVE  Occurrences(queue'[WorkerOf(v)], v) =
                 Occurrences(queue[WorkerOf(v)], v) - (IF v = u THEN 1 ELSE 0)
    <3> DEFINE s == queue[WorkerOf(v)]
    <3>0. WorkerOf(v) \in Worker /\ s \in Seq(User)
      BY <1>2, ParamsOK
    <3>1. CASE WorkerOf(v) = w
      <4>1. s # <<>> /\ Head(s) = u /\ queue'[WorkerOf(v)] = Tail(s)
        BY <3>1, <2>1, <1>0 DEF u
      <4> HIDE DEF s
      <4>2. Occurrences(Tail(s), v) = Occurrences(s, v) - (IF Head(s) = v THEN 1 ELSE 0)
        BY <3>0, <4>1, QueueCounts
      <4> QED BY <4>1, <4>2 DEF s
    <3>2. CASE WorkerOf(v) # w
      <4>1. queue'[WorkerOf(v)] = s /\ v # u
        BY <3>0, <3>2, <2>1, <1>3
      <4> HIDE DEF s
      <4>2. Occurrences(s, v) \in Nat
        BY <3>0, QueueCounts
      <4> QED BY <4>1, <4>2 DEF s
    <3> QED BY <3>1, <3>2
  <2>3. Occurrences(queue[w], u) > 0
    <3>1. Head(queue[w]) = u
      BY DEF u
    <3> QED BY <3>1, <1>0, <1>2, QueueCounts
  <2>4. /\ due = [v \in User |-> Occurrences(queue[WorkerOf(v)], v)]
        /\ due' = [v \in User |-> Occurrences(queue'[WorkerOf(v)], v)]
    BY MapDefs, MapDefsNext DEF Counted
  <2>5. \A v \in User : Occurrences(queue[WorkerOf(v)], v) \in Nat
    BY <1>2, ParamsOK, QueueCounts
  <2> QED BY <2>2, <2>3, <2>4, <2>5, <1>3
<1>5. userInHand' = [userInHand EXCEPT ![w] = u]
  <2>1. ASSUME NEW v \in Worker, v # w PROVE userInHand'[v] = userInHand[v]
    <3>1. hand'[v] = hand[v] /\ hand[v] \in Object \cup {NoObject}
      BY <2>1, <1>0, <1>2
    <3>2. hand[v] # NoObject => hand[v] # o
      <4> SUFFICES ASSUME hand[v] = o PROVE hand[v] = NoObject
        OBVIOUS
      <4>1. objects \in Nat /\ hand[v] \in 0 .. objects
        BY <1>1, InUse DEF UseInv
      <4>2. hand[v] # NoObject => pool[w][o] = 0
        BY <1>1 DEF HeldInv
      <4> QED BY <4>1, <4>2, <1>0
    <3>3. hand[v] # NoObject => holder'[hand[v]] = holder[hand[v]]
      BY <3>1, <3>2, <1>0, <1>2
    <3> QED BY <3>1, <3>3 DEF userInHand
  <2>2. userInHand'[w] = u
    <3>1. hand'[w] = o /\ o # NoObject /\ holder'[o] = u
      BY <1>0, <1>2, ObjectsOK
    <3> QED BY <3>1 DEF userInHand
  <2>3. DOMAIN userInHand = Worker /\ DOMAIN userInHand' = Worker
        /\ userInHand = [v \in Worker |-> userInHand[v]]
        /\ userInHand' = [v \in Worker |-> userInHand'[v]]
    BY DEF userInHand
  <2> QED BY <2>1, <2>2, <2>3
<1>6. running' = running /\ sending' = sending /\ resting' = resting
  BY <1>0, MapUnchanged
<1>7. u \in Dispatch!UsersOf(w)
  BY <1>3, SameParams DEF UsersOf
<1>8. Dispatch!WorkerReceive(w, u)
  BY <1>0, <1>4, <1>5, <1>6, <1>7
     DEF Dispatch!WorkerReceive, Dispatch!Goto, Dispatch!taskVars, Dispatch!outcomeVars,
         Dispatch!endVars, countVars, outcomeVars
<1> QED BY <1>3, <1>8

\* RunTaskAction: the user in the worker's hand has one more run.
LEMMA MapStart ==
  ASSUME IInv, Clean, NEW w \in Worker, WorkerRun(w)
  PROVE  Dispatch!WorkerRun(w)
<1> DEFINE o == hand[w]
           u == holder[o]
           q == FreeRun
           new == [st |-> "running", obj |-> o, user |-> u, err |-> FALSE]
<1>0. /\ wpc[w] = "acquire"
      /\ wg' = [wg EXCEPT ![w] = @ + 1]
      /\ runs' = [runs EXCEPT ![q] = new]
      /\ ran' = [ran EXCEPT ![u] = @ + 1]
      /\ started' = [started EXCEPT ![w] = @ + 1]
      /\ hand' = [hand EXCEPT ![w] = NoObject]
      /\ wpc' = [wpc EXCEPT ![w] = IF started'[w] >= TotalTasks(w) THEN "waitall" ELSE "loop"]
      /\ UNCHANGED <<dispatch, queue, holder, bad, outcomeVars, cancelled, result>>
  BY DEF WorkerRun, WGoto
<1>1. TypeOK /\ UseInv /\ HeldInv /\ RunInv
  BY DEF IInv, CleanInv
<1>2. /\ hand \in [Worker -> Object \cup {NoObject}]
      /\ runs \in [Run -> RunRecord] /\ started \in [Worker -> Nat]
  BY <1>1 DEF TypeOK
<1>3. o # NoObject /\ o \in Object /\ o <= objects
  <2>1. o # NoObject /\ o \in 0 .. objects
    BY <1>0, <1>1 DEF UseInv
  <2> QED BY <2>1, <1>2, <1>1, InUse
<1>4. u \in User
  BY <1>1, <1>3 DEF UseInv
<1>5. q \in Run /\ runs[q] = NoRun
  <2>1. \A r \in Run : Active(r) => runs[r].obj # o
    BY <1>1, <1>3 DEF HeldInv
  <2> QED BY <2>1, <1>1, <1>3, FreeRunOK
<1> HIDE DEF o, u, q
<1>6. /\ \A x \in Run : x # q => runs'[x] = runs[x]
      /\ runs'[q].st = "running" /\ runs'[q].user = u
      /\ runs[q].st = "none"
  BY <1>0, <1>2, <1>5 DEF NoRun
<1>7. running' = [running EXCEPT ![u] = @ + 1] /\ sending' = sending /\ resting' = resting
  <2>1. ASSUME NEW v \in User
        PROVE  /\ One(runs', q, v, "running") = IF v = u THEN 1 ELSE 0
               /\ One(runs, q, v, "running") = 0
               /\ \A out \in Outcome : /\ OneWith(runs', q, v, "send", out) = 0
                                       /\ OneWith(runs, q, v, "send", out) = 0
                                       /\ OneWith(runs', q, v, "rest", out) = 0
                                       /\ OneWith(runs, q, v, "rest", out) = 0
    BY <1>6 DEF One, At, OneWith, AtWith
  <2>2. ASSUME NEW v \in User
        PROVE  /\ running'[v] = running[v] + One(runs', q, v, "running")
                                           - One(runs, q, v, "running")
               /\ \A out \in Outcome :
                    /\ sending'[v][out] = sending[v][out] + OneWith(runs', q, v, "send", out)
                                            - OneWith(runs, q, v, "send", out)
                    /\ resting'[v][out] = resting[v][out] + OneWith(runs', q, v, "rest", out)
                                            - OneWith(runs, q, v, "rest", out)
    BY <1>5, <1>6, MapRun
  <2>3. running \in [User -> Nat] /\ running' \in [User -> Nat]
    BY CountTypes, CountTypesNext DEF CountType
  <2>4. \A v \in User : running'[v] = IF v = u THEN running[v] + 1 ELSE running[v]
    BY <2>1, <2>2, <2>3
  <2>5. /\ sending \in [User -> [Outcome -> Nat]] /\ sending' \in [User -> [Outcome -> Nat]]
        /\ resting \in [User -> [Outcome -> Nat]] /\ resting' \in [User -> [Outcome -> Nat]]
    BY CountTypes, CountTypesNext DEF CountType
  <2>6. \A v \in User, out \in Outcome :
          /\ sending'[v][out] = sending[v][out] /\ resting'[v][out] = resting[v][out]
    BY <2>1, <2>2, <2>5
  <2>7. sending' = sending
    BY <2>5, <2>6, SameOutcomes
  <2>8. resting' = resting
    BY <2>5, <2>6, SameOutcomes
  <2> QED BY <2>3, <2>4, <2>7, <2>8, <1>4
<1>8. userInHand[w] = u /\ userInHand' = [userInHand EXCEPT ![w] = NoUser]
  <2>1. userInHand[w] = u
    BY <1>3 DEF userInHand, u, o
  <2>2. \A v \in Worker : userInHand'[v] = IF v = w THEN NoUser ELSE userInHand[v]
    BY <1>0, <1>2 DEF userInHand
  <2>3. DOMAIN userInHand = Worker /\ DOMAIN userInHand' = Worker
        /\ userInHand = [v \in Worker |-> userInHand[v]]
        /\ userInHand' = [v \in Worker |-> userInHand'[v]]
    BY DEF userInHand
  <2> QED BY <2>1, <2>2, <2>3
<1>9. due' = due
  BY <1>0, MapUnchanged
<1>10. started'[w] = started[w] + 1
  BY <1>0, <1>2
<1> QED
  BY <1>0, <1>7, <1>8, <1>9, <1>10, SameParams
     DEF Dispatch!WorkerRun, Dispatch!Goto, Dispatch!outcomeVars, Dispatch!endVars, outcomeVars

\* A run that is not over, before any timer has finished a task: its user, and
\* its object.
LEMMA RunIsOwn ==
  ASSUME IInv, ~Late, NEW r \in Run, Active(r)
  PROVE  LET o == runs[r].obj
         IN  /\ Clean /\ o \in 1 .. objects /\ runs[r].user = holder[o]
             /\ holder[o] \in User /\ WorkerOf(holder[o]) \in Worker
             /\ runs[r].st = "running" => ~finished[o] /\ onFinish[o]
             /\ runs[r].err \in BOOLEAN
<1> DEFINE o == runs[r].obj
<1>1. Clean /\ TypeOK /\ UseInv /\ RunInv
  BY DEF Late, Clean, IInv, CleanInv
<1>2. o \in 1 .. objects /\ o \in Object /\ o <= objects
  BY <1>1, InUse DEF UseInv
<1>3. holder[o] \in User /\ WorkerOf(holder[o]) \in Worker
  BY <1>1, <1>2, ParamsOK DEF UseInv
<1>4. runs[r].user = holder[o]
  BY <1>1 DEF RunInv
<1>5. runs[r].st = "running" => ~finished[o] /\ onFinish[o]
  <2>1. timer[o] \notin {"send", "rest"}
    BY <1>2 DEF Late
  <2> QED BY <2>1, <1>1 DEF RunInv, Active
<1>6. runs[r].err \in BOOLEAN
  BY <1>1 DEF TypeOK, RunRecord
<1> QED BY <1>1, <1>2, <1>3, <1>4, <1>5, <1>6

\* HookRun returns: nobody else has finished the object, so that the run counts
\* its own user.
LEMMA MapReturn ==
  ASSUME IInv, ~Late, NEW r \in Run, NEW err \in BOOLEAN, RunReturn(r, err)
  PROVE  \E u \in User, out \in Outcome : Dispatch!TaskReturn(u, out)
<1> DEFINE o == runs[r].obj
           u == holder[o]
           to == AfterFirst(o)
           out == IF err THEN "err" ELSE "ok"
<1>0. /\ runs[r].st = "running" /\ (err => "fail" \in Faults) /\ FinishFirst(o)
      /\ runs' = [runs EXCEPT ![r] = IF to = "done" THEN NoRun
                                     ELSE [runs[r] EXCEPT !.st = to, !.err = err]]
      /\ bad' = (bad \/ err)
      /\ UNCHANGED <<queue, workerVars, wg, holder, ran, outcomeVars, cancelled, result>>
  BY DEF RunReturn
<1>1. /\ u \in User /\ runs[r].user = u /\ ~finished[o] /\ onFinish[o]
  BY <1>0, RunIsOwn DEF Active
<1>2. /\ dispatch' = [dispatch EXCEPT ![u] = @ + 1]
      /\ to = IF RunsLeft(dispatch[u] + 1) THEN "send" ELSE "rest"
  BY <1>0, <1>1 DEF FinishFirst, AfterFirst
<1>3. runs \in [Run -> RunRecord] /\ runs[r] \in RunRecord
  BY DEF IInv, TypeOK
<1>4. out \in Outcome /\ \A p \in Outcome : err = IsErr(p) <=> p = out
  BY DEF Outcome, IsErr
<1>5. out = "err" <=> err
  OBVIOUS
<1> HIDE DEF o, u, to, out
<1>6. /\ \A x \in Run : x # r => runs'[x] = runs[x]
      /\ runs'[r].user = u /\ runs'[r].st = to /\ runs'[r].err = err
  <2>1. to # "done"
    BY <1>2
  <2>2. runs' = [runs EXCEPT ![r] = [runs[r] EXCEPT !.st = to, !.err = err]]
    BY <2>1, <1>0
  <2>3. runs'[r] = [runs[r] EXCEPT !.st = to, !.err = err]
    BY <2>2, <1>3
  <2> QED BY <2>2, <2>3, <1>1, <1>3 DEF RunRecord
<1>7. ASSUME NEW v \in User
      PROVE  /\ One(runs', r, v, "running") = 0
             /\ One(runs, r, v, "running") = IF v = u THEN 1 ELSE 0
             /\ \A p \in Outcome :
                  /\ OneWith(runs, r, v, "send", p) = 0
                  /\ OneWith(runs, r, v, "rest", p) = 0
                  /\ OneWith(runs', r, v, "send", p) =
                       IF to = "send" /\ v = u /\ p = out THEN 1 ELSE 0
                  /\ OneWith(runs', r, v, "rest", p) =
                       IF to = "rest" /\ v = u /\ p = out THEN 1 ELSE 0
  BY <1>0, <1>1, <1>2, <1>4, <1>6 DEF One, At, OneWith, AtWith
<1>8. ASSUME NEW v \in User
      PROVE  /\ running'[v] = running[v] + One(runs', r, v, "running")
                                         - One(runs, r, v, "running")
             /\ \A p \in Outcome :
                  /\ sending'[v][p] = sending[v][p] + OneWith(runs', r, v, "send", p)
                                        - OneWith(runs, r, v, "send", p)
                  /\ resting'[v][p] = resting[v][p] + OneWith(runs', r, v, "rest", p)
                                        - OneWith(runs, r, v, "rest", p)
  BY <1>6, MapRun
<1>9. running \in [User -> Nat] /\ running' \in [User -> Nat]
  BY CountTypes, CountTypesNext DEF CountType
<1>10. /\ sending \in [User -> [Outcome -> Nat]] /\ sending' \in [User -> [Outcome -> Nat]]
       /\ resting \in [User -> [Outcome -> Nat]] /\ resting' \in [User -> [Outcome -> Nat]]
  BY CountTypes, CountTypesNext DEF CountType
<1>11. running[u] > 0 /\ running' = [running EXCEPT ![u] = @ - 1]
  <2>1. \A v \in User : running'[v] = IF v = u THEN running[v] - 1 ELSE running[v]
    BY <1>7, <1>8, <1>9
  <2>2. At(runs, r, u, "running")
    BY <1>0, <1>1 DEF At
  <2>3. running[u] > 0
    BY <2>2, <1>1, <1>6, MapRun
  <2> QED BY <2>1, <2>3, <1>1, <1>9
<1>12. ASSUME NEW v \in User, NEW p \in Outcome
       PROVE  /\ sending'[v][p] = IF to = "send" /\ v = u /\ p = out
                                  THEN sending[v][p] + 1 ELSE sending[v][p]
              /\ resting'[v][p] = IF to = "rest" /\ v = u /\ p = out
                                  THEN resting[v][p] + 1 ELSE resting[v][p]
  BY <1>7, <1>8, <1>10
<1>13. IF RunsLeft(dispatch[u] + 1)
       THEN sending' = [sending EXCEPT ![u] = [sending[u] EXCEPT ![out] = @ + 1]]
            /\ resting' = resting
       ELSE resting' = [resting EXCEPT ![u] = [resting[u] EXCEPT ![out] = @ + 1]]
            /\ sending' = sending
  <2>1. CASE RunsLeft(dispatch[u] + 1)
    <3>1. to = "send"
      BY <2>1, <1>2
    <3> DEFINE d == sending[u][out] + 1
    <3>2. \A v \in User, p \in Outcome :
            sending'[v][p] = IF v = u /\ p = out THEN d ELSE sending[v][p]
      BY <3>1, <1>12
    <3>3. \A v \in User, p \in Outcome : resting'[v][p] = resting[v][p]
      BY <3>1, <1>12
    <3>4. resting' = resting
      BY <3>3, <1>10, SameOutcomes
    <3> HIDE DEF d
    <3>5. sending' = [sending EXCEPT ![u] = [sending[u] EXCEPT ![out] = d]]
      BY <3>2, <1>1, <1>4, <1>10, OneOutcome
    <3> QED BY <2>1, <3>4, <3>5 DEF d
  <2>2. CASE ~RunsLeft(dispatch[u] + 1)
    <3>1. to = "rest"
      BY <2>2, <1>2
    <3> DEFINE d == resting[u][out] + 1
    <3>2. \A v \in User, p \in Outcome :
            resting'[v][p] = IF v = u /\ p = out THEN d ELSE resting[v][p]
      BY <3>1, <1>12
    <3>3. \A v \in User, p \in Outcome : sending'[v][p] = sending[v][p]
      BY <3>1, <1>12
    <3>4. sending' = sending
      BY <3>3, <1>10, SameOutcomes
    <3> HIDE DEF d
    <3>5. resting' = [resting EXCEPT ![u] = [resting[u] EXCEPT ![out] = d]]
      BY <3>2, <1>1, <1>4, <1>10, OneOutcome
    <3> QED BY <2>2, <3>4, <3>5 DEF d
  <2> QED BY <2>1, <2>2
<1>14. due' = due /\ userInHand' = userInHand
  BY <1>0, MapUnchanged DEF workerVars
<1>15. Dispatch!TaskReturn(u, out)
  BY <1>0, <1>2, <1>5, <1>11, <1>13, <1>14, SameParams
     DEF Dispatch!TaskReturn, Dispatch!workerVars, Dispatch!endVars, workerVars, outcomeVars
<1> QED BY <1>1, <1>4, <1>15

\* The user of a run goes back into the channel of its worker.
LEMMA MapSend ==
  ASSUME IInv, ~Late, NEW r \in Run, RunSend(r)
  PROVE  \E u \in User, out \in Outcome : Dispatch!TaskSend(u, out)
<1> DEFINE o == runs[r].obj
           u == holder[o]
           w == WorkerOf(u)
           err == runs[r].err
           out == IF err THEN "err" ELSE "ok"
<1>0. /\ runs[r].st = "send"
      /\ Len(queue[w]) < ChannelCap
      /\ queue' = [queue EXCEPT ![w] = Append(@, u)]
      /\ runs' = [runs EXCEPT ![r] = [runs[r] EXCEPT !.st = "rest"]]
      /\ UNCHANGED <<dispatch, workerVars, wg, objectVars, countVars, outcomeVars,
                     cancelled, result>>
  BY DEF RunSend, PutBack, SetRun
<1>1. u \in User /\ w \in Worker /\ runs[r].user = u /\ err \in BOOLEAN
  BY <1>0, RunIsOwn DEF Active
<1>2. /\ TypeOK /\ runs \in [Run -> RunRecord] /\ runs[r] \in RunRecord
      /\ queue \in [Worker -> Seq(User)] /\ queue[w] \in Seq(User)
  BY <1>1 DEF IInv, TypeOK
<1>3. out \in Outcome /\ \A p \in Outcome : err = IsErr(p) <=> p = out
  BY <1>1 DEF Outcome, IsErr
<1>4. WorkerOf(u) = w
  OBVIOUS
<1> HIDE DEF o, u, w, out
<1>5. /\ \A x \in Run : x # r => runs'[x] = runs[x]
      /\ runs'[r].user = u /\ runs'[r].st = "rest" /\ runs'[r].err = err
  <2>1. runs'[r] = [runs[r] EXCEPT !.st = "rest"]
    BY <1>0, <1>2
  <2> QED BY <2>1, <1>0, <1>1, <1>2 DEF RunRecord
<1>6. ASSUME NEW v \in User
      PROVE  /\ One(runs', r, v, "running") = 0
             /\ One(runs, r, v, "running") = 0
             /\ \A p \in Outcome :
                  /\ OneWith(runs, r, v, "send", p) = IF v = u /\ p = out THEN 1 ELSE 0
                  /\ OneWith(runs, r, v, "rest", p) = 0
                  /\ OneWith(runs', r, v, "send", p) = 0
                  /\ OneWith(runs', r, v, "rest", p) = IF v = u /\ p = out THEN 1 ELSE 0
  BY <1>0, <1>1, <1>3, <1>5 DEF One, At, OneWith, AtWith
<1>7. ASSUME NEW v \in User
      PROVE  /\ running'[v] = running[v] + One(runs', r, v, "running")
                                         - One(runs, r, v, "running")
             /\ \A p \in Outcome :
                  /\ sending'[v][p] = sending[v][p] + OneWith(runs', r, v, "send", p)
                                        - OneWith(runs, r, v, "send", p)
                  /\ resting'[v][p] = resting[v][p] + OneWith(runs', r, v, "rest", p)
                                        - OneWith(runs, r, v, "rest", p)
  BY <1>5, MapRun
<1>8. running \in [User -> Nat] /\ running' \in [User -> Nat]
  BY CountTypes, CountTypesNext DEF CountType
<1>9. /\ sending \in [User -> [Outcome -> Nat]] /\ sending' \in [User -> [Outcome -> Nat]]
      /\ resting \in [User -> [Outcome -> Nat]] /\ resting' \in [User -> [Outcome -> Nat]]
  BY CountTypes, CountTypesNext DEF CountType
<1>10. running' = running
  <2>1. \A v \in User : running'[v] = running[v]
    BY <1>6, <1>7, <1>8
  <2> QED BY <2>1, <1>8
<1>11. ASSUME NEW v \in User, NEW p \in Outcome
       PROVE  /\ sending'[v][p] = IF v = u /\ p = out THEN sending[v][p] - 1 ELSE sending[v][p]
              /\ resting'[v][p] = IF v = u /\ p = out THEN resting[v][p] + 1 ELSE resting[v][p]
  BY <1>6, <1>7, <1>9
<1>12. sending' = [sending EXCEPT ![u] = [sending[u] EXCEPT ![out] = @ - 1]]
  <2> DEFINE d == sending[u][out] - 1
  <2>1. \A v \in User, p \in Outcome :
          sending'[v][p] = IF v = u /\ p = out THEN d ELSE sending[v][p]
    BY <1>11
  <2> HIDE DEF d
  <2>2. sending' = [sending EXCEPT ![u] = [sending[u] EXCEPT ![out] = d]]
    BY <2>1, <1>1, <1>3, <1>9, OneOutcome
  <2> QED BY <2>2 DEF d
<1>13. resting' = [resting EXCEPT ![u] = [resting[u] EXCEPT ![out] = @ + 1]]
  <2> DEFINE d == resting[u][out] + 1
  <2>1. \A v \in User, p \in Outcome :
          resting'[v][p] = IF v = u /\ p = out THEN d ELSE resting[v][p]
    BY <1>11
  <2> HIDE DEF d
  <2>2. resting' = [resting EXCEPT ![u] = [resting[u] EXCEPT ![out] = d]]
    BY <2>1, <1>1, <1>3, <1>9, OneOutcome
  <2> QED BY <2>2 DEF d
<1>14. sending[u][out] > 0
  <2>1. AtWith(runs, r, u, "send", out)
    BY <1>0, <1>1, <1>3 DEF AtWith
  <2> QED BY <2>1, <1>1, <1>3, <1>5, MapRun
<1>15. due' = [due EXCEPT ![u] = @ + 1]
  <2>1. queue'[w] = Append(queue[w], u) /\ \A v \in Worker : v # w => queue'[v] = queue[v]
    BY <1>0, <1>1, <1>2
  <2>2. ASSUME NEW v \in User
        PROVE  Occurrences(queue'[WorkerOf(v)], v) =
                 Occurrences(queue[WorkerOf(v)], v) + (IF v = u THEN 1 ELSE 0)
    <3> DEFINE s == queue[WorkerOf(v)]
    <3>0. WorkerOf(v) \in Worker /\ s \in Seq(User)
      BY <1>2, ParamsOK
    <3>1. CASE WorkerOf(v) = w
      <4>1. queue'[WorkerOf(v)] = Append(s, u)
        BY <3>1, <2>1
      <4> HIDE DEF s
      <4>2. Occurrences(Append(s, u), v) = Occurrences(s, v) + (IF u = v THEN 1 ELSE 0)
        BY <3>0, <1>1, QueueCounts
      <4> QED BY <4>1, <4>2 DEF s
    <3>2. CASE WorkerOf(v) # w
      <4>1. queue'[WorkerOf(v)] = s /\ v # u
        BY <3>0, <3>2, <2>1, <1>4
      <4> HIDE DEF s
      <4>2. Occurrences(s, v) \in Nat
        BY <3>0, QueueCounts
      <4> QED BY <4>1, <4>2 DEF s
    <3> QED BY <3>1, <3>2
  <2>3. /\ due = [v \in User |-> Occurrences(queue[WorkerOf(v)], v)]
        /\ due' = [v \in User |-> Occurrences(queue'[WorkerOf(v)], v)]
    BY MapDefs, MapDefsNext DEF Counted
  <2>4. \A v \in User : Occurrences(queue[WorkerOf(v)], v) \in Nat
    BY <1>2, ParamsOK, QueueCounts
  <2> QED BY <2>2, <2>3, <2>4, <1>1
<1>16. Dispatch!ChannelLen(Dispatch!WorkerOf(u)) < Dispatch!ChannelCap
  <2>1. ChannelCap \in Int
    BY ParamsOK, CaseAssumption DEF ChannelCap
  <2>2. Dispatch!ChannelLen(w) \in Nat /\ Dispatch!ChannelLen(w) <= Len(queue[w])
    BY <1>1, <1>2, ChannelFits
  <2>3. Len(queue[w]) \in Nat /\ Len(queue[w]) < ChannelCap
    BY <1>0, <1>2
  <2>4. Dispatch!ChannelLen(w) < ChannelCap
    BY <2>1, <2>2, <2>3
  <2> QED BY <2>4, <1>4, SameParams
<1>17. userInHand' = userInHand
  BY <1>0, MapUnchanged DEF workerVars, objectVars
<1>18. Dispatch!TaskSend(u, out)
  BY <1>0, <1>10, <1>12, <1>13, <1>14, <1>15, <1>16, <1>17
     DEF Dispatch!TaskSend, Dispatch!workerVars, Dispatch!outcomeVars, Dispatch!endVars,
         workerVars, outcomeVars, countVars
<1> QED BY <1>1, <1>3, <1>18

\* The rest of onFinishFunc: the WaitGroup that is counted down is not at 0.
LEMMA MapRest ==
  ASSUME IInv, ~Late, NEW r \in Run, RunRest(r)
  PROVE  \E u \in User, out \in Outcome : Dispatch!TaskRest(u, out)
<1> DEFINE o == runs[r].obj
           u == holder[o]
           w == WorkerOf(u)
           err == runs[r].err
           out == IF err THEN "err" ELSE "ok"
<1>0. /\ runs[r].st = "rest"
      /\ failed' = (IF err THEN failed + 1 ELSE failed)
      /\ broke' = (broke \/ (err /\ ErrorBreak))
      /\ wg' = [wg EXCEPT ![w] = IF @ = 0 THEN 0 ELSE @ - 1]
      /\ result' = (IF wg[w] = 0 THEN "panic" ELSE result)
      /\ runs' = [runs EXCEPT ![r] = NoRun]
      /\ UNCHANGED <<dispatch, queue, workerVars, objectVars, countVars, cancelled>>
  BY DEF RunRest, SetRun, FinishRest
<1>1. /\ u \in User /\ w \in Worker /\ runs[r].user = u /\ err \in BOOLEAN
      /\ Clean /\ o \in 1 .. objects
  BY <1>0, RunIsOwn DEF Active
<1>2. wg[w] > 0
  BY <1>0, <1>1, OneIsBusy DEF Active
<1>3. runs \in [Run -> RunRecord] /\ wg \in [Worker -> Nat]
  BY DEF IInv, TypeOK
<1>4. out \in Outcome /\ (out = "err" <=> err) /\ \A p \in Outcome : err = IsErr(p) <=> p = out
  BY <1>1 DEF Outcome, IsErr
<1>5. WorkerOf(u) = w
  OBVIOUS
<1> HIDE DEF o, u, w, out
<1>6. wg' = [wg EXCEPT ![w] = @ - 1] /\ result' = result
  <2>1. wg[w] # 0 /\ (IF wg[w] = 0 THEN 0 ELSE wg[w] - 1) = wg[w] - 1
    BY <1>1, <1>2, <1>3
  <2>2. result' = result
    BY <2>1, <1>0
  <2>3. wg' = [wg EXCEPT ![w] = wg[w] - 1]
    BY <2>1, <1>0
  <2> QED BY <2>2, <2>3
<1>7. /\ \A x \in Run : x # r => runs'[x] = runs[x]
      /\ runs'[r].st = "none"
  BY <1>0, <1>3 DEF NoRun
<1>8. ASSUME NEW v \in User
      PROVE  /\ One(runs', r, v, "running") = 0
             /\ One(runs, r, v, "running") = 0
             /\ \A p \in Outcome :
                  /\ OneWith(runs, r, v, "send", p) = 0
                  /\ OneWith(runs, r, v, "rest", p) = IF v = u /\ p = out THEN 1 ELSE 0
                  /\ OneWith(runs', r, v, "send", p) = 0
                  /\ OneWith(runs', r, v, "rest", p) = 0
  BY <1>0, <1>1, <1>4, <1>7 DEF One, At, OneWith, AtWith
<1>9. ASSUME NEW v \in User
      PROVE  /\ running'[v] = running[v] + One(runs', r, v, "running")
                                         - One(runs, r, v, "running")
             /\ \A p \in Outcome :
                  /\ sending'[v][p] = sending[v][p] + OneWith(runs', r, v, "send", p)
                                        - OneWith(runs, r, v, "send", p)
                  /\ resting'[v][p] = resting[v][p] + OneWith(runs', r, v, "rest", p)
                                        - OneWith(runs, r, v, "rest", p)
  BY <1>7, MapRun
<1>10. running \in [User -> Nat] /\ running' \in [User -> Nat]
  BY CountTypes, CountTypesNext DEF CountType
<1>11. /\ sending \in [User -> [Outcome -> Nat]] /\ sending' \in [User -> [Outcome -> Nat]]
       /\ resting \in [User -> [Outcome -> Nat]] /\ resting' \in [User -> [Outcome -> Nat]]
  BY CountTypes, CountTypesNext DEF CountType
<1>12. running' = running
  <2>1. \A v \in User : running'[v] = running[v]
    BY <1>8, <1>9, <1>10
  <2> QED BY <2>1, <1>10
<1>13. sending' = sending
  <2>1. \A v \in User, p \in Outcome : sending'[v][p] = sending[v][p]
    BY <1>8, <1>9, <1>11
  <2> QED BY <2>1, <1>11, SameOutcomes
<1>14. resting' = [resting EXCEPT ![u] = [resting[u] EXCEPT ![out] = @ - 1]]
  <2> DEFINE d == resting[u][out] - 1
  <2>1. \A v \in User, p \in Outcome :
          resting'[v][p] = IF v = u /\ p = out THEN d ELSE resting[v][p]
    BY <1>8, <1>9, <1>11
  <2> HIDE DEF d
  <2>2. resting' = [resting EXCEPT ![u] = [resting[u] EXCEPT ![out] = d]]
    BY <2>1, <1>1, <1>4, <1>11, OneOutcome
  <2> QED BY <2>2 DEF d
<1>15. resting[u][out] > 0
  <2>1. AtWith(runs, r, u, "rest", out)
    BY <1>0, <1>1, <1>4 DEF AtWith
  <2> QED BY <2>1, <1>1, <1>4, <1>7, MapRun
<1>16. due' = due /\ userInHand' = userInHand
  BY <1>0, MapUnchanged DEF workerVars, objectVars
<1>17. Dispatch!TaskRest(u, out)
  BY <1>0, <1>4, <1>5, <1>6, <1>12, <1>13, <1>14, <1>15, <1>16, SameParams
     DEF Dispatch!TaskRest, Dispatch!workerVars, Dispatch!endVars, workerVars, countVars
<1> QED BY <1>1, <1>4, <1>17

\* A timer that has finished a task is never forgotten.
LEMMA LateStays ==
  ASSUME TypeOK, Next, Late PROVE Late'
<1> DEFINE L == {"send", "rest", "fired"}
           Kept == \A y \in Object : timer[y] \in L => timer'[y] \in L
<1>1. timer \in [Object -> {"none", "armed", "send", "rest", "fired", "off"}]
  BY DEF TypeOK
<1>2. ASSUME NEW x, timer' = [timer EXCEPT ![x] = IF @ = "armed" THEN "off" ELSE @] PROVE Kept
  BY <1>1, <1>2
<1>3. ASSUME NEW x, NEW l, timer[x] \notin L \/ l \in L, timer' = [timer EXCEPT ![x] = l]
      PROVE  Kept
  BY <1>1, <1>3
<1>4. ASSUME NEW w \in Worker, WorkerStep(w) PROVE Kept
  <2>1. CASE \E o \in Object : WorkerReceive(w, o)
    BY <2>1, <1>2 DEF WorkerReceive, Prepare
  <2>2. CASE WorkerLoop(w) \/ WorkerRun(w) \/ WorkerWaitAll(w)
    BY <2>2 DEF WorkerLoop, WorkerRun, WorkerWaitAll, objectVars
  <2> QED BY <1>4, <2>1, <2>2 DEF WorkerStep
<1>5. ASSUME NEW r \in Run, RunStep(r) \/ RunAwaits(r) PROVE Kept
  <2>1. CASE \E err \in BOOLEAN : RunReturn(r, err)
    BY <2>1, <1>2 DEF RunReturn
  <2>2. CASE RunSend(r) \/ RunRest(r)
    BY <2>2 DEF RunSend, RunRest, objectVars
  <2>3. CASE RunAwaits(r)
    BY <2>3, <1>3 DEF RunAwaits, SetTimer
  <2> QED BY <1>5, <2>1, <2>2, <2>3 DEF RunStep
<1>6. ASSUME NEW x \in Object, TimerStep(x) PROVE Kept
  <2>1. CASE TimeoutFinish(x)
    <3> DEFINE l == IF AfterFirst(x) = "done" THEN "off" ELSE AfterFirst(x)
    <3>1. timer[x] = "armed" /\ timer' = [timer EXCEPT ![x] = l]
      BY <2>1 DEF TimeoutFinish, SetTimer
    <3> HIDE DEF l
    <3> QED BY <3>1, <1>3
  <2>2. CASE TimerSend(x) \/ TimerRest(x)
    BY <2>2, <1>3 DEF TimerSend, TimerRest, SetTimer
  <2> QED BY <1>6, <2>1, <2>2 DEF TimerStep
<1>7. Cancel \/ CaseReturn => Kept
  BY DEF Cancel, CaseReturn, objectVars
<1>8. Kept
  BY <1>4, <1>5, <1>6, <1>7 DEF Next
<1> QED BY <1>8 DEF Late

\* A timer that finishes a task is late.
LEMMA TimerIsLate ==
  ASSUME IInv, NEW o \in Object, TimerStep(o) PROVE Late'
<1>1. timer \in [Object -> {"none", "armed", "send", "rest", "fired", "off"}] /\ TypeOK
  BY DEF IInv, TypeOK
<1>2. CASE TimerSend(o) \/ TimerRest(o)
  BY <1>1, <1>2 DEF TimerSend, TimerRest, SetTimer, Late
<1>3. CASE TimeoutFinish(o)
  <2>1. CASE ~Clean
    <3>1. PICK x \in Object : timer[x] = "fired"
      BY <2>1 DEF Clean
    <3>2. timer'[x] = "fired"
      BY <3>1, <1>1, <1>3 DEF TimeoutFinish, SetTimer
    <3> QED BY <3>2 DEF Late
  <2>2. CASE Clean
    <3>1. ~finished[o] /\ onFinish[o]
      BY <2>2, <1>3 DEF IInv, CleanInv, TimerInv, TimeoutFinish
    <3>2. AfterFirst(o) \in {"send", "rest"}
      BY <3>1 DEF AfterFirst
    <3>3. timer'[o] \in {"send", "rest"}
      BY <3>2, <1>1, <1>3 DEF TimeoutFinish, SetTimer
    <3> QED BY <3>3 DEF Late
  <2> QED BY <2>1, <2>2
<1> QED BY <1>2, <1>3 DEF TimerStep

\* Every step of the task objects is a step of CaseDispatch or a stutter, until
\* a timer finishes a task.
LEMMA MapNext ==
  ASSUME IInv, [Next]_vars
  PROVE  [Dispatch!Next \/ Late']_(Dispatch!vars)
<1>1. CASE UNCHANGED vars
  BY <1>1, MapUnchanged DEF vars, Dispatch!vars
<1>2. CASE Next /\ ~Late'
  <2>0. ~Late /\ Clean
    BY <1>2, LateStays DEF IInv, Late, Clean
  <2>1. ASSUME NEW w \in Worker, WorkerStep(w) PROVE Dispatch!Next
    <3>1. Dispatch!WorkerStep(w)
      BY <2>0, <2>1, MapQuiet, MapReceive, MapStart, SameParams
         DEF WorkerStep, Dispatch!WorkerStep
    <3> QED BY <3>1, SameParams DEF Dispatch!Next
  <2>2. ASSUME NEW r \in Run, RunStep(r) PROVE Dispatch!Next
    <3>1. \E u \in User : Dispatch!TaskStep(u)
      <4>1. CASE \E err \in BOOLEAN : RunReturn(r, err)
        <5>1. \E u \in User, out \in Outcome : Dispatch!TaskReturn(u, out)
          BY <4>1, <2>0, MapReturn
        <5> QED BY <5>1, SameParams DEF Dispatch!TaskStep
      <4>2. CASE RunSend(r)
        <5>1. \E u \in User, out \in Outcome : Dispatch!TaskSend(u, out)
          BY <4>2, <2>0, MapSend
        <5> QED BY <5>1, SameParams DEF Dispatch!TaskStep
      <4>3. CASE RunRest(r)
        <5>1. \E u \in User, out \in Outcome : Dispatch!TaskRest(u, out)
          BY <4>3, <2>0, MapRest
        <5> QED BY <5>1, SameParams DEF Dispatch!TaskStep
      <4> QED BY <2>2, <4>1, <4>2, <4>3 DEF RunStep
    <3> QED BY <3>1, SameParams DEF Dispatch!Next
  <2>3. ASSUME NEW r \in Run, RunAwaits(r) PROVE UNCHANGED Dispatch!vars
    BY <2>3, MapQuiet
  <2>4. ASSUME NEW o \in Object, TimerStep(o) PROVE FALSE
    BY <2>4, <1>2, TimerIsLate
  <2>5. Cancel \/ CaseReturn => Dispatch!Next
    BY MapQuiet DEF Dispatch!Next
  <2> QED BY <1>2, <2>1, <2>2, <2>3, <2>4, <2>5 DEF Next
<1> QED BY <1>1, <1>2

\* The detailed model implements CaseDispatch: the task objects, which are handed
\* from run to run through the pool while other goroutines may still hold them,
\* never show in a step until a timer finishes a task whose HookRun goes on.
THEOREM TasksImplementDispatch == Spec => DispatchSteps
<1>1. IInv /\ [Next]_vars => [Dispatch!Next \/ Late']_(Dispatch!vars)
  BY MapNext
<1> QED BY <1>1, MapInit, TasksInvariant, PTL DEF Spec, DispatchSteps
-----------------------------------------------------------------------------
(* What the refinement carries over: until a timer finishes a task, the    *)
(* invariants of CaseDispatch, which module CaseDispatchProofs proves.     *)

P == INSTANCE CaseDispatchProofs WITH hand <- userInHand

\* The two instances of CaseDispatch are the same.
LEMMA SameNext == [Dispatch!Next]_(Dispatch!vars) => [P!Next]_(P!vars)
<1> USE DEF Dispatch!workerVars, P!workerVars, Dispatch!endVars, P!endVars,
            Dispatch!taskVars, P!taskVars, Dispatch!outcomeVars, P!outcomeVars
<1>0. /\ Dispatch!User = P!User /\ Dispatch!Worker = P!Worker /\ Dispatch!Outcome = P!Outcome
      /\ Dispatch!ChannelCap = P!ChannelCap /\ Dispatch!NoUser = P!NoUser
      /\ (\A n : Dispatch!RunsLeft(n) <=> P!RunsLeft(n))
      /\ (\A w : Dispatch!UsersOf(w) = P!UsersOf(w))
      /\ (\A w : Dispatch!WorkerOf(w) = P!WorkerOf(w))
      /\ (\A w : Dispatch!TotalTasks(w) = P!TotalTasks(w))
      /\ (\A w : Dispatch!ChannelLen(w) = P!ChannelLen(w))
  <2>1. /\ Dispatch!WorkerCount = P!WorkerCount /\ Dispatch!BatchSize = P!BatchSize
        /\ Dispatch!User = P!User
    BY DEF Dispatch!User, P!User, Dispatch!WorkerCount, P!WorkerCount,
           Dispatch!BatchSize, P!BatchSize
  <2>2. \A w : Dispatch!WorkerOf(w) = P!WorkerOf(w)
    BY <2>1 DEF Dispatch!WorkerOf, P!WorkerOf
  <2>3. \A w : Dispatch!UsersOf(w) = P!UsersOf(w)
    BY <2>1, <2>2 DEF Dispatch!UsersOf, P!UsersOf
  <2>4. ASSUME NEW S PROVE Dispatch!Cardinality(S) = P!Cardinality(S)
    BY DEF Dispatch!Cardinality, P!Cardinality, Dispatch!IsFiniteSet, P!IsFiniteSet
  <2>5. \A w : Dispatch!TotalTasks(w) = P!TotalTasks(w)
    BY <2>3, <2>4 DEF Dispatch!TotalTasks, P!TotalTasks
  <2>6. \A w : Dispatch!ChannelLen(w) = P!ChannelLen(w)
    BY <2>3, <2>4 DEF Dispatch!ChannelLen, P!ChannelLen, Dispatch!Units, P!Units
  <2> QED BY <2>1, <2>2, <2>3, <2>5, <2>6
          DEF Dispatch!Worker, P!Worker, Dispatch!Outcome, P!Outcome, Dispatch!ChannelCap,
              P!ChannelCap, Dispatch!NoUser, P!NoUser, Dispatch!RunsLeft, P!RunsLeft
<1>1. UNCHANGED Dispatch!vars => UNCHANGED P!vars
  BY DEF Dispatch!vars, P!vars
<1>2. Dispatch!CaseReturn => P!CaseReturn
  BY <1>0 DEF Dispatch!CaseReturn, P!CaseReturn
<1>3. Dispatch!Cancel => P!Cancel
  BY <1>0 DEF Dispatch!Cancel, P!Cancel
<1>4. ASSUME NEW u, Dispatch!TaskStep(u) PROVE P!TaskStep(u)
  <2>1. PICK out \in Dispatch!Outcome :
          Dispatch!TaskReturn(u, out) \/ Dispatch!TaskSend(u, out) \/ Dispatch!TaskRest(u, out)
    BY <1>4 DEF Dispatch!TaskStep
  <2>2. Dispatch!TaskReturn(u, out) => P!TaskReturn(u, out)
    BY <1>0 DEF Dispatch!TaskReturn, P!TaskReturn
  <2>3. Dispatch!TaskSend(u, out) => P!TaskSend(u, out)
    BY <1>0 DEF Dispatch!TaskSend, P!TaskSend
  <2>4. Dispatch!TaskRest(u, out) => P!TaskRest(u, out)
    BY <1>0 DEF Dispatch!TaskRest, P!TaskRest
  <2> QED BY <1>0, <2>1, <2>2, <2>3, <2>4 DEF P!TaskStep
<1>5. ASSUME NEW w, Dispatch!WorkerStep(w) PROVE P!WorkerStep(w)
  <2>1. Dispatch!WorkerLoop(w) => P!WorkerLoop(w)
    BY <1>0 DEF Dispatch!WorkerLoop, P!WorkerLoop, Dispatch!Goto, P!Goto
  <2>2. \A u : Dispatch!WorkerReceive(w, u) => P!WorkerReceive(w, u)
    BY <1>0 DEF Dispatch!WorkerReceive, P!WorkerReceive, Dispatch!Goto, P!Goto
  <2>3. Dispatch!WorkerRun(w) => P!WorkerRun(w)
    BY <1>0 DEF Dispatch!WorkerRun, P!WorkerRun, Dispatch!Goto, P!Goto
  <2>4. Dispatch!WorkerWaitAll(w) => P!WorkerWaitAll(w)
    BY <1>0 DEF Dispatch!WorkerWaitAll, P!WorkerWaitAll, Dispatch!Goto, P!Goto
  <2> QED BY <1>0, <1>5, <2>1, <2>2, <2>3, <2>4 DEF Dispatch!WorkerStep, P!WorkerStep
<1> QED BY <1>0, <1>1, <1>2, <1>3, <1>4, <1>5 DEF Dispatch!Next, P!Next

LEMMA SameInit == Dispatch!Init => P!Init
BY DEF Dispatch!Init, P!Init, Dispatch!User, P!User, Dispatch!Worker, P!Worker,
       Dispatch!NoUser, P!NoUser, Dispatch!WorkerCount, P!WorkerCount,
       Dispatch!InitialRounds, P!InitialRounds, Dispatch!BatchSize, P!BatchSize,
       Dispatch!Outcome, P!Outcome

LEMMA InheritInit == Init => P!HonestInv
<1>1. P!Init => P!HonestInv
  BY P!HonestInit, CaseAssumption DEF P!Fault, Fault
<1> QED BY <1>1, MapInit, SameInit

LEMMA InheritStep ==
  IInv /\ [Next]_vars /\ (Late \/ P!HonestInv) => Late' \/ P!HonestInv'
<1> SUFFICES ASSUME IInv, [Next]_vars, Late \/ P!HonestInv, ~Late'
             PROVE  P!HonestInv'
  OBVIOUS
<1>1. P!HonestInv /\ [P!Next]_(P!vars) => P!HonestInv'
  BY P!HonestStep, CaseAssumption DEF P!Fault, Fault
<1>2. ~Late
  <2>1. CASE Next
    BY <2>1, LateStays DEF IInv
  <2>2. CASE UNCHANGED vars
    BY <2>2 DEF vars, Late
  <2> QED BY <2>1, <2>2
<1>3. [Dispatch!Next]_(Dispatch!vars)
  BY MapNext
<1> QED BY <1>1, <1>2, <1>3, SameNext

LEMMA InheritHolds ==
  ASSUME P!HonestInv
  PROVE  /\ \A u \in User : running[u] <= BatchSize /\ ran[u] <= RunTime
         /\ result = "success" => \A u \in User : ran[u] = RunTime
<1>1. P!InFlightBounded /\ P!RunsBounded /\ P!SuccessIsHonest
  BY P!HonestHolds, CaseAssumption DEF P!Fault, Fault
<1>2. P!User = User /\ P!BatchSize = BatchSize
  BY DEF P!User, User, P!BatchSize, BatchSize
<1> QED BY <1>1, <1>2 DEF P!InFlightBounded, P!RunsBounded, P!SuccessIsHonest

LEMMA Inherited == Spec => [](Late \/ P!HonestInv)
BY InheritInit, InheritStep, TasksInvariant, PTL DEF Spec

\* Until a timer finishes a task whose HookRun goes on, at most BatchSize runs of
\* a user are in flight and no user gets more than RunTime runs, for the order of
\* the channels and the reuse of the task objects that the code has.
THEOREM LimitsUntilLate ==
  Spec => [](Late \/ \A u \in User : /\ Cardinality(RunsAt(u, "running")) <= BatchSize
                                     /\ ran[u] <= RunTime)
<1>1. Late \/ P!HonestInv =>
        Late \/ \A u \in User : /\ Cardinality(RunsAt(u, "running")) <= BatchSize
                                /\ ran[u] <= RunTime
  BY InheritHolds DEF running
<1> QED BY <1>1, Inherited, PTL

\* RunCaseInner reports success only if every user has had exactly RunTime runs,
\* all of them are over, and none has failed or has been timed out: a timer that
\* finishes a task leaves a failure, so that success is reported only where the
\* refinement holds.
THEOREM SuccessEarned == Spec => []SuccessIsEarned
<1>1. IInv /\ (Late \/ P!HonestInv) => SuccessIsEarned
  <2> SUFFICES ASSUME IInv, Late \/ P!HonestInv, result = "success"
               PROVE  /\ \A u \in User : ran[u] = RunTime
                      /\ \A r \in Run : runs[r] = NoRun
                      /\ ~bad
    BY DEF SuccessIsEarned
  <2>1. ~bad /\ ~Late /\ \A r \in Run : runs[r] = NoRun
    BY SuccessIsQuiet
  <2> QED BY <2>1, InheritHolds
<1> QED BY <1>1, Inherited, TasksInvariant, PTL
=============================================================================
