------------------------- MODULE CaseDispatchProofs -------------------------
(***************************************************************************)
(* For every number of users, runs, workers and every batch: at most       *)
(* BatchSize runs of a user are in flight, no user gets more than RunTime  *)
(* runs, no send finds the channel full, and success means RunTime runs of *)
(* every user, all over and none failed.                                   *)
(***************************************************************************)
EXTENDS CaseDispatch, FiniteSetTheorems, TLAPS

\* The parameters RunCaseInner works with are in range.
LEMMA ParamsOK ==
  /\ BatchSize \in Nat \ {0}
  /\ BatchSize <= RunTime
  /\ \A u \in User : WorkerOf(u) \in Worker
  /\ NoUser \notin User
<1>1. BatchSize \in Nat \ {0} /\ BatchSize <= RunTime
  BY CaseAssumption DEF BatchSize
<1>2. WorkerCount \in Nat \ {0}
  BY CaseAssumption DEF WorkerCount
<1>3. ASSUME NEW u \in User PROVE WorkerOf(u) \in Worker
  BY <1>2, CaseAssumption DEF WorkerOf, Worker, User
<1> QED
  BY <1>1, <1>3, CaseAssumption DEF NoUser, User

\* The counters of a user are natural numbers.
LEMMA CountersOK ==
  ASSUME TypeOK, NEW u \in User
  PROVE  /\ ran[u] \in Nat /\ due[u] \in Nat /\ dispatch[u] \in Nat
         /\ running[u] \in Nat /\ InHand(u) \in Nat
         /\ sending[u]["ok"] \in Nat /\ sending[u]["err"] \in Nat
         /\ Places(u) \in Nat
<1>1. sending[u]["ok"] \in Nat /\ sending[u]["err"] \in Nat
  BY DEF TypeOK, Outcome
<1>2. InHand(u) \in Nat
  BY DEF InHand
<1>3. /\ ran[u] \in Nat /\ due[u] \in Nat /\ dispatch[u] \in Nat
      /\ running[u] \in Nat
  BY DEF TypeOK
<1> QED
  BY <1>1, <1>2, <1>3 DEF Places

\* Before the workers start, each user is in its channel BatchSize times.
LEMMA InitInv == Init => DispatchInv
<1> SUFFICES ASSUME Init PROVE DispatchInv
  OBVIOUS
<1>1. TypeOK
  <2>1. bad \in BOOLEAN /\ broke \in BOOLEAN /\ cancelled \in BOOLEAN
    BY DEF Init
  <2>2. /\ dispatch \in [User -> Nat] /\ due \in [User -> Nat]
        /\ sending \in [User -> [Outcome -> Nat]]
        /\ resting \in [User -> [Outcome -> Nat]]
    BY ParamsOK DEF Init, InitialRounds
  <2> QED
    BY <2>1, <2>2 DEF Init, TypeOK
<1>2. HandInv
  BY ParamsOK DEF Init, HandInv
<1>3. PlacesInv
  BY ParamsOK, CaseAssumption DEF Init, PlacesInv, Places, InHand, InitialRounds, Outcome
<1>4. RunningInv
  BY ParamsOK DEF Init, RunningInv, InitialRounds
<1> QED
  BY <1>1, <1>2, <1>3, <1>4 DEF DispatchInv

\* The steps of a worker: a place moves from the channel to the hand, and from
\* the hand to a run.
LEMMA WorkerInv ==
  ASSUME DispatchInv, NEW w \in Worker, WorkerStep(w)
  PROVE  DispatchInv'
<1> USE ParamsOK, CaseAssumption DEF Outcome, Goto, outcomeVars, endVars, workerVars, taskVars
<1>0. TypeOK /\ HandInv /\ PlacesInv /\ RunningInv
  BY DEF DispatchInv
<1>1. CASE WorkerLoop(w) \/ WorkerWaitAll(w)
  <2>1. TypeOK' /\ HandInv'
    BY <1>0, <1>1 DEF WorkerLoop, WorkerWaitAll, TypeOK, HandInv
  <2>2. PlacesInv' /\ RunningInv'
    BY <1>0, <1>1 DEF WorkerLoop, WorkerWaitAll, PlacesInv, RunningInv, Places,
       InHand
  <2> QED
    BY <2>1, <2>2 DEF DispatchInv
<1>2. ASSUME NEW u \in User, WorkerReceive(w, u) PROVE DispatchInv'
  <2>1. WorkerOf(u) = w /\ hand[w] = NoUser
    BY <1>0, <1>2 DEF WorkerReceive, UsersOf, HandInv, TypeOK
  <2>2. TypeOK'
    BY <1>0, <1>2 DEF WorkerReceive, TypeOK
  <2>3. HandInv'
    BY <1>0, <1>2, <2>1 DEF WorkerReceive, TypeOK, HandInv
  <2>4. PlacesInv'
    BY <1>0, <1>2, <2>1 DEF WorkerReceive, TypeOK, PlacesInv, Places, InHand
  <2>5. RunningInv'
    BY <1>0, <1>2 DEF WorkerReceive, RunningInv
  <2> QED
    BY <2>2, <2>3, <2>4, <2>5 DEF DispatchInv
<1>3. CASE WorkerRun(w)
  <2>1. hand[w] \in User /\ WorkerOf(hand[w]) = w
    BY <1>0, <1>3 DEF WorkerRun, TypeOK, HandInv
  <2>2. TypeOK'
    BY <1>0, <1>3, <2>1 DEF WorkerRun, TypeOK
  <2>3. HandInv'
    BY <1>0, <1>3 DEF WorkerRun, TypeOK, HandInv
  <2>a. ASSUME NEW v \in User, v # hand[w]
        PROVE  /\ ran'[v] = ran[v] /\ running'[v] = running[v]
               /\ InHand(v)' = InHand(v)
    BY <1>0, <1>3, <2>1, <2>a DEF WorkerRun, TypeOK, InHand
  <2>b. /\ ran'[hand[w]] = ran[hand[w]] + 1
        /\ running'[hand[w]] = running[hand[w]] + 1
        /\ InHand(hand[w]) = 1
    BY <1>0, <1>3, <2>1 DEF WorkerRun, TypeOK, InHand
  <2>c. hand'[w] = NoUser
    BY <1>0, <1>3 DEF WorkerRun, TypeOK
  <2>4. PlacesInv'
    <3> SUFFICES ASSUME NEW v \in User
                 PROVE  ran'[v] + Places(v)' =
                          IF dispatch'[v] <= RunTime THEN dispatch'[v] ELSE RunTime
      BY DEF PlacesInv
    <3>1. UNCHANGED <<dispatch, due, sending>>
      BY <1>3 DEF WorkerRun
    <3>2. ran'[v] + InHand(v)' = ran[v] + InHand(v)
      <4>1. CASE v = hand[w]
        <5>1. InHand(v)' = 0
          BY <2>1, <2>c, <4>1 DEF InHand
        <5> QED
          BY <1>0, <2>b, <4>1, <5>1 DEF TypeOK
      <4>2. CASE v # hand[w]
        BY <2>a, <4>2
      <4> QED
        BY <4>1, <4>2
    <3>3. ran'[v] \in Nat /\ InHand(v)' \in Nat
      BY <2>2 DEF TypeOK, InHand
    <3>4. ran'[v] + Places(v)' = ran[v] + Places(v)
      <4>1. Places(v)' = due[v] + InHand(v)' + sending[v]["ok"] + sending[v]["err"]
        BY <3>1 DEF Places
      <4>2. Places(v) = due[v] + InHand(v) + sending[v]["ok"] + sending[v]["err"]
        BY DEF Places
      <4>3. /\ ran[v] \in Nat /\ due[v] \in Nat /\ InHand(v) \in Nat
            /\ sending[v]["ok"] \in Nat /\ sending[v]["err"] \in Nat
        BY <1>0, CountersOK
      <4> QED
        BY <3>2, <3>3, <4>1, <4>2, <4>3
    <3> QED
      BY <1>0, <3>1, <3>4 DEF PlacesInv
  <2>5. RunningInv'
    <3>1. dispatch' = dispatch
      BY <1>3 DEF WorkerRun
    <3> SUFFICES ASSUME NEW v \in User
                 PROVE  running'[v] = ran'[v] + BatchSize - dispatch[v]
      BY <3>1 DEF RunningInv
    <3>2. CASE v = hand[w]
      BY <1>0, <2>b, <3>2, CountersOK DEF RunningInv
    <3>3. CASE v # hand[w]
      BY <1>0, <2>a, <3>3 DEF RunningInv
    <3> QED
      BY <3>2, <3>3
  <2> QED
    BY <2>2, <2>3, <2>4, <2>5 DEF DispatchInv
<1> QED
  BY <1>1, <1>2, <1>3 DEF WorkerStep

\* The steps of a task: a run that ends takes a place again, or none is left.
LEMMA TaskInv ==
  ASSUME DispatchInv, NEW u \in User, TaskStep(u)
  PROVE  DispatchInv'
<1> USE ParamsOK, CaseAssumption DEF Outcome, outcomeVars, endVars, workerVars, taskVars
<1>0. TypeOK /\ HandInv /\ PlacesInv /\ RunningInv
  BY DEF DispatchInv
<1> PICK out \in Outcome :
      TaskReturn(u, out) \/ TaskSend(u, out) \/ TaskRest(u, out)
  BY DEF TaskStep
<1>1. CASE TaskReturn(u, out)
  <2>1. TypeOK'
    <3>1. bad' \in BOOLEAN
      BY <1>1 DEF TaskReturn
    <3>2. running' \in [User -> Nat] /\ dispatch' \in [User -> Nat]
      BY <1>0, <1>1 DEF TaskReturn, TypeOK
    <3>3. sending' \in [User -> [Outcome -> Nat]]
      BY <1>0, <1>1 DEF TaskReturn, TypeOK
    <3>4. resting' \in [User -> [Outcome -> Nat]]
      BY <1>0, <1>1 DEF TaskReturn, TypeOK
    <3> QED
      BY <1>0, <1>1, <3>1, <3>2, <3>3, <3>4 DEF TaskReturn, TypeOK
  <2>2. HandInv'
    BY <1>0, <1>1 DEF TaskReturn, HandInv
  <2>3. PlacesInv'
    <3> SUFFICES ASSUME NEW v \in User
                 PROVE  ran'[v] + Places(v)' =
                          IF dispatch'[v] <= RunTime THEN dispatch'[v] ELSE RunTime
      BY DEF PlacesInv
    <3>1. /\ UNCHANGED <<ran, due, hand>>
          /\ dispatch'[v] = IF v = u THEN dispatch[v] + 1 ELSE dispatch[v]
      BY <1>0, <1>1 DEF TaskReturn, TypeOK
    <3>2. InHand(v)' = InHand(v) /\ InHand(v) \in Nat
      BY <3>1 DEF InHand
    <3>3. sending'[v]["ok"] + sending'[v]["err"]
            = IF v = u /\ dispatch[u] + 1 <= RunTime
              THEN sending[v]["ok"] + sending[v]["err"] + 1
              ELSE sending[v]["ok"] + sending[v]["err"]
      BY <1>0, <1>1 DEF TaskReturn, TypeOK, RunsLeft
    <3>4. sending'[v]["ok"] \in Nat /\ sending'[v]["err"] \in Nat
      BY <2>1 DEF TypeOK
    <3>5. Places(v)' = IF v = u /\ dispatch[u] + 1 <= RunTime
                       THEN Places(v) + 1 ELSE Places(v)
      BY <1>0, <3>1, <3>2, <3>3, <3>4, CountersOK DEF Places
    <3>6. ran[v] + Places(v) =
            IF dispatch[v] <= RunTime THEN dispatch[v] ELSE RunTime
      BY <1>0 DEF PlacesInv
    <3>7. ran[v] \in Nat /\ Places(v) \in Nat /\ dispatch[v] \in Nat
      BY <1>0, CountersOK
    <3> QED
      BY <3>1, <3>5, <3>6, <3>7
  <2>4. RunningInv'
    BY <1>0, <1>1 DEF TaskReturn, TypeOK, RunningInv
  <2> QED
    BY <2>1, <2>2, <2>3, <2>4 DEF DispatchInv
<1>2. CASE TaskSend(u, out)
  <2>1. TypeOK'
    BY <1>0, <1>2 DEF TaskSend, TypeOK
  <2>2. HandInv' /\ RunningInv'
    BY <1>0, <1>2 DEF TaskSend, HandInv, RunningInv
  <2>3. PlacesInv'
    <3> SUFFICES ASSUME NEW v \in User
                 PROVE  ran'[v] + Places(v)' =
                          IF dispatch'[v] <= RunTime THEN dispatch'[v] ELSE RunTime
      BY DEF PlacesInv
    <3>1. UNCHANGED <<ran, dispatch, hand>>
      BY <1>2 DEF TaskSend
    <3>2. InHand(v)' = InHand(v) /\ InHand(v) \in Nat
      BY <3>1 DEF InHand
    <3>3. due'[v] + sending'[v]["ok"] + sending'[v]["err"]
            = due[v] + sending[v]["ok"] + sending[v]["err"]
      <4>1. CASE v = u
        <5>1. due'[v] = due[v] + 1
          BY <1>0, <1>2, <4>1 DEF TaskSend, TypeOK
        <5>2. \A o \in Outcome : sending'[v][o] =
                IF o = out THEN sending[v][o] - 1 ELSE sending[v][o]
          BY <1>0, <1>2, <4>1 DEF TaskSend, TypeOK
        <5> QED
          BY <1>0, <5>1, <5>2, CountersOK
      <4>2. CASE v # u
        BY <1>0, <1>2, <4>2 DEF TaskSend, TypeOK
      <4> QED
        BY <4>1, <4>2
    <3>4. /\ due'[v] \in Nat
          /\ sending'[v]["ok"] \in Nat /\ sending'[v]["err"] \in Nat
      BY <2>1 DEF TypeOK
    <3> QED
      BY <1>0, <3>1, <3>2, <3>3, <3>4, CountersOK DEF PlacesInv, Places
  <2> QED
    BY <2>1, <2>2, <2>3 DEF DispatchInv
<1>3. CASE TaskRest(u, out)
  <2>1. TypeOK'
    BY <1>0, <1>3 DEF TaskRest, TypeOK
  <2>2. HandInv' /\ RunningInv'
    BY <1>0, <1>3 DEF TaskRest, HandInv, RunningInv
  <2>3. PlacesInv'
    BY <1>0, <1>3 DEF TaskRest, TypeOK, PlacesInv, Places, InHand
  <2> QED
    BY <2>1, <2>2, <2>3 DEF DispatchInv
<1> QED
  BY <1>1, <1>2, <1>3

LEMMA StepInv == DispatchInv /\ [Next]_vars => DispatchInv'
<1> SUFFICES ASSUME DispatchInv, [Next]_vars PROVE DispatchInv'
  OBVIOUS
<1>1. CASE Cancel \/ CaseReturn \/ UNCHANGED vars
  BY <1>1 DEF Cancel, CaseReturn, vars, DispatchInv, TypeOK, HandInv, PlacesInv,
     RunningInv, Places, InHand, workerVars, taskVars, outcomeVars, endVars
<1> QED
  BY <1>1, WorkerInv, TaskInv DEF Next

\* The places and the runs of every user stay balanced in every reachable state.
THEOREM DispatchInvariant == Spec => []DispatchInv
  BY InitInv, StepInv, PTL DEF Spec

LEMMA UserLimits == DispatchInv => InFlightBounded /\ RunsBounded
<1>1. ASSUME DispatchInv, NEW u \in User PROVE running[u] <= BatchSize
  BY <1>1, CountersOK, ParamsOK, CaseAssumption DEF DispatchInv, PlacesInv, RunningInv
<1>2. ASSUME DispatchInv, NEW u \in User PROVE ran[u] <= RunTime
  BY <1>2, CountersOK, CaseAssumption DEF DispatchInv, PlacesInv
<1> QED BY <1>1, <1>2 DEF InFlightBounded, RunsBounded

\* At most BatchSize runs of a user are in flight, for all parameters.
THEOREM InFlightLimit == Spec => []InFlightBounded
  BY UserLimits, DispatchInvariant, PTL

\* No user gets more than RunTime runs, for all parameters.
THEOREM RunLimit == Spec => []RunsBounded
  BY UserLimits, DispatchInvariant, PTL
-----------------------------------------------------------------------------
(* Sums over the users of a worker, as sizes of sets.                      *)

LEMMA InUnits ==
  ASSUME NEW f, NEW S
  PROVE  \A x : x \in Units(f, S) <=> \E u \in S : \E k \in 1 .. f[u] : x = <<u, k>>
BY DEF Units

LEMMA UnitsFinite ==
  ASSUME NEW S, IsFiniteSet(S), NEW f, \A u \in S : f[u] \in Nat
  PROVE  IsFiniteSet(Units(f, S)) /\ Cardinality(Units(f, S)) \in Nat
<1> DEFINE g == [u \in S |-> {u} \X (1 .. f[u])]
           T == {{u} \X (1 .. f[u]) : u \in S}
<1>1. g \in Surjection(S, T)
  BY DEF Surjection
<1>2. IsFiniteSet(T)
  BY <1>1, FS_Surjection
<1>3. ASSUME NEW t \in T PROVE IsFiniteSet(t)
  <2>1. PICK u \in S : t = {u} \X (1 .. f[u])
    OBVIOUS
  <2>2. IsFiniteSet({u})
    BY FS_Singleton
  <2>3. f[u] \in Int /\ 1 \in Int
    OBVIOUS
  <2>4. IsFiniteSet(1 .. f[u])
    BY <2>3, FS_Interval
  <2> QED BY <2>1, <2>2, <2>4, FS_Product
<1>4. IsFiniteSet(UNION T)
  <2> HIDE DEF T
  <2> QED BY <1>2, <1>3, FS_UNION
<1>5. IsFiniteSet(Units(f, S))
  BY <1>4 DEF Units
<1> QED BY <1>5, FS_CardinalityType

\* One unit more, or less, at one place.
LEMMA UnitsGrow ==
  ASSUME NEW S, IsFiniteSet(S), NEW f, NEW g, NEW v \in S,
         \A u \in S : f[u] \in Nat /\ g[u] = IF u = v THEN f[u] + 1 ELSE f[u]
  PROVE  Cardinality(Units(g, S)) = Cardinality(Units(f, S)) + 1
<1> DEFINE x == <<v, f[v] + 1>>
<1>1. x \notin Units(f, S)
  BY InUnits
<1>2. Units(g, S) = Units(f, S) \cup {x}
  <2>1. ASSUME NEW y PROVE y \in Units(g, S) <=> y \in Units(f, S) \/ y = x
    <3>1. ASSUME y \in Units(g, S) PROVE y \in Units(f, S) \/ y = x
      <4>1. PICK u \in S : \E k \in 1 .. g[u] : y = <<u, k>>
        BY <3>1, InUnits
      <4>2. PICK k \in 1 .. g[u] : y = <<u, k>>
        BY <4>1
      <4>3. k \in 1 .. f[u] \/ (u = v /\ k = f[v] + 1)
        <5>1. f[u] \in Nat /\ k \in Nat /\ 1 <= k /\ k <= g[u]
              /\ g[u] = IF u = v THEN f[u] + 1 ELSE f[u]
          OBVIOUS
        <5> QED BY <5>1
      <4> QED BY <4>2, <4>3, InUnits
    <3>2. ASSUME y \in Units(f, S) PROVE y \in Units(g, S)
      <4>1. PICK u \in S : \E k \in 1 .. f[u] : y = <<u, k>>
        BY <3>2, InUnits
      <4>2. 1 .. f[u] \subseteq 1 .. g[u]
        <5>1. f[u] \in Nat /\ g[u] = IF u = v THEN f[u] + 1 ELSE f[u]
          OBVIOUS
        <5> QED BY <5>1
      <4> QED BY <4>1, <4>2, InUnits
    <3>3. ASSUME y = x PROVE y \in Units(g, S)
      <4>1. f[v] \in Nat /\ g[v] = f[v] + 1
        OBVIOUS
      <4> QED BY <3>3, <4>1, InUnits
    <3> QED BY <3>1, <3>2, <3>3
  <2> QED BY <2>1
<1> HIDE DEF x
<1> QED BY <1>1, <1>2, UnitsFinite, FS_AddElement

LEMMA UnitsShrink ==
  ASSUME NEW S, IsFiniteSet(S), NEW f, NEW g, NEW v \in S, f[v] > 0,
         \A u \in S : f[u] \in Nat /\ g[u] = IF u = v THEN f[u] - 1 ELSE f[u]
  PROVE  Cardinality(Units(g, S)) = Cardinality(Units(f, S)) - 1
<1>1. \A u \in S : g[u] \in Nat /\ f[u] = IF u = v THEN g[u] + 1 ELSE g[u]
  OBVIOUS
<1>2. Cardinality(Units(f, S)) = Cardinality(Units(g, S)) + 1
  BY <1>1, UnitsGrow
<1>3. Cardinality(Units(g, S)) \in Nat
  BY <1>1, UnitsFinite
<1> QED BY <1>2, <1>3

LEMMA UnitsSame ==
  ASSUME NEW S, NEW f, NEW g, \A u \in S : g[u] = f[u]
  PROVE  Units(g, S) = Units(f, S)
<1>1. \A x : x \in Units(g, S) <=> x \in Units(f, S)
  BY InUnits
<1> QED BY <1>1

LEMMA UnitsZero ==
  ASSUME NEW S, IsFiniteSet(S), NEW f, \A u \in S : f[u] \in Nat,
         Cardinality(Units(f, S)) = 0
  PROVE  \A u \in S : f[u] = 0
<1>1. Units(f, S) = {}
  BY UnitsFinite, FS_EmptySet
<1> SUFFICES ASSUME NEW u \in S, f[u] # 0 PROVE FALSE
  OBVIOUS
<1>2. 1 \in 1 .. f[u]
  OBVIOUS
<1>3. <<u, 1>> \in Units(f, S)
  BY <1>2, InUnits
<1> QED BY <1>1, <1>3

\* A sum of numbers up to n is at most n times their number, and less if one of
\* them is less than n.
LEMMA UnitsBounded ==
  ASSUME NEW S, IsFiniteSet(S), NEW n \in Nat, NEW f,
         \A u \in S : f[u] \in Nat /\ f[u] <= n
  PROVE  /\ Cardinality(Units(f, S)) <= n * Cardinality(S)
         /\ Cardinality(Units(f, S)) = n * Cardinality(S) => \A u \in S : f[u] = n
<1> DEFINE P == S \X (1 .. n)
<1>1. IsFiniteSet(1 .. n) /\ Cardinality(1 .. n) = n
  BY FS_Interval
<1>2. IsFiniteSet(P) /\ Cardinality(P) = Cardinality(S) * n
  BY <1>1, FS_Product
<1>3. Cardinality(S) \in Nat
  BY FS_CardinalityType
<1>4. Cardinality(P) = n * Cardinality(S)
  BY <1>2, <1>3
<1>5. Units(f, S) \in SUBSET P
  <2>1. \A u \in S : 1 .. f[u] \subseteq 1 .. n
    OBVIOUS
  <2> QED BY <2>1, InUnits
<1>6. /\ Cardinality(Units(f, S)) <= Cardinality(P)
      /\ Cardinality(P) = Cardinality(Units(f, S)) => P = Units(f, S)
  BY <1>2, <1>5, FS_Subset
<1>7. ASSUME P = Units(f, S), NEW u \in S PROVE f[u] = n
  <2>1. CASE n = 0
    BY <2>1
  <2>2. CASE n # 0
    <3>1. <<u, n>> \in P
      BY <2>2
    <3>2. n \in 1 .. f[u]
      BY <1>7, <3>1, InUnits
    <3> QED BY <3>2
  <2> QED BY <2>1, <2>2
<1> QED BY <1>4, <1>6, <1>7
-----------------------------------------------------------------------------
LEMMA QuotientAndRemainder ==
  ASSUME NEW a \in Nat, NEW b \in Nat, NEW n \in Nat \ {0},
         a \div n = b \div n, a % n = b % n
  PROVE  a = b
OBVIOUS

\* The users of a worker: u % WorkerCount is fixed, so u \div WorkerCount tells
\* them apart.
LEMMA UsersFinite ==
  ASSUME NEW w \in Worker
  PROVE  /\ IsFiniteSet(UsersOf(w)) /\ Cardinality(UsersOf(w)) \in Nat
         /\ Cardinality(UsersOf(w)) <= (UserCount \div WorkerCount) + 1
         /\ UsersOf(w) \subseteq User
<1>1. WorkerCount \in Nat \ {0}
  BY CaseAssumption DEF WorkerCount
<1> DEFINE q == UserCount \div WorkerCount
           g == [u \in UsersOf(w) |-> u \div WorkerCount]
<1>2. q \in Nat
  BY <1>1, CaseAssumption
<1>3. g \in Injection(UsersOf(w), 0 .. q)
  <2>1. ASSUME NEW u \in UsersOf(w) PROVE u \div WorkerCount \in 0 .. q
    BY <1>1, CaseAssumption DEF UsersOf, User
  <2>2. ASSUME NEW u \in UsersOf(w), NEW v \in UsersOf(w),
               u \div WorkerCount = v \div WorkerCount
        PROVE  u = v
    <3>1. u \in Nat /\ v \in Nat /\ u % WorkerCount = v % WorkerCount
      BY CaseAssumption DEF UsersOf, User, WorkerOf
    <3> QED BY <1>1, <2>2, <3>1, QuotientAndRemainder
  <2> QED BY <2>1, <2>2 DEF Injection, IsInjective
<1>4. IsFiniteSet(0 .. q) /\ Cardinality(0 .. q) = q + 1
  BY <1>2, FS_Interval
<1> HIDE DEF g, q
<1>5. IsFiniteSet(UsersOf(w)) /\ Cardinality(UsersOf(w)) <= q + 1
  BY <1>3, <1>4, FS_Injection
<1> QED BY <1>5, FS_CardinalityType DEF q, UsersOf

LEMMA UsersShared ==
  \A u \in User : WorkerOf(u) \in Worker /\ u \in UsersOf(WorkerOf(u))
BY ParamsOK DEF UsersOf

\* Each user has at most BatchSize places, so a user that waits to be put back
\* leaves room in the channel of its worker.
LEMMA RoomInChannel ==
  ASSUME DispatchInv
  PROVE  SendNeverBlocks
<1> SUFFICES ASSUME NEW u \in User, NEW out \in Outcome, sending[u][out] > 0
             PROVE  ChannelLen(WorkerOf(u)) < ChannelCap
  BY DEF SendNeverBlocks
<1> DEFINE w == WorkerOf(u)
           S == UsersOf(w)
<1>1. BatchSize \in Nat \ {0} /\ w \in Worker /\ u \in S
  BY ParamsOK, UsersShared
<1>2. ASSUME NEW v \in User
      PROVE  due[v] \in Nat /\ due[v] + sending[v]["ok"] + sending[v]["err"] <= BatchSize
             /\ sending[v]["ok"] \in Nat /\ sending[v]["err"] \in Nat
  <2>1. /\ ran[v] \in Nat /\ due[v] \in Nat /\ dispatch[v] \in Nat
        /\ running[v] \in Nat /\ InHand(v) \in Nat
        /\ sending[v]["ok"] \in Nat /\ sending[v]["err"] \in Nat
        /\ Places(v) \in Nat
    BY CountersOK DEF DispatchInv
  <2>2. ran[v] + Places(v) <= dispatch[v] /\ running[v] = ran[v] + BatchSize - dispatch[v]
    BY <2>1, CaseAssumption DEF DispatchInv, PlacesInv, RunningInv
  <2>3. Places(v) <= BatchSize
    BY <1>1, <2>1, <2>2
  <2> QED BY <1>1, <2>1, <2>3 DEF Places
<1>3. \A v \in S : due[v] \in Nat /\ due[v] <= BatchSize
  BY <1>1, <1>2 DEF UsersOf
<1>4. due[u] \in Nat /\ due[u] # BatchSize
  BY <1>1, <1>2 DEF Outcome
<1>5. /\ IsFiniteSet(S) /\ Cardinality(S) \in Nat
      /\ Cardinality(S) <= (UserCount \div WorkerCount) + 1
  BY <1>1, UsersFinite
<1>6. Cardinality(Units(due, S)) \in Nat
  BY <1>3, <1>5, UnitsFinite
<1>7. /\ Cardinality(Units(due, S)) <= BatchSize * Cardinality(S)
      /\ Cardinality(Units(due, S)) # BatchSize * Cardinality(S)
  BY <1>1, <1>3, <1>4, <1>5, UnitsBounded
<1>8. (UserCount \div WorkerCount) + 1 \in Nat
  <2>1. WorkerCount \in Nat \ {0}
    BY CaseAssumption DEF WorkerCount
  <2> QED BY <2>1, CaseAssumption
<1>9. \A b, n, m \in Nat : n <= m => b * n <= b * m /\ b * n \in Nat /\ b * m \in Nat
  OBVIOUS
<1>10. BatchSize * Cardinality(S) <= ChannelCap
       /\ BatchSize * Cardinality(S) \in Nat /\ ChannelCap \in Nat
  BY <1>1, <1>5, <1>8, <1>9 DEF ChannelCap
<1> HIDE DEF S, w
<1>11. Cardinality(Units(due, S)) < ChannelCap
  BY <1>6, <1>7, <1>10
<1> QED BY <1>11 DEF ChannelLen, S, w

\* onFinishFunc never blocks in its send, for all parameters, also when the users
\* do not divide evenly among the workers.
THEOREM SendsNeverBlock == Spec => []SendNeverBlocks
  BY RoomInChannel, DispatchInvariant, PTL
-----------------------------------------------------------------------------
(* Success.                                                                *)

SuccessInv == CountInv /\ FailInv /\ ReturnInv

LEMMA TasksNat ==
  ASSUME TypeOK, NEW u \in User
  PROVE  /\ running[u] \in Nat /\ ran[u] \in Nat
         /\ sending[u]["ok"] \in Nat /\ sending[u]["err"] \in Nat
         /\ resting[u]["ok"] \in Nat /\ resting[u]["err"] \in Nat
         /\ Tasks[u] = running[u] + sending[u]["ok"] + sending[u]["err"]
                         + resting[u]["ok"] + resting[u]["err"]
         /\ Tasks[u] \in Nat
<1>1. /\ running[u] \in Nat /\ ran[u] \in Nat
      /\ sending[u] \in [Outcome -> Nat] /\ resting[u] \in [Outcome -> Nat]
  BY DEF TypeOK
<1>2. /\ sending[u]["ok"] \in Nat /\ sending[u]["err"] \in Nat
      /\ resting[u]["ok"] \in Nat /\ resting[u]["err"] \in Nat
  BY <1>1 DEF Outcome
<1> QED BY <1>1, <1>2 DEF Tasks

\* A worker that is over has no task left.
LEMMA NoTaskLeft ==
  ASSUME TypeOK, CountInv, NEW u \in User, wg[WorkerOf(u)] = 0
  PROVE  Tasks[u] = 0
<1> DEFINE S == UsersOf(WorkerOf(u))
<1>1. WorkerOf(u) \in Worker /\ u \in S /\ IsFiniteSet(S) /\ S \subseteq User
  BY UsersShared, UsersFinite
<1>2. \A v \in S : Tasks[v] \in Nat
  BY <1>1, TasksNat
<1>3. Cardinality(Units(Tasks, S)) = 0
  BY <1>1 DEF CountInv
<1> QED BY <1>1, <1>2, <1>3, UnitsZero

\* The sums that a step leaves alone.
LEMMA CountSame ==
  ASSUME CountInv, UNCHANGED <<ran, started, wg>>, \A u \in User : Tasks'[u] = Tasks[u]
  PROVE  CountInv'
<1> SUFFICES ASSUME NEW w \in Worker
             PROVE  /\ wg'[w] = Cardinality(Units(Tasks', UsersOf(w)))
                    /\ started'[w] = Cardinality(Units(ran', UsersOf(w)))
  BY DEF CountInv
<1>1. Units(Tasks', UsersOf(w)) = Units(Tasks, UsersOf(w))
  BY UsersFinite, UnitsSame
<1> QED BY <1>1 DEF CountInv

\* A worker starts a task: both of its sums grow, those of the others do not.
LEMMA StartCounts ==
  ASSUME DispatchInv, CountInv, TypeOK', NEW w \in Worker, WorkerRun(w)
  PROVE  CountInv'
<1> DEFINE v == hand[w]
<1>1. TypeOK /\ v \in User /\ WorkerOf(v) = w
  BY DEF DispatchInv, WorkerRun, TypeOK, HandInv
<1>2. /\ running' = [running EXCEPT ![v] = @ + 1] /\ ran' = [ran EXCEPT ![v] = @ + 1]
      /\ wg' = [wg EXCEPT ![w] = @ + 1] /\ started' = [started EXCEPT ![w] = @ + 1]
      /\ UNCHANGED <<sending, resting>>
  BY DEF WorkerRun
<1> HIDE DEF v
<1>3. ASSUME NEW u \in User
      PROVE  /\ Tasks[u] \in Nat /\ Tasks'[u] = IF u = v THEN Tasks[u] + 1 ELSE Tasks[u]
             /\ ran[u] \in Nat /\ ran'[u] = IF u = v THEN ran[u] + 1 ELSE ran[u]
  <2>1. /\ running[u] \in Nat /\ ran[u] \in Nat
        /\ sending[u]["ok"] \in Nat /\ sending[u]["err"] \in Nat
        /\ resting[u]["ok"] \in Nat /\ resting[u]["err"] \in Nat
        /\ Tasks[u] = running[u] + sending[u]["ok"] + sending[u]["err"]
                         + resting[u]["ok"] + resting[u]["err"]
        /\ Tasks[u] \in Nat
    BY <1>1, TasksNat
  <2>2. Tasks'[u] = running'[u] + sending[u]["ok"] + sending[u]["err"]
                         + resting[u]["ok"] + resting[u]["err"]
    BY <1>2 DEF Tasks
  <2>3. /\ running'[u] = IF u = v THEN running[u] + 1 ELSE running[u]
        /\ ran'[u] = IF u = v THEN ran[u] + 1 ELSE ran[u]
    BY <1>1, <1>2 DEF TypeOK
  <2> QED BY <2>1, <2>2, <2>3
<1> SUFFICES ASSUME NEW x \in Worker
             PROVE  /\ wg'[x] = Cardinality(Units(Tasks', UsersOf(x)))
                    /\ started'[x] = Cardinality(Units(ran', UsersOf(x)))
  BY DEF CountInv
<1>4. /\ IsFiniteSet(UsersOf(x)) /\ UsersOf(x) \subseteq User
      /\ v \in UsersOf(x) <=> x = w
  BY <1>1, UsersFinite DEF UsersOf
<1>5. wg[x] = Cardinality(Units(Tasks, UsersOf(x)))
      /\ started[x] = Cardinality(Units(ran, UsersOf(x)))
  BY DEF CountInv
<1>6. /\ wg'[x] = IF x = w THEN wg[x] + 1 ELSE wg[x]
      /\ started'[x] = IF x = w THEN started[x] + 1 ELSE started[x]
  BY <1>1, <1>2 DEF TypeOK
<1>7. CASE x = w
  <2>1. v \in UsersOf(x)
    BY <1>4, <1>7
  <2>2. Cardinality(Units(Tasks', UsersOf(x))) = Cardinality(Units(Tasks, UsersOf(x))) + 1
    BY <1>3, <1>4, <2>1, UnitsGrow
  <2>3. Cardinality(Units(ran', UsersOf(x))) = Cardinality(Units(ran, UsersOf(x))) + 1
    BY <1>3, <1>4, <2>1, UnitsGrow
  <2> QED BY <1>5, <1>6, <1>7, <2>2, <2>3
<1>8. CASE x # w
  <2>1. \A u \in UsersOf(x) : Tasks'[u] = Tasks[u] /\ ran'[u] = ran[u]
    BY <1>3, <1>4, <1>8
  <2>2. Units(Tasks', UsersOf(x)) = Units(Tasks, UsersOf(x))
        /\ Units(ran', UsersOf(x)) = Units(ran, UsersOf(x))
    BY <2>1, UnitsSame
  <2> QED BY <1>5, <1>6, <1>8, <2>2
<1> QED BY <1>7, <1>8

\* A task is over: OnTaskFinish counts down what RunTaskAction has counted up.
LEMMA RestCounts ==
  ASSUME TypeOK, CountInv, NEW v \in User, NEW out \in Outcome, TaskRest(v, out)
  PROVE  CountInv' /\ Tasks[v] > 0
<1> DEFINE w == WorkerOf(v)
<1>1. /\ resting[v][out] > 0 /\ resting' = [resting EXCEPT ![v][out] = @ - 1]
      /\ wg' = [wg EXCEPT ![w] = @ - 1] /\ UNCHANGED <<running, sending, ran, started>>
  BY DEF TaskRest, workerVars
<1>2. ASSUME NEW u \in User
      PROVE  /\ Tasks[u] \in Nat /\ Tasks'[u] = IF u = v THEN Tasks[u] - 1 ELSE Tasks[u]
             /\ (u = v => Tasks[u] > 0)
  <2>1. /\ running[u] \in Nat
        /\ sending[u]["ok"] \in Nat /\ sending[u]["err"] \in Nat
        /\ resting[u]["ok"] \in Nat /\ resting[u]["err"] \in Nat
        /\ Tasks[u] = running[u] + sending[u]["ok"] + sending[u]["err"]
                         + resting[u]["ok"] + resting[u]["err"]
        /\ Tasks[u] \in Nat
    BY TasksNat
  <2>2. Tasks'[u] = running[u] + sending[u]["ok"] + sending[u]["err"]
                         + resting'[u]["ok"] + resting'[u]["err"]
    BY <1>1 DEF Tasks
  <2>3. \A o \in Outcome :
          resting'[u][o] = IF u = v /\ o = out THEN resting[u][o] - 1 ELSE resting[u][o]
    BY <1>1 DEF TypeOK
  <2> QED BY <1>1, <2>1, <2>2, <2>3 DEF Outcome
<1>3. w \in Worker
  BY UsersShared
<1>4. ASSUME NEW x \in Worker
      PROVE  wg'[x] = Cardinality(Units(Tasks', UsersOf(x)))
  <2>1. /\ IsFiniteSet(UsersOf(x)) /\ UsersOf(x) \subseteq User
        /\ v \in UsersOf(x) <=> x = w
    BY UsersFinite DEF UsersOf
  <2>2. wg[x] = Cardinality(Units(Tasks, UsersOf(x)))
        /\ wg'[x] = IF x = w THEN wg[x] - 1 ELSE wg[x]
    BY <1>1, <1>3 DEF CountInv, TypeOK
  <2>3. CASE x = w
    <3>1. Cardinality(Units(Tasks', UsersOf(x))) = Cardinality(Units(Tasks, UsersOf(x))) - 1
      BY <1>2, <2>1, <2>3, UnitsShrink
    <3> QED BY <2>2, <2>3, <3>1
  <2>4. CASE x # w
    <3>1. \A u \in UsersOf(x) : Tasks'[u] = Tasks[u]
      BY <1>2, <2>1, <2>4
    <3>2. Units(Tasks', UsersOf(x)) = Units(Tasks, UsersOf(x))
      BY <3>1, UnitsSame
    <3> QED BY <2>2, <2>4, <3>2
  <2> QED BY <2>3, <2>4
<1> QED BY <1>1, <1>2, <1>4 DEF CountInv

\* The steps of a worker: it returns early only when it was told to.
LEMMA WorkerSuccess ==
  ASSUME DispatchInv, SuccessInv, TypeOK', NEW w \in Worker, WorkerStep(w)
  PROVE  SuccessInv'
<1> USE DEF Goto, outcomeVars, endVars, taskVars
<1>1. TypeOK /\ CountInv /\ FailInv /\ ReturnInv
  BY DEF DispatchInv, SuccessInv
<1>2. UNCHANGED <<sending, resting, bad, failed, broke, cancelled, result>>
  BY DEF WorkerStep, WorkerLoop, WorkerReceive, WorkerRun, WorkerWaitAll
<1>3. FailInv'
  BY <1>1, <1>2 DEF FailInv
<1>4. CASE WorkerRun(w)
  <2>1. CountInv'
    BY <1>1, <1>4, StartCounts
  <2>2. /\ wpc[w] = "acquire" /\ wpc' = [wpc EXCEPT ![w] =
             IF started[w] + 1 >= TotalTasks(w) THEN "waitall" ELSE "loop"]
        /\ started' = [started EXCEPT ![w] = @ + 1] /\ wg' = [wg EXCEPT ![w] = @ + 1]
    BY <1>4 DEF WorkerRun
  <2>3. result # "success"
    BY <1>1, <2>2 DEF ReturnInv
  <2>4. ASSUME NEW x \in Worker
        PROVE  /\ wpc'[x] = "waitall" => started'[x] >= TotalTasks(x)
               /\ wpc'[x] = "returned" => broke \/ cancelled \/ Over(x)'
    <3>1. CASE x = w
      BY <1>1, <2>2, <3>1 DEF TypeOK
    <3>2. CASE x # w
      <4>1. wpc'[x] = wpc[x] /\ started'[x] = started[x] /\ wg'[x] = wg[x]
        BY <1>1, <2>2, <3>2 DEF TypeOK
      <4> QED BY <1>1, <4>1 DEF ReturnInv, Over
    <3> QED BY <3>1, <3>2
  <2>5. ReturnInv'
    BY <1>2, <2>3, <2>4 DEF ReturnInv
  <2> QED BY <1>3, <2>1, <2>5 DEF SuccessInv
<1>5. CASE ~WorkerRun(w)
  <2>1. UNCHANGED <<running, ran, started, wg>>
    BY <1>5 DEF WorkerStep, WorkerLoop, WorkerReceive, WorkerWaitAll
  <2>2. CountInv'
    <3>1. \A u \in User : Tasks'[u] = Tasks[u]
      BY <1>2, <2>1 DEF Tasks
    <3> QED BY <1>1, <2>1, <3>1, CountSame
  <2>3. /\ \E l \in {"loop", "receive", "acquire", "returned"} : wpc' = [wpc EXCEPT ![w] = l]
        /\ wpc[w] # "returned"
        /\ wpc'[w] = "returned" => broke \/ cancelled \/ Over(w)
    <3>1. CASE WorkerLoop(w)
      BY <1>1, <3>1 DEF WorkerLoop, TypeOK
    <3>2. CASE \E u \in User : WorkerReceive(w, u)
      BY <1>1, <3>2 DEF WorkerReceive, TypeOK
    <3>3. CASE WorkerWaitAll(w)
      BY <1>1, <3>3 DEF WorkerWaitAll, TypeOK, ReturnInv, Over
    <3> QED BY <1>5, <3>1, <3>2, <3>3 DEF WorkerStep
  <2>4. result # "success"
    BY <1>1, <2>3 DEF ReturnInv
  <2>5. ASSUME NEW x \in Worker
        PROVE  /\ wpc'[x] = "waitall" => started'[x] >= TotalTasks(x)
               /\ wpc'[x] = "returned" => broke \/ cancelled \/ Over(x)'
    <3>1. Over(x)' <=> Over(x)
      BY <2>1 DEF Over
    <3>2. wpc'[x] = wpc[x] \/ (x = w /\ wpc'[x] # "waitall")
      BY <1>1, <2>3 DEF TypeOK
    <3> QED BY <1>1, <2>1, <2>3, <3>1, <3>2 DEF ReturnInv
  <2>6. ReturnInv'
    BY <1>2, <2>4, <2>5 DEF ReturnInv
  <2> QED BY <1>3, <2>2, <2>6 DEF SuccessInv
<1> QED BY <1>4, <1>5

\* The steps of a task: a failure is counted before the task is.
LEMMA TaskSuccess ==
  ASSUME DispatchInv, SuccessInv, NEW u \in User, TaskStep(u)
  PROVE  SuccessInv'
<1> USE DEF outcomeVars, endVars, workerVars
<1>1. TypeOK /\ CountInv /\ FailInv /\ ReturnInv
  BY DEF DispatchInv, SuccessInv
<1>2. PICK out \in Outcome : TaskReturn(u, out) \/ TaskSend(u, out) \/ TaskRest(u, out)
  BY DEF TaskStep
<1>3. UNCHANGED <<wpc, started, ran, cancelled, result>>
  BY <1>2 DEF TaskReturn, TaskSend, TaskRest
<1>4. \A v \in User : /\ sending[v] \in [Outcome -> Nat] /\ resting[v] \in [Outcome -> Nat]
                      /\ running[v] \in Nat
  BY <1>1 DEF TypeOK
<1>5. failed \in Nat
  BY <1>1 DEF TypeOK
<1>6. CASE TaskReturn(u, out) \/ TaskSend(u, out)
  <2>1. UNCHANGED <<wg, failed, broke>>
    BY <1>6 DEF TaskReturn, TaskSend
  <2>2. ASSUME NEW v \in User
        PROVE  /\ Tasks'[v] = Tasks[v]
               /\ sending'[v]["err"] + resting'[v]["err"] >= sending[v]["err"] + resting[v]["err"]
               /\ (bad' # bad /\ v = u => sending'[v]["err"] + resting'[v]["err"] > 0)
    <3>1. /\ running[v] \in Nat
          /\ sending[v]["ok"] \in Nat /\ sending[v]["err"] \in Nat
          /\ resting[v]["ok"] \in Nat /\ resting[v]["err"] \in Nat
          /\ Tasks[v] = running[v] + sending[v]["ok"] + sending[v]["err"]
                         + resting[v]["ok"] + resting[v]["err"]
      BY <1>1, TasksNat
    <3>2. Tasks'[v] = running'[v] + sending'[v]["ok"] + sending'[v]["err"]
                         + resting'[v]["ok"] + resting'[v]["err"]
      BY DEF Tasks
    <3>3. CASE TaskReturn(u, out)
      <4>1. /\ running'[v] = IF v = u THEN running[v] - 1 ELSE running[v]
            /\ \/ /\ resting' = resting
                  /\ \A o \in Outcome : sending'[v][o] =
                       IF v = u /\ o = out THEN sending[v][o] + 1 ELSE sending[v][o]
               \/ /\ sending' = sending
                  /\ \A o \in Outcome : resting'[v][o] =
                       IF v = u /\ o = out THEN resting[v][o] + 1 ELSE resting[v][o]
        BY <1>1, <1>4, <3>3 DEF TaskReturn, TypeOK
      <4>2. bad' # bad => out = "err"
        BY <1>1, <3>3 DEF TaskReturn, TypeOK
      <4> QED BY <3>1, <3>2, <4>1, <4>2 DEF Outcome
    <3>4. CASE TaskSend(u, out)
      <4>1. /\ running' = running /\ bad' = bad
            /\ \A o \in Outcome : sending'[v][o] =
                 IF v = u /\ o = out THEN sending[v][o] - 1 ELSE sending[v][o]
            /\ \A o \in Outcome : resting'[v][o] =
                 IF v = u /\ o = out THEN resting[v][o] + 1 ELSE resting[v][o]
        BY <1>1, <1>4, <3>4 DEF TaskSend, TypeOK
      <4>2. /\ sending'[v]["ok"] + resting'[v]["ok"] = sending[v]["ok"] + resting[v]["ok"]
            /\ sending'[v]["err"] + resting'[v]["err"] = sending[v]["err"] + resting[v]["err"]
            /\ sending'[v]["ok"] \in Int /\ resting'[v]["ok"] \in Int
            /\ sending'[v]["err"] \in Int /\ resting'[v]["err"] \in Int
        BY <3>1, <4>1 DEF Outcome
      <4>3. Tasks'[v] = Tasks[v]
        <5>1. running'[v] = running[v] /\ running[v] \in Int
          BY <3>1, <4>1
        <5>2. running[v] + sending'[v]["ok"] + sending'[v]["err"]
                 + resting'[v]["ok"] + resting'[v]["err"]
              = running[v] + sending[v]["ok"] + sending[v]["err"]
                 + resting[v]["ok"] + resting[v]["err"]
          <6> DEFINE a == sending[v]["ok"]
                     b == sending[v]["err"]
                     c == resting[v]["ok"]
                     d == resting[v]["err"]
                     i == sending'[v]["ok"]
                     j == sending'[v]["err"]
                     k == resting'[v]["ok"]
                     l == resting'[v]["err"]
                     r == running[v]
          <6>1. /\ a \in Int /\ b \in Int /\ c \in Int /\ d \in Int /\ r \in Int
                /\ i \in Int /\ j \in Int /\ k \in Int /\ l \in Int
                /\ i + k = a + c /\ j + l = b + d
            BY <3>1, <4>2
          <6> HIDE DEF a, b, c, d, i, j, k, l, r
          <6>2. r + i + j + k + l = r + a + b + c + d
            BY <6>1
          <6> QED BY <6>2 DEF a, b, c, d, i, j, k, l, r
        <5> QED BY <3>1, <3>2, <5>1, <5>2
      <4> QED BY <3>1, <4>1, <4>2, <4>3
    <3> QED BY <1>6, <3>3, <3>4
  <2>3. CountInv'
    BY <1>1, <1>3, <2>1, <2>2, CountSame
  <2>4. FailInv'
    <3>1. \A v \in User : /\ sending[v]["err"] + resting[v]["err"] \in Int
                          /\ sending'[v]["err"] + resting'[v]["err"] >=
                               sending[v]["err"] + resting[v]["err"]
      BY <1>4, <2>2 DEF Outcome
    <3>2. ASSUME bad', ~(failed > 0)
          PROVE  \E v \in User : sending'[v]["err"] + resting'[v]["err"] > 0
      <4>1. CASE bad' # bad
        BY <2>2, <4>1
      <4>2. CASE bad' = bad
        <5>1. PICK v \in User : sending[v]["err"] + resting[v]["err"] > 0
          BY <1>1, <3>2, <4>2 DEF FailInv
        <5>2. TypeOK'
          BY TaskInv DEF DispatchInv
        <5>3. sending'[v]["err"] + resting'[v]["err"] \in Int
          BY <5>2 DEF TypeOK, Outcome
        <5> QED BY <3>1, <5>1, <5>3
      <4> QED BY <4>1, <4>2
    <3> QED BY <1>1, <2>1, <3>2 DEF FailInv
  <2>5. ReturnInv'
    BY <1>1, <1>3, <2>1 DEF ReturnInv, Over
  <2> QED BY <2>3, <2>4, <2>5 DEF SuccessInv
<1>7. CASE TaskRest(u, out)
  <2>1. CountInv' /\ Tasks[u] > 0
    BY <1>1, <1>7, RestCounts
  <2>2. WorkerOf(u) \in Worker /\ wg[WorkerOf(u)] # 0
    BY <1>1, <2>1, NoTaskLeft, UsersShared
  <2>3. /\ UNCHANGED <<sending, bad>>
        /\ failed' = IF out = "err" THEN failed + 1 ELSE failed
        /\ broke' = (broke \/ (out = "err" /\ ErrorBreak))
        /\ wg' = [wg EXCEPT ![WorkerOf(u)] = @ - 1]
        /\ resting' = [resting EXCEPT ![u][out] = @ - 1]
    BY <1>7 DEF TaskRest
  <2>4. FailInv'
    <3>1. CASE out = "err"
      BY <1>5, <2>3, <3>1 DEF FailInv
    <3>2. CASE out # "err"
      <4>1. \A v \in User : resting'[v]["err"] = resting[v]["err"]
        BY <1>1, <2>3, <3>2 DEF TypeOK, Outcome
      <4> QED BY <1>1, <2>3, <3>2, <4>1 DEF FailInv
    <3> QED BY <3>1, <3>2
  <2>5. \A x \in Worker : Over(x) => Over(x)'
    BY <1>1, <1>3, <2>2, <2>3 DEF Over, TypeOK
  <2>6. result # "success"
    BY <1>1, <2>2 DEF ReturnInv, Over
  <2>7. ReturnInv'
    BY <1>1, <1>3, <2>3, <2>5, <2>6 DEF ReturnInv
  <2> QED BY <2>1, <2>4, <2>7 DEF SuccessInv
<1> QED BY <1>2, <1>6, <1>7

HonestInv == DispatchInv /\ SuccessInv

LEMMA SuccessInit ==
  ASSUME Init PROVE SuccessInv
<1>1. /\ \A u \in User : Tasks[u] = 0 /\ ran[u] = 0
      /\ \A w \in Worker : wg[w] = 0 /\ started[w] = 0
  BY DEF Init, Tasks, Outcome
<1>2. ASSUME NEW w \in Worker
      PROVE  Units(Tasks, UsersOf(w)) = {} /\ Units(ran, UsersOf(w)) = {}
  <2>1. \A u \in UsersOf(w) : Tasks[u] = 0 /\ ran[u] = 0
    BY <1>1 DEF UsersOf
  <2> QED BY <2>1, InUnits
<1>3. CountInv
  BY <1>1, <1>2, FS_EmptySet DEF CountInv
<1> QED BY <1>3 DEF Init, SuccessInv, FailInv, ReturnInv

LEMMA SuccessStep ==
  ASSUME DispatchInv, SuccessInv, DispatchInv', [Next]_vars PROVE SuccessInv'
<1> USE DEF workerVars, taskVars, outcomeVars, endVars
<1>1. CASE Cancel \/ CaseReturn \/ UNCHANGED vars
  <2>1. UNCHANGED <<running, sending, resting, ran, started, wg, wpc, bad, failed, broke>>
    BY <1>1 DEF Cancel, CaseReturn, vars
  <2>2. CountInv'
    <3>1. \A u \in User : Tasks'[u] = Tasks[u]
      BY <2>1 DEF Tasks
    <3> QED BY <2>1, <3>1, CountSame DEF SuccessInv
  <2>3. FailInv'
    BY <2>1 DEF SuccessInv, FailInv
  <2>4. \A w \in Worker : Over(w)' <=> Over(w)
    BY <2>1 DEF Over
  <2>5. (cancelled => cancelled') /\ (result' = "success" =>
           failed = 0 /\ \A w \in Worker : wpc[w] = "returned" /\ Over(w))
    <3>1. CASE Cancel
      BY <3>1 DEF Cancel, SuccessInv, ReturnInv
    <3>2. CASE CaseReturn
      BY <3>2 DEF CaseReturn, SuccessInv, ReturnInv, FailInv
    <3>3. CASE UNCHANGED vars
      BY <3>3 DEF vars, SuccessInv, ReturnInv
    <3> QED BY <1>1, <3>1, <3>2, <3>3
  <2>6. ReturnInv'
    BY <2>1, <2>4, <2>5 DEF SuccessInv, ReturnInv
  <2> QED BY <2>2, <2>3, <2>6 DEF SuccessInv
<1> QED
  BY <1>1, WorkerSuccess, TaskSuccess DEF Next, DispatchInv

LEMMA SuccessEarned ==
  ASSUME DispatchInv, SuccessInv PROVE SuccessIsHonest
<1> SUFFICES ASSUME result = "success"
             PROVE  (\A u \in User : ran[u] = RunTime /\ running[u] = 0) /\ ~bad
  BY DEF SuccessIsHonest
<1>1. TypeOK /\ failed = 0 /\ \A w \in Worker : Over(w)
  BY DEF DispatchInv, SuccessInv, ReturnInv
<1>2. ASSUME NEW u \in User
      PROVE  running[u] = 0 /\ sending[u]["err"] + resting[u]["err"] = 0
  <2>1. Tasks[u] = 0
    BY <1>1, NoTaskLeft, UsersShared DEF SuccessInv, Over
  <2>2. /\ running[u] \in Nat
        /\ sending[u]["ok"] \in Nat /\ sending[u]["err"] \in Nat
        /\ resting[u]["ok"] \in Nat /\ resting[u]["err"] \in Nat
        /\ Tasks[u] = running[u] + sending[u]["ok"] + sending[u]["err"]
                        + resting[u]["ok"] + resting[u]["err"]
    BY <1>1, TasksNat
  <2> QED BY <2>1, <2>2
<1>3. ASSUME NEW u \in User PROVE ran[u] = RunTime
  <2> DEFINE w == WorkerOf(u)
             S == UsersOf(w)
  <2>1. w \in Worker /\ u \in S /\ IsFiniteSet(S) /\ S \subseteq User /\ Cardinality(S) \in Nat
    BY UsersShared, UsersFinite
  <2>2. \A v \in User : ran[v] \in Nat /\ ran[v] <= RunTime
    BY CountersOK, CaseAssumption DEF DispatchInv, PlacesInv
  <2>3. started[w] = Cardinality(Units(ran, S)) /\ started[w] >= RunTime * Cardinality(S)
        /\ started[w] \in Nat
    BY <1>1, <2>1 DEF SuccessInv, CountInv, Over, TotalTasks, TypeOK
  <2>4. RunTime * Cardinality(S) \in Nat
    BY <2>1, CaseAssumption
  <2> HIDE DEF S, w
  <2>5. /\ Cardinality(Units(ran, S)) <= RunTime * Cardinality(S)
        /\ Cardinality(Units(ran, S)) = RunTime * Cardinality(S) =>
             \A v \in S : ran[v] = RunTime
    BY <2>1, <2>2, CaseAssumption, UnitsBounded
  <2> QED BY <2>1, <2>3, <2>4, <2>5
<1>4. ~bad
  BY <1>1, <1>2 DEF SuccessInv, FailInv
<1> QED BY <1>2, <1>3, <1>4

\* The two invariants together, which other specifications inherit through the
\* refinement of this one.
LEMMA HonestInit == Init => HonestInv
BY InitInv, SuccessInit DEF HonestInv

LEMMA HonestStep == HonestInv /\ [Next]_vars => HonestInv'
BY StepInv, SuccessStep DEF HonestInv

LEMMA HonestHolds == HonestInv => InFlightBounded /\ RunsBounded /\ SuccessIsHonest
BY UserLimits, SuccessEarned DEF HonestInv

\* Success is only reported with all workers over and nothing failed: every user
\* has had its RunTime runs, although a worker only counts the sum, and no failure
\* is still on its way to the count.
THEOREM SuccessMeansAllRan == Spec => []SuccessIsHonest
  BY HonestInit, HonestStep, HonestHolds, PTL DEF Spec
=============================================================================
