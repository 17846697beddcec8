------------------------- MODULE MasterAgentProofs -------------------------
(***************************************************************************)
(* For every set of agents, reports and requests: a report that is "done"  *)
(* has run, and the open ids of a line are shared out exactly once.        *)
(***************************************************************************)
EXTENDS MasterAgent, TLAPS

DistAt == {"none", "submit", "next", "wait", "drain", "aggregate", "end"}
RunAt == {"none", "run", "stopped", "exec", "ok", "err", "dead"}

Types ==
  /\ req \in [Report -> Requests]
  /\ status \in [Report -> {"none", "running", "stopped", "done", "error"}]
  /\ dist \in [Report -> [at : DistAt, i : Nat \ {0}, bg : Seq(Nat)]]
  /\ line \in [Report -> [1..MaxIndex -> {"none", "spawned", "sent", "failed"}]]
  /\ sel \in [Report -> [1..MaxIndex -> SUBSET Agent]]
  /\ call \in [Part -> {"none", "enqueue", "void", "wait", "ok", "err"}]
  /\ inbox \in [Part -> {"empty", "ok", "err"}]
  /\ run \in [Part -> RunAt]
  /\ watch \in [Part -> {"none", "open", "gone"}]
  /\ queue \in [Agent -> Seq(Part)]

\* A part whose key has no report in it.
Shared(p) == OneSecond /\ LineAt(p.r, p.i).kind # "stress"

Succeeded(p) == run[p] \in {"ok", "exec"}

\* A channel is registered under the key of its own part.
ResultsInv == \A e \in results : \E q \in Part : e = <<Key(q), q>>

In(s, x) == \E k \in 1..Len(s) : s[k] = x

Distinct(s) == \A j, k \in 1..Len(s) : s[j] = s[k] => j = k

\* A part is queued at most once and taken at most once.
OnceQueued ==
  /\ \A p \in Part : line[p.r][p.i] \in {"none", "spawned"} => call[p] = "none"
  /\ \A p \in Part : call[p] \in {"none", "enqueue", "void"} =>
       run[p] = "none" /\ \A a \in Agent : ~In(queue[a], p)
  /\ \A a \in Agent :
       /\ Distinct(queue[a])
       /\ \A p \in Part : In(queue[a], p) => run[p] = "none" /\ p.a = a

\* Only a stress part that runs is watched.
WatchInv ==
  \A p \in Part : watch[p] = "open" =>
    run[p] \in {"run", "stopped"} /\ LineAt(p.r, p.i).kind = "stress"

\* A success that was reported has happened.
HonestResults ==
  \A p \in Part : ~Shared(p) /\ (inbox[p] = "ok" \/ call[p] = "ok") => Succeeded(p)

PartInv == ResultsInv /\ OnceQueued /\ WatchInv /\ HonestResults

\* A line that was waited for, and did not end the report, has succeeded if
\* errors break.
Settled(r, i) ==
  LineAt(r, i).errorBreak =>
    /\ line[r][i] = "sent"
    /\ \A a \in sel[r][i] : call[[r |-> r, i |-> i, a |-> a]] = "ok"

InBg(r, i) == In(dist[r].bg, i)

\* A line is not sent before its turn; what is not waited for any more is
\* settled; the last line of the last round waits for all.
DistOf(r) ==
  /\ status[r] = "none" => dist[r].at = "none"
  /\ dist[r].at \in {"none", "submit"} => dist[r].i = 1 /\ dist[r].bg = << >>
  /\ \A i \in 1..MaxIndex : i >= dist[r].i => line[r][i] = "none"
  /\ \A i : InBg(r, i) => i \in Index(r)
  /\ dist[r].at # "end" =>
       \A i \in Index(r) : i < dist[r].i => InBg(r, i) \/ Settled(r, i)
  /\ dist[r].at = "next" /\ dist[r].bg # << >> => dist[r].i \in Index(r)
  /\ dist[r].at = "aggregate" => dist[r].bg = << >> /\ dist[r].i \notin Index(r)
  /\ status[r] = "done" => dist[r].at = "end" /\ \A i \in Index(r) : Settled(r, i)

DistInv == \A r \in Report : DistOf(r)

IInv == Types /\ PartInv /\ DistInv
-----------------------------------------------------------------------------
(* Division.                                                               *)

\* Quotient and remainder.
LEMMA Division ==
  ASSUME NEW a \in Nat, NEW b \in Nat \ {0}
  PROVE  /\ a \div b \in Nat
         /\ b * (a \div b) <= a
         /\ a < b * (a \div b) + b
OBVIOUS

\* A product is smaller only if a factor is.
LEMMA SmallerFactor ==
  ASSUME NEW j \in Nat, NEW k \in Nat, NEW p \in Nat \ {0}, j * p < k * p
  PROVE  j < k
<1> SUFFICES ASSUME ~(j < k) PROVE FALSE
  OBVIOUS
<1>1. PICK d \in Nat : j = k + d
  <2>1. j - k \in Nat /\ j = k + (j - k)
    OBVIOUS
  <2> QED BY <2>1
<1>2. j * p = k * p + d * p
  BY <1>1
<1>3. d * p >= 0 /\ d * p \in Nat
  OBVIOUS
<1> QED BY <1>2, <1>3

\* The last line of the last round ends it.
LEMMA LastOfRounds ==
  ASSUME NEW m \in Nat \ {0}, NEW n \in Nat \ {0}, NEW i \in 1..(m * n), i % n # 0
  PROVE  i + 1 \in 1..(m * n)
<1>1. (m * n) % n = 0
  OBVIOUS
<1>2. m * n \in Nat
  OBVIOUS
<1>3. i # m * n
  BY <1>1
<1> QED BY <1>2, <1>3
-----------------------------------------------------------------------------
(* The shares of a line.                                                   *)

\* The shares are large enough for all ids, and not empty if there is one.
LEMMA PerAgentFacts ==
  ASSUME NEW s \in Int, NEW e \in Int, s <= e, NEW n \in Nat \ {0}
  PROVE  /\ PerAgent(s, e, n) \in Nat
         /\ e - s <= n * PerAgent(s, e, n)
         /\ s < e => PerAgent(s, e, n) # 0
<1> DEFINE x == e - s + n - 1
<1>1. x \in Nat
  OBVIOUS
<1>2. PerAgent(s, e, n) = x \div n
  BY DEF PerAgent
<1> HIDE DEF x
<1>3. /\ PerAgent(s, e, n) \in Nat
      /\ n * PerAgent(s, e, n) <= x
      /\ x < n * PerAgent(s, e, n) + n
  BY <1>1, <1>2, Division
<1>4. e - s <= n * PerAgent(s, e, n)
  BY <1>3 DEF x
<1>5. PerAgent(s, e, n) = 0 => n * PerAgent(s, e, n) = 0
  OBVIOUS
<1> QED BY <1>3, <1>4, <1>5

\* distributeSingleCase shares the ids of a line out so that every id is run by
\* exactly one of the agents and no other id is run, however many ids and agents
\* there are: with a share of ceil(ids / agents), cut off at the end.
THEOREM SharesCoverOnce ==
  ASSUME NEW s \in Int, NEW e \in Int, s <= e, NEW n \in Nat \ {0}
  PROVE  ExactlyOnce(s, e, n)
<1> DEFINE P == PerAgent(s, e, n)
<1>1. P \in Nat /\ e - s <= n * P /\ (s < e => P # 0)
  BY PerAgentFacts
<1>2. ASSUME NEW i \in 0..(n - 1)
      PROVE  /\ ShareStart(s, e, n, i) = s + i * P
             /\ ShareEnd(s, e, n, i) = IF s + i * P + P > e THEN e ELSE s + i * P + P
  BY DEF ShareStart, ShareEnd
<1> HIDE DEF P
<1>3. ASSUME NEW id \in s..(e - 1)
      PROVE  \E i \in 0..(n - 1) :
               /\ InShare(s, e, n, i, id)
               /\ \A j \in 0..(n - 1) : InShare(s, e, n, j, id) => j = i
  <2> DEFINE k == (id - s) \div P
  <2>1. P \in Nat \ {0} /\ id - s \in Nat
    BY <1>1
  <2>2. k \in Nat /\ P * k <= id - s /\ id - s < P * k + P
    BY <2>1, Division
  <2> HIDE DEF k
  <2>3. k * P = P * k /\ k * P < n * P /\ k * P \in Nat
    BY <1>1, <2>1, <2>2
  <2>4. k \in 0..(n - 1)
    <3>1. k < n
      BY <2>1, <2>2, <2>3, SmallerFactor
    <3> QED BY <3>1, <2>2
  <2>5. InShare(s, e, n, k, id)
    BY <1>2, <2>1, <2>2, <2>3, <2>4 DEF InShare
  <2>6. ASSUME NEW j \in 0..(n - 1), InShare(s, e, n, j, id)
        PROVE  j = k
    <3>1. j \in Nat /\ j * P \in Nat
      BY <2>1
    <3>2. s + j * P <= id /\ id < s + j * P + P
      BY <1>2, <2>1, <2>6, <3>1 DEF InShare
    <3>3. (j + 1) * P = j * P + P /\ (k + 1) * P = k * P + P
      BY <2>1, <2>2, <3>1
    <3>4. j * P < (k + 1) * P /\ k * P < (j + 1) * P
      BY <2>1, <2>2, <2>3, <3>1, <3>2, <3>3
    <3>5. j < k + 1
      BY <2>1, <2>2, <3>1, <3>4, SmallerFactor
    <3>6. k < j + 1
      BY <2>1, <2>2, <3>1, <3>4, SmallerFactor
    <3> QED BY <3>1, <3>5, <3>6, <2>2
  <2> QED BY <2>4, <2>5, <2>6
<1>4. ASSUME NEW i \in 0..(n - 1), HasShare(s, e, n, i)
      PROVE  s <= ShareStart(s, e, n, i) /\ ShareEnd(s, e, n, i) <= e
  <2>1. i * P \in Nat
    BY <1>1
  <2> QED BY <1>1, <1>2, <2>1
<1> QED BY <1>3, <1>4 DEF ExactlyOnce

\* The same for the reports that are submitted.
THEOREM IdsShared == Spec => []IdsRunOnce
<1>1. ASSUME req \in [Report -> Requests]
      PROVE  IdsRunOnce
  <2>1. ASSUME NEW r \in Report
        PROVE  req[r].ids \in Nat
    BY <1>1, <2>1, MasterAgentAssumption DEF Request
  <2> QED BY <2>1, SharesCoverOnce DEF IdsRunOnce
<1>2. Init => req \in [Report -> Requests]
  BY DEF Init
<1>3. req \in [Report -> Requests] /\ [Next]_vars => (req \in [Report -> Requests])'
  BY DEF Next, vars
<1> QED BY <1>1, <1>2, <1>3, PTL DEF Spec
-----------------------------------------------------------------------------
(* Frames: what a step does not touch.                                     *)

\* The request of a report is fixed, and so is all that is computed from it.
LEMMA RequestFixed ==
  ASSUME UNCHANGED req
  PROVE  /\ \A r, i : LineAt(r, i)' = LineAt(r, i)
         /\ \A r : Index(r)' = Index(r)
         /\ \A p : Key(p)' = Key(p)
         /\ \A p : Shared(p)' = Shared(p)
BY DEF LineAt, Index, Key, Shared

\* The lines of all rounds.
LEMMA IndexFacts ==
  ASSUME Types, NEW r \in Report
  PROVE  /\ req[r] \in Request
         /\ req[r].rounds * Len(req[r].script) \in Nat
         /\ Index(r) \subseteq 1..MaxIndex
         /\ \A i \in Nat \ {0} : i \notin Index(r) => \A j \in Index(r) : j < i
<1>1. /\ req[r] \in Request
      /\ req[r].rounds * Len(req[r].script) <= MaxIndex
      /\ MaxIndex \in Nat
  BY MasterAgentAssumption DEF Types
<1>2. req[r].rounds \in Nat \ {0} /\ Len(req[r].script) \in Nat
  BY <1>1 DEF Request
<1>3. req[r].rounds * Len(req[r].script) \in Nat
  BY <1>2
<1> QED BY <1>1, <1>3 DEF Index

\* Types, one by one.
LEMMA TypeParts ==
  ASSUME Types
  PROVE  /\ DOMAIN status = Report
         /\ \A r \in Report : dist[r] \in [at : DistAt, i : Nat \ {0}, bg : Seq(Nat)]
         /\ \A r \in Report : \A i \in 1..MaxIndex :
              /\ line[r][i] \in {"none", "spawned", "sent", "failed"}
              /\ sel[r][i] \subseteq Agent
         /\ \A a \in Agent : queue[a] \in Seq(Part)
<1>1. /\ status \in [Report -> {"none", "running", "stopped", "done", "error"}]
      /\ dist \in [Report -> [at : DistAt, i : Nat \ {0}, bg : Seq(Nat)]]
      /\ line \in [Report -> [1..MaxIndex -> {"none", "spawned", "sent", "failed"}]]
      /\ sel \in [Report -> [1..MaxIndex -> SUBSET Agent]]
      /\ queue \in [Agent -> Seq(Part)]
  BY DEF Types
<1> QED BY <1>1

LEMMA PartFields ==
  /\ \A p \in Part : p.r \in Report /\ p.i \in 1..MaxIndex /\ p.a \in Agent
  /\ \A r \in Report : \A i \in 1..MaxIndex : \A a \in Agent :
       [r |-> r, i |-> i, a |-> a] \in Part
BY DEF Part

\* Steps that leave the parts alone and spawn no line that was sent.
LEMMA PartFrame ==
  ASSUME PartInv, UNCHANGED <<req, queue, call, results, inbox, run, watch>>,
         \A p \in Part : line'[p.r][p.i] \in {"none", "spawned"} =>
                           line[p.r][p.i] \in {"none", "spawned"}
  PROVE  PartInv'
<1>1. ResultsInv'
  BY RequestFixed DEF PartInv, ResultsInv
<1>2. OnceQueued'
  BY DEF PartInv, OnceQueued
<1>3. WatchInv'
  BY RequestFixed DEF PartInv, WatchInv
<1>4. HonestResults'
  BY RequestFixed DEF PartInv, HonestResults, Succeeded
<1> QED BY <1>1, <1>2, <1>3, <1>4 DEF PartInv

\* Steps that leave the reports alone, and what was sent and has succeeded.
LEMMA DistFrame ==
  ASSUME Types, DistInv, UNCHANGED <<req, status, dist>>,
         \A r \in Report : \A i \in 1..MaxIndex :
           /\ line[r][i] = "none" => line'[r][i] = "none"
           /\ line[r][i] = "sent" => line'[r][i] = "sent" /\ sel'[r][i] = sel[r][i],
         \A p \in Part : line[p.r][p.i] = "sent" /\ call[p] = "ok" => call'[p] = "ok"
  PROVE  DistInv'
<1>1. ASSUME NEW r \in Report, NEW i \in Index(r), Settled(r, i)
      PROVE  Settled(r, i)'
  <2>1. i \in 1..MaxIndex
    BY IndexFacts
  <2>2. CASE ~LineAt(r, i).errorBreak
    BY <2>2, RequestFixed DEF Settled
  <2>3. CASE LineAt(r, i).errorBreak
    <3>1. line[r][i] = "sent" /\ \A a \in sel[r][i] : call[[r |-> r, i |-> i, a |-> a]] = "ok"
      BY <1>1, <2>3 DEF Settled
    <3>2. line'[r][i] = "sent" /\ sel'[r][i] = sel[r][i]
      BY <2>1, <3>1
    <3>3. ASSUME NEW a \in sel[r][i]
          PROVE  call'[[r |-> r, i |-> i, a |-> a]] = "ok"
      <4> DEFINE p == [r |-> r, i |-> i, a |-> a]
      <4>1. p \in Part /\ p.r = r /\ p.i = i
        <5>1. a \in Agent
          BY <2>1, <3>3, TypeParts
        <5> QED BY <2>1, <5>1 DEF Part
      <4>2. call[p] = "ok"
        BY <3>1, <3>3
      <4> HIDE DEF p
      <4>3. call'[p] = "ok"
        BY <3>1, <4>1, <4>2
      <4> QED BY <4>3 DEF p
    <3> QED BY <3>2, <3>3 DEF Settled
  <2> QED BY <2>2, <2>3
<1>2. \A r : Index(r)' = Index(r)
  BY RequestFixed
<1>3. \A r, i : InBg(r, i)' = InBg(r, i)
  BY DEF InBg
<1> QED BY <1>1, <1>2, <1>3 DEF DistInv, DistOf

\* What is in the rest of a list, and in a longer one.
LEMMA InTail ==
  ASSUME NEW S, NEW s \in Seq(S), s # << >>
  PROVE  /\ Tail(s) \in Seq(S) /\ Head(s) \in S
         /\ \A x : In(s, x) <=> x = Head(s) \/ In(Tail(s), x)
         /\ Distinct(s) => Distinct(Tail(s)) /\ ~In(Tail(s), Head(s))
<1>1. /\ Tail(s) \in Seq(S) /\ Head(s) \in S
      /\ /\ Len(s) \in Nat \ {0} /\ Len(Tail(s)) = Len(s) - 1
      /\ Head(s) = s[1] /\ \A k \in 1..(Len(s) - 1) : Tail(s)[k] = s[k + 1]
  OBVIOUS
<1>2. ASSUME NEW x, NEW k \in 1..Len(s), s[k] = x
      PROVE  x = Head(s) \/ In(Tail(s), x)
  <2>1. CASE k = 1
    BY <1>1, <1>2, <2>1
  <2>2. CASE k # 1
    <3>1. k - 1 \in 1..(Len(s) - 1) /\ (k - 1) + 1 = k
      BY <1>1, <2>2
    <3>2. Tail(s)[k - 1] = x
      BY <1>1, <1>2, <3>1
    <3> QED BY <1>1, <3>1, <3>2 DEF In
  <2> QED BY <2>1, <2>2
<1>3. ASSUME NEW x, NEW k \in 1..(Len(s) - 1), Tail(s)[k] = x
      PROVE  In(s, x)
  <2>1. k + 1 \in 1..Len(s)
    BY <1>1
  <2> QED BY <1>1, <1>3, <2>1 DEF In
<1>4. In(s, Head(s))
  BY <1>1 DEF In
<1>5. ASSUME Distinct(s), NEW j \in 1..(Len(s) - 1), NEW k \in 1..(Len(s) - 1),
             Tail(s)[j] = Tail(s)[k]
      PROVE  j = k
  <2>1. j + 1 \in 1..Len(s) /\ k + 1 \in 1..Len(s) /\ s[j + 1] = s[k + 1]
    BY <1>1, <1>5
  <2>2. j + 1 = k + 1
    BY <1>5, <2>1 DEF Distinct
  <2> QED BY <1>1, <2>2
<1>6. ASSUME Distinct(s), NEW j \in 1..(Len(s) - 1), Tail(s)[j] = Head(s)
      PROVE  FALSE
  <2>1. j + 1 \in 1..Len(s) /\ 1 \in 1..Len(s) /\ s[j + 1] = s[1]
    BY <1>1, <1>6
  <2>2. j + 1 = 1
    BY <1>6, <2>1 DEF Distinct
  <2> QED BY <1>1, <2>2
<1>7. Distinct(s) => Distinct(Tail(s)) /\ ~In(Tail(s), Head(s))
  BY <1>1, <1>5, <1>6 DEF Distinct, In
<1> QED BY <1>1, <1>2, <1>3, <1>4, <1>7 DEF In

LEMMA InAppend ==
  ASSUME NEW S, NEW s \in Seq(S), NEW n \in S
  PROVE  /\ Append(s, n) \in Seq(S)
         /\ \A x : In(Append(s, n), x) <=> x = n \/ In(s, x)
         /\ Distinct(s) /\ ~In(s, n) => Distinct(Append(s, n))
<1> DEFINE t == Append(s, n)
<1>1. /\ t \in Seq(S) /\ Len(s) \in Nat /\ Len(t) = Len(s) + 1
      /\ \A k \in 1..Len(s) : t[k] = s[k]
      /\ t[Len(s) + 1] = n
  OBVIOUS
<1> HIDE DEF t
<1>2. \A k \in 1..Len(t) : k \in 1..Len(s) \/ k = Len(s) + 1
  BY <1>1
<1>3. Len(s) + 1 \in 1..Len(t) /\ \A k \in 1..Len(s) : k \in 1..Len(t)
  BY <1>1
<1>4. \A x : In(t, x) <=> x = n \/ In(s, x)
  BY <1>1, <1>2, <1>3 DEF In
<1>5. Distinct(s) /\ ~In(s, n) => Distinct(t)
  BY <1>1, <1>2 DEF In, Distinct
<1> QED BY <1>1, <1>4, <1>5 DEF t

\* A step of one report.
LEMMA DistOne ==
  ASSUME DistInv, NEW r \in Report, UNCHANGED <<req, sel, call>>,
         \A q \in Report \ {r} : /\ dist'[q] = dist[q]
                                 /\ status'[q] = status[q]
                                 /\ line'[q] = line[q],
         DistOf(r)'
  PROVE  DistInv'
<1> SUFFICES ASSUME NEW q \in Report, q # r
             PROVE  DistOf(q)'
  BY DEF DistInv
<1>1. dist'[q] = dist[q] /\ status'[q] = status[q] /\ line'[q] = line[q]
  OBVIOUS
<1>2. \A i : Settled(q, i)' = Settled(q, i)
  BY <1>1, RequestFixed DEF Settled
<1>3. \A i : InBg(q, i)' = InBg(q, i)
  BY <1>1 DEF InBg
<1> QED BY <1>1, <1>2, <1>3, RequestFixed DEF DistInv, DistOf

\* What the three ways to write dist do.
LEMMA SetDistFacts ==
  ASSUME Types, NEW r \in Report, NEW l \in DistAt, SetDist(r, l)
  PROVE  /\ dist' \in [Report -> [at : DistAt, i : Nat \ {0}, bg : Seq(Nat)]]
         /\ \A q \in Report \ {r} : dist'[q] = dist[q]
         /\ dist'[r].at = l /\ dist'[r].i = dist[r].i /\ dist'[r].bg = dist[r].bg
<1>1. dist \in [Report -> [at : DistAt, i : Nat \ {0}, bg : Seq(Nat)]]
  BY DEF Types
<1>2. dist' = [dist EXCEPT ![r] = [dist[r] EXCEPT !.at = l]]
  BY DEF SetDist
<1>3. [dist[r] EXCEPT !.at = l] \in [at : DistAt, i : Nat \ {0}, bg : Seq(Nat)]
  BY <1>1
<1> QED BY <1>1, <1>2, <1>3

LEMMA EndWithErrorFacts ==
  ASSUME Types, NEW r \in Report, EndWithError(r)
  PROVE  /\ dist' \in [Report -> [at : DistAt, i : Nat \ {0}, bg : Seq(Nat)]]
         /\ \A q \in Report \ {r} : dist'[q] = dist[q]
         /\ dist'[r].at = "end" /\ dist'[r].i = dist[r].i /\ dist'[r].bg = << >>
<1>1. dist \in [Report -> [at : DistAt, i : Nat \ {0}, bg : Seq(Nat)]]
  BY DEF Types
<1>2. dist' = [dist EXCEPT ![r].at = "end", ![r].bg = << >>]
  BY DEF EndWithError
<1> DEFINE d == [dist EXCEPT ![r].at = "end"]
<1>3. /\ d \in [Report -> [at : DistAt, i : Nat \ {0}, bg : Seq(Nat)]]
      /\ \A q \in Report \ {r} : d[q] = dist[q]
      /\ d[r].at = "end" /\ d[r].i = dist[r].i
  BY <1>1 DEF DistAt
<1>4. dist' = [d EXCEPT ![r].bg = << >>]
  BY <1>2
<1> HIDE DEF d
<1>5. << >> \in Seq(Nat)
  OBVIOUS
<1> QED BY <1>3, <1>4, <1>5

\* Steps that write dist and status of one report and nothing else of this.
LEMMA TypesOfDist ==
  ASSUME Types, UNCHANGED <<req, line, sel, call, inbox, run, watch, queue>>,
         dist' \in [Report -> [at : DistAt, i : Nat \ {0}, bg : Seq(Nat)]],
         status' \in [Report -> {"none", "running", "stopped", "done", "error"}]
  PROVE  Types'
BY DEF Types

LEMMA SubmitSteps ==
  ASSUME IInv, UNCHANGED req, NEW r \in Report,
         SubmitTask(r) \/ SubmitStart(r) \/ Aggregate(r)
  PROVE  IInv'
<1> USE DEF registryVars, lineVars, callVars, runVars
<1>1. UNCHANGED <<req, line, sel, call, results, inbox, run, watch, queue>>
  BY DEF SubmitTask, SubmitStart, Aggregate
<1>2. /\ Types /\ PartInv /\ DistInv /\ DistOf(r)
      /\ dist[r].i \in Nat \ {0} /\ DOMAIN status = Report
  BY TypeParts DEF IInv, DistInv
<1>3. PartInv'
  BY <1>1, <1>2, PartFrame
<1>4. PICK l \in {"submit", "next", "end"}, s \in {"running", "done", "error", status[r]} :
        SetDist(r, l) /\ status' = [status EXCEPT ![r] = s]
  BY <1>2 DEF SubmitTask, SubmitStart, Aggregate, Types
<1>5. /\ dist' \in [Report -> [at : DistAt, i : Nat \ {0}, bg : Seq(Nat)]]
      /\ \A q \in Report \ {r} : dist'[q] = dist[q] /\ status'[q] = status[q]
      /\ dist'[r].at = l /\ dist'[r].i = dist[r].i /\ dist'[r].bg = dist[r].bg
  <2>1. l \in DistAt
    BY DEF DistAt
  <2> QED BY <1>2, <1>4, <2>1, SetDistFacts
<1>6. Types'
  <2>1. status' \in [Report -> {"none", "running", "stopped", "done", "error"}]
    BY <1>2, <1>4 DEF Types
  <2> QED BY <1>1, <1>2, <1>5, <2>1, TypesOfDist
<1>7. /\ \A i : Settled(r, i)' = Settled(r, i)
      /\ \A i : InBg(r, i)' = InBg(r, i)
      /\ Index(r)' = Index(r)
  BY <1>1, <1>5, RequestFixed DEF Settled, InBg
<1>8. DistOf(r)'
  <2>1. CASE SubmitTask(r)
    <3>1. status[r] = "none" /\ status'[r] = "running" /\ dist'[r].at = "submit"
      BY <1>2, <2>1, SetDistFacts DEF SubmitTask, DistAt, Types
    <3> QED BY <1>1, <1>2, <1>5, <1>7, <3>1 DEF DistOf
  <2>2. CASE SubmitStart(r)
    <3>1. /\ dist[r].at = "submit" /\ status'[r] = status[r] /\ dist'[r].at = "next"
      BY <1>2, <2>2, SetDistFacts DEF SubmitStart, DistAt, Types
    <3> QED BY <1>1, <1>2, <1>5, <1>7, <3>1 DEF DistOf
  <2>3. CASE Aggregate(r)
    <3>1. /\ dist[r].at = "aggregate" /\ status'[r] # "none" /\ dist'[r].at = "end"
      BY <1>2, <2>3, SetDistFacts DEF Aggregate, DistAt, Types
    <3>2. \A i \in Index(r) : i < dist[r].i
      BY <1>2, <3>1, IndexFacts DEF DistOf
    <3>3. \A i : ~InBg(r, i)
      BY <1>2, <3>1 DEF DistOf, InBg, In
    <3>4. \A i \in Index(r) : Settled(r, i)
      BY <1>2, <3>1, <3>2, <3>3 DEF DistOf
    <3> QED BY <1>1, <1>2, <1>5, <1>7, <3>1, <3>4 DEF DistOf
  <2> QED BY <2>1, <2>2, <2>3
<1>9. DistInv'
  BY <1>1, <1>2, <1>5, <1>8, DistOne
<1> QED BY <1>3, <1>6, <1>9 DEF IInv

\* waitBackground takes a line off the list when it is settled, and ends the
\* report otherwise.
LEMMA WaitStep ==
  ASSUME IInv, UNCHANGED req, NEW r \in Report, DistWait(r)
  PROVE  IInv'
<1> USE DEF registryVars, lineVars, callVars, runVars
<1>1. UNCHANGED <<req, line, sel, call, results, inbox, run, watch, queue>>
  BY DEF DistWait
<1>2. /\ Types /\ PartInv /\ DistInv /\ DistOf(r)
      /\ dist[r].i \in Nat \ {0} /\ dist[r].bg \in Seq(Nat)
      /\ dist \in [Report -> [at : DistAt, i : Nat \ {0}, bg : Seq(Nat)]]
      /\ status \in [Report -> {"none", "running", "stopped", "done", "error"}]
  BY TypeParts DEF IInv, DistInv, Types
<1>3. PartInv'
  BY <1>1, <1>2, PartFrame
<1>4. /\ \A i : Settled(r, i)' = Settled(r, i)
      /\ Index(r)' = Index(r)
  BY <1>1, RequestFixed DEF Settled
<1>5. dist[r].at \in {"wait", "drain"} /\ status[r] # "done" /\ status[r] # "none"
  BY <1>2 DEF DistWait, DistOf
<1>6. SUFFICES /\ dist' \in [Report -> [at : DistAt, i : Nat \ {0}, bg : Seq(Nat)]]
               /\ status' \in [Report -> {"none", "running", "stopped", "done", "error"}]
               /\ \A q \in Report \ {r} : dist'[q] = dist[q] /\ status'[q] = status[q]
               /\ DistOf(r)'
  <2>1. Types'
    BY <1>1, <1>2, <1>6, TypesOfDist
  <2>2. DistInv'
    BY <1>1, <1>2, <1>6, DistOne
  <2> QED BY <1>3, <2>1, <2>2 DEF IInv
<1>7. CASE EndWithError(r)
  <2>1. /\ dist' \in [Report -> [at : DistAt, i : Nat \ {0}, bg : Seq(Nat)]]
        /\ \A q \in Report \ {r} : dist'[q] = dist[q]
        /\ dist'[r].at = "end" /\ dist'[r].i = dist[r].i /\ dist'[r].bg = << >>
    BY <1>2, <1>7, EndWithErrorFacts
  <2>2. /\ status' \in [Report -> {"none", "running", "stopped", "done", "error"}]
        /\ \A q \in Report \ {r} : status'[q] = status[q]
        /\ status'[r] = "error"
    BY <1>2, <1>7 DEF EndWithError
  <2>3. \A i : ~InBg(r, i)'
    BY <2>1 DEF InBg, In
  <2>4. DistOf(r)'
    BY <1>1, <1>2, <1>4, <2>1, <2>2, <2>3 DEF DistOf
  <2> QED BY <2>1, <2>2, <2>4
<1>8. CASE dist[r].bg = << >> /\ SetDist(r, "next") /\ UNCHANGED status
  <2>1. /\ dist' \in [Report -> [at : DistAt, i : Nat \ {0}, bg : Seq(Nat)]]
        /\ \A q \in Report \ {r} : dist'[q] = dist[q]
        /\ dist'[r].at = "next" /\ dist'[r].i = dist[r].i /\ dist'[r].bg = dist[r].bg
    BY <1>2, <1>8, SetDistFacts DEF DistAt
  <2>2. \A i : InBg(r, i)' = InBg(r, i)
    BY <2>1 DEF InBg
  <2>3. DistOf(r)'
    BY <1>1, <1>2, <1>4, <1>5, <1>8, <2>1, <2>2 DEF DistOf
  <2> QED BY <1>2, <1>8, <2>1, <2>3
<1>9. CASE /\ dist[r].bg # << >> /\ Returned(r, Head(dist[r].bg))
           /\ ~(Failed(r, Head(dist[r].bg)) /\ LineAt(r, Head(dist[r].bg)).errorBreak)
           /\ dist' = [dist EXCEPT ![r].bg = Tail(@)]
           /\ UNCHANGED status
  <2> DEFINE h == Head(dist[r].bg)
             bg == dist[r].bg
             rest == Tail(bg)
  <2>1. rest \in Seq(Nat) /\ \A i : InBg(r, i) <=> i = h \/ In(rest, i)
    BY <1>2, <1>9, InTail DEF InBg
  <2>2. dist' = [dist EXCEPT ![r].bg = rest]
    BY <1>9
  <2> HIDE DEF rest
  <2>3. /\ dist' \in [Report -> [at : DistAt, i : Nat \ {0}, bg : Seq(Nat)]]
        /\ \A q \in Report \ {r} : dist'[q] = dist[q]
        /\ dist'[r].at = dist[r].at /\ dist'[r].i = dist[r].i /\ dist'[r].bg = rest
    BY <1>2, <2>1, <2>2
  <2>4. Settled(r, h)
    BY <1>9 DEF Returned, Failed, Settled
  <2>5. \A i : InBg(r, i)' <=> In(rest, i)
    BY <2>3 DEF InBg
  <2>6. \A i : InBg(r, i)' => i \in Index(r)
    BY <1>2, <2>1, <2>5 DEF DistOf
  <2>7. \A i \in Index(r) : i < dist[r].i => InBg(r, i)' \/ Settled(r, i)
    BY <1>2, <1>5, <2>1, <2>4, <2>5 DEF DistOf
  <2> HIDE DEF h, bg
  <2>8. DistOf(r)'
    BY <1>1, <1>2, <1>4, <1>5, <1>9, <2>3, <2>6, <2>7 DEF DistOf
  <2> QED BY <1>2, <1>9, <2>3, <2>8
<1> QED BY <1>7, <1>8, <1>9 DEF DistWait

\* distributeAndWait spawns the next line and puts it on the list.
LEMMA NextStep ==
  ASSUME IInv, UNCHANGED req, NEW r \in Report, DistNext(r)
  PROVE  IInv'
<1> USE DEF registryVars, lineVars, callVars, runVars
<1> DEFINE n == dist[r].i
<1>1. UNCHANGED <<req, status, sel, call, results, inbox, run, watch, queue>>
  BY DEF DistNext
<1>2. /\ Types /\ PartInv /\ DistInv /\ DistOf(r)
      /\ n \in Nat \ {0} /\ dist[r].bg \in Seq(Nat)
      /\ dist \in [Report -> [at : DistAt, i : Nat \ {0}, bg : Seq(Nat)]]
      /\ line \in [Report -> [1..MaxIndex -> {"none", "spawned", "sent", "failed"}]]
      /\ status \in [Report -> {"none", "running", "stopped", "done", "error"}]
  BY TypeParts DEF IInv, DistInv, Types
<1>3. dist[r].at = "next" /\ status[r] # "done" /\ status[r] # "none"
  BY <1>2 DEF DistNext, DistOf
<1>4. \A i : LineAt(r, i)' = LineAt(r, i) /\ Index(r)' = Index(r)
  BY <1>1, RequestFixed
<1>5. CASE UNCHANGED line
  <2>1. PICK l \in {"aggregate", "drain"} :
          SetDist(r, l) /\ (l = "aggregate" <=> n \notin Index(r))
    <3>1. n \in Index(r) => n \in 1..MaxIndex
      BY <1>2, IndexFacts
    <3>2. n \in Index(r) => [line EXCEPT ![r][n] = "spawned"][r][n] # line[r][n]
      <4>1. n \in Index(r) => line[r][n] = "none"
        BY <1>2, <3>1 DEF DistOf
      <4> HIDE DEF n
      <4> QED BY <1>2, <3>1, <4>1
    <3> QED BY <1>5, <3>2 DEF DistNext
  <2>2. l \in DistAt
    BY DEF DistAt
  <2>3. /\ dist' \in [Report -> [at : DistAt, i : Nat \ {0}, bg : Seq(Nat)]]
        /\ \A q \in Report \ {r} : dist'[q] = dist[q]
        /\ dist'[r].at = l /\ dist'[r].i = dist[r].i /\ dist'[r].bg = dist[r].bg
    BY <1>2, <2>1, <2>2, SetDistFacts
  <2>4. /\ \A i : InBg(r, i)' = InBg(r, i)
        /\ \A i : Settled(r, i)' = Settled(r, i)
    BY <1>1, <1>4, <1>5, <2>3 DEF InBg, Settled
  <2>5. DistOf(r)'
    BY <1>1, <1>2, <1>3, <1>4, <1>5, <2>1, <2>3, <2>4 DEF DistOf
  <2>6. Types'
    BY <1>1, <1>2, <1>5, <2>3, TypesOfDist
  <2>7. PartInv'
    BY <1>1, <1>2, <1>5, PartFrame
  <2>8. DistInv'
    BY <1>1, <1>2, <1>5, <2>3, <2>5, DistOne
  <2> QED BY <2>6, <2>7, <2>8 DEF IInv
<1>6. CASE line' # line
  <2>1. /\ n \in Index(r) /\ n \in 1..MaxIndex
        /\ line' = [line EXCEPT ![r][n] = "spawned"]
        /\ dist' = [dist EXCEPT ![r] =
                      [at |-> IF WaitsAfter(r, n) THEN "wait" ELSE "next",
                       i |-> n + 1, bg |-> Append(dist[r].bg, n)]]
    BY <1>2, <1>6, IndexFacts DEF DistNext
  <2> DEFINE bg == Append(dist[r].bg, n)
             l == IF WaitsAfter(r, n) THEN "wait" ELSE "next"
  <2>2. bg \in Seq(Nat) /\ \A i : In(bg, i) <=> i = n \/ InBg(r, i)
    <3> HIDE DEF n
    <3>1. n \in Nat /\ dist[r].bg \in Seq(Nat)
      BY <1>2
    <3>2. /\ Append(dist[r].bg, n) \in Seq(Nat)
          /\ \A x : In(Append(dist[r].bg, n), x) <=> x = n \/ In(dist[r].bg, x)
      BY <3>1, InAppend
    <3> QED BY <3>2 DEF InBg
  <2>3. /\ l \in DistAt /\ l \in {"wait", "next"}
        /\ l = "next" => n + 1 \in Index(r)
    <3>1. req[r].rounds \in Nat \ {0} /\ Len(req[r].script) \in Nat \ {0}
      BY <1>2, MasterAgentAssumption DEF Types, Request
    <3>2. ~EndsRound(r, n) => n + 1 \in Index(r)
      BY <2>1, <3>1, LastOfRounds DEF EndsRound, Index
    <3> QED BY <3>2 DEF WaitsAfter, DistAt
  <2> HIDE DEF bg, l
  <2>4. dist' = [dist EXCEPT ![r] = [at |-> l, i |-> n + 1, bg |-> bg]]
    BY <2>1 DEF bg, l
  <2>5. /\ dist' \in [Report -> [at : DistAt, i : Nat \ {0}, bg : Seq(Nat)]]
        /\ \A q \in Report \ {r} : dist'[q] = dist[q]
        /\ dist'[r].at = l /\ dist'[r].i = n + 1 /\ dist'[r].bg = bg
    <3> HIDE DEF n
    <3>1. [at |-> l, i |-> n + 1, bg |-> bg] \in [at : DistAt, i : Nat \ {0}, bg : Seq(Nat)]
      BY <1>2, <2>2, <2>3
    <3> QED BY <1>2, <2>4, <3>1
  <2>6. /\ line' \in [Report -> [1..MaxIndex -> {"none", "spawned", "sent", "failed"}]]
        /\ \A q \in Report \ {r} : line'[q] = line[q]
        /\ \A i \in 1..MaxIndex : line'[r][i] = IF i = n THEN "spawned" ELSE line[r][i]
        /\ line[r][n] = "none"
    <3>1. line[r][n] = "none"
      BY <1>2, <2>1 DEF DistOf
    <3> HIDE DEF n
    <3> QED BY <1>2, <2>1, <3>1
  <2>7. Types'
    <3> HIDE DEF n
    <3> QED BY <1>1, <1>2, <2>5, <2>6 DEF Types
  <2>8. PartInv'
    <3>1. \A p \in Part : line'[p.r][p.i] \in {"none", "spawned"} =>
                          line[p.r][p.i] \in {"none", "spawned"}
      BY <2>6, PartFields
    <3> QED BY <1>1, <1>2, <3>1, PartFrame
  <2>9. \A i : InBg(r, i)' <=> i = n \/ InBg(r, i)
    BY <2>2, <2>5 DEF InBg
  <2>11. \A i \in Index(r) : i # n /\ Settled(r, i) => Settled(r, i)'
    BY <1>1, <1>2, <1>4, <2>6, IndexFacts DEF Settled
  <2>12. \A i : InBg(r, i)' => i \in Index(r)
    BY <1>2, <2>1, <2>9 DEF DistOf
  <2>13. \A i \in Index(r) : i < n + 1 => InBg(r, i)' \/ Settled(r, i)'
    <3>1. \A i \in Index(r) : i \in Nat
      BY <1>2, IndexFacts DEF Index
    <3>2. \A i \in Index(r) : i < n => InBg(r, i) \/ Settled(r, i)
      BY <1>2, <1>3 DEF DistOf
    <3>3. \A i \in Index(r) : i < n + 1 => i < n \/ i = n
      BY <1>2, <3>1
    <3> QED BY <2>9, <2>11, <3>2, <3>3
  <2>14. \A i \in 1..MaxIndex : i >= n + 1 => line'[r][i] = "none"
    <3>1. \A i \in 1..MaxIndex : i >= n + 1 => i >= n /\ i # n
      BY <1>2
    <3> QED BY <1>2, <2>6, <3>1 DEF DistOf
  <2>15. DistOf(r)'
    <3> HIDE DEF n
    <3> QED BY <1>1, <1>3, <1>4, <2>3, <2>5, <2>12, <2>13, <2>14 DEF DistOf
  <2>16. DistInv'
    BY <1>1, <1>2, <2>5, <2>6, <2>15, DistOne
  <2> QED BY <2>7, <2>8, <2>16 DEF IInv
<1> QED BY <1>5, <1>6

\* handleStopTask.
LEMMA StopSteps ==
  ASSUME IInv, UNCHANGED req, NEW r \in Report, StopTask(r) \/ StopWrite(r) \/ StopSend(r)
  PROVE  IInv'
<1> USE DEF registryVars, lineVars, callVars, runVars
<1>1. /\ UNCHANGED <<req, dist, line, sel, call, results, inbox, run, watch, queue>>
      /\ status' = status \/ status' = [status EXCEPT ![r] = "stopped"]
  BY DEF StopTask, StopWrite, StopSend
<1>2. Types /\ PartInv /\ DistInv
  BY DEF IInv
<1>3. /\ status \in [Report -> {"none", "running", "stopped", "done", "error"}]
      /\ dist \in [Report -> [at : DistAt, i : Nat \ {0}, bg : Seq(Nat)]]
  BY <1>2 DEF Types
<1>4. /\ status' \in [Report -> {"none", "running", "stopped", "done", "error"}]
      /\ \A q \in Report : status'[q] = status[q] \/ status'[q] = "stopped"
  BY <1>1, <1>3
<1>5. Types'
  BY <1>1, <1>2, <1>3, <1>4, TypesOfDist
<1>6. PartInv'
  BY <1>1, <1>2, PartFrame
<1>7. DistInv'
  <2>1. /\ \A q, i : Settled(q, i)' = Settled(q, i)
        /\ \A q, i : InBg(q, i)' = InBg(q, i)
        /\ \A q : Index(q)' = Index(q)
    BY <1>1, RequestFixed DEF Settled, InBg
  <2> QED BY <1>1, <1>2, <1>4, <2>1 DEF DistInv, DistOf
<1> QED BY <1>5, <1>6, <1>7 DEF IInv

\* A line without agents.
LEMMA NoAgentStep ==
  ASSUME IInv, UNCHANGED req, NEW r \in Report, NEW i \in 1..MaxIndex, LineNoAgent(r, i)
  PROVE  IInv'
<1> USE DEF registryVars, taskVars, callVars, runVars
<1>1. /\ UNCHANGED <<req, status, dist, sel, call, results, inbox, run, watch, queue>>
      /\ line[r][i] = "spawned"
      /\ \E l \in {"failed", "sent"} : line' = [line EXCEPT ![r][i] = l]
  BY DEF LineNoAgent
<1>2. Types /\ PartInv /\ DistInv
  BY DEF IInv
<1>3. line \in [Report -> [1..MaxIndex -> {"none", "spawned", "sent", "failed"}]]
  BY <1>2 DEF Types
<1>4. /\ line' \in [Report -> [1..MaxIndex -> {"none", "spawned", "sent", "failed"}]]
      /\ \A q \in Report : \A j \in 1..MaxIndex :
           line'[q][j] = line[q][j] \/ (q = r /\ j = i /\ line'[q][j] \in {"failed", "sent"})
  BY <1>1, <1>3
<1>5. Types'
  BY <1>1, <1>2, <1>4 DEF Types
<1>6. PartInv'
  <2>1. \A p \in Part : line'[p.r][p.i] \in {"none", "spawned"} =>
                        line[p.r][p.i] \in {"none", "spawned"}
    BY <1>4, PartFields
  <2> QED BY <1>1, <1>2, <2>1, PartFrame
<1>7. DistInv'
  <2>1. \A q \in Report : \A j \in 1..MaxIndex :
           /\ line[q][j] = "none" => line'[q][j] = "none"
           /\ line[q][j] = "sent" => line'[q][j] = "sent" /\ sel'[q][j] = sel[q][j]
    BY <1>1, <1>4
  <2> QED BY <1>1, <1>2, <2>1, DistFrame
<1> QED BY <1>5, <1>6, <1>7 DEF IInv

\* A line is sent to its agents: none of its parts was queued before.
LEMMA SendStep ==
  ASSUME IInv, UNCHANGED req, NEW r \in Report, NEW i \in 1..MaxIndex, LineSend(r, i)
  PROVE  IInv'
<1> USE DEF registryVars, taskVars, runVars
<1>1. /\ UNCHANGED <<req, status, dist, inbox, run, watch, queue>>
      /\ line[r][i] = "spawned"
      /\ line' = [line EXCEPT ![r][i] = "sent"]
  BY DEF LineSend
<1>2. Types /\ PartInv /\ DistInv
  BY DEF IInv
<1>3. PICK S \in SUBSET Candidates(r) :
        /\ sel' = [sel EXCEPT ![r][i] = S]
        /\ call' = [p \in Part |-> IF p \in PartsOf(r, i, S) THEN "enqueue" ELSE call[p]]
        /\ results' = {e \in results : \A p \in PartsOf(r, i, S) : e[1] # Key(p)}
                         \cup {<<Key(p), p>> : p \in PartsOf(r, i, S)}
  BY DEF LineSend, Recipients
<1> DEFINE P == PartsOf(r, i, S)
<1>4. S \in SUBSET Agent
  <2>1. req[r].target \in SUBSET Agent
    BY <1>2, IndexFacts DEF Request
  <2> QED BY <2>1 DEF Candidates
<1>5. P \subseteq Part /\ \A p \in P : p.r = r /\ p.i = i
  BY DEF PartsOf
<1> HIDE DEF P
<1>6. /\ line \in [Report -> [1..MaxIndex -> {"none", "spawned", "sent", "failed"}]]
      /\ sel \in [Report -> [1..MaxIndex -> SUBSET Agent]]
      /\ call \in [Part -> {"none", "enqueue", "void", "wait", "ok", "err"}]
  BY <1>2 DEF Types
<1>7. /\ line' \in [Report -> [1..MaxIndex -> {"none", "spawned", "sent", "failed"}]]
      /\ \A q \in Report : \A j \in 1..MaxIndex :
           line'[q][j] = IF q = r /\ j = i THEN "sent" ELSE line[q][j]
  BY <1>1, <1>6
<1>8. /\ sel' \in [Report -> [1..MaxIndex -> SUBSET Agent]]
      /\ \A q \in Report : \A j \in 1..MaxIndex : q # r \/ j # i => sel'[q][j] = sel[q][j]
  BY <1>3, <1>4, <1>6
<1>9. /\ call' \in [Part -> {"none", "enqueue", "void", "wait", "ok", "err"}]
      /\ \A p \in Part : call'[p] = IF p \in P THEN "enqueue" ELSE call[p]
  BY <1>3, <1>6 DEF P
<1>10. Types'
  BY <1>1, <1>2, <1>7, <1>8, <1>9 DEF Types
<1>11. \A p \in P : call[p] = "none" /\ run[p] = "none" /\ \A a \in Agent : ~In(queue[a], p)
  BY <1>1, <1>2, <1>5 DEF PartInv, OnceQueued
<1>12. OnceQueued'
  <2>1. \A p \in Part : line'[p.r][p.i] \in {"none", "spawned"} => call'[p] = "none"
    BY <1>2, <1>5, <1>7, <1>9, PartFields DEF PartInv, OnceQueued
  <2>2. \A p \in Part : call'[p] \in {"none", "enqueue", "void"} =>
          run[p] = "none" /\ \A a \in Agent : ~In(queue[a], p)
    BY <1>2, <1>9, <1>11 DEF PartInv, OnceQueued
  <2> QED BY <1>1, <1>2, <2>1, <2>2 DEF PartInv, OnceQueued
<1>13. ResultsInv'
  <2>1. results' \subseteq results \cup {<<Key(p), p>> : p \in P}
    BY <1>3 DEF P
  <2> QED BY <1>1, <1>2, <1>5, <2>1, RequestFixed DEF PartInv, ResultsInv
<1>14. WatchInv' /\ HonestResults'
  BY <1>1, <1>2, <1>9, RequestFixed DEF PartInv, WatchInv, HonestResults, Succeeded
<1>15. DistInv'
  <2>1. \A q \in Report : \A j \in 1..MaxIndex :
           /\ line[q][j] = "none" => line'[q][j] = "none"
           /\ line[q][j] = "sent" => line'[q][j] = "sent" /\ sel'[q][j] = sel[q][j]
    BY <1>1, <1>7, <1>8
  <2>2. \A p \in Part : line[p.r][p.i] = "sent" /\ call[p] = "ok" => call'[p] = "ok"
    BY <1>9, <1>11
  <2> QED BY <1>1, <1>2, <2>1, <2>2, DistFrame
<1> QED BY <1>10, <1>12, <1>13, <1>14, <1>15 DEF IInv, PartInv
-----------------------------------------------------------------------------
(* The parts.                                                              *)

\* Two parts with one key are the same, unless the key has no report in it.
LEMMA KeyOfOne ==
  ASSUME NEW p \in Part, NEW q \in Part, Key(p) = Key(q), ~Shared(q)
  PROVE  p = q
<1>1. Key(q) = <<q.r, q.i, q.a>>
  BY DEF Key, Shared
<1>2. Len(Key(q)) = 3
  BY <1>1
<1>3. Key(p) = <<p.r, p.i, p.a>>
  <2>1. CASE LineAt(p.r, p.i).kind # "stress" /\ OneSecond
    <3>1. Key(p) = <<"control", p.i, LineAt(p.r, p.i).kind, p.a>>
      BY <2>1 DEF Key
    <3>2. Len(Key(p)) = 4
      BY <3>1
    <3> QED BY <1>2, <3>2
  <2> QED BY <2>1 DEF Key
<1>4. p.r = q.r /\ p.i = q.i /\ p.a = q.a
  BY <1>1, <1>3
<1> QED BY <1>4 DEF Part

\* A result reaches the part that it is about.
LEMMA ResultReaches ==
  ASSUME Types, PartInv, NEW p \in Part, NEW res \in {"ok", "err"}, PostResult(p, res)
  PROVE  /\ inbox' \in [Part -> {"empty", "ok", "err"}]
         /\ \A q \in Part : ~Shared(q) /\ inbox'[q] # inbox[q] => q = p /\ inbox'[q] = res
<1>1. inbox \in [Part -> {"empty", "ok", "err"}]
  BY DEF Types
<1>2. \A q \in Owner(p) : q \in Part /\ Key(p) = Key(q)
  <2> SUFFICES ASSUME NEW q \in Owner(p) PROVE q \in Part /\ Key(p) = Key(q)
    OBVIOUS
  <2>1. q \in Part /\ <<Key(p), q>> \in results
    BY DEF Owner
  <2>2. PICK u \in Part : <<Key(p), q>> = <<Key(u), u>>
    BY <2>1 DEF PartInv, ResultsInv
  <2> QED BY <2>1, <2>2
<1>3. \A q \in Owner(p) : ~Shared(q) => q = p
  BY <1>2, KeyOfOne
<1> QED BY <1>1, <1>3 DEF PostResult

\* Steps that change how a part runs, what its watch does or what was reported.
LEMMA RunFrame ==
  ASSUME Types, PartInv, UNCHANGED <<req, line, queue, call, results>>,
         \A q \in Part :
           /\ run[q] = "none" => run'[q] = "none"
           /\ Succeeded(q) => run'[q] \in {"ok", "exec"}
           /\ watch'[q] = "open" => watch[q] = "open" /\ run'[q] \in {"run", "stopped"}
           /\ ~Shared(q) /\ inbox'[q] = "ok" => inbox[q] = "ok" \/ run'[q] \in {"ok", "exec"}
  PROVE  PartInv'
<1>1. ResultsInv'
  BY RequestFixed DEF PartInv, ResultsInv
<1>2. OnceQueued'
  BY DEF PartInv, OnceQueued
<1>3. WatchInv'
  BY RequestFixed DEF PartInv, WatchInv
<1>4. HonestResults'
  BY RequestFixed DEF PartInv, HonestResults, Succeeded
<1> QED BY <1>1, <1>2, <1>3, <1>4 DEF PartInv

\* The types of what those steps change.
LEMMA TypesOfRun ==
  ASSUME Types, UNCHANGED <<req, status, dist, line, sel, call, queue>>,
         run' \in [Part -> RunAt], watch' \in [Part -> {"none", "open", "gone"}],
         inbox' \in [Part -> {"empty", "ok", "err"}]
  PROVE  Types'
BY DEF Types

LEMMA RunSteps ==
  ASSUME IInv, UNCHANGED req, NEW p \in Part,
         PartEnd(p) \/ RebootReport(p) \/ RebootExec(p) \/ WatchSignal(p) \/ WatchGone(p)
  PROVE  IInv'
<1> USE DEF registryVars, taskVars, lineVars, callVars
<1>1. UNCHANGED <<req, status, dist, line, sel, call, queue, results>>
  BY DEF PartEnd, RebootReport, RebootExec, WatchSignal, WatchGone
<1>2. Types /\ PartInv /\ DistInv
  BY DEF IInv
<1>3. /\ run \in [Part -> RunAt] /\ watch \in [Part -> {"none", "open", "gone"}]
      /\ inbox \in [Part -> {"empty", "ok", "err"}]
      /\ \A q \in Part : watch[q] = "open" =>
           run[q] \in {"run", "stopped"} /\ LineAt(q.r, q.i).kind = "stress"
  BY <1>2 DEF Types, PartInv, WatchInv
<1>4. SUFFICES /\ run' \in [Part -> RunAt] /\ watch' \in [Part -> {"none", "open", "gone"}]
               /\ inbox' \in [Part -> {"empty", "ok", "err"}]
               /\ \A q \in Part :
                    /\ run[q] = "none" => run'[q] = "none"
                    /\ Succeeded(q) => run'[q] \in {"ok", "exec"}
                    /\ watch'[q] = "open" => watch[q] = "open" /\ run'[q] \in {"run", "stopped"}
                    /\ ~Shared(q) /\ inbox'[q] = "ok" =>
                         inbox[q] = "ok" \/ run'[q] \in {"ok", "exec"}
  <2>1. Types'
    BY <1>1, <1>2, <1>4, TypesOfRun
  <2>2. PartInv'
    BY <1>1, <1>2, <1>4, RunFrame
  <2>3. DistInv'
    BY <1>1, <1>2, DistFrame
  <2> QED BY <2>1, <2>2, <2>3 DEF IInv
<1>5. CASE PartEnd(p)
  <2>1. PICK res \in {"ok", "err"} : run' = [run EXCEPT ![p] = res] /\ PostResult(p, res)
    BY <1>5 DEF PartEnd
  <2>2. /\ run[p] \in {"run", "stopped"}
        /\ watch' = [watch EXCEPT ![p] = IF @ = "open" THEN "gone" ELSE @]
    BY <1>5 DEF PartEnd, Lives
  <2>3. /\ inbox' \in [Part -> {"empty", "ok", "err"}]
        /\ \A q \in Part : ~Shared(q) /\ inbox'[q] # inbox[q] => q = p /\ inbox'[q] = res
    BY <1>2, <2>1, ResultReaches
  <2>4. run' \in [Part -> RunAt] /\ watch' \in [Part -> {"none", "open", "gone"}]
    BY <1>3, <2>1, <2>2 DEF RunAt
  <2>5. \A q \in Part :
          /\ run'[q] = IF q = p THEN res ELSE run[q]
          /\ watch'[q] = "open" => watch[q] = "open" /\ q # p
    BY <1>3, <2>1, <2>2
  <2> QED BY <1>3, <2>2, <2>3, <2>4, <2>5 DEF Succeeded
<1>6. CASE RebootReport(p)
  <2>1. /\ run[p] = "run" /\ run' = [run EXCEPT ![p] = "exec"] /\ PostResult(p, "ok")
        /\ watch' = watch /\ LineAt(p.r, p.i).kind = "reboot"
    BY <1>6 DEF RebootReport
  <2>2. /\ inbox' \in [Part -> {"empty", "ok", "err"}]
        /\ \A q \in Part : ~Shared(q) /\ inbox'[q] # inbox[q] => q = p /\ inbox'[q] = "ok"
    BY <1>2, <2>1, ResultReaches
  <2>3. run' \in [Part -> RunAt]
    BY <1>3, <2>1 DEF RunAt
  <2>4. \A q \in Part : run'[q] = IF q = p THEN "exec" ELSE run[q]
    BY <1>3, <2>1
  <2>5. watch[p] # "open"
    BY <1>3, <2>1
  <2> QED BY <1>3, <2>1, <2>2, <2>3, <2>4, <2>5 DEF Succeeded
<1>7. CASE RebootExec(p)
  <2>1. /\ run[p] = "exec" /\ inbox' = inbox
        /\ \/ run' = [run EXCEPT ![p] = "ok"] /\ watch' = watch
           \/ /\ watch' = [q \in Part |-> IF q.a = p.a /\ watch[q] = "open"
                                          THEN "gone" ELSE watch[q]]
              /\ run' = [q \in Part |-> IF q = p THEN "ok"
                                        ELSE IF q.a = p.a /\ Lives(q) THEN "dead"
                                        ELSE run[q]]
    BY <1>7 DEF RebootExec
  <2>2. run' \in [Part -> RunAt] /\ watch' \in [Part -> {"none", "open", "gone"}]
    BY <1>3, <2>1 DEF RunAt
  <2>3. \A q \in Part :
          /\ run[q] = "none" => run'[q] = "none"
          /\ Succeeded(q) => run'[q] \in {"ok", "exec"}
          /\ watch'[q] = "open" => watch[q] = "open" /\ run'[q] \in {"run", "stopped"}
    BY <1>3, <2>1 DEF Succeeded, Lives
  <2> QED BY <1>3, <2>1, <2>2, <2>3
<1>8. CASE WatchSignal(p)
  <2>1. /\ watch[p] = "open" /\ inbox' = inbox
        /\ \/ run' = [run EXCEPT ![p] = "stopped"] /\ watch' = [watch EXCEPT ![p] = "none"]
           \/ run' = run /\ watch' = watch
    BY <1>8 DEF WatchSignal
  <2>2. run[p] \in {"run", "stopped"}
    BY <1>3, <2>1
  <2>3. run' \in [Part -> RunAt] /\ watch' \in [Part -> {"none", "open", "gone"}]
    BY <1>3, <2>1 DEF RunAt
  <2>4. \A q \in Part :
          /\ run[q] = "none" => run'[q] = "none"
          /\ Succeeded(q) => run'[q] \in {"ok", "exec"}
          /\ watch'[q] = "open" => watch[q] = "open" /\ run'[q] \in {"run", "stopped"}
    BY <1>3, <2>1, <2>2 DEF Succeeded
  <2> QED BY <1>3, <2>1, <2>3, <2>4
<1>9. CASE WatchGone(p)
  <2>1. inbox' = inbox /\ run' = run /\ watch' = [watch EXCEPT ![p] = "none"]
    BY <1>9 DEF WatchGone
  <2>2. watch' \in [Part -> {"none", "open", "gone"}]
        /\ \A q \in Part : watch'[q] = "open" => watch[q] = "open"
    BY <1>3, <2>1
  <2> QED BY <1>3, <2>1, <2>2 DEF Succeeded
<1> QED BY <1>5, <1>6, <1>7, <1>8, <1>9

\* enqueueAgentTask: a part that waits for a place is in no queue yet.
LEMMA EnqueueStep ==
  ASSUME IInv, UNCHANGED req, NEW p \in Part, Enqueue(p)
  PROVE  IInv'
<1> USE DEF taskVars, lineVars, runVars
<1>1. /\ UNCHANGED <<req, status, dist, line, sel, results, inbox, run, watch>>
      /\ call[p] = "enqueue"
      /\ queue' = [queue EXCEPT ![p.a] = Append(queue[p.a], p)]
      /\ call' = [call EXCEPT ![p] = "wait"]
  BY DEF Enqueue, SetCall
<1>2. Types /\ PartInv /\ DistInv
  BY DEF IInv
<1>3. /\ call \in [Part -> {"none", "enqueue", "void", "wait", "ok", "err"}]
      /\ queue \in [Agent -> Seq(Part)] /\ p.a \in Agent /\ queue[p.a] \in Seq(Part)
  BY <1>2, PartFields DEF Types
<1>4. /\ call' \in [Part -> {"none", "enqueue", "void", "wait", "ok", "err"}]
      /\ \A q \in Part : call'[q] = IF q = p THEN "wait" ELSE call[q]
  BY <1>1, <1>3
<1>5. run[p] = "none" /\ \A a \in Agent : ~In(queue[a], p) /\ Distinct(queue[a])
  BY <1>1, <1>2 DEF PartInv, OnceQueued
<1> DEFINE s == Append(queue[p.a], p)
<1>6. /\ s \in Seq(Part) /\ Distinct(s)
      /\ \A x : In(s, x) <=> x = p \/ In(queue[p.a], x)
  BY <1>3, <1>5, InAppend
<1> HIDE DEF s
<1>7. /\ queue' \in [Agent -> Seq(Part)]
      /\ \A a \in Agent : queue'[a] = IF a = p.a THEN s ELSE queue[a]
  <2>1. queue' = [queue EXCEPT ![p.a] = s]
    BY <1>1 DEF s
  <2> QED BY <1>3, <1>6, <2>1
<1>8. Types'
  BY <1>1, <1>2, <1>4, <1>7 DEF Types
<1>9. OnceQueued'
  <2>1. \A q \in Part : line[q.r][q.i] \in {"none", "spawned"} => call'[q] = "none"
    BY <1>1, <1>2, <1>4 DEF PartInv, OnceQueued
  <2>2. \A q \in Part : call'[q] \in {"none", "enqueue", "void"} =>
          run[q] = "none" /\ \A a \in Agent : ~In(queue'[a], q)
    BY <1>2, <1>3, <1>4, <1>6, <1>7 DEF PartInv, OnceQueued
  <2>3. \A a \in Agent :
          /\ Distinct(queue'[a])
          /\ \A q \in Part : In(queue'[a], q) => run[q] = "none" /\ q.a = a
    <3> SUFFICES ASSUME NEW a \in Agent
                 PROVE  /\ Distinct(queue'[a])
                        /\ \A q \in Part : In(queue'[a], q) => run[q] = "none" /\ q.a = a
      OBVIOUS
    <3>1. \A q \in Part : In(queue[a], q) => run[q] = "none" /\ q.a = a
      BY <1>2 DEF PartInv, OnceQueued
    <3>2. CASE a = p.a
      <4>1. queue'[a] = s
        BY <1>7, <3>2
      <4>2. \A q \in Part : In(s, q) => q = p \/ In(queue[a], q)
        BY <1>6, <3>2
      <4> QED BY <1>5, <1>6, <3>1, <3>2, <4>1, <4>2
    <3>3. CASE a # p.a
      <4>1. queue'[a] = queue[a]
        BY <1>7, <3>3
      <4> QED BY <1>5, <3>1, <4>1
    <3> QED BY <3>2, <3>3
  <2> QED BY <1>1, <2>1, <2>2, <2>3 DEF OnceQueued
<1>10. ResultsInv' /\ WatchInv' /\ HonestResults'
  BY <1>1, <1>2, <1>4, RequestFixed DEF PartInv, ResultsInv, WatchInv, HonestResults, Succeeded
<1>11. DistInv'
  BY <1>1, <1>2, <1>4, DistFrame
<1> QED BY <1>8, <1>9, <1>10, <1>11 DEF IInv, PartInv

\* The end of the wait for a result.
LEMMA CallSteps ==
  ASSUME IInv, UNCHANGED req, NEW p \in Part, CallResult(p) \/ CallGiveUp(p)
  PROVE  IInv'
<1> USE DEF registryVars, taskVars, lineVars, runVars
<1>1. /\ UNCHANGED <<req, status, dist, line, sel, queue, run, watch>>
      /\ results' \subseteq results
      /\ inbox' = [inbox EXCEPT ![p] = "empty"]
      /\ \/ call[p] = "wait" /\ inbox[p] # "empty" /\ call' = [call EXCEPT ![p] = inbox[p]]
         \/ call[p] \in {"enqueue", "void", "wait"} /\ call' = [call EXCEPT ![p] = "err"]
  BY DEF CallResult, CallGiveUp, CanGiveUp, SetCall, Forget
<1>2. Types /\ PartInv /\ DistInv
  BY DEF IInv
<1>3. /\ call \in [Part -> {"none", "enqueue", "void", "wait", "ok", "err"}]
      /\ inbox \in [Part -> {"empty", "ok", "err"}]
  BY <1>2 DEF Types
<1>4. /\ call' \in [Part -> {"none", "enqueue", "void", "wait", "ok", "err"}]
      /\ inbox' \in [Part -> {"empty", "ok", "err"}]
      /\ \A q \in Part : q # p => call'[q] = call[q]
      /\ call'[p] \in {"ok", "err"} /\ (call'[p] = "ok" => inbox[p] = "ok")
      /\ \A q \in Part : inbox'[q] = IF q = p THEN "empty" ELSE inbox[q]
  BY <1>1, <1>3
<1>5. Types'
  BY <1>1, <1>2, <1>4 DEF Types
<1>6. OnceQueued'
  <2>1. \A q \in Part : line[q.r][q.i] \in {"none", "spawned"} => call'[q] = "none"
    BY <1>1, <1>2, <1>4 DEF PartInv, OnceQueued
  <2>2. \A q \in Part : call'[q] \in {"none", "enqueue", "void"} => call[q] = call'[q]
    BY <1>4
  <2> QED BY <1>1, <1>2, <2>1, <2>2 DEF PartInv, OnceQueued
<1>7. ResultsInv' /\ WatchInv'
  BY <1>1, <1>2, RequestFixed DEF PartInv, ResultsInv, WatchInv
<1>8. HonestResults'
  BY <1>1, <1>2, <1>4, RequestFixed DEF PartInv, HonestResults, Succeeded
<1>9. DistInv'
  <2>1. \A q \in Part : call[q] = "ok" => call'[q] = "ok"
    BY <1>1, <1>4
  <2> QED BY <1>1, <1>2, <2>1, DistFrame
<1> QED BY <1>5, <1>6, <1>7, <1>8, <1>9 DEF IInv, PartInv
-----------------------------------------------------------------------------
(* The agents.                                                             *)

\* pollLoop: a part that is taken leaves the queue for good.
LEMMA TakeStep ==
  ASSUME IInv, UNCHANGED req, NEW a \in Agent, AgentTake(a)
  PROVE  IInv'
<1> USE DEF taskVars, lineVars, callVars
<1> DEFINE p == Head(queue[a])
           s == Tail(queue[a])
<1>1. /\ UNCHANGED <<req, status, dist, line, sel, call, results, inbox>>
      /\ queue[a] # << >> /\ queue' = [queue EXCEPT ![a] = s]
      /\ run' = [run EXCEPT ![p] = "run"]
      /\ watch' = [watch EXCEPT ![p] =
                    IF LineAt(p.r, p.i).kind = "stress" THEN "open" ELSE @]
  BY DEF AgentTake, Take
<1>2. Types /\ PartInv /\ DistInv
  BY DEF IInv
<1>3. /\ run \in [Part -> RunAt] /\ watch \in [Part -> {"none", "open", "gone"}]
      /\ queue \in [Agent -> Seq(Part)] /\ queue[a] \in Seq(Part)
  BY <1>2 DEF Types
<1>4. /\ p \in Part /\ s \in Seq(Part)
      /\ \A x : In(queue[a], x) <=> x = p \/ In(s, x)
      /\ Distinct(queue[a]) => Distinct(s) /\ ~In(s, p)
  BY <1>1, <1>3, InTail
<1> HIDE DEF p, s
<1>5. Distinct(s) /\ ~In(s, p) /\ run[p] = "none" /\ p.a = a
  BY <1>2, <1>4 DEF PartInv, OnceQueued
<1>6. /\ run' \in [Part -> RunAt] /\ watch' \in [Part -> {"none", "open", "gone"}]
      /\ \A q \in Part : run'[q] = IF q = p THEN "run" ELSE run[q]
      /\ \A q \in Part : q # p => watch'[q] = watch[q]
      /\ watch'[p] = "open" => watch[p] = "open" \/ LineAt(p.r, p.i).kind = "stress"
  BY <1>1, <1>3, <1>4 DEF RunAt
<1>7. /\ queue' \in [Agent -> Seq(Part)]
      /\ \A b \in Agent : queue'[b] = IF b = a THEN s ELSE queue[b]
  BY <1>1, <1>3, <1>4
<1>8. Types'
  BY <1>1, <1>2, <1>6, <1>7 DEF Types
<1>9. \A b \in Agent : ~In(queue'[b], p) /\ \A q : In(queue'[b], q) => In(queue[b], q)
  <2>1. \A b \in Agent : b # a => ~In(queue[b], p)
    BY <1>2, <1>4, <1>5 DEF PartInv, OnceQueued
  <2> QED BY <1>4, <1>5, <1>7, <2>1
<1>10. OnceQueued'
  <2>1. call[p] \notin {"none", "enqueue", "void"}
    BY <1>2, <1>4 DEF PartInv, OnceQueued
  <2>2. \A q \in Part : call[q] \in {"none", "enqueue", "void"} =>
          run'[q] = "none" /\ \A b \in Agent : ~In(queue'[b], q)
    BY <1>2, <1>6, <1>9, <2>1 DEF PartInv, OnceQueued
  <2>3. \A b \in Agent :
          /\ Distinct(queue'[b])
          /\ \A q \in Part : In(queue'[b], q) => run'[q] = "none" /\ q.a = b
    BY <1>2, <1>5, <1>6, <1>7, <1>9 DEF PartInv, OnceQueued
  <2> QED BY <1>1, <1>2, <2>2, <2>3 DEF PartInv, OnceQueued
<1>11. ResultsInv'
  BY <1>1, <1>2, RequestFixed DEF PartInv, ResultsInv
<1>12. WatchInv'
  <2>1. watch[p] # "open"
    BY <1>2, <1>4, <1>5 DEF PartInv, WatchInv
  <2> QED BY <1>1, <1>2, <1>6, <2>1, RequestFixed DEF PartInv, WatchInv
<1>13. HonestResults'
  <2>1. ~Succeeded(p)
    BY <1>5 DEF Succeeded
  <2>2. \A q \in Part : q # p /\ Succeeded(q) => run'[q] \in {"ok", "exec"}
    BY <1>6 DEF Succeeded
  <2> QED BY <1>1, <1>2, <1>4, <2>1, <2>2, RequestFixed
          DEF PartInv, HonestResults, Succeeded
<1>14. DistInv'
  BY <1>1, <1>2, DistFrame
<1> QED BY <1>8, <1>10, <1>11, <1>12, <1>13, <1>14 DEF IInv, PartInv

\* A process that ends takes its parts with it.
LEMMA EndsStep ==
  ASSUME IInv, UNCHANGED req, NEW a \in Agent, AgentEnds(a)
  PROVE  IInv'
<1> USE DEF taskVars, lineVars, callVars
<1>1. /\ UNCHANGED <<req, status, dist, line, sel, call, queue, results, inbox>>
      /\ run' = [p \in Part |-> IF p.a = a /\ Lives(p) THEN "dead" ELSE run[p]]
      /\ watch' = [p \in Part |-> IF p.a = a /\ watch[p] = "open" THEN "gone"
                                  ELSE watch[p]]
  BY DEF AgentEnds, KillParts, Crash, Register
<1>2. Types /\ PartInv /\ DistInv
  BY DEF IInv
<1>3. /\ run \in [Part -> RunAt] /\ watch \in [Part -> {"none", "open", "gone"}]
      /\ inbox \in [Part -> {"empty", "ok", "err"}]
      /\ \A q \in Part : watch[q] = "open" => run[q] \in {"run", "stopped"}
  BY <1>2 DEF Types, PartInv, WatchInv
<1>4. run' \in [Part -> RunAt] /\ watch' \in [Part -> {"none", "open", "gone"}]
  BY <1>1, <1>3 DEF RunAt
<1>5. \A q \in Part :
        /\ run[q] = "none" => run'[q] = "none"
        /\ Succeeded(q) => run'[q] \in {"ok", "exec"}
        /\ watch'[q] = "open" => watch[q] = "open" /\ run'[q] \in {"run", "stopped"}
  BY <1>1, <1>3 DEF Succeeded, Lives
<1>6. Types'
  BY <1>1, <1>2, <1>3, <1>4, TypesOfRun
<1>7. PartInv'
  BY <1>1, <1>2, <1>5, RunFrame
<1>8. DistInv'
  BY <1>1, <1>2, DistFrame
<1> QED BY <1>6, <1>7, <1>8 DEF IInv

\* The registry: tasks are lost from a queue, never doubled.
LEMMA RegistrySteps ==
  ASSUME IInv, UNCHANGED req, NEW a \in Agent, AgentCleanup(a) \/ RegistryStep(a)
  PROVE  IInv'
<1> USE DEF taskVars, lineVars, callVars, runVars
<1>1. /\ UNCHANGED <<req, status, dist, line, sel, results, inbox, run, watch>>
      /\ \/ queue' = queue
         \/ queue' = [queue EXCEPT ![a] = << >>]
         \/ queue[a] # << >> /\ queue' = [queue EXCEPT ![a] = Tail(queue[a])]
      /\ \/ call' = call
         \/ call' = [p \in Part |-> IF p.a = a /\ call[p] = "enqueue" THEN "void"
                                    ELSE call[p]]
  BY DEF AgentCleanup, Cleanup, RegistryStep, Start, Connect, TakeGone, PollTimeout,
         Disconnect, Noticed
<1>2. Types /\ PartInv /\ DistInv
  BY DEF IInv
<1>3. /\ call \in [Part -> {"none", "enqueue", "void", "wait", "ok", "err"}]
      /\ queue \in [Agent -> Seq(Part)] /\ queue[a] \in Seq(Part)
  BY <1>2 DEF Types
<1>4. /\ call' \in [Part -> {"none", "enqueue", "void", "wait", "ok", "err"}]
      /\ \A p \in Part : call'[p] = call[p] \/ (call[p] = "enqueue" /\ call'[p] = "void")
  BY <1>1, <1>3
<1>5. /\ queue' \in [Agent -> Seq(Part)]
      /\ \A b \in Agent : Distinct(queue'[b]) /\ \A p : In(queue'[b], p) => In(queue[b], p)
  <2>1. \A b \in Agent : Distinct(queue[b])
    BY <1>2 DEF PartInv, OnceQueued
  <2>2. << >> \in Seq(Part) /\ Distinct(<< >>) /\ \A p : ~In(<< >>, p)
    BY DEF Distinct, In
  <2>3. queue[a] # << >> =>
          /\ Tail(queue[a]) \in Seq(Part) /\ Distinct(Tail(queue[a]))
          /\ \A p : In(Tail(queue[a]), p) => In(queue[a], p)
    BY <1>3, <2>1, InTail
  <2>4. CASE queue' = queue
    BY <1>3, <2>1, <2>4
  <2>5. CASE queue' = [queue EXCEPT ![a] = << >>]
    BY <1>3, <2>1, <2>2, <2>5
  <2>6. CASE queue[a] # << >> /\ queue' = [queue EXCEPT ![a] = Tail(queue[a])]
    BY <1>3, <2>1, <2>3, <2>6
  <2> QED BY <1>1, <2>4, <2>5, <2>6
<1>6. Types'
  BY <1>1, <1>2, <1>4, <1>5 DEF Types
<1>7. OnceQueued'
  <2>1. \A p \in Part : line[p.r][p.i] \in {"none", "spawned"} => call'[p] = "none"
    BY <1>2, <1>4 DEF PartInv, OnceQueued
  <2>2. \A p \in Part : call'[p] \in {"none", "enqueue", "void"} =>
          run[p] = "none" /\ \A b \in Agent : ~In(queue'[b], p)
    BY <1>2, <1>4, <1>5 DEF PartInv, OnceQueued
  <2>3. \A b \in Agent : \A p \in Part : In(queue'[b], p) => run[p] = "none" /\ p.a = b
    BY <1>2, <1>5 DEF PartInv, OnceQueued
  <2> QED BY <1>1, <1>5, <2>1, <2>2, <2>3 DEF OnceQueued
<1>8. ResultsInv' /\ WatchInv' /\ HonestResults'
  BY <1>1, <1>2, <1>4, RequestFixed DEF PartInv, ResultsInv, WatchInv, HonestResults, Succeeded
<1>9. DistInv'
  BY <1>1, <1>2, <1>4, DistFrame
<1> QED BY <1>6, <1>7, <1>8, <1>9 DEF IInv, PartInv
-----------------------------------------------------------------------------
LEMMA MasterAgentInit ==
  ASSUME Init
  PROVE  IInv
<1>1. Types
  <2>1. \A a \in Agent : << >> \in Seq(Part)
    OBVIOUS
  <2>2. [at |-> "none", i |-> 1, bg |-> << >>]
          \in [at : DistAt, i : Nat \ {0}, bg : Seq(Nat)]
    BY DEF DistAt
  <2> QED BY <2>1, <2>2 DEF Init, RegistryInit, Types, RunAt
<1>2. PartInv
  <2>1. /\ results = {} /\ \A p \in Part : call[p] = "none" /\ run[p] = "none"
        /\ \A p \in Part : inbox[p] = "empty" /\ watch[p] = "none"
        /\ \A a \in Agent : queue[a] = << >>
    BY DEF Init, RegistryInit
  <2>2. Distinct(<< >>) /\ \A p : ~In(<< >>, p)
    BY DEF Distinct, In
  <2> QED BY <2>1, <2>2
          DEF PartInv, ResultsInv, OnceQueued, WatchInv, HonestResults
<1>3. DistInv
  <2> SUFFICES ASSUME NEW r \in Report PROVE DistOf(r)
    BY DEF DistInv
  <2>1. /\ dist[r].at = "none" /\ dist[r].i = 1 /\ dist[r].bg = << >> /\ status[r] = "none"
        /\ \A i \in 1..MaxIndex : line[r][i] = "none"
    BY DEF Init
  <2>2. \A i : ~InBg(r, i)
    BY <2>1 DEF InBg, In
  <2>3. \A i \in Index(r) : ~(i < 1)
    BY <1>1, IndexFacts DEF Index
  <2> QED BY <2>1, <2>2, <2>3 DEF DistOf
<1> QED BY <1>1, <1>2, <1>3 DEF IInv

\* The types, the parts and the reports, for every step of the master, the parts
\* and the agents.
LEMMA MasterAgentInvariant == Spec => []IInv
<1>1. Init => IInv
  BY MasterAgentInit
<1>2. IInv /\ [Next]_vars => IInv'
  <2> SUFFICES ASSUME IInv, [Next]_vars PROVE IInv'
    OBVIOUS
  <2>1. CASE Next
    <3>1. UNCHANGED req /\ Step
      BY <2>1 DEF Next
    <3>2. ASSUME NEW r \in Report, ReportStep(r)
          PROVE  IInv'
      BY <3>1, <3>2, SubmitSteps, NextStep, WaitStep, StopSteps, NoAgentStep, SendStep
         DEF ReportStep
    <3>3. ASSUME NEW p \in Part, PartStep(p)
          PROVE  IInv'
      BY <3>1, <3>3, EnqueueStep, CallSteps, RunSteps DEF PartStep
    <3>4. ASSUME NEW a \in Agent, AgentStep(a)
          PROVE  IInv'
      BY <3>1, <3>4, TakeStep, EndsStep, RegistrySteps DEF AgentStep
    <3> QED BY <3>1, <3>2, <3>3, <3>4 DEF Step
  <2>2. CASE UNCHANGED vars
    <3>1. UNCHANGED <<req, status, dist, line, sel, call, results, inbox, run, watch, queue>>
      BY <2>2 DEF vars, stepVars, registryVars, taskVars, lineVars, callVars, runVars
    <3>2. Types'
      BY <3>1 DEF IInv, Types
    <3>3. PartInv' /\ DistInv'
      BY <3>1, PartFrame, DistFrame DEF IInv
    <3> QED BY <3>2, <3>3 DEF IInv
  <2> QED BY <2>1, <2>2
<1> QED BY <1>1, <1>2, PTL DEF Spec

\* A report that is "done" has run: every part of a line with error_break was
\* executed by its agent and reported success, the background lines included,
\* whatever was lost, delayed, given up or restarted on the way, unless the part
\* is a control instruction whose key has no report in it (taskKey).
THEOREM DoneMeansRun == Spec => []DoneIsHonest
<1>1. ASSUME IInv
      PROVE  DoneIsHonest
  <2> SUFFICES ASSUME NEW r \in Report, NEW i \in Index(r), status[r] = "done",
                      LineAt(r, i).errorBreak,
                      ~(OneSecond /\ LineAt(r, i).kind # "stress")
               PROVE  line[r][i] = "sent" /\ \A a \in sel[r][i] :
                        run[[r |-> r, i |-> i, a |-> a]] \in {"ok", "exec"}
    BY DEF DoneIsHonest
  <2>1. i \in 1..MaxIndex
    BY <1>1, IndexFacts DEF IInv
  <2>2. /\ line[r][i] = "sent"
        /\ \A a \in sel[r][i] : call[[r |-> r, i |-> i, a |-> a]] = "ok"
    BY <1>1 DEF IInv, DistInv, DistOf, Settled
  <2>3. ASSUME NEW a \in sel[r][i]
        PROVE  run[[r |-> r, i |-> i, a |-> a]] \in {"ok", "exec"}
    <3> DEFINE p == [r |-> r, i |-> i, a |-> a]
    <3>1. a \in Agent
      BY <1>1, <2>1, <2>3, TypeParts DEF IInv
    <3>2. p \in Part /\ p.r = r /\ p.i = i
      BY <2>1, <3>1 DEF Part
    <3>3. call[p] = "ok"
      BY <2>2, <2>3
    <3> HIDE DEF p
    <3>4. ~Shared(p)
      BY <3>2 DEF Shared
    <3>5. run[p] \in {"ok", "exec"}
      BY <1>1, <3>2, <3>3, <3>4 DEF IInv, PartInv, HonestResults, Succeeded
    <3> QED BY <3>5 DEF p
  <2> QED BY <2>2, <2>3
<1> QED BY <1>1, MasterAgentInvariant, PTL
=============================================================================
