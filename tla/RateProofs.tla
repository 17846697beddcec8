---------------------------- MODULE RateProofs ----------------------------
(***************************************************************************)
(* TLAPS proofs about the rate of a case: the token bucket that limits it  *)
(* (module QPSRate), for every number of workers, every scale of the       *)
(* tokens and every choice of target rates and ticks, and the controller   *)
(* that chooses the target when none is given (module Pressure), for every *)
(* MaxQPS.                                                                 *)
(***************************************************************************)
EXTENDS QPSRate, Pressure, FiniteSetTheorems, TLAPS

-----------------------------------------------------------------------------
(* The token bucket.                                                       *)

USE QPSAssumption

\* One token more, or less, of a number of tokens.
LEMMA OneMore ==
  ASSUME NEW n \in Int
  PROVE  /\ TokenScale * n \in Int
         /\ TokenScale * (n + 1) = TokenScale * n + TokenScale
         /\ TokenScale * (n - 1) = TokenScale * n - TokenScale
  OBVIOUS

\* The workers that owe the bucket a refund are finitely many.
LEMMA RefundingFinite ==
  /\ IsFiniteSet(Refunding)
  /\ Cardinality(Refunding) \in Nat
<1>1. Refunding \subseteq Worker
  BY DEF Refunding
<1> QED
  BY <1>1, FS_Subset, FS_CardinalityType

\* A worker that fails to get a token joins Refunding.
LEMMA RefundingGrows ==
  ASSUME TypeOK, NEW w \in Worker, pc[w] = "take",
         pc' = [pc EXCEPT ![w] = "refund"]
  PROVE  Cardinality(Refunding') = Cardinality(Refunding) + 1
<1>1. w \notin Refunding /\ Refunding' = Refunding \cup {w}
  BY DEF Refunding, TypeOK
<1> QED
  BY <1>1, RefundingFinite, FS_AddElement

\* A worker that has put its token back leaves it.
LEMMA RefundingShrinks ==
  ASSUME TypeOK, NEW w \in Worker, pc[w] = "refund",
         pc' = [pc EXCEPT ![w] = "lock"]
  PROVE  Cardinality(Refunding') = Cardinality(Refunding) - 1
<1>1. w \in Refunding /\ Refunding' = Refunding \ {w}
  BY DEF Refunding, TypeOK
<1> QED
  BY <1>1, RefundingFinite, FS_RemoveElement

\* The first token is in the bucket.
LEMMA RateInitInv == RateInit => RateInv
<1> SUFFICES ASSUME RateInit PROVE RateInv
  OBVIOUS
<1>1. Refunding = {}
  BY DEF RateInit, Init, Refunding
<1>2. Cardinality(Refunding) = 0
  BY <1>1, FS_EmptySet
<1>3. TypeOK
  BY DEF RateInit, Init, TypeOK, WorkerPc
<1> QED
  BY <1>2, <1>3 DEF RateInv, RateInit, Init, Conservation, RateBound, Worth

\* A step that changes neither the tokens, nor the accounts, nor Refunding.
LEMMA QuietStep ==
  ASSUME RateInv, TypeOK', UNCHANGED <<tokens, accounts>>,
         Refunding' = Refunding
  PROVE  RateInv'
  BY DEF RateInv, Conservation, RateBound, Worth, accounts

\* Every step keeps the accounts straight.
LEMMA RateStepInv ==
  ASSUME RateInv, RateNext
  PROVE  RateInv'
<1> USE DEF Goto, WorkerPc
<1>0. /\ TypeOK /\ opening \in Int /\ added \in Nat /\ dropped \in Nat /\ granted \in Nat
      /\ Conservation /\ RateBound
  BY DEF RateInv
<1>c. Cardinality(Refunding) \in Nat
  BY RefundingFinite
<1>1. ASSUME NEW e \in Elapsed, Add(e) PROVE RateInv'
  <2> DEFINE add == (target * e) \div Second
  <2>1. e \in Nat /\ target * e \in Nat
    BY <1>0 DEF TypeOK
  <2>2. add \in Int /\ add > 0 /\ tokens' = tokens + add /\ added' = added + add
    BY <1>0, <1>1, <2>1 DEF Add, RefillAdd, TypeOK
  <2>3. excess' \in Nat
    <3>1. BurstCap(target) \in Int
      BY <1>0 DEF BurstCap, MinBurstTokens, TypeOK
    <3> QED
      BY <1>0, <1>1, <2>2, <3>1 DEF Add, RefillAdd, Excess, TypeOK
  <2>4. TypeOK'
    BY <1>0, <1>1, <2>2, <2>3 DEF Add, RefillAdd, TypeOK
  <2>5. Refunding' = Refunding
    BY <1>1 DEF Add, RefillAdd, Refunding
  <2> HIDE DEF add
  <2>6. granted' = granted /\ dropped' = dropped /\ opening' = opening
    BY <1>1 DEF Add
  <2>7. TokenScale * Cardinality(Refunding) \in Int /\ TokenScale * granted \in Int
    BY <1>0, <1>c, OneMore
  <2> QED
    BY <1>0, <2>2, <2>4, <2>5, <2>6, <2>7
    DEF RateInv, Conservation, RateBound, Worth, TypeOK
<1>2. ASSUME Trim PROVE RateInv'
  <2>1. TypeOK'
    BY <1>0, <1>2 DEF Trim, RefillTrim, TypeOK
  <2>2. Refunding' = Refunding
    BY <1>2 DEF Trim, RefillTrim, Refunding
  <2>3. /\ tokens' = tokens - excess /\ dropped' = dropped + excess
        /\ added' = added /\ granted' = granted /\ excess \in Nat
        /\ opening' = opening
    BY <1>0, <1>2 DEF Trim, RefillTrim, TypeOK
  <2>4. TokenScale * Cardinality(Refunding) \in Int /\ TokenScale * granted \in Int
    BY <1>0, <1>c, OneMore
  <2> QED
    BY <1>0, <2>1, <2>2, <2>3, <2>4
    DEF RateInv, Conservation, RateBound, Worth, TypeOK
<1>3. ASSUME NEW w \in Worker, Take(w) PROVE RateInv'
  <2>1. TypeOK'
    BY <1>0, <1>3 DEF Take, AcquireTake, TypeOK
  <2>2. /\ TokenScale * Cardinality(Refunding) \in Int
        /\ TokenScale * (Cardinality(Refunding) + 1)
             = TokenScale * Cardinality(Refunding) + TokenScale
        /\ TokenScale * granted \in Int
        /\ TokenScale * (granted + 1) = TokenScale * granted + TokenScale
    BY <1>0, <1>c, OneMore
  <2>3. /\ pc[w] = "take" /\ tokens' = tokens - TokenScale
        /\ added' = added /\ dropped' = dropped /\ opening' = opening
    BY <1>3 DEF Take, AcquireTake
  <2>4. CASE tokens' >= 0
    <3>1. pc' = [pc EXCEPT ![w] = "granted"] /\ granted' = granted + 1
      BY <1>0, <1>3, <2>4 DEF Take, AcquireTake, TypeOK
    <3>2. Refunding' = Refunding
      BY <1>0, <2>3, <3>1 DEF Refunding, TypeOK
    <3>3. Conservation'
      BY <1>0, <2>2, <2>3, <3>1, <3>2 DEF Conservation, Worth, TypeOK
    <3>4. TokenScale * Cardinality(Refunding) >= 0
      BY <1>c
    <3>5. RateBound'
      BY <1>0, <2>2, <2>3, <2>4, <3>1, <3>4 DEF Conservation, RateBound, Worth, TypeOK
    <3> QED
      BY <1>0, <2>1, <2>3, <3>1, <3>3, <3>5 DEF RateInv
  <2>5. CASE ~(tokens' >= 0)
    <3>1. pc' = [pc EXCEPT ![w] = "refund"] /\ granted' = granted
      BY <1>0, <1>3, <2>5 DEF Take, AcquireTake, TypeOK
    <3>2. Cardinality(Refunding') = Cardinality(Refunding) + 1
      BY <1>0, <2>3, <3>1, RefundingGrows
    <3>3. Conservation'
      BY <1>0, <2>2, <2>3, <3>1, <3>2 DEF Conservation, Worth, TypeOK
    <3> QED
      BY <1>0, <2>1, <2>3, <3>1, <3>3 DEF RateInv, RateBound
  <2> QED
    BY <2>4, <2>5
<1>4. ASSUME NEW w \in Worker, AcquireRefund(w), UNCHANGED accounts
      PROVE  RateInv'
  <2>1. TypeOK'
    BY <1>0, <1>4 DEF AcquireRefund, TypeOK
  <2>2. Cardinality(Refunding') = Cardinality(Refunding) - 1
    BY <1>0, <1>4, RefundingShrinks DEF AcquireRefund
  <2>3. /\ TokenScale * Cardinality(Refunding) \in Int
        /\ TokenScale * (Cardinality(Refunding) - 1)
             = TokenScale * Cardinality(Refunding) - TokenScale
        /\ TokenScale * granted \in Int
    BY <1>0, <1>c, OneMore
  <2>4. tokens' = tokens + TokenScale
    BY <1>4 DEF AcquireRefund
  <2>5. Conservation'
    BY <1>0, <1>4, <2>2, <2>3, <2>4 DEF Conservation, Worth, TypeOK, accounts
  <2> QED
    BY <1>0, <1>4, <2>1, <2>5 DEF RateInv, RateBound, accounts
<1>5. ASSUME NEW w \in Worker, UNCHANGED accounts,
             \/ AcquireCall(w) \/ AcquireLock(w) \/ AcquireCheck(w)
             \/ AcquireWait(w) \/ AcquireReturn(w) \/ WorkerExit(w)
      PROVE  RateInv'
  <2>1. TypeOK'
    BY <1>0, <1>5 DEF AcquireCall, AcquireLock, AcquireCheck, AcquireWait,
       AcquireReturn, WorkerExit, TypeOK
  <2>2. Refunding' = Refunding /\ tokens' = tokens
    BY <1>0, <1>5 DEF AcquireCall, AcquireLock, AcquireCheck, AcquireWait,
       AcquireReturn, WorkerExit, TypeOK, Refunding
  <2> QED
    BY <1>5, <2>1, <2>2, QuietStep
<1>6. ASSUME UNCHANGED accounts,
             RefillBroadcast \/ Stop \/ \E t \in Targets : SetQPS(t)
      PROVE  RateInv'
  <2>1. TypeOK'
    BY <1>0, <1>6 DEF RefillBroadcast, Stop, SetQPS, WakeAll, TypeOK
  <2>2. Refunding' = Refunding /\ tokens' = tokens
    BY <1>0, <1>6 DEF RefillBroadcast, Stop, SetQPS, WakeAll, TypeOK, Refunding
  <2> QED
    BY <1>6, <2>1, <2>2, QuietStep
<1>7. ASSUME CloseBooks PROVE RateInv'
  <2>1. TypeOK' /\ tokens' = tokens /\ Refunding' = Refunding
    BY <1>0, <1>7 DEF CloseBooks, TypeOK, vars, Refunding
  <2>2. Worth \in Int /\ Worth' = Worth
    BY <1>0, <1>c, <2>1, OneMore DEF Worth, TypeOK
  <2>3. TokenScale * 0 = 0
    OBVIOUS
  <2> QED
    BY <1>7, <2>1, <2>2, <2>3 DEF CloseBooks, RateInv, Conservation, RateBound
<1> QED
  BY <1>1, <1>2, <1>3, <1>4, <1>5, <1>6, <1>7 DEF RateNext, Other

\* Tokens are conserved and the rate is bounded in every reachable state of the
\* controller, however its atomic operations interleave.
THEOREM RateInvariant == RateSpec => []RateInv
<1>1. RateInv /\ [RateNext]_<<vars, accounts>> => RateInv'
  <2>1. ASSUME RateInv, UNCHANGED <<vars, accounts>> PROVE RateInv'
    <3>1. TypeOK' /\ tokens' = tokens /\ Refunding' = Refunding
      BY <2>1 DEF RateInv, TypeOK, vars, Refunding
    <3> QED
      BY <2>1, <3>1, QuietStep
  <2> QED
    BY <2>1, RateStepInv
<1> QED
  BY <1>1, RateInitInv, PTL DEF RateSpec

\* In no period does Acquire hand out more tokens than the bucket was worth and
\* the refiller has added, for every number of workers.
THEOREM RateLimited == RateSpec => []RateBound
<1>1. RateInv => RateBound
  BY DEF RateInv
<1> QED
  BY <1>1, RateInvariant, PTL

\* No interleaving of Add, cut, take and refund loses or invents a token.
THEOREM TokensConserved == RateSpec => []Conservation
<1>1. RateInv => Conservation
  BY DEF RateInv
<1> QED
  BY <1>1, RateInvariant, PTL
-----------------------------------------------------------------------------
(* The burst.  What the bucket is worth, and not what it holds, is what    *)
(* the refiller bounds: a take that fails hides a token for a moment.      *)

\* Less what is about to be cut, the bucket is worth no more than the largest
\* capacity and a token for each worker; before the cut, one tick more.
BurstInv ==
  /\ target \in Targets \cup {0}
  /\ refill # "trim" => excess = 0
  /\ Worth - excess <= LargestCap + TokenScale * Cardinality(Worker)
  /\ Worth <= LargestCap + LargestAdd + TokenScale * Cardinality(Worker)

\* Products and quotients grow with their arguments.
LEMMA ProductGrows ==
  ASSUME NEW a \in Nat, NEW b \in Nat, a <= b, NEW c \in Nat
  PROVE  a * c <= b * c /\ c * a <= c * b /\ a * c \in Nat /\ c * a \in Nat
<1>1. PICK d \in Nat : b = a + d
  <2>1. b - a \in Nat /\ b = a + (b - a)
    OBVIOUS
  <2> QED BY <2>1
<1>2. (a + d) * c = a * c + d * c /\ a * c \in Nat /\ d * c \in Nat
  OBVIOUS
<1> QED BY <1>1, <1>2

LEMMA QuotientGrows ==
  ASSUME NEW a \in Nat, NEW b \in Nat, a <= b
  PROVE  a \div Second <= b \div Second /\ a \div Second \in Nat
OBVIOUS

LEMMA LargestIs ==
  ASSUME NEW S, S \subseteq Nat, NEW m \in S, \A x \in S : x <= m
  PROVE  Largest(S) \in S /\ \A x \in S : x <= Largest(S)
BY DEF Largest

\* Larger rates have larger capacities and longer ticks add more, so both
\* maxima exist.
LEMMA LargestBounds ==
  /\ LargestCap \in Nat /\ LargestAdd \in Nat
  /\ \A t \in Targets : BurstCap(t) \in Nat /\ BurstCap(t) <= LargestCap
  /\ \A t \in Targets, e \in Elapsed : (t * e) \div Second <= LargestAdd
  /\ MinBurstTokens <= LargestCap
<1>1. PICK m \in Targets : \A t \in Targets : t <= m
  OBVIOUS
<1>2. PICK d \in Elapsed : \A e \in Elapsed : e <= d
  OBVIOUS
<1>3. m \in Nat /\ d \in Nat /\ MinBurstTokens \in Nat
  BY DEF MinBurstTokens
<1>4. ASSUME NEW t \in Targets
      PROVE  BurstCap(t) \in Nat /\ BurstCap(t) <= BurstCap(m) /\ MinBurstTokens <= BurstCap(t)
  <2>1. t \in Nat /\ t <= m
    BY <1>1
  <2>2. t * BurstWindow <= m * BurstWindow
        /\ t * BurstWindow \in Nat /\ m * BurstWindow \in Nat
    BY <1>3, <2>1, ProductGrows
  <2>3. (t * BurstWindow) \div Second <= (m * BurstWindow) \div Second
        /\ (t * BurstWindow) \div Second \in Nat
    BY <2>2, QuotientGrows
  <2>4. (m * BurstWindow) \div Second \in Nat
    BY <2>2, QuotientGrows
  <2> QED BY <1>3, <2>3, <2>4 DEF BurstCap
<1>5. ASSUME NEW t \in Targets, NEW e \in Elapsed
      PROVE  (t * e) \div Second \in Nat /\ (t * e) \div Second <= (m * d) \div Second
  <2>1. t \in Nat /\ t <= m /\ e \in Nat /\ e <= d
    BY <1>1, <1>2
  <2>2. t * e <= m * e /\ t * e \in Nat /\ m * e \in Nat
    BY <1>3, <2>1, ProductGrows
  <2>3. m * e <= m * d /\ m * d \in Nat
    BY <1>3, <2>1, ProductGrows
  <2>4. t * e <= m * d
    BY <2>2, <2>3
  <2> QED BY <2>2, <2>3, <2>4, QuotientGrows
<1> DEFINE C == {BurstCap(t) : t \in Targets}
           A == {(t * e) \div Second : t \in Targets, e \in Elapsed}
<1>6. LargestCap \in C /\ \A x \in C : x <= LargestCap
  <2>1. C \subseteq Nat /\ BurstCap(m) \in C /\ \A x \in C : x <= BurstCap(m)
    BY <1>4
  <2> QED BY <2>1, LargestIs DEF LargestCap
<1>7. LargestAdd \in A /\ \A x \in A : x <= LargestAdd
  <2>1. A \subseteq Nat /\ (m * d) \div Second \in A /\ \A x \in A : x <= (m * d) \div Second
    BY <1>5
  <2>2. LargestAdd = Largest(A)
    BY DEF LargestAdd
  <2> HIDE DEF A
  <2> QED BY <2>1, <2>2, LargestIs
<1>8. LargestCap \in Nat /\ LargestAdd \in Nat
  BY <1>4, <1>5, <1>6, <1>7
<1>9. MinBurstTokens <= LargestCap
  <2>1. BurstCap(m) <= LargestCap /\ BurstCap(m) \in Nat /\ MinBurstTokens <= BurstCap(m)
    BY <1>4, <1>6
  <2> QED BY <1>3, <1>8, <2>1
<1>10. \A t \in Targets : BurstCap(t) \in Nat /\ BurstCap(t) <= LargestCap
  BY <1>4, <1>6
<1>11. ASSUME NEW t \in Targets, NEW e \in Elapsed
       PROVE  (t * e) \div Second <= LargestAdd
  <2>1. (t * e) \div Second \in A
    OBVIOUS
  <2> HIDE DEF A
  <2> QED BY <1>7, <2>1
<1> QED BY <1>8, <1>9, <1>10, <1>11

\* What hides from the refiller: no more than a token for each worker.
LEMMA HiddenBounded ==
  /\ TokenScale * Cardinality(Refunding) \in Nat
  /\ TokenScale * Cardinality(Worker) \in Nat
  /\ TokenScale * Cardinality(Refunding) <= TokenScale * Cardinality(Worker)
<1>1. Cardinality(Refunding) <= Cardinality(Worker)
  BY FS_Subset DEF Refunding
<1>2. Cardinality(Refunding) \in Nat /\ Cardinality(Worker) \in Nat
  BY RefundingFinite, FS_CardinalityType
<1> QED BY <1>1, <1>2, ProductGrows

\* The worth of the bucket only grows with a tick; the refiller then cuts it to
\* the capacity as far as it can see.
LEMMA BurstStep ==
  ASSUME RateInv, BurstInv, RateNext, RateInv'
  PROVE  BurstInv'
<1> DEFINE H == TokenScale * Cardinality(Worker)
<1>1. TypeOK /\ TypeOK'
  BY DEF RateInv
<1>2. /\ tokens \in Int /\ excess \in Nat /\ target \in Nat /\ excess' \in Nat /\ tokens' \in Int
      /\ Worth \in Int /\ Worth' \in Int /\ H \in Nat
  <2>1. TokenScale * Cardinality(Refunding)' \in Int
    <3>1. Refunding' \subseteq Worker
      BY DEF Refunding
    <3>2. Cardinality(Refunding') \in Nat
      BY <3>1, FS_Subset, FS_CardinalityType
    <3> QED BY <3>2
  <2> QED BY <1>1, <2>1, HiddenBounded DEF TypeOK, Worth
<1>3. /\ LargestCap \in Nat /\ LargestAdd \in Nat
  BY LargestBounds
<1> HIDE DEF H
<1>4. /\ target \in Targets \cup {0}
      /\ refill # "trim" => excess = 0
      /\ Worth - excess <= LargestCap + H
      /\ Worth <= LargestCap + LargestAdd + H
  BY DEF BurstInv, H
<1>5. ASSUME /\ target' \in Targets \cup {0}
             /\ refill' # "trim" => excess' = 0
             /\ Worth' - excess' <= LargestCap + H
             /\ Worth' <= LargestCap + LargestAdd + H
      PROVE  BurstInv'
  BY <1>5 DEF BurstInv, H
<1>6. ASSUME NEW e \in Elapsed, Add(e) PROVE BurstInv'
  <2> DEFINE add == (target * e) \div Second
  <2>1. /\ refill = "select" /\ target \in Targets /\ tokens' = tokens + add
        /\ excess' = Excess(tokens + add) /\ pc' = pc /\ target' = target
        /\ refill' = IF excess' # 0 THEN "trim" ELSE "broadcast"
    BY <1>2, <1>4, <1>6 DEF Add, RefillAdd
  <2>2. add \in Nat /\ add <= LargestAdd
    BY <2>1, LargestBounds, ProductGrows, QuotientGrows
  <2> HIDE DEF add
  <2>3. BurstCap(target) \in Nat /\ BurstCap(target) <= LargestCap
    BY <2>1, LargestBounds
  <2>4. Refunding' = Refunding
    BY <2>1 DEF Refunding
  <2>5. Worth' = Worth + add /\ Worth <= LargestCap + H
    BY <1>2, <1>4, <2>1, <2>2, <2>4, HiddenBounded DEF Worth
  <2>6. tokens + add - excess' <= BurstCap(target)
    BY <1>2, <2>1, <2>2, <2>3 DEF Excess
  <2>7. Worth' - excess' <= LargestCap + H
    BY <1>2, <1>3, <2>1, <2>2, <2>3, <2>4, <2>6, HiddenBounded DEF Worth, H
  <2> QED BY <1>2, <1>3, <1>5, <2>1, <2>2, <2>5, <2>7
<1>7. ASSUME Trim PROVE BurstInv'
  <2>1. tokens' = tokens - excess /\ excess' = 0 /\ target' = target /\ Refunding' = Refunding
    BY <1>7 DEF Trim, RefillTrim, Refunding
  <2>2. Worth' = Worth - excess
    BY <1>2, <2>1, HiddenBounded DEF Worth
  <2> QED BY <1>2, <1>3, <1>4, <1>5, <2>1, <2>2
<1>8. ASSUME UNCHANGED <<refill, excess>>, target' \in Targets \cup {0}, Worth' <= Worth
      PROVE  BurstInv'
  <2>1. /\ refill' # "trim" => excess' = 0
        /\ excess' = excess
    BY <1>4, <1>8
  <2>2. \A a, b, x, c, d \in Int : a <= b /\ b - x <= c /\ b <= d => a - x <= c /\ a <= d
    OBVIOUS
  <2>3. /\ LargestCap + H \in Int /\ LargestCap + LargestAdd + H \in Int
        /\ excess \in Int /\ Worth \in Int /\ Worth' \in Int
    BY <1>2, <1>3
  <2>4. Worth' - excess <= LargestCap + H /\ Worth' <= LargestCap + LargestAdd + H
    BY <1>4, <1>8, <2>2, <2>3
  <2> QED BY <1>5, <1>8, <2>1, <2>4
<1>9. ASSUME NEW w \in Worker, Take(w) PROVE BurstInv'
  <2>1. /\ UNCHANGED <<refill, excess, target>>
        /\ pc[w] = "take" /\ tokens' = tokens - TokenScale
    BY <1>9 DEF Take, AcquireTake
  <2>2. CASE tokens' >= 0
    <3>1. pc' = [pc EXCEPT ![w] = "granted"]
      BY <1>9, <2>2 DEF Take, AcquireTake, Goto
    <3>2. Refunding' = Refunding
      BY <1>1, <2>1, <3>1 DEF Refunding, TypeOK
    <3>3. Worth' <= Worth
      BY <1>2, <2>1, <3>2, HiddenBounded DEF Worth
    <3> QED BY <1>4, <1>8, <2>1, <3>3
  <2>3. CASE ~(tokens' >= 0)
    <3>1. pc' = [pc EXCEPT ![w] = "refund"]
      BY <1>9, <2>3 DEF Take, AcquireTake, Goto
    <3>2. Cardinality(Refunding') = Cardinality(Refunding) + 1
      BY <1>1, <2>1, <3>1, RefundingGrows
    <3>3. TokenScale * (Cardinality(Refunding) + 1)
            = TokenScale * Cardinality(Refunding) + TokenScale
      BY RefundingFinite, OneMore
    <3>4. Worth' <= Worth
      BY <1>2, <2>1, <3>2, <3>3, HiddenBounded DEF Worth
    <3> QED BY <1>4, <1>8, <2>1, <3>4
  <2> QED BY <2>2, <2>3
<1>10. ASSUME NEW w \in Worker, AcquireRefund(w) PROVE BurstInv'
  <2>1. /\ UNCHANGED <<refill, excess, target>> /\ tokens' = tokens + TokenScale
        /\ pc[w] = "refund" /\ pc' = [pc EXCEPT ![w] = "lock"]
    BY <1>10 DEF AcquireRefund, Goto
  <2>2. Cardinality(Refunding') = Cardinality(Refunding) - 1
    BY <1>1, <2>1, RefundingShrinks
  <2>3. TokenScale * (Cardinality(Refunding) - 1)
          = TokenScale * Cardinality(Refunding) - TokenScale
    BY RefundingFinite, OneMore
  <2>4. Worth' <= Worth
    BY <1>2, <2>1, <2>2, <2>3, HiddenBounded DEF Worth
  <2> QED BY <1>4, <1>8, <2>1, <2>4
<1>11. ASSUME NEW w \in Worker,
              \/ AcquireCall(w) \/ AcquireLock(w) \/ AcquireCheck(w)
              \/ AcquireWait(w) \/ AcquireReturn(w) \/ WorkerExit(w)
       PROVE  BurstInv'
  <2>1. UNCHANGED <<tokens, refill, excess, target>> /\ Refunding' = Refunding
    BY <1>1, <1>11 DEF AcquireCall, AcquireLock, AcquireCheck, AcquireWait,
       AcquireReturn, WorkerExit, TypeOK, Refunding, Goto
  <2>2. Worth' <= Worth
    BY <1>2, <2>1 DEF Worth
  <2> QED BY <1>4, <1>8, <2>1, <2>2
<1>12. ASSUME RefillBroadcast \/ Stop \/ \E t \in Targets : SetQPS(t)
       PROVE  BurstInv'
  <2>1. /\ UNCHANGED <<tokens, excess>> /\ Refunding' = Refunding
        /\ target' \in Targets \cup {0} /\ (refill' = refill \/ refill # "trim")
    BY <1>1, <1>4, <1>12 DEF RefillBroadcast, Stop, SetQPS, WakeAll, TypeOK, Refunding
  <2>2. Worth' = Worth
    BY <2>1 DEF Worth
  <2> QED BY <1>4, <1>5, <2>1, <2>2
<1>13. ASSUME CloseBooks PROVE BurstInv'
  <2>1. UNCHANGED vars
    BY <1>13 DEF CloseBooks
  <2>2. Worth' = Worth
    BY <2>1 DEF vars, Worth, Refunding
  <2> QED BY <1>4, <1>5, <2>1, <2>2 DEF vars
<1> QED
  BY <1>6, <1>7, <1>9, <1>10, <1>11, <1>12, <1>13 DEF RateNext, Other

\* Cutting what was too much a moment ago is enough: however takes, refunds,
\* ticks, cuts and changes of the rate interleave, the bucket stays within the
\* largest capacity, one tick and a token for each worker.
THEOREM BurstIsBounded == RateSpec => []BurstBounded
<1>1. ASSUME RateInit PROVE BurstInv
  <2>1. Refunding = {}
    BY <1>1 DEF RateInit, Init, Refunding
  <2>2. Worth = TokenScale
    BY <1>1, <2>1, FS_EmptySet DEF Worth, RateInit, Init
  <2> QED BY <1>1, <2>2, LargestBounds, HiddenBounded
          DEF BurstInv, RateInit, Init, MinBurstTokens
<1>2. ASSUME RateInv, BurstInv, RateInv', [RateNext]_<<vars, accounts>> PROVE BurstInv'
  <2>1. CASE UNCHANGED <<vars, accounts>>
    <3>1. Worth' = Worth
      BY <2>1 DEF vars, Worth, Refunding
    <3> QED BY <1>2, <2>1, <3>1 DEF BurstInv, vars
  <2> QED BY <1>2, <2>1, BurstStep
<1>3. ASSUME RateInv, BurstInv PROVE BurstBounded
  <2>1. tokens \in Int /\ tokens <= Worth
    BY <1>3, HiddenBounded DEF RateInv, TypeOK, Worth
  <2>2. Worth \in Int /\ Worth <= LargestCap + LargestAdd + TokenScale * Cardinality(Worker)
    BY <1>3, HiddenBounded DEF RateInv, TypeOK, Worth, BurstInv
  <2> QED BY <2>1, <2>2, LargestBounds, HiddenBounded DEF BurstBounded
<1> QED
  BY <1>1, <1>2, <1>3, RateInvariant, PTL DEF RateSpec

-----------------------------------------------------------------------------
(* The adaptive rate.                                                      *)

\* In the steady phase a probe starts from a rate that is at most the safe one:
\* that is what keeps the next probe within one step.
SteadyBelowSafe == phase = "steady" /\ ~up => currentQPS <= safeQPS

\* The counters of a phase are below the limit that ends it.
CountersBelowLimit ==
  /\ phase = "baseline" => collected < BaselineWindow
  /\ phase = "probing" => stable < StableThreshold
  /\ phase = "backoff" => wait > 0

PressureInv == PressureTypeOK /\ CountersBelowLimit /\ OvershootBounded /\ SteadyBelowSafe

\* What the rates of a round are bounded by.
LEMMA RateFacts ==
  ASSUME NEW q \in Nat
  PROVE  /\ OneStepAbove(q) \in Nat
         /\ q + 10 <= OneStepAbove(q)
         /\ (13 * q) \div 10 <= OneStepAbove(q)
         /\ q + Larger((2 * q) \div 100, 10) <= OneStepAbove(q)
         /\ q + Larger(q \div 100, 5) <= OneStepAbove(q)
BY DEF OneStepAbove, Larger

\* A lowered rate is not above the rate and the safe rate.
LEMMA LoweredFacts ==
  ASSUME NEW q \in Nat, safeQPS \in Nat
  PROVE  /\ Lowered(q) \in Nat
         /\ Lowered(q) <= Larger(q, safeQPS)
BY DEF Lowered, Larger

\* A backoff does not raise the rate above the rate, the safe rate and 10.
LEMMA BackoffFacts ==
  ASSUME NEW q \in Nat, safeQPS \in Nat
  PROVE  /\ BackoffQPS(q) \in Nat
         /\ BackoffQPS(q) <= Larger(q, Larger(safeQPS, MinBackoffQPS))
BY DEF BackoffQPS, Larger, MinBackoffQPS

\* One round of the detection loop, phase by phase.
LEMMA DetectStep ==
  ASSUME PressureInv, NEW raw \in Ratio, NEW growing \in BOOLEAN, NEW many \in BOOLEAN,
         Detect(raw, growing, many)
  PROVE  PressureInv'
<1> USE PressureAssumption, BoundAssumption
        DEF PressureInv, PressureTypeOK, CountersBelowLimit, Phase, Ratio, Ok, Edge, Warn, Critical, InitialQPS,
            MinSamples, BaselineWindow, StableThreshold, BackoffCooldown,
            SteadyProbeInterval, SlowStartWarnConfirm
<1>1. /\ running' \in BOOLEAN
      /\ smoothed' \in Ratio
      /\ level' \in Ratio
      /\ currentQPS' <= MaxQPS
  BY DEF Detect, Smoothed
<1>2. /\ currentQPS \in Nat
      /\ safeQPS \in Nat
      /\ MinBackoffQPS = 10
  BY DEF MinBackoffQPS
<1>3. /\ OneStepAbove(safeQPS) \in Nat
      /\ OneStepAbove(currentQPS) \in Nat
      /\ safeQPS <= OneStepAbove(safeQPS)
      /\ currentQPS <= OneStepAbove(currentQPS)
      /\ (13 * currentQPS) \div 10 <= OneStepAbove(currentQPS)
      /\ currentQPS + Larger((2 * currentQPS) \div 100, 10) <= OneStepAbove(currentQPS)
      /\ currentQPS <= safeQPS =>
           currentQPS + Larger(currentQPS \div 100, 5) <= OneStepAbove(safeQPS)
  BY <1>2, RateFacts DEF OneStepAbove, Larger
<1>4. /\ Larger((2 * currentQPS) \div 100, 10) \in Nat
      /\ Larger(currentQPS \div 100, 5) \in Nat
      /\ (13 * currentQPS) \div 10 \in Nat
  BY <1>2 DEF Larger
<1>5. /\ Lowered(currentQPS) \in Nat
      /\ Lowered(currentQPS) <= currentQPS \/ Lowered(currentQPS) <= safeQPS
  BY <1>2, LoweredFacts DEF Larger
<1>6. /\ BackoffQPS(currentQPS) \in Nat
      /\ \/ BackoffQPS(currentQPS) <= currentQPS
         \/ BackoffQPS(currentQPS) <= safeQPS
         \/ BackoffQPS(currentQPS) <= 10
  BY <1>2, BackoffFacts DEF Larger
<1>7. phase \notin {"disabled", "baseline"} =>
        currentQPS <= OneStepAbove(safeQPS) \/ currentQPS <= 10
  BY <1>2, <1>3 DEF OvershootBounded, Larger
<1>8. ASSUME phase' \notin {"disabled", "baseline"} =>
               /\ safeQPS' \in Nat
               /\ currentQPS' \in Nat
               /\ OneStepAbove(safeQPS') \in Nat
               /\ currentQPS' <= OneStepAbove(safeQPS') \/ currentQPS' <= 10
      PROVE  OvershootBounded'
  BY <1>2, <1>8 DEF OvershootBounded, Larger
<1>9. CASE /\ phase \in {"slow_start", "probing", "steady"}
           /\ EnterBackoff
           /\ UNCHANGED collected
           /\ streak' = 0 \/ UNCHANGED streak
  <2>1. PressureTypeOK' /\ CountersBelowLimit'
    BY <1>1, <1>2, <1>6, <1>9 DEF EnterBackoff
  <2>2. OvershootBounded'
    BY <1>2, <1>3, <1>6, <1>7, <1>8, <1>9 DEF EnterBackoff
  <2>3. SteadyBelowSafe'
    BY <1>9 DEF EnterBackoff, SteadyBelowSafe
  <2> QED
    BY <2>1, <2>2, <2>3
<1>10. CASE phase = "baseline" /\ DoBaseline
  <2>1. PressureTypeOK' /\ CountersBelowLimit'
    BY <1>1, <1>10 DEF DoBaseline
  <2>2. OvershootBounded'
    BY <1>2, <1>3, <1>8, <1>10 DEF DoBaseline
  <2>3. SteadyBelowSafe'
    BY <1>10 DEF DoBaseline, SteadyBelowSafe
  <2> QED
    BY <2>1, <2>2, <2>3
<1>11. CASE phase = "slow_start" /\ DoSlowStart(raw, growing, many) /\ ~EnterBackoff
  <2>1. PressureTypeOK' /\ CountersBelowLimit'
    BY <1>1, <1>2, <1>4, <1>11 DEF DoSlowStart
  <2>2. OvershootBounded'
    BY <1>2, <1>3, <1>4, <1>7, <1>8, <1>11 DEF DoSlowStart
  <2>3. SteadyBelowSafe'
    BY <1>11 DEF DoSlowStart, SteadyBelowSafe
  <2> QED
    BY <2>1, <2>2, <2>3
<1>12. CASE phase = "probing" /\ DoProbing(raw, growing) /\ ~EnterBackoff
  <2>0. up' \in BOOLEAN
    BY <1>12 DEF DoProbing
  <2>1. PressureTypeOK' /\ CountersBelowLimit'
    BY <1>1, <1>2, <1>4, <1>5, <1>12, <2>0 DEF DoProbing, Confirmed
  <2>2. OvershootBounded'
    BY <1>2, <1>3, <1>4, <1>5, <1>7, <1>8, <1>12 DEF DoProbing, Confirmed
  <2>3. SteadyBelowSafe'
    BY <1>2, <1>12 DEF DoProbing, SteadyBelowSafe
  <2> QED
    BY <2>1, <2>2, <2>3
<1>13. CASE phase = "steady" /\ DoSteady(raw, growing) /\ ~EnterBackoff
  <2>0. up' \in BOOLEAN
    BY <1>13 DEF DoSteady
  <2>1. PressureTypeOK' /\ CountersBelowLimit'
    BY <1>1, <1>2, <1>4, <1>5, <1>13, <2>0 DEF DoSteady, Confirmed, ProbeFailed, Counted
  <2>2. OvershootBounded'
    BY <1>2, <1>3, <1>4, <1>5, <1>7, <1>8, <1>13
       DEF DoSteady, Confirmed, ProbeFailed, SteadyBelowSafe
  <2>3. SteadyBelowSafe'
    <3>1. Judged(growing) \in 1 .. 4
      BY <1>1 DEF Judged, Larger
    <3> QED
      BY <1>2, <1>5, <1>13, <3>1 DEF DoSteady, Confirmed, ProbeFailed, SteadyBelowSafe
  <2> QED
    BY <2>1, <2>2, <2>3
<1>14. CASE phase = "backoff" /\ DoBackoff
  <2>1. PressureTypeOK' /\ CountersBelowLimit'
    BY <1>1, <1>14 DEF DoBackoff, CooledDown
  <2>2. OvershootBounded' /\ SteadyBelowSafe'
    BY <1>14 DEF DoBackoff, OvershootBounded, SteadyBelowSafe
  <2> QED
    BY <2>1, <2>2
<1> QED
  BY <1>9, <1>10, <1>11, <1>12, <1>13, <1>14
     DEF Detect, DoSlowStart, DoProbing, DoSteady, EnterBackoff

LEMMA InitIInv == PressureInit => PressureInv
<1> SUFFICES ASSUME PressureInit PROVE PressureInv
  OBVIOUS
<1>1. running \in BOOLEAN /\ up \in BOOLEAN
  BY DEF PressureInit
<1>2. phase \in {"disabled", "baseline"}
  BY DEF PressureInit
<1>3. currentQPS \in 0 .. MaxQPS
  BY PressureAssumption, BoundAssumption DEF PressureInit, InitialQPS
<1> QED
  BY <1>1, <1>2, <1>3, PressureAssumption
  DEF PressureInit, PressureInv, PressureTypeOK, CountersBelowLimit, OvershootBounded, SteadyBelowSafe, Phase,
       Ratio, Ok, Critical, InitialQPS, BaselineWindow, StableThreshold, BackoffCooldown,
       SteadyProbeInterval, SlowStartWarnConfirm

LEMMA NextIInv == PressureInv /\ [PressureNext]_pressureVars => PressureInv'
<1> SUFFICES ASSUME PressureInv, [PressureNext]_pressureVars PROVE PressureInv'
  OBVIOUS
<1>1. CASE PressureStart \/ PressureStop \/ UNCHANGED pressureVars
  <2>1. /\ running' \in BOOLEAN
        /\ UNCHANGED <<phase, currentQPS, safeQPS, collected, smoothed, level, stable, wait,
                       steady, up, streak>>
    BY <1>1 DEF PressureStart, PressureStop, pressureVars, counters, PressureInv, PressureTypeOK
  <2> QED
    BY <2>1 DEF PressureInv, PressureTypeOK, CountersBelowLimit, OvershootBounded, SteadyBelowSafe
<1>2. CASE SomeDetect
  BY <1>2, DetectStep DEF SomeDetect
<1> QED
  BY <1>1, <1>2 DEF PressureNext

\* The rates, classes and counters of the pressure controller stay in their
\* ranges, for every bound on the rate.
THEOREM PressureTypes == PressureSpec => []PressureTypeOK
<1>1. PressureInv => PressureTypeOK
  BY DEF PressureInv
<1> QED
  BY <1>1, InitIInv, NextIInv, PTL DEF PressureSpec

\* Whatever the latencies and the queue of the server do, the adaptive rate is
\* at most one step above a rate that a round has confirmed to be safe.
THEOREM Overshoot == PressureSpec => []OvershootBounded
<1>1. PressureInv => OvershootBounded
  BY DEF PressureInv
<1> QED
  BY <1>1, InitIInv, NextIInv, PTL DEF PressureSpec

\* Congestion in the probing and the steady phase never takes the rate above
\* the last safe one.
THEOREM Congestion == PressureSpec => CongestionNotAboveSafe
<1>1. ASSUME PressureInv, [PressureNext]_pressureVars
      PROVE  [NotAboveSafe]_pressureVars
  <2> SUFFICES ASSUME SomeDetect, phase \in {"probing", "steady"},
                      smoothed' >= Warn \/ level' = Critical
               PROVE  \/ currentQPS' <= currentQPS
                      \/ currentQPS' <= Larger(safeQPS, MinBackoffQPS)
    BY <1>1, NextIInv DEF NotAboveSafe, PressureNext, PressureStart, PressureStop, counters, PressureInv, PressureTypeOK
  <2>1. currentQPS \in Nat /\ safeQPS \in Nat
    BY <1>1, PressureAssumption DEF PressureInv, PressureTypeOK
  <2>2. PICK raw \in Ratio, growing \in BOOLEAN, many \in BOOLEAN :
          Detect(raw, growing, many)
    BY DEF SomeDetect
  <2>3. Larger(safeQPS, MinBackoffQPS) \in Nat /\ safeQPS <= Larger(safeQPS, MinBackoffQPS)
        /\ MinBackoffQPS <= Larger(safeQPS, MinBackoffQPS)
    BY <2>1 DEF Larger, MinBackoffQPS
  <2>4. CASE EnterBackoff
    BY <2>1, <2>3, <2>4, BackoffFacts DEF EnterBackoff, Larger, MinBackoffQPS
  <2>5. CASE currentQPS' = Lowered(currentQPS)
    BY <2>1, <2>3, <2>5, LoweredFacts DEF Larger
  <2>6. CASE currentQPS' \in {currentQPS, safeQPS}
    BY <2>1, <2>3, <2>6
  <2>7. CASE raw # Critical /\ smoothed' >= Warn
    <3>1. smoothed' \in Ratio
      BY <1>1, <2>2 DEF Detect, Smoothed, PressureInv, PressureTypeOK
    <3>2. Judged(growing) \in 3 .. 4
      BY <2>7, <3>1 DEF Judged, Larger, Ratio, Ok, Warn, Critical
    <3> QED
      BY <2>2, <2>4, <2>5, <2>6, <2>7, <3>2
         DEF Detect, DoProbing, DoSteady, ProbeFailed, Ok, Edge, Warn, Critical
  <2>8. CASE raw = Critical
    BY <2>2, <2>4, <2>8 DEF Detect, DoProbing, DoSteady
  <2>9. phase' # "baseline"
    BY <2>2 DEF Detect, DoProbing, DoSteady, EnterBackoff
  <2> QED
    BY <2>2, <2>7, <2>8, <2>9 DEF Detect
<1> QED
  BY <1>1, InitIInv, NextIInv, PTL DEF PressureSpec, CongestionNotAboveSafe
=============================================================================
