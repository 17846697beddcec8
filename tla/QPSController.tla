--------------------------- MODULE QPSController ---------------------------
(***************************************************************************)
(* The token bucket that limits the rate of a case (case/qps_controller.go). *)
(* Workers take a token with one atomic subtraction, which they undo when  *)
(* it leaves the bucket negative; the refiller goroutine adds tokens on    *)
(* every tick, cuts the bucket to the burst capacity in a second atomic    *)
(* step, and wakes the waiting workers without holding the mutex of the    *)
(* condition variable.  Every atomic operation is a step here.             *)
(***************************************************************************)
EXTENDS Integers, FiniteSets

CONSTANTS
  Worker,       \* the goroutines that call Acquire
  NoWorker,     \* the mutex of the condition variable is free
  TokenScale,   \* internal units of one token
  Second,       \* units of time in a second
  BurstWindow,  \* the time whose tokens may accumulate
  Targets,      \* the target rates (units per second) SetQPS may set
  Elapsed       \* the times that may pass between two ticks

ASSUME QPSAssumption ==
  /\ IsFiniteSet(Worker)
  /\ NoWorker \notin Worker
  /\ TokenScale \in Nat \ {0}
  /\ Second \in Nat \ {0}
  /\ BurstWindow \in Nat
  /\ Targets \subseteq Nat \ {0}
  /\ Elapsed \subseteq Nat
  /\ \E max \in Targets : \A t \in Targets : t <= max
  /\ \E max \in Elapsed : \A e \in Elapsed : e <= max

VARIABLES
  tokens,   \* tokens, in internal units
  target,   \* targetQPS
  refill,   \* the refiller: "select", "trim", "broadcast" or "stopped"
  excess,   \* what the refiller has computed it must cut, while in "trim"
  mu,       \* the holder of the mutex of the condition variable
  pc        \* where each worker is in Acquire

vars == <<tokens, target, refill, excess, mu, pc>>

\* max(2 tokens, the tokens of BurstWindow).
MinBurstTokens == 2 * TokenScale

BurstCap(t) ==
  LET window == (t * BurstWindow) \div Second
  IN  IF window < MinBurstTokens THEN MinBurstTokens ELSE window

\* NewQPSController: one token; the target may be 0, "not limited".
Init ==
  /\ tokens = TokenScale
  /\ target \in Targets \cup {0}
  /\ refill = "select"
  /\ excess = 0
  /\ mu = NoWorker
  /\ pc = [w \in Worker |-> "idle"]

Goto(w, l) == pc' = [pc EXCEPT ![w] = l]
-----------------------------------------------------------------------------
(* The refiller.                                                           *)

\* What the bucket holds beyond its capacity.
Excess(cur) == IF cur > BurstCap(target) THEN cur - BurstCap(target) ELSE 0

\* A tick: nothing is added while the rate is not limited, or when too little
\* time has passed for a unit.
RefillAdd(elapsed) ==
  LET add == (target * elapsed) \div Second
      cur == tokens + add
  IN  /\ refill = "select"
      /\ target > 0
      /\ add > 0
      /\ tokens' = cur
      /\ excess' = Excess(cur)
      /\ refill' = IF excess' # 0 THEN "trim" ELSE "broadcast"
      /\ UNCHANGED <<target, mu, pc>>

\* Mutant of RefillTrim: the excess stays in the bucket.
RefillTrimForgotten ==
  /\ refill = "trim"
  /\ excess' = 0
  /\ refill' = "broadcast"
  /\ UNCHANGED <<tokens, target, mu, pc>>

\* What exceeded the capacity then is subtracted now.
RefillTrim ==
  /\ refill = "trim"
  /\ tokens' = tokens - excess
  /\ excess' = 0
  /\ refill' = "broadcast"
  /\ UNCHANGED <<target, mu, pc>>

\* Mutant of WakeAll: the waiters are not woken.
WakeNobody == UNCHANGED pc

WakeAll == pc' = [w \in Worker |-> IF pc[w] = "wait" THEN "lock" ELSE pc[w]]

RefillBroadcast ==
  /\ refill = "broadcast"
  /\ WakeAll
  /\ refill' = "select"
  /\ UNCHANGED <<tokens, target, excess, mu>>

\* Stop, deferred by RunCaseInner until its workers have returned.
Stop ==
  /\ refill = "select"
  /\ \A w \in Worker : pc[w] = "exit"
  /\ WakeAll
  /\ refill' = "stopped"
  /\ UNCHANGED <<tokens, target, excess, mu>>

\* Called by the workers in adaptive mode, with a rate of at least 1.
SetQPS(t) ==
  /\ \E w \in Worker : pc[w] = "idle"
  /\ target' = t
  /\ UNCHANGED <<tokens, refill, excess, mu, pc>>
-----------------------------------------------------------------------------
(* Acquire.                                                                *)

AcquireCall(w) ==
  /\ pc[w] = "idle"
  /\ Goto(w, IF target <= 0 THEN "free" ELSE "take")
  /\ UNCHANGED <<tokens, target, refill, excess, mu>>

\* Mutant of AcquireTake: the value before the subtraction decides.
AcquireTakeOld(w) ==
  /\ pc[w] = "take"
  /\ tokens' = tokens - TokenScale
  /\ Goto(w, IF tokens >= 0 THEN "granted" ELSE "refund")
  /\ UNCHANGED <<target, refill, excess, mu>>

\* tokens.Add(-tokenScale): a token is obtained if the result is not negative.
AcquireTake(w) ==
  /\ pc[w] = "take"
  /\ tokens' = tokens - TokenScale
  /\ Goto(w, IF tokens' >= 0 THEN "granted" ELSE "refund")
  /\ UNCHANGED <<target, refill, excess, mu>>

\* Mutant of AcquireRefund: the subtraction is not undone.
AcquireRefundForgotten(w) ==
  /\ pc[w] = "refund"
  /\ Goto(w, "lock")
  /\ UNCHANGED <<tokens, target, refill, excess, mu>>

AcquireRefund(w) ==
  /\ pc[w] = "refund"
  /\ tokens' = tokens + TokenScale
  /\ Goto(w, "lock")
  /\ UNCHANGED <<target, refill, excess, mu>>

AcquireLock(w) ==
  /\ pc[w] = "lock"
  /\ mu = NoWorker
  /\ mu' = w
  /\ Goto(w, "check")
  /\ UNCHANGED <<tokens, target, refill, excess>>

\* The loop condition around Wait, under the mutex.
AcquireCheck(w) ==
  /\ pc[w] = "check"
  /\ IF tokens < TokenScale
     THEN Goto(w, "enlist") /\ UNCHANGED mu
     ELSE Goto(w, "take") /\ mu' = NoWorker
  /\ UNCHANGED <<tokens, target, refill, excess>>

\* Wait joins the list of waiters and unlocks; a broadcast before is missed.
AcquireWait(w) ==
  /\ pc[w] = "enlist"
  /\ mu' = NoWorker
  /\ Goto(w, "wait")
  /\ UNCHANGED <<tokens, target, refill, excess>>

\* Acquire has returned, and the worker starts its task.
AcquireReturn(w) ==
  /\ pc[w] \in {"granted", "free"}
  /\ Goto(w, "idle")
  /\ UNCHANGED <<tokens, target, refill, excess, mu>>

\* The worker has started all its tasks.
WorkerExit(w) ==
  /\ pc[w] = "idle"
  /\ Goto(w, "exit")
  /\ UNCHANGED <<tokens, target, refill, excess, mu>>
-----------------------------------------------------------------------------
AcquireStep(w) ==
  \/ AcquireTake(w)
  \/ AcquireRefund(w)
  \/ AcquireCheck(w)
  \/ AcquireWait(w)
  \/ AcquireReturn(w)

RefillStep ==
  \/ \E e \in Elapsed : RefillAdd(e)
  \/ RefillTrim
  \/ RefillBroadcast

Next ==
  \/ \E w \in Worker : \/ AcquireCall(w)
                       \/ AcquireStep(w)
                       \/ AcquireLock(w)
                       \/ WorkerExit(w)
  \/ RefillStep
  \/ Stop
  \/ \E t \in Targets : SetQPS(t)

Spec == Init /\ [][Next]_vars

\* The ticker ticks until Stop, and goroutines run.
Fairness ==
  /\ WF_vars(RefillStep)
  /\ \A w \in Worker : WF_vars(AcquireStep(w)) /\ SF_vars(AcquireLock(w))

FairSpec == Spec /\ Fairness
-----------------------------------------------------------------------------
WorkerPc == {"idle", "take", "refund", "lock", "check", "enlist", "wait",
             "granted", "free", "exit"}

TypeOK ==
  /\ tokens \in Int
  /\ target \in Nat
  /\ refill \in {"select", "trim", "broadcast", "stopped"}
  /\ excess \in Nat
  /\ mu \in Worker \cup {NoWorker}
  /\ pc \in [Worker -> WorkerPc]

\* The workers whose subtraction is still to be undone.
Refunding == {w \in Worker : pc[w] = "refund"}

Acquiring == {"take", "refund", "lock", "check", "enlist", "wait"}

\* Somebody gets a token: a broadcast that is missed between the check and the
\* Wait, and a token that is taken by another worker, delay but never stop all.
SomeoneProceeds ==
  (\E w \in Worker : pc[w] \in Acquiring) ~> (\E w \in Worker : pc[w] = "granted")

Largest(S) == CHOOSE x \in S : \A y \in S : y <= x
LargestCap == Largest({BurstCap(t) : t \in Targets})
LargestAdd == Largest({(t * e) \div Second : t \in Targets, e \in Elapsed})

\* The bucket never holds more than the largest capacity, what one tick adds to
\* it before the cut, and one token for each worker whose transient subtraction
\* hid the excess from the refiller.
BurstBounded ==
  tokens <= LargestCap + LargestAdd + TokenScale * Cardinality(Worker)
=============================================================================
