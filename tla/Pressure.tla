------------------------------ MODULE Pressure ------------------------------
(***************************************************************************)
(* MemoryPressureController (report/impl/pressure_impl.go): when a case    *)
(* has no target rate, each round of one second compares the latency with  *)
(* a baseline and raises or lowers the rate of RunCaseInner's limiter.     *)
(* Rates are whole requests per second, rounded down.  A latency ratio is  *)
(* known by its class: below 1.2, below 1.5, below 2.5, or above.  The     *)
(* smoothed ratio moves towards the new one, so its class is any between   *)
(* the two.  A round with fewer than three samples changes nothing but the *)
(* list of snapshots, and is a stuttering step.                            *)
(***************************************************************************)
EXTENDS Integers

CONSTANTS
  TargetQPS,  \* params.TargetQPS, 0 for the adaptive mode
  MaxQPS      \* bound: rounds that raise the rate further are left out

ASSUME PressureAssumption == TargetQPS \in Nat /\ MaxQPS \in Nat /\ MaxQPS >= TargetQPS

InitialQPS == 20
MinBackoffQPS == 10
MinSamples == 3
BaselineWindow == 5
StableThreshold == 5
BackoffCooldown == 3
SteadyProbeInterval == 5
SlowStartWarnConfirm == 2

ASSUME BoundAssumption == MaxQPS >= InitialQPS

\* The classes of a latency ratio, which are also the pressure levels.
Ok == 1
Edge == 2
Warn == 3
Critical == 4
Ratio == Ok .. Critical

Larger(a, b) == IF a > b THEN a ELSE b

VARIABLES
  running,    \* the detection loop runs
  phase,      \* adaptivePhase
  currentQPS,
  safeQPS,    \* the last rate known to be safe
  collected,  \* baselineCollecting
  smoothed,   \* the class of smoothedRatio
  level,      \* the pressure level
  stable,     \* stableCount
  wait,       \* backoffWait
  steady,     \* steadyCounter, which only counts up to the interval
  up,         \* probingUp
  streak      \* warnStreak

counters == <<stable, wait, steady, up, streak>>
pressureVars == <<running, phase, currentQPS, safeQPS, collected, smoothed, level, counters>>

\* NewMemoryPressureController and SetTargetQPS.
PressureInit ==
  /\ running = FALSE
  /\ phase = IF TargetQPS > 0 THEN "disabled" ELSE "baseline"
  /\ currentQPS = IF TargetQPS > 0 THEN TargetQPS ELSE InitialQPS
  /\ safeQPS = 0
  /\ collected = 0
  /\ smoothed = Ok
  /\ level = Ok
  /\ stable = 0
  /\ wait = 0
  /\ steady = 0
  /\ up = FALSE
  /\ streak = 0
-----------------------------------------------------------------------------
\* The loop is not started when the rate is fixed.
PressureStart ==
  /\ TargetQPS = 0
  /\ ~running /\ collected = 0
  /\ running' = TRUE
  /\ UNCHANGED <<phase, currentQPS, safeQPS, collected, smoothed, level, counters>>

\* The case has returned.
PressureStop ==
  /\ running
  /\ running' = FALSE
  /\ UNCHANGED <<phase, currentQPS, safeQPS, collected, smoothed, level, counters>>

\* Mutant of BackoffQPS: the rate is kept.
BackoffQPSKept(q) == q

\* 15 % less, at least half the safe rate and at least 10.
BackoffQPS(q) == Larger(Larger((85 * q) \div 100, safeQPS \div 2), MinBackoffQPS)

EnterBackoff ==
  /\ phase' = "backoff"
  /\ wait' = BackoffCooldown
  /\ currentQPS' = BackoffQPS(currentQPS)
  /\ UNCHANGED <<safeQPS, stable, steady, up>>

\* The last round of the baseline fixes it; before, there is no level.
DoBaseline ==
  /\ collected' = collected + 1
  /\ IF collected' >= BaselineWindow
     THEN phase' = "slow_start" /\ safeQPS' = currentQPS
     ELSE UNCHANGED <<phase, safeQPS>>
  /\ UNCHANGED <<currentQPS, stable, wait, steady, up, streak>>

\* Exponential growth until two rounds in a row show pressure.
DoSlowStart(raw, growing, many) ==
  /\ \/ /\ raw = Critical
        /\ EnterBackoff
        /\ streak' = 0
     \/ /\ raw < Warn /\ ~growing /\ ~many
        /\ safeQPS' = currentQPS
        /\ currentQPS' = (13 * currentQPS) \div 10
        /\ streak' = 0
        /\ UNCHANGED <<phase, stable, wait, steady, up>>
     \/ /\ raw # Critical
        /\ raw >= Warn \/ growing \/ many
        /\ IF streak + 1 >= SlowStartWarnConfirm
           THEN /\ currentQPS' = safeQPS
                /\ phase' = "probing"
                /\ stable' = 0
                /\ streak' = 0
           ELSE streak' = streak + 1 /\ UNCHANGED <<phase, currentQPS, stable>>
        /\ UNCHANGED <<safeQPS, wait, steady, up>>
  /\ UNCHANGED collected

\* 5 % less, at least 80 % of the safe rate.
Lowered(q) == Larger((95 * q) \div 100, (8 * safeQPS) \div 10)

\* Mutant of Confirmed: the rate that is left behind is not remembered.
ConfirmedNot(q) == safeQPS

\* The rate that is known to be safe when a round at rate q was healthy.
Confirmed(q) == q

\* The ratio that counts: requests that pile up are mild congestion.
Judged(growing) == IF growing THEN Larger(smoothed', Warn) ELSE smoothed'

\* Linear growth; five rounds at the edge end it.
DoProbing(raw, growing) ==
  /\ \/ raw = Critical /\ EnterBackoff
     \/ /\ raw # Critical
        /\ Judged(growing) = Ok
        /\ safeQPS' = Confirmed(currentQPS)
        /\ currentQPS' = currentQPS + Larger((2 * currentQPS) \div 100, 10)
        /\ stable' = 0
        /\ UNCHANGED <<phase, wait, steady, up>>
     \/ /\ raw # Critical
        /\ Judged(growing) = Edge
        /\ safeQPS' = currentQPS
        /\ stable' = stable + 1
        /\ IF stable' >= StableThreshold
           THEN phase' = "steady" /\ steady' = 0 /\ up' = FALSE
           ELSE UNCHANGED <<phase, steady, up>>
        /\ UNCHANGED <<currentQPS, wait>>
     \/ /\ raw # Critical
        /\ Judged(growing) >= Warn
        /\ currentQPS' = Lowered(currentQPS)
        /\ stable' = 0
        /\ UNCHANGED <<phase, safeQPS, wait, steady, up>>
  /\ UNCHANGED <<collected, streak>>

Counted == IF steady < SteadyProbeInterval THEN steady + 1 ELSE steady

\* Mutant of ProbeFailed: the rate that failed is kept, and raised again.
ProbeFailedKept(q) == q + 5

\* The rate after a probe that failed.
ProbeFailed(q) == safeQPS

\* A small probe every five rounds; then wait until it has succeeded or failed.
DoSteady(raw, growing) ==
  LET ratio == Judged(growing)
  IN  /\ \/ raw = Critical /\ EnterBackoff
         \/ /\ raw # Critical
            /\ up
            /\ steady' = Counted
            /\ up' = (ratio = Edge)
            /\ currentQPS' = IF ratio >= Warn THEN ProbeFailed(currentQPS) ELSE currentQPS
            /\ safeQPS' = IF ratio = Ok THEN Confirmed(currentQPS) ELSE safeQPS
            /\ UNCHANGED <<phase, stable, wait>>
         \/ /\ raw # Critical
            /\ ~up
            /\ ratio >= Warn
            /\ steady' = Counted
            /\ currentQPS' = Lowered(currentQPS)
            /\ UNCHANGED <<phase, safeQPS, stable, wait, up>>
         \/ /\ raw # Critical
            /\ ~up
            /\ ratio < Warn
            /\ IF Counted >= SteadyProbeInterval
               THEN /\ currentQPS' = currentQPS + Larger(currentQPS \div 100, 5)
                    /\ steady' = 0
                    /\ up' = TRUE
               ELSE steady' = Counted /\ UNCHANGED <<currentQPS, up>>
            /\ UNCHANGED <<phase, safeQPS, stable, wait>>
      /\ UNCHANGED <<collected, streak>>

\* Mutant of CooledDown: one round too many.
CooledDownLate(n) == n < 0

CooledDown(n) == n <= 0

\* Three rounds of cooldown, then linear growth again.
DoBackoff ==
  /\ wait' = wait - 1
  /\ IF CooledDown(wait') THEN phase' = "probing" /\ stable' = 0
     ELSE UNCHANGED <<phase, stable>>
  /\ UNCHANGED <<currentQPS, safeQPS, collected, steady, up, streak>>

\* The classes the smoothed ratio may have after a round with ratio raw.
Smoothed(raw) ==
  {s \in Ratio : (smoothed <= s /\ s <= raw) \/ (raw <= s /\ s <= smoothed)}

\* A round with enough samples, which takes a rate of at least as many.
Detect(raw, growing, many) ==
  /\ running
  /\ currentQPS >= MinSamples
  /\ smoothed' \in IF phase = "baseline" THEN {smoothed} ELSE Smoothed(raw)
  /\ \/ phase = "baseline" /\ DoBaseline
     \/ phase = "slow_start" /\ DoSlowStart(raw, growing, many)
     \/ phase = "probing" /\ DoProbing(raw, growing)
     \/ phase = "steady" /\ DoSteady(raw, growing)
     \/ phase = "backoff" /\ DoBackoff
  /\ level' = IF phase' = "baseline" THEN level ELSE raw
  /\ currentQPS' <= MaxQPS
  /\ UNCHANGED running

SomeDetect == \E raw \in Ratio, growing, many \in BOOLEAN : Detect(raw, growing, many)

PressureNext ==
  \/ PressureStart
  \/ PressureStop
  \/ SomeDetect

PressureSpec == PressureInit /\ [][PressureNext]_pressureVars

\* While the case runs, rounds with enough samples keep coming.
PressureFairSpec == PressureSpec /\ WF_pressureVars(SomeDetect)
-----------------------------------------------------------------------------
Phase == {"disabled", "baseline", "slow_start", "probing", "steady", "backoff"}

PressureTypeOK ==
  /\ running \in BOOLEAN
  /\ phase \in Phase
  /\ currentQPS \in 0 .. MaxQPS
  /\ safeQPS \in 0 .. MaxQPS
  /\ collected \in 0 .. BaselineWindow
  /\ smoothed \in Ratio
  /\ level \in Ratio
  /\ stable \in 0 .. StableThreshold
  /\ wait \in 0 .. BackoffCooldown
  /\ steady \in 0 .. SteadyProbeInterval
  /\ up \in BOOLEAN
  /\ streak \in 0 .. SlowStartWarnConfirm - 1

\* One step above a rate: the largest of the exponential, the linear and the
\* steady step.
OneStepAbove(q) == Larger((13 * q) \div 10, q + Larger((2 * q) \div 100, 10))

\* Whatever the latencies do, the rate that is tried is at most one step above
\* a rate that a round has confirmed, or above the floor of a backoff.
OvershootBounded ==
  phase \notin {"disabled", "baseline"} =>
    currentQPS <= Larger(OneStepAbove(safeQPS), MinBackoffQPS)

NotAboveSafe ==
  phase \in {"probing", "steady"} /\ (smoothed' >= Warn \/ level' = Critical) =>
    currentQPS' <= currentQPS \/ currentQPS' <= Larger(safeQPS, MinBackoffQPS)

\* A congested round never takes the rate above the last safe one.  (It may
\* raise it: Lowered and ProbeFailed go back to 80 % and 100 % of safeQPS from
\* below when backoffs have taken the rate further down.)
CongestionNotAboveSafe == [][NotAboveSafe]_pressureVars

\* When the latency stays critical the rate goes down to half the safe rate, or
\* to 10: no phase keeps a critical rate.
CriticalBacksOff ==
  <>[](running /\ phase # "baseline" /\ level = Critical)
    => <>(currentQPS <= Larger(safeQPS \div 2, MinBackoffQPS))
=============================================================================
