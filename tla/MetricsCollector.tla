-------------------------- MODULE MetricsCollector --------------------------
(***************************************************************************)
(* MemoryMetricsCollector (report/impl/metrics_impl.go) with the one       *)
(* series an agent has.  StartAutoCollect starts a goroutine that collects *)
(* at each tick until the channel stopCh is closed; the goroutine reads    *)
(* the field stopCh anew in each round.  A stop channel is the number of   *)
(* the StartAutoCollect that made it.                                      *)
(***************************************************************************)
EXTENDS Naturals

VARIABLES
  running,   \* c.running
  stopCh,    \* c.stopCh
  collector, \* the goroutines: the channel each waits on, or "collect"
  series     \* the unflushed final points, by the task that collected them

collectorVars == <<running, stopCh, collector, series>>

CollectorInit ==
  /\ running = FALSE
  /\ stopCh = 0
  /\ collector = << >>
  /\ series = {}

Collecting == [at |-> "collect", on |-> 0]
Waiting(c) == [at |-> "select", on |-> c]
Ended == [at |-> "end", on |-> 0]

\* Mutant of Closed: a stop does not close the channel.
ClosedByRestart(c) == c < stopCh

\* A channel is closed by the stop that ends its time as c.stopCh.
Closed(c) == c < stopCh \/ ~running

StartAutoCollect ==
  IF running
  THEN UNCHANGED <<running, stopCh, collector>>
  ELSE /\ running' = TRUE
       /\ stopCh' = stopCh + 1
       /\ collector' = [g \in DOMAIN collector \cup {stopCh + 1} |->
                          IF g = stopCh + 1 THEN Waiting(g) ELSE collector[g]]

StopAutoCollect ==
  /\ running' = FALSE
  /\ UNCHANGED <<stopCh, collector>>

\* The goroutine: a tick, the collection and the next round, or the end.
CollectorTick(g) ==
  /\ collector[g].at = "select"
  /\ collector' = [collector EXCEPT ![g] = Collecting]
  /\ UNCHANGED <<running, stopCh, series>>

\* Collect, and the next round, which reads c.stopCh again.
CollectorCollect(g) ==
  /\ collector[g].at = "collect"
  /\ collector' = [collector EXCEPT ![g] = Waiting(stopCh)]
  /\ UNCHANGED <<running, stopCh, series>>

CollectorStop(g) ==
  /\ collector[g].at = "select"
  /\ Closed(collector[g].on)
  /\ collector' = [collector EXCEPT ![g] = Ended]
  /\ UNCHANGED <<running, stopCh, series>>
=============================================================================
