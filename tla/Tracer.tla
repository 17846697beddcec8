------------------------------- MODULE Tracer -------------------------------
(***************************************************************************)
(* MemoryTracer (report/impl/tracing_impl.go): one tracer per task.  A     *)
(* shard has two banks; End writes to the active one, Flush clears the     *)
(* other, makes it active and harvests the first.  Shards share nothing,   *)
(* and a name always goes to the same one, so one shard per tracer is      *)
(* modelled.  A bank is the set of records counted in its buckets.         *)
(***************************************************************************)
EXTENDS Naturals

CONSTANTS
  Task,   \* the tasks of the agent
  Record, \* the entries that are ended
  TaskOf  \* the task whose tracer an entry belongs to

ASSUME TracerAssumption == TaskOf \in [Record -> Task]

VARIABLES
  active, \* the index of the active bank
  bank,   \* the two banks
  entry,  \* "new", "ended" with the bank index addRecord has read, "added"
  flush,  \* the progress of Flush: "idle", "cleared", "switched"
  out,    \* what Flush has returned and is not yet written
  lost,   \* records thrown away by clear (history)
  late    \* records added to a bank that was already harvested (history)

tracerVars == <<active, bank, entry, flush, out, lost, late>>

TracerInit ==
  /\ active = [t \in Task |-> 0]
  /\ bank = [t \in Task |-> [b \in 0..1 |-> {}]]
  /\ entry = [r \in Record |-> [at |-> "new", b |-> 0]]
  /\ flush = [t \in Task |-> "idle"]
  /\ out = [t \in Task |-> {}]
  /\ lost = {}
  /\ late = {}

\* tracingEntry.End calls addRecord, which reads the index of the active bank...
EntryEnd(r) ==
  /\ entry[r].at = "new"
  /\ entry' = [entry EXCEPT ![r] = [at |-> "ended", b |-> active[TaskOf[r]]]]
  /\ UNCHANGED <<active, bank, flush, out, lost, late>>

\* ...and then locks that bank, which may have been flushed since.
AddRecord(r) ==
  LET t == TaskOf[r] IN
  /\ entry[r].at = "ended"
  /\ bank' = [bank EXCEPT ![t][entry[r].b] = @ \cup {r}]
  /\ late' = IF entry[r].b # active[t] /\ flush[t] = "idle"
             THEN late \cup {r} ELSE late
  /\ entry' = [entry EXCEPT ![r] = [at |-> "added", b |-> 0]]
  /\ UNCHANGED <<active, flush, out, lost>>

\* Mutant of FlushClear: the bank that is about to be harvested is cleared.
FlushClearActive(t) ==
  /\ flush[t] = "idle"
  /\ lost' = lost \cup bank[t][active[t]]
  /\ bank' = [bank EXCEPT ![t][active[t]] = {}]
  /\ flush' = [flush EXCEPT ![t] = "cleared"]
  /\ UNCHANGED <<active, entry, out, late>>

FlushClear(t) ==
  /\ flush[t] = "idle"
  /\ lost' = lost \cup bank[t][1 - active[t]]
  /\ bank' = [bank EXCEPT ![t][1 - active[t]] = {}]
  /\ flush' = [flush EXCEPT ![t] = "cleared"]
  /\ UNCHANGED <<active, entry, out, late>>

FlushSwitch(t) ==
  /\ flush[t] = "cleared"
  /\ active' = [active EXCEPT ![t] = 1 - @]
  /\ flush' = [flush EXCEPT ![t] = "switched"]
  /\ UNCHANGED <<bank, entry, out, lost, late>>

\* Mutant of Emptied: the harvested bank keeps its buckets.
EmptiedNot(t) == bank

\* clear, after the snapshot and under the same lock.
Emptied(t) == [bank EXCEPT ![t][1 - active[t]] = {}]

FlushHarvest(t) ==
  /\ flush[t] = "switched"
  /\ out' = [out EXCEPT ![t] = @ \cup bank[t][1 - active[t]]]
  /\ bank' = Emptied(t)
  /\ flush' = [flush EXCEPT ![t] = "idle"]
  /\ UNCHANGED <<active, entry, lost, late>>
=============================================================================
