-------------------------- MODULE AgentDataProofs --------------------------
(***************************************************************************)
(* For every set of tasks and records: no record is counted twice, the     *)
(* page of a done report is complete, and the collector follows the tasks. *)
(***************************************************************************)
EXTENDS AgentData, FiniteSetTheorems, TLAPS

Label == {"new", "discard", "start", "run", "leave", "stop", "collect", "flush",
          "write", "done"}

DataTypes ==
  /\ active \in [Task -> 0..1]
  /\ bank \in [Task -> [0..1 -> SUBSET Record]]
  /\ entry \in [Record -> [at : {"new", "ended", "added"}, b : 0..1]]
  /\ flush \in [Task -> {"idle", "cleared", "switched"}]
  /\ out \in [Task -> SUBSET Record]
  /\ pc \in [Task -> Label]
  /\ redis \in SUBSET Record
  /\ refused \in SUBSET Record
  /\ lost \in SUBSET Record
  /\ inTime \in SUBSET Record
  /\ read \in SUBSET Record

\* A record is only where its task's tracer, or a write, has put it, and only
\* after AddRecord.
Owned ==
  /\ \A t \in Task : \A r \in bank[t][0] \cup bank[t][1] \cup out[t] :
       TaskOf[r] = t /\ entry[r].at = "added"
  /\ \A r \in redis \cup refused \cup lost \cup inTime : entry[r].at = "added"

\* RecordOnce, record by record.
Once ==
  /\ \A t \in Task :
       /\ \A r \in bank[t][0] : r \notin bank[t][1]
       /\ \A r \in bank[t][0] \cup bank[t][1] : r \notin out[t]
       /\ \A r \in bank[t][0] \cup bank[t][1] \cup out[t] :
            r \notin redis /\ r \notin refused /\ r \notin lost
  /\ \A r \in redis : r \notin refused /\ r \notin lost
  /\ \A r \in refused : r \notin lost

OnceInv == DataTypes /\ Owned /\ Once
-----------------------------------------------------------------------------
(* Where a record is that the page must have.                              *)

\* While the case runs: in the active bank, in the other one if the Flush under
\* way will not throw it away, in the hands of the writer, or written.
AtRun(t, r) ==
  \/ r \in bank[t][active[t]]
  \/ flush[t] # "idle" /\ r \in bank[t][1 - active[t]]
  \/ r \in out[t]
  \/ r \in redis

\* After the case: the bank that the final Flush is to harvest, and so on.
AtEnd(t, r) ==
  \/ r \in redis
  \/ /\ pc[t] \in {"leave", "stop", "collect"}
     /\ flush[t] = "idle"
     /\ r \in bank[t][active[t]]
  \/ /\ pc[t] = "flush"
     /\ flush[t] # "switched"
     /\ r \in bank[t][active[t]]
  \/ /\ pc[t] = "flush"
     /\ flush[t] = "switched"
     /\ r \in bank[t][1 - active[t]]
  \/ pc[t] = "write" /\ r \in out[t]

Wanted == inTime \ (refused \cup late)

At(t, r) == IF pc[t] = "run" THEN AtRun(t, r) ELSE AtEnd(t, r)

OnItsWay == del = "none" => \A r \in Wanted : At(TaskOf[r], r)

\* The master starts when the tasks are done, and reads all of it.
MasterInv ==
  /\ master # "wait" => \A t \in Task : pc[t] = "done"
  /\ del \in {"none", "page", "table", "done"}
  /\ listed => del # "done"
  /\ master = "generate" /\ del = "none" => Wanted \subseteq read
  /\ master = "done" /\ del = "none" => page # NoPage /\ Wanted \subseteq page

PageInv == DataTypes /\ OnItsWay /\ MasterInv
-----------------------------------------------------------------------------
(* The collector.                                                          *)

Active == {t \in Task : pc[t] \in {"discard", "start", "run", "leave"}}

CollectorInv ==
  /\ pc \in [Task -> Label]
  /\ count = Cardinality(Active)
  /\ \A t \in series : t \in Task /\ pc[t] \in {"flush", "write"}
  /\ overlap \in BOOLEAN
  /\ ~overlap =>
       /\ wasted = {}
       /\ Active # {} =>
            /\ series = {}
            /\ \A t \in Task : pc[t] \notin {"stop", "collect"}
       /\ (\E t \in Task : pc[t] \in {"run", "leave"}) =>
            running \/ \E u \in Task : pc[u] \in {"discard", "start"}
-----------------------------------------------------------------------------
(* The proofs.                                                             *)

\* What an update of one bank of one tracer does.
LEMMA BankUpdate ==
  ASSUME NEW f \in [Task -> [0..1 -> SUBSET Record]], NEW t \in Task, NEW b \in 0..1,
         NEW X \in SUBSET Record
  PROVE  /\ [f EXCEPT ![t][b] = X] \in [Task -> [0..1 -> SUBSET Record]]
         /\ \A u \in Task : \A c \in 0..1 :
              [f EXCEPT ![t][b] = X][u][c] = IF u = t /\ c = b THEN X ELSE f[u][c]
OBVIOUS

\* One of the two indices is the active one, one the other.
LEMMA BankIndices ==
  ASSUME DataTypes, NEW t \in Task
  PROVE  /\ active[t] \in 0..1
         /\ 1 - active[t] \in 0..1
         /\ active[t] # 1 - active[t]
         /\ \A c \in 0..1 : c = active[t] \/ c = 1 - active[t]
         /\ 0 \in 0..1 /\ 1 \in 0..1
BY DEF DataTypes

\* AddRecord puts a record that is nowhere yet into one bank of its task.
LEMMA OnceAdd ==
  ASSUME OnceInv, NEW r \in Record, RecordAdd(r)
  PROVE  OnceInv'
<1> DEFINE t == TaskOf[r]
           b == entry[r].b
<1> USE TracerAssumption DEF OnceInv
<1>1. t \in Task /\ b \in 0..1 /\ bank[t][b] \cup {r} \in SUBSET Record
  BY DEF DataTypes
<1>2. /\ bank' = [bank EXCEPT ![t][b] = bank[t][b] \cup {r}]
      /\ entry[r].at = "ended"
      /\ entry' = [entry EXCEPT ![r] = [at |-> "added", b |-> 0]]
      /\ UNCHANGED <<active, flush, out, lost, pc, redis, refused, read>>
      /\ inTime' \subseteq inTime \cup {r}
  BY DEF RecordAdd, AddRecord, agentVars, storeVars, masterVars
<1>3. /\ bank' \in [Task -> [0..1 -> SUBSET Record]]
      /\ \A u \in Task : \A c \in 0..1 :
           bank'[u][c] = IF u = t /\ c = b THEN bank[t][b] \cup {r} ELSE bank[u][c]
  <2> HIDE DEF t, b
  <2> QED BY <1>1, <1>2, BankUpdate DEF DataTypes
<1>4. DataTypes'
  <2> HIDE DEF t, b
  <2> QED BY <1>2, <1>3 DEF DataTypes
<1>5. \A q \in Record : entry'[q].at = "added" <=> entry[q].at = "added" \/ q = r
  BY <1>2 DEF DataTypes
<1>6. \A u \in Task : \A c \in 0..1 : \A q \in bank'[u][c] :
         q \in Record /\ (q \in bank[u][c] \/ (q = r /\ u = t))
  BY <1>1, <1>3 DEF DataTypes
<1>7. Owned'
  BY <1>2, <1>4, <1>5, <1>6 DEF Owned, DataTypes
<1>8. r \notin redis \cup refused \cup lost
  BY <1>2 DEF Owned
<1>9. \A u \in Task : r \notin bank[u][0] \cup bank[u][1] \cup out[u]
  BY <1>2 DEF Owned
<1>10. \A u \in Task : \A q \in bank'[u][0] : q \notin bank'[u][1]
  <2> HIDE DEF t, b
  <2> QED BY <1>1, <1>3, <1>9 DEF Once
<1>11. Once'
  BY <1>2, <1>6, <1>8, <1>9, <1>10 DEF Once
<1> QED BY <1>4, <1>7, <1>11

\* A step of Flush: clear, switch, harvest.
LEMMA OnceClear ==
  ASSUME OnceInv, NEW t \in Task, FlushClear(t),
         UNCHANGED <<redis, refused, inTime, read>>, pc' \in [Task -> Label]
  PROVE  OnceInv'
<1> DEFINE b == 1 - active[t]
<1> USE TracerAssumption DEF OnceInv
<1>1. b \in 0..1 /\ {} \in SUBSET Record /\ bank[t][b] \in SUBSET Record
  BY DEF DataTypes
<1>2. /\ bank' = [bank EXCEPT ![t][b] = {}]
      /\ lost' = lost \cup bank[t][b]
      /\ flush' = [flush EXCEPT ![t] = "cleared"]
      /\ UNCHANGED <<active, entry, out, redis, refused, inTime, read>>
  BY DEF FlushClear
<1> HIDE DEF b
<1>3. /\ bank' \in [Task -> [0..1 -> SUBSET Record]]
      /\ \A u \in Task : \A c \in 0..1 :
           bank'[u][c] = IF u = t /\ c = b THEN {} ELSE bank[u][c]
  BY <1>1, <1>2, BankUpdate DEF DataTypes
<1>4. DataTypes'
  BY <1>1, <1>2, <1>3 DEF DataTypes
<1>5. \A u \in Task : \A c \in 0..1 : bank'[u][c] \subseteq bank[u][c]
  BY <1>3
<1>6. \A q \in lost' : q \in lost \/ q \in bank[t][0] \cup bank[t][1]
  BY <1>1, <1>2
<1>7. Owned'
  BY <1>2, <1>5, <1>6 DEF Owned
<1>8. \A u \in Task : \A q \in bank[t][b] :
        q \notin bank'[u][0] \cup bank'[u][1] \cup out[u] \cup redis \cup refused
  <2> SUFFICES ASSUME NEW u \in Task, NEW q \in bank[t][b]
               PROVE  q \notin bank'[u][0] \cup bank'[u][1] \cup out[u] \cup redis
                               \cup refused
    OBVIOUS
  <2>1. q \notin redis \cup refused
    BY <1>1 DEF Once
  <2>2. CASE u = t
    BY <2>1, <2>2, <1>1, <1>3 DEF Once
  <2>3. CASE u # t
    BY <2>1, <2>3, <1>1, <1>5 DEF Owned
  <2> QED BY <2>2, <2>3
<1>9. Once'
  BY <1>2, <1>5, <1>8 DEF Once
<1> QED BY <1>4, <1>7, <1>9

LEMMA OnceHarvest ==
  ASSUME OnceInv, NEW t \in Task, FlushHarvest(t),
         UNCHANGED <<redis, refused, inTime, read>>, pc' \in [Task -> Label]
  PROVE  OnceInv'
<1> DEFINE b == 1 - active[t]
<1> USE TracerAssumption DEF OnceInv
<1>1. b \in 0..1 /\ {} \in SUBSET Record /\ bank[t][b] \in SUBSET Record
  BY DEF DataTypes
<1>2. /\ bank' = [bank EXCEPT ![t][b] = {}]
      /\ out' = [out EXCEPT ![t] = out[t] \cup bank[t][b]]
      /\ flush' = [flush EXCEPT ![t] = "idle"]
      /\ UNCHANGED <<active, entry, lost, redis, refused, inTime, read>>
  BY DEF FlushHarvest, Emptied
<1> HIDE DEF b
<1>3. /\ bank' \in [Task -> [0..1 -> SUBSET Record]]
      /\ \A u \in Task : \A c \in 0..1 :
           bank'[u][c] = IF u = t /\ c = b THEN {} ELSE bank[u][c]
  BY <1>1, <1>2, BankUpdate DEF DataTypes
<1>4. DataTypes'
  BY <1>1, <1>2, <1>3 DEF DataTypes
<1>5. \A u \in Task : \A c \in 0..1 : bank'[u][c] \subseteq bank[u][c]
  BY <1>3
<1>6. \A u \in Task : out'[u] = IF u = t THEN out[t] \cup bank[t][b] ELSE out[u]
  BY <1>2 DEF DataTypes
<1>7. \A u \in Task : \A q \in out'[u] : q \in out[u] \cup bank[u][0] \cup bank[u][1]
  BY <1>1, <1>6
<1>8. Owned'
  BY <1>2, <1>5, <1>7 DEF Owned
<1>9. \A u \in Task : \A q \in bank'[u][0] \cup bank'[u][1] : q \notin out'[u]
  BY <1>1, <1>3, <1>5, <1>6 DEF Once
<1>10. Once'
  BY <1>2, <1>5, <1>7, <1>9 DEF Once
<1> QED BY <1>4, <1>8, <1>10

\* Redis or the log of failures gets what the writer had.
LEMMA OnceWrite ==
  ASSUME OnceInv, NEW t \in Task, WriteTracings(t),
         UNCHANGED <<active, bank, entry, flush, lost, inTime, read>>,
         pc' \in [Task -> Label]
  PROVE  OnceInv'
<1> USE TracerAssumption DEF OnceInv
<1>1. /\ out' = [out EXCEPT ![t] = {}]
      /\ \/ redis' = redis \cup out[t] /\ refused' = refused
         \/ refused' = refused \cup out[t] /\ redis' = redis
  BY DEF WriteTracings
<1>2. out[t] \in SUBSET Record /\ {} \in SUBSET Record
  BY DEF DataTypes
<1>3. DataTypes'
  BY <1>1, <1>2 DEF DataTypes
<1>4. \A u \in Task : out'[u] = IF u = t THEN {} ELSE out[u]
  BY <1>1 DEF DataTypes
<1>5. Owned'
  BY <1>1, <1>4 DEF Owned
<1>6. \A u \in Task : \A q \in out[t] :
        q \notin bank[u][0] \cup bank[u][1] \cup out'[u] \cup redis \cup refused \cup lost
  <2> SUFFICES ASSUME NEW u \in Task, NEW q \in out[t]
               PROVE  q \notin bank[u][0] \cup bank[u][1] \cup out'[u] \cup redis
                               \cup refused \cup lost
    OBVIOUS
  <2>1. q \notin redis \cup refused \cup lost
    BY DEF Once
  <2>2. CASE u = t
    BY <2>1, <2>2, <1>4 DEF Once
  <2>3. CASE u # t
    BY <2>1, <2>3, <1>4 DEF Owned
  <2> QED BY <2>2, <2>3
<1>7. Once'
  BY <1>1, <1>4, <1>6 DEF Once
<1> QED BY <1>3, <1>5, <1>7

\* The steps that move no record.
LEMMA OnceStill ==
  ASSUME OnceInv, UNCHANGED <<bank, out, lost, refused, inTime>>,
         active' \in [Task -> 0..1],
         flush' \in [Task -> {"idle", "cleared", "switched"}],
         entry' \in [Record -> [at : {"new", "ended", "added"}, b : 0..1]],
         \A r \in Record : entry[r].at = "added" => entry'[r].at = "added",
         pc' \in [Task -> Label], redis' = redis \/ redis' = {},
         read' \in SUBSET Record
  PROVE  OnceInv'
<1> USE DEF OnceInv
<1>1. DataTypes'
  BY DEF DataTypes
<1>2. Owned'
  BY DEF DataTypes, Owned
<1>3. Once'
  BY DEF Once
<1> QED BY <1>1, <1>2, <1>3

\* A jump stays within executeTask.
LEMMA GotoType ==
  ASSUME pc \in [Task -> Label], NEW t \in Task, NEW l \in Label, Goto(t, l)
  PROVE  /\ pc' \in [Task -> Label]
         /\ \A u \in Task : pc'[u] = IF u = t THEN l ELSE pc[u]
BY DEF Goto

LEMMA OnceStep ==
  ASSUME OnceInv, [Next]_vars
  PROVE  OnceInv'
<1> USE DEF agentVars, storeVars, masterVars, collectorVars, tracerVars
<1>0. /\ pc \in [Task -> Label]
      /\ DataTypes
  BY DEF OnceInv, DataTypes
<1>1. ASSUME NEW r \in Record, RecordEnd(r)
      PROVE  OnceInv'
  BY <1>0, <1>1, OnceStill, TracerAssumption DEF DataTypes, RecordEnd, EntryEnd
<1>2. ASSUME NEW r \in Record, RecordAdd(r)
      PROVE  OnceInv'
  BY <1>2, OnceAdd
<1>3. ASSUME NEW t \in Task, TaskBegin(t)
      PROVE  OnceInv'
  <2>1. pc' \in [Task -> Label]
    BY <1>0, <1>3, GotoType DEF TaskBegin, Label
  <2> QED BY <1>0, <1>3, <2>1, OnceStill DEF DataTypes, TaskBegin
<1>4. ASSUME NEW t \in Task,
             TaskDiscard(t) \/ TaskStart(t) \/ CaseReturns(t) \/ TaskLeave(t)
               \/ TaskStop(t) \/ TaskCollect(t)
      PROVE  OnceInv'
  <2>1. /\ pc' \in [Task -> Label]
        /\ UNCHANGED <<tracerVars, storeVars, inTime, masterVars>>
    BY <1>0, <1>4, GotoType
       DEF Label, TaskDiscard, TaskStart, CaseReturns, TaskLeave, TaskStop, TaskCollect
  <2> QED BY <1>0, <2>1, OnceStill DEF DataTypes
<1>5. ASSUME NEW t \in Task, PartialFlush(t) \/ FinalFlush(t)
      PROVE  OnceInv'
  <2>1. /\ FlushClear(t) \/ FlushSwitch(t) \/ FlushHarvest(t)
        /\ UNCHANGED <<redis, refused, inTime, read>>
    BY <1>5 DEF PartialFlush, FinalFlush
  <2>2. pc' \in [Task -> Label]
    BY <1>0, <1>5, GotoType DEF PartialFlush, FinalFlush, Label
  <2>3. CASE FlushSwitch(t)
    <3>1. active' \in [Task -> 0..1]
      BY <1>0, <2>3 DEF DataTypes, FlushSwitch
    <3> QED BY <1>0, <2>1, <2>2, <2>3, <3>1, OnceStill DEF DataTypes, FlushSwitch
  <2> QED BY <2>1, <2>2, <2>3, OnceClear, OnceHarvest
<1>6. ASSUME NEW t \in Task, PartialWrite(t) \/ FinalWrite(t)
      PROVE  OnceInv'
  <2>1. pc' \in [Task -> Label]
    BY <1>0, <1>6, GotoType DEF PartialWrite, FinalWrite, Label
  <2> QED BY <1>6, <2>1, OnceWrite DEF PartialWrite, FinalWrite
<1>7. ASSUME NEW g \in DOMAIN collector, Collector(g)
      PROVE  OnceInv'
  BY <1>0, <1>7, OnceStill DEF DataTypes, Collector
<1>8. ASSUME Aggregate \/ Generate \/ Regenerate \/ DeleteKeys \/ DeletePage \/ DeleteEntry
      PROVE  OnceInv'
  BY <1>0, <1>8, OnceStill
     DEF DataTypes, Aggregate, Generate, Regenerate, DeleteKeys, DeletePage, DeleteEntry
<1>9. ASSUME UNCHANGED vars
      PROVE  OnceInv'
  BY <1>0, <1>9, OnceStill DEF DataTypes, vars
<1> QED BY <1>1, <1>2, <1>3, <1>4, <1>5, <1>6, <1>7, <1>8, <1>9 DEF Next, TaskStep

LEMMA OnceInit ==
  ASSUME Init
  PROVE  OnceInv
BY TracerAssumption
   DEF Init, TracerInit, OnceInv, DataTypes, Owned, Once, Label

LEMMA OnceInvariant == Spec => []OnceInv
<1>1. Init => OnceInv
  BY OnceInit
<1>2. OnceInv /\ [Next]_vars => OnceInv'
  BY OnceStep
<1> QED BY <1>1, <1>2, PTL DEF Spec

\* A record that was ended is in one place at any time: one bank, the hands of
\* one writer, Redis, a failed write or the clear of a bank, whatever way
\* addRecord, Flush and the writes of several tasks are interleaved.
THEOREM RecordsCountedOnce == Spec => []RecordOnce
<1>1. ASSUME OnceInv
      PROVE  RecordOnce
  <2> DEFINE kept(t) == <<bank[t][0], bank[t][1], out[t]>>
             gone == <<redis, refused, lost>>
  <2>1. \A t \in Task : \A i, j \in 1..3 : i # j => kept(t)[i] \cap kept(t)[j] = {}
    <3> SUFFICES ASSUME NEW t \in Task
                 PROVE  \A i, j \in 1..3 : i # j => kept(t)[i] \cap kept(t)[j] = {}
      OBVIOUS
    <3>1. /\ bank[t][0] \cap bank[t][1] = {}
          /\ bank[t][0] \cap out[t] = {}
          /\ bank[t][1] \cap out[t] = {}
      BY <1>1 DEF OnceInv, Once
    <3> QED BY <3>1
  <2>2. \A t \in Task : \A i, j \in 1..3 : kept(t)[i] \cap gone[j] = {}
    <3> SUFFICES ASSUME NEW t \in Task, NEW i \in 1..3, NEW j \in 1..3
                 PROVE  kept(t)[i] \cap gone[j] = {}
      OBVIOUS
    <3>1. \A r \in kept(t)[i] : r \in bank[t][0] \cup bank[t][1] \cup out[t]
      OBVIOUS
    <3>2. \A r \in gone[j] : r \in redis \cup refused \cup lost
      OBVIOUS
    <3> HIDE DEF kept, gone
    <3> QED BY <1>1, <3>1, <3>2 DEF OnceInv, Once
  <2>3. \A i, j \in 1..3 : i # j => gone[i] \cap gone[j] = {}
    <3>1. redis \cap refused = {} /\ redis \cap lost = {} /\ refused \cap lost = {}
      BY <1>1 DEF OnceInv, Once
    <3> QED BY <3>1
  <2> QED BY <2>1, <2>2, <2>3 DEF RecordOnce
<1> QED BY <1>1, OnceInvariant, PTL
-----------------------------------------------------------------------------
\* What leaves a tracer and its task alone leaves its records where they are.
LEMMA AtFrame ==
  ASSUME DataTypes, NEW t \in Task, NEW r, At(t, r),
         pc'[t] = pc[t], active'[t] = active[t], flush'[t] = flush[t],
         \A c \in 0..1 : bank[t][c] \subseteq bank'[t][c],
         out[t] \subseteq out'[t], redis \subseteq redis'
  PROVE  At(t, r)'
<1>1. bank[t][active[t]] \subseteq bank'[t][active[t]]
  BY BankIndices
<1>2. bank[t][1 - active[t]] \subseteq bank'[t][1 - active[t]]
  BY BankIndices
<1> QED BY <1>1, <1>2 DEF At, AtRun, AtEnd

\* A step of one task: its own records stay on their way, and so do the others'.
LEMMA WayOfTask ==
  ASSUME DataTypes, OnItsWay, NEW t \in Task, del' = del, Wanted' \subseteq Wanted,
         redis \subseteq redis',
         \A u \in Task \ {t} :
           /\ pc'[u] = pc[u] /\ active'[u] = active[u] /\ flush'[u] = flush[u]
           /\ bank'[u] = bank[u] /\ out'[u] = out[u],
         \A r \in Wanted' : At(t, r) => At(t, r)'
  PROVE  OnItsWay'
<1> SUFFICES ASSUME del = "none", NEW r \in Wanted'
             PROVE  At(TaskOf[r], r)'
  BY DEF OnItsWay
<1>1. TaskOf[r] \in Task /\ At(TaskOf[r], r)
  BY TracerAssumption DEF OnItsWay, DataTypes, Wanted
<1>2. CASE TaskOf[r] = t
  BY <1>1, <1>2
<1>3. CASE TaskOf[r] # t
  BY <1>1, <1>3, AtFrame
<1> QED BY <1>2, <1>3

LEMMA WayAdd ==
  ASSUME DataTypes, OnItsWay, NEW r \in Record, RecordAdd(r)
  PROVE  OnItsWay'
<1> DEFINE t == TaskOf[r]
           b == entry[r].b
<1>1. t \in Task /\ b \in 0..1 /\ bank[t][b] \cup {r} \in SUBSET Record
  BY TracerAssumption DEF DataTypes
<1>2. /\ bank' = [bank EXCEPT ![t][b] = bank[t][b] \cup {r}]
      /\ UNCHANGED <<active, flush, out, pc, redis, refused, del>>
      /\ inTime' = IF pc[t] = "run" THEN inTime \cup {r} ELSE inTime
      /\ late' = IF b # active[t] /\ flush[t] = "idle" THEN late \cup {r} ELSE late
  BY DEF RecordAdd, AddRecord, agentVars, storeVars, masterVars
<1>3. \A u \in Task : \A c \in 0..1 :
        bank'[u][c] = IF u = t /\ c = b THEN bank[t][b] \cup {r} ELSE bank[u][c]
  <2> HIDE DEF t, b
  <2> QED BY <1>1, <1>2, BankUpdate DEF DataTypes
<1> SUFFICES ASSUME del = "none", NEW q \in Wanted'
             PROVE  At(TaskOf[q], q)'
  BY <1>2 DEF OnItsWay
<1>4. q \in Record /\ TaskOf[q] \in Task
  BY <1>2, TracerAssumption DEF Wanted, DataTypes
<1>5. CASE q \in Wanted
  <2>1. At(TaskOf[q], q)
    BY <1>5 DEF OnItsWay
  <2>2. \A c \in 0..1 : bank[TaskOf[q]][c] \subseteq bank'[TaskOf[q]][c]
    BY <1>3, <1>4
  <2> HIDE DEF t, b
  <2> QED BY <1>2, <1>4, <2>1, <2>2, AtFrame
<1>6. CASE q \notin Wanted
  <2>1. q = r /\ pc[t] = "run" /\ (b = active[t] \/ flush[t] # "idle")
    BY <1>2, <1>6 DEF Wanted
  <2>2. q \in bank'[t][b]
    BY <1>1, <1>3, <2>1
  <2>3. b = active[t] \/ b = 1 - active[t]
    BY <1>1, BankIndices
  <2> QED BY <1>2, <2>1, <2>2, <2>3 DEF At, AtRun
<1> QED BY <1>5, <1>6

\* The three parts of Flush: what is wanted is in a bank that it does not clear,
\* moves with the switch, and is handed to the writer.
LEMMA WayFlush ==
  ASSUME DataTypes, OnItsWay, NEW t \in Task, PartialFlush(t) \/ FinalFlush(t)
  PROVE  OnItsWay'
<1> DEFINE b == 1 - active[t]
<1> USE DEF agentVars, storeVars, masterVars
<1>1. /\ b \in 0..1 /\ active[t] \in 0..1 /\ active[t] # b /\ 1 - b = active[t]
      /\ {} \in SUBSET Record
  BY DEF DataTypes
<1>2. /\ del' = del /\ redis' = redis
      /\ refused' = refused /\ inTime' = inTime
      /\ FlushClear(t) \/ FlushSwitch(t) \/ FlushHarvest(t)
      /\ \A u \in Task \ {t} : pc'[u] = pc[u]
      /\ pc[t] \in {"run", "flush"}
  BY DEF PartialFlush, FinalFlush, Goto, DataTypes
<1>3. late' = late
  BY <1>2 DEF FlushClear, FlushSwitch, FlushHarvest
<1>4. Wanted' = Wanted
  BY <1>2, <1>3 DEF Wanted
<1>5. CASE FlushClear(t)
  <2>1. /\ bank' = [bank EXCEPT ![t][b] = {}]
        /\ flush[t] = "idle"
        /\ flush' = [flush EXCEPT ![t] = "cleared"]
        /\ UNCHANGED <<active, out>>
    BY <1>5 DEF FlushClear
  <2>2. pc'[t] = pc[t]
    BY <1>5 DEF PartialFlush, FinalFlush, FlushClear, FlushHarvest
  <2>3. \A u \in Task \ {t} : bank'[u] = bank[u] /\ flush'[u] = flush[u]
    BY <2>1 DEF DataTypes
  <2>4. bank'[t][active[t]] = bank[t][active[t]] /\ flush'[t] = "cleared"
    BY <1>1, <2>1 DEF DataTypes
  <2>5. \A r \in Wanted' : At(t, r) => At(t, r)'
    BY <1>2, <2>1, <2>2, <2>4 DEF At, AtRun, AtEnd
  <2> QED BY <1>2, <1>4, <2>1, <2>3, <2>5, WayOfTask
<1>6. CASE FlushSwitch(t)
  <2>1. /\ flush[t] = "cleared"
        /\ flush' = [flush EXCEPT ![t] = "switched"]
        /\ active' = [active EXCEPT ![t] = b]
        /\ UNCHANGED <<bank, out>>
    BY <1>6 DEF FlushSwitch
  <2>2. pc'[t] = pc[t]
    BY <1>6 DEF PartialFlush, FinalFlush, FlushSwitch, FlushHarvest
  <2>3. \A u \in Task \ {t} : active'[u] = active[u] /\ flush'[u] = flush[u]
    BY <2>1 DEF DataTypes
  <2>4. active'[t] = b /\ flush'[t] = "switched" /\ 1 - active'[t] = active[t]
    BY <1>1, <2>1 DEF DataTypes
  <2>5. \A r \in Wanted' : At(t, r) => At(t, r)'
    BY <1>2, <2>1, <2>2, <2>4 DEF At, AtRun, AtEnd
  <2> QED BY <1>2, <1>4, <2>1, <2>3, <2>5, WayOfTask
<1>7. CASE FlushHarvest(t)
  <2>1. /\ flush[t] = "switched"
        /\ flush' = [flush EXCEPT ![t] = "idle"]
        /\ bank' = [bank EXCEPT ![t][b] = {}]
        /\ out' = [out EXCEPT ![t] = out[t] \cup bank[t][b]]
        /\ active' = active
    BY <1>7 DEF FlushHarvest, Emptied
  <2>2. pc'[t] = IF pc[t] = "run" THEN "run" ELSE "write"
    BY <1>2, <1>7 DEF PartialFlush, FinalFlush, Goto, DataTypes, FlushHarvest, FlushClear,
                      FlushSwitch
  <2>3. \A u \in Task \ {t} :
          bank'[u] = bank[u] /\ flush'[u] = flush[u] /\ out'[u] = out[u]
    BY <2>1 DEF DataTypes
  <2>4. /\ bank'[t][active[t]] = bank[t][active[t]]
        /\ out'[t] = out[t] \cup bank[t][b]
    BY <1>1, <2>1 DEF DataTypes
  <2>5. \A r \in Wanted' : At(t, r) => At(t, r)'
    BY <1>2, <2>1, <2>2, <2>4 DEF At, AtRun, AtEnd
  <2> QED BY <1>2, <1>4, <2>1, <2>3, <2>5, WayOfTask
<1> QED BY <1>2, <1>5, <1>6, <1>7

\* A write: Redis has it, or it is refused and wanted no more.
LEMMA WayWrite ==
  ASSUME DataTypes, OnItsWay, NEW t \in Task, PartialWrite(t) \/ FinalWrite(t)
  PROVE  OnItsWay'
<1> USE DEF agentVars, storeVars, masterVars
<1>1. /\ UNCHANGED <<active, bank, flush, late, inTime, del>>
      /\ out' = [out EXCEPT ![t] = {}]
      /\ \/ redis' = redis \cup out[t] /\ refused' = refused
         \/ refused' = refused \cup out[t] /\ redis' = redis
  BY DEF PartialWrite, FinalWrite, WriteTracings
<1>2. /\ \A u \in Task \ {t} : pc'[u] = pc[u]
      /\ \/ pc[t] = "run" /\ pc'[t] = "run"
         \/ pc[t] = "write" /\ pc'[t] = "done"
  BY DEF PartialWrite, FinalWrite, Goto, DataTypes
<1>3. \A u \in Task \ {t} : out'[u] = out[u]
  BY <1>1 DEF DataTypes
<1>4. /\ Wanted' \subseteq Wanted
      /\ redis \subseteq redis'
      /\ \A r \in Wanted' : r \in out[t] => r \in redis'
  BY <1>1 DEF Wanted
<1>5. \A r \in Wanted' : At(t, r) => At(t, r)'
  BY <1>1, <1>2, <1>4 DEF At, AtRun, AtEnd
<1> QED BY <1>1, <1>2, <1>3, <1>4, <1>5, WayOfTask

\* The jumps of executeTask: no record is in a bank before the case runs, and
\* when it returns no Flush is under way.
LEMMA WayGoto ==
  ASSUME DataTypes, OnItsWay, NEW t \in Task,
         TaskBegin(t) \/ TaskDiscard(t) \/ TaskStart(t) \/ CaseReturns(t)
           \/ TaskLeave(t) \/ TaskStop(t) \/ TaskCollect(t)
  PROVE  OnItsWay'
<1> USE DEF agentVars, storeVars, masterVars, tracerVars
<1>1. UNCHANGED <<active, bank, flush, out, late, redis, refused, inTime, del>>
  BY DEF TaskBegin, TaskDiscard, TaskStart, CaseReturns, TaskLeave, TaskStop, TaskCollect
<1>2. Wanted' = Wanted
  BY <1>1 DEF Wanted
<1>3. /\ \A u \in Task \ {t} : pc'[u] = pc[u]
      /\ \/ pc[t] \in {"new", "discard", "start"}
         \/ pc[t] = "run" /\ flush[t] = "idle" /\ out[t] = {} /\ pc'[t] = "leave"
         \/ /\ pc[t] \in {"leave", "stop", "collect"}
            /\ pc'[t] \in {"stop", "collect", "flush"}
  BY DEF TaskBegin, TaskDiscard, TaskStart, CaseReturns, TaskLeave, TaskStop,
         TaskCollect, Goto, DataTypes
<1>4. \A r \in Wanted' : At(t, r) => At(t, r)'
  BY <1>1, <1>3 DEF At, AtRun, AtEnd
<1> QED BY <1>1, <1>2, <1>3, <1>4, WayOfTask

LEMMA WayStep ==
  ASSUME DataTypes, OnItsWay, [Next]_vars
  PROVE  OnItsWay'
<1> USE DEF agentVars, storeVars, masterVars, tracerVars, collectorVars
<1>1. ASSUME NEW t \in Task, TaskStep(t)
      PROVE  OnItsWay'
  BY <1>1, WayFlush, WayWrite, WayGoto DEF TaskStep
<1>2. ASSUME NEW r \in Record, RecordAdd(r)
      PROVE  OnItsWay'
  BY <1>2, WayAdd
<1>3. ASSUME DeleteKeys
      PROVE  OnItsWay'
  BY <1>3 DEF DeleteKeys, OnItsWay
<1>4. ASSUME UNCHANGED <<active, bank, flush, out, late, pc, redis, refused, inTime>>,
             del' = "none" => del = "none"
      PROVE  OnItsWay'
  <2>1. Wanted' = Wanted
    BY <1>4 DEF Wanted
  <2>2. ASSUME NEW r, At(TaskOf[r], r)
        PROVE  At(TaskOf[r], r)'
    BY <1>4, <2>2 DEF At, AtRun, AtEnd
  <2> QED BY <1>4, <2>1, <2>2 DEF OnItsWay
<1>5. ASSUME NEW r \in Record, RecordEnd(r)
      PROVE  OnItsWay'
  BY <1>4, <1>5 DEF RecordEnd, EntryEnd
<1>6. ASSUME NEW g \in DOMAIN collector, Collector(g)
      PROVE  OnItsWay'
  BY <1>4, <1>6 DEF Collector
<1>7. ASSUME Aggregate \/ Generate \/ Regenerate \/ DeletePage \/ DeleteEntry
      PROVE  OnItsWay'
  BY <1>4, <1>7 DEF Aggregate, Generate, Regenerate, DeletePage, DeleteEntry
<1>8. ASSUME UNCHANGED vars
      PROVE  OnItsWay'
  BY <1>4, <1>8 DEF vars
<1> QED BY <1>1, <1>2, <1>3, <1>5, <1>6, <1>7, <1>8 DEF Next

\* When every task is done, all that is wanted is in Redis.
LEMMA AllWritten ==
  ASSUME DataTypes, OnItsWay, del = "none", \A t \in Task : pc[t] = "done"
  PROVE  Wanted \subseteq redis
<1> SUFFICES ASSUME NEW r \in Wanted
             PROVE  r \in redis
  OBVIOUS
<1>1. TaskOf[r] \in Task
  BY TracerAssumption DEF Wanted, DataTypes
<1>2. At(TaskOf[r], r)
  BY DEF OnItsWay
<1> QED BY <1>1, <1>2 DEF At, AtEnd

\* The marks of a missing page and of a page differ.
LEMMA PageExists ==
  ASSUME NEW S \in SUBSET Record
  PROVE  S # NoPage
BY AgentDataAssumption DEF NoPage

LEMMA MasterStep ==
  ASSUME PageInv, [Next]_vars
  PROVE  MasterInv'
<1> USE DEF agentVars, storeVars, masterVars, tracerVars, collectorVars
<1>1. ASSUME NEW t \in Task, TaskStep(t)
      PROVE  MasterInv'
  <2>1. pc[t] # "done" /\ UNCHANGED masterVars
    BY <1>1 DEF TaskStep, TaskBegin, TaskDiscard, TaskStart, PartialFlush, PartialWrite,
                CaseReturns, TaskLeave, TaskStop, TaskCollect, FinalFlush, FinalWrite
  <2>2. master = "wait"
    BY <2>1 DEF PageInv, MasterInv
  <2> QED BY <2>1, <2>2 DEF PageInv, MasterInv
<1>2. ASSUME NEW r \in Record, RecordAdd(r)
      PROVE  MasterInv'
  <2>1. /\ UNCHANGED <<masterVars, refused, pc>>
        /\ inTime' = IF pc[TaskOf[r]] = "run" THEN inTime \cup {r} ELSE inTime
        /\ late' = late \/ late' = late \cup {r}
    BY <1>2 DEF RecordAdd, AddRecord
  <2>2. CASE master = "wait"
    BY <2>1, <2>2 DEF PageInv, MasterInv
  <2>3. CASE master # "wait"
    <3>1. pc[TaskOf[r]] = "done"
      BY <2>3, TracerAssumption DEF PageInv, MasterInv
    <3>2. Wanted' \subseteq Wanted
      BY <2>1, <3>1 DEF Wanted
    <3> QED BY <2>1, <3>2 DEF PageInv, MasterInv
  <2> QED BY <2>2, <2>3
<1>3. ASSUME Aggregate
      PROVE  MasterInv'
  <2>1. Wanted' = Wanted
    BY <1>3 DEF Aggregate, Wanted
  <2>2. del = "none" => Wanted \subseteq redis
    BY <1>3, AllWritten DEF Aggregate, PageInv
  <2> QED BY <1>3, <2>1, <2>2 DEF Aggregate, PageInv, MasterInv
<1>4. ASSUME Generate
      PROVE  MasterInv'
  <2>1. Wanted' = Wanted
    BY <1>4 DEF Generate, Wanted
  <2>2. read # NoPage
    BY PageExists DEF PageInv, DataTypes
  <2> QED BY <1>4, <2>1, <2>2 DEF Generate, PageInv, MasterInv
<1>5. ASSUME Regenerate
      PROVE  MasterInv'
  <2>1. Wanted' = Wanted
    BY <1>5 DEF Regenerate, Wanted
  <2>2. master = "done" /\ del = "none" => Wanted \subseteq redis
    BY AllWritten DEF PageInv, MasterInv
  <2>3. redis # NoPage
    BY PageExists DEF PageInv, DataTypes
  <2> QED BY <1>5, <2>1, <2>2, <2>3 DEF Regenerate, PageInv, MasterInv
<1>6. ASSUME DeleteKeys \/ DeletePage \/ DeleteEntry
      PROVE  MasterInv'
  BY <1>6 DEF DeleteKeys, DeletePage, DeleteEntry, PageInv, MasterInv
<1>7. ASSUME UNCHANGED <<masterVars, pc, inTime, refused, late>>
      PROVE  MasterInv'
  <2>1. Wanted' = Wanted
    BY <1>7 DEF Wanted
  <2> QED BY <1>7, <2>1 DEF PageInv, MasterInv
<1>8. ASSUME NEW r \in Record, RecordEnd(r)
      PROVE  MasterInv'
  BY <1>7, <1>8 DEF RecordEnd, EntryEnd
<1>9. ASSUME NEW g \in DOMAIN collector, Collector(g)
      PROVE  MasterInv'
  BY <1>7, <1>9 DEF Collector
<1>10. ASSUME UNCHANGED vars
       PROVE  MasterInv'
  BY <1>7, <1>10 DEF vars
<1> QED BY <1>1, <1>2, <1>3, <1>4, <1>5, <1>6, <1>8, <1>9, <1>10 DEF Next

\* A task that the table shows as done has its page unless the report is being
\* deleted, and the page has every record added while the case ran whose write
\* did not fail and which found its bank before the harvest: the flushes by the
\* ticker and at the end lose none, and aggregateAndGenerate comes after them.
THEOREM PagesComplete == Spec => []PageIsComplete
<1>1. Init => PageInv
  <2> SUFFICES ASSUME Init PROVE PageInv
    OBVIOUS
  <2>1. DataTypes
    BY OnceInit DEF OnceInv
  <2>2. OnItsWay /\ MasterInv
    BY DEF Init, OnItsWay, MasterInv, Wanted
  <2> QED BY <2>1, <2>2 DEF PageInv
<1>2. OnceInv /\ OnceInv' /\ PageInv /\ [Next]_vars => PageInv'
  BY WayStep, MasterStep DEF OnceInv, PageInv
<1>3. PageInv => PageIsComplete
  <2> SUFFICES ASSUME PageInv PROVE PageIsComplete
    OBVIOUS
  <2>1. CASE del = "none"
    BY <2>1 DEF PageInv, MasterInv, PageIsComplete, Wanted
  <2>2. CASE del # "none"
    BY <2>2 DEF PageInv, MasterInv, PageIsComplete
  <2> QED BY <2>1, <2>2
<1> QED BY <1>1, <1>2, <1>3, OnceInvariant, PTL DEF Spec
-----------------------------------------------------------------------------
\* The count is 0 when no task is between its begin and its leave, and 1 when
\* there is one.
LEMMA CountFacts ==
  ASSUME CollectorInv
  PROVE  /\ IsFiniteSet(Active) /\ count \in Nat
         /\ count = 0 <=> Active = {}
         /\ \A t \in Active : count = 1 => Active = {t}
<1>1. IsFiniteSet(Active)
  BY AgentDataAssumption, FS_Subset DEF Active
<1>2. count \in Nat /\ (count = 0 <=> Active = {})
  BY <1>1, FS_CardinalityType, FS_EmptySet DEF CollectorInv
<1>3. ASSUME NEW t \in Active, count = 1
      PROVE  Active = {t}
  <2>1. \E x : Active = {x}
    BY <1>1, <1>3, FS_Singleton DEF CollectorInv
  <2> QED BY <1>3, <2>1
<1> QED BY <1>1, <1>2, <1>3

\* Steps of executeTask that do not begin or leave keep the count.
LEMMA CollectorSteps ==
  ASSUME CollectorInv, NEW t \in Task, TaskStep(t)
  PROVE  CollectorInv'
<1> USE DEF collectorVars
<1>0. pc \in [Task -> Label]
  BY DEF CollectorInv
<1>1. CASE TaskBegin(t)
  <2> DEFINE l == IF count = 0 THEN "discard" ELSE "run"
  <2>1. /\ pc[t] = "new" /\ count' = count + 1
        /\ overlap' = (overlap \/ (count = 0 /\ \E u \in Task : Ending(u)))
        /\ UNCHANGED <<running, series, wasted>>
        /\ Goto(t, l) /\ l \in Label
    BY <1>1 DEF TaskBegin, Label
  <2>2. /\ pc' \in [Task -> Label]
        /\ \A u \in Task : pc'[u] = IF u = t THEN l ELSE pc[u]
    BY <1>0, <2>1, GotoType
  <2>3. Active' = Active \cup {t} /\ t \notin Active
    BY <2>1, <2>2 DEF Active
  <2>4. count' = Cardinality(Active')
    BY <2>1, <2>3, CountFacts, FS_AddElement DEF CollectorInv
  <2>5. \A u \in series' : u \in Task /\ pc'[u] \in {"flush", "write"}
    BY <2>1, <2>2 DEF CollectorInv
  <2>6. CASE count = 0
    <3>1. overlap' \in BOOLEAN
      BY <2>1
    <3>2. ~overlap' => /\ wasted' = {} /\ series' = {}
                       /\ \A u \in Task : pc'[u] \notin {"stop", "collect"}
      BY <2>1, <2>2, <2>6 DEF Ending, CollectorInv
    <3>3. pc'[t] \in {"discard", "start"}
      BY <2>2, <2>6
    <3> QED BY <2>2, <2>4, <2>5, <3>1, <3>2, <3>3 DEF CollectorInv
  <2>7. CASE count # 0
    <3>1. overlap' = overlap /\ Active # {}
      BY <2>1, <2>7, CountFacts DEF CollectorInv
    <3>2. ~overlap => running \/ \E u \in Task : pc[u] \in {"discard", "start"}
      BY <3>1 DEF CollectorInv, Active
    <3>3. ~overlap => running' \/ \E u \in Task : pc'[u] \in {"discard", "start"}
      BY <2>1, <2>2, <3>2
    <3>4. ~overlap => /\ wasted' = {} /\ series' = {}
                      /\ \A u \in Task : pc'[u] \notin {"stop", "collect"}
      BY <2>1, <2>2, <2>7, <3>1 DEF CollectorInv
    <3> QED BY <2>2, <2>4, <2>5, <3>1, <3>3, <3>4 DEF CollectorInv
  <2> QED BY <2>6, <2>7
<1>2. CASE TaskLeave(t)
  <2> DEFINE l == IF LastOne THEN "stop" ELSE "flush"
  <2>1. /\ pc[t] = "leave" /\ count' = count - 1
        /\ UNCHANGED <<running, series, wasted, overlap>>
        /\ Goto(t, l) /\ l \in Label
    BY <1>2 DEF TaskLeave, Label
  <2>2. /\ pc' \in [Task -> Label]
        /\ \A u \in Task : pc'[u] = IF u = t THEN l ELSE pc[u]
    BY <1>0, <2>1, GotoType
  <2>3. Active' = Active \ {t} /\ t \in Active
    BY <2>1, <2>2 DEF Active
  <2>4. count' = Cardinality(Active')
    BY <2>1, <2>3, CountFacts, FS_RemoveElement DEF CollectorInv
  <2>5. \A u \in series' : u \in Task /\ pc'[u] \in {"flush", "write"}
    BY <2>1, <2>2 DEF CollectorInv
  <2>6. Active' # {} => l = "flush"
    BY <2>3, CountFacts DEF LastOne
  <2>7. \A u \in Task : pc'[u] \in {"discard", "start"} <=> pc[u] \in {"discard", "start"}
    BY <2>1, <2>2
  <2>8. \A u \in Task : pc'[u] \in {"run", "leave"} => pc[u] \in {"run", "leave"}
    BY <2>1, <2>2
  <2>9. Active' # {} => Active # {} /\ \A u \in Task :
           pc'[u] \in {"stop", "collect"} => pc[u] \in {"stop", "collect"}
    BY <2>2, <2>3, <2>6
  <2> HIDE DEF l
  <2> QED BY <2>1, <2>2, <2>4, <2>5, <2>7, <2>8, <2>9 DEF CollectorInv
<1>3. ASSUME NEW l \in Label, Goto(t, l), count' = count, overlap' = overlap,
             pc[t] \in {"discard", "start", "run", "leave"} <=>
               l \in {"discard", "start", "run", "leave"}
      PROVE  /\ pc' \in [Task -> Label]
             /\ \A u \in Task : pc'[u] = IF u = t THEN l ELSE pc[u]
             /\ Active' = Active
             /\ count' = Cardinality(Active')
             /\ overlap' \in BOOLEAN
  <2>1. /\ pc' \in [Task -> Label]
        /\ \A u \in Task : pc'[u] = IF u = t THEN l ELSE pc[u]
    BY <1>0, <1>3, GotoType
  <2>2. Active' = Active
    BY <1>3, <2>1 DEF Active
  <2> QED BY <1>3, <2>1, <2>2 DEF CollectorInv
<1>4. CASE TaskDiscard(t)
  <2>1. /\ pc[t] = "discard" /\ Goto(t, "start") /\ "start" \in Label
        /\ series' = {} /\ wasted' = wasted \cup series
        /\ UNCHANGED <<running, count, overlap>>
    BY <1>4 DEF TaskDiscard, Label
  <2>2. /\ pc' \in [Task -> Label] /\ Active' = Active
        /\ \A u \in Task : pc'[u] = IF u = t THEN "start" ELSE pc[u]
        /\ count' = Cardinality(Active') /\ overlap' \in BOOLEAN
    BY <2>1, <1>3
  <2>3. t \in Active
    BY <2>1 DEF Active
  <2>4. ~overlap => wasted' = {} /\ \A u \in Task : pc'[u] \notin {"stop", "collect"}
    BY <2>1, <2>2, <2>3 DEF CollectorInv
  <2> QED BY <2>1, <2>2, <2>4 DEF CollectorInv
<1>5. CASE TaskStart(t)
  <2>1. /\ pc[t] = "start" /\ Goto(t, "run") /\ "run" \in Label
        /\ running' /\ UNCHANGED <<series, wasted, count, overlap>>
    BY <1>5 DEF TaskStart, StartAutoCollect, Label
  <2>2. /\ pc' \in [Task -> Label] /\ Active' = Active
        /\ \A u \in Task : pc'[u] = IF u = t THEN "run" ELSE pc[u]
        /\ count' = Cardinality(Active') /\ overlap' \in BOOLEAN
    BY <2>1, <1>3
  <2> QED BY <2>1, <2>2 DEF CollectorInv
<1>6. CASE PartialFlush(t) \/ PartialWrite(t) \/ CaseReturns(t)
  <2> DEFINE l == IF pc'[t] = "leave" THEN "leave" ELSE "run"
  <2>1. /\ pc[t] = "run" /\ l \in Label
        /\ series' \in {series, {}} /\ UNCHANGED <<running, wasted, count, overlap>>
        /\ pc' = pc \/ Goto(t, "leave")
    BY <1>6 DEF PartialFlush, PartialWrite, CaseReturns, agentVars, Label
  <2>2. Goto(t, l)
    BY <1>0, <2>1 DEF Goto
  <2>3. /\ pc' \in [Task -> Label] /\ Active' = Active
        /\ \A u \in Task : pc'[u] = IF u = t THEN l ELSE pc[u]
        /\ count' = Cardinality(Active') /\ overlap' \in BOOLEAN
    BY <2>1, <2>2, <1>3
  <2>4. \A u \in Task :
          /\ pc'[u] \in {"run", "leave"} => pc[u] \in {"run", "leave"}
          /\ pc'[u] \in {"stop", "collect"} <=> pc[u] \in {"stop", "collect"}
          /\ pc'[u] \in {"discard", "start"} <=> pc[u] \in {"discard", "start"}
          /\ pc[u] \in {"flush", "write"} => pc'[u] \in {"flush", "write"}
    BY <2>1, <2>3
  <2> HIDE DEF l
  <2> QED BY <2>1, <2>3, <2>4 DEF CollectorInv
<1>7. CASE TaskStop(t)
  <2>1. /\ pc[t] = "stop" /\ Goto(t, "collect") /\ "collect" \in Label
        /\ UNCHANGED <<series, wasted, count, overlap>>
    BY <1>7 DEF TaskStop, Label
  <2>2. /\ pc' \in [Task -> Label] /\ Active' = Active
        /\ \A u \in Task : pc'[u] = IF u = t THEN "collect" ELSE pc[u]
        /\ count' = Cardinality(Active') /\ overlap' \in BOOLEAN
    BY <2>1, <1>3
  <2>3. ~overlap => Active = {} /\ \A u \in Task : pc'[u] \notin {"run", "leave"}
    BY <2>1, <2>2 DEF CollectorInv, Active
  <2> QED BY <2>1, <2>2, <2>3 DEF CollectorInv
<1>8. CASE TaskCollect(t)
  <2>1. /\ pc[t] = "collect" /\ Goto(t, "flush") /\ "flush" \in Label
        /\ series' = series \cup {t} /\ UNCHANGED <<running, wasted, count, overlap>>
    BY <1>8 DEF TaskCollect, Label
  <2>2. /\ pc' \in [Task -> Label] /\ Active' = Active
        /\ \A u \in Task : pc'[u] = IF u = t THEN "flush" ELSE pc[u]
        /\ count' = Cardinality(Active') /\ overlap' \in BOOLEAN
    BY <2>1, <1>3
  <2>3. ~overlap => Active = {} /\ \A u \in Task : pc'[u] \notin {"run", "leave"}
    BY <2>1, <2>2 DEF CollectorInv, Active
  <2> QED BY <2>1, <2>2, <2>3 DEF CollectorInv
<1>9. CASE FinalFlush(t) \/ FinalWrite(t)
  <2> DEFINE l == pc'[t]
  <2>1. /\ pc[t] \in {"flush", "write"} /\ l \in {"flush", "write", "done"} /\ Goto(t, l)
        /\ series' \in {series, {}} /\ UNCHANGED <<running, wasted, count, overlap>>
        /\ l = "done" => series' = {}
    BY <1>0, <1>9 DEF FinalFlush, FinalWrite, Goto
  <2>2. /\ pc' \in [Task -> Label] /\ Active' = Active
        /\ \A u \in Task : pc'[u] = IF u = t THEN l ELSE pc[u]
        /\ count' = Cardinality(Active') /\ overlap' \in BOOLEAN
    <3> HIDE DEF l
    <3>1. l \in Label
      BY <2>1 DEF Label
    <3>2. pc[t] \in {"discard", "start", "run", "leave"} <=>
            l \in {"discard", "start", "run", "leave"}
      BY <2>1
    <3> QED BY <2>1, <3>1, <3>2, <1>3
  <2>3. \A u \in Task :
          /\ pc'[u] \in {"run", "leave"} => pc[u] \in {"run", "leave"}
          /\ pc'[u] \in {"stop", "collect"} <=> pc[u] \in {"stop", "collect"}
          /\ pc'[u] \in {"discard", "start"} <=> pc[u] \in {"discard", "start"}
    BY <2>1, <2>2
  <2>4. \A u \in series' : u \in Task /\ pc'[u] \in {"flush", "write"}
    BY <2>1, <2>2 DEF CollectorInv
  <2> HIDE DEF l
  <2> QED BY <2>1, <2>2, <2>3, <2>4 DEF CollectorInv
<1> QED BY <1>1, <1>2, <1>4, <1>5, <1>6, <1>7, <1>8, <1>9 DEF TaskStep

\* While a case runs the collector is on or about to be, and no final point of a
\* task is thrown away, as long as no task begins while the last one is ending:
\* activeTaskCount is only decremented before StopAutoCollect, not with it.
THEOREM CollectorFollows == Spec => []CollectorFollowsTasks
<1>1. Init => CollectorInv
  <2> SUFFICES ASSUME Init PROVE CollectorInv
    OBVIOUS
  <2>1. Active = {} /\ pc \in [Task -> Label]
    BY DEF Init, Active, Label
  <2>2. /\ count = Cardinality(Active) /\ series = {} /\ overlap = FALSE /\ wasted = {}
        /\ \A t \in Task : pc[t] = "new"
    BY <2>1, FS_EmptySet DEF Init, CollectorInit
  <2> QED BY <2>1, <2>2 DEF CollectorInv
<1>2. CollectorInv /\ [Next]_vars => CollectorInv'
  <2> SUFFICES ASSUME CollectorInv, [Next]_vars PROVE CollectorInv'
    OBVIOUS
  <2> USE DEF agentVars, collectorVars
  <2>1. ASSUME UNCHANGED <<pc, count, series, overlap, wasted, running>>
        PROVE  CollectorInv'
    BY <2>1 DEF CollectorInv, Active
  <2>2. ASSUME NEW r \in Record, RecordEnd(r) \/ RecordAdd(r)
        PROVE  CollectorInv'
    BY <2>1, <2>2 DEF RecordEnd, RecordAdd
  <2>3. ASSUME NEW g \in DOMAIN collector, Collector(g)
        PROVE  CollectorInv'
    BY <2>1, <2>3 DEF Collector, CollectorTick, CollectorCollect, CollectorStop
  <2>4. ASSUME Aggregate \/ Generate \/ Regenerate \/ DeleteKeys \/ DeletePage \/ DeleteEntry
        PROVE  CollectorInv'
    BY <2>1, <2>4 DEF Aggregate, Generate, Regenerate, DeleteKeys, DeletePage, DeleteEntry
  <2>5. ASSUME UNCHANGED vars
        PROVE  CollectorInv'
    BY <2>1, <2>5 DEF vars
  <2> QED BY <2>2, <2>3, <2>4, <2>5, CollectorSteps DEF Next
<1>3. CollectorInv => CollectorFollowsTasks
  BY DEF CollectorInv, CollectorFollowsTasks
<1> QED BY <1>1, <1>2, <1>3, PTL DEF Spec
=============================================================================
