--------------------------- MODULE CaseFileProofs ---------------------------
(***************************************************************************)
(* TLAPS proofs about module CaseFileRun: what the cases of a file share,  *)
(* what the report holds and what the exit status means, for every file,   *)
(* every number of rounds and every order in which the lines start, fail   *)
(* and end.                                                                *)
(***************************************************************************)
EXTENDS CaseFileRun, FiniteSetTheorems, TLAPS

\* The number of the task the main goroutine launches next.
NextTask == round * Len(lines) + at - 1

\* A line that lets the main goroutine go on: control lines do not count.
Passed(line) == line.control \/ line.bg

\* The prefixes of lines i < j with no foreground line from i to j - 1 agree,
\* except that the first may be empty; and the prefix that is checked next
\* agrees with all lines that no foreground line has closed.
LinesInv ==
  ~parsed.err =>
    /\ \A i, j \in 1 .. Len(lines) :
         /\ i < j
         /\ ~lines[i].control /\ ~lines[j].control
         /\ \A k \in i .. j - 1 : Passed(lines[k])
         => lines[i].prefix \in {NoPrefix, lines[j].prefix}
    /\ \A i \in 1 .. Len(lines) :
         ~lines[i].control /\ (\A k \in i .. Len(lines) : Passed(lines[k]))
         => lines[i].prefix \in {NoPrefix, parsed.prefix}

\* Where the main goroutine is in the file; no task exists before the first round.
MainInv ==
  /\ Len(lines) <= Len(file)
  /\ main = "parse" =>
       /\ at <= Len(file) + 1 /\ (~parsed.err => Len(lines) < at)
       /\ bgTasks = <<>>
       /\ \A t \in Task : task[t] = "none"
  /\ main # "parse" => at <= Len(lines) + 1
  /\ main \notin {"parse", "exit"} => ~parsed.err /\ lines # <<>>
  /\ parsed.err \/ lines = <<>> => \A t \in Task : task[t] = "none"
  /\ status = "none" <=> main # "exit"

\* Tasks are launched in order, and those that are active in the current round.
ActiveInv ==
  \A t \in Task :
    /\ task[t] # "none" => t < NextTask
    /\ Active(t) => round * Len(lines) <= t

\* A task whose result has not been received is still to be waited for.
Awaited(t) ==
  \E i \in 1 .. Len(bgTasks) : bgTasks[i] = t /\ (main = "line" \/ i >= waitAt)

WaitInv ==
  ~abort =>
    /\ main \in {"wait", "roundwait"} /\ waitAt > 1 => task[bgTasks[1]] = "received"
    /\ main \in {"line", "wait", "roundwait"} =>
         \A t \in Task : task[t] \notin {"none", "received"} => Awaited(t)
    /\ main \in {"clean", "page"} =>
         \A t \in Task : task[t] \in {"none", "received"}

\* After a breaking failure a wait starts with a result that is already received.
AbortInv ==
  abort =>
    /\ main \notin {"parse", "roundwait"}
    /\ bgTasks # <<>> /\ task[bgTasks[1]] = "received"
    /\ main = "wait" => waitAt = 1
    /\ mode = "standalone" => main = "exit"
    /\ status # "ok"

\* A breaking failure that was received is noted.
BreakInv == \A t \in Task : task[t] = "received" /\ Breaks(t) => abort

\* No foreground stress line lies between two active ones, or between an active
\* one and the next line.
PairInv ==
  /\ \A t, u \in Task :
       Active(t) /\ Active(u) /\ t < u /\ ~LineOf(u).control =>
         \A v \in t .. u - 1 : Passed(LineOf(v))
  /\ main = "line" /\ ~abort =>
       \A t \in Task : Active(t) => \A v \in t .. NextTask - 1 : Passed(LineOf(v))

\* The records: where they may be, and what the report has of them.
DataInv ==
  /\ \A t \in Task :
       /\ tracer[t] # {} => task[t] \in {"run", "stop", "flush"}
       /\ batch[t] # {} => task[t] \in {"run", "stop", "store"}
       /\ tracer[t] # {} \/ batch[t] # {} => Measured(t)
  /\ all = redis \cup refused
  /\ main = "page" /\ ~abort => cleaned = all
  /\ main # "exit" => page = NoPage

IInv ==
  /\ TypeOK /\ LinesInv /\ MainInv /\ ActiveInv /\ WaitInv /\ AbortInv /\ BreakInv
  /\ PairInv /\ DataInv /\ ReportComplete /\ StatusIsHonest
-----------------------------------------------------------------------------
(* The numbers of lines, rounds and tasks.                                 *)

USE CaseFileRunAssumption, SetVarAssumption

LEMMA RoundsType == Rounds \in Nat /\ Rounds >= 1
  BY DEF Rounds

\* MaxLen bounds the length of every file.
LEMMA MaxLenBound == MaxLen \in Nat /\ \A f \in Files : Len(f) \in Nat /\ Len(f) <= MaxLen
<1>1. PICK g \in Files : \A f \in Files : Len(f) <= Len(g)
  OBVIOUS
<1>2. \A f \in Files : Len(f) \in Nat
  OBVIOUS
<1>3. MaxLen \in {Len(f) : f \in Files} /\ \A f \in Files : Len(f) <= MaxLen
  BY <1>1 DEF MaxLen
<1> QED BY <1>2, <1>3

\* A file has at most MaxLen lines, so the tasks of a round are tasks.
LEMMA NextTaskType ==
  ASSUME TypeOK, MainInv, main = "line", at <= Len(lines)
  PROVE  NextTask \in Task
<1> DEFINE n == Len(lines)
<1>1. /\ n \in Nat /\ n <= MaxLen /\ MaxLen \in Nat
      /\ round \in 0 .. Rounds - 1 /\ at \in Nat /\ at >= 1 /\ Rounds \in Nat
  BY MaxLenBound, RoundsType DEF TypeOK, MainInv, lines
<1> HIDE DEF n
<1>2. round * n + at - 1 \in Nat
  BY <1>1
<1>3. round * n + n <= Rounds * n
  BY <1>1
<1>4. Rounds * n <= Rounds * MaxLen
  BY <1>1
<1>5. at <= n
  BY DEF n
<1>6. /\ round * n \in Int /\ Rounds * n \in Int /\ Rounds * MaxLen \in Int
  BY <1>1
<1>7. round * n + at - 1 <= Rounds * MaxLen - 1
  BY <1>1, <1>3, <1>4, <1>5, <1>6
<1> QED BY <1>1, <1>2, <1>6, <1>7 DEF NextTask, Task, n

\* The tasks of the current round, by their lines.
LEMMA LineNumbers ==
  ASSUME NEW n \in Nat, n > 0, NEW r \in Nat, NEW t \in Int, r * n <= t, t < r * n + n
  PROVE  t % n = t - r * n /\ t \div n = r
<1>1. /\ t \div n \in Int /\ t % n \in 0 .. n - 1
      /\ t % n = t - n * (t \div n)
  OBVIOUS
<1>2. t \div n = r
  <2> DEFINE q == t \div n
  <2>1. q \in Int /\ n * q <= t /\ t < n * q + n
    BY <1>1
  <2> HIDE DEF q
  <2>2. q <= r
    <3>1. SUFFICES ASSUME q >= r + 1 PROVE FALSE
      BY <2>1
    <3>2. n * q >= n * (r + 1)
      BY <3>1, <2>1
    <3>3. n * (r + 1) = r * n + n
      OBVIOUS
    <3> QED BY <3>2, <3>3, <2>1
  <2>3. q >= r
    <3>1. SUFFICES ASSUME r >= q + 1 PROVE FALSE
      BY <2>1
    <3>2. n * r >= n * (q + 1)
      BY <3>1, <2>1
    <3>3. n * (q + 1) = n * q + n /\ n * r = r * n
      BY <2>1
    <3> QED BY <3>2, <3>3, <2>1
  <2>4. q = r
    BY <2>1, <2>2, <2>3
  <2> QED BY <2>4 DEF q
<1> QED BY <1>1, <1>2

-----------------------------------------------------------------------------
(* Parsing.                                                                *)

Parsed == [lines : Seq(Line), prefix : Prefix, err : BOOLEAN]

\* One line of the file: at most one more line of the case.
LEMMA ParseStepType ==
  ASSUME NEW f \in Parsed, NEW raw \in RawLine
  PROVE  /\ ParseStep(f, raw) \in Parsed
         /\ Len(ParseStep(f, raw).lines) \in {Len(f.lines), Len(f.lines) + 1}
<1>1. Substitute(raw.prefix) \in Prefix /\ NoPrefix \in Prefix
  BY DEF Substitute, RawLine, Prefix
<1>2. /\ f.lines \in Seq(Line) /\ f.prefix \in Prefix /\ f.err \in BOOLEAN
      /\ raw.bg \in BOOLEAN /\ raw.errorBreak \in BOOLEAN
  BY DEF Parsed, RawLine
<1>3. CASE f.err \/ raw.kind = "empty"
  BY <1>3 DEF ParseStep
<1>4. CASE ~(f.err \/ raw.kind = "empty") /\ ~raw.ok
  BY <1>4 DEF ParseStep, Parsed
<1>5. CASE ~(f.err \/ raw.kind = "empty") /\ raw.ok /\ raw.kind = "control"
  <2> DEFINE l == [control |-> TRUE, bg |-> raw.bg, errorBreak |-> raw.errorBreak,
                   prefix |-> NoPrefix]
  <2>1. l \in Line
    BY <1>1, <1>2 DEF Line
  <2>2. ParseStep(f, raw) = [f EXCEPT !.lines = Append(@, l)]
    BY <1>5 DEF ParseStep, ParseControlLine
  <2> HIDE DEF l
  <2>3. Append(f.lines, l) \in Seq(Line) /\ Len(Append(f.lines, l)) = Len(f.lines) + 1
    BY <1>2, <2>1
  <2> QED BY <2>2, <2>3 DEF Parsed
<1>6. CASE ~(f.err \/ raw.kind = "empty") /\ raw.ok /\ raw.kind # "control"
  <2> DEFINE p == Substitute(raw.prefix)
             l == [control |-> FALSE, bg |-> raw.bg, errorBreak |-> raw.errorBreak,
                   prefix |-> p]
  <2>1. l \in Line
    BY <1>1, <1>2 DEF Line
  <2>2. ParseStep(f, raw) =
          [lines |-> Append(f.lines, l), prefix |-> IF raw.bg THEN p ELSE NoPrefix,
           err |-> ~PrefixChecked(f.prefix, p)]
    BY <1>6 DEF ParseStep, ParseLine
  <2> HIDE DEF l
  <2>3. Append(f.lines, l) \in Seq(Line) /\ Len(Append(f.lines, l)) = Len(f.lines) + 1
    BY <1>2, <2>1
  <2>4. (IF raw.bg THEN p ELSE NoPrefix) \in Prefix /\ (~PrefixChecked(f.prefix, p)) \in BOOLEAN
    BY <1>1 DEF PrefixChecked
  <2> QED BY <2>2, <2>3, <2>4 DEF Parsed
<1> QED BY <1>3, <1>4, <1>5, <1>6

\* The next line of the file keeps LinesInv.
LEMMA ParseLines ==
  ASSUME TypeOK, LinesInv, ParseLineOfFile
  PROVE  LinesInv'
<1> DEFINE raw == file[at]
           s == lines
<1>0. /\ raw \in RawLine /\ parsed \in Parsed /\ s \in Seq(Line)
      /\ ~parsed.err /\ parsed' = ParseStep(parsed, raw)
  BY DEF TypeOK, ParseLineOfFile, Parsed, lines
<1>1. SUFFICES ASSUME ~parsed'.err, parsed'.lines # s
               PROVE  LinesInv'
  <2>1. ASSUME ~parsed'.err, parsed'.lines = s PROVE parsed'.prefix = parsed.prefix
    <3>1. CASE raw.kind = "empty" \/ ~raw.ok
      BY <3>1, <2>1, <1>0 DEF ParseStep, Parsed
    <3>2. CASE ~(raw.kind = "empty" \/ ~raw.ok)
      <4>1. \A l : Append(s, l) # s
        <5>1. \A l : Len(Append(s, l)) = Len(s) + 1
          BY <1>0
        <5>2. Len(s) \in Nat
          BY <1>0
        <5> HIDE DEF s
        <5> QED BY <5>1, <5>2
      <4>2. \E l : parsed'.lines = Append(s, l)
        BY <3>2, <1>0 DEF ParseStep, ParseLine, ParseControlLine, lines, Parsed
      <4> QED BY <4>1, <4>2, <2>1
    <3> QED BY <3>1, <3>2
  <2>2. ASSUME ~parsed'.err, parsed'.lines = s PROVE LinesInv'
    BY <2>1, <2>2, <1>0 DEF LinesInv, lines
  <2> QED BY <2>2 DEF LinesInv
<1>2. PICK l \in Line :
        /\ parsed'.lines = Append(s, l)
        /\ \/ l.control /\ parsed'.prefix = parsed.prefix
           \/ /\ ~l.control /\ parsed.prefix \in {NoPrefix, l.prefix}
              /\ parsed'.prefix = IF l.bg THEN l.prefix ELSE NoPrefix
  <2>1. ~(raw.kind = "empty" \/ ~raw.ok)
    BY <1>1, <1>0 DEF ParseStep, lines, Parsed
  <2>2. CASE raw.kind = "control"
    <3> DEFINE l == [control |-> TRUE, bg |-> raw.bg, errorBreak |-> raw.errorBreak,
                     prefix |-> NoPrefix]
    <3>1. l \in Line
      BY <1>0 DEF Line, Prefix, RawLine
    <3>2. parsed' = [parsed EXCEPT !.lines = Append(@, l)]
      BY <1>0, <2>1, <2>2 DEF ParseStep, ParseControlLine
    <3>3. l.control
      OBVIOUS
    <3> HIDE DEF l
    <3> QED BY <3>1, <3>2, <3>3, <1>0 DEF Parsed, lines
  <2>3. CASE raw.kind # "control"
    <3> DEFINE p == Substitute(raw.prefix)
               l == [control |-> FALSE, bg |-> raw.bg, errorBreak |-> raw.errorBreak,
                     prefix |-> p]
    <3>1. l \in Line
      BY <1>0 DEF Line, RawLine, Prefix, Substitute
    <3>2. parsed' =
            [lines |-> Append(s, l), prefix |-> IF raw.bg THEN p ELSE NoPrefix,
             err |-> ~PrefixChecked(parsed.prefix, p)]
      BY <1>0, <2>1, <2>3 DEF ParseStep, ParseLine, lines
    <3>3. ~l.control /\ l.bg = raw.bg /\ l.prefix = p
      OBVIOUS
    <3>4. parsed.prefix \in {NoPrefix, p}
      BY <3>2, <1>1 DEF PrefixChecked
    <3> HIDE DEF l, p
    <3> QED BY <3>1, <3>2, <3>3, <3>4
  <2> QED BY <2>2, <2>3
<1> DEFINE n == Len(s)
           s2 == Append(s, l)
<1>3. /\ n \in Nat /\ Len(s2) = n + 1 /\ s2[n + 1] = l
      /\ \A k \in 1 .. n : s2[k] = s[k] /\ s[k] \in Line
  BY <1>0
<1>4. /\ \A i, j \in 1 .. n :
            /\ i < j
            /\ ~s[i].control /\ ~s[j].control
            /\ \A k \in i .. j - 1 : Passed(s[k])
            => s[i].prefix \in {NoPrefix, s[j].prefix}
      /\ \A i \in 1 .. n :
            ~s[i].control /\ (\A k \in i .. n : Passed(s[k]))
            => s[i].prefix \in {NoPrefix, parsed.prefix}
  BY <1>0 DEF LinesInv
<1> HIDE DEF s, n, s2
<1>5. ASSUME NEW i \in 1 .. n + 1, NEW j \in 1 .. n + 1, i < j,
             ~s2[i].control, ~s2[j].control, \A k \in i .. j - 1 : Passed(s2[k])
      PROVE  s2[i].prefix \in {NoPrefix, s2[j].prefix}
  <2>1. i \in 1 .. n /\ s2[i] = s[i]
    BY <1>3, <1>5
  <2>2. \A k \in i .. j - 1 : Passed(s[k])
    BY <1>3, <1>5
  <2>3. CASE j \in 1 .. n
    BY <1>3, <1>4, <1>5, <2>1, <2>2, <2>3
  <2>4. CASE j = n + 1
    <3>1. s[i].prefix \in {NoPrefix, parsed.prefix}
      BY <1>3, <1>4, <1>5, <2>1, <2>2, <2>4
    <3>2. ~l.control /\ s2[j].prefix = l.prefix
      BY <1>3, <1>5, <2>4
    <3> QED BY <3>1, <3>2, <2>1, <1>2
  <2> QED BY <2>3, <2>4, <1>3
<1>6. ASSUME NEW i \in 1 .. n + 1, ~s2[i].control, \A k \in i .. n + 1 : Passed(s2[k])
      PROVE  s2[i].prefix \in {NoPrefix, parsed'.prefix}
  <2>1. Passed(l)
    BY <1>3, <1>6
  <2>2. CASE i = n + 1
    BY <2>1, <2>2, <1>2, <1>3, <1>6 DEF Passed
  <2>3. CASE i \in 1 .. n
    <3>1. \A k \in i .. n : Passed(s[k])
      BY <1>3, <1>6, <2>3
    <3>2. s[i].prefix \in {NoPrefix, parsed.prefix}
      BY <3>1, <1>3, <1>4, <1>6, <2>3
    <3> QED BY <3>2, <2>1, <2>3, <1>2, <1>3 DEF Passed
  <2> QED BY <2>2, <2>3, <1>3
<1>7. lines' = s2
  BY <1>2 DEF lines, s2
<1> QED BY <1>3, <1>5, <1>6, <1>7 DEF LinesInv

-----------------------------------------------------------------------------
(* The goroutines of the lines.                                            *)

\* Where the records may be while the tasks are where they are.
RecordInv ==
  /\ \A t \in Task :
       /\ tracer[t] # {} => task[t] \in {"run", "stop", "flush"}
       /\ batch[t] # {} => task[t] \in {"run", "stop", "store"}
       /\ tracer[t] # {} \/ batch[t] # {} => Measured(t)
  /\ all = redis \cup refused

\* A step of an active task leaves it active or done; what the invariant says of
\* the main goroutine stays.
LEMMA TaskFrame ==
  ASSUME IInv, TypeOK', RecordInv', NEW t \in Task, Active(t), status = "none",
         UNCHANGED <<mode, file, parsed, mainVars, endVars>>,
         task'[t] \notin {"none", "received"},
         \A u \in Task \ {t} : task'[u] = task[u] /\ failed'[u] = failed[u]
  PROVE  IInv'
<1> USE DEF IInv, mainVars, endVars
<1>1. /\ \A u \in Task : Active(u)' => Active(u)
      /\ \A u \in Task : task'[u] = "none" <=> task[u] = "none"
      /\ \A u \in Task : task'[u] = "received" <=> task[u] = "received"
      /\ \A u \in Task : task[u] = "received" => failed'[u] = failed[u]
      /\ \A u \in Task : LineOf(u)' = LineOf(u)
      /\ \A u : Passed(LineOf(u))' = Passed(LineOf(u))
      /\ lines' = lines /\ NextTask' = NextTask
  BY DEF Active, LineOf, lines, Passed, NextTask
<1>2. main \in {"clean", "page"} => abort
  BY DEF WaitInv, Active
<1>3. main \notin {"parse", "exit"}
  BY DEF MainInv, Active
<1>4. LinesInv'
  BY <1>1 DEF LinesInv, Passed
<1>5. MainInv'
  BY <1>1 DEF MainInv
<1>6. ActiveInv'
  BY <1>1 DEF ActiveInv
<1>7. WaitInv'
  <2>1. waitAt > 1 => bgTasks[1] \in Task
    BY DEF TypeOK
  <2> QED BY <1>1, <1>2, <2>1 DEF WaitInv, Awaited
<1>8. AbortInv'
  <2>1. bgTasks # <<>> => bgTasks[1] \in Task
    BY DEF TypeOK
  <2> QED BY <1>1, <2>1 DEF AbortInv
<1>9. BreakInv'
  BY <1>1 DEF BreakInv, Breaks
<1>10. PairInv'
  BY <1>1 DEF PairInv
<1>11. DataInv'
  BY <1>2, <1>3 DEF DataInv, RecordInv
<1>12. ReportComplete'
  BY <1>3 DEF ReportComplete, DataInv
<1>13. StatusIsHonest'
  BY DEF StatusIsHonest
<1> QED BY <1>4, <1>5, <1>6, <1>7, <1>8, <1>9, <1>10, <1>11, <1>12, <1>13

\* There are finitely many records.
LEMMA MadeFinite ==
  ASSUME TypeOK
  PROVE  Cardinality(Made) \in Nat
<1>1. Rounds \in Nat /\ MaxLen \in Nat
  BY RoundsType, MaxLenBound
<1>2. Rounds * MaxLen - 1 \in Int
  BY <1>1
<1>3. IsFiniteSet(1 .. MaxRecords) /\ IsFiniteSet(Task)
  BY <1>2, FS_Interval DEF Task
<1>4. IsFiniteSet(TaskRecords)
  BY <1>3, FS_Product DEF TaskRecords
<1>5. Made \subseteq TaskRecords
  BY DEF Made, TypeOK
<1> QED BY <1>4, <1>5, FS_Subset, FS_CardinalityType

LEMMA TaskInv ==
  ASSUME IInv, NEW t \in Task, status = "none",
         TaskEnds(t) \/ TickFlush(t) \/ TaskRecord(t)
  PROVE  IInv'
<1> USE DEF mainVars, dataVars, endVars, Goto
<1> DEFINE Kept == /\ UNCHANGED <<mode, file, parsed, mainVars, endVars>>
                   /\ task'[t] \notin {"none", "received"}
                   /\ \A u \in Task \ {t} : task'[u] = task[u] /\ failed'[u] = failed[u]
<1>0. TypeOK /\ RecordInv
  BY DEF IInv, DataInv, RecordInv
<1>a. /\ task \in [Task -> {"none", "begin", "run", "stop", "flush", "store", "done",
                             "received"}]
      /\ failed \in [Task -> BOOLEAN]
      /\ tracer \in [Task -> SUBSET TaskRecords]
      /\ batch \in [Task -> SUBSET TaskRecords]
      /\ redis \subseteq TaskRecords /\ refused \subseteq TaskRecords
      /\ all \subseteq TaskRecords
  BY <1>0 DEF TypeOK
<1>b. ASSUME UNCHANGED <<mode, parsed>>
      PROVE  \A u \in Task : Measured(u)' <=> Measured(u)
  BY <1>b DEF Measured, LineOf, lines
<1>1. CASE TaskBegin(t)
  <2>1. Kept /\ Active(t)
    BY <1>1, <1>a DEF TaskBegin, Active
  <2>2. TypeOK'
    BY <1>1, <1>0 DEF TypeOK, TaskBegin
  <2>3. RecordInv'
    BY <1>1, <1>0, <1>a, <1>b, <2>1 DEF RecordInv, TaskBegin
  <2> QED BY <2>1, <2>2, <2>3, TaskFrame
<1>2. CASE TickStore(t)
  <2>1. Kept /\ Active(t)
    BY <1>2, <1>a DEF TickStore, Active
  <2>2. TypeOK'
    BY <1>2, <1>0, <1>a DEF TypeOK, TickStore, Store
  <2>3. RecordInv'
    BY <1>2, <1>0, <1>a, <1>b, <2>1 DEF RecordInv, TickStore, Store
  <2> QED BY <2>1, <2>2, <2>3, TaskFrame
<1>3. ASSUME NEW err \in BOOLEAN, TaskReturn(t, err)
      PROVE  IInv'
  <2>1. Kept /\ Active(t)
    BY <1>3, <1>a DEF TaskReturn, Active
  <2>2. TypeOK'
    BY <1>3, <1>0 DEF TypeOK, TaskReturn
  <2>3. RecordInv'
    BY <1>3, <1>0, <1>a, <1>b, <2>1 DEF RecordInv, TaskReturn
  <2> QED BY <2>1, <2>2, <2>3, TaskFrame
<1>4. CASE TaskStop(t)
  <2>1. Kept /\ Active(t)
    BY <1>4, <1>a DEF TaskStop, Active
  <2>2. TypeOK'
    BY <1>4, <1>0 DEF TypeOK, TaskStop
  <2>3. RecordInv'
    BY <1>4, <1>0, <1>a, <1>b, <2>1 DEF RecordInv, TaskStop
  <2> QED BY <2>1, <2>2, <2>3, TaskFrame
<1>5. CASE TaskFlush(t)
  <2>1. Kept /\ Active(t)
    BY <1>5, <1>a DEF TaskFlush, Active
  <2>2. TypeOK'
    BY <1>5, <1>0, <1>a DEF TypeOK, TaskFlush, FinalFlush, Flush
  <2>3. RecordInv'
    BY <1>5, <1>0, <1>a, <1>b, <2>1 DEF RecordInv, TaskFlush, FinalFlush, Flush
  <2> QED BY <2>1, <2>2, <2>3, TaskFrame
<1>6. CASE TaskStore(t)
  <2>1. Kept /\ Active(t)
    BY <1>6, <1>a DEF TaskStore, Active
  <2>2. TypeOK'
    BY <1>6, <1>0, <1>a DEF TypeOK, TaskStore, Store
  <2>3. RecordInv'
    BY <1>6, <1>0, <1>a, <1>b, <2>1 DEF RecordInv, TaskStore, Store
  <2> QED BY <2>1, <2>2, <2>3, TaskFrame
<1>7. CASE TickFlush(t)
  <2>1. Kept /\ Active(t)
    BY <1>7, <1>a DEF TickFlush, Active
  <2>2. TypeOK'
    BY <1>7, <1>0, <1>a DEF TypeOK, TickFlush, Flush
  <2>3. RecordInv'
    BY <1>7, <1>0, <1>a, <1>b, <2>1 DEF RecordInv, TickFlush, Flush
  <2> QED BY <2>1, <2>2, <2>3, TaskFrame
<1>8. CASE TaskRecord(t)
  <2>1. Kept /\ Active(t)
    BY <1>8, <1>a DEF TaskRecord, Active
  <2> DEFINE k == Cardinality(Made) + 1
  <2>2. k \in 1 .. MaxRecords /\ tracer' = [tracer EXCEPT ![t] = @ \cup {<<k, t>>}]
    BY <1>8, <1>0, MadeFinite DEF TaskRecord
  <2> HIDE DEF k
  <2>3. <<k, t>> \in TaskRecords
    BY <2>2 DEF TaskRecords
  <2>4. tracer' \in [Task -> SUBSET TaskRecords]
    BY <2>2, <2>3, <1>a
  <2>5. TypeOK'
    BY <1>8, <1>0, <2>4 DEF TypeOK, TaskRecord
  <2>6. RecordInv'
    BY <1>8, <1>0, <1>a, <1>b, <2>1, <2>2 DEF RecordInv, TaskRecord
  <2> QED BY <2>1, <2>5, <2>6, TaskFrame
<1> QED BY <1>1, <1>2, <1>3, <1>4, <1>5, <1>6, <1>7, <1>8 DEF TaskEnds

-----------------------------------------------------------------------------
(* The main goroutine.                                                     *)

\* Numbers the steps of the main goroutine rest on.
LEMMA SizeFacts ==
  ASSUME TypeOK, MainInv
  PROVE  /\ lines \in Seq(Line) /\ Len(lines) \in Nat
         /\ Len(file) \in Nat /\ Len(lines) <= Len(file) /\ Len(file) <= MaxLen
         /\ MaxLen \in Nat /\ Rounds \in Nat
         /\ round \in Nat /\ at \in Nat /\ at >= 1 /\ NextTask \in Nat
         /\ round * Len(lines) \in Nat
         /\ lines # <<>> => Len(lines) > 0
<1>1. /\ lines \in Seq(Line) /\ Len(lines) \in Nat
      /\ Len(file) \in Nat /\ Len(lines) <= Len(file) /\ Len(file) <= MaxLen
      /\ MaxLen \in Nat /\ Rounds \in Nat
      /\ round \in Nat /\ at \in Nat /\ at >= 1
      /\ lines # <<>> => Len(lines) > 0
  BY MaxLenBound, RoundsType DEF TypeOK, MainInv, lines
<1>2. round * Len(lines) \in Nat
  BY <1>1
<1> QED BY <1>1, <1>2 DEF NextTask

\* While the file is parsed nothing has started.
LEMMA ParseLineInv ==
  ASSUME IInv, status = "none", ParseLineOfFile
  PROVE  IInv'
<1> USE DEF IInv
<1>0. /\ main = "parse" /\ ~parsed.err /\ at <= Len(file)
      /\ parsed' = ParseStep(parsed, file[at]) /\ at' = at + 1
      /\ UNCHANGED <<mode, file, main, round, bgTasks, waitAt, abort, task, failed, online,
                     dataVars, endVars>>
  BY DEF ParseLineOfFile
<1>1. /\ file[at] \in RawLine /\ parsed \in Parsed
      /\ Len(file) \in Nat /\ at \in Nat
  BY <1>0, SizeFacts DEF TypeOK, Parsed
<1>2. parsed' \in Parsed /\ Len(lines') \in {Len(lines), Len(lines) + 1}
  BY <1>0, <1>1, ParseStepType DEF lines
<1>3. LinesInv'
  BY ParseLines
<1>a. at' \in 1 .. MaxLen + 1
  BY <1>0, SizeFacts
<1>4. TypeOK'
  BY <1>0, <1>2, <1>a DEF TypeOK, Parsed, dataVars, endVars
<1>5. /\ \A t \in Task : task[t] = "none" /\ task'[t] = "none"
      /\ bgTasks = <<>> /\ Len(lines) \in Nat
  BY <1>0, SizeFacts DEF MainInv
<1>6. MainInv'
  BY <1>0, <1>1, <1>2, <1>5 DEF MainInv, endVars
<1>7. ActiveInv' /\ WaitInv' /\ AbortInv' /\ BreakInv' /\ PairInv'
  BY <1>0, <1>5 DEF ActiveInv, WaitInv, AbortInv, BreakInv, PairInv, Active
<1>8. DataInv'
  BY <1>0, <1>5 DEF DataInv, dataVars, endVars
<1>9. ReportComplete' /\ StatusIsHonest'
  BY <1>0 DEF ReportComplete, StatusIsHonest, DataInv, endVars
<1> QED BY <1>3, <1>4, <1>6, <1>7, <1>8, <1>9

LEMMA ParseOverInv ==
  ASSUME IInv, status = "none", ParseOver
  PROVE  IInv'
<1> USE DEF IInv
<1>0. /\ main = "parse" /\ at' = 1
      /\ UNCHANGED <<mode, file, parsed, round, bgTasks, waitAt, abort, task, failed, online,
                     dataVars, cleaned, page>>
      /\ \/ (parsed.err \/ lines = <<>>) /\ main' = "exit" /\ status' \in {"ok", "failed"}
         \/ ~parsed.err /\ lines # <<>> /\ main' = "line" /\ status' = "none"
  BY DEF ParseOver, Exit
<1>1. /\ \A t \in Task : task[t] = "none" /\ task'[t] = "none"
      /\ bgTasks = <<>> /\ ~abort
  BY <1>0 DEF MainInv, AbortInv
<1>2. LinesInv' /\ lines' = lines
  BY <1>0 DEF LinesInv, lines
<1>3. TypeOK'
  BY <1>0, SizeFacts DEF TypeOK, dataVars
<1>4. MainInv'
  BY <1>0, <1>1, <1>2, SizeFacts DEF MainInv
<1>5. ActiveInv' /\ WaitInv' /\ AbortInv' /\ BreakInv' /\ PairInv'
  BY <1>0, <1>1 DEF ActiveInv, WaitInv, AbortInv, BreakInv, PairInv, Active
<1>6. DataInv'
  BY <1>0, <1>1 DEF DataInv, dataVars
<1>7. ReportComplete' /\ StatusIsHonest'
  BY <1>0, <1>1 DEF ReportComplete, StatusIsHonest, DataInv, Active
<1> QED BY <1>2, <1>3, <1>4, <1>5, <1>6, <1>7

\* The line the main goroutine is at.
LEMMA NextLine ==
  ASSUME IInv, main = "line", at <= Len(lines)
  PROVE  LineOf(NextTask) = lines[at]
<1>1. /\ Len(lines) \in Nat /\ round \in Nat /\ at \in Nat /\ at >= 1 /\ NextTask \in Nat
      /\ round * Len(lines) \in Nat /\ Len(lines) > 0
  BY SizeFacts DEF IInv, MainInv
<1>2. NextTask = round * Len(lines) + at - 1
  BY DEF NextTask
<1>3. NextTask % Len(lines) = NextTask - round * Len(lines)
  BY <1>1, <1>2, LineNumbers
<1> QED BY <1>1, <1>2, <1>3 DEF LineOf

LEMMA SkipInv ==
  ASSUME IInv, status = "none", MainSkip
  PROVE  IInv'
<1> USE DEF IInv
<1>0. /\ main = "line" /\ at <= Len(lines) /\ at' = at + 1 /\ Skipped(lines[at])
      /\ UNCHANGED <<mode, file, parsed, main, round, bgTasks, waitAt, abort, task, failed,
                     online, dataVars, endVars>>
  BY DEF MainSkip
<1>1. /\ LineOf(NextTask) = lines[at]
      /\ lines' = lines /\ NextTask' = NextTask + 1 /\ NextTask \in Nat
  BY <1>0, NextLine, SizeFacts DEF lines, NextTask
<1>2. LinesInv'
  BY <1>0 DEF LinesInv, lines
<1>a. at' \in 1 .. MaxLen + 1
  BY <1>0, SizeFacts
<1>3. TypeOK'
  BY <1>0, <1>a DEF TypeOK, dataVars, endVars
<1>4. MainInv'
  BY <1>0, <1>1, SizeFacts DEF MainInv, endVars
<1>5. ActiveInv'
  BY <1>0, <1>1, SizeFacts DEF ActiveInv, Active, Task
<1>6. WaitInv' /\ AbortInv'
  BY <1>0 DEF WaitInv, AbortInv, Awaited, endVars
<1>7. BreakInv'
  BY <1>0 DEF BreakInv, Breaks, LineOf, lines
<1>8. PairInv'
  <2>1. ~abort => Passed(LineOf(NextTask))
    BY <1>0, <1>1 DEF Skipped, Passed
  <2>2. \A u : LineOf(u)' = LineOf(u)
    BY <1>0 DEF LineOf, lines
  <2>3. \A u \in Task : Active(u)' <=> Active(u)
    BY <1>0 DEF Active
  <2>4. ASSUME ~abort, NEW u \in Task, Active(u), NEW v \in u .. NextTask
        PROVE  Passed(LineOf(v))
    <3>1. v = NextTask \/ v \in u .. NextTask - 1
      BY <1>1 DEF Task
    <3> QED BY <2>1, <2>4, <3>1, <1>0 DEF PairInv
  <2> QED BY <1>0, <1>1, <2>2, <2>3, <2>4 DEF PairInv, Passed
<1>9. DataInv' /\ ReportComplete' /\ StatusIsHonest'
  BY <1>0 DEF DataInv, ReportComplete, StatusIsHonest, dataVars, endVars, Measured, LineOf, lines
<1> QED BY <1>2, <1>3, <1>4, <1>5, <1>6, <1>7, <1>8, <1>9

LEMMA LaunchInv ==
  ASSUME IInv, status = "none", MainLaunch
  PROVE  IInv'
<1> USE DEF IInv
<1> DEFINE t == NextTask
<1>0. /\ main = "line" /\ at <= Len(lines) /\ at' = at + 1 /\ ~Skipped(lines[at])
      /\ bgTasks' = Append(bgTasks, t) /\ task' = [task EXCEPT ![t] = "begin"]
      /\ main' = IF lines[at].bg THEN "line" ELSE "wait"
      /\ waitAt' = 1
      /\ UNCHANGED <<mode, file, parsed, round, abort, failed, online, dataVars, endVars>>
  BY DEF MainLaunch, NextTask
<1>1. t \in Task /\ LineOf(t) = lines[at]
  BY <1>0, NextTaskType, NextLine
<1>z. Task \subseteq Nat
  BY DEF Task
<1>y. lines' = lines
  BY <1>0 DEF lines
<1>2. lines' = lines /\ NextTask' = t + 1 /\ t \in Nat /\ Task \subseteq Nat
  <2>1. /\ at \in Nat /\ round * Len(lines) \in Nat /\ NextTask \in Nat
        /\ at' = at + 1 /\ round' = round
    BY <1>0, SizeFacts
  <2>2. NextTask' = NextTask + 1
    BY <2>1, <1>y DEF NextTask
  <2> QED BY <2>1, <2>2, <1>y, <1>z
<1>3. round * Len(lines) <= t /\ round * Len(lines) \in Nat
  BY SizeFacts DEF NextTask
<1>4. task[t] = "none"
  BY <1>1, <1>2 DEF ActiveInv
<1> HIDE DEF t
<1>5. LinesInv'
  BY <1>0 DEF LinesInv, lines
<1>a. at' \in 1 .. MaxLen + 1
  BY <1>0, SizeFacts
<1>b. /\ bgTasks \in Seq(Task) /\ bgTasks' \in Seq(Task)
      /\ Len(bgTasks') = Len(bgTasks) + 1
      /\ \A i \in 1 .. Len(bgTasks) : bgTasks'[i] = bgTasks[i]
      /\ bgTasks'[Len(bgTasks) + 1] = t
      /\ Len(bgTasks) \in Nat
  BY <1>0, <1>1 DEF TypeOK
<1>c. waitAt' \in 1 .. Len(bgTasks') + 1
  BY <1>0, <1>b
<1>d. main' \in {"line", "wait"}
  BY <1>0
<1>6. TypeOK'
  BY <1>0, <1>a, <1>b, <1>c, <1>d DEF TypeOK, dataVars, endVars
<1>e. task \in [Task -> {"none", "begin", "run", "stop", "flush", "store", "done", "received"}]
  BY DEF TypeOK
<1>f. task'[t] = "begin" /\ \A u \in Task : u # t => task'[u] = task[u]
  BY <1>0, <1>1, <1>e
<1>7. MainInv'
  BY <1>0, <1>2, <1>d, SizeFacts DEF MainInv, endVars
<1>8. ActiveInv'
  <2>1. \A u \in Task : u # t => (Active(u)' <=> Active(u))
    BY <1>f DEF Active
  <2>2. round' = round /\ lines' = lines
    BY <1>0, <1>2
  <2>3. ASSUME NEW u \in Task, u # t
        PROVE  /\ task'[u] # "none" => u < NextTask'
               /\ Active(u)' => round' * Len(lines') <= u
    BY <1>f, <1>2, <2>1, <2>2, <2>3 DEF ActiveInv, t
  <2>4. t < NextTask' /\ round' * Len(lines') <= t
    BY <1>2, <1>3, <2>2
  <2> QED BY <2>3, <2>4 DEF ActiveInv
<1>9. WaitInv'
  <2>1. SUFFICES ASSUME ~abort, NEW u \in Task, task'[u] \notin {"none", "received"}
                 PROVE  \E i \in 1 .. Len(bgTasks') : bgTasks'[i] = u
    <3>1. main' \notin {"clean", "page"} /\ abort' = abort /\ ~(waitAt' > 1)
          /\ \A i \in 1 .. Len(bgTasks') : i >= waitAt'
      BY <1>0, <1>d
    <3> QED BY <3>1 DEF WaitInv, Awaited
  <2>2. CASE u = t
    <3>1. Len(bgTasks) + 1 \in 1 .. Len(bgTasks')
      BY <1>b
    <3>2. bgTasks'[Len(bgTasks) + 1] = t
      BY <1>b
    <3> QED BY <3>1, <3>2, <2>2
  <2>3. CASE u # t
    <3>1. PICK i \in 1 .. Len(bgTasks) : bgTasks[i] = u
      BY <2>1, <2>3, <1>0, <1>f DEF WaitInv, Awaited
    <3> QED BY <3>1, <1>b
  <2> QED BY <2>2, <2>3
<1>10. AbortInv'
  <2>1. SUFFICES ASSUME abort
                 PROVE  bgTasks' # <<>> /\ task'[bgTasks'[1]] = "received"
                        /\ mode # "standalone"
    BY <1>0, <1>d DEF AbortInv, endVars
  <2>2. bgTasks # <<>> /\ task[bgTasks[1]] = "received" /\ mode # "standalone"
    BY <2>1, <1>0 DEF AbortInv
  <2>3. Len(bgTasks) >= 1
    BY <2>2, <1>b
  <2>4. bgTasks'[1] = bgTasks[1] /\ bgTasks[1] \in Task /\ bgTasks' # <<>>
    BY <2>3, <1>b
  <2> QED BY <2>2, <2>4, <1>f, <1>4
<1>11. BreakInv'
  BY <1>0, <1>f DEF BreakInv, Breaks, LineOf, lines
<1>12. PairInv'
  <2>1. \A u : LineOf(u)' = LineOf(u)
    BY <1>0 DEF LineOf, lines
  <2>2. \A u \in Task : Active(u)' => Active(u) \/ u = t
    BY <1>f DEF Active
  <2>3. \A u \in Task : Active(u) => u < t
    BY DEF ActiveInv, Active, t
  <2>4. ~abort => \A u \in Task : Active(u) => \A v \in u .. t - 1 : Passed(LineOf(v))
    BY <1>0 DEF PairInv, t
  <2>5. ASSUME NEW x \in Task, NEW u \in Task, Active(x)', Active(u)', x < u, ~LineOf(u).control
        PROVE  \A v \in x .. u - 1 : Passed(LineOf(v))
    <3>1. CASE u # t
      <4>1. Active(u) /\ u < t
        BY <3>1, <2>2, <2>3, <2>5
      <4>2. Active(x)
        BY <4>1, <2>2, <2>5, <1>2
      <4> QED BY <4>1, <4>2, <2>5 DEF PairInv
    <3>2. CASE u = t
      <4>1. Active(x)
        BY <3>2, <2>2, <2>5, <1>2
      <4>2. ~abort
        <5>1. abort => lines[at].control
          BY <1>0 DEF Skipped, AbortInv
        <5> QED BY <5>1, <3>2, <2>5, <1>1
      <4> QED BY <4>1, <4>2, <3>2, <2>4
    <3> QED BY <3>1, <3>2
  <2>6. ASSUME main' = "line", ~abort, NEW u \in Task, Active(u)', NEW v \in u .. t
        PROVE  Passed(LineOf(v))
    <3>1. Passed(LineOf(t))
      BY <2>6, <1>0, <1>1 DEF Passed
    <3>2. v # t => v \in u .. t - 1 /\ u # t
      BY <1>2
    <3> QED BY <3>1, <3>2, <2>2, <2>4, <2>6
  <2>7. NextTask' - 1 = t
    BY <1>2
  <2> QED BY <1>0, <2>1, <2>5, <2>6, <2>7 DEF PairInv, Passed
<1>13. DataInv'
  BY <1>0, <1>4, <1>d, <1>f DEF DataInv, dataVars, endVars, Measured, LineOf, lines
<1>14. ReportComplete' /\ StatusIsHonest'
  BY <1>0 DEF DataInv, ReportComplete, StatusIsHonest, dataVars, endVars
<1> QED BY <1>5, <1>6, <1>7, <1>8, <1>9, <1>10, <1>11, <1>12, <1>13, <1>14

LEMMA RoundEndInv ==
  ASSUME IInv, status = "none", MainRoundEnd
  PROVE  IInv'
<1> USE DEF IInv
<1>0. /\ main = "line" /\ main' = IF abort THEN "clean" ELSE "roundwait"
      /\ waitAt' = 1
      /\ UNCHANGED <<mode, file, parsed, round, at, bgTasks, abort, task, failed, online,
                     dataVars, endVars>>
  BY DEF MainRoundEnd
<1>1. lines' = lines /\ NextTask' = NextTask /\ \A u : LineOf(u)' = LineOf(u)
  BY <1>0 DEF lines, NextTask, LineOf
<1>2. waitAt' \in 1 .. Len(bgTasks') + 1
  BY <1>0 DEF TypeOK
<1>3. TypeOK'
  BY <1>0, <1>2 DEF TypeOK, dataVars, endVars
<1>4. LinesInv' /\ MainInv' /\ BreakInv'
  BY <1>0, <1>1 DEF LinesInv, MainInv, BreakInv, Breaks, endVars
<1>5. ActiveInv'
  BY <1>0, <1>1 DEF ActiveInv, Active
<1>6. WaitInv'
  BY <1>0 DEF WaitInv, Awaited
<1>7. AbortInv'
  BY <1>0 DEF AbortInv, endVars
<1>8. PairInv'
  BY <1>0, <1>1 DEF PairInv, Active, Passed
<1>9. DataInv' /\ ReportComplete' /\ StatusIsHonest'
  BY <1>0, <1>1 DEF DataInv, ReportComplete, StatusIsHonest, dataVars, endVars, Measured
<1> QED BY <1>3, <1>4, <1>5, <1>6, <1>7, <1>8, <1>9

LEMMA ReceiveInv ==
  ASSUME IInv, status = "none", WaitReceive
  PROVE  IInv'
<1> USE DEF IInv
<1> DEFINE t == bgTasks[waitAt]
<1>0. /\ main \in {"wait", "roundwait"} /\ waitAt <= Len(bgTasks)
      /\ task[t] = "done" /\ task' = [task EXCEPT ![t] = "received"]
      /\ \/ ~Breaks(t) /\ waitAt' = waitAt + 1 /\ UNCHANGED <<main, abort, status>>
         \/ /\ Breaks(t) /\ abort' = TRUE /\ waitAt' = waitAt
            /\ \/ mode = "standalone" /\ main' = "exit" /\ status' = "failed"
               \/ /\ mode # "standalone" /\ status' = status
                  /\ main' \in {"line", "clean"}
      /\ UNCHANGED <<mode, file, parsed, round, at, bgTasks, failed, online, dataVars,
                     cleaned, page>>
  BY DEF WaitReceive, Exit
<1>1. /\ bgTasks \in Seq(Task) /\ Len(bgTasks) \in Nat /\ waitAt \in Nat /\ waitAt >= 1
      /\ t \in Task
      /\ task \in [Task -> {"none", "begin", "run", "stop", "flush", "store", "done",
                             "received"}]
  BY <1>0 DEF TypeOK
<1>2. lines' = lines /\ NextTask' = NextTask /\ \A u : LineOf(u)' = LineOf(u)
  BY <1>0 DEF lines, NextTask, LineOf
\* No wait gets a result after a breaking failure.
<1>3. ~abort
  <2>1. abort => waitAt = 1 /\ task[bgTasks[1]] = "received"
    BY <1>0 DEF AbortInv
  <2> QED BY <2>1, <1>0
<1>4. /\ task'[t] = "received"
      /\ \A u \in Task : u # t => task'[u] = task[u]
      /\ \A u \in Task : Active(u)' <=> Active(u)
  BY <1>0, <1>1 DEF Active
<1>a. \A u \in Task : task[u] = "none" <=> task'[u] = "none"
  BY <1>4, <1>0
<1> HIDE DEF t
<1>5. LinesInv'
  BY <1>0 DEF LinesInv, lines
<1>6. TypeOK'
  <2>1. waitAt' \in 1 .. Len(bgTasks') + 1
    BY <1>0, <1>1
  <2>2. /\ main' \in {"line", "wait", "roundwait", "clean", "exit"}
        /\ status' \in {"none", "ok", "failed"} /\ abort' \in BOOLEAN
    BY <1>0 DEF TypeOK
  <2> QED BY <1>0, <1>1, <2>1, <2>2 DEF TypeOK, dataVars
<1>7. MainInv'
  <2>1. \A u \in Task : task'[u] = "none" <=> task[u] = "none"
    BY <1>4, <1>0
  <2> QED BY <1>0, <1>2, <2>1 DEF MainInv
<1>8. ActiveInv'
  BY <1>0, <1>2, <1>4, <1>a DEF ActiveInv
<1>9. WaitInv'
  <2>1. SUFFICES ASSUME ~abort', NEW u \in Task, task'[u] \notin {"none", "received"}
                 PROVE  \E i \in 1 .. Len(bgTasks) : bgTasks[i] = u /\ i >= waitAt'
    <3>1. /\ bgTasks' = bgTasks /\ waitAt \in Nat /\ waitAt >= 1 /\ waitAt <= Len(bgTasks)
          /\ ~abort' => main' = main /\ waitAt' = waitAt + 1
      BY <1>0, <1>1
    <3>2. ~abort' => task'[bgTasks[1]] = "received"
      <4>1. CASE waitAt = 1
        BY <4>1, <1>4 DEF t
      <4>2. CASE waitAt # 1
        <5>1. waitAt > 1 /\ bgTasks[1] \in Task
          BY <4>2, <1>1, <3>1
        <5> QED BY <5>1, <1>0, <1>3, <1>4 DEF WaitInv
      <4> QED BY <4>1, <4>2
    <3>3. main \in {"wait", "roundwait"}
      BY <1>0
    <3> QED BY <3>1, <3>2, <3>3 DEF WaitInv, Awaited
  <2>2. u # t /\ task[u] \notin {"none", "received"} /\ waitAt' = waitAt + 1
    BY <2>1, <1>0, <1>4
  <2>3. PICK i \in 1 .. Len(bgTasks) : bgTasks[i] = u /\ i >= waitAt
    BY <2>2, <1>0, <1>3 DEF WaitInv, Awaited
  <2>4. i # waitAt
    BY <2>2, <2>3 DEF t
  <2> QED BY <2>2, <2>3, <2>4, <1>1
<1>10. AbortInv'
  <2>1. SUFFICES ASSUME abort' PROVE AbortInv'
    BY DEF AbortInv
  <2>2. bgTasks # <<>> /\ 1 \in 1 .. Len(bgTasks)
    BY <1>0, <1>1
  <2>3. task'[bgTasks[1]] = "received"
    <3>1. CASE waitAt = 1
      BY <3>1, <1>4 DEF t
    <3>2. CASE waitAt # 1
      <4>1. waitAt > 1 /\ bgTasks[1] \in Task
        BY <3>2, <2>2, <1>1
      <4> QED BY <4>1, <1>0, <1>3, <1>4 DEF WaitInv
    <3> QED BY <3>1, <3>2
  <2> QED BY <2>1, <2>2, <2>3, <1>0, <1>3 DEF AbortInv
<1>11. BreakInv'
  <2>1. \A u \in Task : Breaks(u)' <=> Breaks(u)
    BY <1>0, <1>2 DEF Breaks
  <2> QED BY <2>1, <1>0, <1>4 DEF BreakInv
<1>12. PairInv'
  BY <1>0, <1>2, <1>4 DEF PairInv, Passed
<1>13. DataInv'
  <2>1. \A u \in Task : (tracer[u] = {} /\ batch[u] = {}) \/ task'[u] = task[u]
    BY <1>0, <1>4 DEF DataInv
  <2>2. main' # "page" /\ main # "exit" /\ \A u \in Task : Measured(u)' <=> Measured(u)
    BY <1>0, <1>2 DEF Measured
  <2> QED BY <1>0, <2>1, <2>2 DEF DataInv, dataVars
<1>14. ReportComplete' /\ StatusIsHonest'
  BY <1>0 DEF DataInv, ReportComplete, StatusIsHonest
<1> QED BY <1>5, <1>6, <1>7, <1>8, <1>9, <1>10, <1>11, <1>12, <1>13, <1>14

\* All results are there: nothing is active any more.
LEMMA WaitOverInv ==
  ASSUME IInv, status = "none", WaitOver
  PROVE  IInv'
<1> USE DEF IInv
<1>0. /\ main \in {"wait", "roundwait"} /\ waitAt > Len(bgTasks)
      /\ bgTasks' = <<>> /\ waitAt' = 1
      /\ \/ main' = "line" /\ UNCHANGED <<round, at, status>>
         \/ /\ RoundsLeft /\ main' = "line" /\ round' = round + 1 /\ at' = 1
            /\ UNCHANGED status
         \/ /\ mode = "standalone" /\ main' = "exit" /\ status' = "ok"
            /\ UNCHANGED <<round, at>>
         \/ mode # "standalone" /\ main' = "clean" /\ UNCHANGED <<round, at, status>>
      /\ UNCHANGED <<mode, file, parsed, abort, task, failed, online, dataVars, cleaned,
                     page>>
  BY DEF WaitOver, Exit, WaitedFor
<1>1. /\ bgTasks \in Seq(Task) /\ Len(bgTasks) \in Nat /\ waitAt \in Nat /\ waitAt >= 1
  BY <1>0 DEF TypeOK
<1>2. lines' = lines /\ \A u : LineOf(u)' = LineOf(u)
  BY <1>0 DEF lines, LineOf
<1>3. ~abort
  <2>1. abort => waitAt = 1 /\ Len(bgTasks) >= 1
    BY <1>0, <1>1 DEF AbortInv
  <2> QED BY <2>1, <1>0, <1>1
<1>4. \A u \in Task : task[u] \in {"none", "received"} /\ ~Active(u) /\ ~Active(u)'
  <2>1. \A u \in Task : ~Awaited(u)
    BY <1>0, <1>1 DEF Awaited
  <2>2. \A u \in Task : task[u] \in {"none", "received"}
    BY <2>1, <1>0, <1>3 DEF WaitInv
  <2> QED BY <2>2, <1>0 DEF Active
<1>5. LinesInv'
  BY <1>0 DEF LinesInv, lines
<1>6. TypeOK'
  <2>1. round' \in 0 .. Rounds - 1 /\ at' \in 1 .. MaxLen + 1
    BY <1>0, RoundsType, MaxLenBound DEF TypeOK, RoundsLeft
  <2>2. bgTasks' \in Seq(Task) /\ waitAt' \in 1 .. Len(bgTasks') + 1
    <3>1. <<>> \in Seq(Task) /\ Len(<<>>) = 0
      OBVIOUS
    <3> QED BY <1>0, <3>1
  <2>3. /\ main' \in {"line", "wait", "roundwait", "clean", "exit"}
        /\ status' \in {"none", "ok", "failed"}
    BY <1>0
  <2> QED BY <1>0, <2>1, <2>2, <2>3 DEF TypeOK, dataVars
<1>7. MainInv'
  BY <1>0, <1>2, SizeFacts DEF MainInv
<1>8. ActiveInv'
  <2>1. /\ Len(lines) \in Nat /\ round \in Nat /\ at \in Nat /\ at <= Len(lines) + 1
        /\ NextTask \in Nat
    BY <1>0, SizeFacts DEF MainInv
  <2>2. (round + 1) * Len(lines) = round * Len(lines) + Len(lines)
        /\ round * Len(lines) \in Nat
    BY <2>1
  <2>3. NextTask <= NextTask' /\ NextTask' \in Int
    <3>1. CASE UNCHANGED <<round, at>>
      BY <3>1, <2>1, <1>2 DEF NextTask
    <3>2. CASE round' = round + 1 /\ at' = 1
      <4>1. NextTask' = (round + 1) * Len(lines)
        BY <3>2, <2>1, <2>2, <1>2 DEF NextTask
      <4>2. NextTask = round * Len(lines) + at - 1
        BY DEF NextTask
      <4> QED BY <4>1, <4>2, <2>1, <2>2
    <3> QED BY <3>1, <3>2, <1>0
  <2>4. ASSUME NEW u \in Task, task'[u] # "none"
        PROVE  u < NextTask'
    <3>1. u < NextTask /\ u \in Int
      BY <2>4, <1>0 DEF ActiveInv, Task
    <3> QED BY <3>1, <2>1, <2>3
  <2> QED BY <2>4, <1>4 DEF ActiveInv
<1>9. WaitInv'
  BY <1>0, <1>4 DEF WaitInv
<1>10. AbortInv'
  BY <1>0, <1>3 DEF AbortInv
<1>11. BreakInv'
  BY <1>0, <1>2 DEF BreakInv, Breaks
<1>12. PairInv'
  BY <1>4 DEF PairInv
<1>13. DataInv'
  BY <1>0, <1>2 DEF DataInv, dataVars, Measured
<1>14. ReportComplete'
  BY <1>0 DEF DataInv, ReportComplete
<1>15. StatusIsHonest'
  <2>1. \A u \in Task : task[u] = "received" => ~Breaks(u)
    BY <1>3 DEF BreakInv
  <2> QED BY <2>1, <1>0, <1>2, <1>4 DEF StatusIsHonest, Breaks
<1> QED BY <1>5, <1>6, <1>7, <1>8, <1>9, <1>10, <1>11, <1>12, <1>13, <1>14, <1>15

\* The metrics and the page.
LEMMA EndInv ==
  ASSUME IInv, status = "none", MainClean \/ MainPage
  PROVE  IInv'
<1> USE DEF IInv
<1>0. /\ main \in {"clean", "page"}
      /\ \/ main = "clean" /\ main' = "page" /\ cleaned' = all /\ UNCHANGED <<page, status>>
         \/ /\ main = "page" /\ main' = "exit" /\ cleaned' = cleaned
            /\ \/ page' = all /\ status' = IF abort THEN "failed" ELSE "ok"
               \/ page' = page /\ status' = "failed"
      /\ UNCHANGED <<mode, file, parsed, round, at, bgTasks, waitAt, abort, task, failed,
                     online, dataVars>>
  BY DEF MainClean, MainPage, Exit
<1>1. lines' = lines /\ NextTask' = NextTask /\ \A u : LineOf(u)' = LineOf(u)
  BY <1>0 DEF lines, NextTask, LineOf
<1>2. ~abort => \A u \in Task : task[u] \in {"none", "received"}
  BY <1>0 DEF WaitInv
<1>3. TypeOK'
  BY <1>0 DEF TypeOK, dataVars
<1>4. LinesInv' /\ MainInv' /\ BreakInv'
  BY <1>0, <1>1 DEF LinesInv, MainInv, BreakInv, Breaks
<1>5. ActiveInv'
  BY <1>0, <1>1 DEF ActiveInv, Active
<1>6. WaitInv' /\ AbortInv'
  BY <1>0 DEF WaitInv, AbortInv
<1>7. PairInv'
  BY <1>0, <1>1 DEF PairInv, Active, Passed
<1>8. DataInv'
  BY <1>0, <1>1 DEF DataInv, dataVars, Measured
<1>9. ReportComplete'
  BY <1>0, <1>2 DEF DataInv, ReportComplete, dataVars
<1>10. StatusIsHonest'
  BY <1>0, <1>1, <1>2 DEF StatusIsHonest, BreakInv, Breaks, Active, TypeOK
<1> QED BY <1>3, <1>4, <1>5, <1>6, <1>7, <1>8, <1>9, <1>10
-----------------------------------------------------------------------------
LEMMA InitInv == Init => IInv
<1> SUFFICES ASSUME Init PROVE IInv
  OBVIOUS
<1> USE DEF Init
<1>1. lines = <<>> /\ Len(lines) = 0
  BY DEF lines, ParseBegin
<1>2. /\ round \in 0 .. Rounds - 1 /\ at \in 1 .. MaxLen + 1
      /\ bgTasks \in Seq(Task) /\ waitAt \in 1 .. Len(bgTasks) + 1
  <2>1. <<>> \in Seq(Task) /\ Len(<<>>) = 0
    OBVIOUS
  <2> QED BY <2>1, RoundsType, MaxLenBound
<1>3. parsed \in Parsed
  <2>1. <<>> \in Seq(Line)
    OBVIOUS
  <2> QED BY <2>1 DEF Parsed, ParseBegin, Prefix
<1>4. TypeOK
  BY <1>2, <1>3 DEF TypeOK, Parsed
<1>5. LinesInv /\ MainInv
  BY <1>1, MaxLenBound DEF LinesInv, MainInv
<1>6. ActiveInv /\ WaitInv /\ AbortInv /\ BreakInv /\ PairInv /\ DataInv
  BY DEF ActiveInv, WaitInv, AbortInv, BreakInv, PairInv, DataInv, Active
<1>7. ReportComplete /\ StatusIsHonest
  BY DEF ReportComplete, StatusIsHonest
<1> QED BY <1>4, <1>5, <1>6, <1>7 DEF IInv

\* IInv is an invariant of a process that executes a case file.
THEOREM CaseFileInvariant == Spec => []IInv
<1>1. IInv /\ Next => IInv'
  BY ParseLineInv, ParseOverInv, SkipInv, LaunchInv, RoundEndInv, ReceiveInv, WaitOverInv,
     EndInv, TaskInv
     DEF Next, MainStep
<1>2. IInv /\ UNCHANGED vars => IInv'
  <2> SUFFICES ASSUME IInv, UNCHANGED vars PROVE IInv'
    OBVIOUS
  <2> USE DEF vars, mainVars, dataVars, endVars
  <2>1. TypeOK' /\ LinesInv' /\ MainInv' /\ ActiveInv'
    BY DEF IInv, TypeOK, LinesInv, MainInv, ActiveInv, Active, NextTask, lines, Passed
  <2>2. WaitInv' /\ AbortInv' /\ BreakInv'
    BY DEF IInv, WaitInv, Awaited, AbortInv, BreakInv, Breaks, LineOf, lines
  <2>3. PairInv'
    BY DEF IInv, PairInv, Active, Passed, LineOf, lines, NextTask
  <2>4. DataInv' /\ ReportComplete' /\ StatusIsHonest'
    BY DEF IInv, DataInv, ReportComplete, StatusIsHonest, Active, LineOf, lines, Measured
  <2> QED BY <2>1, <2>2, <2>3, <2>4 DEF IInv
<1> QED BY InitInv, <1>1, <1>2, PTL DEF Spec

\* The report of a run that no breaking failure cuts short has every record of
\* every case, whatever the tickers, the final flushes and Redis do.
THEOREM ReportsComplete == Spec => []ReportComplete
<1>1. IInv => ReportComplete
  BY DEF IInv
<1> QED BY <1>1, CaseFileInvariant, PTL

\* The exit status is 0 only when everything that was started is over and nothing
\* that counts has failed.
THEOREM StatusHonest == Spec => []StatusIsHonest
<1>1. IInv => StatusIsHonest
  BY DEF IInv
<1> QED BY <1>1, CaseFileInvariant, PTL

\* The prefixes of the lines that run at the same time: two active tasks are in
\* one round with no foreground stress line between them (PairInv), and the
\* parser has compared the prefixes of such lines (LinesInv).
LEMMA ActiveSharePrefix ==
  ASSUME IInv, NEW t \in Task, NEW u \in Task, Active(t), Active(u), t < u
  PROVE  /\ RoundOf(t) = RoundOf(u)
         /\ ~LineOf(t).control /\ ~LineOf(u).control =>
               LineOf(t).prefix \in {NoPrefix, LineOf(u).prefix}
<1> USE DEF IInv
<1> DEFINE n == Len(lines)
           i == t - round * n + 1
           j == u - round * n + 1
<1>1. ~parsed.err /\ lines # <<>>
  BY DEF MainInv, Active
<1>2. main # "parse"
  BY DEF MainInv, Active
<1>3. /\ n \in Nat /\ n > 0 /\ round \in Nat /\ at \in Nat /\ at <= n + 1
      /\ round * n \in Nat /\ t \in Nat /\ u \in Nat
  BY <1>1, <1>2, SizeFacts DEF MainInv, Task
<1>4. /\ round * n <= t /\ round * n <= u /\ u < round * n + at - 1
  BY DEF ActiveInv, NextTask, Active
<1> HIDE DEF n
<1>5. \A v \in t .. u : /\ v % n = v - round * n /\ v \div n = round
  BY <1>3, <1>4, LineNumbers
<1>6. \A v \in t .. u : LineOf(v) = lines[v - round * n + 1] /\ RoundOf(v) = round
  BY <1>5 DEF LineOf, RoundOf, n
<1>7. /\ LineOf(t) = lines[i] /\ LineOf(u) = lines[j]
      /\ RoundOf(t) = round /\ RoundOf(u) = round
  BY <1>3, <1>6
<1>8. ASSUME ~LineOf(t).control, ~LineOf(u).control
      PROVE  LineOf(t).prefix \in {NoPrefix, LineOf(u).prefix}
  <2>1. i \in 1 .. n /\ j \in 1 .. n /\ i < j
    BY <1>3, <1>4
  <2>2. \A v \in t .. u - 1 : Passed(LineOf(v))
    BY <1>8 DEF PairInv
  <2>3. ASSUME NEW k \in i .. j - 1
        PROVE  Passed(lines[k])
    <3>1. /\ k - 1 + round * n \in t .. u - 1 /\ k - 1 + round * n \in t .. u
          /\ (k - 1 + round * n) - round * n + 1 = k
      BY <1>3, <2>1
    <3>2. LineOf(k - 1 + round * n) = lines[k]
      BY <3>1, <1>6
    <3> QED BY <3>1, <3>2, <2>2
  <2> HIDE DEF i, j
  <2> QED BY <1>1, <1>7, <1>8, <2>1, <2>3 DEF LinesInv, n
<1> QED BY <1>7, <1>8

\* Cases that run at the same time work on users with the same prefix: the check
\* of the parser is enough, whatever the lines, the rounds and their order.
THEOREM PrefixShared == Spec => []RunningSharePrefix
<1>1. IInv => RunningSharePrefix
  <2> SUFFICES ASSUME IInv, NEW t \in Task, NEW u \in Task, Active(t), Active(u), t # u
               PROVE  /\ RoundOf(t) = RoundOf(u)
                      /\ ~LineOf(t).control /\ ~LineOf(u).control =>
                            \/ LineOf(t).prefix = LineOf(u).prefix
                            \/ NoPrefix \in {LineOf(t).prefix, LineOf(u).prefix}
    BY DEF RunningSharePrefix
  <2>1. t < u \/ u < t
    BY DEF Task
  <2> QED BY <2>1, ActiveSharePrefix
<1> QED BY <1>1, CaseFileInvariant, PTL
=============================================================================
