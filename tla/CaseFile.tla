------------------------------ MODULE CaseFile ------------------------------
(***************************************************************************)
(* The case file (case/parse_case.go, case/control.go): a raw line becomes *)
(* a stress line, a control line, nothing, or an error of the whole file.  *)
(* A raw line is a record of what its text amounts to: kind is "empty"     *)
(* (blank, a comment, or a lone &), "control" (it starts with @) or        *)
(* "stress"; ok says that its quotes are closed, that it has enough        *)
(* arguments and that its numbers parse; bg is the & at its end.           *)
(***************************************************************************)
EXTENDS Integers, Sequences

CONSTANT SetVar  \* the value -set gives to the variable, NoVar if it gives none

ASSUME SetVarAssumption == SetVar \in STRING

NoVar == "unset"
Variable == "${VAR}"  \* a reference to the variable, as it stands in the file
NoPrefix == ""
Prefix == STRING \cup {NoPrefix}  \* (the provers do not know that "" is a string)

RawLine == [kind : {"empty", "control", "stress"}, ok : BOOLEAN, bg : BOOLEAN,
            errorBreak : BOOLEAN, prefix : Prefix]

\* SubstituteVariables: a variable without a value is left as it stands.
Substitute(p) == IF p = Variable /\ SetVar # NoVar THEN SetVar ELSE p

\* Mutant of PrefixChecked: the check is forgotten.
PrefixCheckedNever(prefix, p) == TRUE

\* After a background line the prefix may not change up to and including the
\* next foreground stress line; an empty prefix is not remembered.
PrefixChecked(prefix, p) == prefix = NoPrefix \/ p = prefix

ParseLine(f, raw) ==
  LET p == Substitute(raw.prefix)
  IN  [lines  |-> Append(f.lines, [control |-> FALSE, bg |-> raw.bg,
                                   errorBreak |-> raw.errorBreak, prefix |-> p]),
       prefix |-> IF raw.bg THEN p ELSE NoPrefix,
       err    |-> ~PrefixChecked(f.prefix, p)]

\* A control line neither checks nor changes the prefix.
ParseControlLine(f, raw) ==
  [f EXCEPT !.lines = Append(@, [control |-> TRUE, bg |-> raw.bg,
                                 errorBreak |-> raw.errorBreak, prefix |-> NoPrefix])]

\* ParseCaseFileContent has read one more line: f holds the lines of the file so
\* far, the prefix to be checked (OpenIdPrefixCheck), and whether it is refused.
ParseStep(f, raw) ==
  IF f.err \/ raw.kind = "empty" THEN f
  ELSE IF ~raw.ok THEN [f EXCEPT !.err = TRUE]
  ELSE IF raw.kind = "control" THEN ParseControlLine(f, raw) ELSE ParseLine(f, raw)

\* Before the first line.  ParseStep takes each in turn; an error is final.
ParseBegin == [lines |-> <<>>, prefix |-> NoPrefix, err |-> FALSE]
=============================================================================
