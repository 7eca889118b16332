------------------------------- MODULE Values -------------------------------
(***************************************************************************)
(* The values of the shell's virtual machine and the string operations its *)
(* instructions apply to them (src/shell_vm/src/lib.rs, op.rs).            *)
(*                                                                         *)
(* A string is a sequence of atoms: an atom is a run of characters nothing *)
(* looks into, or one of the characters the machine does look for, a       *)
(* separator, a backslash, or "*" for the characters that make a field a   *)
(* pattern.  Strings are valid UTF-8: Value::OsString is then no different *)
(* from Value::String.                                                     *)
(***************************************************************************)
EXTENDS Integers, Sequences, SequencesExt

CONSTANTS GlobTable     \* what filename generation finds for each pattern

NoneV == [none |-> TRUE]
Str(s) == [str |-> s]
List(l) == [list |-> l]
Num(n) == [num |-> n]
\* A WaitableStatus that is a Status, and one that is a child process.
Ready(code) == [ready |-> code]
Child(k) == [child |-> k]

IsNone(v) == DOMAIN v = {"none"}
IsStr(v) == DOMAIN v = {"str"}
IsList(v) == DOMAIN v = {"list"}
IsWaitable(v) == DOMAIN v \in {{"ready"}, {"child"}}

\* Value::as_bstr: None counts as the empty string.
HasText(v) == IsStr(v) \/ IsNone(v)
Text(v) == IF IsStr(v) THEN v.str ELSE << >>

\* Decimal numbers, of one digit.
Digits == <<"0", "1", "2", "3", "4", "5", "6", "7", "8", "9">>
Decimal(n) == <<Digits[n + 1]>>
IsNumber(s) == \E n \in 0 .. 9 : s = Decimal(n)
Number(s) == CHOOSE n \in 0 .. 9 : s = Decimal(n)

DefaultIfs == <<" ">>

-----------------------------------------------------------------------------
\* Mutant of Split: every separator ends a field, empty ones included.
SplitKeepsEmpty(s, ifs) ==
    LET step(a, c) ==
            IF c \in ToSet(ifs)
              THEN [done |-> Append(a.done, a.run), run |-> << >>]
              ELSE [a EXCEPT !.run = Append(@, c)]
        end == FoldLeft(step, [done |-> << >>, run |-> << >>], s)
    IN  IF end.run = << >> THEN end.done ELSE Append(end.done, end.run)

\* split_by_ifs: the fields of s; runs of separators of any length, also at
\* both ends, separate fields.
Split(s, ifs) ==
    LET step(a, c) ==
            IF c \notin ToSet(ifs) THEN [a EXCEPT !.run = Append(@, c)]
            ELSE IF a.run = << >> THEN a
            ELSE [done |-> Append(a.done, a.run), run |-> << >>]
        end == FoldLeft(step, [done |-> << >>, run |-> << >>], s)
    IN  IF end.run = << >> THEN end.done ELSE Append(end.done, end.run)

\* join_list_ifs: no separator after what is still empty.
Join(list, ifs) ==
    FoldLeft(LAMBDA d, v : IF d = << >> \/ ifs = << >> THEN d \o Text(v)
                           ELSE Append(d, ifs[1]) \o Text(v),
             << >>, list)

\* A backslash quotes the next character and goes; a last one stays.
Unquote(s) ==
    LET step(a, c) ==
            IF c = "\\" /\ ~a.quoted THEN [a EXCEPT !.quoted = TRUE]
            ELSE [out |-> Append(a.out, c), quoted |-> FALSE]
        end == FoldLeft(step, [out |-> << >>, quoted |-> FALSE], s)
    IN  IF end.quoted THEN Append(end.out, "\\") ELSE end.out

\* contains_glob_specials
IsPattern(v) == IsStr(v) /\ "*" \in ToSet(v.str)

\* Filename generation: a pattern that matches nothing leaves no field.
Matches(s) == IF s \in DOMAIN GlobTable THEN GlobTable[s] ELSE << >>

\* Machine::push_with_glob: the fields one value adds to a list.
Fields(v, glob, removeBackslash) ==
    IF glob /\ IsPattern(v) THEN [i \in DOMAIN Matches(v.str) |-> Str(Matches(v.str)[i])]
    ELSE IF removeBackslash /\ IsStr(v) THEN <<Str(Unquote(v.str))>>
    ELSE <<v>>

\* ListAppend: the fields of v in order.
AppendedFields(v, ifs, split, glob, removeBackslash) ==
    IF split /\ ifs # << >> /\ IsStr(v)
      THEN FlattenSeq([i \in DOMAIN Split(v.str, ifs) |->
                         Fields(Str(Split(v.str, ifs)[i]), glob, removeBackslash)])
      ELSE Fields(v, glob, removeBackslash)
=============================================================================
