------------------------------- MODULE History -------------------------------
(***************************************************************************)
(* The command history (src/src/builtins/history.rs): a table of lines in  *)
(* a database that every running shell adds to and searches.  Each query   *)
(* is one step of the database; add makes three of them.  Rows are never   *)
(* deleted, so the rowids are 1, 2, and so on.                             *)
(***************************************************************************)
EXTENDS Integers, Sequences, SequencesExt

CONSTANTS
    Shells,     \* the shells that run
    Lines,      \* lines, sequences of characters
    Patterns,   \* what the user searches for
    LowerCase,  \* the lower case of the letters that have one
    MaxRows     \* bound: lines entered in one shell

ASSUME TextAssumption == \A t \in Lines \cup Patterns : t \in Seq(ToSet(t))

VARIABLES
    history,    \* the rows, in order
    adding,     \* per shell, << >> or [line, step, last]: the add under way
    entered,    \* per shell, the lines entered so far, without those that were lost
    found       \* << >>, or what the last search of any shell answered

vars == <<history, adding, entered, found>>

Init ==
    /\ history = << >>
    /\ adding = [s \in Shells |-> << >>]
    /\ entered = [s \in Shells |-> << >>]
    /\ found = << >>

-----------------------------------------------------------------------------
(* add                                                                     *)

At(s, step) == adding[s] # << >> /\ adding[s].step = step

Add(s, line) ==
    /\ adding[s] = << >>
    /\ Len(entered[s]) < MaxRows
    /\ entered' = [entered EXCEPT ![s] = Append(@, line)]
    /\ adding' = [adding EXCEPT ![s] = [line |-> line, step |-> "last", last |-> 0]]
    /\ UNCHANGED <<history, found>>

\* Mutant of LastRow: the first row.
LastRowAscending == IF history = << >> THEN 0 ELSE 1

\* The newest row, or 0 for none.
LastRow == Len(history)

\* last
QueryLast(s) ==
    /\ At(s, "last")
    /\ adding' = [adding EXCEPT ![s].last = LastRow,
                                ![s].step = IF LastRow = 0 THEN "insert" ELSE "get"]
    /\ UNCHANGED <<history, entered, found>>

\* Mutant of QueryGet: the other way round.
QueryGetSwapped(s) ==
    /\ At(s, "get")
    /\ adding' = [adding EXCEPT ![s] =
                    IF history[@.last] # @.line THEN << >> ELSE [@ EXCEPT !.step = "insert"]]
    /\ UNCHANGED <<history, entered, found>>

\* get: a line that repeats the newest one is ignored.
QueryGet(s) ==
    /\ At(s, "get")
    /\ adding' = [adding EXCEPT ![s] =
                    IF history[@.last] = @.line THEN << >> ELSE [@ EXCEPT !.step = "insert"]]
    /\ UNCHANGED <<history, entered, found>>

Insert(s) ==
    /\ At(s, "insert")
    /\ history' = Append(history, adding[s].line)
    /\ adding' = [adding EXCEPT ![s] = << >>]
    /\ UNCHANGED <<entered, found>>

-----------------------------------------------------------------------------
(* The database is locked while another shell uses it, and no query waits. *)

Reading(s) == \E t \in Shells \ {s} : ~At(t, "dead")
Writing(s) == \E t \in Shells \ {s} : At(t, "insert")

\* last and get unwrap the error: the shell panics in the middle of the add.
QueryFails(s) ==
    /\ At(s, "last") \/ At(s, "get")
    /\ Writing(s)
    /\ adding' = [adding EXCEPT ![s].step = "dead"]
    /\ UNCHANGED <<history, entered, found>>

\* The insert's error is dropped, and the line with it.
InsertFails(s) ==
    /\ At(s, "insert")
    /\ Reading(s)
    /\ adding' = [adding EXCEPT ![s] = << >>]
    /\ entered' = [entered EXCEPT ![s] = SubSeq(@, 1, Len(@) - 1)]
    /\ UNCHANGED <<history, found>>

-----------------------------------------------------------------------------
(* search                                                                  *)

Lower(c) == IF c \in DOMAIN LowerCase THEN LowerCase[c] ELSE c

\* "like %pattern%": letters match in either case, _ any character and % any number
\* of them; upto[k] is where the pattern's first k characters end in the line.
IsLike(line, pattern) ==
    \E upto \in [0 .. Len(pattern) -> 0 .. Len(line)] :
        \A k \in DOMAIN pattern :
            IF pattern[k] = "%" THEN upto[k - 1] <= upto[k]
            ELSE /\ upto[k] = upto[k - 1] + 1
                 /\ pattern[k] = "_" \/ Lower(pattern[k]) = Lower(line[upto[k]])

\* SearchStyle::match_against: the pattern is part of the line.
Matches(line, pattern) ==
    \E i \in 0 .. Len(line) - Len(pattern) : SubSeq(line, i + 1, i + Len(pattern)) = pattern

\* Mutant of Nearest: in the order of the rows.
NearestFirst(rows, direction) == CHOOSE i \in rows : \A j \in rows : i <= j

\* Of these rows the first one in the direction of the search.
Nearest(rows, direction) ==
    CHOOSE i \in rows : \A j \in rows : IF direction = "backwards" THEN j <= i ELSE i <= j

InDirection(idx, direction) ==
    {i \in DOMAIN history : IF direction = "backwards" THEN i <= idx ELSE i >= idx}

\* The rows that the database takes for matches.
LikeRows(idx, direction, pattern) ==
    {i \in InDirection(idx, direction) : IsLike(history[i], pattern)}

\* The query answers with one row, which may not match after all.
Search(idx, direction, pattern) ==
    LET rows == LikeRows(idx, direction, pattern)
        row == Nearest(rows, direction)
    IN  IF rows # {} /\ Matches(history[row], pattern) THEN row ELSE 0

SearchFrom(s, idx, direction, pattern) ==
    /\ adding[s] = << >>
    /\ found' = [from |-> idx, direction |-> direction, pattern |-> pattern,
                 row |-> Search(idx, direction, pattern), of |-> Len(history), locked |-> FALSE]
    /\ UNCHANGED <<history, adding, entered>>

\* The error of a search is taken for no row.
SearchFails(s, idx, direction, pattern) ==
    /\ adding[s] = << >>
    /\ Writing(s)
    /\ found' = [from |-> idx, direction |-> direction, pattern |-> pattern,
                 row |-> 0, of |-> Len(history), locked |-> TRUE]
    /\ UNCHANGED <<history, adding, entered>>

Next ==
    \E s \in Shells :
        \/ \E line \in Lines : Add(s, line)
        \/ QueryLast(s) \/ QueryGet(s) \/ Insert(s) \/ QueryFails(s) \/ InsertFails(s)
        \/ \E idx \in DOMAIN history, direction \in {"backwards", "forwards"}, p \in Patterns :
              SearchFrom(s, idx, direction, p) \/ SearchFails(s, idx, direction, p)

Spec == Init /\ [][Next]_vars

-----------------------------------------------------------------------------
(* Properties.                                                             *)

Types ==
    /\ history \in Seq(Lines)
    /\ entered \in [Shells -> Seq(Lines)]
    /\ adding \in [Shells -> {<< >>} \cup
                     [line : Lines, step : {"last", "get", "insert", "dead"}, last : Nat]]

\* How many of its lines a shell has added, and the rows they can be in: a shell
\* that compares its line with a row has read that row after its own last one.
Added(s) == Len(entered[s]) - IF adding[s] = << >> THEN 0 ELSE 1
Seen(s) == IF At(s, "get") THEN adding[s].last ELSE Len(history)

InOrder(s, at) ==
    /\ \A k \in 1 .. Added(s) : history[at[k]] = entered[s][k]
    /\ \A k \in 1 .. Added(s) - 1 : at[k] <= at[k + 1]

\* What is known of one shell: the line it is adding and the rows it has seen.
Pending(s) ==
    adding[s] # << >> =>
        /\ Len(entered[s]) > 0 /\ entered[s][Len(entered[s])] = adding[s].line
        /\ adding[s].last \in 0 .. Len(history)
        /\ adding[s].step = "get" => adding[s].last > 0
Recallable(s) == \E at \in [1 .. Added(s) -> 1 .. Seen(s)] : InOrder(s, at)

\* The invariant that makes OrderKept inductive.
IInv == Types /\ \A s \in Shells : Pending(s) /\ Recallable(s)

\* The lines of each shell that were not lost can be recalled in the order they were
\* entered, whatever other shells add in between and wherever a query fails: walking
\* back over the rows passes each of them, repeated lines at one row.
OrderKept ==
    \A s \in Shells : \E at \in [1 .. Added(s) -> DOMAIN history] : InOrder(s, at)

\* The answer to a search is a line that holds the pattern, and no row between
\* it and where the search began does; rows added since then do not count.
FoundIsNearest ==
    found # << >> /\ found.row # 0 =>
        LET between == IF found.direction = "backwards" THEN found.row + 1 .. found.from
                                                        ELSE found.from .. found.row - 1
        IN  /\ Matches(history[found.row], found.pattern)
            /\ \A i \in between : ~Matches(history[i], found.pattern)

\* "Ignore duplicates" (src/src/builtins/history.rs:94): a line entered again is
\* not added again.  Holds for one shell alone.
NoRepeat == \A i \in DOMAIN history : i > 1 => history[i] # history[i - 1]

\* With more shells a line is repeated only by a race: the shell that adds it
\* compared it with a row that was the newest one then and is not any more.
RepeatsOnlyRaced ==
    [][history' # history /\ Len(history') > 1
            /\ history'[Len(history')] = history'[Len(history') - 1] =>
         \E s \in Shells :
            adding[s] # << >> /\ adding'[s] = << >> /\ adding[s].last < Len(history)]_vars

\* A search that finds nothing and was not locked out was misled if there was a line that holds the
\* pattern: before it in the direction of the search is a row that the database
\* takes for one (a letter in the other case, a wildcard in the pattern).
FindsUnlessMisled ==
    found # << >> /\ found.row = 0 /\ ~found.locked =>
        LET back == found.direction = "backwards"
            searched == {i \in 1 .. found.of :
                            IF back THEN i <= found.from ELSE i >= found.from}
        IN  \A i \in searched : Matches(history[i], found.pattern) =>
                \E j \in searched :
                    /\ IF back THEN i < j ELSE j < i
                    /\ IsLike(history[j], found.pattern) /\ ~Matches(history[j], found.pattern)

\* A search that begins anywhere (History::search, history.rs:109) gives the line
\* the user is looking for, if the database picks no other: what it finds is the
\* nearest, and it does not miss what is there.
SearchesFind == FoundIsNearest /\ FindsUnlessMisled

\* The rows that the answer to a search is about are there, now and later.
AnswerInRows ==
    found # << >> =>
        /\ found.of \in 0 .. Len(history) /\ found.from \in 1 .. found.of
        /\ found.row \in 0 .. found.of /\ found.pattern \in Patterns

\* The invariant that makes SearchesFind inductive.
SearchInv == AnswerInRows /\ SearchesFind
=============================================================================
