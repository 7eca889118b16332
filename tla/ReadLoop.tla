------------------------------- MODULE ReadLoop ------------------------------
(***************************************************************************)
(* Lines and commands in the REPL (repl in src/src/repl.rs): which lines   *)
(* are taken together, when they are run or refused, and when the shell    *)
(* asks for more.  A line is a sequence of characters, which the lexer and *)
(* the parser read.                                                        *)
(***************************************************************************)
EXTENDS Lexer

CONSTANTS
    Lines,          \* what the user may type
    Continuations,  \* what may be typed to finish an unfinished command
    Closers,        \* what may close all that is open
    MaxLines        \* bound: lines typed

VARIABLES
    input,          \* the unfinished input
    entered,        \* every line typed so far, each with its newline
    outcomes,       \* what became of the input each time it was cleared
    parser,         \* the parser of the last line, after parse
    up              \* whether the loop goes on

vars == <<input, entered, outcomes, parser, up>>

\* Mutant of IsRecoverable: no error is.
IsRecoverableNever(p) == Failed(p) /\ Found(p)

\* is_recoverable_parse_error
IsRecoverable(p) == p.error = <<OpenQuote>>

Init ==
    /\ input = << >> /\ entered = << >> /\ outcomes = << >>
    /\ parser = ParserOf(<< >>) /\ up = TRUE

\* read_line answers with a line: it is added to the input, which is parsed.
Typed(line) ==
    /\ up
    /\ Len(SelectSeq(entered, LAMBDA c : c = "\n")) < MaxLines
    /\ entered' = entered \o Append(line, "\n")
    /\ parser' = Parse(Lexed(input \o line))

Cleared(how, all) ==
    /\ input' = << >>
    /\ outcomes' = Append(outcomes, [text |-> all, how |-> how])

Panicked(p) == p.error = <<LexError("panic")>>

\* An error that more text might mend: ask for more.
Continue(line) ==
    /\ IsRecoverable(parser')
    /\ input' = input \o Append(line, "\n")
    /\ UNCHANGED <<outcomes, up>>

\* Mutant of Refuse: the input stays.
RefuseKeeps(line) ==
    /\ Failed(parser') /\ ~IsRecoverable(parser') /\ ~Panicked(parser')
    /\ input' = input \o Append(line, "\n")
    /\ outcomes' = Append(outcomes, [text |-> input \o line, how |-> "refused"])
    /\ UNCHANGED up

\* Any other error is printed and the input cleared.
Refuse(line) ==
    /\ Failed(parser') /\ ~IsRecoverable(parser') /\ ~Panicked(parser')
    /\ Cleared("refused", input \o line)
    /\ UNCHANGED up

\* The command is compiled and run; however that ends, the input is cleared.
RunCommand(line) ==
    /\ Found(parser')
    /\ Cleared("run", input \o line)
    /\ UNCHANGED up

\* An assertion of the lexer fails, and the shell with it.
Crash(line) ==
    /\ Panicked(parser')
    /\ Cleared("lost", input \o line)
    /\ up' = FALSE

\* A line is typed and parsed, and one of these becomes of it.
Enter(line) ==
    /\ Typed(line)
    /\ Continue(line) \/ Refuse(line) \/ RunCommand(line) \/ Crash(line)

\* read_line is interrupted: the input, which ends in a newline, is cleared.
Interrupt ==
    /\ up /\ input # << >>
    /\ Cleared("interrupted", Front(input))
    /\ UNCHANGED <<entered, parser, up>>

\* read_line fails, and the loop ends.
ReadFails ==
    /\ up /\ up' = FALSE
    /\ UNCHANGED <<input, entered, outcomes, parser>>

Left == ~up /\ UNCHANGED vars

Next ==
    \/ \E line \in Lines : Enter(line)
    \/ Interrupt \/ ReadFails \/ Left

Spec == Init /\ [][Next]_vars

-----------------------------------------------------------------------------
(* Properties.                                                             *)

\* Every line typed is part of exactly one command, of as many lines as it was
\* typed on, that was run, refused or interrupted, or of the unfinished input:
\* nothing is lost between two commands, and nothing is parsed or run twice.
Accounted ==
    entered = FlattenSeq([i \in DOMAIN outcomes |-> Append(outcomes[i].text, "\n")]) \o input

\* What quotes and backslashes of a text leave open, without substitutions and
\* `${}`: a second reading of it, one character at a time.  In double quotes, the
\* last of any number of backslashes counts.
Opened(t) ==
    LET step(at, c) ==
            CASE at = "plain" -> IF c \in {"'", "\"", "\\", "#"} THEN c ELSE at
              [] at = "\\" -> "plain"
              [] at = "'" -> IF c = "'" THEN "plain" ELSE at
              [] at = "#" -> IF c = "\n" THEN "plain" ELSE at
              [] at = "\"" -> IF c = "\"" THEN "plain" ELSE IF c = "\\" THEN "escaped" ELSE at
              [] at = "escaped" -> IF c = "\\" THEN at ELSE "\""
    IN  FoldLeft(step, "plain", t)
\* What became of the line typed last.
Settled(how) == input = << >> /\ outcomes # << >> /\ Last(outcomes).how = how
Substitutes(t) == \E i \in DOMAIN t : t[i] \in {"$", "bq"}

\* The shell asks for more only while something is open, and closing it always
\* leads back to the prompt.
WaitsForCloser ==
    input # << >> =>
        /\ Substitutes(input) \/ Opened(Front(input)) \in {"'", "\"", "escaped", "\\"}
        /\ \E closer \in Closers : ~IsRecoverable(Parse(Lexed(input \o closer)))

\* A command is run only when every quote of it is closed, however many lines that
\* takes.  Left out are commands after which the parser stops reading, and errors
\* that the lexer drops inside of substitutions.
RunsClosed ==
    Settled("run") /\ parser.text = << >> =>
        Substitutes(Last(outcomes).text) \/ Opened(Last(outcomes).text) \in {"plain", "#"}

\* The shell asks for more, and does not run what it has, exactly while something
\* is open (repl.rs:25-29, the errors that more text resolves).
WaitsWhileOpen == WaitsForCloser /\ RunsClosed

\* "Returns true if a given error might be resolved by allowing the user to
\* continue typing more text on a subsequent line"
\* (is_recoverable_parse_error, src/src/repl.rs:17): what is refused could not
\* have been finished.  Left out are texts that were refused because they were at
\* their end, as every group and if is that is not finished on its line, and quotes
\* left open inside of a substitution, on which the lexer gives up.
Finished(p) == Found(p) /\ p.text = << >> /\ ToSet(p.ahead) \subseteq {Eof}
CouldFinish(t) == \E more \in Continuations : Finished(Parse(Lexed(t \o <<"\n">> \o more)))
RefusedForGood ==
    Settled("refused") /\ parser.error \notin {<<Eof>>, <<LexError("bail")>>} =>
        ~CouldFinish(Last(outcomes).text)
=============================================================================
