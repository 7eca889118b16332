------------------------------- MODULE Grammar -------------------------------
(***************************************************************************)
(* Parser::parse against the shell grammar: how a command is written, and  *)
(* a specification with one call of the parser on a text.                  *)
(***************************************************************************)
EXTENDS Parser

CONSTANTS
    Texts,      \* texts to parse, any sequences of tokens
    Phrases     \* texts of which the meaning is known: [text, means]

VARIABLES text, means, parser

vars == <<text, means, parser>>

-----------------------------------------------------------------------------
(* How a command is written.  A style is [sep, elif]: what ends a command, *)
(* and whether an if that is all of an else part is written with elif.     *)

OpOf == [input |-> "<", output |-> ">", append |-> ">>", clobber |-> ">|"]
        @@ ("input and output" :> "<>")

WrittenRedirect(r) ==
    IF r.kind = "fd" THEN <<IoNumber(r.dest), Op(">&"), Word(<<Literal(Decimal(r.src))>>)>>
    ELSE <<IoNumber(r.fd), Op(OpOf[r.mode]), Word(r.file)>>
WrittenRedirects(list) == FlattenSeq([i \in DOMAIN list |-> WrittenRedirect(list[i])])

\* `(` and `)` side by side are no subshell, but an empty one can be written.
\* The redirections come first: a reserved word is an argument after one.
WrittenSimple(cmd) ==
    WrittenRedirects(cmd.redirs)
    \o [i \in DOMAIN cmd.assignments |->
          Assignment(cmd.assignments[i].name, cmd.assignments[i].value)]
    \o [i \in DOMAIN cmd.words |-> Word(cmd.words[i])]

RECURSIVE Written(_, _)

WrittenList(commands, style) ==
    FlattenSeq([i \in DOMAIN commands |-> Written(commands[i], style) \o style.sep])

RECURSIVE WrittenElse(_, _)
WrittenElse(commands, style) ==
    IF commands = << >> THEN << >>
    ELSE IF style.elif /\ Len(commands) = 1 /\ commands[1].type = "if"
                       /\ commands[1].redirects = << >>
      THEN <<Reserved("elif")>> \o WrittenList(commands[1].condition, style)
           \o <<Reserved("then")>> \o WrittenList(commands[1].true, style)
           \o WrittenElse(commands[1].false, style)
      ELSE <<Reserved("else")>> \o WrittenList(commands, style)

WrittenStages(commands, style) ==
    FlattenSeq([i \in DOMAIN commands |->
        (IF i = 1 THEN << >> ELSE <<Op("|")>>) \o Written(commands[i], style)])

Written(cmd, style) ==
    (CASE cmd.type = "simple" -> WrittenSimple(cmd)
       [] cmd.type = "list" ->
            <<Reserved("{")>> \o WrittenList(cmd.commands, style) \o <<Reserved("}")>>
       [] cmd.type = "subshell" ->
            <<Op("(")>>
            \o (IF cmd.commands = << >> THEN <<Newline>> ELSE WrittenList(cmd.commands, style))
            \o <<Op(")")>>
       [] cmd.type = "if" ->
            <<Reserved("if")>> \o WrittenList(cmd.condition, style)
            \o <<Reserved("then")>> \o WrittenList(cmd.true, style)
            \o WrittenElse(cmd.false, style) \o <<Reserved("fi")>>
       [] cmd.type = "pipeline" ->
            (IF cmd.inverted THEN <<Reserved("!")>> ELSE << >>)
            \o WrittenStages(cmd.commands, style)
       [] cmd.type = "function" ->
            <<Word(<<Literal(cmd.name)>>), Op("("), Op(")")>> \o Written(cmd.body, style))
    \o WrittenRedirects(cmd.redirects)

\* A command of a program may be followed by `&`; an empty program is no text.
Ended(cmd, style) ==
    Written(cmd, style) \o IF cmd.asynchronous THEN <<Op("&")>> ELSE style.sep
WrittenProgram(cmd, style) ==
    IF cmd = EmptyCommand THEN << >>
    ELSE IF cmd.type = "program"
      THEN FlattenSeq([i \in DOMAIN cmd.commands |-> Ended(cmd.commands[i], style)])
      ELSE Ended(cmd, style)

-----------------------------------------------------------------------------
(* One call of the parser.                                                 *)

Init ==
    /\ \/ text \in Texts /\ means = << >>
       \/ \E phrase \in Phrases : text = phrase.text /\ means = <<phrase.means>>
    /\ parser = ParserOf(text)

Returned == Failed(parser) \/ Found(parser)

Call ==
    /\ ~Returned
    /\ parser' = Program(parser)
    /\ UNCHANGED <<text, means>>

Done == Returned /\ UNCHANGED vars

Next == Call \/ Done

Spec == Init /\ [][Next]_vars

-----------------------------------------------------------------------------
(* Properties.                                                             *)

\* The tokens the parser has read and not put back.
Unread == Len(parser.text) + Len(SelectSeq(parser.ahead, LAMBDA tok : tok # Eof))
ReadText == SubSeq(text, 1, Len(text) - Unread)

\* What a text says: its words, names, stages and subshells in order, and the
\* targets of its redirections; not what separates commands nor how conditions
\* are written.  A fold over the tokens; redirect is whether a target is next.
RedirectOps == {"<", "<&", ">", ">&", ">>", "<>", ">|"}
Layout == {"newline", "eof", ";", "&", "io", "&&", "||", "if", "then", "else", "elif", "fi"}
Said(s) ==
    LET step(a, tok) ==
            IF Symbol(tok) \in RedirectOps THEN [a EXCEPT !.redirect = TRUE]
            ELSE IF a.redirect
              THEN [a EXCEPT !.targets = Append(@, tok), !.redirect = FALSE]
            ELSE IF Symbol(tok) \in Layout THEN a
            ELSE [a EXCEPT !.words =
                    Append(@, IF tok.kind = "assign" THEN Word(AssignmentWord(tok)) ELSE tok)]
    IN  FoldLeft(step, [words |-> << >>, targets |-> << >>, redirect |-> FALSE], s)

\* NAME ( ) without the compound command that makes it a function.
HeaderOnly(s) ==
    \E i \in DOMAIN s :
        /\ i + 2 <= Len(s) /\ Symbol(s[i + 1]) = "(" /\ Symbol(s[i + 2]) = ")"
        /\ i + 3 <= Len(s) => Symbol(s[i + 3]) \notin {"{", "(", "if"}

Accepted == Found(parser)
Tree == parser.out[1]
Plain == [sep |-> <<Op(";")>>, elif |-> FALSE]

\* What the compiler relies on: programs are of two commands at least and not
\* inside of others, a pipeline has two stages or is inverted, exactly its last
\* stage is waited for, and a function's body is a compound command.
RECURSIVE WellFormed(_)
WellFormed(cmd) ==
    LET AllWellFormed(commands) == \A i \in DOMAIN commands : WellFormed(commands[i])
    IN  CASE cmd.type = "simple" -> cmd.redirects = << >>
          [] cmd.type \in {"list", "subshell"} -> AllWellFormed(cmd.commands)
          [] cmd.type = "if" ->
                AllWellFormed(cmd.condition) /\ AllWellFormed(cmd.true) /\ AllWellFormed(cmd.false)
          [] cmd.type = "pipeline" ->
                /\ Len(cmd.commands) >= 2 \/ cmd.inverted
                /\ AllWellFormed(cmd.commands)
                /\ \A i \in DOMAIN cmd.commands :
                      cmd.commands[i].asynchronous = (i < Len(cmd.commands))
          [] cmd.type = "function" ->
                cmd.body.type \in {"list", "subshell", "if"} /\ WellFormed(cmd.body)
          [] OTHER -> FALSE

ShapeOK ==
    Accepted =>
        IF Tree.type = "program"
          THEN Len(Tree.commands) >= 2 /\ \A i \in DOMAIN Tree.commands : WellFormed(Tree.commands[i])
          ELSE WellFormed(Tree)

\* A command the parser has made of any text, however broken, is a command of
\* the grammar, as the compiler relies on; written down and parsed again it is
\* the same, and all of it is read.
ReadsBack ==
    Accepted =>
        LET again == Parse(WrittenProgram(Tree, Plain))
        IN  ShapeOK /\ again.out = <<Tree>> /\ again.text = << >> /\ ToSet(again.ahead) \subseteq {Eof}

\* Nothing that was read is lost, changed or moved, whatever was put back on the
\* way: the command says what the tokens read say, unless they hold a function
\* header that no body follows.
WordsKept ==
    Accepted /\ ~HeaderOnly(ReadText) => Said(WrittenProgram(Tree, Plain)) = Said(ReadText)

\* A text whose meaning is known is read to its end and has that meaning.
Understood == Returned /\ means # << >> => parser.out = means /\ Unread = 0

=============================================================================
