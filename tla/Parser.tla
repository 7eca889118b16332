------------------------------- MODULE Parser --------------------------------
(***************************************************************************)
(* The recursive descent parser (src/shell_parser/src/parser.rs) over the  *)
(* tokens of the lexer.  Each rule takes the parser and returns it:        *)
(*   text     what the lexer has not read yet                              *)
(*   ahead    the tokens put back, any number of them                      *)
(*   out      what the rule returns: << >> for None, <<v>> for Some(v)     *)
(*   error    << >>, or the error that every caller propagates with "?"    *)
(* A parser that has met an error reads nothing and returns nothing.       *)
(* Commands have the shape ShellCompiler gives them; a list is a program   *)
(* here or in braces, and there are subshells.                             *)
(***************************************************************************)
EXTENDS Values

\* Tokens.  A word is a sequence of components, as in ShellCompiler.
Op(text) == [kind |-> "op", text |-> text]
Word(word) == [kind |-> "word", word |-> word]
Literal(t) == [kind |-> "lit", text |-> t, splittable |-> TRUE, remove_backslash |-> TRUE]
Reserved(w) == Word(<<Literal(<<w>>)>>)
Assignment(name, value) == [kind |-> "assign", name |-> name, value |-> value]
IoNumber(fd) == [kind |-> "io", fd |-> fd]
Newline == [kind |-> "newline"]
Eof == [kind |-> "eof"]
\* Where the lexer fails, and how: with "open", something is not closed.
LexError(how) == [kind |-> "error", how |-> how]
OpenQuote == LexError("open")

ReservedWords ==
    {"if", "then", "else", "elif", "fi", "do", "done", "case", "esac", "while", "until",
     "for", "{", "}", "!", "in"}

IsSingleLiteral(tok) == tok.kind = "word" /\ Len(tok.word) = 1 /\ tok.word[1].kind = "lit"
IsReserved(tok) == IsSingleLiteral(tok) /\ tok.word[1].text \in {<<w>> : w \in ReservedWords}

\* What the grammar calls a token: an operator or a reserved word by its text,
\* any other by its kind.
Symbol(tok) == IF tok.kind = "op" THEN tok.text
               ELSE IF IsReserved(tok) THEN tok.word[1].text[1] ELSE tok.kind

-----------------------------------------------------------------------------
(* Reading and putting back.                                               *)

ParserOf(text) ==
    [text |-> text, ahead |-> << >>, out |-> << >>, error |-> << >>]

Failed(p) == p.error # << >>
Found(p) == p.out # << >>
Yield(p, v) == [p EXCEPT !.out = <<v>>]
Fail(p, tok) == [p EXCEPT !.out = << >>, !.error = <<tok>>]

\* Rest(p), unless p has failed.
Then(p, Rest(_)) == IF Failed(p) THEN p ELSE Rest(p)
\* p, if it has found something or failed, else the alternative.
Or(p, Alternative(_)) == IF Failed(p) \/ Found(p) THEN p ELSE Alternative(p)

NextToken(p) ==
    IF Failed(p) THEN p
    ELSE IF p.ahead # << >> THEN [p EXCEPT !.ahead = Tail(@), !.out = <<Head(p.ahead)>>]
    ELSE IF p.text = << >> THEN Yield(p, Eof)
    ELSE IF Head(p.text).kind = "error" THEN Fail(p, Head(p.text))
    ELSE [p EXCEPT !.text = Tail(@), !.out = <<Head(p.text)>>]

\* Mutant of UngetToken: at the back of the queue.
UngetTokenLast(p, tok) == [p EXCEPT !.ahead = Append(@, tok), !.out = << >>]

UngetToken(p, tok) == [p EXCEPT !.ahead = <<tok>> \o @, !.out = << >>]

\* unexpected_next_token: the error names the token that comes next.
Unexpected(p) == Then(NextToken(p), LAMBDA q : Fail(q, q.out[1]))

\* next_token_is_operator, next_token_is_reserved_word: the token, if its symbol
\* is one of symbols.
NextIs(p, symbols) ==
    Then(NextToken(p), LAMBDA q :
        IF Symbol(q.out[1]) \in symbols THEN q ELSE UngetToken(q, q.out[1]))

\* What must come next, or the parse fails.
Expect(p, symbols) == Or(NextIs(p, symbols), Unexpected)

-----------------------------------------------------------------------------
(* Layout.                                                                 *)

\* newline_list, linebreak
RECURSIVE NewlineList(_)
NewlineList(p) ==
    Then(NextIs(p, {"newline"}), LAMBDA q :
        IF Found(q) THEN Then(NewlineList(q), LAMBDA r : Yield(r, TRUE)) ELSE q)

\* separator: `;`, `&` or newlines; found is whether it is asynchronous.
Separator(p) ==
    Then(NextIs(p, {";", "&"}), LAMBDA q :
        IF Found(q) THEN Then(NewlineList(q), LAMBDA r : Yield(r, Symbol(q.out[1]) = "&"))
        ELSE Then(NewlineList(q), LAMBDA r : IF Found(r) THEN Yield(r, FALSE) ELSE r))

\* separator_is_async, on the command that was just read.
Separated(p, cmd) ==
    Then(Separator(p), LAMBDA q : Yield(q, [cmd EXCEPT !.asynchronous = q.out = <<TRUE>>]))

-----------------------------------------------------------------------------
(* Redirections.                                                           *)

\* number: a word that is a decimal number.
Numeral(p) ==
    Then(NextToken(p), LAMBDA q :
        IF IsSingleLiteral(q.out[1]) /\ IsNumber(q.out[1].word[1].text)
          THEN Yield(q, Number(q.out[1].word[1].text))
          ELSE UngetToken(q, q.out[1]))

FdOr(fd, default) == IF fd = << >> THEN default ELSE fd[1]

\* Mutant of Duplication: source and destination swapped.
DuplicationSwapped(p, op, fd) ==
    Then(Or(Numeral(p), Unexpected), LAMBDA q :
        Yield(q, [kind |-> "fd", dest |-> q.out[1], src |-> FdOr(fd, IF op = ">&" THEN 1 ELSE 0)]))

Duplication(p, op, fd) ==
    Then(Or(Numeral(p), Unexpected), LAMBDA q :
        Yield(q, [kind |-> "fd", src |-> q.out[1], dest |-> FdOr(fd, IF op = ">&" THEN 1 ELSE 0)]))

\* The descriptor and mode each operator stands for.
FileMode(op) ==
    CASE op = "<" -> [fd |-> 0, mode |-> "input"]
      [] op = "<>" -> [fd |-> 0, mode |-> "input and output"]
      [] op = ">" -> [fd |-> 1, mode |-> "output"]
      [] op = ">>" -> [fd |-> 1, mode |-> "append"]
      [] op = ">|" -> [fd |-> 1, mode |-> "clobber"]

FileRedirection(p, op, fd) ==
    Then(NextToken(p), LAMBDA q :
        IF q.out[1].kind = "word"
          THEN Yield(q, [kind |-> "file", file |-> q.out[1].word,
                         fd |-> FdOr(fd, FileMode(op).fd), mode |-> FileMode(op).mode])
          ELSE Unexpected(UngetToken(q, q.out[1])))

IoFile(p, fd) ==
    Then(NextIs(p, {"<", "<&", ">", ">&", ">>", "<>", ">|"}), LAMBDA q :
        IF ~Found(q) THEN q
        ELSE IF q.out[1].text \in {">&", "<&"} THEN Duplication(q, q.out[1].text, fd)
        ELSE FileRedirection(q, q.out[1].text, fd))

IoRedirect(p) ==
    Then(NextIs(p, {"io"}), LAMBDA q :
        IF Found(q) THEN Or(IoFile(q, <<q.out[1].fd>>), Unexpected) ELSE IoFile(q, << >>))

RECURSIVE RedirectList(_, _)
RedirectList(p, list) ==
    Then(IoRedirect(p), LAMBDA q :
        IF Found(q) THEN RedirectList(q, Append(list, q.out[1])) ELSE Yield(q, list))

-----------------------------------------------------------------------------
(* Commands.                                                               *)

Command(type) == [type |-> type, asynchronous |-> FALSE, redirects |-> << >>]
EmptyCommand == [assignments |-> << >>, words |-> << >>, redirs |-> << >>] @@ Command("simple")

\* NAME=value as a word: NAME= and the value, in which a tilde is no expansion.
AssignmentWord(tok) ==
    LET Plain(text) == [kind |-> "lit", text |-> text, splittable |-> TRUE,
                        remove_backslash |-> FALSE]
    IN  <<Plain(tok.name \o <<"=">>)>>
        \o [i \in DOMAIN tok.value |->
              IF tok.value[i].kind = "tilde" THEN Plain(<<"~">> \o Text(tok.value[i].name))
              ELSE tok.value[i]]

\* A simple command with one more word or, before the first word, assignment.
WithPart(cmd, tok) ==
    IF tok.kind = "word" THEN [cmd EXCEPT !.words = Append(@, tok.word)]
    ELSE IF cmd.words = << >>
      THEN [cmd EXCEPT !.assignments = Append(@, [name |-> tok.name, value |-> tok.value])]
      ELSE [cmd EXCEPT !.words = Append(@, AssignmentWord(tok))]

\* The parts of a simple command, in any order, up to the first token that is
\* none; `}` is none.
RECURSIVE Parts(_, _)
Parts(p, cmd) ==
    Then(IoRedirect(p), LAMBDA q :
        IF Found(q) THEN Parts(q, [cmd EXCEPT !.redirs = Append(@, q.out[1])])
        ELSE Then(NextToken(q), LAMBDA r :
            IF r.out[1].kind \in {"word", "assign"} /\ Symbol(r.out[1]) # "}"
              THEN Parts(r, WithPart(cmd, r.out[1]))
              ELSE IF cmd = EmptyCommand THEN UngetToken(r, r.out[1])
              ELSE Yield(UngetToken(r, r.out[1]), cmd)))

\* A reserved word, quoted or not, starts no simple command.
SimpleCommand(p) ==
    Then(NextToken(p), LAMBDA q :
        IF IsReserved(q.out[1]) THEN UngetToken(q, q.out[1])
        ELSE Parts(UngetToken(q, q.out[1]), EmptyCommand))

\* CompoundList takes the commands it has read so far.
RECURSIVE AndOr(_), CompoundList(_, _)

\* What stands between a pair of symbols.
Enclosed(p, close) ==
    Then(CompoundList(p, << >>), LAMBDA q :
        Then(Expect(q, {close}), LAMBDA r : Yield(r, q.out[1])))

BraceGroup(p) ==
    Then(NextIs(p, {"{"}), LAMBDA q :
        IF ~Found(q) THEN q
        ELSE Then(Enclosed(q, "}"), LAMBDA r :
            Yield(r, [commands |-> r.out[1]] @@ Command("list"))))

\* `(` `)` is left to function_definition: both tokens are put back.
Subshell(p) ==
    Then(NextIs(p, {"("}), LAMBDA q :
        IF ~Found(q) THEN q
        ELSE Then(NextIs(q, {")"}), LAMBDA r :
            IF Found(r) THEN UngetToken(UngetToken(r, r.out[1]), q.out[1])
            ELSE Then(Enclosed(r, ")"), LAMBDA s :
                Yield(s, [commands |-> s.out[1]] @@ Command("subshell")))))

IfOf(condition, true, false) ==
    [condition |-> condition, true |-> true, false |-> false] @@ Command("if")

\* A condition, `then` and what follows it, which else_part completes.
RECURSIVE ElsePart(_)
Conditional(p) ==
    Then(CompoundList(p, << >>), LAMBDA c :
        Then(Expect(c, {"then"}), LAMBDA q :
            Then(CompoundList(q, << >>), LAMBDA t :
                Then(ElsePart(t), LAMBDA e :
                    Yield(e, IfOf(c.out[1], t.out[1], e.out[1]))))))

\* Mutant of ElsePart: elif reads what follows it as else does.
ElsePartElif(p) ==
    Then(NextIs(p, {"else", "elif"}), LAMBDA q :
        IF ~Found(q) THEN Yield(q, << >>) ELSE CompoundList(q, << >>))

\* A missing else is an empty one: the compiler does not tell them apart.
ElsePart(p) ==
    Then(NextIs(p, {"else", "elif"}), LAMBDA q :
        IF ~Found(q) THEN Yield(q, << >>)
        ELSE IF Symbol(q.out[1]) = "else" THEN CompoundList(q, << >>)
        ELSE Then(Conditional(q), LAMBDA r : Yield(r, <<r.out[1]>>)))

IfClause(p) ==
    Then(NextIs(p, {"if"}), LAMBDA q :
        IF ~Found(q) THEN q
        ELSE Then(Conditional(q), LAMBDA r :
            Then(Expect(r, {"fi"}), LAMBDA s : Yield(s, r.out[1]))))

CompoundCommand(p) ==
    Then(Or(Or(BraceGroup(p), Subshell), IfClause), LAMBDA q :
        IF ~Found(q) THEN q
        ELSE Then(RedirectList(q, << >>), LAMBDA r :
            Yield(r, [q.out[1] EXCEPT !.redirects = r.out[1]])))

\* fname
FunctionName(p) ==
    Then(NextToken(p), LAMBDA q :
        IF IsSingleLiteral(q.out[1]) /\ ~IsReserved(q.out[1]) THEN q
        ELSE UngetToken(q, q.out[1]))

\* Without a compound command after it, NAME ( ) is forgotten.
FunctionBody(p, name) ==
    Then(CompoundCommand(p), LAMBDA q :
        IF Found(q) THEN Yield(q, [name |-> name, body |-> q.out[1]] @@ Command("function"))
        ELSE q)

FunctionDefinition(p) ==
    Then(FunctionName(p), LAMBDA n :
        IF ~Found(n) THEN n
        ELSE Then(NextIs(n, {"("}), LAMBDA q :
            IF ~Found(q) THEN UngetToken(q, n.out[1])
            ELSE Then(Expect(q, {")"}), LAMBDA r :
                FunctionBody(r, n.out[1].word[1].text))))

\* command
AnyCommand(p) ==
    Or(Or(Or(FunctionDefinition(p), CompoundCommand), Subshell), SimpleCommand)

-----------------------------------------------------------------------------
(* Pipelines and lists.                                                    *)

\* Every stage but the last is asynchronous.
Staged(commands) ==
    [i \in DOMAIN commands |->
        IF i = Len(commands) THEN commands[i] ELSE [commands[i] EXCEPT !.asynchronous = TRUE]]

RECURSIVE Stages(_, _)
Stages(p, commands) ==
    Then(NextIs(p, {"|"}), LAMBDA q :
        IF ~Found(q) THEN Yield(q, Staged(commands))
        ELSE Then(Or(AnyCommand(NewlineList(q)), Unexpected), LAMBDA r :
            Stages(r, Append(commands, r.out[1]))))

PipeSequence(p) ==
    Then(AnyCommand(p), LAMBDA q : IF Found(q) THEN Stages(q, <<q.out[1]>>) ELSE q)

\* A pipeline of one command that is not inverted is that command.
PipelineOf(commands, inverted) ==
    IF ~inverted /\ Len(commands) = 1 THEN commands[1]
    ELSE [commands |-> commands, inverted |-> inverted] @@ Command("pipeline")

Pipeline(p) ==
    Then(NextIs(p, {"!"}), LAMBDA b :
        Then(PipeSequence(b), LAMBDA q :
            IF Found(q) THEN Yield(q, PipelineOf(q.out[1], Found(b)))
            ELSE IF Found(b) THEN Unexpected(q) ELSE q))

AndOrOf(op, condition, then) ==
    IF op = "&&" THEN IfOf(<<condition>>, <<then>>, << >>)
    ELSE IfOf(<<condition>>, << >>, <<then>>)

\* One && or || only.
AndOr(p) ==
    Then(Pipeline(p), LAMBDA c :
        IF ~Found(c) THEN c
        ELSE Then(NextIs(c, {"&&", "||"}), LAMBDA q :
            IF ~Found(q) THEN Yield(q, c.out[1])
            ELSE Then(Or(Pipeline(NewlineList(q)), Unexpected), LAMBDA t :
                Yield(t, AndOrOf(q.out[1].text, c.out[1], t.out[1])))))

\* Inside of other commands it makes no difference how a command is separated
\* from the next.
CompoundList(p, commands) ==
    Then(AndOr(NewlineList(p)), LAMBDA q :
        IF Found(q) THEN CompoundList(Separator(q), Append(commands, q.out[1]))
        ELSE Yield(q, commands))

\* Commands and how they are separated, up to what starts no command.
RECURSIVE ProgramList(_, _)
ProgramList(p, commands) ==
    Then(AndOr(p), LAMBDA q :
        IF Found(q)
          THEN Then(Separated(q, q.out[1]), LAMBDA r :
                 ProgramList(r, Append(commands, r.out[1])))
          ELSE Yield(q, commands))

ProgramOf(commands) ==
    IF Len(commands) = 1 THEN commands[1]
    ELSE [commands |-> commands, type |-> "program", redirects |-> << >>,
          asynchronous |-> Last(commands).asynchronous]

\* An empty program is an empty command; the error for one that starts with no
\* command names the token after the offending one.
Program(p) ==
    Then(ProgramList(p, << >>), LAMBDA q :
        IF q.out[1] # << >> THEN Yield(q, ProgramOf(q.out[1]))
        ELSE Then(NextToken(q), LAMBDA r :
            IF r.out[1] = Eof THEN Yield(r, EmptyCommand) ELSE Unexpected(r)))

Parse(text) == Program(ParserOf(text))
=============================================================================
