--------------------------- MODULE ShellSemantics ---------------------------
(***************************************************************************)
(* What a command means, independently of the machine: the reference       *)
(* against which compiled programs are checked.  It evaluates the command  *)
(* itself, given the fates of the commands it runs, in the order the       *)
(* source of the compiler lays down: redirections, assignments, words.     *)
(*                                                                         *)
(* A state has the environment, the fd table, the functions (their         *)
(* bodies), the fates not used yet, the log of the commands run, the last  *)
(* status (-1: none), the number of pipes, and how evaluation goes on: run,*)
(* stop, err, complete (with a value) or pending (no fate is left).        *)
(***************************************************************************)
EXTENDS Values, FiniteSetsExt

CONSTANTS Positional, Environment0, HomeDir, Unopenable

None == -1

InitialState(fates) ==
    [env |-> Environment0, io |-> [fd \in 0 .. 2 |-> [std |-> fd]], funcs |-> << >>,
     fates |-> fates, log |-> << >>, last |-> None, npipes |-> 0,
     out |-> "run", value |-> None]

Going(s) == s.out = "run"
Ending(s, out) == [s EXCEPT !.out = out]
Bind(f, x, v) == [y \in DOMAIN f \cup {x} |-> IF y = x THEN v ELSE f[y]]

-----------------------------------------------------------------------------
(* Words.  Expansion answers with the state after it and what it gives.    *)

Answer(s, v) == [s |-> s, v |-> v]

IfsOf(s) == IF <<"IFS">> \in DOMAIN s.env THEN s.env[<<"IFS">>] ELSE DefaultIfs

\* The maximal runs of characters that are not separators, in order.
Starts(text, I) == {i \in DOMAIN text : text[i] \notin I /\ (i = 1 \/ text[i - 1] \in I)}
RunFrom(text, I, i) ==
    SubSeq(text, i, CHOOSE j \in i .. Len(text) :
                        /\ \A k \in i .. j : text[k] \notin I
                        /\ j = Len(text) \/ text[j + 1] \in I)
RunsFrom(text, I, starts) == [n \in DOMAIN starts |-> RunFrom(text, I, starts[n])]
Pieces(text, I) == RunsFrom(text, I, SetToSortSeq(Starts(text, I), <))

\* One piece of a word: a pattern gives the names that match it.
Generated(piece, word) ==
    IF "*" \in ToSet(piece) /\ \A i \in DOMAIN word : word[i].splittable THEN Matches(piece)
    ELSE IF \E i \in DOMAIN word : word[i].kind = "lit" /\ ~word[i].remove_backslash
           THEN <<piece>> ELSE <<Unquote(piece)>>

GeneratedAll(pieces, word) == FlattenSeq([n \in DOMAIN pieces |-> Generated(pieces[n], word)])
FieldsOf(s, word, text) ==
    GeneratedAll(IF IfsOf(s) = << >> \/ \E i \in DOMAIN word : ~word[i].splittable
                   THEN <<text>> ELSE Pieces(text, ToSet(IfsOf(s))),
                 word)

Joined(s, fields) == Join([n \in DOMAIN fields |-> Str(fields[n])], IfsOf(s))

Args == IF Positional = << >> THEN << >> ELSE Tail(Positional)

\* A parameter is NoneV, a string or, for $@ and $*, a list.
ParameterValue(s, name) ==
    IF name \in {<<"@">>, <<"*">>} THEN List(Args)
    ELSE IF name = <<"#">> THEN Str(Decimal(Len(Args)))
    ELSE IF name = <<"0">> THEN Str(IF Positional = << >> THEN <<"wzsh">> ELSE Positional[1])
    ELSE IF IsNumber(name)
      THEN IF Number(name) \in DOMAIN Args THEN Str(Args[Number(name)]) ELSE NoneV
    ELSE IF name \in DOMAIN s.env THEN Str(s.env[name])
    ELSE NoneV

\* The answer e after what has been gathered in a.
Extended(a, e) == [e EXCEPT !.v = a.v \o @]
AsOne(e) == [e EXCEPT !.v = Joined(e.s, @)]
AsFields(e, word) == [e EXCEPT !.v = FieldsOf(e.s, word, @)]

\* The operators of ${} on a parameter's value v; given is what its word gives.
Operated(s, expr, v, given) ==
    LET unset == IsNone(v) \/ (~expr.allow_null /\ v = Str(<< >>))
        \* A list cannot be made part of a word.
        asText == IF HasText(v) THEN Answer(s, Text(v)) ELSE Answer(Ending(s, "err"), << >>)
    IN  CASE expr.oper = "Get" -> asText
          [] expr.oper = "StringLength" -> [asText EXCEPT !.v = Decimal(Len(@))]
          [] expr.oper = "AlternativeValue" -> IF unset THEN Answer(s, << >>) ELSE given
          [] OTHER -> IF ~unset THEN asText
                      ELSE IF ~Going(given.s) \/ expr.oper = "GetDefault" THEN given
                      ELSE IF expr.oper = "AssignDefault"
                        THEN [given EXCEPT !.s.env = Bind(@, expr.name, given.v)]
                      ELSE [given EXCEPT !.s = [Ending(@, "complete") EXCEPT !.value = 1]]

RECURSIVE ExpandWords(_, _)

ExpandParameter(s, expr) ==
    Operated(s, expr, ParameterValue(s, expr.name), AsOne(ExpandWords(s, expr.word)))

ExpandComponent(s, component) ==
    IF ~Going(s) THEN Answer(s, << >>)
    ELSE
      CASE component.kind = "lit" -> Answer(s, component.text)
        [] component.kind = "param" -> ExpandParameter(s, component.expr)
        [] component.kind = "tilde" ->
            IF ~IsNone(component.name) THEN Answer(Ending(s, "err"), << >>)
            ELSE Answer(s, IF <<"HOME">> \in DOMAIN s.env THEN s.env[<<"HOME">>] ELSE HomeDir)

IsAllParameters(word) ==
    /\ Len(word) = 1 /\ word[1].kind = "param" /\ word[1].expr.oper = "Get"
    /\ word[1].expr.name \in {<<"@">>, <<"*">>}

\* The fields of a word.
ExpandWord(s, word) ==
    IF IsAllParameters(word) THEN Answer(s, Args)
    ELSE AsFields(FoldLeft(LAMBDA a, component : Extended(a, ExpandComponent(a.s, component)),
                           Answer(s, << >>), word), word)

ExpandWords(s, words) ==
    FoldLeft(LAMBDA a, word : IF Going(a.s) THEN Extended(a, ExpandWord(a.s, word)) ELSE a,
             Answer(s, << >>), words)

-----------------------------------------------------------------------------
(* Commands.                                                               *)

\* Redirect to the file a word names, or to a descriptor.
Opened(e, redir) ==
    IF ~Going(e.s) THEN e.s
    ELSE IF Len(e.v) # 1 \/ e.v[1] \in Unopenable THEN Ending(e.s, "err")
    ELSE [e.s EXCEPT !.io = Bind(@, redir.fd, [file |-> e.v[1], mode |-> redir.mode])]

Redirected(s, redirs) ==
    FoldLeft(LAMBDA a, redir :
               IF ~Going(a) THEN a
               ELSE IF redir.kind = "file" THEN Opened(ExpandWord(a, redir.file), redir)
               ELSE IF redir.src \in DOMAIN a.io
                 THEN [a EXCEPT !.io = Bind(@, redir.dest, a.io[redir.src])]
               ELSE Ending(a, "err"),
             s, redirs)

Bound(e, name) == IF Going(e.s) THEN [e.s EXCEPT !.env = Bind(@, name, e.v)] ELSE e.s
Assigned(s, assignments) ==
    FoldLeft(LAMBDA a, assignment :
               IF Going(a) THEN Bound(AsOne(ExpandWord(a, assignment.value)), assignment.name)
               ELSE a,
             s, assignments)

\* A command is run: what it is given, and what its fate does to the shell.
Logged(s, argv) == [s EXCEPT !.log = Append(@, [argv |-> argv, env |-> s.env, io |-> s.io])]
Met(s, fate) == [s EXCEPT !.fates = Tail(@),
                          !.env = IF "sets" \in DOMAIN fate
                                    THEN Bind(@, fate.sets[1], fate.sets[2]) ELSE @]
Ended(s, fate, asynchronous) ==
    IF "err" \in DOMAIN fate THEN Ending(s, "err")
    ELSE IF asynchronous THEN s
    ELSE IF "stop" \in DOMAIN fate THEN Ending(s, "stop")
    ELSE [s EXCEPT !.last = IF "ready" \in DOMAIN fate THEN fate.ready ELSE fate.exit]

RunCommand(e, asynchronous) ==
    LET s == e.s
    IN  IF ~Going(s) THEN s
        ELSE IF e.v = << >> THEN IF asynchronous THEN s ELSE [s EXCEPT !.last = 0]
        ELSE IF s.fates = << >> THEN Ending(Logged(s, e.v), "pending")
        ELSE Ended(Met(Logged(s, e.v), Head(s.fates)), Head(s.fates), asynchronous)

\* Assignments before a command name last for that command only.
Invoked(s, cmd) ==
    [RunCommand(ExpandWords(Assigned(s, cmd.assignments), cmd.words), cmd.asynchronous)
        EXCEPT !.env = IF cmd.words # << >> /\ cmd.assignments # << >> THEN s.env ELSE @]

Simple(s, cmd) == Invoked(Redirected(s, cmd.redirs), cmd)

RECURSIVE Meaning(_, _)

InOrder(s, commands) == FoldLeft(Meaning, s, commands)

\* Each stage of a pipeline reads what the one before it writes.
Piped(s, i, last) ==
    [s EXCEPT !.npipes = IF i < last THEN @ + 1 ELSE @,
              !.io = [fd \in DOMAIN @ |->
                        CASE fd = 0 /\ i > 1 -> [read |-> s.npipes]
                          [] fd = 1 /\ i < last -> [write |-> s.npipes + 1]
                          [] OTHER -> @[fd]]]

Staged(s, commands) ==
    IF Len(commands) = 1 THEN InOrder(s, commands)
    ELSE FoldLeft(LAMBDA a, i :
                    IF ~Going(a) THEN a
                    ELSE [Meaning(Piped(a, i, Len(commands)), commands[i]) EXCEPT !.io = a.io],
                  s, [i \in DOMAIN commands |-> i])

Negated(s, inverted) ==
    IF ~inverted \/ ~Going(s) THEN s
    ELSE IF s.last = None THEN Ending(s, "err")
    ELSE [s EXCEPT !.last = IF @ = 0 THEN 1 ELSE 0]

Chosen(s, cmd) ==
    IF ~Going(s) THEN s
    ELSE IF s.last = None THEN Ending(s, "err")
    ELSE InOrder(s, IF s.last = 0 THEN cmd.true ELSE cmd.false)

MeaningOf(s, cmd) ==
    IF ~Going(s) THEN s
    ELSE CASE cmd.type = "simple" -> Simple(s, cmd)
           [] cmd.type = "if" -> Chosen(InOrder(s, cmd.condition), cmd)
           [] cmd.type = "list" -> InOrder(s, cmd.commands)
           [] cmd.type = "pipeline" -> Negated(Staged(s, cmd.commands), cmd.inverted)
           [] cmd.type = "function" ->
                 [s EXCEPT !.funcs = Bind(@, cmd.name, cmd.body), !.last = 0]

Meaning(s, cmd) ==
    IF ~Going(s) THEN s
    ELSE [MeaningOf(Redirected(s, cmd.redirects), cmd) EXCEPT !.io = s.io]

\* A program: what it has done when the fates are used up, or at its end.
AtEnd(s) == IF ~Going(s) THEN s
            ELSE IF s.last = None THEN Ending(s, "err")
            ELSE [Ending(s, "complete") EXCEPT !.value = s.last]
Eval(cmd, fates) == AtEnd(Meaning(InitialState(fates), cmd))
=============================================================================
