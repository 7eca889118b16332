----------------------------- MODULE MCGrammar -------------------------------
(* Instances of Grammar for TLC.                                           *)
EXTENDS Grammar

A == Word(<<Literal(<<"a">>)>>)
B == Word(<<Literal(<<"b">>)>>)
One == Word(<<Literal(<<"1">>)>>)
Home == <<[kind |-> "tilde", name |-> NoneV, splittable |-> FALSE]>>
Assign == Assignment(<<"x">>, Home)
QuotedIf == Word(<<[kind |-> "lit", text |-> <<"if">>, splittable |-> FALSE,
                    remove_backslash |-> FALSE]>>)

MCGlobTable == [p \in {} |-> << >>]

-----------------------------------------------------------------------------
(* Any text of at most four tokens, and any of five of the tokens that are *)
(* put back most.                                                          *)

AnyToken ==
    {A, Assign, Newline, IoNumber(2), OpenQuote, QuotedIf}
    \cup {Reserved(w) : w \in {"{", "}", "!", "then"}}
    \cup {Op(o) : o \in {"(", ")", ";", "|", "&&", ">", ">&"}}
PutBack == {A, One, IoNumber(2), Reserved("{"), Reserved("}"), Op("("), Op(")"), Op("<&")}

AnyText == BoundedSeq(AnyToken, 4) \cup TupleOf(PutBack, 5)

-----------------------------------------------------------------------------
(* Texts whose meaning is known.                                           *)

Styles == [sep : {<<Op(";")>>, <<Newline>>, <<Op(";"), Newline, Newline>>}, elif : BOOLEAN]

SimpleOf(assignments, words, redirs) ==
    [EmptyCommand EXCEPT !.assignments = assignments, !.words = words, !.redirs = redirs]
Run(words) == SimpleOf(<< >>, words, << >>)
File(mode, fd) == [kind |-> "file", file |-> B.word, fd |-> fd, mode |-> mode]
Dup(src, dest) == [kind |-> "fd", src |-> src, dest |-> dest]
Braces(commands) == [commands |-> commands] @@ Command("list")
SubshellOf(commands) == [commands |-> commands] @@ Command("subshell")
PipelineCommand(commands, inverted) ==
    [commands |-> commands, inverted |-> inverted] @@ Command("pipeline")
Function(body) == [name |-> <<"a">>, body |-> body] @@ Command("function")
ProgramCommand(commands, async) ==
    [commands |-> commands, type |-> "program", redirects |-> << >>, asynchronous |-> async]
Async(cmd) == [cmd EXCEPT !.asynchronous = TRUE]
To(cmd, redirs) == [cmd EXCEPT !.redirects = redirs]

Simple ==
    {Run(<<A.word>>),
     SimpleOf(<< [name |-> <<"x">>, value |-> Home] >>, <<A.word, Reserved("fi").word>>, << >>),
     SimpleOf(<< [name |-> <<"x">>, value |-> Home] >>, << >>, <<File("clobber", 1), Dup(1, 2)>>),
     SimpleOf(<< >>, <<B.word>>, <<File("input", 0)>>)}

Enclosing(S, T) ==
    {Braces(<<a, b>>) : a \in S, b \in T} \cup {SubshellOf(<<a>>) : a \in S}
    \cup {To(Braces(<<a>>), <<File("append", 1), Dup(3, 0)>>) : a \in S}
    \cup {IfOf(<<a>>, <<b>>, << >>) : a \in S, b \in T}
    \cup {To(IfOf(<<a, b>>, <<b>>, <<a, b>>), <<File("input and output", 0)>>) :
            a \in S, b \in T}
    \cup {IfOf(<<a>>, <<b>>, <<IfOf(<<b>>, <<a, a>>, << >>)>>) : a \in S, b \in T}
    \cup {IfOf(<<a>>, << >>, <<IfOf(<<b>>, <<b>>, <<a>>)>>) : a \in S, b \in T}
Few == {Run(<<A.word>>), SimpleOf(<< >>, <<B.word>>, <<File("input", 0)>>)}
Inner ==
    Simple \cup Enclosing({Run(<<A.word>>), Function(SubshellOf(<<Run(<<B.word>>)>>))}, Few)

Trees ==
    Enclosing(Inner, Few) \cup {Function(b) : b \in Enclosing(Few, Few)}
    \cup {PipelineCommand(<<Async(a), b>>, inverted) :
            a \in Inner, b \in Simple, inverted \in BOOLEAN}
    \cup {PipelineCommand(<<a>>, TRUE) : a \in Inner}
    \cup {Async(PipelineCommand(<<Async(a), Async(b), c>>, FALSE)) :
            a, b \in Few, c \in Inner}
    \cup {ProgramCommand(<<a, b, Async(a)>>, TRUE) : a \in Inner, b \in Few}
    \cup {ProgramCommand(<<Async(a), b>>, FALSE) : a \in Inner, b \in Few}

\* What && and || mean, and operators that are written without a descriptor.
Conditionals ==
    {[text |-> Written(a, style) \o <<Op("&&"), Newline>> \o Written(b, style),
      means |-> IfOf(<<a>>, <<b>>, << >>)] : a, b \in Simple, style \in Styles}
    \cup {[text |-> Written(a, style) \o <<Op("||")>> \o Written(b, style),
           means |-> IfOf(<<a>>, << >>, <<b>>)] : a \in Inner, b \in Few, style \in Styles}
Defaults ==
    {[text |-> <<A, Op(o[1]), B>>, means |-> SimpleOf(<< >>, <<A.word>>, <<File(o[2], o[3])>>)] :
        o \in {<<"<", "input", 0>>, <<">", "output", 1>>, <<">>", "append", 1>>,
               <<">|", "clobber", 1>>, <<"<>", "input and output", 0>>}}
    \cup {[text |-> <<Op("<&"), One, A>>, means |-> SimpleOf(<< >>, <<A.word>>, <<Dup(1, 0)>>)],
          [text |-> <<IoNumber(2), Op("<&"), One>>, means |-> SimpleOf(<< >>, << >>, <<Dup(1, 2)>>)],
          [text |-> <<Op(">&"), One, A>>, means |-> SimpleOf(<< >>, <<A.word>>, <<Dup(1, 1)>>)],
          [text |-> << >>, means |-> EmptyCommand]}

MCPhrases ==
    {[text |-> WrittenProgram(t, style), means |-> t] : t \in Trees, style \in Styles}
    \cup Conditionals \cup Defaults

-----------------------------------------------------------------------------
(* The phrases with one token too many, too few, or another.               *)

Broken ==
    LET some == {WrittenProgram(t, Plain) : t \in Enclosing(Simple, Few)}
    IN  UNION {{RemoveAt(s, i), InsertAt(s, i, tok), ReplaceAt(s, i, tok)} :
                 s \in some, i \in 1 .. 4, tok \in {Op(")"), Op("|")}}

\* Three commands and what may stand between them.
Chains ==
    {<<A, Op(first), B, Op(second), A>> : first, second \in {"&&", "||", "|", ";", "&"}}

MCTexts == AnyText \cup Broken \cup Chains
=============================================================================
