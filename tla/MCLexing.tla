------------------------------ MODULE MCLexing -------------------------------
(* Instances of Lexing for TLC.                                            *)
EXTENDS Lexing

MCGlobTable == [p \in {} |-> << >>]
MCLetters == {"x"}
MCLongNames == {"ab", "if"}

-----------------------------------------------------------------------------
(* Any text of at most three characters, and longer ones of the characters *)
(* that quote, that nest, that end a word or a line, and that begin one.   *)

Anything ==
    {"x", "ab", "1", "$", "(", ")", "{", "}", "'", "\"", "\\", "bq", "#", "=", "~", ":", "/",
     " ", "\n", ";", "&", "<", ">", "-", "%", "|"}
Quoting == {"ab", "'", "\"", "\\", "$", " "}
Nesting == {"ab", "$", "(", ")", "{", "}", "bq"}
LineEnds == {"ab", "\n", "=", "\\", " ", ";"}
Words == {"ab", "=", "~", ":", "/", "1", "<"}

MCTexts ==
    BoundedSeq(Anything, 3) \cup TupleOf(Quoting, 5) \cup TupleOf(Nesting, 5)
    \cup TupleOf(LineEnds, 5) \cup TupleOf(Words, 4)

-----------------------------------------------------------------------------
(* Tokens to write down: every component in every other.                   *)

Lit(t) == Literal(t)
InDouble(c) == [c EXCEPT !.splittable = FALSE]
TildeOf(name) == [kind |-> "tilde", name |-> name, splittable |-> FALSE]
Expand(oper, name, words) == ParamExpand(oper, name, words)

Simple ==
    {<<Lit(<<"ab">>)>>, <<Quoted(<<"ab", " ", "x">>), Lit(<<"x", "\\", " ", "ab">>)>>,
     <<InDouble(Lit(<<"x", "'", " ", "\\", "\"", ")">>)), Quoted(<< >>)>>,
     <<TildeOf(NoneV), Lit(<<"/", "ab">>)>>, <<TildeOf(Str(<<"ab">>))>>,
     <<Expand(<<"Get", FALSE>>, <<"ab">>, << >>), InDouble(Expand(<<"Get", FALSE>>, <<"?">>, << >>))>>}

\* With an empty part at the end, at the start, and a tilde behind a colon.
Assigned(word) ==
    {Assignment(<<"x">>, word), Assignment(<<"ab", "1">>, << >>),
     Assignment(<<"x">>, <<Lit(<<"ab">>), Quoted(<<":">>), TildeOf(NoneV), Lit(<<"/", "x">>),
                           Quoted(<<":">>), Lit(<< >>)>>),
     Assignment(<<"ab">>, <<Lit(<< >>), Quoted(<<":">>), Lit(<<"x", "\\", ":", "ab">>),
                            Quoted(<<"x">>)>> \o IF word[1].kind = "tilde" THEN Tail(word) ELSE word)}

AllOpers == {ParamOpers[o] : o \in DOMAIN ParamOpers} \cup {<<"Get", FALSE>>, <<"StringLength", FALSE>>}

TokensOf(words) ==
    UNION {{<<Word(w)>>, <<Op("("), Word(w), Op(")")>>, <<Word(w), Newline, IoNumber(2), Op(">&"), Word(w)>>}
           \cup {<<a, Op(";"), Word(w)>> : a \in Assigned(w)} : w \in words}

Expansions(words) ==
    {Expand(oper, <<"ab">>, <<w, v>>) : oper \in AllOpers, w \in words, v \in {<<Lit(<<"ab">>)>>}}
    \cup {Substitution(toks) : toks \in TokensOf(words)}

\* An expansion alone, in double quotes, and with something before and behind it.
Around(c) ==
    {<<c>>, <<InDouble(c), Lit(<<"x">>)>>,
     <<Lit(<<"ab">>), c, InDouble(Lit(<<"x", " ">>)), InDouble(c), Quoted(<<"ab">>)>>}

Once == UNION {Around(c) : c \in Expansions(Simple)}
Deep == {<<c>> : c \in Expansions({<<Quoted(<<"ab">>), Lit(<<"x">>)>>})}
Twice == UNION {Around(c) : c \in Expansions(Deep)}

MCPhrases ==
    TokensOf(Simple \cup {<<c>> : c \in Expansions(Simple)})
    \cup {<<Word(w)>> : w \in Once \cup Twice}
    \cup {<<Op(OperatorNames[i]), Op(OperatorNames[j]), Newline>> : i, j \in DOMAIN OperatorNames}
=============================================================================
