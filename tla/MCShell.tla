------------------------------ MODULE MCShell -------------------------------
(* Instances of Shell for TLC: lines built from a few words and commands.  *)
EXTENDS Shell

X == <<"x">>
Y == <<"y">>
A == <<"a">>
F == <<"f">>
IFS == <<"IFS">>

-----------------------------------------------------------------------------
(* Words: unquoted and quoted components.                                  *)

Lit(text) == [kind |-> "lit", text |-> text, splittable |-> TRUE, remove_backslash |-> TRUE]
Quoted(text) == [kind |-> "lit", text |-> text, splittable |-> FALSE, remove_backslash |-> FALSE]
Tilde(name) == [kind |-> "tilde", name |-> name, splittable |-> FALSE]
Expr(oper, name, allow_null, word) ==
    [oper |-> oper, name |-> name, allow_null |-> allow_null, word |-> word]
Param(expr) == [kind |-> "param", expr |-> expr, splittable |-> TRUE]
QuotedParam(expr) == [kind |-> "param", expr |-> expr, splittable |-> FALSE]
Get(name) == Expr("Get", name, FALSE, << >>)

WordX == <<Param(Get(X))>>
Operators ==
    {Expr(oper, name, null, word) :
        oper \in {"GetDefault", "AssignDefault", "CheckSet", "AlternativeValue"},
        name \in {X, Y}, null \in BOOLEAN, word \in {<< >>, <<<<Lit(A)>>, WordX>>}}

Words ==
    {<<Lit(A)>>, <<Lit(<<"p", "*">>)>>, <<Quoted(<<"p", "*">>)>>, <<Lit(<<"\\", "a">>)>>,
     WordX, <<QuotedParam(Get(X))>>, <<Quoted(A), Param(Get(X))>>, <<Lit(A), Param(Get(X)), Lit(A)>>,
     <<Param(Get(<<"@">>))>>, <<Param(Get(<<"*">>)), Lit(A)>>,
     <<Param(Get(<<"#">>)), Param(Get(<<"1">>)), Param(Get(<<"5">>))>>,
     <<QuotedParam(Expr("StringLength", X, FALSE, << >>))>>,
     <<Tilde(NoneV)>>, <<Tilde(Str(A))>>,
     <<QuotedParam(Expr("GetDefault", Y, FALSE, <<<<Param(Expr("AssignDefault", Y, FALSE,
         <<<<Lit(A)>>>>))>>>>))>>}
    \cup {<<Param(e)>> : e \in Operators}

-----------------------------------------------------------------------------
(* Commands.                                                               *)

Command(type) == [type |-> type, asynchronous |-> FALSE, redirects |-> << >>]
SimpleOf(assignments, words, redirs) ==
    [assignments |-> assignments, words |-> words, redirs |-> redirs] @@ Command("simple")
Run(words) == SimpleOf(<< >>, words, << >>)
Set(name, word) == [name |-> name, value |-> word]
In(file) == [kind |-> "file", file |-> file, fd |-> 0, mode |-> "input"]
Out(file) == [kind |-> "file", file |-> file, fd |-> 1, mode |-> "output"]
Dup(src, dest) == [kind |-> "fd", src |-> src, dest |-> dest]
IfOf(condition, true, false) ==
    [condition |-> condition, true |-> true, false |-> false] @@ Command("if")
ListOf(commands) == [commands |-> commands] @@ Command("list")
PipelineOf(commands, inverted) ==
    [commands |-> commands, inverted |-> inverted] @@ Command("pipeline")
Function(body) == [name |-> F, body |-> body] @@ Command("function")
Async(cmd) == [cmd EXCEPT !.asynchronous = TRUE]
To(cmd, redir) == [cmd EXCEPT !.redirects = <<redir>>]

\* One command: every pair of words; assignments of X and of IFS; redirections.
Expansions ==
    {SimpleOf(assignments, <<v, w>>, << >>) :
        assignments \in {<< >>, <<Set(X, <<Lit(A)>>)>>},
        v \in Words, w \in {WordX, <<Param(Get(Y))>>}}
    \cup {SimpleOf(<<Set(n, w)>>, words, << >>) :
            n \in {X, IFS}, w \in Words, words \in {<< >>, <<WordX>>}}
    \cup {SimpleOf(<<Set(X, w), Set(Y, WordX)>>, <<WordX, <<Param(Get(Y))>>>>,
                   redirs) :
            w \in {<<Lit(A)>>, <<Param(Get(<<"#">>))>>},
            redirs \in {<<Out(w1)>> : w1 \in Words} \cup {<<In(<<Lit(A)>>), Dup(0, 3), Dup(3, 1)>>,
                                                        <<Dup(4, 1)>>, <<Out(<<Lit(Y)>>)>>}}

\* Compound commands of simple ones, as the parser builds them: every stage of
\* a pipeline but the last is asynchronous.
Small2 == {Run(<<<<Lit(A)>>, WordX>>), SimpleOf(<<Set(X, <<Lit(Y)>>)>>, << >>, << >>)}
Small == Small2 \cup {SimpleOf(<<Set(X, <<Lit(A)>>)>>, <<WordX>>, << >>),
                     Async(Run(<<<<Lit(F)>>>>))}
Braces == {To(ListOf(<<a, b>>), Out(<<Lit(A)>>)) : a, b \in Small}
Inner == Small \cup Braces \cup {Function(ListOf(<<a>>)) : a \in Small}
         \cup {SimpleOf(<< >>, << >>, << >>)}
Compounds ==
    {ListOf(<<a, b>>) : a \in Inner, b \in Small}
    \cup {PipelineOf(<<Async(a), b>>, inverted) : a \in Inner, b \in Small, inverted \in BOOLEAN}
    \cup {PipelineOf(<<Async(a), Async(b), To(ListOf(<<c>>), Dup(1, 2))>>, FALSE) :
            a \in Small, b, c \in Small2}
    \cup {IfOf(<<a>>, <<b>>, <<c, b>>) : a \in Inner, b, c \in Small2}
    \cup {IfOf(<<PipelineOf(<<a>>, TRUE)>>, << >>, <<IfOf(<<b>>, <<c>>, << >>)>>) :
            a, b \in Small2, c \in Small}

AllCommands == Expansions \cup Compounds

MCPositional == <<F, <<"b">>, <<"c", " ", "d">>>>
MCEnvironment == [n \in {<<"HOME">>, X} |->
                    IF n = X THEN <<" ", "a", " ", " ", "b", "*", " ">> ELSE <<"h">>]
MCHomeDir == <<"d">>
MCUnopenable == {Y}
MCGlobTable == [p \in {<<"p", "*">>, <<"b", "*">>} |->
                  IF p = <<"p", "*">> THEN << <<"p", "1">>, <<"p", "2">> >> ELSE << >>]
MCFates == {[ready |-> 0, sets |-> <<X, <<"z">>>>], [exit |-> 1], [stop |-> TRUE], [err |-> TRUE]}
=============================================================================
