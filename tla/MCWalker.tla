------------------------------ MODULE MCWalker -------------------------------
(***************************************************************************)
(* Two small trees with hidden names, a link back to a directory above it,  *)
(* a link to elsewhere and one to nowhere, and patterns of every kind.      *)
(***************************************************************************)
EXTENDS Walker

Glob == INSTANCE Meaning WITH AsDocumented <- FALSE

AlphabetMC == {"a", "b", "h", ".", "/", "*", "^"}

a == <<"a">>     b == <<"b">>     h == <<"h">>
ab == <<"a", "b">>   hidden == <<".", "a">>   star == <<"*">>

HomeMC == <<h>>

Dir  == Entry("dir")
File == Entry("file")

\* /h/a is a directory with a hidden one below it; /h/b leads to /b, /h/ab is a file
Linked ==
  [path \in {<<h>>, <<h, a>>, <<h, a, b>>, <<h, a, hidden>>, <<h, a, hidden, b>>,
             <<h, b>>, <<h, ab>>, <<b>>, <<b, a>>} |->
     CASE path = <<h, b>> -> Link(<<b>>)
       [] path \in {<<h>>, <<h, a>>, <<h, a, hidden>>, <<b>>} -> Dir
       [] OTHER -> File]
\* /h/a/a leads back to /h, /h/ab to nowhere; /h/.a is hidden, /h/* has a special name
Looping ==
  [path \in {<<h>>, <<h, a>>, <<h, a, a>>, <<h, a, b>>, <<h, hidden>>, <<h, ab>>, <<h, star>>,
             <<b>>, <<b, b>>} |->
     CASE path = <<h, a, a>> -> Link(<<h>>)
       [] path = <<h, ab>> -> Link(<<a>>)
       [] path \in {<<h>>, <<h, a>>, <<b>>, <<h, star>>} -> Dir
       [] OTHER -> File]
TreesMC == {Linked, Looping}

Relative(components) == [absolute |-> FALSE, components |-> components]
Rooted(components)   == [absolute |-> TRUE, components |-> components]

AnyName == Glob!Named(<<Glob!Star>>)
A == Glob!Named(<<Glob!Char("a")>>)
B == Glob!Named(<<Glob!Char("b")>>)
H == Glob!Named(<<Glob!Char("h")>>)

WantedMC == {
  Relative(<<A, B>>),
  Relative(<<AnyName, B>>),
  Relative(<<AnyName, AnyName>>),
  Relative(<<Glob!Named(<<Glob!Char("a"), Glob!Star>>)>>),
  Relative(<<Glob!Named(<<Glob!AnyChar, Glob!Char("b")>>)>>),
  Relative(<<Glob!Named(<<Glob!Class({"a", "b", "^"})>>), Glob!Named(<<Glob!Not({"b"})>>)>>),
  Relative(<<Glob!Named(<<Glob!Either({<<"a">>, <<"b">>, <<>>}), Glob!Star>>), A>>),
  Relative(<<Glob!Named(<<Glob!Char("*")>>)>>),
  Relative(<<Glob!Up, AnyName, B>>),
  Relative(<<Glob!Recursively>>),
  Relative(<<Glob!Recursively, B>>),
  Relative(<<Glob!Recursively, AnyName>>),
  Relative(<<Glob!Recursively, A, Glob!Recursively>>),
  Relative(<<Glob!Recursively, Glob!Named(<<Glob!Char("a"), Glob!Not({"b"}), Glob!Char("b")>>)>>),
  Relative(<<AnyName, Glob!Recursively, Glob!Recursively>>),
  Relative(<<A, Glob!Recursively, Glob!Named(<<Glob!AnyChar>>)>>),
  Rooted(<<AnyName, A>>),
  Rooted(<<H, Glob!Recursively, B>>),
  Rooted(<<Glob!Recursively, B>>),
  Relative(<<A, Glob!Broken(<<"{", "a", "{", "}">>)>>),
  Relative(<<Glob!Broken(<<"[", "]">>)>>),
  Relative(<<Glob!Broken(<<"a", "[", "b">>)>>) }

VolatileMC == {<<h, a, b>>, <<h, ab, b>>, <<b, b>>}

\* What the theorems about Walker assume of the patterns holds of these.
ASSUME PatternsFit == PatternsAreRead /\ PatternsAreRefused /\ NamesFit /\ \A n \in 0..4 : PathsFit(n)

==============================================================================
