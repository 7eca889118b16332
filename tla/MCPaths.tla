------------------------------- MODULE MCPaths -------------------------------
(***************************************************************************)
(* A shell started in /h, which has a directory, a link to /b and a program; *)
(* /b has another program of the same name, and one named like a builtin.   *)
(***************************************************************************)
EXTENDS Paths

b == <<"b">>   c == <<"c">>   d == <<"d">>   h == <<"h">>   l == <<"l">>   n == <<"n">>   x == <<"x">>

TreeMC ==
  [path \in {<<h>>, <<h, d>>, <<h, l>>, <<h, x>>, <<b>>, <<b, d>>, <<b, x>>, <<b, c>>, <<h, d, d>>} |->
     CASE path = <<h, l>> -> Link(<<b>>)
       [] path \in {<<h, x>>, <<b, x>>, <<b, c>>} -> Entry("program")
       [] OTHER -> Entry("dir")]
VolatileMC ==
  [path \in {<<h, d, d>>, <<b, x>>, <<h, d, x>>} |->
     IF path = <<h, d, d>> THEN Entry("dir") ELSE Entry("program")]

StartedMC == <<h>>
BinDirMC  == Absolute(<<n>>)
DefaultPathMC == <<Absolute(<<b>>)>>

\* PATH, HOME and OLDPWD, as the shell inherits them
Given(path, home, oldpwd) ==
  [var \in {"PATH", "HOME", "OLDPWD"} |->
     CASE var = "PATH" -> path [] var = "HOME" -> home [] var = "OLDPWD" -> oldpwd]
InheritedMC ==
  { Given(Unset, Unset, Unset),
    Given(<<Absolute(<<h, d>>), Absolute(<<b>>), Absolute(<<h, d>>)>>, <<Absolute(<<h>>)>>, Unset),
    Given(<<Relative(<<d>>), Empty>>, <<Dash>>, <<Relative(<<d, Parent, l>>)>>) }

ExportsMC == {<<"PATH", Absolute(<<h, l>>)>>, <<"HOME", Absolute(<<b, d>>)>>, <<"OLDPWD", Relative(<<d, Parent, Parent, d>>)>>}

OperandsMC ==
  { Empty, Dash, Absolute(<<h, l, Parent>>), Absolute(<<b, x, Parent>>), Relative(<<d>>), Relative(<<Parent, Current>>),
    Relative(<<l, d>>), Relative(<<d, Parent, d>>), Relative(<<n, Parent>>) }

colon == <<"d", ":">>
SpecsMC ==
  [dirs : {<<Absolute(<<b>>)>>, <<Absolute(<<h, d>>), Absolute(<<n>>)>>, <<Relative(<<d>>), Absolute(<<b>>), Relative(<<d>>)>>,
           <<Relative(<<colon>>), Absolute(<<b>>)>>},
   dedup : BOOLEAN, only_existing : BOOLEAN]

f == Relative(<< <<"f">> >>)
FunctionsMC == {f}
BuiltinsMC  == {Relative(<<c>>), f}
CommandsMC  ==
  [restriction : {"none", "command", "builtin"},
   name : {f, Relative(<<c>>), Relative(<<x>>), Relative(<<n>>), Absolute(<<b, x>>)}] \cup
  {[restriction |-> "command", name |-> Empty]}

\* What the theorems about Paths assume of the files holds of these.
ASSUME FilesAreTrees == LinksStay /\ DirectoriesStay

==============================================================================
