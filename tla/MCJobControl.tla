---------------------------- MODULE MCJobControl ----------------------------
(* Instances of JobControl for TLC. *)
EXTENDS JobControl, TLC

CONSTANTS p1, p2, p3, p4  \* pids

Ext == [kind |-> "ext", wait |-> TRUE, tty |-> TRUE]
Less == [Ext EXCEPT !.tty = FALSE]           \* ext < file
Stage == [Ext EXCEPT !.wait = FALSE]         \* ext | ...
LessStage == [Less EXCEPT !.wait = FALSE]    \* ext < file | ...
Do(kind) == [Ext EXCEPT !.kind = kind]

\* One pipeline per line; the last command may be anything.
Pipelines ==
    {<<Ext>>, <<Less>>, <<Stage, Less>>, <<LessStage, Less>>,
     <<[Do("builtin") EXCEPT !.wait = FALSE], Less>>,
     <<Stage, Do("builtin")>>, <<Do("jobs")>>, <<Do("fg")>>,
     <<Stage>>, <<Stage, Do("fg")>>, <<Stage, Do("jobs")>>, <<LessStage, Do("call")>>,
     <<[Do("fail") EXCEPT !.wait = FALSE], Ext>>}
PipelineFunction == <<LessStage, Less>>

\* Lists, background commands, functions and errors as well.
Lines ==
    {<<Ext>>, <<Ext, Less>>, <<Stage, Less>>, <<Stage>>,
     <<Ext, Do("fail")>>, <<Do("call"), Ext>>, <<Ext, Do("fg")>>,
     <<Stage, Do("jobs"), Less>>, <<[Do("call") EXCEPT !.wait = FALSE], Do("builtin")>>,
     <<Do("builtin"), Do("fg")>>, <<Do("jobs")>>}

FunctionLine == <<Less, Do("builtin")>>

\* The smallest program that shows the disagreement with the documentation.
Background == {<<Stage>>}

PidSymmetry == Permutations(Pid)

\* What the theorems of JobControlProofs assume of the programs holds of these.
ASSUME PipelinesAreOne == Programs = Pipelines => PipelinesOnly
=============================================================================
