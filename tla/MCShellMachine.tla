--------------------------- MODULE MCShellMachine ---------------------------
(* Instances of ShellMachine for TLC: every program of a small instruction *)
(* set, between a fixed beginning and Exit.                                *)
EXTENDS ShellMachine

Reg(n) == [fp |-> n]
Imm(v) == [imm |-> v]
LastStatus == [last |-> TRUE]
Rel(n) == [rel |-> n]
X == <<"x">>

\* Two frames; register 1 of the upper one holds a list of one string.  Its
\* registers are 1 and 2; 3 and 4 are the lower frame's, 0 is nobody's.
Prelude ==
    <<[op |-> "PushFrame", size |-> 2],
      [op |-> "Copy", source |-> Imm(Str(X)), destination |-> Reg(1)],
      [op |-> "PushFrame", size |-> 2],
      [op |-> "Copy", source |-> Imm(List(<<Str(X)>>)), destination |-> Reg(1)]>>

Instructions ==
    {[op |-> "Copy", source |-> Reg(1), destination |-> Reg(2)],
     [op |-> "Copy", source |-> Reg(0), destination |-> Reg(2)],
     [op |-> "StringAppend", source |-> Reg(3), destination |-> Reg(2)],
     [op |-> "StringLength", string |-> Reg(3), length |-> Reg(2)],
     [op |-> "JoinList", list |-> Reg(1), destination |-> Reg(2)],
     [op |-> "ListAppend", value |-> Reg(3), list |-> Reg(1), split |-> TRUE,
      glob |-> FALSE, remove_backslash |-> TRUE],
     [op |-> "ListAppendList", src_list |-> Reg(1), dest_list |-> Reg(1)],
     [op |-> "IsNone", source |-> Reg(2), destination |-> Reg(2)],
     [op |-> "IsNoneOrEmptyString", source |-> Reg(3), destination |-> Reg(2)],
     [op |-> "TildeExpand", name |-> Imm(NoneV), destination |-> Reg(2)],
     [op |-> "GetEnv", name |-> Imm(Str(<<"#">>)), target |-> Reg(2)],
     [op |-> "SetEnv", name |-> Imm(Str(X)), value |-> Reg(2)],
     [op |-> "PushFrame", size |-> 1], [op |-> "PopFrame"],
     [op |-> "PushEnvironment"], [op |-> "PopEnvironment"],
     [op |-> "PushIo"], [op |-> "PopIo"], [op |-> "PushPipe"], [op |-> "PopPipe"],
     [op |-> "DupFd", src_fd |-> 1, dest_fd |-> 2],
     [op |-> "OpenFile", name |-> Reg(1), fd_number |-> 0, mode |-> "input"],
     [op |-> "Jump", target |-> Rel(2)], [op |-> "Jump", target |-> Rel(-1)],
     [op |-> "JumpIfZero", condition |-> Reg(2), target |-> [abs |-> 8]],
     [op |-> "JumpIfNonZero", condition |-> Reg(2), target |-> Rel(2)],
     [op |-> "SpawnCommand", argv |-> Reg(1), status |-> Reg(2)],
     [op |-> "Wait", status |-> Reg(2)],
     [op |-> "InvertLastWait"],
     [op |-> "DefineFunction", fname |-> X, program |-> << >>],
     [op |-> "Exit", value |-> Reg(2)], [op |-> "Error", message |-> Reg(1)],
     [op |-> "Add", a |-> Reg(1), b |-> Reg(2), destination |-> Reg(2)]}

AnyPrograms ==
    {Prelude \o <<a, b, c, [op |-> "Exit", value |-> LastStatus]>> :
        a, b, c \in Instructions}

NoGlobs == << >>
MCPositional == <<X>>
MCEnvironment == [n \in {<<"HOME">>} |-> X]
MCFates == {[ready |-> 1, sets |-> <<X, X>>], [exit |-> 0], [stop |-> TRUE], [err |-> TRUE]}
=============================================================================
