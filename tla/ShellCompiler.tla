--------------------------- MODULE ShellCompiler ----------------------------
(***************************************************************************)
(* The compiler from parsed commands to the machine's instructions         *)
(* (src/shell_compiler/src/lib.rs).  Every operator that emits code takes  *)
(* the compiler and returns it: the program so far and, for each frame     *)
(* under construction, its register allocator and where its PushFrame is.  *)
(*                                                                         *)
(* Commands are records with a "type":                                     *)
(*   simple    assignments, words, redirs       if    condition, true, false *)
(*   list      commands (a program or braces)   pipeline  inverted, commands *)
(*   function  name, body                                                  *)
(* and all have asynchronous and redirects.  A word is a sequence of       *)
(* components: literals, tildes and parameter expansions.  What the        *)
(* compiler refuses (subshells, loops, command substitution, the pattern   *)
(* operators of ${}) is left out.                                          *)
(***************************************************************************)
EXTENDS Registers, Values

Reg(r) == [fp |-> r]
Imm(v) == [imm |-> v]
LastWaitStatus == [last |-> TRUE]

NewCompiler == [program |-> << >>, frames |-> << >>]

\* The instructions code, pushed one after the other.
Emit(c, code) == [c EXCEPT !.program = @ \o code]

\* The register frame().allocate() answers with, and the compiler after it.
NewReg(c) == allocated(Last(c.frames).alloc)
Take(c) == [c EXCEPT !.frames[Len(c.frames)].alloc = allocate(@)]
Release(c, r) == [c EXCEPT !.frames[Len(c.frames)].alloc = free(@, r)]

\* Code(c), where c is computed first: TLC evaluates arguments when it needs them.
After(c, Code(_)) == CHOOSE d \in {Code(a) : a \in {c}} : TRUE

\* The code that Code emits with a register r allocated for it and then freed.
Using(c, Code(_, _)) == After(c, LAMBDA a : Release(Code(Take(a), NewReg(a)), NewReg(a)))

\* What allocate_list and allocate_string emit for their register.
NewList(r) == [op |-> "Copy", source |-> Imm(List(<< >>)), destination |-> Reg(r)]
NewString(r) == [op |-> "Copy", source |-> Imm(Str(<< >>)), destination |-> Reg(r)]

\* reserve_frame and commit_frame, which patches the size of the PushFrame.
ReserveFrame(c) ==
    [Emit(c, <<[op |-> "PushFrame", size |-> 0]>>) EXCEPT
        !.frames = Append(@, [alloc |-> New, start |-> Len(c.program) + 1])]

Committed(c, start, size) ==
    Emit([c EXCEPT !.frames = Front(@), !.program[start].size = size], <<[op |-> "PopFrame"]>>)

\* Mutant of CommitFrame: the frame gets the registers still in use only.
CommitFrameLiveOnly(c) ==
    LET f == Last(c.frames)
    IN  Committed(c, f.start, frame_size(f.alloc) - Len(f.alloc.free_list))

CommitFrame(c) ==
    LET f == Last(c.frames)
    IN  Committed(c, f.start, frame_size(f.alloc))

\* if_then_else(condition, then_, else_) in three parts: the test, the jump over
\* else_, which is where a failed test leads, and the end, where that jump leads.
\* Both jumps are patched when their targets are known.
IfZero(c, condition) ==
    Emit(c, <<[op |-> "JumpIfZero", condition |-> condition, target |-> [abs |-> 0]]>>)

Otherwise(c, first) ==
    [Emit(c, <<[op |-> "Jump", target |-> [abs |-> 0]]>>)
        EXCEPT !.program[first].target.abs = Len(c.program) + 2]

\* Mutant of EndIf: the jump over else_ leads back to itself.
EndIfLoops(c, second) == [c EXCEPT !.program[second].target.abs = second]

EndIf(c, second) == [c EXCEPT !.program[second].target.abs = Len(c.program) + 1]

ElsePart(c, Else(_)) == EndIf(Else(c), Len(c.program))
IfThenElse(c, condition, Then(_), Else(_)) ==
    ElsePart(Otherwise(Then(IfZero(c, condition)), Len(c.program) + 1), Else)

-----------------------------------------------------------------------------
(* Words.                                                                  *)

\* $@ or $* that is a word of its own.
IsPositionals(word) ==
    /\ Len(word) = 1 /\ word[1].kind = "param" /\ word[1].expr.oper = "Get"
    /\ word[1].expr.word = << >> /\ word[1].expr.name \in {<<"@">>, <<"*">>}

GetPositionals(c, argv, word) ==
    Using(c, LAMBDA a, r :
        Emit(a, <<NewString(r),
                  [op |-> "GetEnv", name |-> Imm(Str(word[1].expr.name)), target |-> Reg(r)],
                  [op |-> "ListAppendList", src_list |-> Reg(r), dest_list |-> Reg(argv)]>>))

RECURSIVE WordExpand(_, _, _)

WordsExpand(c, argv, words) == FoldLeft(LAMBDA a, w : WordExpand(a, argv, w), c, words)

\* The words of ${name:-words} as one string in target.
JoinedWords(c, words, target) ==
    Using(c, LAMBDA a, argv :
        Emit(WordsExpand(Emit(a, <<NewList(argv)>>), argv, words),
             <<[op |-> "JoinList", list |-> Reg(argv), destination |-> Reg(target)]>>))

\* The operators of ${}, on the parameter's value in slot.
Operator(c, slot, target, expr) ==
    LET Keep(a) == Emit(a, <<[op |-> "Copy", source |-> Reg(slot), destination |-> Reg(target)]>>)
        Default(a) == JoinedWords(a, expr.word, target)
        Assign(a) == Emit(Default(a), <<[op |-> "SetEnv", name |-> Imm(Str(expr.name)),
                                         value |-> Reg(target)]>>)
        Complain(a) == IF expr.word = << >>
                         THEN Emit(a, <<[op |-> "Error", message |-> Imm(Str(<<"is not set">>))]>>)
                         ELSE Emit(Default(a), <<[op |-> "Error", message |-> Reg(target)]>>)
        \* The test is a register of its own, freed when both ways have been compiled.
        IfUnset(Then(_), Else(_)) ==
            Using(c, LAMBDA a, test :
                IfThenElse(Emit(a, <<[op |-> IF expr.allow_null THEN "IsNone"
                                             ELSE "IsNoneOrEmptyString",
                                      source |-> Reg(slot), destination |-> Reg(test)]>>),
                           Reg(test), Then, Else))
    IN  CASE expr.oper = "Get" -> Keep(c)
          [] expr.oper = "StringLength" ->
                Emit(c, <<[op |-> "StringLength", string |-> Reg(slot), length |-> Reg(target)]>>)
          [] expr.oper = "GetDefault" -> IfUnset(Default, Keep)
          [] expr.oper = "AssignDefault" -> IfUnset(Assign, Keep)
          [] expr.oper = "CheckSet" -> IfUnset(Complain, Keep)
          [] expr.oper = "AlternativeValue" ->
                IfUnset(LAMBDA a : Emit(a, <<NewString(target)>>), Default)

\* parameter_expand.  The register of the parameter's value is never freed.
ParameterExpand(c, target, expr) ==
    Operator(Emit(Take(c), <<[op |-> "GetEnv", name |-> Imm(Str(expr.name)),
                              target |-> Reg(NewReg(c))]>>),
             NewReg(c), target, expr)

\* What an expansion leaves in a new register is appended to the word in r.
AppendExpanded(c, r, Expand(_, _)) ==
    Using(c, LAMBDA a, e :
        Emit(Expand(Emit(a, <<NewString(e)>>), e),
             <<[op |-> "StringAppend", source |-> Reg(e), destination |-> Reg(r)]>>))

Component(c, r, component) ==
    CASE component.kind = "lit" ->
            Emit(c, <<[op |-> "StringAppend", source |-> Imm(Str(component.text)),
                       destination |-> Reg(r)]>>)
      [] component.kind = "tilde" ->
            AppendExpanded(c, r, LAMBDA a, e :
                Emit(a, <<[op |-> "TildeExpand", name |-> Imm(component.name),
                           destination |-> Reg(e)]>>))
      [] component.kind = "param" ->
            AppendExpanded(c, r, LAMBDA a, e : ParameterExpand(a, e, component.expr))

\* A word is split, and is a pattern, unless a component of it is quoted.
Splittable(word) == \A i \in DOMAIN word : word[i].splittable
RemovesBackslash(word) ==
    \A i \in DOMAIN word : word[i].kind = "lit" => word[i].remove_backslash

WordExpand(c, argv, word) ==
    IF IsPositionals(word) THEN GetPositionals(c, argv, word)
    ELSE Using(c, LAMBDA a, r :
             Emit(FoldLeft(LAMBDA d, component : Component(d, r, component),
                           Emit(a, <<NewString(r)>>), word),
                  <<[op |-> "ListAppend", value |-> Reg(r), list |-> Reg(argv),
                     split |-> Splittable(word), glob |-> Splittable(word),
                     remove_backslash |-> RemovesBackslash(word)]>>))

-----------------------------------------------------------------------------
(* Redirections and assignments.                                           *)

Redirect(c, redir) ==
    IF redir.kind = "fd"
      THEN Emit(c, <<[op |-> "DupFd", src_fd |-> redir.src, dest_fd |-> redir.dest]>>)
      ELSE Using(c, LAMBDA a, r :
               Emit(WordExpand(Emit(a, <<NewList(r)>>), r, redir.file),
                    <<[op |-> "OpenFile", name |-> Reg(r), fd_number |-> redir.fd,
                       mode |-> redir.mode]>>))

\* Mutant of PopRedirection: the fd table stays.
PopRedirectionNever(c, redirs) == c

\* apply_redirection, and pop_redirection when there was one.
ApplyRedirection(c, redirs) ==
    IF redirs = << >> THEN c ELSE FoldLeft(Redirect, Emit(c, <<[op |-> "PushIo"]>>), redirs)
PopRedirection(c, redirs) ==
    IF redirs = << >> THEN c ELSE Emit(c, <<[op |-> "PopIo"]>>)

ProcessAssignments(c, assignments) ==
    FoldLeft(LAMBDA d, assignment :
               Using(d, LAMBDA a, r :
                   Emit(WordExpand(Emit(a, <<NewList(r)>>), r, assignment.value),
                        <<[op |-> "JoinList", list |-> Reg(r), destination |-> Reg(r)],
                          [op |-> "SetEnv", name |-> Imm(Str(assignment.name)),
                           value |-> Reg(r)]>>)),
             c, assignments)

-----------------------------------------------------------------------------
(* Commands.                                                               *)

\* Mutant of Scope: assignments before a command are not scoped.
ScopeNever(cmd, ins) == << >>

\* Assignments before a command are made in an environment of its own.
Scope(cmd, ins) == IF cmd.words # << >> /\ cmd.assignments # << >> THEN <<ins>> ELSE << >>

Launch(c, argv, cmd) ==
    Using(c, LAMBDA a, st :
        Emit(a, <<[op |-> "SpawnCommand", argv |-> Reg(argv), status |-> Reg(st)]>>
                \o IF cmd.asynchronous THEN << >> ELSE <<[op |-> "Wait", status |-> Reg(st)]>>))

Arguments(c, argv, cmd) == WordsExpand(ProcessAssignments(c, cmd.assignments), argv, cmd.words)

\* A simple command: redirect, scope the assignments, expand, spawn, wait.  The
\* register of its argument list lasts as long as the frame.
Invocation(c, argv, cmd) ==
    Emit(Launch(Arguments(Emit(c, Scope(cmd, [op |-> "PushEnvironment"])), argv, cmd), argv, cmd),
         Scope(cmd, [op |-> "PopEnvironment"]))

SimpleCommand(c, cmd) ==
    PopRedirection(
        Invocation(ApplyRedirection(Emit(Take(c), <<NewList(NewReg(c))>>), cmd.redirs),
                   NewReg(c), cmd),
        cmd.redirs)

RECURSIVE CompileCommand(_, _)

Compound(c, commands) == FoldLeft(CompileCommand, c, commands)

\* What a stage of a pipeline does before its command.
Plumbing(commands, i) ==
    <<[op |-> "PushIo"]>> \o (IF i > 1 THEN <<[op |-> "PopPipe"]>> ELSE << >>)
                          \o (IF i < Len(commands) THEN <<[op |-> "PushPipe"]>> ELSE << >>)

\* Mutant of Stage: the fd tables of the stages are popped at the end only.
StageKeepsIo(c, commands, i) ==
    Emit(CompileCommand(Emit(c, Plumbing(commands, i)), commands[i]),
         IF i < Len(commands) THEN << >> ELSE [n \in DOMAIN commands |-> [op |-> "PopIo"]])

\* One stage of a pipeline.
Stage(c, commands, i) ==
    Emit(CompileCommand(Emit(c, Plumbing(commands, i)), commands[i]), <<[op |-> "PopIo"]>>)

Stages(c, commands) ==
    IF Len(commands) <= 1 THEN Compound(c, commands)
    ELSE FoldLeft(LAMBDA a, i : Stage(a, commands, i), c, [i \in DOMAIN commands |-> i])

PipelineCommand(c, cmd) ==
    Emit(Stages(c, cmd.commands), IF cmd.inverted THEN <<[op |-> "InvertLastWait"]>> ELSE << >>)

\* finish
Finish(c) == Emit(c, <<[op |-> "Exit", value |-> LastWaitStatus]>>).program

FunctionDefinition(c, cmd) ==
    Emit(c, <<[op |-> "DefineFunction", fname |-> cmd.name,
               program |-> Finish(CompileCommand(NewCompiler, cmd.body))]>>)

CommandBody(c, cmd) ==
    CASE cmd.type = "simple" -> SimpleCommand(c, cmd)
      [] cmd.type = "if" ->
            IfThenElse(Compound(c, cmd.condition), LastWaitStatus,
                       LAMBDA a : Compound(a, cmd.true), LAMBDA a : Compound(a, cmd.false))
      [] cmd.type = "list" -> Compound(c, cmd.commands)
      [] cmd.type = "pipeline" -> PipelineCommand(c, cmd)
      [] cmd.type = "function" -> FunctionDefinition(c, cmd)

CompileCommand(c, cmd) ==
    After(c, LAMBDA a :
        CommitFrame(
            PopRedirection(CommandBody(ApplyRedirection(ReserveFrame(a), cmd.redirects), cmd),
                           cmd.redirects)))

Compile(cmd) == Finish(CompileCommand(NewCompiler, cmd))
=============================================================================
