---------------------------- MODULE ShellMachine ----------------------------
(***************************************************************************)
(* The virtual machine that runs compiled shell programs                   *)
(* (src/shell_vm/src/lib.rs and op.rs): one action per instruction, one    *)
(* for an instruction that fails.  The host that spawns commands is an     *)
(* environment: it may run the command at once, start a child, or fail.    *)
(*                                                                         *)
(* The program counter and the slots of the stack count from 1.            *)
(***************************************************************************)
EXTENDS Values

CONSTANTS Programs,     \* programs to run
          Positional,   \* $0, $1, ...
          Environment0, \* environment of a new machine, with HOME or not
          HomeDir,      \* what the host answers for ~
          Unopenable,   \* files that cannot be opened
          Fates,        \* what may become of a command: see SpawnCommand
          MaxSpawned    \* bound on the commands given to the host

ASSUME MachineAssumption ==
    /\ Len(Positional) \in 0 .. 9
    /\ \A fate \in Fates : DOMAIN fate \in {{"ready"}, {"ready", "sets"}, {"exit"}, {"stop"}, {"err"}}
    /\ MaxSpawned \in Nat

SeqOver(s) == s \in Seq({s[n] : n \in DOMAIN s})

\* The size of a frame is a usize.
ProgramOK(prog) ==
    /\ SeqOver(prog)
    /\ \A n \in DOMAIN prog : prog[n].op = "PushFrame" => prog[n].size \in Nat

ASSUME ProgramsAssumption == \A prog \in Programs : ProgramOK(prog)

VARIABLES program,          \* the instructions
          pc,               \* the next one
          stack,            \* values
          frames,           \* [fp, size] of each frame
          environment,      \* stack of environments
          io_env,           \* stack of fd tables
          pipes,            \* read ends of pipes to be assigned
          last_wait_status,
          status,           \* how the program ended
          value,            \* the value of Status::Complete
          funcs,            \* function registry of the host: name -> program
          spawned,          \* commands given to the host, with their fate
          npipes            \* pipes created so far

code == <<program, status, value>>
scopes == <<environment, io_env, pipes, npipes>>
host == <<funcs, spawned>>
vars == <<code, pc, stack, frames, scopes, last_wait_status, host>>

\* The descriptors of a new IoEnvironment; a pipe's ends are named by number.
Stdio == [fd \in 0 .. 2 |-> [std |-> fd]]

MachineInit(prog) ==
    /\ program = prog
    /\ pc = 1
    /\ stack = << >>
    /\ frames = << >>
    /\ environment = <<Environment0>>
    /\ io_env = <<Stdio>>
    /\ pipes = << >>
    /\ last_wait_status = NoneV
    /\ status = "Running"
    /\ value = NoneV
    /\ funcs = << >>
    /\ spawned = << >>
    /\ npipes = 0

Init == \E prog \in Programs : MachineInit(prog)

-----------------------------------------------------------------------------
(* Operands: [imm |-> value], [fp |-> offset], [last |-> TRUE].            *)

\* Mutant of Slot: registers are offsets from the slot above the frame.
SlotOffByOne(o) == Last(frames).fp - o.fp
Slot(o) == Last(frames).fp - o.fp + 1
Addressable(o) == frames # << >> /\ Slot(o) \in DOMAIN stack

CanRead(o) ==
    \/ "imm" \in DOMAIN o
    \/ "last" \in DOMAIN o /\ ~IsNone(last_wait_status)
    \/ "fp" \in DOMAIN o /\ Addressable(o)
CanWrite(o) == "fp" \in DOMAIN o /\ Addressable(o)

Read(o) == CASE "imm" \in DOMAIN o -> o.imm
             [] "last" \in DOMAIN o -> last_wait_status
             [] OTHER -> stack[Slot(o)]
Write(o, v) == stack' = [stack EXCEPT ![Slot(o)] = v]

Reads(o, Test(_)) == CanRead(o) /\ Test(Read(o))

Env == Last(environment)
SetIn(env, name, s) == [n \in DOMAIN env \cup {name} |-> IF n = name THEN s ELSE env[n]]
Ifs == IF <<"IFS">> \in DOMAIN Env THEN Env[<<"IFS">>] ELSE DefaultIfs
Io == Last(io_env)
AssignFd(fd, d) == io_env' = [io_env EXCEPT ![Len(io_env)] =
                                [n \in DOMAIN Io \cup {fd} |-> IF n = fd THEN d ELSE Io[n]]]

\* Value::truthy.  Polling a child nobody has waited for may find it running.
Truths(v) ==
    CASE IsNone(v) -> {FALSE}
      [] IsStr(v) -> {v.str # << >>}
      [] IsList(v) -> {v.list # << >>}
      [] DOMAIN v = {"num"} -> {v.num # 0}
      [] DOMAIN v = {"ready"} -> {v.ready = 0}
      [] OTHER -> LET c == spawned[v.child]
                  IN  {c.fate = [exit |-> 0]} \cup (IF c.waited THEN {} ELSE {FALSE})

\* compute_jump_target.  A negative offset is cast to usize, which overflows.
Target(t) == IF "abs" \in DOMAIN t THEN t.abs ELSE pc + t.rel
ValidTarget(t) == Target(t) \in DOMAIN program /\ ("rel" \in DOMAIN t => t.rel >= 0)

-----------------------------------------------------------------------------
\* The name OpenFile opens: a list must have exactly one string.
IsFileName(v) == IsStr(v) \/ (IsList(v) /\ Len(v.list) = 1 /\ IsStr(v.list[1]))
FileName(v) == IF IsStr(v) THEN v.str ELSE v.list[1].str

IsSpecial(name) == name \in {<<"@">>, <<"*">>, <<"#">>} \/ IsNumber(name)

\* What GetEnv finds: positional parameters, their number, a variable.
Parameter(name) ==
    CASE name \in {<<"@">>, <<"*">>} ->
            List([i \in 1 .. Len(Positional) - 1 |-> Str(Positional[i + 1])])
      [] name = <<"#">> -> Str(Decimal(IF Positional = << >> THEN 0 ELSE Len(Positional) - 1))
      [] IsNumber(name) ->
            IF Number(name) + 1 \in DOMAIN Positional THEN Str(Positional[Number(name) + 1])
            ELSE IF Number(name) = 0 THEN Str(<<"wzsh">>) ELSE NoneV
      [] OTHER -> IF name \in DOMAIN Env THEN Str(Env[name]) ELSE NoneV

\* Whether an instruction succeeds.
Succeeds(i) ==
    CASE i.op = "Copy" -> CanRead(i.source) /\ CanWrite(i.destination)
      [] i.op = "StringAppend" ->
            /\ Reads(i.source, HasText)
            /\ Text(Read(i.source)) # << >> =>
                   CanWrite(i.destination) /\ IsStr(Read(i.destination))
      [] i.op = "StringLength" -> Reads(i.string, HasText) /\ CanWrite(i.length)
      [] i.op = "JoinList" ->
            /\ Reads(i.list, IsList) /\ environment # << >> /\ CanWrite(i.destination)
            /\ \A n \in DOMAIN Read(i.list).list : HasText(Read(i.list).list[n])
      [] i.op = "ListAppend" ->
            environment # << >> /\ CanRead(i.value) /\ CanWrite(i.list) /\ IsList(Read(i.list))
      [] i.op = "ListAppendList" ->
            /\ CanWrite(i.src_list) /\ IsList(Read(i.src_list))
            /\ CanWrite(i.dest_list) /\ IsList(Read(i.dest_list))
      [] i.op \in {"IsNone", "IsNoneOrEmptyString"} ->
            CanRead(i.source) /\ CanWrite(i.destination)
      [] i.op = "TildeExpand" ->    \* ~user is not implemented
            Reads(i.name, IsNone) /\ CanWrite(i.destination) /\ environment # << >>
      [] i.op = "GetEnv" ->
            /\ Reads(i.name, IsStr) /\ CanWrite(i.target)
            /\ environment # << >> \/ IsSpecial(Read(i.name).str)
      [] i.op = "SetEnv" ->
            Reads(i.name, IsStr) /\ Reads(i.value, IsStr) /\ environment # << >>
      [] i.op = "PopFrame" -> frames # << >>
      [] i.op \in {"PushEnvironment", "PopEnvironment"} -> environment # << >>
      [] i.op \in {"PushIo", "PopIo", "PushPipe"} -> io_env # << >>
      [] i.op = "PopPipe" -> pipes # << >> /\ io_env # << >>
      [] i.op = "DupFd" -> io_env # << >> /\ i.src_fd \in DOMAIN Io
      [] i.op = "OpenFile" ->
            /\ Reads(i.name, IsFileName) /\ io_env # << >>
            /\ FileName(Read(i.name)) \notin Unopenable
      [] i.op = "Jump" -> ValidTarget(i.target)
      [] i.op = "JumpIfZero" ->
            CanRead(i.condition) /\ (FALSE \in Truths(Read(i.condition)) => ValidTarget(i.target))
      [] i.op = "JumpIfNonZero" ->
            CanRead(i.condition) /\ (TRUE \in Truths(Read(i.condition)) => ValidTarget(i.target))
      [] i.op = "SpawnCommand" ->
            /\ Reads(i.argv, IsList) /\ environment # << >> /\ io_env # << >>
            /\ Read(i.argv).list = << >> => CanWrite(i.status)
      [] i.op = "Wait" -> Reads(i.status, IsWaitable)
      [] i.op = "InvertLastWait" -> ~IsNone(last_wait_status)
      [] i.op = "Exit" ->
            /\ CanRead(i.value)
            /\ DOMAIN Read(i.value) = {"child"} =>
                   spawned[Read(i.value).child].fate # [stop |-> TRUE]
      [] i.op = "Error" -> CanRead(i.message) /\ io_env # << >>
      [] i.op \in {"PushFrame", "DefineFunction"} -> TRUE
      [] OTHER -> FALSE

Running == status = "Running" /\ pc \in DOMAIN program
Ins == program[pc]
At(op) == Running /\ Ins.op = op /\ Succeeds(Ins)

\* The instruction has been executed and the next one follows.
Next1 == pc' = pc + 1 /\ UNCHANGED code

\* A step that only changes the stack of values.
StackOnly == Next1 /\ UNCHANGED <<frames, scopes, last_wait_status, host>>

-----------------------------------------------------------------------------
(* Values.                                                                 *)

Copy ==
    /\ At("Copy")
    /\ Write(Ins.destination, Read(Ins.source))
    /\ StackOnly

StringAppend ==
    /\ At("StringAppend")
    /\ IF Text(Read(Ins.source)) = << >>
         THEN UNCHANGED stack
         ELSE Write(Ins.destination,
                    Str(Text(Read(Ins.destination)) \o Text(Read(Ins.source))))
    /\ StackOnly

StringLength ==
    /\ At("StringLength")
    /\ Write(Ins.length, Str(Decimal(Len(Text(Read(Ins.string))))))
    /\ StackOnly

JoinList ==
    /\ At("JoinList")
    /\ Write(Ins.destination, Str(Join(Read(Ins.list).list, Ifs)))
    /\ StackOnly

ListAppend ==
    /\ At("ListAppend")
    /\ Write(Ins.list, List(Read(Ins.list).list \o
                 AppendedFields(Read(Ins.value), Ifs, Ins.split, Ins.glob,
                                Ins.remove_backslash)))
    /\ StackOnly

ListAppendList ==
    /\ At("ListAppendList")
    /\ Write(Ins.dest_list, List(Read(Ins.dest_list).list \o Read(Ins.src_list).list))
    /\ StackOnly

Test(op, holds) ==
    /\ At(op)
    /\ Write(Ins.destination, Num(IF holds THEN 1 ELSE 0))
    /\ StackOnly

IsNoneTest == Test("IsNone", IsNone(Read(Ins.source)))

IsNoneOrEmptyString ==
    Test("IsNoneOrEmptyString",
         IsNone(Read(Ins.source)) \/ Read(Ins.source) = Str(<< >>))

TildeExpand ==
    /\ At("TildeExpand")
    /\ Write(Ins.destination, Str(IF <<"HOME">> \in DOMAIN Env THEN Env[<<"HOME">>] ELSE HomeDir))
    /\ StackOnly

GetEnv ==
    /\ At("GetEnv")
    /\ Write(Ins.target, Parameter(Read(Ins.name).str))
    /\ StackOnly

SetEnv ==
    /\ At("SetEnv")
    /\ environment' = [environment EXCEPT ![Len(environment)] =
                         SetIn(Env, Read(Ins.name).str, Read(Ins.value).str)]
    /\ Next1
    /\ UNCHANGED <<stack, frames, io_env, pipes, npipes, last_wait_status, host>>

-----------------------------------------------------------------------------
(* Frames and scopes.                                                      *)

PushFrame ==
    /\ At("PushFrame")
    /\ stack' = stack \o [n \in 1 .. Ins.size |-> NoneV]
    /\ frames' = Append(frames, [fp |-> Len(stack) + Ins.size, size |-> Ins.size])
    /\ Next1
    /\ UNCHANGED <<scopes, last_wait_status, host>>

\* Mutant of PopFrame: the stack is cut to the frame pointer.
PopFrameKeepsValues ==
    /\ At("PopFrame")
    /\ stack' = SubSeq(stack, 1, Last(frames).fp)
    /\ frames' = Front(frames)
    /\ Next1
    /\ UNCHANGED <<scopes, last_wait_status, host>>

PopFrame ==
    /\ At("PopFrame")
    /\ stack' = SubSeq(stack, 1, Last(frames).fp - Last(frames).size)
    /\ frames' = Front(frames)
    /\ Next1
    /\ UNCHANGED <<scopes, last_wait_status, host>>

PushEnvironment ==
    /\ At("PushEnvironment")
    /\ environment' = Append(environment, Env)
    /\ Next1
    /\ UNCHANGED <<stack, frames, io_env, pipes, npipes, last_wait_status, host>>

PopEnvironment ==
    /\ At("PopEnvironment")
    /\ environment' = Front(environment)
    /\ Next1
    /\ UNCHANGED <<stack, frames, io_env, pipes, npipes, last_wait_status, host>>

PushIo ==
    /\ At("PushIo")
    /\ io_env' = Append(io_env, Io)
    /\ Next1
    /\ UNCHANGED <<stack, frames, environment, pipes, npipes, last_wait_status, host>>

PopIo ==
    /\ At("PopIo")
    /\ io_env' = Front(io_env)
    /\ Next1
    /\ UNCHANGED <<stack, frames, environment, pipes, npipes, last_wait_status, host>>

PushPipe ==
    /\ At("PushPipe")
    /\ npipes' = npipes + 1
    /\ AssignFd(1, [write |-> npipes'])
    /\ pipes' = Append(pipes, [read |-> npipes'])
    /\ Next1
    /\ UNCHANGED <<stack, frames, environment, last_wait_status, host>>

PopPipe ==
    /\ At("PopPipe")
    /\ AssignFd(0, Last(pipes))
    /\ pipes' = Front(pipes)
    /\ Next1
    /\ UNCHANGED <<stack, frames, environment, npipes, last_wait_status, host>>

DupFd ==
    /\ At("DupFd")
    /\ AssignFd(Ins.dest_fd, Io[Ins.src_fd])
    /\ Next1
    /\ UNCHANGED <<stack, frames, environment, pipes, npipes, last_wait_status, host>>

\* How the file is opened is the flags of the instruction.
OpenFile ==
    /\ At("OpenFile")
    /\ AssignFd(Ins.fd_number, [file |-> FileName(Read(Ins.name)), mode |-> Ins.mode])
    /\ Next1
    /\ UNCHANGED <<stack, frames, environment, pipes, npipes, last_wait_status, host>>

-----------------------------------------------------------------------------
(* Control.                                                                *)

Goto(t) == pc' = Target(t) /\ UNCHANGED code

Jump ==
    /\ At("Jump")
    /\ Goto(Ins.target)
    /\ UNCHANGED <<stack, frames, scopes, last_wait_status, host>>

JumpIf(op, sense) ==
    /\ At(op)
    /\ \E truth \in Truths(Read(Ins.condition)) :
           IF truth = sense THEN Goto(Ins.target) ELSE Next1
    /\ UNCHANGED <<stack, frames, scopes, last_wait_status, host>>

JumpIfZero == JumpIf("JumpIfZero", FALSE)
JumpIfNonZero == JumpIf("JumpIfNonZero", TRUE)

EndsAs(how, v) ==
    /\ status' = how
    /\ value' = v
    /\ UNCHANGED <<program, pc, stack>>

Ends(how, v) == EndsAs(how, v) /\ UNCHANGED <<frames, scopes, last_wait_status, funcs>>

\* A status is waited for, a numeric string becomes the number.
Exit ==
    /\ At("Exit")
    /\ LET v == Read(Ins.value)
       IN  Ends("Complete",
                CASE IsStr(v) /\ IsNumber(v.str) -> Num(Number(v.str))
                  [] DOMAIN v = {"ready"} -> Num(v.ready)
                  [] DOMAIN v = {"child"} -> Num(spawned[v.child].fate.exit)
                  [] OTHER -> v)
    /\ UNCHANGED spawned

ErrorExit ==
    /\ At("Error")
    /\ Ends("Complete", Num(1))
    /\ UNCHANGED spawned

-----------------------------------------------------------------------------
(* Commands.                                                               *)

\* Run by the host: [ready |-> code] a builtin, a function or a name that is
\* not found, which may set a variable (sets |-> <<name, text>>);
\* [exit |-> code] and [stop |-> TRUE] a child that will exit or be stopped;
\* [err |-> TRUE] an error.
SpawnCommand ==
    /\ At("SpawnCommand")
    /\ LET argv == Read(Ins.argv).list
           Answer(w) == Write(Ins.status, w) /\ Next1
       IN  \/ /\ argv = << >>
              /\ Answer(Ready(0))
              /\ UNCHANGED <<spawned, frames, scopes, last_wait_status, funcs>>
           \/ \E fate \in Fates :
              /\ argv # << >>
              /\ Len(spawned) < MaxSpawned
              /\ spawned' = Append(spawned, [argv |-> argv, env |-> Env, io |-> Io,
                                             fate |-> fate, waited |-> FALSE])
              /\ environment' = IF "sets" \in DOMAIN fate
                                  THEN [environment EXCEPT ![Len(environment)] =
                                          SetIn(Env, fate.sets[1], fate.sets[2])]
                                  ELSE environment
              /\ IF "err" \in DOMAIN fate \/ ~CanWrite(Ins.status)
                   THEN EndsAs("Err", NoneV)
                   ELSE Answer(IF "ready" \in DOMAIN fate THEN Ready(fate.ready)
                               ELSE Child(Len(spawned')))
              /\ UNCHANGED <<frames, io_env, pipes, npipes, last_wait_status, funcs>>

\* Complete: go on.  Stopped: the machine returns to its caller, which drops it.
Wait ==
    /\ At("Wait")
    /\ LET w == Read(Ins.status)
           isChild == "child" \in DOMAIN w
       IN  /\ spawned' = IF isChild THEN [spawned EXCEPT ![w.child].waited = TRUE] ELSE spawned
           /\ IF isChild /\ spawned[w.child].fate = [stop |-> TRUE]
                THEN Ends("Stopped", NoneV)
                ELSE /\ last_wait_status' = w
                     /\ Next1
                     /\ UNCHANGED <<stack, frames, scopes, funcs>>

InvertLastWait ==
    /\ At("InvertLastWait")
    /\ \E truth \in Truths(last_wait_status) :
           last_wait_status' = Ready(IF truth THEN 1 ELSE 0)
    /\ Next1
    /\ UNCHANGED <<stack, frames, scopes, host>>

DefineFunction ==
    /\ At("DefineFunction")
    /\ funcs' = SetIn(funcs, Ins.fname, Ins.program)
    /\ last_wait_status' = Ready(0)
    /\ Next1
    /\ UNCHANGED <<stack, frames, scopes, spawned>>

\* An instruction fails, or there is none: run() returns Err.
Fault ==
    /\ status = "Running"
    /\ pc \in DOMAIN program => ~Succeeds(Ins)
    /\ Ends("Err", NoneV)
    /\ UNCHANGED spawned

\* The machine has returned to its caller, or the bound is reached.
AtBound == At("SpawnCommand") /\ Read(Ins.argv).list # << >> /\ Len(spawned) = MaxSpawned
Halted == (status # "Running" \/ AtBound) /\ UNCHANGED vars

Step ==
    \/ Copy \/ StringAppend \/ StringLength \/ JoinList \/ ListAppend \/ ListAppendList
    \/ IsNoneTest \/ IsNoneOrEmptyString \/ TildeExpand \/ GetEnv \/ SetEnv
    \/ PushFrame \/ PopFrame \/ PushEnvironment \/ PopEnvironment \/ PushIo \/ PopIo
    \/ PushPipe \/ PopPipe \/ DupFd \/ OpenFile
    \/ Jump \/ JumpIfZero \/ JumpIfNonZero \/ Exit \/ ErrorExit
    \/ SpawnCommand \/ Wait \/ InvertLastWait \/ DefineFunction \/ Fault

Next == Step \/ Halted

Spec == Init /\ [][Next]_vars

-----------------------------------------------------------------------------
(* Correctness.                                                            *)

TypeOK ==
    /\ ProgramOK(program)
    /\ pc \in Nat
    /\ SeqOver(stack) /\ SeqOver(environment) /\ SeqOver(io_env) /\ SeqOver(pipes)
    /\ frames \in Seq([fp : Nat, size : Nat])
    /\ status \in {"Running", "Stopped", "Complete", "Err"}
    /\ SeqOver(spawned)
    /\ npipes \in Nat

\* The frames tile the stack: each begins where the one below ends, and the
\* topmost ends where the stack does, whatever the instructions are.
Base(fs, k) == IF k = 1 THEN 0 ELSE fs[k - 1].fp
FramesTile ==
    /\ \A k \in DOMAIN frames : frames[k].fp = Base(frames, k) + frames[k].size
    /\ Len(stack) = IF frames = << >> THEN 0 ELSE frames[Len(frames)].fp

IInv == TypeOK /\ FramesTile

Operands(i) ==
    CASE i.op \in {"Copy", "StringAppend", "IsNone", "IsNoneOrEmptyString"} ->
            {i.source, i.destination}
      [] i.op = "StringLength" -> {i.string, i.length}
      [] i.op = "JoinList" -> {i.list, i.destination}
      [] i.op = "ListAppend" -> {i.value, i.list}
      [] i.op = "ListAppendList" -> {i.src_list, i.dest_list}
      [] i.op = "TildeExpand" -> {i.name, i.destination}
      [] i.op = "GetEnv" -> {i.name, i.target}
      [] i.op = "SetEnv" -> {i.name, i.value}
      [] i.op = "OpenFile" -> {i.name}
      [] i.op \in {"JumpIfZero", "JumpIfNonZero"} -> {i.condition}
      [] i.op = "SpawnCommand" -> {i.argv, i.status}
      [] i.op = "Wait" -> {i.status}
      [] i.op = "Exit" -> {i.value}
      [] i.op = "Error" -> {i.message}
      [] OTHER -> {}

\* The registers an instruction names belong to the current frame.
OwnRegisters ==
    \A o \in Operands(Ins) :
        "fp" \in DOMAIN o => frames # << >> /\ o.fp \in 1 .. Last(frames).size

\* An instruction that names registers of its own frame leaves the values of
\* the frames below as they are: a nested command cannot disturb the argument
\* list or the test its caller is computing.
FramesIsolated ==
    [][Running /\ OwnRegisters =>
         \A n \in 1 .. (IF frames = << >> THEN 0 ELSE Base(frames, Len(frames))) :
             n \in DOMAIN stack' /\ stack'[n] = stack[n]]_vars
=============================================================================
