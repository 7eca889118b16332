------------------------------- MODULE Shell --------------------------------
(***************************************************************************)
(* A line typed at the shell, from parsed command to the commands it runs: *)
(* the compiler's program (ShellCompiler) run by the machine               *)
(* (ShellMachine), as compile_and_run of src/src/repl.rs composes them, and *)
(* what the program does compared with what the command means              *)
(* (ShellSemantics).                                                       *)
(***************************************************************************)
EXTENDS ShellMachine, ShellCompiler

CONSTANTS Commands      \* parsed commands

VARIABLES command       \* the one typed

Reference == INSTANCE ShellSemantics

shellVars == <<vars, command>>

CommandInit == /\ command \in Commands
               /\ MachineInit(Compile(command))

CommandNext == Next /\ UNCHANGED command

CommandSpec == CommandInit /\ [][CommandNext]_shellVars

\* run() steps the machine until it is done.
FairCommandSpec == CommandSpec /\ WF_shellVars(Step /\ UNCHANGED command)

-----------------------------------------------------------------------------
(* Correctness.                                                            *)

\* What the command does when its commands meet the fates they have met.
Outcome == Reference!Eval(command, [n \in DOMAIN spawned |-> spawned[n].fate])

\* The host is given the commands of the line in the order it means them, each
\* with the arguments, the environment and the descriptors the line gives it:
\* every word is expanded and split once, with the variables set before it.
AsLogged(log) ==
    /\ Len(spawned) <= Len(log)
    /\ \A n \in DOMAIN spawned :
           /\ spawned[n].argv = [k \in DOMAIN log[n].argv |-> Str(log[n].argv[k])]
           /\ spawned[n].env = log[n].env
           /\ spawned[n].io = log[n].io
SpawnsAsWritten == AsLogged(Outcome.log)

\* The program ends when and how the command means: the status, the variables
\* left behind (compile_and_run keeps the first environment) and the functions.
EndedAs(outcome) ==
    /\ outcome.out = CASE status = "Complete" -> "complete"
                       [] status = "Stopped" -> "stop"
                       [] status = "Err" -> "err"
    /\ status = "Complete" => value = Num(outcome.value)
    /\ Len(outcome.log) = Len(spawned)
    /\ environment[1] = outcome.env
    /\ DOMAIN funcs = DOMAIN outcome.funcs
    /\ \A f \in DOMAIN funcs : funcs[f] = Compile(outcome.funcs[f])
FinishesAsWritten == status # "Running" => EndedAs(Outcome)

\* Every instruction of a compiled program names registers of the frame that is
\* current when it runs: the size PushFrame is patched with covers every
\* register the command, its words and its redirections use.
OperandsInFrame == Running => OwnRegisters

\* Whatever path the program takes, when it reaches Exit every frame, scope and
\* pipe it opened has been closed.
BalancedAtExit ==
    Running /\ Ins.op = "Exit" =>
        /\ frames = << >> /\ stack = << >> /\ pipes = << >>
        /\ Len(environment) = 1 /\ Len(io_env) = 1

\* A reader the machine waits for can come to the end of its input: the
\* machine does not hold the write end of the pipe the reader reads.
NoPipeHeld ==
    At("Wait") /\ DOMAIN Read(Ins.status) = {"child"} =>
        LET input == spawned[Read(Ins.status).child].io[0]
        IN  \A n \in DOMAIN io_env : \A fd \in DOMAIN io_env[n] :
                DOMAIN input = {"read"} => io_env[n][fd] # [write |-> input.read]

\* In a pipeline of simple commands every reader is started before the shell
\* waits for a writer, so that the writer cannot be stuck on a full pipe.
WriterNotAwaited ==
    /\ command.type = "pipeline" /\ \A i \in DOMAIN command.commands :
                                       command.commands[i].type = "simple"
    /\ At("Wait") /\ DOMAIN Read(Ins.status) = {"child"}
    => LET output == spawned[Read(Ins.status).child].io[1]
       IN  DOMAIN output = {"write"} =>
               \E n \in DOMAIN spawned : spawned[n].io[0] = [read |-> output.write]

\* No wait of the machine is for something that only the machine itself could do:
\* close a pipe, or start its reader (Wait, op.rs:729, blocks in waitpid).
PipesFlow == NoPipeHeld /\ WriterNotAwaited

\* Every line comes to an end: no jump of the compiled program leads back.
Terminates == <>(status # "Running")
=============================================================================
