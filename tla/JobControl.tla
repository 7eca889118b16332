----------------------------- MODULE JobControl -----------------------------
(***************************************************************************)
(* Interactive job control: the read loop of src/src/repl.rs, the machine  *)
(* stepping through a compiled line (reduced to its SpawnCommand, Wait and *)
(* Exit instructions), Host::spawn_command of src/src/shellhost.rs, the    *)
(* job list of src/src/job.rs, the cached wait status of                   *)
(* src/src/exitstatus.rs and the builtins jobs and fg.                     *)
(*                                                                         *)
(* The shell is one thread.  It interleaves with the children it forked    *)
(* and with the user at the keyboard (module Kernel).  A Job is named by   *)
(* its process_group_id, the pid of its first process.                     *)
(***************************************************************************)
EXTENDS Kernel, Sequences, FiniteSets

CONSTANTS Programs,     \* the lines a user may enter, compiled
          FunctionBody, \* the compiled body of the one shell function
          None,         \* Job whose process_group_id is still 0; status not set
          Ready         \* a WaitableStatus that already holds its Status

(***************************************************************************)
(* A command is one SpawnCommand instruction:                              *)
(*   kind "ext"      an external program                                   *)
(*        "builtin"  a builtin that succeeds, or a name that is not found  *)
(*        "fail"     a builtin or an expansion that returns Err            *)
(*        "jobs", "fg", "call"  these builtins; a shell function           *)
(*   wait FALSE when the command is asynchronous: no Wait follows it       *)
(*   tty  FALSE when its stdin is redirected away from the terminal        *)
(***************************************************************************)
Command == [kind : {"ext", "builtin", "fail", "jobs", "fg", "call"},
            wait : BOOLEAN, tty : BOOLEAN]

ASSUME ProgramAssumption ==
    /\ Programs \subseteq Seq(Command)
    /\ FunctionBody \in Seq(Command)
    /\ None \notin Pid /\ Ready \notin Pid /\ None # Ready
    /\ None # Shell

VARIABLES status,   \* ChildProcessInner.last_status, "none" before it exists
          procs,    \* Inner.processes of the Job with this process_group_id
          jobs,     \* keys of JOB_LIST
          frames,   \* machines being run, innermost first
          pc,       \* where the shell thread is
          child,    \* process being spawned or waited for
          result    \* how the last program ended

shellVars == <<status, procs, jobs, frames, pc, child, result>>
vars == <<kernelVars, shellVars>>

\* A machine: the instructions left, its Host's job, its last_wait_status.
Frame == [prog : Seq(Command), job : Pid \cup {None}, last : Pid \cup {None, Ready}]

Waiting == {"wait", "fgwait"}
Spawning == {"fork", "exec", "post"}
Control == {"prompt", "read", "run", "return", "done", "dead"} \cup Waiting \cup Spawning

TypeOK ==
    /\ KernelTypeOK
    /\ status \in [Pid -> {"none", "Running", "Stopped"} \cup Exited]
    /\ procs \in [Pid -> Seq(Pid)]
    /\ jobs \subseteq Pid
    /\ frames \in Seq(Frame)
    /\ pc \in Control
    /\ child \in Pid \cup {None}
    /\ result \in {"none", "Complete", "Stopped", "Err"}

Init ==
    /\ KernelInit
    /\ status = [p \in Pid |-> "none"]
    /\ procs = [j \in Pid |-> << >>]
    /\ jobs = {}
    /\ frames = << >>
    /\ pc = "prompt"
    /\ child = None
    /\ result = "none"

NewMachine(prog) == [prog |-> prog, job |-> None, last |-> None]

-----------------------------------------------------------------------------
(* ChildProcessInner::wait.                                                *)

Terminated(s) == s \in Exited

\* Mutant of Polled: without the early return for a terminated process.
PolledAgain(p) == IF CanReport(p) THEN Report(p)
                  ELSE IF kstate[p] = "reaped" THEN "Exit1" ELSE status[p]

\* The status a non-blocking wait answers with and stores.
Polled(p) == IF ~Terminated(status[p]) /\ CanReport(p) THEN Report(p) ELSE status[p]

\* Mutant of Waited: without the early return for a terminated process.
WaitedAgain(p) == IF CanReport(p) THEN Report(p) ELSE "Exit1"

\* A blocking wait returns at once when waitpid fails (ECHILD).
WaitReturns(p) == Terminated(status[p]) \/ CanReport(p) \/ kstate[p] = "reaped"
Waited(p) == CASE Terminated(status[p]) -> status[p]
               [] ~Terminated(status[p]) /\ CanReport(p) -> Report(p)
               [] OTHER -> "Exit1"

\* Only the processes not yet known to have terminated reach waitpid.
Unfinished(ps) == {p \in ps : ~Terminated(status[p])}

Poll(ps) ==
    /\ Collect(Unfinished(ps))
    /\ status' = [p \in Pid |-> IF p \in ps THEN Polled(p) ELSE status[p]]

Wait(p) ==
    /\ WaitReturns(p)
    /\ Collect(Unfinished({p}))
    /\ status' = [status EXCEPT ![p] = Waited(p)]

\* Job::wait and Job::poll look at the last process only.
LastProcess(j) == procs[j][Len(procs[j])]
LastProcesses == {LastProcess(j) : j \in jobs}

-----------------------------------------------------------------------------
(* The read loop.                                                          *)

\* Mutant of CheckJobs: drops the stopped jobs too.
CheckJobsDropsStopped ==
    /\ pc = "prompt"
    /\ Poll(LastProcesses)
    /\ jobs' = {j \in jobs : Polled(LastProcess(j)) = "Running"}
    /\ pc' = "read"
    /\ UNCHANGED <<wstatus, pgrp, tty, procs, frames, child, result>>

\* JobList::check_and_print_status: poll every job, drop the terminated ones.
CheckJobs ==
    /\ pc = "prompt"
    /\ Poll(LastProcesses)
    /\ jobs' = {j \in jobs : ~Terminated(Polled(LastProcess(j)))}
    /\ pc' = "read"
    /\ UNCHANGED <<wstatus, pgrp, tty, procs, frames, child, result>>

\* A line that parses and compiles: a fresh Machine with a fresh Job.
ReadLine ==
    /\ pc = "read"
    /\ tty = Shell
    /\ \E prog \in Programs : frames' = <<NewMachine(prog)>>
    /\ pc' = "run"
    /\ result' = "none"
    /\ UNCHANGED <<kernelVars, status, procs, jobs, child>>

\* ctrl-C or ctrl-D at the prompt, or a line that does not parse.
ReadNothing ==
    /\ pc = "read"
    /\ tty = Shell
    /\ pc' = "prompt"
    /\ UNCHANGED <<kernelVars, status, procs, jobs, frames, child, result>>

\* Reading from the background with SIGTTIN ignored is EIO: the loop ends.
ReadFails ==
    /\ pc = "read"
    /\ tty # Shell
    /\ pc' = "dead"
    /\ UNCHANGED <<kernelVars, status, procs, jobs, frames, child, result>>

\* Mutant of Done: the shell does not take the terminal back.
DoneKeepsTty ==
    /\ pc = "done"
    /\ pc' = "prompt"
    /\ UNCHANGED <<kernelVars, status, procs, jobs, frames, child, result>>

\* After a program that did not end in an error: put_shell_in_foreground.
Done ==
    /\ pc = "done"
    /\ Tcsetpgrp(TRUE, Shell)
    /\ pc' = "prompt"
    /\ UNCHANGED <<kstate, news, wstatus, pgrp, status, procs, jobs, frames,
                   child, result>>

-----------------------------------------------------------------------------
(* The machine.                                                            *)

Top == Head(frames)
Replace(f) == <<f>> \o Tail(frames)
Rest == [Top EXCEPT !.prog = Tail(@)]
At(kind) == pc = "run" /\ Top.prog # << >> /\ Head(Top.prog).kind = kind

\* The instruction after SpawnCommand when its status is already known.
Proceed == IF Head(Top.prog).wait THEN [Rest EXCEPT !.last = Ready] ELSE Rest

Fails ==
    /\ pc' = "return"
    /\ result' = "Err"

\* Exit(LastWaitStatus) resolves the status by waiting for it once more.
Exit ==
    /\ pc = "run"
    /\ Top.prog = << >>
    /\ pc' = "return"
    /\ result' = IF Top.last = None THEN "Err" ELSE "Complete"
    /\ IF Top.last \in Pid
         THEN Wait(Top.last)
         ELSE UNCHANGED <<kstate, news, status>>
    /\ UNCHANGED <<wstatus, pgrp, tty, procs, jobs, frames, child>>

Builtin ==
    /\ At("builtin")
    /\ frames' = Replace(Proceed)
    /\ UNCHANGED <<kernelVars, status, procs, jobs, pc, child, result>>

Fail ==
    /\ At("fail")
    /\ Fails
    /\ UNCHANGED <<kernelVars, status, procs, jobs, frames, child>>

\* jobs: polls every job but removes none.
Jobs ==
    /\ At("jobs")
    /\ Poll(LastProcesses)
    /\ frames' = Replace(Proceed)
    /\ UNCHANGED <<wstatus, pgrp, tty, procs, jobs, pc, child, result>>

\* Mutant of Fg: the job is not sent SIGCONT.
FgWithoutCont ==
    /\ At("fg")
    /\ \E j \in jobs :
         /\ Tcsetpgrp(TRUE, j)
         /\ child' = LastProcess(j)
    /\ pc' = "fgwait"
    /\ UNCHANGED <<kstate, news, wstatus, pgrp, status, procs, jobs, frames, result>>

\* fg: the job is whichever the hash map yields last.
Fg ==
    /\ At("fg")
    /\ \E j \in jobs :
         /\ Tcsetpgrp(TRUE, j)
         /\ SigCont(j)
         /\ child' = LastProcess(j)
    /\ pc' = "fgwait"
    /\ UNCHANGED <<wstatus, pgrp, status, procs, jobs, frames, result>>

FgNothing ==
    /\ At("fg")
    /\ jobs = {}
    /\ frames' = Replace(Proceed)
    /\ UNCHANGED <<kernelVars, status, procs, jobs, pc, child, result>>

\* job.wait() of fg: whatever it answers, fg itself succeeds.
FgWait ==
    /\ pc = "fgwait"
    /\ Wait(child)
    /\ frames' = Replace(Proceed)
    /\ pc' = "run"
    /\ child' = None
    /\ UNCHANGED <<wstatus, pgrp, tty, procs, jobs, result>>

\* A shell function runs in a machine of its own, with a Job of its own.
Call ==
    /\ At("call")
    /\ frames' = <<NewMachine(FunctionBody)>> \o frames
    /\ UNCHANGED <<kernelVars, status, procs, jobs, pc, child, result>>

\* Leave a machine.  The caller of a function sees its result as a Status.
Return ==
    /\ pc = "return"
    /\ IF Len(frames) = 1
         THEN /\ frames' = << >>
              /\ pc' = IF result = "Err" THEN "prompt" ELSE "done"
         ELSE LET caller == Head(Tail(frames))
                  cmd == Head(caller.prog)
                  next == [caller EXCEPT !.prog = Tail(@),
                                         !.last = IF cmd.wait THEN Ready ELSE @]
              IN  IF result = "Err" \/ (result = "Stopped" /\ cmd.wait)
                    THEN frames' = Tail(frames) /\ pc' = "return"
                    ELSE frames' = <<next>> \o Tail(Tail(frames)) /\ pc' = "run"
    /\ UNCHANGED <<kernelVars, status, procs, jobs, child, result>>

-----------------------------------------------------------------------------
(* Host::spawn_command for an external program.                            *)

\* std::process::Command::spawn forks; the shell then blocks until the child
\* has called exec or failed to.
Fork ==
    /\ At("ext")
    /\ \E p \in Pid :
         /\ kstate[p] = "free"
         /\ kstate' = [kstate EXCEPT ![p] = "forked"]
         /\ child' = p
    /\ pc' = "fork"
    /\ UNCHANGED <<news, wstatus, pgrp, tty, status, procs, jobs, frames, result>>

\* EAGAIN: no more processes.
ForkFails ==
    /\ At("ext")
    /\ \A p \in Pid : kstate[p] # "free"
    /\ Fails
    /\ UNCHANGED <<kernelVars, status, procs, jobs, frames, child>>

IsFirst == Top.job = None

\* Mutant of PreExec: the terminal is left to the parent.
PreExecKeepsTty ==
    /\ pc = "fork"
    /\ kstate' = [kstate EXCEPT ![child] = "ready"]
    /\ pgrp' = [pgrp EXCEPT ![child] =
                    IF IsFirst THEN child ELSE IF GroupExists(Top.job) THEN Top.job ELSE @]
    /\ pc' = "exec"
    /\ UNCHANGED <<tty, news, wstatus, status, procs, jobs, frames, child, result>>

\* Mutant of PreExec: every process gets a group of its own.
PreExecOwnGroup ==
    /\ pc = "fork"
    /\ kstate' = [kstate EXCEPT ![child] = "ready"]
    /\ pgrp' = [pgrp EXCEPT ![child] = child]
    /\ tty' = IF Head(Top.prog).tty THEN child ELSE tty
    /\ pc' = "exec"
    /\ UNCHANGED <<news, wstatus, status, procs, jobs, frames, child, result>>

\* The pre_exec closure, run by the child after its stdin is in place.
PreExec ==
    /\ pc = "fork"
    /\ kstate' = [kstate EXCEPT ![child] = "ready"]
    /\ IF IsFirst
         THEN /\ pgrp' = [pgrp EXCEPT ![child] = child]
              /\ tty' = IF Head(Top.prog).tty THEN child ELSE tty
         ELSE /\ pgrp' = [pgrp EXCEPT ![child] =
                            IF GroupExists(Top.job) THEN Top.job ELSE @]
              /\ UNCHANGED tty
    /\ pc' = "exec"
    /\ UNCHANGED <<news, wstatus, status, procs, jobs, frames, child, result>>

ExecOk ==
    /\ pc = "exec"
    /\ kstate' = [kstate EXCEPT ![child] = "running"]
    /\ pc' = "post"
    /\ UNCHANGED <<news, wstatus, pgrp, tty, status, procs, jobs, frames, child,
                   result>>

\* spawn reaps the child itself and returns the error.
ExecFails ==
    /\ pc = "exec"
    /\ kstate' = [kstate EXCEPT ![child] = "reaped"]
    /\ child' = None
    /\ Fails
    /\ UNCHANGED <<news, wstatus, pgrp, tty, status, procs, jobs, frames>>

\* The end of SpawnCommand for a process that is now part of job.
Spawned(job) ==
    IF Head(Top.prog).wait
      THEN /\ frames' = Replace([Top EXCEPT !.job = job])
           /\ pc' = "wait"
           /\ UNCHANGED child
      ELSE /\ frames' = Replace([Rest EXCEPT !.job = job])
           /\ pc' = "run"
           /\ child' = None

\* Mutant of JoinJob: only the child calls tcsetpgrp.
JoinJobNoTcsetpgrp ==
    /\ pc = "post"
    /\ LET job == IF IsFirst THEN child ELSE Top.job
       IN  /\ procs' = [procs EXCEPT ![job] = Append(@, child)]
           /\ jobs' = IF IsFirst THEN jobs \cup {job} ELSE jobs
           /\ Spawned(job)
    /\ status' = [status EXCEPT ![child] = "Running"]
    /\ UNCHANGED <<kstate, news, wstatus, pgrp, tty, result>>

\* The parent's half: by now the child has called exec, so setpgid is EACCES
\* and only tcsetpgrp can matter.  Then Job::add and JobList::add.
JoinJob ==
    /\ pc = "post"
    /\ LET job == IF IsFirst THEN child ELSE Top.job
       IN  /\ procs' = [procs EXCEPT ![job] = Append(@, child)]
           /\ jobs' = IF IsFirst THEN jobs \cup {job} ELSE jobs
           /\ IF IsFirst THEN Tcsetpgrp(TRUE, child) ELSE UNCHANGED tty
           /\ Spawned(job)
    /\ status' = [status EXCEPT ![child] = "Running"]
    /\ UNCHANGED <<kstate, news, wstatus, pgrp, result>>

\* The Wait instruction: go on when the process is complete, leave the
\* machine when it has stopped.
WaitChild ==
    /\ pc = "wait"
    /\ Wait(child)
    /\ IF Waited(child) = "Stopped"
         THEN /\ pc' = "return"
              /\ result' = "Stopped"
              /\ UNCHANGED frames
         ELSE /\ pc' = "run"
              /\ frames' = Replace([Rest EXCEPT !.last = child])
              /\ UNCHANGED result
    /\ child' = None
    /\ UNCHANGED <<wstatus, pgrp, tty, procs, jobs>>

-----------------------------------------------------------------------------
ShellStep ==
    \/ CheckJobs \/ ReadFails \/ Done
    \/ Exit \/ Builtin \/ Fail \/ Jobs \/ Fg \/ FgNothing \/ FgWait
    \/ Call \/ Return
    \/ Fork \/ ForkFails \/ PreExec \/ ExecOk \/ ExecFails \/ JoinJob \/ WaitChild

User == ReadLine \/ ReadNothing

Environment ==
    /\ \/ \E p \in Pid : \/ \E c \in Exited \ {"Signalled"} : ProcExit(p, c)
                         \/ Killed(p)
                         \/ TtyStop(p)
       \/ KeySuspend
    /\ UNCHANGED shellVars

\* The shell process has exited.
Dead == pc = "dead" /\ UNCHANGED vars

Next == ShellStep \/ User \/ Environment \/ Dead

Spec == Init /\ [][Next]_vars
-----------------------------------------------------------------------------
(* Correctness.                                                            *)

\* The cached status of a child (ChildProcessInner.last_status) is terminal
\* exactly when the kernel has let go of the child, and then it is how the
\* child really ended: no path makes up an exit code because waitpid was
\* called for a child already reaped, and none collects an exit and drops it.
StatusFaithful ==
    \A p \in Pid : status[p] # "none" =>
        /\ Terminated(status[p]) <=> kstate[p] = "reaped"
        /\ Terminated(status[p]) => status[p] = wstatus[p]

\* Whoever asks later, Exit, jobs, fg or the prompt, is told the same terminal
\* status as the first who asked.
StatusSticky ==
    [][\A p \in Pid : Terminated(status[p]) => status'[p] = status[p]]_vars

\* No job is lost: as long as the last process of a job is not known to have
\* ended, the job is in JOB_LIST, where jobs and fg can find it.
NoJobLost ==
    \A j \in Pid : procs[j] # << >> /\ ~Terminated(status[LastProcess(j)]) => j \in jobs

\* p is in the group of job j, or was left in the shell's group because no
\* process of that group existed any more.
Placed(p, j) == pgrp[p] = j \/ (pgrp[p] = Shell /\ kstate[j] = "reaped")

\* A process of a job can be outside the job's process group only when the
\* group's leader had been reaped before the process joined; it then shares
\* the shell's group.  A process belongs to one job.
GroupIntegrity ==
    \A j \in Pid : \A i \in DOMAIN procs[j] :
        /\ Placed(procs[j][i], j)
        /\ \A k \in Pid : \A n \in DOMAIN procs[k] : procs[k][n] = procs[j][i] => k = j

\* Unless the last program ended in an error, the shell is in the foreground
\* whenever it prompts, whatever its jobs did to the terminal meanwhile.
PromptOwnsTty == pc = "read" /\ result # "Err" => tty = Shell

\* What ctrl-C and ctrl-Z reach: while the shell waits for a process, that
\* process is in the terminal's foreground group.
\* Holds for programs that are one pipeline.
WaitedIsForeground ==
    pc \in Waiting /\ kstate[child] # "reaped" => tty = pgrp[child]

\* The shell never waits for a process whose stop was already reported: only
\* a terminal signal could end that wait, and nothing sends SIGCONT then.
\* Holds for programs that are one pipeline.
NoStuckWait == pc \in Waiting /\ kstate[child] = "stopped" => news[child]

\* A program is in the terminal's foreground group from its first instruction,
\* as the comment of shellhost.rs:208-210 intends, whether it is the parent or
\* the child that arranges it.  Not so the leader of a job whose standard input
\* is redirected: its tcsetpgrp has no terminal to act on, and the parent's may
\* come after exec.
\* Holds for programs that are one pipeline.
StartsInForeground ==
    pc = "post" /\ kstate[child] = "running" /\ (IsFirst => Head(Top.prog).tty) =>
        tty = pgrp[child]

\* After a line has been run the shell can read the next one (repl.rs:75
\* "Grab control of the terminal"): it is not shut out of its terminal.
CanReadNextLine == pc = "read" => tty = Shell

-----------------------------------------------------------------------------
(* The inductive invariant of the proofs.                                  *)

\* Where there is a machine, and that an instruction being executed, or a
\* call whose callee is running, is still at the head of its program.
ControlInv ==
    /\ frames = << >> <=> pc \in {"prompt", "read", "done", "dead"}
    /\ \A i \in DOMAIN frames : i > 1 => frames[i].prog # << >>
    /\ pc \in Spawning \cup Waiting => Top.prog # << >> /\ child \in Pid

\* The process being spawned, and the group its pre_exec puts it in.
SpawnInv ==
    /\ pc = "fork" => kstate[child] = "forked" /\ pgrp[child] = Shell
    /\ pc = "exec" => kstate[child] = "ready"
    /\ pc = "post" => kstate[child] \in {"running", "stopped", "zombie"}
    /\ pc \in Spawning => status[child] = "none"
    /\ pc \in {"exec", "post"} => Placed(child, IF IsFirst THEN child ELSE Top.job)
    /\ pc \in Waiting => status[child] # "none"

StatusInv ==
    /\ StatusFaithful
    /\ \A p \in Pid :
        /\ kstate[p] \in {"free", "forked", "ready"} => status[p] = "none"
        /\ kstate[p] = "zombie" => wstatus[p] \in Exited
        /\ kstate[p] = "free" => pgrp[p] = Shell

\* The job list, the processes of a job and the machines' references to both.
BookInv ==
    /\ \A j \in jobs : procs[j] # << >>
    /\ \A j \in Pid : procs[j] # << >> => procs[j][1] = j
    /\ \A j \in Pid : \A i \in DOMAIN procs[j] : status[procs[j][i]] # "none"
    /\ \A i \in DOMAIN frames :
        /\ frames[i].job \in Pid => frames[i].job \in jobs
        /\ frames[i].last \in Pid => Terminated(status[frames[i].last])
    /\ NoJobLost

TerminalInv == pc \in {"prompt", "read"} /\ result # "Err" => tty = Shell

IInv == /\ TypeOK /\ ControlInv /\ SpawnInv /\ StatusInv /\ BookInv
        /\ GroupIntegrity /\ TerminalInv

-----------------------------------------------------------------------------
(* What programs that are one pipeline keep as well.                       *)

\* One pipeline: before its last command nothing is waited for, no job is
\* looked at and no function is run.
OnePipeline(prog) ==
    \A i \in DOMAIN prog :
        i < Len(prog) => ~prog[i].wait /\ prog[i].kind \in {"ext", "builtin", "fail"}

PipelinesOnly == OnePipeline(FunctionBody) /\ \A prog \in Programs : OnePipeline(prog)

\* A job that is being started still has its leader, and the terminal.
JobStarts ==
    pc \in {"run"} \cup Spawning /\ Top.prog # << >> /\ Top.job \in Pid =>
        kstate[Top.job] # "reaped" /\ tty = Top.job

\* The process being spawned, once it is in its group.
ChildPlaced ==
    pc \in {"exec", "post"} =>
        /\ pgrp[child] = IF IsFirst THEN child ELSE Top.job
        /\ IsFirst /\ Head(Top.prog).tty => tty = child

\* Every process of a job is in the job's process group.
Grouped == \A j \in Pid : \A i \in DOMAIN procs[j] : pgrp[procs[j][i]] = j

\* Calls and waits are the last command of their program.
ActsLast ==
    /\ \A i \in DOMAIN frames : OnePipeline(frames[i].prog) /\ (i > 1 => Len(frames[i].prog) = 1)
    /\ pc \in Waiting => Len(Top.prog) = 1

\* No stop of the process that is spawned or waited for has been reported.
StopsAreNews == pc \in {"post"} \cup Waiting /\ kstate[child] = "stopped" => news[child]

PipelineInv ==
    /\ JobStarts /\ ChildPlaced /\ Grouped /\ ActsLast /\ StopsAreNews
    /\ WaitedIsForeground

-----------------------------------------------------------------------------
(* Liveness.  The shell thread runs when it can, and a running process is  *)
(* assumed to exit or to be stopped eventually; the user owes nothing.     *)

Fairness ==
    /\ WF_vars(ShellStep)
    /\ \A p \in Pid : WF_vars(/\ \E c \in Exited \ {"Signalled"} : ProcExit(p, c)
                              /\ UNCHANGED shellVars)

FairSpec == Spec /\ Fairness

\* Every line entered is finished with: the shell prompts again, or it has
\* ended.  No wait, in Wait or in fg, hangs on a job that cannot move.
PromptReturns == pc = "run" ~> pc \in {"read", "dead"}
=============================================================================
