------------------------------- MODULE Kernel -------------------------------
(***************************************************************************)
(* The part of a POSIX system that the shell's job control relies on:      *)
(* process life cycle, process groups, the terminal's foreground group and *)
(* the reports waitpid(2) hands out.  Nothing of this is the shell's own   *)
(* code: it is what src/src/job.rs, src/src/exitstatus.rs and              *)
(* src/src/shellhost.rs expect of libc.                                    *)
(*                                                                         *)
(* A pid is used once: process creation takes a "free" pid and a reaped    *)
(* one never becomes free again, so the size of Pid bounds the number of   *)
(* processes a behaviour creates.                                          *)
(***************************************************************************)
EXTENDS Naturals

CONSTANTS Pid,      \* the pids the kernel can still hand out
          Shell     \* the shell's own pid, which is also its process group

ASSUME ShellIsNoChild == Shell \notin Pid

VARIABLES kstate,   \* life cycle of each process
          news,     \* a stop that waitpid(WUNTRACED) has not reported yet
          wstatus,  \* how a process ended
          pgrp,     \* process group of each process
          tty       \* foreground process group of the terminal

kernelVars == <<kstate, news, wstatus, pgrp, tty>>

Group == Pid \cup {Shell}

\* The terminated() values of ExitStatus: two exit codes stand for them all.
Exited == {"Exit0", "Exit1", "Signalled"}

\* "forked" and "ready" precede exec; SIGTSTP, SIGTTIN and SIGINT are still
\* ignored there.  A reaped process is gone, a zombie is not.
LifeCycle == {"free", "forked", "ready", "running", "stopped", "zombie", "reaped"}

KernelTypeOK ==
    /\ kstate \in [Pid -> LifeCycle]
    /\ news \in [Pid -> BOOLEAN]
    /\ wstatus \in [Pid -> Exited \cup {"none"}]
    /\ pgrp \in [Pid -> Group]
    /\ tty \in Group

KernelInit ==
    /\ kstate = [p \in Pid |-> "free"]
    /\ news = [p \in Pid |-> FALSE]
    /\ wstatus = [p \in Pid |-> "none"]
    /\ pgrp = [p \in Pid |-> Shell]
    /\ tty = Shell

Alive(p) == kstate[p] \notin {"free", "reaped"}

\* A process group exists while a member of it, zombies included, is left.
GroupExists(g) == g = Shell \/ \E p \in Pid : Alive(p) /\ pgrp[p] = g

Running(g) == {p \in Pid : kstate[p] = "running" /\ pgrp[p] = g}

\* Mutant of CanReport: waitpid without WUNTRACED.
CanReportExit(p) == kstate[p] = "zombie"

\* What waitpid(p, WUNTRACED) has to report, if anything.
CanReport(p) == kstate[p] = "zombie" \/ news[p]
Report(p) == IF kstate[p] = "zombie" THEN wstatus[p] ELSE "Stopped"

-----------------------------------------------------------------------------
(* System calls.  Each constrains only the variables it may change.        *)

\* tcsetpgrp(fd, g): EPERM when the group is gone, ENOTTY when fd is no tty.
Tcsetpgrp(fdIsTty, g) ==
    tty' = IF fdIsTty /\ GroupExists(g) THEN g ELSE tty

\* kill(-g, SIGCONT): continues the stopped members and discards stop reports.
SigCont(g) ==
    /\ kstate' = [p \in Pid |-> IF pgrp[p] = g /\ kstate[p] = "stopped"
                                THEN "running" ELSE kstate[p]]
    /\ news' = [p \in Pid |-> news[p] /\ pgrp[p] # g]

\* The kernel's side of a waitpid on each process of ps.
Collect(ps) ==
    /\ kstate' = [p \in Pid |-> IF p \in ps /\ kstate[p] = "zombie"
                                THEN "reaped" ELSE kstate[p]]
    /\ news' = [p \in Pid |-> news[p] /\ p \notin ps]

-----------------------------------------------------------------------------
(* What processes and the user at the keyboard do on their own.            *)

\* p calls exit.
ProcExit(p, c) ==
    /\ kstate[p] = "running"
    /\ kstate' = [kstate EXCEPT ![p] = "zombie"]
    /\ wstatus' = [wstatus EXCEPT ![p] = c]
    /\ UNCHANGED <<news, pgrp, tty>>

\* A signal kills p, which may be stopped: ctrl-C, SIGKILL, SIGPIPE.
Killed(p) ==
    /\ kstate[p] \in {"running", "stopped"}
    /\ kstate' = [kstate EXCEPT ![p] = "zombie"]
    /\ wstatus' = [wstatus EXCEPT ![p] = "Signalled"]
    /\ news' = [news EXCEPT ![p] = FALSE]
    /\ UNCHANGED <<pgrp, tty>>

StopGroup(g) ==
    /\ kstate' = [p \in Pid |-> IF p \in Running(g) THEN "stopped" ELSE kstate[p]]
    /\ news' = [p \in Pid |-> news[p] \/ p \in Running(g)]
    /\ UNCHANGED <<wstatus, pgrp, tty>>

\* ctrl-Z: SIGTSTP to the foreground group.  The shell ignores it.
KeySuspend ==
    /\ Running(tty) # {}
    /\ StopGroup(tty)

\* A background process reads the terminal: SIGTTIN to its whole group.  The
\* shell's own group is not orphaned: another process of its session started it.
TtyStop(p) ==
    /\ kstate[p] = "running"
    /\ pgrp[p] # tty
    /\ StopGroup(pgrp[p])
=============================================================================
