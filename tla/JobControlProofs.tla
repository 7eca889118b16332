-------------------------- MODULE JobControlProofs --------------------------
(* Proofs about JobControl, for any number of processes and any programs,  *)
(* and at the end for programs that are one pipeline each: what the shell  *)
(* waits for is in the foreground, and no wait hangs on a stop that was    *)
(* already reported.                                                       *)
EXTENDS JobControl, SequenceTheorems, TLAPS

-----------------------------------------------------------------------------
(* The stack of machines, innermost first.                                 *)

\* Replacing the innermost machine.
LEMMA ReplaceFacts ==
    ASSUME NEW S, NEW s \in Seq(S), s # << >>, NEW f \in S
    PROVE  /\ <<f>> \o Tail(s) \in Seq(S)
           /\ <<f>> \o Tail(s) # << >>
           /\ Head(<<f>> \o Tail(s)) = f
           /\ DOMAIN (<<f>> \o Tail(s)) = DOMAIN s
           /\ (<<f>> \o Tail(s))[1] = f
           /\ \A i \in DOMAIN s : i > 1 => (<<f>> \o Tail(s))[i] = s[i]
<1> DEFINE t == Tail(s)
           r == <<f>> \o t
<1>1. /\ t \in Seq(S) /\ Len(t) = Len(s) - 1 /\ Len(s) \in Nat \ {0}
      /\ \A i \in 1 .. Len(t) : t[i] = s[i + 1]
  BY HeadTailProperties, EmptySeq
<1>2. <<f>> \in Seq(S) /\ Len(<<f>>) = 1 /\ <<f>>[1] = f
  OBVIOUS
<1> HIDE DEF t
<1>3. /\ r \in Seq(S) /\ Len(r) = 1 + Len(t)
      /\ \A i \in 1 .. 1 + Len(t) : r[i] = IF i <= 1 THEN <<f>>[i] ELSE t[i - 1]
  BY <1>1, <1>2, ConcatProperties
<1> HIDE DEF r
<1>4. Len(r) = Len(s) /\ r[1] = f
  BY <1>1, <1>2, <1>3
<1>5. \A i \in 1 .. Len(s) : i > 1 => r[i] = s[i]
  BY <1>1, <1>2, <1>3
<1>6. DOMAIN r = 1 .. Len(r) /\ DOMAIN s = 1 .. Len(s)
  BY <1>3
<1>7. r # << >> /\ Head(r) = f
  BY <1>1, <1>3, <1>4
<1> QED
  BY <1>3, <1>4, <1>5, <1>6, <1>7 DEF r, t

\* Entering a machine.
LEMMA PushFacts ==
    ASSUME NEW S, NEW s \in Seq(S), NEW f \in S
    PROVE  /\ <<f>> \o s \in Seq(S)
           /\ <<f>> \o s # << >>
           /\ Head(<<f>> \o s) = f
           /\ (<<f>> \o s)[1] = f
           /\ \A i \in DOMAIN (<<f>> \o s) :
                  i > 1 => i - 1 \in DOMAIN s /\ (<<f>> \o s)[i] = s[i - 1]
<1> DEFINE r == <<f>> \o s
<1>1. <<f>> \in Seq(S) /\ Len(<<f>>) = 1 /\ <<f>>[1] = f /\ Len(s) \in Nat
  OBVIOUS
<1>2. /\ r \in Seq(S) /\ Len(r) = 1 + Len(s)
      /\ \A i \in 1 .. 1 + Len(s) : r[i] = IF i <= 1 THEN <<f>>[i] ELSE s[i - 1]
  BY <1>1, ConcatProperties
<1> HIDE DEF r
<1>3. DOMAIN r = 1 .. Len(r) /\ DOMAIN s = 1 .. Len(s)
  BY <1>2
<1>4. \A i \in DOMAIN r : i > 1 => i - 1 \in DOMAIN s /\ r[i] = s[i - 1]
  BY <1>1, <1>2, <1>3
<1>5. r # << >> /\ r[1] = f /\ Head(r) = f
  BY <1>1, <1>2
<1> QED
  BY <1>2, <1>4, <1>5 DEF r

\* Leaving a machine.
LEMMA TailFacts ==
    ASSUME NEW S, NEW s \in Seq(S), s # << >>
    PROVE  /\ Head(s) \in S /\ Head(s) = s[1] /\ 1 \in DOMAIN s
           /\ Tail(s) \in Seq(S)
           /\ Len(s) # 1 <=> Tail(s) # << >>
           /\ \A i \in DOMAIN Tail(s) : i + 1 \in DOMAIN s /\ Tail(s)[i] = s[i + 1]
<1>1. /\ Tail(s) \in Seq(S) /\ Len(Tail(s)) = Len(s) - 1 /\ Len(s) \in Nat \ {0}
      /\ \A i \in 1 .. Len(Tail(s)) : Tail(s)[i] = s[i + 1]
      /\ Head(s) \in S
  BY HeadTailProperties, EmptySeq
<1>2. DOMAIN Tail(s) = 1 .. Len(Tail(s)) /\ DOMAIN s = 1 .. Len(s)
  BY <1>1
<1>3. \A i \in DOMAIN Tail(s) : i + 1 \in DOMAIN s /\ Tail(s)[i] = s[i + 1]
  BY <1>1, <1>2
<1>4. Head(s) = s[1] /\ 1 \in DOMAIN s
  BY <1>1, <1>2
<1>5. Len(s) # 1 <=> Tail(s) # << >>
  <2> DEFINE t == Tail(s)
  <2>1. t \in Seq(S) /\ Len(t) = Len(s) - 1 /\ Len(s) \in Nat
    BY <1>1
  <2> HIDE DEF t
  <2>2. t = << >> <=> Len(t) = 0
    BY <2>1, EmptySeq
  <2> QED
    BY <2>1, <2>2 DEF t
<1> QED
  BY <1>1, <1>3, <1>4, <1>5
-----------------------------------------------------------------------------
(* Types.                                                                  *)

\* What TypeOK says of the innermost machine.
LEMMA TopType ==
    ASSUME TypeOK, frames # << >>
    PROVE  /\ Top \in Frame /\ Top = frames[1] /\ 1 \in DOMAIN frames
           /\ Top.prog # << >> => /\ Head(Top.prog) \in Command
                                  /\ Rest \in Frame
                                  /\ Proceed \in Frame
                                  /\ Rest.job = Top.job /\ Rest.last = Top.last
                                  /\ Proceed.job = Top.job
                                  /\ Proceed.last \in {Top.last, Ready}
<1>1. Top \in Frame /\ Top = frames[1] /\ 1 \in DOMAIN frames
  BY TailFacts DEF TypeOK, Top
<1>2. ASSUME Top.prog # << >>
      PROVE  Head(Top.prog) \in Command /\ Tail(Top.prog) \in Seq(Command)
  BY <1>1, <1>2, HeadTailProperties DEF Frame
<1> QED
  BY <1>1, <1>2 DEF Frame, Rest, Proceed

LEMMA NewMachineType ==
    ASSUME NEW prog \in Seq(Command)
    PROVE  NewMachine(prog) \in Frame
  BY DEF NewMachine, Frame

LEMMA ReplaceType ==
    ASSUME TypeOK, frames # << >>, NEW f \in Frame
    PROVE  Replace(f) \in Seq(Frame)
  BY ReplaceFacts DEF TypeOK, Replace

\* Statuses and kernel states a poll or a wait can produce.
LEMMA PollType ==
    ASSUME TypeOK, StatusInv, NEW ps \in SUBSET Pid, Poll(ps)
    PROVE  /\ status' \in [Pid -> {"none", "Running", "Stopped"} \cup Exited]
           /\ kstate' \in [Pid -> LifeCycle]
           /\ news' \in [Pid -> BOOLEAN]
  BY DEF TypeOK, KernelTypeOK, Poll, Polled, Report, CanReport, Collect, LifeCycle

LEMMA WaitType ==
    ASSUME TypeOK, StatusInv, NEW p \in Pid, Wait(p)
    PROVE  /\ status' \in [Pid -> {"none", "Running", "Stopped"} \cup Exited]
           /\ kstate' \in [Pid -> LifeCycle]
           /\ news' \in [Pid -> BOOLEAN]
  BY DEF TypeOK, KernelTypeOK, Wait, Waited, Report, CanReport, Collect, LifeCycle, Exited

LEMMA LastProcessType ==
    ASSUME TypeOK, BookInv
    PROVE  /\ LastProcesses \in SUBSET Pid
           /\ \A j \in jobs : LastProcess(j) \in Pid /\ Len(procs[j]) \in DOMAIN procs[j]
<1> SUFFICES ASSUME NEW j \in jobs
             PROVE  LastProcess(j) \in Pid /\ Len(procs[j]) \in DOMAIN procs[j]
  BY DEF LastProcesses
<1>1. procs[j] \in Seq(Pid) /\ procs[j] # << >>
  BY DEF TypeOK, BookInv
<1>2. Len(procs[j]) \in 1 .. Len(procs[j]) /\ DOMAIN procs[j] = 1 .. Len(procs[j])
  BY <1>1, EmptySeq
<1> QED
  BY <1>1, <1>2 DEF LastProcess

\* Every step of the kernel keeps the types.
LEMMA EnvironmentType ==
    ASSUME TypeOK, Environment
    PROVE  TypeOK'
<1>1. UNCHANGED shellVars
  BY DEF Environment
<1>2. KernelTypeOK => KernelTypeOK'
  <2> SUFFICES ASSUME KernelTypeOK
               PROVE  KernelTypeOK'
    OBVIOUS
  <2>1. ASSUME NEW p \in Pid, NEW c \in Exited, ProcExit(p, c)
        PROVE  KernelTypeOK'
    BY <2>1 DEF ProcExit, KernelTypeOK, LifeCycle
  <2>2. ASSUME NEW p \in Pid, Killed(p)
        PROVE  KernelTypeOK'
    BY <2>2 DEF Killed, KernelTypeOK, LifeCycle, Exited
  <2>3. ASSUME NEW g, StopGroup(g)
        PROVE  KernelTypeOK'
    <3>1. kstate' \in [Pid -> LifeCycle]
      BY <2>3 DEF StopGroup, KernelTypeOK, LifeCycle
    <3>2. news' \in [Pid -> BOOLEAN]
      BY <2>3 DEF StopGroup
    <3> QED
      BY <2>3, <3>1, <3>2 DEF StopGroup, KernelTypeOK
  <2> QED
    BY <2>1, <2>2, <2>3 DEF Environment, KeySuspend, TtyStop
<1> QED
  BY <1>1, <1>2 DEF TypeOK, shellVars
\* Control-flow facts every instruction of the machine can rely on.
LEMMA AtFacts ==
    ASSUME TypeOK, ControlInv,
           pc \in {"run", "return"} \cup Spawning \cup Waiting
    PROVE  /\ frames # << >>
           /\ Top \in Frame /\ Top = frames[1] /\ 1 \in DOMAIN frames
           /\ frames \in Seq(Frame)
           /\ pc \in Spawning \cup Waiting => child \in Pid /\ Top.prog # << >>
           /\ Top.prog # << >> => /\ Head(Top.prog) \in Command
                                  /\ Rest \in Frame
                                  /\ Proceed \in Frame
                                  /\ Rest.job = Top.job /\ Rest.last = Top.last
                                  /\ Proceed.job = Top.job
                                  /\ Proceed.last \in {Top.last, Ready}
<1>1. frames # << >>
  BY DEF ControlInv, Spawning, Waiting
<1> QED
  BY <1>1, TopType DEF TypeOK, ControlInv

\* What Return does to the stack when the caller goes on.
LEMMA CallerFacts ==
    ASSUME TypeOK, ControlInv, pc = "return", Len(frames) # 1
    PROVE  LET caller == Head(Tail(frames))
               cmd == Head(caller.prog)
               next == [caller EXCEPT !.prog = Tail(@),
                                      !.last = IF cmd.wait THEN Ready ELSE @]
           IN  /\ Tail(frames) \in Seq(Frame) /\ Tail(frames) # << >>
               /\ \A i \in DOMAIN Tail(frames) :
                      /\ i + 1 \in DOMAIN frames /\ Tail(frames)[i] = frames[i + 1]
                      /\ Tail(frames)[i].prog # << >>
               /\ 2 \in DOMAIN frames /\ caller = frames[2]
               /\ next \in Frame /\ next.job = caller.job /\ next.last \in {caller.last, Ready}
<1> DEFINE caller == Head(Tail(frames))
           cmd == Head(caller.prog)
           next == [caller EXCEPT !.prog = Tail(@),
                                  !.last = IF cmd.wait THEN Ready ELSE @]
<1>1. /\ frames # << >> /\ Tail(frames) \in Seq(Frame) /\ Tail(frames) # << >>
      /\ \A i \in DOMAIN Tail(frames) :
             i + 1 \in DOMAIN frames /\ Tail(frames)[i] = frames[i + 1]
  BY AtFacts, TailFacts DEF TypeOK
<1>2. caller \in Frame /\ caller = Tail(frames)[1] /\ 1 \in DOMAIN Tail(frames)
  BY <1>1, TailFacts
<1>3. \A i \in DOMAIN Tail(frames) : Tail(frames)[i].prog # << >>
  <2> SUFFICES ASSUME NEW i \in DOMAIN Tail(frames)
               PROVE  Tail(frames)[i].prog # << >>
    OBVIOUS
  <2>1. i \in 1 .. Len(Tail(frames))
    BY <1>1
  <2> QED
    BY <1>1, <2>1 DEF ControlInv
<1>4. 2 \in DOMAIN frames /\ caller = frames[2]
  BY <1>1, <1>2
<1>5. caller.prog # << >> /\ Tail(caller.prog) \in Seq(Command)
  BY <1>2, <1>3, HeadTailProperties DEF Frame
<1>6. next \in Frame /\ next.job = caller.job /\ next.last \in {caller.last, Ready}
  BY <1>2, <1>5 DEF Frame
<1> QED
  BY <1>1, <1>3, <1>4, <1>6

\* Only the control part of TypeOK is at stake when the kernel part and the
\* job records are left alone.
LEMMA TypeStep ==
    ASSUME IInv, [Next]_vars
    PROVE  TypeOK'
<1> USE ProgramAssumption
<1>0. TypeOK /\ ControlInv /\ StatusInv /\ BookInv
  BY DEF IInv
<1>1. CASE UNCHANGED vars
  BY <1>0, <1>1 DEF vars, kernelVars, shellVars, TypeOK, KernelTypeOK
<1>2. CASE CheckJobs
  <2>1. LastProcesses \in SUBSET Pid /\ Poll(LastProcesses)
    BY <1>0, <1>2, LastProcessType DEF CheckJobs
  <2> QED
    BY <1>0, <1>2, <2>1, PollType DEF CheckJobs, TypeOK, KernelTypeOK, Control
<1>3. CASE ReadLine
  <2>1. PICK prog \in Programs : frames' = <<NewMachine(prog)>>
    BY <1>3 DEF ReadLine
  <2>2. frames' \in Seq(Frame)
    BY <2>1, NewMachineType
  <2> QED
    BY <1>0, <1>3, <2>2 DEF ReadLine, TypeOK, KernelTypeOK, kernelVars, Control
<1>4. CASE ReadNothing \/ ReadFails
  BY <1>0, <1>4 DEF ReadNothing, ReadFails, TypeOK, KernelTypeOK, kernelVars, Control
<1>5. CASE Done
  BY <1>0, <1>5 DEF Done, Tcsetpgrp, TypeOK, KernelTypeOK, Group, Control
<1>6. CASE Exit
  <2>1. /\ status' \in [Pid -> {"none", "Running", "Stopped"} \cup Exited]
        /\ kstate' \in [Pid -> LifeCycle] /\ news' \in [Pid -> BOOLEAN]
    <3>1. CASE Top.last \in Pid
      BY <1>0, <1>6, <3>1, WaitType DEF Exit
    <3>2. CASE Top.last \notin Pid
      BY <1>0, <1>6, <3>2 DEF Exit, TypeOK, KernelTypeOK
    <3> QED
      BY <3>1, <3>2
  <2> QED
    BY <1>0, <1>6, <2>1 DEF Exit, TypeOK, KernelTypeOK, Control
<1>7. CASE Builtin \/ FgNothing
  <2>1. pc = "run" /\ Top.prog # << >> /\ frames' = Replace(Proceed)
    BY <1>7 DEF Builtin, FgNothing, At
  <2>2. frames' \in Seq(Frame)
    BY <1>0, <2>1, AtFacts, ReplaceType
  <2> QED
    BY <1>0, <1>7, <2>2 DEF Builtin, FgNothing, TypeOK, KernelTypeOK, kernelVars
<1>8. CASE Fail \/ ForkFails
  BY <1>0, <1>8 DEF Fail, ForkFails, Fails, TypeOK, KernelTypeOK, kernelVars, Control
<1>9. CASE Jobs
  <2>1. pc = "run" /\ Top.prog # << >> /\ frames' = Replace(Proceed)
    BY <1>9 DEF Jobs, At
  <2>2. frames' \in Seq(Frame)
    BY <1>0, <2>1, AtFacts, ReplaceType
  <2>3. LastProcesses \in SUBSET Pid /\ Poll(LastProcesses)
    BY <1>0, <1>9, LastProcessType DEF Jobs
  <2> QED
    BY <1>0, <1>9, <2>2, <2>3, PollType DEF Jobs, TypeOK, KernelTypeOK
<1>10. CASE Fg
  <2>1. PICK j \in jobs : Tcsetpgrp(TRUE, j) /\ SigCont(j) /\ child' = LastProcess(j)
    BY <1>10 DEF Fg
  <2>2. child' \in Pid /\ j \in Pid
    BY <1>0, <2>1, LastProcessType DEF TypeOK
  <2>3. tty' \in Group
    BY <1>0, <2>1, <2>2 DEF Tcsetpgrp, TypeOK, KernelTypeOK, Group
  <2>4. kstate' \in [Pid -> LifeCycle]
    BY <1>0, <2>1 DEF SigCont, TypeOK, KernelTypeOK, LifeCycle
  <2>5. news' \in [Pid -> BOOLEAN]
    BY <2>1 DEF SigCont
  <2> QED
    BY <1>0, <1>10, <2>2, <2>3, <2>4, <2>5 DEF Fg, TypeOK, KernelTypeOK, Control, Waiting
<1>11. CASE FgWait
  <2>1. child \in Pid /\ Wait(child)
    BY <1>0, <1>11, AtFacts DEF FgWait, Waiting
  <2>2. frames' \in Seq(Frame)
    BY <1>0, <1>11, AtFacts, ReplaceType DEF FgWait, Waiting
  <2> QED
    BY <1>0, <1>11, <2>1, <2>2, WaitType DEF FgWait, TypeOK, KernelTypeOK, Control
<1>12. CASE Call
  <2>1. frames' \in Seq(Frame)
    BY <1>0, <1>12, NewMachineType, PushFacts DEF Call, TypeOK
  <2> QED
    BY <1>0, <1>12, <2>1 DEF Call, TypeOK, KernelTypeOK, kernelVars
<1>13. CASE Return
  <2>1. frames' \in Seq(Frame)
    <3>1. CASE Len(frames) = 1
      BY <1>13, <3>1 DEF Return
    <3>2. CASE Len(frames) # 1
      <4>1. Tail(frames) \in Seq(Frame) /\ Tail(frames) # << >> /\ pc = "return"
        BY <1>0, <1>13, <3>2, CallerFacts DEF Return
      <4>2. \A f \in Frame : <<f>> \o Tail(Tail(frames)) \in Seq(Frame)
        BY <4>1, ReplaceFacts
      <4> QED
        BY <1>0, <1>13, <3>2, <4>1, <4>2, CallerFacts DEF Return
    <3> QED
      BY <3>1, <3>2
  <2>2. pc' \in Control
    BY <1>13 DEF Return, Control
  <2> QED
    BY <1>0, <1>13, <2>1, <2>2 DEF Return, TypeOK, KernelTypeOK, kernelVars
<1>14. CASE Fork
  BY <1>0, <1>14 DEF Fork, TypeOK, KernelTypeOK, LifeCycle, Control, Spawning
<1>15. CASE PreExec
  <2>1. child \in Pid /\ Top \in Frame
    BY <1>0, <1>15, AtFacts DEF PreExec, Spawning
  <2>2. pgrp' \in [Pid -> Group] /\ tty' \in Group
    <3>1. CASE IsFirst
      BY <1>0, <1>15, <2>1, <3>1 DEF PreExec, TypeOK, KernelTypeOK, Group
    <3>2. CASE ~IsFirst
      <4>1. Top.job \in Group
        BY <2>1, <3>2 DEF IsFirst, Frame, Group
      <4> QED
        BY <1>0, <1>15, <2>1, <3>2, <4>1 DEF PreExec, TypeOK, KernelTypeOK
    <3> QED
      BY <3>1, <3>2
  <2>3. kstate' \in [Pid -> LifeCycle]
    BY <1>0, <1>15, <2>1 DEF PreExec, TypeOK, KernelTypeOK, LifeCycle
  <2> QED
    BY <1>0, <1>15, <2>2, <2>3 DEF PreExec, TypeOK, KernelTypeOK, Control, Spawning
<1>16. CASE ExecOk
  BY <1>0, <1>16 DEF ExecOk, TypeOK, KernelTypeOK, LifeCycle, Control, Spawning
<1>17. CASE ExecFails
  BY <1>0, <1>17 DEF ExecFails, Fails, TypeOK, KernelTypeOK, LifeCycle, Control
<1>18. CASE JoinJob
  <2> DEFINE job == IF IsFirst THEN child ELSE Top.job
  <2>1. /\ child \in Pid /\ Top \in Frame /\ Rest \in Frame /\ job \in Pid
        /\ frames # << >>
    BY <1>0, <1>18, AtFacts DEF JoinJob, Spawning, IsFirst, Frame
  <2>2. [Top EXCEPT !.job = job] \in Frame /\ [Rest EXCEPT !.job = job] \in Frame
    BY <2>1 DEF Frame
  <2>3. procs' \in [Pid -> Seq(Pid)] /\ jobs' \subseteq Pid
    BY <1>0, <1>18, <2>1 DEF JoinJob, TypeOK
  <2>4. tty' \in Group
    BY <1>0, <1>18, <2>1 DEF JoinJob, Tcsetpgrp, TypeOK, KernelTypeOK, Group
  <2>5. /\ Spawned(job)
        /\ status' = [status EXCEPT ![child] = "Running"]
        /\ UNCHANGED <<kstate, news, wstatus, pgrp, result>>
    BY <1>18 DEF JoinJob
  <2> HIDE DEF job
  <2>6. frames' \in Seq(Frame)
    BY <1>0, <2>1, <2>2, <2>5, ReplaceType DEF Spawned
  <2>7. pc' \in Control /\ child' \in Pid \cup {None}
    BY <2>1, <2>5 DEF Spawned, Control, Waiting
  <2>8. status' \in [Pid -> {"none", "Running", "Stopped"} \cup Exited]
    BY <1>0, <2>1, <2>5 DEF TypeOK
  <2> QED
    BY <1>0, <2>3, <2>4, <2>5, <2>6, <2>7, <2>8 DEF TypeOK, KernelTypeOK
<1>19. CASE WaitChild
  <2>1. child \in Pid /\ Wait(child) /\ Rest \in Frame /\ frames # << >>
    BY <1>0, <1>19, AtFacts DEF WaitChild, Waiting
  <2>2. [Rest EXCEPT !.last = child] \in Frame
    BY <2>1 DEF Frame
  <2>3. frames' \in Seq(Frame)
    BY <1>0, <1>19, <2>1, <2>2, ReplaceType DEF WaitChild, TypeOK
  <2> QED
    BY <1>0, <1>19, <2>1, <2>3, WaitType DEF WaitChild, TypeOK, KernelTypeOK, Control
<1>20. CASE Environment
  BY <1>0, <1>20, EnvironmentType
<1>21. CASE Dead
  BY <1>0, <1>21 DEF Dead, vars, kernelVars, shellVars, TypeOK, KernelTypeOK
<1> QED
  BY <1>1, <1>2, <1>3, <1>4, <1>5, <1>6, <1>7, <1>8, <1>9, <1>10, <1>11, <1>12, <1>13,
     <1>14, <1>15, <1>16, <1>17, <1>18, <1>19, <1>20, <1>21 DEF Next, ShellStep, User
-----------------------------------------------------------------------------
(* Control flow.                                                           *)

\* Replacing the innermost machine keeps the pending calls below it.
LEMMA ReplaceControl ==
    ASSUME TypeOK, ControlInv, frames # << >>, NEW f \in Frame, frames' = Replace(f)
    PROVE  /\ frames' # << >> /\ Top' = f
           /\ \A i \in DOMAIN frames' : i > 1 => frames'[i].prog # << >>
<1>1. /\ DOMAIN frames' = DOMAIN frames /\ frames' # << >> /\ Head(frames') = f
      /\ \A i \in DOMAIN frames : i > 1 => frames'[i] = frames[i]
  BY ReplaceFacts DEF TypeOK, Replace
<1> QED
  BY <1>1 DEF ControlInv, Top

LEMMA ControlStep ==
    ASSUME IInv, [Next]_vars
    PROVE  ControlInv'
<1>0. TypeOK /\ ControlInv /\ BookInv
  BY DEF IInv
<1>1. CASE UNCHANGED vars
  BY <1>0, <1>1 DEF vars, shellVars, ControlInv, Top
<1>2. CASE CheckJobs \/ ReadNothing \/ ReadFails \/ Done
  BY <1>0, <1>2 DEF CheckJobs, ReadNothing, ReadFails, Done, ControlInv, Spawning, Waiting
<1>3. CASE ReadLine
  <2>1. PICK prog \in Programs : frames' = <<NewMachine(prog)>>
    BY <1>3 DEF ReadLine
  <2>2. frames' # << >> /\ DOMAIN frames' = {1}
    BY <2>1
  <2> QED
    BY <1>3, <2>2 DEF ReadLine, ControlInv, Spawning, Waiting
<1>4. CASE Exit \/ Fail \/ ForkFails \/ ExecFails
  BY <1>0, <1>4 DEF Exit, Fail, ForkFails, ExecFails, Fails, At, ControlInv, Spawning, Waiting
<1>5. CASE Builtin \/ FgNothing \/ Jobs \/ FgWait
  <2>1. Top.prog # << >> /\ frames' = Replace(Proceed) /\ pc' = "run"
        /\ pc \in {"run", "fgwait"}
    BY <1>0, <1>5 DEF Builtin, FgNothing, Jobs, FgWait, At, ControlInv, Waiting
  <2>2. frames' # << >> /\ \A i \in DOMAIN frames' : i > 1 => frames'[i].prog # << >>
    BY <1>0, <2>1, AtFacts, ReplaceControl DEF Waiting
  <2> QED
    BY <2>1, <2>2 DEF ControlInv, Spawning, Waiting
<1>6. CASE Fg
  <2>1. PICK j \in jobs : child' = LastProcess(j)
    BY <1>6 DEF Fg
  <2>2. child' \in Pid /\ frames' = frames /\ pc' = "fgwait" /\ pc = "run" /\ Top.prog # << >>
    BY <1>0, <1>6, <2>1, LastProcessType DEF Fg, At
  <2> QED
    BY <1>0, <2>2 DEF ControlInv, Spawning, Waiting, Top
<1>7. CASE Call
  <2> DEFINE f == NewMachine(FunctionBody)
  <2>1. f \in Frame /\ frames' = <<f>> \o frames /\ pc' = "run" /\ pc = "run"
        /\ frames \in Seq(Frame) /\ frames # << >> /\ frames[1] = Top /\ Top.prog # << >>
    BY <1>0, <1>7, NewMachineType, AtFacts, ProgramAssumption DEF Call, At
  <2> HIDE DEF f
  <2>2. /\ frames' # << >>
        /\ \A i \in DOMAIN frames' : i > 1 => i - 1 \in DOMAIN frames /\ frames'[i] = frames[i - 1]
    BY <2>1, PushFacts
  <2>3. \A i \in DOMAIN frames : frames[i].prog # << >>
    <3> SUFFICES ASSUME NEW i \in DOMAIN frames
                 PROVE  frames[i].prog # << >>
      OBVIOUS
    <3>1. i \in 1 .. Len(frames)
      BY <2>1
    <3> QED
      BY <1>0, <2>1, <3>1 DEF ControlInv
  <2> QED
    BY <2>1, <2>2, <2>3 DEF ControlInv, Spawning, Waiting
<1>8. CASE Return
  <2>1. CASE Len(frames) = 1
    BY <1>8, <2>1 DEF Return, ControlInv, Spawning, Waiting
  <2>2. CASE Len(frames) # 1
    <3> DEFINE t == Tail(frames)
               next == [Head(t) EXCEPT !.prog = Tail(@),
                            !.last = IF Head(Head(t).prog).wait THEN Ready ELSE @]
    <3>1. /\ t \in Seq(Frame) /\ t # << >> /\ next \in Frame
          /\ \A i \in DOMAIN t : t[i].prog # << >>
      BY <1>0, <1>8, <2>2, CallerFacts DEF Return
    <3>2. \/ frames' = t /\ pc' = "return"
          \/ frames' = <<next>> \o Tail(t) /\ pc' = "run"
      BY <1>8, <2>2 DEF Return
    <3> HIDE DEF t, next
    <3>3. /\ <<next>> \o Tail(t) # << >> /\ DOMAIN (<<next>> \o Tail(t)) = DOMAIN t
          /\ \A i \in DOMAIN t : i > 1 => (<<next>> \o Tail(t))[i] = t[i]
      BY <3>1, ReplaceFacts
    <3> QED
      BY <3>1, <3>2, <3>3 DEF ControlInv, Spawning, Waiting
  <2> QED
    BY <2>1, <2>2
<1>9. CASE Fork
  BY <1>0, <1>9 DEF Fork, At, ControlInv, Spawning, Waiting, Top
<1>10. CASE PreExec \/ ExecOk
  BY <1>0, <1>10 DEF PreExec, ExecOk, ControlInv, Spawning, Waiting, Top
<1>11. CASE JoinJob
  <2> DEFINE job == IF IsFirst THEN child ELSE Top.job
  <2>1. /\ child \in Pid /\ Top \in Frame /\ Rest \in Frame /\ job \in Pid
        /\ frames # << >> /\ Top.prog # << >>
    BY <1>0, <1>11, AtFacts DEF JoinJob, Spawning, IsFirst, Frame
  <2>2. /\ [Top EXCEPT !.job = job] \in Frame /\ [Rest EXCEPT !.job = job] \in Frame
        /\ [Top EXCEPT !.job = job].prog = Top.prog
    BY <2>1 DEF Frame
  <2>3. Spawned(job)
    BY <1>11 DEF JoinJob
  <2> HIDE DEF job
  <2>4. CASE Head(Top.prog).wait
    <3>1. frames' = Replace([Top EXCEPT !.job = job]) /\ pc' = "wait" /\ child' = child
      BY <2>3, <2>4 DEF Spawned
    <3>2. /\ frames' # << >> /\ Top' = [Top EXCEPT !.job = job]
          /\ \A i \in DOMAIN frames' : i > 1 => frames'[i].prog # << >>
      BY <1>0, <2>1, <2>2, <3>1, ReplaceControl
    <3> QED
      BY <2>1, <2>2, <3>1, <3>2 DEF ControlInv, Spawning, Waiting
  <2>5. CASE ~Head(Top.prog).wait
    <3>1. frames' = Replace([Rest EXCEPT !.job = job]) /\ pc' = "run"
      BY <2>3, <2>5 DEF Spawned
    <3>2. frames' # << >> /\ \A i \in DOMAIN frames' : i > 1 => frames'[i].prog # << >>
      BY <1>0, <2>1, <2>2, <3>1, ReplaceControl
    <3> QED
      BY <3>1, <3>2 DEF ControlInv, Spawning, Waiting
  <2> QED
    BY <2>4, <2>5
<1>12. CASE WaitChild
  <2>1. child \in Pid /\ Rest \in Frame /\ frames # << >> /\ pc = "wait"
    BY <1>0, <1>12, AtFacts DEF WaitChild, Waiting
  <2>2. [Rest EXCEPT !.last = child] \in Frame
    BY <2>1 DEF Frame
  <2>3. CASE Waited(child) = "Stopped"
    BY <1>0, <1>12, <2>1, <2>3 DEF WaitChild, ControlInv, Spawning, Waiting
  <2>4. CASE Waited(child) # "Stopped"
    <3>1. frames' = Replace([Rest EXCEPT !.last = child]) /\ pc' = "run"
      BY <1>12, <2>4 DEF WaitChild
    <3>2. frames' # << >> /\ \A i \in DOMAIN frames' : i > 1 => frames'[i].prog # << >>
      BY <1>0, <2>1, <2>2, <3>1, ReplaceControl
    <3> QED
      BY <3>1, <3>2 DEF ControlInv, Spawning, Waiting
  <2> QED
    BY <2>3, <2>4
<1>13. CASE Environment \/ Dead
  BY <1>0, <1>13 DEF Environment, Dead, vars, shellVars, ControlInv, Top
<1> QED
  BY <1>1, <1>2, <1>3, <1>4, <1>5, <1>6, <1>7, <1>8, <1>9, <1>10, <1>11, <1>12, <1>13
     DEF Next, ShellStep, User
-----------------------------------------------------------------------------
(* Wait statuses.                                                          *)

\* What any number of waitpid calls for known children amounts to.
Collected ==
    /\ \A p \in Pid :
        /\ status'[p] = "none" <=> status[p] = "none"
        /\ \/ kstate'[p] = kstate[p]
           \/ kstate[p] = "zombie" /\ kstate'[p] = "reaped" /\ status[p] # "none"
        /\ Terminated(status[p]) => status'[p] = status[p]
        /\ status[p] # "none" =>
            /\ Terminated(status'[p]) <=> kstate'[p] = "reaped"
            /\ Terminated(status'[p]) => status'[p] = wstatus[p]

\* A child is reaped exactly when its exit is recorded.
LEMMA PollCollects ==
    ASSUME TypeOK, StatusInv, NEW ps \in SUBSET Pid, Poll(ps),
           \A p \in ps : status[p] # "none"
    PROVE  Collected
<1> SUFFICES ASSUME NEW p \in Pid
             PROVE  /\ status'[p] = "none" <=> status[p] = "none"
                    /\ \/ kstate'[p] = kstate[p]
                       \/ kstate[p] = "zombie" /\ kstate'[p] = "reaped" /\ status[p] # "none"
                    /\ Terminated(status[p]) => status'[p] = status[p]
                    /\ status[p] # "none" =>
                        /\ Terminated(status'[p]) <=> kstate'[p] = "reaped"
                        /\ Terminated(status'[p]) => status'[p] = wstatus[p]
  BY DEF Collected
<1>1. /\ status'[p] = IF p \in ps THEN Polled(p) ELSE status[p]
      /\ kstate'[p] = IF p \in ps /\ ~Terminated(status[p]) /\ kstate[p] = "zombie"
                      THEN "reaped" ELSE kstate[p]
  BY DEF Poll, Collect, Unfinished
<1>2. /\ kstate[p] = "zombie" => wstatus[p] \in Exited
      /\ status[p] # "none" => /\ Terminated(status[p]) <=> kstate[p] = "reaped"
                               /\ Terminated(status[p]) => status[p] = wstatus[p]
  BY DEF StatusInv, StatusFaithful
<1> QED
  BY <1>1, <1>2 DEF Polled, CanReport, Report, Terminated, Exited

\* The same for a blocking wait: its error path is never taken.
LEMMA WaitCollects ==
    ASSUME TypeOK, StatusInv, NEW q \in Pid, Wait(q), status[q] # "none"
    PROVE  Collected
<1> SUFFICES ASSUME NEW p \in Pid
             PROVE  /\ status'[p] = "none" <=> status[p] = "none"
                    /\ \/ kstate'[p] = kstate[p]
                       \/ kstate[p] = "zombie" /\ kstate'[p] = "reaped" /\ status[p] # "none"
                    /\ Terminated(status[p]) => status'[p] = status[p]
                    /\ status[p] # "none" =>
                        /\ Terminated(status'[p]) <=> kstate'[p] = "reaped"
                        /\ Terminated(status'[p]) => status'[p] = wstatus[p]
  BY DEF Collected
<1>1. /\ status'[p] = IF p = q THEN Waited(p) ELSE status[p]
      /\ kstate'[p] = IF p = q /\ ~Terminated(status[p]) /\ kstate[p] = "zombie"
                      THEN "reaped" ELSE kstate[p]
  BY DEF Wait, Collect, Unfinished, TypeOK
<1>2. /\ kstate[p] = "zombie" => wstatus[p] \in Exited
      /\ status[p] # "none" => /\ Terminated(status[p]) <=> kstate[p] = "reaped"
                               /\ Terminated(status[p]) => status[p] = wstatus[p]
  BY DEF StatusInv, StatusFaithful
<1>3. WaitReturns(q)
  BY DEF Wait
<1> QED
  BY <1>1, <1>2, <1>3 DEF Waited, WaitReturns, CanReport, Report, Terminated, Exited

\* The processes polled and waited for are all known children.
LEMMA KnownChildren ==
    ASSUME TypeOK, ControlInv, SpawnInv, BookInv
    PROVE  /\ \A p \in LastProcesses : status[p] # "none"
           /\ pc \in Waiting => child \in Pid /\ status[child] # "none"
           /\ pc = "run" /\ Top.last \in Pid => status[Top.last] # "none"
<1>1. \A p \in LastProcesses : status[p] # "none"
  <2> SUFFICES ASSUME NEW j \in jobs
               PROVE  status[LastProcess(j)] # "none"
    BY DEF LastProcesses
  <2> QED
    BY LastProcessType DEF TypeOK, BookInv, LastProcess
<1>2. pc \in Waiting => child \in Pid /\ status[child] # "none"
  BY DEF ControlInv, SpawnInv
<1>3. pc = "run" /\ Top.last \in Pid => status[Top.last] # "none"
  BY AtFacts DEF BookInv, Terminated, Exited
<1> QED
  BY <1>1, <1>2, <1>3

\* Every action that may reap a child does so by waitpid calls on known ones.
LEMMA CollectingSteps ==
    ASSUME IInv, CheckJobs \/ Jobs \/ FgWait \/ WaitChild \/ Exit
    PROVE  /\ UNCHANGED <<wstatus, pgrp, tty, procs>>
           /\ Collected
<1>0. TypeOK /\ ControlInv /\ SpawnInv /\ StatusInv /\ BookInv
  BY DEF IInv
<1>1. UNCHANGED <<wstatus, pgrp, tty, procs>>
  BY DEF CheckJobs, Jobs, FgWait, WaitChild, Exit
<1>2. CASE CheckJobs \/ Jobs
  BY <1>0, <1>2, PollCollects, KnownChildren, LastProcessType DEF CheckJobs, Jobs
<1>3. CASE FgWait \/ WaitChild
  BY <1>0, <1>3, WaitCollects, KnownChildren DEF FgWait, WaitChild, Waiting
<1>4. CASE Exit /\ Top.last \in Pid
  BY <1>0, <1>4, WaitCollects, KnownChildren DEF Exit
<1>5. CASE Exit /\ Top.last \notin Pid
  BY <1>0, <1>5 DEF Exit, Collected, StatusInv, StatusFaithful
<1> QED
  BY <1>1, <1>2, <1>3, <1>4, <1>5

\* The actions that touch neither the kernel nor any record of a process.
Quiet == ReadLine \/ ReadNothing \/ ReadFails \/ Builtin \/ Fail \/ FgNothing
         \/ Call \/ Return \/ ForkFails \/ Dead

LEMMA QuietFrame ==
    ASSUME Quiet \/ UNCHANGED vars
    PROVE  UNCHANGED <<kstate, news, wstatus, pgrp, tty, status, procs, jobs>>
  BY DEF Quiet, vars, kernelVars, shellVars, ReadLine, ReadNothing, ReadFails, Builtin,
         Fail, FgNothing, Call, Return, ForkFails, Dead

\* The environment leaves zombies, groups and what precedes exec alone.
LEMMA EnvironmentFrame ==
    ASSUME TypeOK, Environment
    PROVE  /\ UNCHANGED <<pgrp, tty, status, procs, jobs, frames, pc, child, result>>
           /\ \A p \in Pid :
               /\ \/ kstate'[p] = kstate[p] /\ wstatus'[p] = wstatus[p]
                  \/ /\ kstate[p] \in {"running", "stopped"}
                     /\ kstate'[p] = "stopped" /\ wstatus'[p] = wstatus[p]
                  \/ /\ kstate[p] \in {"running", "stopped"}
                     /\ kstate'[p] = "zombie" /\ wstatus'[p] \in Exited
<1>1. UNCHANGED <<status, procs, jobs, frames, pc, child, result>>
  BY DEF Environment, shellVars
<1>2. ASSUME NEW q \in Pid, NEW c \in Exited, ProcExit(q, c) \/ Killed(q)
      PROVE  /\ UNCHANGED <<pgrp, tty>>
             /\ \A p \in Pid :
               /\ \/ kstate'[p] = kstate[p] /\ wstatus'[p] = wstatus[p]
                  \/ /\ kstate[p] \in {"running", "stopped"}
                     /\ kstate'[p] = "zombie" /\ wstatus'[p] \in Exited
  BY <1>2 DEF ProcExit, Killed, TypeOK, KernelTypeOK, Exited
<1>3. ASSUME NEW g, StopGroup(g)
      PROVE  /\ UNCHANGED <<pgrp, tty>>
             /\ \A p \in Pid :
               /\ \/ kstate'[p] = kstate[p] /\ wstatus'[p] = wstatus[p]
                  \/ /\ kstate[p] \in {"running", "stopped"}
                     /\ kstate'[p] = "stopped" /\ wstatus'[p] = wstatus[p]
  BY <1>3 DEF StopGroup, Running
<1> QED
  BY <1>1, <1>2, <1>3 DEF Environment, KeySuspend, TtyStop, Exited

LEMMA StatusStep ==
    ASSUME IInv, [Next]_vars
    PROVE  StatusInv'
<1>0. TypeOK /\ ControlInv /\ SpawnInv /\ StatusInv /\ BookInv
  BY DEF IInv
<1>1. CASE Quiet \/ UNCHANGED vars
  BY <1>0, <1>1, QuietFrame DEF StatusInv, StatusFaithful
<1>2. CASE CheckJobs \/ Jobs \/ FgWait \/ WaitChild \/ Exit
  BY <1>0, <1>2, CollectingSteps DEF Collected, StatusInv, StatusFaithful
<1>3. CASE Done
  BY <1>0, <1>3 DEF Done, StatusInv, StatusFaithful
<1>4. CASE Fg
  <2>1. UNCHANGED <<wstatus, pgrp, status>>
    BY <1>4 DEF Fg
  <2>2. \A p \in Pid : \/ kstate'[p] = kstate[p]
                       \/ kstate[p] = "stopped" /\ kstate'[p] = "running"
    BY <1>4 DEF Fg, SigCont
  <2> QED
    BY <1>0, <2>1, <2>2 DEF StatusInv, StatusFaithful
<1>5. CASE Fork
  BY <1>0, <1>5 DEF Fork, StatusInv, StatusFaithful, TypeOK, KernelTypeOK
<1>6. CASE PreExec \/ ExecOk \/ ExecFails
  <2>1. /\ child \in Pid /\ status[child] = "none" /\ kstate[child] \in {"forked", "ready"}
        /\ kstate' = [kstate EXCEPT ![child] = kstate'[child]]
        /\ kstate'[child] \in {"ready", "running", "reaped"}
        /\ UNCHANGED <<wstatus, status>>
        /\ \A p \in Pid : p # child => pgrp'[p] = pgrp[p]
    BY <1>0, <1>6, AtFacts DEF PreExec, ExecOk, ExecFails, SpawnInv, Spawning, TypeOK, KernelTypeOK
  <2> QED
    BY <1>0, <2>1 DEF StatusInv, StatusFaithful, TypeOK, KernelTypeOK
<1>7. CASE JoinJob
  <2>1. /\ child \in Pid /\ kstate[child] \in {"running", "stopped", "zombie"}
        /\ UNCHANGED <<wstatus, kstate, pgrp>>
        /\ status' = [status EXCEPT ![child] = "Running"]
    BY <1>0, <1>7, AtFacts DEF JoinJob, SpawnInv, Spawning
  <2> QED
    BY <1>0, <2>1 DEF StatusInv, StatusFaithful, TypeOK, Terminated, Exited
<1>8. CASE Environment
  BY <1>0, <1>8, EnvironmentFrame DEF StatusInv, StatusFaithful
<1> QED
  BY <1>1, <1>2, <1>3, <1>4, <1>5, <1>6, <1>7, <1>8 DEF Next, ShellStep, User, Quiet
-----------------------------------------------------------------------------
(* The process being spawned or waited for.                                *)

LEMMA SpawnStep ==
    ASSUME IInv, [Next]_vars
    PROVE  SpawnInv'
<1>0. /\ TypeOK /\ ControlInv /\ SpawnInv /\ StatusInv /\ BookInv
      /\ TypeOK' /\ ControlInv'
  BY TypeStep, ControlStep DEF IInv
<1>1. CASE UNCHANGED vars
  BY <1>0, <1>1 DEF vars, kernelVars, shellVars, SpawnInv, Placed, IsFirst, Top
<1>2. CASE Quiet \/ Exit \/ Jobs \/ FgWait \/ WaitChild \/ CheckJobs \/ Done \/ ExecFails
  <2>1. pc' \notin Spawning \cup Waiting \/ UNCHANGED vars
    BY <1>2 DEF Quiet, ReadLine, ReadNothing, ReadFails, Builtin, Fail, FgNothing, Call,
                Return, ForkFails, Dead, Exit, Jobs, FgWait, WaitChild, CheckJobs, Done,
                ExecFails, Fails, At, Spawning, Waiting
  <2> QED
    BY <1>1, <2>1 DEF SpawnInv, Spawning, Waiting
<1>3. CASE Fg
  <2>1. PICK j \in jobs : child' = LastProcess(j)
    BY <1>3 DEF Fg
  <2>2. status[child'] # "none" /\ pc' = "fgwait" /\ status' = status
    BY <1>0, <1>3, <2>1, KnownChildren DEF Fg, LastProcesses
  <2> QED
    BY <2>2 DEF SpawnInv, Spawning, Waiting
<1>4. CASE Fork
  <2>1. PICK p \in Pid : /\ kstate[p] = "free" /\ child' = p
                         /\ kstate' = [kstate EXCEPT ![p] = "forked"]
    BY <1>4 DEF Fork
  <2>2. kstate'[p] = "forked" /\ pgrp'[p] = Shell /\ status'[p] = "none" /\ pc' = "fork"
    BY <1>0, <1>4, <2>1 DEF Fork, StatusInv, TypeOK, KernelTypeOK
  <2> QED
    BY <2>1, <2>2 DEF SpawnInv, Spawning, Waiting
<1>5. CASE PreExec
  <2>1. /\ child \in Pid /\ Top \in Frame /\ 1 \in DOMAIN frames /\ Top = frames[1]
        /\ kstate[child] = "forked" /\ pgrp[child] = Shell /\ status[child] = "none"
    BY <1>0, <1>5, AtFacts DEF PreExec, SpawnInv, Spawning
  <2>2. /\ kstate' = [kstate EXCEPT ![child] = "ready"] /\ pc' = "exec"
        /\ UNCHANGED <<child, status, frames>>
    BY <1>5 DEF PreExec
  <2>3. Placed(child, IF IsFirst THEN child ELSE Top.job)'
    <3>1. CASE IsFirst
      BY <1>0, <1>5, <2>1, <2>2, <3>1 DEF PreExec, Placed, IsFirst, Top, TypeOK, KernelTypeOK
    <3>2. CASE ~IsFirst
      <4> DEFINE j == Top.job
      <4>1. /\ j \in Pid /\ j \in jobs /\ procs[j] # << >> /\ procs[j] \in Seq(Pid)
            /\ procs[j][1] = j /\ 1 \in DOMAIN procs[j]
        BY <1>0, <2>1, <3>2 DEF IsFirst, Frame, BookInv, TypeOK
      <4>2. status[j] # "none"
        BY <1>0, <4>1 DEF BookInv
      <4>3. Placed(j, j)
        BY <4>1 DEF IInv, GroupIntegrity
      <4>4. GroupExists(j) \/ kstate[j] = "reaped"
        <5>1. kstate[j] # "free"
          BY <1>0, <4>1, <4>2 DEF StatusInv
        <5> QED
          BY <4>1, <4>3, <5>1 DEF Placed, GroupExists, Alive
      <4>5. pgrp' = [pgrp EXCEPT ![child] = IF GroupExists(j) THEN j ELSE Shell]
        BY <1>5, <2>1, <3>2 DEF PreExec, IsFirst
      <4>6. kstate[j] = "reaped" => kstate'[j] = "reaped"
        BY <1>0, <2>1, <2>2, <4>1 DEF TypeOK, KernelTypeOK
      <4>7. pgrp'[child] = IF GroupExists(j) THEN j ELSE Shell
        BY <1>0, <2>1, <4>5 DEF TypeOK, KernelTypeOK
      <4> QED
        BY <2>2, <3>2, <4>4, <4>6, <4>7 DEF Placed, IsFirst, Top
    <3> QED
      BY <3>1, <3>2
  <2> QED
    BY <1>0, <2>1, <2>2, <2>3 DEF SpawnInv, Spawning, Waiting, TypeOK, KernelTypeOK
<1>6. CASE ExecOk
  <2>1. /\ child \in Pid /\ kstate[child] = "ready" /\ pc = "exec" /\ pc' = "post"
        /\ kstate' = [kstate EXCEPT ![child] = "running"]
        /\ UNCHANGED <<child, status, frames, pgrp>>
    BY <1>0, <1>6, AtFacts DEF ExecOk, SpawnInv, Spawning
  <2>2. \A p \in Pid : kstate[p] = "reaped" => kstate'[p] = "reaped"
    BY <1>0, <2>1 DEF TypeOK, KernelTypeOK
  <2>3. Placed(child, IF IsFirst THEN child ELSE Top.job)
    BY <1>0, <2>1 DEF SpawnInv
  <2>4. IsFirst \/ Top.job \in Pid
    BY <1>0, <2>1, AtFacts DEF IsFirst, Frame, Spawning
  <2>5. Placed(child, IF IsFirst THEN child ELSE Top.job)'
    BY <2>1, <2>2, <2>3, <2>4 DEF Placed, IsFirst, Top
  <2> QED
    BY <1>0, <2>1, <2>5 DEF SpawnInv, Spawning, Waiting, TypeOK, KernelTypeOK
<1>7. CASE JoinJob
  <2>1. /\ child \in Pid /\ status' = [status EXCEPT ![child] = "Running"]
        /\ \/ pc' = "wait" /\ child' = child
           \/ pc' = "run"
    BY <1>0, <1>7, AtFacts DEF JoinJob, Spawned, Spawning
  <2> QED
    BY <1>0, <2>1 DEF SpawnInv, Spawning, Waiting, TypeOK
<1>8. CASE Environment
  <2>1. /\ UNCHANGED <<pgrp, status, frames, pc, child>>
        /\ \A p \in Pid : \/ kstate'[p] = kstate[p]
                          \/ /\ kstate[p] \in {"running", "stopped"}
                             /\ kstate'[p] \in {"stopped", "zombie"}
    BY <1>0, <1>8, EnvironmentFrame
  <2>2. pc \in Spawning => child \in Pid /\ (IsFirst \/ Top.job \in Pid)
    BY <1>0, AtFacts DEF IsFirst, Frame
  <2>3. pc \in {"exec", "post"} => Placed(child, IF IsFirst THEN child ELSE Top.job)'
    BY <1>0, <2>1, <2>2 DEF SpawnInv, Placed, IsFirst, Top, Spawning
  <2> QED
    BY <1>0, <2>1, <2>2, <2>3 DEF SpawnInv, Spawning, Waiting
<1> QED
  BY <1>1, <1>2, <1>3, <1>4, <1>5, <1>6, <1>7, <1>8 DEF Next, ShellStep, User, Quiet
-----------------------------------------------------------------------------
(* Jobs and their processes.                                               *)

\* A terminal status never changes.
LEMMA Sticky ==
    ASSUME IInv, [Next]_vars
    PROVE  \A p \in Pid : Terminated(status[p]) => status'[p] = status[p]
<1>0. TypeOK /\ ControlInv /\ SpawnInv
  BY DEF IInv
<1>1. CASE Quiet \/ UNCHANGED vars
  BY <1>1, QuietFrame
<1>2. CASE CheckJobs \/ Jobs \/ FgWait \/ WaitChild \/ Exit
  BY <1>2, CollectingSteps DEF Collected
<1>3. CASE Done \/ Fg \/ Fork \/ PreExec \/ ExecOk \/ ExecFails
  BY <1>3 DEF Done, Fg, Fork, PreExec, ExecOk, ExecFails
<1>4. CASE JoinJob
  <2>1. status[child] = "none" /\ status' = [status EXCEPT ![child] = "Running"]
    BY <1>0, <1>4 DEF JoinJob, SpawnInv, Spawning
  <2> QED
    BY <1>0, <2>1 DEF TypeOK, Terminated, Exited
<1>5. CASE Environment
  BY <1>0, <1>5, EnvironmentFrame
<1> QED
  BY <1>1, <1>2, <1>3, <1>4, <1>5 DEF Next, ShellStep, User, Quiet

\* Only JoinJob adds to the records, and only CheckJobs removes from them.
LEMMA RecordsFrame ==
    ASSUME IInv, [Next]_vars, ~JoinJob
    PROVE  /\ procs' = procs
           /\ ~CheckJobs => jobs' = jobs
           /\ \A p \in Pid : status'[p] = "none" <=> status[p] = "none"
<1>0. TypeOK
  BY DEF IInv
<1>1. CASE Quiet \/ UNCHANGED vars
  BY <1>1, QuietFrame
<1>2. CASE CheckJobs \/ Jobs \/ FgWait \/ WaitChild \/ Exit
  <2>1. procs' = procs /\ \A p \in Pid : status'[p] = "none" <=> status[p] = "none"
    BY <1>2, CollectingSteps DEF Collected
  <2>2. ~CheckJobs => jobs' = jobs
    BY <1>2 DEF Jobs, FgWait, WaitChild, Exit
  <2> QED
    BY <2>1, <2>2
<1>3. CASE Done \/ Fg \/ Fork \/ PreExec \/ ExecOk \/ ExecFails
  BY <1>3 DEF Done, Fg, Fork, PreExec, ExecOk, ExecFails
<1>4. CASE Environment
  BY <1>0, <1>4, EnvironmentFrame
<1> QED
  BY <1>1, <1>2, <1>3, <1>4 DEF Next, ShellStep, User, Quiet

\* The job and the process a machine refers to after a step.
Refers(f) == /\ f.job \in Pid => f.job \in jobs'
             /\ f.last \in Pid => Terminated(status'[f.last])

LEMMA ReplaceRefers ==
    ASSUME TypeOK, frames # << >>, \A i \in DOMAIN frames : Refers(frames[i]),
           NEW f \in Frame, Refers(f), frames' = Replace(f)
    PROVE  \A i \in DOMAIN frames' : Refers(frames'[i])
<1>1. /\ DOMAIN frames' = DOMAIN frames /\ frames'[1] = f
      /\ \A i \in DOMAIN frames : i > 1 => frames'[i] = frames[i]
      /\ DOMAIN frames = 1 .. Len(frames) /\ Len(frames) \in Nat
  BY ReplaceFacts DEF TypeOK, Replace
<1> SUFFICES ASSUME NEW i \in DOMAIN frames'
             PROVE  Refers(frames'[i])
  OBVIOUS
<1>2. CASE i = 1
  BY <1>1, <1>2
<1>3. CASE i # 1
  <2>1. i \in DOMAIN frames /\ i > 1
    BY <1>1, <1>3
  <2> QED
    BY <1>1, <2>1
<1> QED
  BY <1>2, <1>3

\* The jobs machines refer to stay listed while the machines exist.
LEMMA RefersStep ==
    ASSUME IInv, [Next]_vars
    PROVE  \A i \in DOMAIN frames' : Refers(frames'[i])
<1>0. /\ TypeOK /\ ControlInv /\ SpawnInv /\ StatusInv /\ BookInv
  BY DEF IInv
<1> USE ProgramAssumption
<1>1. ASSUME jobs \subseteq jobs'
      PROVE  \A i \in DOMAIN frames : Refers(frames[i])
  BY <1>0, <1>1, Sticky DEF BookInv, Refers, Terminated
<1>2. jobs \subseteq jobs' \/ CheckJobs
  BY RecordsFrame DEF JoinJob
<1>3. CASE CheckJobs \/ Done
  <2>1. frames' = << >>
    BY <1>0, <1>3 DEF CheckJobs, Done, ControlInv
  <2> QED
    BY <2>1
<1>4. CASE /\ frames' = frames
           /\ ~CheckJobs
  BY <1>1, <1>2, <1>4
<1>5. CASE ReadLine
  <2>1. PICK prog \in Programs : frames' = <<NewMachine(prog)>>
    BY <1>5 DEF ReadLine
  <2>2. DOMAIN frames' = {1} /\ frames'[1] = NewMachine(prog)
    BY <2>1
  <2> QED
    BY <2>2 DEF Refers, NewMachine
<1>6. CASE Builtin \/ FgNothing \/ Jobs \/ FgWait
  <2>1. /\ frames # << >> /\ frames' = Replace(Proceed) /\ ~CheckJobs
        /\ Proceed \in Frame /\ Proceed.job = Top.job /\ Proceed.last \in {Top.last, Ready}
        /\ Top = frames[1] /\ 1 \in DOMAIN frames
    BY <1>0, <1>6, AtFacts DEF Builtin, FgNothing, Jobs, FgWait, At, Waiting, CheckJobs
  <2>2. Refers(Proceed)
    BY <1>1, <1>2, <2>1 DEF Refers
  <2> QED
    BY <1>0, <1>1, <1>2, <2>1, <2>2, ReplaceRefers
<1>7. CASE Call
  <2>1. /\ frames' = <<NewMachine(FunctionBody)>> \o frames /\ ~CheckJobs
        /\ NewMachine(FunctionBody) \in Frame /\ frames \in Seq(Frame)
    BY <1>0, <1>7, NewMachineType DEF Call, At, CheckJobs, TypeOK
  <2>2. Refers(NewMachine(FunctionBody))
    BY DEF Refers, NewMachine
  <2>3. \A i \in DOMAIN frames' : \/ i = 1 /\ frames'[i] = NewMachine(FunctionBody)
                                  \/ i - 1 \in DOMAIN frames /\ frames'[i] = frames[i - 1]
    <3> DEFINE m == NewMachine(FunctionBody)
    <3>1. m \in Frame /\ frames' = <<m>> \o frames
      BY <2>1
    <3> HIDE DEF m
    <3>2. /\ frames' \in Seq(Frame) /\ frames'[1] = m
          /\ \A i \in DOMAIN frames' : i > 1 => i - 1 \in DOMAIN frames /\ frames'[i] = frames[i - 1]
      BY <2>1, <3>1, PushFacts
    <3>3. \A i \in DOMAIN frames' : i = 1 \/ i > 1
      BY <3>2
    <3> QED
      BY <3>2, <3>3 DEF m
  <2> QED
    BY <1>1, <1>2, <2>1, <2>2, <2>3
<1>8. CASE Return
  <2>1. CASE Len(frames) = 1
    BY <1>8, <2>1 DEF Return
  <2>2. CASE Len(frames) # 1
    <3> DEFINE t == Tail(frames)
               next == [Head(t) EXCEPT !.prog = Tail(@),
                            !.last = IF Head(Head(t).prog).wait THEN Ready ELSE @]
    <3>1. /\ t \in Seq(Frame) /\ t # << >> /\ next \in Frame
          /\ \A i \in DOMAIN t : i + 1 \in DOMAIN frames /\ t[i] = frames[i + 1]
          /\ 2 \in DOMAIN frames /\ next.job = frames[2].job
          /\ next.last \in {frames[2].last, Ready}
      BY <1>0, <1>8, <2>2, CallerFacts DEF Return
    <3>2. frames' = t \/ frames' = <<next>> \o Tail(t)
      BY <1>8, <2>2 DEF Return
    <3>3. /\ \A i \in DOMAIN frames : Refers(frames[i])
      BY <1>1, <1>2, <1>8 DEF Return, CheckJobs
    <3> HIDE DEF t, next
    <3>4. Refers(next) /\ \A i \in DOMAIN t : Refers(t[i])
      BY <3>1, <3>3 DEF Refers
    <3>5. /\ DOMAIN (<<next>> \o Tail(t)) = DOMAIN t /\ (<<next>> \o Tail(t))[1] = next
          /\ \A i \in DOMAIN t : i > 1 => (<<next>> \o Tail(t))[i] = t[i]
      BY <3>1, ReplaceFacts
    <3>6. \A i \in DOMAIN t : i = 1 \/ i > 1
      BY <3>1
    <3> QED
      BY <3>2, <3>4, <3>5, <3>6
  <2> QED
    BY <2>1, <2>2
<1>9. CASE JoinJob
  <2> DEFINE job == IF IsFirst THEN child ELSE Top.job
             f == IF Head(Top.prog).wait THEN [Top EXCEPT !.job = job]
                                         ELSE [Rest EXCEPT !.job = job]
  <2>1. /\ frames # << >> /\ Top \in Frame /\ Rest \in Frame /\ Rest.last = Top.last
        /\ Top = frames[1] /\ 1 \in DOMAIN frames /\ child \in Pid /\ job \in Pid
    BY <1>0, <1>9, AtFacts DEF JoinJob, Spawning, IsFirst, Frame
  <2>2. f \in Frame /\ f.job = job /\ f.last = Top.last
    BY <2>1 DEF Frame
  <2>3. frames' = Replace(f)
    BY <1>9 DEF JoinJob, Spawned
  <2>4. \A i \in DOMAIN frames : Refers(frames[i])
    BY <1>1, <1>2, <1>9 DEF JoinJob, CheckJobs
  <2>5. job \in jobs'
    <3>1. CASE IsFirst
      BY <1>9, <3>1 DEF JoinJob
    <3>2. CASE ~IsFirst
      BY <2>1, <2>4, <3>2 DEF Refers
    <3> QED
      BY <3>1, <3>2
  <2> HIDE DEF job, f
  <2>6. Refers(f)
    BY <2>1, <2>2, <2>4, <2>5 DEF Refers
  <2> QED
    BY <1>0, <2>1, <2>2, <2>3, <2>4, <2>6, ReplaceRefers
<1>10. CASE WaitChild
  <2>1. /\ frames # << >> /\ Rest \in Frame /\ Rest.job = Top.job /\ child \in Pid
        /\ Top = frames[1] /\ 1 \in DOMAIN frames /\ ~CheckJobs
    BY <1>0, <1>10, AtFacts DEF WaitChild, Waiting, CheckJobs
  <2>2. CASE Waited(child) = "Stopped"
    BY <1>1, <1>2, <1>10, <2>1, <2>2 DEF WaitChild
  <2>3. CASE Waited(child) # "Stopped"
    <3> DEFINE f == [Rest EXCEPT !.last = child]
    <3>1. f \in Frame /\ f.job = Top.job /\ f.last = child
      BY <2>1 DEF Frame
    <3>2. status'[child] = Waited(child)
      BY <1>0, <1>10, <2>1 DEF WaitChild, Wait, TypeOK
    <3>3. Terminated(Waited(child))
      BY <1>0, <2>1, <2>3 DEF Waited, Report, CanReport, Terminated, Exited, StatusInv
    <3>4. frames' = Replace(f)
      BY <1>10, <2>3 DEF WaitChild
    <3> HIDE DEF f
    <3>5. Refers(f)
      BY <1>1, <1>2, <2>1, <3>1, <3>2, <3>3 DEF Refers
    <3> QED
      BY <1>0, <1>1, <1>2, <2>1, <3>1, <3>4, <3>5, ReplaceRefers
  <2> QED
    BY <2>2, <2>3
<1>11. CASE \/ ReadNothing \/ ReadFails \/ Exit \/ Fail \/ Fg \/ Fork \/ ForkFails \/ PreExec
            \/ ExecOk \/ ExecFails \/ Dead \/ UNCHANGED vars
  BY <1>4, <1>11 DEF ReadNothing, ReadFails, Exit, Fail, Fg, Fork, ForkFails, PreExec,
     ExecOk, ExecFails, Dead, vars, shellVars, At, CheckJobs
<1>12. CASE Environment
  BY <1>0, <1>1, <1>12, EnvironmentFrame
<1> QED
  BY <1>3, <1>5, <1>6, <1>7, <1>8, <1>9, <1>10, <1>11, <1>12 DEF Next, ShellStep, User
\* The effect of JoinJob on the records: child is appended to one job.
LEMMA JoinFacts ==
    ASSUME IInv, JoinJob
    PROVE  LET job == IF IsFirst THEN child ELSE Top.job
           IN  /\ child \in Pid /\ job \in Pid
               /\ \A k \in Pid : k # job => procs'[k] = procs[k]
               /\ procs[job] \in Seq(Pid)
               /\ procs'[job] = Append(procs[job], child)
               /\ procs[job] = << >> => job = child
               /\ job \in jobs'
               /\ jobs \subseteq jobs' /\ jobs' \subseteq jobs \cup {job}
               /\ \A k \in Pid : \A i \in DOMAIN procs[k] : procs[k][i] # child
               /\ status'[child] = "Running"
               /\ \A p \in Pid : p # child => status'[p] = status[p]
<1> DEFINE job == IF IsFirst THEN child ELSE Top.job
<1>0. TypeOK /\ ControlInv /\ SpawnInv /\ BookInv
  BY DEF IInv
<1>1. /\ child \in Pid /\ job \in Pid /\ status[child] = "none"
      /\ Top = frames[1] /\ 1 \in DOMAIN frames
  BY <1>0, AtFacts DEF JoinJob, Spawning, IsFirst, Frame, SpawnInv
<1>2. procs' = [procs EXCEPT ![job] = Append(procs[job], child)]
  BY DEF JoinJob
<1>3. ~IsFirst => job \in jobs /\ procs[job] # << >>
  BY <1>0, <1>1 DEF BookInv
<1>4. \A k \in Pid : \A i \in DOMAIN procs[k] : procs[k][i] # child
  BY <1>0, <1>1 DEF BookInv
<1>5. jobs' = IF IsFirst THEN jobs \cup {job} ELSE jobs
  BY DEF JoinJob
<1>6. status' = [status EXCEPT ![child] = "Running"]
  BY DEF JoinJob
<1> HIDE DEF job
<1>7. /\ procs[job] \in Seq(Pid) /\ procs'[job] = Append(procs[job], child)
      /\ \A k \in Pid : k # job => procs'[k] = procs[k]
  BY <1>0, <1>1, <1>2 DEF TypeOK
<1>8. /\ status'[child] = "Running"
      /\ \A p \in Pid : p # child => status'[p] = status[p]
  BY <1>0, <1>1, <1>6 DEF TypeOK
<1>9. procs[job] = << >> => job = child
  BY <1>3 DEF job
<1>10. job \in jobs' /\ jobs \subseteq jobs' /\ jobs' \subseteq jobs \cup {job}
  BY <1>3, <1>5
<1> QED
  BY <1>1, <1>4, <1>7, <1>8, <1>9, <1>10 DEF job

\* Appending to the processes of a job.
LEMMA AppendFacts ==
    ASSUME NEW s \in Seq(Pid), NEW p \in Pid
    PROVE  /\ Append(s, p) # << >>
           /\ s # << >> => Append(s, p)[1] = s[1]
           /\ s = << >> => Append(s, p)[1] = p
           /\ Append(s, p)[Len(Append(s, p))] = p
           /\ \A i \in DOMAIN Append(s, p) :
                  \/ i \in DOMAIN s /\ Append(s, p)[i] = s[i]
                  \/ Append(s, p)[i] = p
<1> DEFINE a == Append(s, p)
<1>1. /\ a \in Seq(Pid) /\ a # << >> /\ Len(a) = Len(s) + 1 /\ Len(s) \in Nat
      /\ \A i \in 1 .. Len(s) : a[i] = s[i]
      /\ a[Len(s) + 1] = p
      /\ DOMAIN a = 1 .. Len(a) /\ DOMAIN s = 1 .. Len(s)
  BY AppendProperties, LenProperties
<1> HIDE DEF a
<1>2. s # << >> => 1 \in DOMAIN s
  BY <1>1, EmptySeq
<1>3. s = << >> => Len(s) = 0
  BY EmptySeq
<1>4. \A i \in DOMAIN a : i \in DOMAIN s \/ i = Len(s) + 1
  BY <1>1
<1> QED
  BY <1>1, <1>2, <1>3, <1>4 DEF a

LEMMA BookStep ==
    ASSUME IInv, [Next]_vars
    PROVE  BookInv'
<1>0. TypeOK /\ ControlInv /\ SpawnInv /\ StatusInv /\ BookInv /\ TypeOK'
  BY TypeStep DEF IInv
<1>1. \A i \in DOMAIN frames' :
        /\ frames'[i].job \in Pid => frames'[i].job \in jobs'
        /\ frames'[i].last \in Pid => Terminated(status'[frames'[i].last])
  BY RefersStep DEF Refers
<1>2. CASE ~JoinJob
  <2>1. /\ procs' = procs
        /\ \A p \in Pid : status'[p] = "none" <=> status[p] = "none"
        /\ \A p \in Pid : Terminated(status[p]) => Terminated(status'[p])
    BY <1>2, RecordsFrame, Sticky
  <2>2. \A j \in Pid : \A i \in DOMAIN procs[j] : procs[j][i] \in Pid
    BY <1>0 DEF TypeOK
  <2>3. jobs' \subseteq jobs
    BY <1>2, RecordsFrame DEF CheckJobs
  <2>4. NoJobLost'
    <3> SUFFICES ASSUME NEW j \in Pid, procs[j] # << >>, ~Terminated(status'[LastProcess(j)])
                 PROVE  j \in jobs'
      BY <2>1 DEF NoJobLost, LastProcess
    <3>1. procs[j] \in Seq(Pid)
      BY <1>0 DEF TypeOK
    <3>2. LastProcess(j) \in Pid
      BY <3>1, EmptySeq DEF LastProcess
    <3>3. j \in jobs
      BY <1>0, <2>1, <3>2 DEF BookInv, NoJobLost
    <3>4. CASE CheckJobs
      <4>1. status'[LastProcess(j)] = Polled(LastProcess(j))
        BY <3>2, <3>3, <3>4 DEF CheckJobs, Poll, LastProcesses
      <4> QED
        BY <3>3, <3>4, <4>1 DEF CheckJobs
    <3>5. CASE ~CheckJobs
      BY <1>2, <3>3, <3>5, RecordsFrame
    <3> QED
      BY <3>4, <3>5
  <2>5. \A j \in Pid : \A i \in DOMAIN procs'[j] : status'[procs'[j][i]] # "none"
    BY <1>0, <2>1, <2>2 DEF BookInv
  <2> QED
    BY <1>0, <1>1, <2>1, <2>3, <2>4, <2>5 DEF BookInv
<1>3. CASE JoinJob
  <2> DEFINE job == IF IsFirst THEN child ELSE Top.job
  <2>1. /\ child \in Pid /\ job \in Pid
        /\ \A k \in Pid : k # job => procs'[k] = procs[k]
        /\ procs[job] \in Seq(Pid)
        /\ procs'[job] = Append(procs[job], child)
        /\ procs[job] = << >> => job = child
        /\ job \in jobs'
        /\ jobs \subseteq jobs' /\ jobs' \subseteq jobs \cup {job}
        /\ \A k \in Pid : \A i \in DOMAIN procs[k] : procs[k][i] # child
        /\ status'[child] = "Running"
        /\ \A p \in Pid : p # child => status'[p] = status[p]
    BY <1>3, JoinFacts
  <2> HIDE DEF job
  <2>2. /\ procs'[job] # << >>
        /\ procs[job] # << >> => procs'[job][1] = procs[job][1]
        /\ procs[job] = << >> => procs'[job][1] = child
        /\ procs'[job][Len(procs'[job])] = child
        /\ \A i \in DOMAIN procs'[job] :
               \/ i \in DOMAIN procs[job] /\ procs'[job][i] = procs[job][i]
               \/ procs'[job][i] = child
    BY <2>1, AppendFacts
  <2>3. ASSUME NEW j \in jobs'
        PROVE  procs'[j] # << >>
    <3>1. CASE j = job
      BY <2>2, <3>1
    <3>2. CASE j # job
      <4>1. j \in jobs /\ j \in Pid
        BY <1>0, <2>1, <3>2 DEF TypeOK
      <4> QED
        BY <1>0, <2>1, <3>2, <4>1 DEF BookInv
    <3> QED
      BY <3>1, <3>2
  <2>4. ASSUME NEW j \in Pid, procs'[j] # << >>
        PROVE  procs'[j][1] = j
    <3>1. CASE j = job
      <4>1. procs[job] # << >> => procs[job][1] = job
        BY <1>0, <2>1 DEF BookInv
      <4> QED
        BY <2>1, <2>2, <3>1, <4>1
    <3>2. CASE j # job
      BY <1>0, <2>1, <2>4, <3>2 DEF BookInv
    <3> QED
      BY <3>1, <3>2
  <2>5. \A j \in Pid : \A i \in DOMAIN procs'[j] : status'[procs'[j][i]] # "none"
    <3> SUFFICES ASSUME NEW j \in Pid, NEW i \in DOMAIN procs'[j]
                 PROVE  status'[procs'[j][i]] # "none"
      OBVIOUS
    <3>1. \/ procs'[j][i] = child
          \/ i \in DOMAIN procs[j] /\ procs'[j][i] = procs[j][i] /\ procs[j][i] # child
      BY <2>1, <2>2
    <3>2. i \in DOMAIN procs[j] => procs[j][i] \in Pid
      BY <1>0 DEF TypeOK
    <3>3. CASE procs'[j][i] = child
      BY <2>1, <3>3
    <3>4. CASE /\ i \in DOMAIN procs[j]
               /\ procs'[j][i] = procs[j][i]
               /\ procs[j][i] # child
      <4>1. status'[procs[j][i]] = status[procs[j][i]]
        BY <2>1, <3>2, <3>4
      <4>2. status[procs[j][i]] # "none"
        BY <1>0, <3>4 DEF BookInv
      <4> QED
        BY <3>4, <4>1, <4>2
    <3> QED
      BY <3>1, <3>3, <3>4
  <2>6. NoJobLost'
    <3> SUFFICES ASSUME NEW j \in Pid, procs'[j] # << >>,
                        ~Terminated(status'[procs'[j][Len(procs'[j])]])
                 PROVE  j \in jobs'
      BY DEF NoJobLost, LastProcess
    <3>1. CASE j = job
      BY <2>1, <3>1
    <3>2. CASE j # job
      <4>1. procs'[j] = procs[j] /\ procs[j] \in Seq(Pid)
        BY <1>0, <2>1, <3>2 DEF TypeOK
      <4>2. LastProcess(j) \in Pid /\ LastProcess(j) # child
        BY <2>1, <4>1, EmptySeq DEF LastProcess
      <4> QED
        BY <1>0, <2>1, <4>1, <4>2 DEF BookInv, NoJobLost, LastProcess
    <3> QED
      BY <3>1, <3>2
  <2> QED
    BY <1>1, <2>3, <2>4, <2>5, <2>6 DEF BookInv
<1> QED
  BY <1>2, <1>3
-----------------------------------------------------------------------------
(* Process groups and the terminal.                                        *)

\* What a step does to the groups of the processes that are in a job, and to
\* processes already reaped.
LEMMA GroupFrame ==
    ASSUME IInv, [Next]_vars
    PROVE  /\ \A p \in Pid : status[p] # "none" => pgrp'[p] = pgrp[p]
           /\ \A p \in Pid : kstate[p] = "reaped" => kstate'[p] = "reaped"
<1>0. TypeOK /\ ControlInv /\ SpawnInv
  BY DEF IInv
<1>1. CASE Quiet \/ UNCHANGED vars
  BY <1>1, QuietFrame
<1>2. CASE CheckJobs \/ Jobs \/ FgWait \/ WaitChild \/ Exit
  <2>1. UNCHANGED pgrp
    BY <1>2, CollectingSteps
  <2>2. \A ps : Collect(ps) => \A p \in Pid : kstate[p] = "reaped" => kstate'[p] = "reaped"
    BY DEF Collect
  <2>3. UNCHANGED kstate \/ \E ps : Collect(ps)
    BY <1>2 DEF CheckJobs, Jobs, FgWait, WaitChild, Exit, Poll, Wait
  <2> QED
    BY <2>1, <2>2, <2>3
<1>3. CASE Done \/ JoinJob
  BY <1>3 DEF Done, JoinJob
<1>4. CASE Fg
  BY <1>4 DEF Fg, SigCont
<1>5. CASE Fork
  BY <1>0, <1>5 DEF Fork, TypeOK, KernelTypeOK
<1>6. CASE PreExec \/ ExecOk \/ ExecFails
  <2>1. /\ child \in Pid /\ status[child] = "none" /\ kstate[child] \in {"forked", "ready"}
        /\ kstate' = [kstate EXCEPT ![child] = kstate'[child]]
        /\ \A p \in Pid : p # child => pgrp'[p] = pgrp[p]
    BY <1>0, <1>6, AtFacts DEF PreExec, ExecOk, ExecFails, SpawnInv, Spawning, TypeOK, KernelTypeOK
  <2> QED
    BY <1>0, <2>1 DEF TypeOK, KernelTypeOK
<1>7. CASE Environment
  BY <1>0, <1>7, EnvironmentFrame
<1> QED
  BY <1>1, <1>2, <1>3, <1>4, <1>5, <1>6, <1>7 DEF Next, ShellStep, User, Quiet

LEMMA GroupStep ==
    ASSUME IInv, [Next]_vars
    PROVE  GroupIntegrity'
<1> DEFINE After(p, j) == pgrp'[p] = j \/ (pgrp'[p] = Shell /\ kstate'[j] = "reaped")
<1>0. TypeOK /\ ControlInv /\ SpawnInv /\ BookInv /\ GroupIntegrity
  BY DEF IInv
<1>1. ASSUME NEW p \in Pid, NEW j \in Pid, Placed(p, j), status[p] # "none"
      PROVE  After(p, j)
  BY <1>1, GroupFrame DEF Placed
<1>2. SUFFICES \A j \in Pid : \A i \in DOMAIN procs'[j] :
                 /\ After(procs'[j][i], j)
                 /\ \A k \in Pid : \A n \in DOMAIN procs'[k] :
                        procs'[k][n] = procs'[j][i] => k = j
  BY DEF GroupIntegrity, Placed
<1> HIDE DEF After
<1>3. ASSUME NEW j \in Pid, NEW i \in DOMAIN procs[j]
      PROVE  After(procs[j][i], j)
  <2>1. procs[j][i] \in Pid
    BY <1>0 DEF TypeOK
  <2>2. status[procs[j][i]] # "none" /\ Placed(procs[j][i], j)
    BY <1>0 DEF BookInv, GroupIntegrity
  <2> QED
    BY <1>1, <2>1, <2>2
<1>4. CASE ~JoinJob
  <2>1. procs' = procs
    BY <1>4, RecordsFrame
  <2> QED
    BY <1>0, <1>3, <2>1 DEF GroupIntegrity
<1>5. CASE JoinJob
  <2> DEFINE job == IF IsFirst THEN child ELSE Top.job
  <2>1. /\ child \in Pid /\ job \in Pid
        /\ \A k \in Pid : k # job => procs'[k] = procs[k]
        /\ procs[job] \in Seq(Pid)
        /\ procs'[job] = Append(procs[job], child)
        /\ \A k \in Pid : \A i \in DOMAIN procs[k] : procs[k][i] # child
    BY <1>5, JoinFacts
  <2>2. After(child, job)
    <3>1. Placed(child, job)
      BY <1>0, <1>5 DEF JoinJob, SpawnInv
    <3>2. UNCHANGED <<pgrp, kstate>>
      BY <1>5 DEF JoinJob
    <3> HIDE DEF job
    <3> QED
      BY <3>1, <3>2 DEF Placed, After
  <2> HIDE DEF job
  <2>3. ASSUME NEW k \in Pid, NEW i \in DOMAIN procs'[k]
        PROVE  \/ i \in DOMAIN procs[k] /\ procs'[k][i] = procs[k][i] /\ procs[k][i] # child
               \/ k = job /\ procs'[k][i] = child
    <3>1. CASE k = job
      <4>1. \/ i \in DOMAIN procs[job] /\ procs'[job][i] = procs[job][i]
            \/ procs'[job][i] = child
        BY <2>1, <3>1, AppendFacts
      <4> QED
        BY <2>1, <3>1, <4>1
    <3>2. CASE k # job
      BY <2>1, <3>2
    <3> QED
      BY <3>1, <3>2
  <2> SUFFICES ASSUME NEW j \in Pid, NEW i \in DOMAIN procs'[j]
               PROVE  /\ After(procs'[j][i], j)
                      /\ \A k \in Pid : \A n \in DOMAIN procs'[k] :
                             procs'[k][n] = procs'[j][i] => k = j
    OBVIOUS
  <2>4. After(procs'[j][i], j)
    BY <1>3, <2>2, <2>3
  <2>5. ASSUME NEW k \in Pid, NEW n \in DOMAIN procs'[k], procs'[k][n] = procs'[j][i]
        PROVE  k = j
    <3>1. CASE procs'[j][i] = child
      BY <2>3, <2>5, <3>1
    <3>2. CASE procs'[j][i] # child
      <4>1. /\ i \in DOMAIN procs[j] /\ n \in DOMAIN procs[k]
            /\ procs[k][n] = procs[j][i]
        BY <2>3, <2>5, <3>2
      <4> QED
        BY <1>0, <4>1 DEF GroupIntegrity
    <3> QED
      BY <3>1, <3>2
  <2> QED
    BY <2>4, <2>5
<1> QED
  BY <1>4, <1>5

\* The terminal changes hands only while a program runs, and in Done.
LEMMA TerminalStep ==
    ASSUME IInv, [Next]_vars
    PROVE  TerminalInv'
<1>0. TypeOK /\ TerminalInv
  BY DEF IInv
<1>1. CASE UNCHANGED vars
  BY <1>0, <1>1 DEF vars, kernelVars, shellVars, TerminalInv
<1>2. CASE CheckJobs \/ ReadNothing
  BY <1>0, <1>2 DEF CheckJobs, ReadNothing, TerminalInv, kernelVars
<1>3. CASE Done
  BY <1>3 DEF Done, Tcsetpgrp, GroupExists, TerminalInv
<1>4. CASE Return
  BY <1>4 DEF Return, TerminalInv
<1>5. CASE Environment
  BY <1>0, <1>5, EnvironmentFrame DEF TerminalInv
<1>6. CASE \/ ReadLine \/ ReadFails \/ Exit \/ Builtin \/ Fail \/ Jobs \/ Fg \/ FgNothing
           \/ FgWait \/ Call \/ Fork \/ ForkFails \/ PreExec \/ ExecOk \/ ExecFails
           \/ JoinJob \/ WaitChild \/ Dead
  <2>1. pc' \notin {"prompt", "read"}
    BY <1>6 DEF ReadLine, ReadFails, Exit, Builtin, Fail, Jobs, Fg, FgNothing, FgWait, Call,
                Fork, ForkFails, PreExec, ExecOk, ExecFails, JoinJob, Spawned, WaitChild,
                Dead, Fails, At, vars, shellVars
  <2> QED
    BY <2>1 DEF TerminalInv
<1> QED
  BY <1>1, <1>2, <1>3, <1>4, <1>5, <1>6 DEF Next, ShellStep, User
-----------------------------------------------------------------------------
(* The theorems.                                                           *)

LEMMA InitHolds == Init => IInv
<1> SUFFICES ASSUME Init PROVE IInv
  OBVIOUS
<1>1. TypeOK
  BY DEF Init, KernelInit, TypeOK, KernelTypeOK, LifeCycle, Group, Control
<1>2. ControlInv /\ SpawnInv
  BY DEF Init, ControlInv, SpawnInv, Spawning, Waiting
<1>3. StatusInv
  BY DEF Init, KernelInit, StatusInv, StatusFaithful
<1>4. BookInv /\ GroupIntegrity
  BY DEF Init, BookInv, NoJobLost, GroupIntegrity
<1>5. TerminalInv
  BY DEF Init, KernelInit, TerminalInv
<1> QED
  BY <1>1, <1>2, <1>3, <1>4, <1>5 DEF IInv

\* The inductive invariant holds for every set of pids, every set of lines
\* and every function body.
THEOREM Invariance == Spec => []IInv
<1>1. IInv /\ [Next]_vars => IInv'
  BY TypeStep, ControlStep, SpawnStep, StatusStep, BookStep, GroupStep, TerminalStep DEF IInv
<1> QED
  BY InitHolds, <1>1, PTL DEF Spec

\* Type correctness.
THEOREM TypeCorrect == Spec => []TypeOK
<1>1. IInv => TypeOK
  BY DEF IInv
<1> QED
  BY Invariance, <1>1, PTL

\* The cached status of a child is terminal exactly when the child has been
\* reaped, and is then the status it ended with (ChildProcessInner::wait).
THEOREM Faithful == Spec => []StatusFaithful
<1>1. IInv => StatusFaithful
  BY DEF IInv, StatusInv
<1> QED
  BY Invariance, <1>1, PTL

\* A terminal status is never replaced, by whomever and whenever it is asked
\* for again (the early return of ChildProcessInner::wait).
THEOREM StatusNeverChanges == Spec => StatusSticky
<1>1. IInv /\ [Next]_vars => [\A p \in Pid : Terminated(status[p]) => status'[p] = status[p]]_vars
  BY Sticky
<1> QED
  BY Invariance, <1>1, PTL DEF Spec, StatusSticky

\* A job whose last process is not known to have ended is in JOB_LIST.
THEOREM JobsNeverLost == Spec => []NoJobLost
<1>1. IInv => NoJobLost
  BY DEF IInv, BookInv
<1> QED
  BY Invariance, <1>1, PTL

\* Processes of a job are in its process group or, when the leader had been
\* reaped before they joined, in the shell's, and in one job only.
THEOREM GroupsKept == Spec => []GroupIntegrity
<1>1. IInv => GroupIntegrity
  BY DEF IInv
<1> QED
  BY Invariance, <1>1, PTL

\* The shell prompts in the foreground unless the last program ended in Err.
THEOREM PromptInForeground == Spec => []PromptOwnsTty
<1>1. IInv => PromptOwnsTty
  BY DEF IInv, TerminalInv, PromptOwnsTty
<1> QED
  BY Invariance, <1>1, PTL

-----------------------------------------------------------------------------
(* Programs that are one pipeline each.                                    *)

\* What is left of a pipeline is one, and what waits or looks at jobs leaves
\* nothing.
LEMMA RestOfPipeline ==
    ASSUME NEW prog \in Seq(Command), prog # << >>, OnePipeline(prog)
    PROVE  /\ OnePipeline(Tail(prog))
           /\ \/ Head(prog).wait
              \/ Head(prog).kind \in {"jobs", "fg", "call"}
              => Tail(prog) = << >> /\ Len(prog) = 1
<1> DEFINE t == Tail(prog)
<1>1. /\ t \in Seq(Command) /\ Len(t) = Len(prog) - 1 /\ Len(prog) \in Nat \ {0}
      /\ \A i \in 1 .. Len(t) : t[i] = prog[i + 1]
      /\ Head(prog) = prog[1]
  BY HeadTailProperties, EmptySeq
<1>2. DOMAIN t = 1 .. Len(t) /\ DOMAIN prog = 1 .. Len(prog)
  BY <1>1
<1>3. t = << >> <=> Len(t) = 0
  <2> HIDE DEF t
  <2> QED
    BY <1>1, EmptySeq
<1> HIDE DEF t
<1>4. OnePipeline(t)
  <2> SUFFICES ASSUME NEW i \in DOMAIN t, i < Len(t)
               PROVE  ~t[i].wait /\ t[i].kind \in {"ext", "builtin", "fail"}
    BY DEF OnePipeline
  <2>1. i + 1 \in DOMAIN prog /\ i + 1 < Len(prog) /\ t[i] = prog[i + 1]
    BY <1>1, <1>2
  <2> QED
    BY <2>1 DEF OnePipeline
<1>5. ASSUME Len(prog) # 1
      PROVE  ~Head(prog).wait /\ Head(prog).kind \in {"ext", "builtin", "fail"}
  <2>1. 1 \in DOMAIN prog /\ 1 < Len(prog)
    BY <1>1, <1>2, <1>5
  <2> QED
    BY <1>1, <2>1 DEF OnePipeline
<1> QED
  BY <1>1, <1>3, <1>4, <1>5 DEF t

\* The program of the innermost machine.
LEMMA TopPipeline ==
    ASSUME TypeOK, ControlInv, ActsLast,
           pc \in {"run", "return"} \cup Spawning \cup Waiting, Top.prog # << >>
    PROVE  /\ Rest.prog = Tail(Top.prog) /\ Proceed.prog = Tail(Top.prog)
           /\ OnePipeline(Top.prog) /\ OnePipeline(Tail(Top.prog))
           /\ \/ Head(Top.prog).wait
              \/ Head(Top.prog).kind \in {"jobs", "fg", "call"}
              => Tail(Top.prog) = << >> /\ Len(Top.prog) = 1
<1>1. Top \in Frame /\ Top = frames[1] /\ 1 \in DOMAIN frames
  BY AtFacts
<1>2. Top.prog \in Seq(Command) /\ OnePipeline(Top.prog)
  BY <1>1 DEF Frame, ActsLast
<1>3. Rest.prog = Tail(Top.prog)
  BY <1>1 DEF Rest, Frame
<1>4. Proceed.prog = Rest.prog
  BY <1>1 DEF Proceed, Rest, Frame
<1> QED
  BY <1>2, <1>3, <1>4, RestOfPipeline

\* What ActsLast says of the stack of machines.
AllPipelines(s) ==
    \A i \in DOMAIN s : OnePipeline(s[i].prog) /\ (i > 1 => Len(s[i].prog) = 1)

LEMMA ReplacePipelines ==
    ASSUME TypeOK, frames # << >>, AllPipelines(frames),
           NEW f \in Frame, OnePipeline(f.prog), frames' = Replace(f)
    PROVE  AllPipelines(frames') /\ Top' = f
<1>1. /\ DOMAIN frames' = DOMAIN frames /\ frames'[1] = f /\ Head(frames') = f
      /\ \A i \in DOMAIN frames : i > 1 => frames'[i] = frames[i]
      /\ DOMAIN frames = 1 .. Len(frames) /\ Len(frames) \in Nat
  BY ReplaceFacts DEF TypeOK, Replace
<1>2. ASSUME NEW i \in DOMAIN frames'
      PROVE  OnePipeline(frames'[i].prog) /\ (i > 1 => Len(frames'[i].prog) = 1)
  <2>1. CASE i = 1
    BY <1>1, <2>1
  <2>2. CASE i # 1
    <3>1. i \in DOMAIN frames /\ i > 1
      BY <1>1, <2>2
    <3> QED
      BY <1>1, <3>1 DEF AllPipelines
  <2> QED
    BY <2>1, <2>2
<1> QED
  BY <1>1, <1>2 DEF AllPipelines, Top

\* Programs stay pipelines, and machines whose callee runs are at their end.
LEMMA ActsLastStep ==
    ASSUME PipelinesOnly, IInv, ActsLast, [Next]_vars
    PROVE  ActsLast'
<1>0. TypeOK /\ ControlInv /\ BookInv /\ AllPipelines(frames)
  BY DEF IInv, ActsLast, AllPipelines
<1> SUFFICES AllPipelines(frames') /\ (pc' \in Waiting => Len(Top'.prog) = 1)
  BY DEF ActsLast, AllPipelines
<1>1. CASE \/ UNCHANGED vars \/ CheckJobs \/ ReadNothing \/ ReadFails \/ Done \/ Exit
           \/ Fail \/ ForkFails \/ ExecFails \/ Fork \/ PreExec \/ ExecOk
           \/ Environment \/ Dead
  <2>1. frames' = frames /\ (pc' \in Waiting => pc' = pc)
    BY <1>1 DEF vars, shellVars, CheckJobs, ReadNothing, ReadFails, Done, Exit, Fail, Fails,
                ForkFails, ExecFails, Fork, PreExec, ExecOk, Environment, Dead, Waiting
  <2> QED
    BY <1>0, <2>1 DEF ActsLast, Top
<1>2. CASE ReadLine
  <2>1. PICK prog \in Programs : frames' = <<NewMachine(prog)>>
    BY <1>2 DEF ReadLine
  <2>2. NewMachine(prog).prog = prog /\ OnePipeline(prog)
    BY DEF NewMachine, PipelinesOnly
  <2>3. DOMAIN frames' = {1} /\ frames'[1] = NewMachine(prog)
    BY <2>1
  <2> QED
    BY <1>2, <2>2, <2>3 DEF AllPipelines, ReadLine, Waiting
<1>3. CASE Builtin \/ FgNothing \/ Jobs \/ FgWait
  <2>1. Top.prog # << >> /\ frames' = Replace(Proceed) /\ pc' = "run"
        /\ pc \in {"run", "fgwait"}
    BY <1>0, <1>3 DEF Builtin, FgNothing, Jobs, FgWait, At, ControlInv, Waiting
  <2>2. Proceed \in Frame /\ OnePipeline(Proceed.prog) /\ frames # << >>
    BY <1>0, <2>1, AtFacts, TopPipeline DEF Waiting
  <2> QED
    BY <1>0, <2>1, <2>2, ReplacePipelines DEF Waiting
<1>4. CASE Fg
  <2>1. frames' = frames /\ pc = "run" /\ Top.prog # << >> /\ Head(Top.prog).kind = "fg"
    BY <1>4 DEF Fg, At
  <2>2. Len(Top.prog) = 1
    BY <1>0, <2>1, TopPipeline
  <2> QED
    BY <1>0, <2>1, <2>2 DEF Top
<1>5. CASE Call
  <2> DEFINE f == NewMachine(FunctionBody)
  <2>1. /\ f \in Frame /\ frames' = <<f>> \o frames /\ pc' = "run" /\ pc = "run"
        /\ frames \in Seq(Frame) /\ Top.prog # << >> /\ Head(Top.prog).kind = "call"
        /\ frames[1] = Top
    BY <1>0, <1>5, NewMachineType, AtFacts, ProgramAssumption DEF Call, At
  <2>2. OnePipeline(f.prog)
    BY DEF NewMachine, PipelinesOnly
  <2> HIDE DEF f
  <2>3. /\ frames'[1] = f
        /\ \A i \in DOMAIN frames' : i > 1 => i - 1 \in DOMAIN frames /\ frames'[i] = frames[i - 1]
        /\ frames' \in Seq(Frame)
    BY <2>1, PushFacts
  <2>4. Len(Top.prog) = 1
    BY <1>0, <2>1, TopPipeline
  <2>5. ASSUME NEW i \in DOMAIN frames
        PROVE  OnePipeline(frames[i].prog) /\ Len(frames[i].prog) = 1
    <3>1. i \in 1 .. Len(frames)
      BY <2>1
    <3>2. CASE i = 1
      BY <1>0, <2>1, <2>4, <3>2 DEF AllPipelines
    <3>3. CASE i # 1
      BY <1>0, <3>1, <3>3 DEF AllPipelines
    <3> QED
      BY <3>2, <3>3
  <2>6. ASSUME NEW i \in DOMAIN frames'
        PROVE  OnePipeline(frames'[i].prog) /\ (i > 1 => Len(frames'[i].prog) = 1)
    <3>1. i \in 1 .. Len(frames')
      BY <2>3
    <3>2. CASE i = 1
      BY <2>2, <2>3, <3>2
    <3>3. CASE i > 1
      BY <2>3, <2>5, <3>3
    <3> QED
      BY <3>1, <3>2, <3>3
  <2> QED
    BY <2>1, <2>6 DEF AllPipelines, Waiting
<1>6. CASE Return
  <2>1. CASE Len(frames) = 1
    BY <1>6, <2>1 DEF Return, AllPipelines, Waiting
  <2>2. CASE Len(frames) # 1
    <3> DEFINE t == Tail(frames)
               next == [Head(t) EXCEPT !.prog = Tail(@),
                            !.last = IF Head(Head(t).prog).wait THEN Ready ELSE @]
    <3>1. /\ t \in Seq(Frame) /\ t # << >> /\ next \in Frame
          /\ \A i \in DOMAIN t : i + 1 \in DOMAIN frames /\ t[i] = frames[i + 1]
          /\ Head(t) = frames[2] /\ 2 \in DOMAIN frames
      BY <1>0, <1>6, <2>2, CallerFacts DEF Return
    <3>2. \/ frames' = t /\ pc' = "return"
          \/ frames' = <<next>> \o Tail(t) /\ pc' = "run"
      BY <1>6, <2>2 DEF Return
    <3>3. Head(t) \in Frame /\ Head(t).prog # << >> /\ Head(t).prog \in Seq(Command)
      <4>1. frames[2] \in Frame /\ frames[2].prog # << >>
        BY <1>0, <3>1 DEF ControlInv, TypeOK
      <4> QED
        BY <3>1, <4>1 DEF Frame
    <3>4. next.prog = Tail(Head(t).prog) /\ OnePipeline(Head(t).prog)
      BY <1>0, <3>1, <3>3 DEF Frame, AllPipelines
    <3>5. OnePipeline(next.prog)
      BY <3>3, <3>4, RestOfPipeline
    <3> HIDE DEF t, next
    <3>6. ASSUME NEW i \in DOMAIN t
          PROVE  OnePipeline(t[i].prog) /\ Len(t[i].prog) = 1
      <4>1. i \in 1 .. Len(t) /\ Len(t) \in Nat
        BY <3>1
      <4>2. i + 1 \in DOMAIN frames /\ i + 1 > 1 /\ t[i] = frames[i + 1]
        BY <3>1, <4>1
      <4> QED
        BY <1>0, <4>2 DEF AllPipelines
    <3>7. CASE frames' = t /\ pc' = "return"
      BY <3>6, <3>7 DEF AllPipelines, Waiting
    <3>8. CASE frames' = <<next>> \o Tail(t) /\ pc' = "run"
      <4>1. /\ DOMAIN frames' = DOMAIN t /\ frames'[1] = next
            /\ \A i \in DOMAIN t : i > 1 => frames'[i] = t[i]
        BY <3>1, <3>8, ReplaceFacts
      <4>2. ASSUME NEW i \in DOMAIN frames'
            PROVE  OnePipeline(frames'[i].prog) /\ (i > 1 => Len(frames'[i].prog) = 1)
        <5>1. i \in 1 .. Len(t)
          BY <3>1, <4>1
        <5>2. CASE i = 1
          BY <3>5, <4>1, <5>2
        <5>3. CASE i > 1
          BY <3>6, <4>1, <5>3
        <5> QED
          BY <5>1, <5>2, <5>3
      <4> QED
        BY <3>8, <4>2 DEF AllPipelines, Waiting
    <3> QED
      BY <3>2, <3>7, <3>8
  <2> QED
    BY <2>1, <2>2
<1>7. CASE JoinJob
  <2> DEFINE job == IF IsFirst THEN child ELSE Top.job
             here == [Top EXCEPT !.job = job]
             past == [Rest EXCEPT !.job = job]
  <2>1. /\ pc \in Spawning /\ frames # << >> /\ Top.prog # << >>
        /\ Top \in Frame /\ Rest \in Frame /\ job \in Pid
    BY <1>0, <1>7, AtFacts DEF JoinJob, Spawning, IsFirst, Frame
  <2>2. /\ here \in Frame /\ here.prog = Top.prog
        /\ past \in Frame /\ past.prog = Rest.prog
    BY <2>1 DEF Frame
  <2>3. \/ frames' = Replace(here) /\ pc' = "wait" /\ Head(Top.prog).wait
        \/ frames' = Replace(past) /\ pc' = "run"
    BY <1>7 DEF JoinJob, Spawned
  <2> HIDE DEF job, here, past
  <2>4. CASE frames' = Replace(here) /\ pc' = "wait" /\ Head(Top.prog).wait
    BY <1>0, <2>1, <2>2, <2>4, TopPipeline, ReplacePipelines
  <2>5. CASE frames' = Replace(past) /\ pc' = "run"
    BY <1>0, <2>1, <2>2, <2>5, TopPipeline, ReplacePipelines DEF Waiting
  <2> QED
    BY <2>3, <2>4, <2>5
<1>8. CASE WaitChild
  <2> DEFINE past == [Rest EXCEPT !.last = child]
  <2>1. /\ pc \in Waiting /\ frames # << >> /\ Top.prog # << >> /\ Rest \in Frame
        /\ child \in Pid
    BY <1>0, <1>8, AtFacts DEF WaitChild, Waiting
  <2>2. past \in Frame /\ past.prog = Rest.prog
    BY <2>1 DEF Frame
  <2>3. \/ frames' = frames /\ pc' = "return"
        \/ frames' = Replace(past) /\ pc' = "run"
    BY <1>8 DEF WaitChild
  <2> HIDE DEF past
  <2> QED
    BY <1>0, <2>1, <2>2, <2>3, TopPipeline, ReplacePipelines DEF Waiting
<1> QED
  BY <1>1, <1>2, <1>3, <1>4, <1>5, <1>6, <1>7, <1>8 DEF Next, ShellStep, User
-----------------------------------------------------------------------------
(* Groups and the terminal.                                                *)

\* The leader of a listed job is in its own group, and has been started.
LEMMA JobLeader ==
    ASSUME IInv, Grouped, NEW j \in jobs
    PROVE  j \in Pid /\ pgrp[j] = j /\ kstate[j] \notin {"free", "forked", "ready"}
<1>0. TypeOK /\ StatusInv /\ BookInv
  BY DEF IInv
<1>1. j \in Pid /\ procs[j] \in Seq(Pid) /\ procs[j] # << >> /\ procs[j][1] = j
  BY <1>0 DEF TypeOK, BookInv
<1>2. 1 \in DOMAIN procs[j]
  BY <1>1, TailFacts
<1>3. status[j] # "none"
  BY <1>0, <1>1, <1>2 DEF BookInv
<1> QED
  BY <1>0, <1>1, <1>2, <1>3 DEF Grouped, StatusInv

\* A new process enters the group of its job, which still exists.
LEMMA ChildPlacedStep ==
    ASSUME IInv, Grouped, JobStarts, ChildPlaced, [Next]_vars
    PROVE  ChildPlaced'
<1>0. TypeOK /\ ControlInv /\ BookInv /\ SpawnInv
  BY DEF IInv
<1>1. CASE UNCHANGED vars \/ Environment \/ Dead
  BY <1>0, <1>1, EnvironmentFrame DEF ChildPlaced, Dead, vars, kernelVars, shellVars, IsFirst, Top
<1>2. CASE PreExec
  <2>1. /\ child \in Pid /\ Top \in Frame /\ Top.prog # << >> /\ Top = frames[1]
        /\ 1 \in DOMAIN frames /\ pc = "fork" /\ pgrp \in [Pid -> Group]
        /\ UNCHANGED <<frames, child>>
    BY <1>0, <1>2, AtFacts DEF PreExec, Spawning, TypeOK, KernelTypeOK
  <2>2. CASE IsFirst
    BY <1>2, <2>1, <2>2 DEF PreExec, ChildPlaced, IsFirst, Top
  <2>3. CASE ~IsFirst
    <3>1. Top.job \in Pid /\ Top.job \in jobs
      BY <1>0, <2>1, <2>3 DEF IsFirst, Frame, BookInv
    <3>2. kstate[Top.job] # "reaped"
      BY <2>1, <3>1 DEF JobStarts, Spawning
    <3>3. GroupExists(Top.job)
      BY <3>1, <3>2, JobLeader DEF GroupExists, Alive
    <3>4. pgrp'[child] = Top.job
      BY <1>2, <2>1, <2>3, <3>3 DEF PreExec
    <3> QED
      BY <2>1, <2>3, <3>4 DEF ChildPlaced, IsFirst, Top
  <2> QED
    BY <2>2, <2>3
<1>3. CASE ExecOk
  BY <1>0, <1>3 DEF ExecOk, ChildPlaced, IsFirst, Top
<1>4. CASE \/ CheckJobs \/ ReadFails \/ Done \/ Exit \/ Builtin \/ Fail \/ Jobs \/ Fg
           \/ FgNothing \/ FgWait \/ Call \/ Return \/ Fork \/ ForkFails \/ ExecFails
           \/ JoinJob \/ WaitChild \/ User
  <2>1. pc' \notin {"exec", "post"}
    BY <1>4 DEF CheckJobs, ReadFails, Done, Exit, Builtin, Fail, Jobs, Fg, FgNothing, FgWait,
                Call, Return, Fork, ForkFails, ExecFails, JoinJob, Spawned, WaitChild, User,
                ReadLine, ReadNothing, Fails, At
  <2> QED
    BY <2>1 DEF ChildPlaced
<1> QED
  BY <1>1, <1>2, <1>3, <1>4 DEF Next, ShellStep

\* A process joins the job it shares the group of.
LEMMA GroupedStep ==
    ASSUME IInv, Grouped, ChildPlaced, [Next]_vars
    PROVE  Grouped'
<1>0. TypeOK /\ BookInv
  BY DEF IInv
<1>1. ASSUME NEW j \in Pid, NEW i \in DOMAIN procs[j]
      PROVE  pgrp'[procs[j][i]] = j
  <2>1. procs[j][i] \in Pid /\ status[procs[j][i]] # "none"
    BY <1>0 DEF TypeOK, BookInv
  <2> QED
    BY <2>1, GroupFrame DEF Grouped
<1>2. CASE ~JoinJob
  <2>1. procs' = procs
    BY <1>2, RecordsFrame
  <2> QED
    BY <1>1, <2>1 DEF Grouped
<1>3. CASE JoinJob
  <2> DEFINE job == IF IsFirst THEN child ELSE Top.job
  <2>1. /\ child \in Pid /\ job \in Pid
        /\ \A k \in Pid : k # job => procs'[k] = procs[k]
        /\ procs[job] \in Seq(Pid)
        /\ procs'[job] = Append(procs[job], child)
    BY <1>3, JoinFacts
  <2>2. pgrp'[child] = job
    BY <1>3 DEF JoinJob, ChildPlaced
  <2> HIDE DEF job
  <2> SUFFICES ASSUME NEW j \in Pid, NEW i \in DOMAIN procs'[j]
               PROVE  pgrp'[procs'[j][i]] = j
    BY DEF Grouped
  <2>3. CASE j = job
    <3>1. \/ i \in DOMAIN procs[job] /\ procs'[job][i] = procs[job][i]
          \/ procs'[job][i] = child
      BY <2>1, <2>3, AppendFacts
    <3> QED
      BY <1>1, <2>1, <2>2, <2>3, <3>1
  <2>4. CASE j # job
    BY <1>1, <2>1, <2>4
  <2> QED
    BY <2>3, <2>4
<1> QED
  BY <1>2, <1>3

\* What JoinJob does to the terminal: the job has it.
LEMMA JoinedTerminal ==
    ASSUME IInv, JobStarts, ChildPlaced, JoinJob
    PROVE  LET job == IF IsFirst THEN child ELSE Top.job
           IN  /\ tty' = job /\ pgrp'[child] = job
               /\ kstate'[job] # "reaped" /\ UNCHANGED <<kstate, news>>
<1>0. TypeOK /\ ControlInv /\ SpawnInv
  BY DEF IInv
<1>1. /\ child \in Pid /\ Top \in Frame /\ Top.prog # << >> /\ pc = "post"
      /\ kstate[child] \in {"running", "stopped", "zombie"}
      /\ UNCHANGED <<kstate, news, pgrp>>
  BY <1>0, AtFacts DEF JoinJob, SpawnInv, Spawning
<1>2. CASE IsFirst
  <2>1. pgrp[child] = child /\ GroupExists(child)
    BY <1>1, <1>2 DEF ChildPlaced, GroupExists, Alive
  <2>2. tty' = child
    BY <1>2, <2>1 DEF JoinJob, Tcsetpgrp
  <2> QED
    BY <1>1, <1>2, <2>1, <2>2
<1>3. CASE ~IsFirst
  <2>1. Top.job \in Pid
    BY <1>1, <1>3 DEF IsFirst, Frame
  <2>2. pgrp[child] = Top.job /\ kstate[Top.job] # "reaped" /\ tty = Top.job
    BY <1>1, <1>3, <2>1 DEF ChildPlaced, JobStarts, Spawning
  <2>3. tty' = tty
    BY <1>3 DEF JoinJob
  <2> QED
    BY <1>1, <1>3, <2>2, <2>3
<1> QED
  BY <1>2, <1>3

\* Until the last command of a pipeline its job has the terminal, and a leader.
LEMMA JobStartsStep ==
    ASSUME IInv, ActsLast, JobStarts, ChildPlaced, [Next]_vars
    PROVE  JobStarts'
<1>0. TypeOK /\ ControlInv /\ BookInv /\ AllPipelines(frames)
  BY DEF IInv, ActsLast, AllPipelines
<1> USE ProgramAssumption
<1>1. CASE UNCHANGED vars \/ Environment \/ Dead
  <2>1. /\ UNCHANGED <<frames, pc, tty>>
        /\ \A p \in Pid : kstate'[p] = "reaped" <=> kstate[p] = "reaped"
    BY <1>0, <1>1, EnvironmentFrame DEF Dead, vars, kernelVars, shellVars
  <2> QED
    BY <2>1 DEF JobStarts, Top
<1>2. CASE ReadLine
  <2>1. PICK prog \in Programs : frames' = <<NewMachine(prog)>>
    BY <1>2 DEF ReadLine
  <2>2. Top'.job = None
    BY <2>1 DEF Top, NewMachine
  <2> QED
    BY <2>2 DEF JobStarts
<1>3. CASE Call
  <2>1. NewMachine(FunctionBody) \in Frame /\ frames \in Seq(Frame)
        /\ frames' = <<NewMachine(FunctionBody)>> \o frames
    BY <1>0, <1>3, NewMachineType DEF Call, TypeOK
  <2>2. Top' = NewMachine(FunctionBody)
    BY <2>1, PushFacts DEF Top
  <2> QED
    BY <2>2 DEF JobStarts, NewMachine
<1>4. CASE Builtin \/ FgNothing \/ Jobs \/ FgWait
  <2>1. /\ Top.prog # << >> /\ frames' = Replace(Proceed) /\ pc \in {"run", "fgwait"}
        /\ Builtin => pc = "run" /\ UNCHANGED <<kstate, tty>>
        /\ pc = "run" /\ ~Builtin => Head(Top.prog).kind \in {"jobs", "fg"}
    BY <1>0, <1>4 DEF Builtin, FgNothing, Jobs, FgWait, At, ControlInv, Waiting, kernelVars
  <2>2. Proceed \in Frame /\ frames # << >> /\ Proceed.job = Top.job
    BY <1>0, <2>1, AtFacts DEF Waiting
  <2>3. Proceed.prog = Tail(Top.prog) /\ OnePipeline(Tail(Top.prog)) /\ Top.prog \in Seq(Command)
    BY <1>0, <2>1, TopPipeline, AtFacts DEF Waiting, Frame
  <2>4. Top' = Proceed
    BY <1>0, <2>1, <2>2, <2>3, ReplacePipelines
  <2>5. CASE Builtin
    BY <2>1, <2>2, <2>4, <2>5 DEF JobStarts
  <2>6. CASE ~Builtin
    <3>1. Len(Top.prog) = 1
      BY <1>0, <2>1, <2>6, TopPipeline DEF ActsLast, Waiting
    <3>2. Tail(Top.prog) = << >>
      BY <2>1, <2>3, <3>1, TailFacts
    <3> QED
      BY <2>3, <2>4, <3>2 DEF JobStarts
  <2> QED
    BY <2>5, <2>6
<1>5. CASE Return
  <2>1. CASE pc' # "run"
    BY <1>5, <2>1 DEF Return, JobStarts, Spawning
  <2>2. CASE pc' = "run"
    <3> DEFINE t == Tail(frames)
               next == [Head(t) EXCEPT !.prog = Tail(@),
                            !.last = IF Head(Head(t).prog).wait THEN Ready ELSE @]
    <3>1. Len(frames) # 1 /\ pc = "return" /\ frames' = <<next>> \o Tail(t)
      BY <1>5, <2>2 DEF Return
    <3>2. /\ t \in Seq(Frame) /\ t # << >> /\ next \in Frame
          /\ Head(t) = frames[2] /\ 2 \in DOMAIN frames
      BY <1>0, <3>1, CallerFacts
    <3>3. frames[2] \in Frame /\ frames[2].prog # << >> /\ Len(frames[2].prog) = 1
      BY <1>0, <3>2 DEF ControlInv, TypeOK, AllPipelines
    <3>4. next.prog = Tail(Head(t).prog)
      BY <3>2, <3>3 DEF Frame
    <3>5. frames[2].prog \in Seq(Command)
      BY <3>3 DEF Frame
    <3>6. next.prog = << >>
      BY <3>2, <3>3, <3>4, <3>5, TailFacts
    <3> HIDE DEF t, next
    <3>7. Top' = next
      BY <3>1, <3>2, ReplaceFacts DEF Top
    <3> QED
      BY <3>6, <3>7 DEF JobStarts
  <2> QED
    BY <2>1, <2>2
<1>6. CASE Fork \/ PreExec \/ ExecOk
  <2>1. /\ pc \in {"run"} \cup Spawning /\ Top.prog # << >>
        /\ UNCHANGED frames /\ (~IsFirst => UNCHANGED tty)
    BY <1>0, <1>6 DEF Fork, PreExec, ExecOk, At, ControlInv, Spawning
  <2>2. \A p \in Pid : kstate'[p] = "reaped" => kstate[p] = "reaped"
    BY <1>0, <1>6 DEF Fork, PreExec, ExecOk, TypeOK, KernelTypeOK
  <2>3. Top'.job \in Pid => ~IsFirst
    BY <2>1 DEF IsFirst, Top
  <2> QED
    BY <2>1, <2>2, <2>3 DEF JobStarts, Top
<1>7. CASE JoinJob
  <2> DEFINE job == IF IsFirst THEN child ELSE Top.job
             here == [Top EXCEPT !.job = job]
             past == [Rest EXCEPT !.job = job]
  <2>1. /\ pc \in Spawning /\ frames # << >> /\ Top.prog # << >>
        /\ Top \in Frame /\ Rest \in Frame /\ job \in Pid
    BY <1>0, <1>7, AtFacts DEF JoinJob, Spawning, IsFirst, Frame
  <2>2. past \in Frame /\ past.prog = Rest.prog /\ past.job = job
    BY <2>1 DEF Frame
  <2>3. pc' = "wait" \/ frames' = Replace(past)
    BY <1>7 DEF JoinJob, Spawned
  <2>4. tty' = job /\ kstate'[job] # "reaped"
    BY <1>7, JoinedTerminal
  <2> HIDE DEF job, here, past
  <2>5. CASE pc' = "wait"
    BY <2>5 DEF JobStarts, Spawning
  <2>6. CASE frames' = Replace(past)
    <3>1. Top' = past
      BY <1>0, <2>1, <2>2, <2>6, TopPipeline, ReplacePipelines
    <3> QED
      BY <2>2, <2>4, <3>1 DEF JobStarts
  <2> QED
    BY <2>3, <2>5, <2>6
<1>8. CASE WaitChild
  <2> DEFINE past == [Rest EXCEPT !.last = child]
  <2>1. /\ pc \in Waiting /\ frames # << >> /\ Top.prog # << >> /\ Rest \in Frame
        /\ child \in Pid /\ Top.prog \in Seq(Command)
    BY <1>0, <1>8, AtFacts DEF WaitChild, Waiting, Frame
  <2>2. past \in Frame /\ past.prog = Rest.prog
    BY <2>1 DEF Frame
  <2>3. pc' = "return" \/ frames' = Replace(past)
    BY <1>8 DEF WaitChild
  <2> HIDE DEF past
  <2>4. CASE pc' = "return"
    BY <2>4 DEF JobStarts, Spawning
  <2>5. CASE frames' = Replace(past)
    <3>1. Top' = past /\ Rest.prog = Tail(Top.prog)
      BY <1>0, <2>1, <2>2, <2>5, TopPipeline, ReplacePipelines
    <3>2. Tail(Top.prog) = << >>
      BY <2>1, TailFacts DEF ActsLast
    <3> QED
      BY <2>2, <3>1, <3>2 DEF JobStarts
  <2> QED
    BY <2>3, <2>4, <2>5
<1>9. CASE \/ CheckJobs \/ ReadFails \/ Done \/ Exit \/ Fail \/ Fg \/ ForkFails \/ ExecFails
           \/ ReadNothing
  <2>1. pc' \notin {"run"} \cup Spawning
    BY <1>9 DEF CheckJobs, ReadFails, Done, Exit, Fail, Fg, ForkFails, ExecFails, ReadNothing,
                Fails, Spawning
  <2> QED
    BY <2>1 DEF JobStarts
<1> QED
  BY <1>1, <1>2, <1>3, <1>4, <1>5, <1>6, <1>7, <1>8, <1>9 DEF Next, ShellStep, User
-----------------------------------------------------------------------------
(* Waiting.                                                                *)

\* The process that fg resumes is in the group it gives the terminal to.
LEMMA FgResumes ==
    ASSUME IInv, Grouped, Fg
    PROVE  /\ kstate'[child'] # "stopped"
           /\ kstate'[child'] # "reaped" => tty' = pgrp'[child']
<1>0. TypeOK /\ StatusInv /\ BookInv
  BY DEF IInv
<1>1. PICK j \in jobs : Tcsetpgrp(TRUE, j) /\ SigCont(j) /\ child' = LastProcess(j)
  BY DEF Fg
<1> DEFINE p == LastProcess(j)
<1>2. p \in Pid /\ pgrp[p] = j /\ status[p] # "none"
  <2>1. p \in Pid /\ Len(procs[j]) \in DOMAIN procs[j] /\ j \in Pid
    BY <1>0, LastProcessType DEF TypeOK
  <2> QED
    BY <1>0, <2>1 DEF LastProcess, Grouped, BookInv
<1>3. kstate[p] # "free"
  BY <1>0, <1>2 DEF StatusInv
<1>4. kstate'[p] # "stopped" /\ (kstate'[p] # "reaped" => kstate[p] # "reaped")
  BY <1>1, <1>2 DEF SigCont
<1>5. kstate[p] # "reaped" => tty' = j
  BY <1>1, <1>2, <1>3 DEF Tcsetpgrp, GroupExists, Alive
<1>6. pgrp'[p] = j
  BY <1>2 DEF Fg
<1> QED
  BY <1>1, <1>4, <1>5, <1>6

\* The kernel leaves news of every stop.
LEMMA EnvironmentNews ==
    ASSUME TypeOK, Environment, NEW p \in Pid, kstate'[p] = "stopped",
           kstate[p] = "stopped" => news[p]
    PROVE  news'[p]
<1>1. ASSUME NEW q \in Pid, NEW c, ProcExit(q, c)
      PROVE  news'[p]
  BY <1>1 DEF ProcExit, TypeOK, KernelTypeOK
<1>2. ASSUME NEW q \in Pid, Killed(q)
      PROVE  news'[p]
  BY <1>2 DEF Killed, TypeOK, KernelTypeOK
<1>3. ASSUME NEW g, StopGroup(g)
      PROVE  news'[p]
  <2>1. kstate'[p] = (IF p \in Running(g) THEN "stopped" ELSE kstate[p])
        /\ news'[p] = (news[p] \/ p \in Running(g))
    BY <1>3 DEF StopGroup
  <2> QED
    BY <2>1
<1> QED
  BY <1>1, <1>2, <1>3 DEF Environment, KeySuspend, TtyStop

\* Nobody but the shell's wait collects the stop of the process it waits for,
\* and the terminal stays with that process meanwhile.
LEMMA WaitingStep ==
    ASSUME IInv, PipelineInv, [Next]_vars
    PROVE  StopsAreNews' /\ WaitedIsForeground'
<1>0. TypeOK /\ ControlInv /\ SpawnInv /\ Grouped /\ JobStarts /\ ChildPlaced
      /\ StopsAreNews /\ WaitedIsForeground
  BY DEF IInv, PipelineInv
<1>1. CASE UNCHANGED vars \/ Dead
  BY <1>0, <1>1 DEF Dead, vars, kernelVars, shellVars, StopsAreNews, WaitedIsForeground
<1>2. CASE Environment
  <2>1. UNCHANGED <<pgrp, tty, pc, child>>
        /\ \A p \in Pid : kstate'[p] = "reaped" <=> kstate[p] = "reaped"
    BY <1>0, <1>2, EnvironmentFrame
  <2>2. pc \in {"post"} \cup Waiting => child \in Pid
    BY <1>0 DEF ControlInv, Spawning
  <2>3. WaitedIsForeground'
    BY <1>0, <2>1, <2>2 DEF WaitedIsForeground
  <2>4. StopsAreNews'
    BY <1>0, <1>2, <2>1, <2>2, EnvironmentNews DEF StopsAreNews
  <2> QED
    BY <2>3, <2>4
<1>3. CASE Fg
  <2>1. /\ kstate'[child'] # "stopped"
        /\ kstate'[child'] # "reaped" => tty' = pgrp'[child']
    BY <1>0, <1>3, FgResumes
  <2> QED
    BY <2>1 DEF StopsAreNews, WaitedIsForeground
<1>4. CASE ExecOk
  <2>1. child \in Pid /\ kstate'[child] = "running" /\ child' = child /\ pc' = "post"
    BY <1>0, <1>4, AtFacts DEF ExecOk, Spawning, TypeOK, KernelTypeOK
  <2> QED
    BY <2>1 DEF StopsAreNews, WaitedIsForeground, Waiting
<1>5. CASE JoinJob
  <2> DEFINE job == IF IsFirst THEN child ELSE Top.job
  <2>1. tty' = job /\ pgrp'[child] = job /\ UNCHANGED <<kstate, news>>
    BY <1>0, <1>5, JoinedTerminal
  <2>2. pc' = "run" \/ (pc' = "wait" /\ child' = child)
    <3>1. Spawned(job)
      BY <1>5 DEF JoinJob
    <3> HIDE DEF job
    <3>2. CASE Head(Top.prog).wait
      BY <3>1, <3>2 DEF Spawned
    <3>3. CASE ~Head(Top.prog).wait
      BY <3>1, <3>3 DEF Spawned
    <3> QED
      BY <3>2, <3>3
  <2> HIDE DEF job
  <2>3. pc = "post"
    BY <1>5, Zenon DEF JoinJob
  <2> QED
    BY <1>0, <2>1, <2>2, <2>3 DEF StopsAreNews, WaitedIsForeground, Waiting
<1>6. CASE \/ CheckJobs \/ ReadFails \/ Done \/ Exit \/ Builtin \/ Fail \/ Jobs
           \/ FgNothing \/ FgWait \/ Call \/ Return \/ Fork \/ ForkFails \/ PreExec
           \/ ExecFails \/ WaitChild \/ User
  <2>1. pc' \notin {"post"} \cup Waiting
    BY <1>6 DEF CheckJobs, ReadFails, Done, Exit, Builtin, Fail, Jobs, FgNothing, FgWait,
                Call, Return, Fork, ForkFails, PreExec, ExecFails, WaitChild, User,
                ReadLine, ReadNothing, Fails, At, Waiting
  <2> QED
    BY <2>1 DEF StopsAreNews, WaitedIsForeground
<1> QED
  BY <1>1, <1>2, <1>3, <1>4, <1>5, <1>6 DEF Next, ShellStep
-----------------------------------------------------------------------------
(* The theorems.                                                           *)

\* What programs that are one pipeline keep is inductive, given the invariant
\* that holds for all programs.
THEOREM PipelineInvariance ==
    ASSUME PipelinesOnly
    PROVE  Spec => []PipelineInv
<1>1. Init => PipelineInv
  BY DEF Init, KernelInit, PipelineInv, JobStarts, ChildPlaced, Grouped, ActsLast,
         StopsAreNews, WaitedIsForeground, Spawning, Waiting
<1>2. IInv /\ PipelineInv /\ [Next]_vars => PipelineInv'
  <2> SUFFICES ASSUME IInv, PipelineInv, [Next]_vars
               PROVE  PipelineInv'
    OBVIOUS
  <2>1. JobStarts /\ ChildPlaced /\ Grouped /\ ActsLast
    BY DEF PipelineInv
  <2> QED
    BY <2>1, ActsLastStep, ChildPlacedStep, GroupedStep, JobStartsStep, WaitingStep
       DEF PipelineInv
<1> QED
  BY <1>1, <1>2, Invariance, PTL DEF Spec

\* While the shell waits for a process, in Wait or in fg, ctrl-C and ctrl-Z
\* reach that process (the tcsetpgrp calls of Host::spawn_command and fg).
THEOREM WaitsInForeground ==
    ASSUME PipelinesOnly
    PROVE  Spec => []WaitedIsForeground
<1>1. PipelineInv => WaitedIsForeground
  BY DEF PipelineInv
<1> QED
  BY PipelineInvariance, <1>1, PTL

\* No wait is for a stop that was already reported to someone else
\* (ChildProcessInner::wait and Job::poll share the child's one report).
THEOREM NeverStuck ==
    ASSUME PipelinesOnly
    PROVE  Spec => []NoStuckWait
<1>1. PipelineInv => NoStuckWait
  BY DEF PipelineInv, StopsAreNews, NoStuckWait
<1> QED
  BY PipelineInvariance, <1>1, PTL

\* A program runs its first instruction in the terminal's foreground group, the
\* leader of a job with its standard input redirected aside (the pre_exec of
\* Host::spawn_command).
THEOREM RunsInForeground ==
    ASSUME PipelinesOnly
    PROVE  Spec => []StartsInForeground
<1>1. IInv /\ PipelineInv => StartsInForeground
  <2> SUFFICES ASSUME IInv, PipelineInv, pc = "post", IsFirst => Head(Top.prog).tty
               PROVE  tty = pgrp[child]
    BY DEF StartsInForeground
  <2>1. pgrp[child] = (IF IsFirst THEN child ELSE Top.job) /\ (IsFirst => tty = child)
    BY DEF PipelineInv, ChildPlaced
  <2>2. ASSUME ~IsFirst
        PROVE  tty = Top.job
    <3>1. Top \in Frame /\ Top.prog # << >>
      BY AtFacts DEF IInv, Spawning
    <3>2. Top.job \in Pid
      BY <2>2, <3>1 DEF IsFirst, Frame
    <3> QED
      BY <3>1, <3>2 DEF PipelineInv, JobStarts, Spawning
  <2> QED
    BY <2>1, <2>2
<1> QED
  BY Invariance, PipelineInvariance, <1>1, PTL
=============================================================================
