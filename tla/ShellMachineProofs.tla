------------------------- MODULE ShellMachineProofs -------------------------
(* Proofs about ShellMachine, for every program.                           *)
EXTENDS ShellMachine, SequenceTheorems, TLAPS

-----------------------------------------------------------------------------
(* Sequences of anything.                                                  *)

LEMMA OverAny ==
    ASSUME NEW S, NEW s \in Seq(S)
    PROVE  SeqOver(s)
<1>1. Len(s) \in Nat /\ DOMAIN s = 1 .. Len(s) /\ s = [n \in 1 .. Len(s) |-> s[n]]
  OBVIOUS
<1>2. s \in [1 .. Len(s) -> {s[n] : n \in DOMAIN s}]
  BY <1>1
<1> QED
  BY <1>1, <1>2 DEF SeqOver

\* What holds of a sequence with something appended.
LEMMA OverAppend ==
    ASSUME NEW s, SeqOver(s), NEW x
    PROVE  /\ SeqOver(Append(s, x))
           /\ Len(s) \in Nat
           /\ Len(Append(s, x)) = Len(s) + 1
           /\ \A n \in 1 .. Len(s) : Append(s, x)[n] = s[n]
<1> DEFINE S == {s[n] : n \in DOMAIN s} \cup {x}
<1>1. s \in Seq(S)
  BY DEF SeqOver
<1>2. Append(s, x) \in Seq(S)
  BY <1>1
<1> HIDE DEF S
<1>3. SeqOver(Append(s, x))
  BY <1>2, OverAny
<1> QED
  BY <1>1, <1>3

\* What holds of a sequence without its last element.
LEMMA OverFront ==
    ASSUME NEW s, SeqOver(s), s # << >>
    PROVE  /\ SeqOver(Front(s))
           /\ Len(s) \in Nat \ {0}
           /\ Len(Front(s)) = Len(s) - 1
           /\ \A n \in 1 .. Len(s) - 1 : Front(s)[n] = s[n]
<1> DEFINE S == {s[n] : n \in DOMAIN s}
<1>1. s \in Seq(S)
  BY DEF SeqOver
<1> HIDE DEF S
<1>2. Len(s) \in Nat \ {0}
  BY <1>1, EmptySeq
<1> DEFINE last == Len(s) - 1
           t == SubSeq(s, 1, last)
<1>3. last \in Int /\ \A i \in 1 .. last : s[i] \in S
  BY <1>1, <1>2
<1>4. /\ t \in Seq(S) /\ Len(t) = IF 1 <= last THEN last - 1 + 1 ELSE 0
      /\ \A n \in 1 .. last - 1 + 1 : t[n] = s[1 + n - 1]
  <2> HIDE DEF last
  <2> QED  BY <1>3, SubSeqProperties
<1>5. /\ t \in Seq(S) /\ Len(t) = Len(s) - 1
      /\ \A n \in 1 .. Len(s) - 1 : t[n] = s[n]
  <2> HIDE DEF t
  <2>1. last - 1 + 1 = last /\ \A n \in 1 .. last : 1 + n - 1 = n
    BY <1>3
  <2>2. last \in Nat
    BY <1>2
  <2>3. Len(t) = last
    <3> HIDE DEF last
    <3> QED  BY <1>4, <2>2
  <2> QED  BY <1>4, <2>1, <2>3
<1>6. Front(s) = t
  BY DEF Front
<1> QED
  BY <1>2, <1>5, <1>6, OverAny

\* What holds of a sequence with one element replaced, wherever it is.
LEMMA OverExcept ==
    ASSUME NEW s, SeqOver(s), NEW n, NEW x
    PROVE  /\ SeqOver([s EXCEPT ![n] = x])
           /\ Len([s EXCEPT ![n] = x]) = Len(s)
<1> DEFINE S == {s[m] : m \in DOMAIN s} \cup {x}
           t == [s EXCEPT ![n] = x]
<1>1. s \in Seq(S)
  BY DEF SeqOver
<1>2. Len(s) \in Nat /\ DOMAIN s = 1 .. Len(s)
  BY <1>1
<1>3. DOMAIN t = 1 .. Len(s)
  BY <1>2
<1>4. \A m \in 1 .. Len(s) : t[m] \in S
  BY <1>2
<1>5. t = [m \in 1 .. Len(s) |-> t[m]]
  BY <1>3
<1> HIDE DEF S, t
<1>6. t \in [1 .. Len(s) -> S]
  BY <1>4, <1>5
<1>7. t \in Seq(S) /\ Len(t) = Len(s)
  BY <1>2, <1>3, <1>6
<1> QED
  BY <1>7, OverAny DEF t

\* The same, of a sequence that may have stayed as it is.
LEMMA OverReplaced ==
    ASSUME NEW s, SeqOver(s), NEW t, t = s \/ \E n, x : t = [s EXCEPT ![n] = x]
    PROVE  SeqOver(t) /\ Len(t) = Len(s)
<1>1. CASE t = s
  BY <1>1
<1>2. CASE \E n, x : t = [s EXCEPT ![n] = x]
  <2>1. PICK n, x : t = [s EXCEPT ![n] = x]
    BY <1>2
  <2> QED
    BY <2>1, OverExcept
<1> QED
  BY <1>1, <1>2

-----------------------------------------------------------------------------
(* The invariant: the frames tile the stack.                               *)

\* The stack keeps its length and the frames stay.
LEMMA SameFrames ==
    ASSUME IInv, UNCHANGED <<program, frames>>, pc' \in Nat,
           SeqOver(stack)', Len(stack') = Len(stack),
           SeqOver(environment)', SeqOver(io_env)', SeqOver(pipes)', SeqOver(spawned)',
           status' \in {"Running", "Stopped", "Complete", "Err"}, npipes' \in Nat
    PROVE  IInv'
<1>1. TypeOK'
  BY DEF IInv, TypeOK, ProgramOK, SeqOver
<1>2. FramesTile'
  BY DEF IInv, FramesTile, Base
<1> QED
  BY <1>1, <1>2 DEF IInv

\* An instruction that writes one register, or none.
LEMMA ValuesStep ==
    ASSUME IInv, StackOnly, UNCHANGED stack \/ \E o, v : Write(o, v)
    PROVE  IInv'
<1>1. SeqOver(stack)' /\ Len(stack') = Len(stack)
  <2>1. CASE UNCHANGED stack
    BY <2>1 DEF IInv, TypeOK, SeqOver
  <2>2. CASE \E o, v : Write(o, v)
    <3>1. PICK o, v : stack' = [stack EXCEPT ![Slot(o)] = v]
      BY <2>2 DEF Write
    <3>2. SeqOver(stack)
      BY DEF IInv, TypeOK
    <3>3. SeqOver(stack') /\ Len(stack') = Len(stack)
      BY <3>1, <3>2, OverExcept
    <3> QED
      BY <3>3 DEF SeqOver
  <2> QED
    BY <2>1, <2>2
<1>2. /\ UNCHANGED <<program, frames, environment, io_env, pipes, spawned, status, npipes>>
      /\ pc' \in Nat
  BY DEF StackOnly, Next1, code, scopes, host, IInv, TypeOK
<1> QED
  BY <1>1, <1>2, SameFrames DEF IInv, TypeOK, SeqOver

\* An instruction that leaves the stack of values alone and goes on.
LEMMA ScopeStep ==
    ASSUME IInv, Next1, UNCHANGED <<stack, frames, spawned>>,
           SeqOver(environment)', SeqOver(io_env)', SeqOver(pipes)', npipes' \in Nat
    PROVE  IInv'
<1>1. UNCHANGED <<program, status>> /\ pc' \in Nat /\ SeqOver(stack)' /\ SeqOver(spawned)'
  BY DEF Next1, code, IInv, TypeOK, SeqOver
<1> QED
  BY <1>1, SameFrames DEF IInv, TypeOK

\* A jump whose target is in the program.
LEMMA JumpStep ==
    ASSUME IInv, NEW t, ValidTarget(t), Goto(t),
           UNCHANGED <<stack, frames, scopes, last_wait_status, host>>
    PROVE  IInv'
<1>1. pc' \in Nat
  BY DEF IInv, TypeOK, ProgramOK, SeqOver, ValidTarget, Goto
<1>2. UNCHANGED <<program, frames, stack, environment, io_env, pipes, spawned, status, npipes>>
  BY DEF Goto, code, scopes, host
<1> QED
  BY <1>1, <1>2, SameFrames DEF IInv, TypeOK, SeqOver

\* The end of a program.
LEMMA EndStep ==
    ASSUME IInv, NEW how \in {"Stopped", "Complete", "Err"}, NEW v, Ends(how, v),
           SeqOver(spawned)'
    PROVE  IInv'
<1>1. /\ UNCHANGED <<program, pc, frames, stack, environment, io_env, pipes, npipes>>
      /\ status' \in {"Running", "Stopped", "Complete", "Err"}
  BY DEF Ends, EndsAs, scopes
<1> QED
  BY <1>1, SameFrames DEF IInv, TypeOK, SeqOver

\* A frame is pushed where the stack ends.
LEMMA PushFrameStep ==
    ASSUME IInv, PushFrame
    PROVE  IInv'
<1> DEFINE room == [n \in 1 .. Ins.size |-> NoneV]
           f == [fp |-> Len(stack) + Ins.size, size |-> Ins.size]
<1>1. Ins.size \in Nat
  BY DEF PushFrame, At, Running, Ins, IInv, TypeOK, ProgramOK
<1>2. /\ Len(stack) \in Nat /\ SeqOver(stack) /\ f \in [fp : Nat, size : Nat]
      /\ f.size = Ins.size /\ f.fp = Len(stack) + Ins.size
  BY <1>1 DEF IInv, TypeOK, SeqOver
<1>3. room \in Seq({NoneV}) /\ Len(room) = Ins.size
  BY <1>1
<1>4. stack' = stack \o room /\ frames' = Append(frames, f)
  BY DEF PushFrame
<1> HIDE DEF room, f
<1>5. SeqOver(stack') /\ Len(stack') = Len(stack) + Ins.size
  <2> DEFINE S == {stack[n] : n \in DOMAIN stack} \cup {NoneV}
  <2>1. stack \in Seq(S) /\ room \in Seq(S)
    BY <1>2, <1>3 DEF SeqOver
  <2> HIDE DEF S
  <2>2. stack' \in Seq(S) /\ Len(stack') = Len(stack) + Len(room)
    BY <1>4, <2>1, ConcatProperties
  <2> QED
    BY <1>3, <2>2, OverAny
<1>6. /\ frames \in Seq([fp : Nat, size : Nat]) /\ frames' \in Seq([fp : Nat, size : Nat])
      /\ Len(frames') = Len(frames) + 1 /\ Len(frames) \in Nat
      /\ frames'[Len(frames) + 1] = f
      /\ \A n \in 1 .. Len(frames) : frames'[n] = frames[n]
  BY <1>2, <1>4 DEF IInv, TypeOK
<1>7. TypeOK'
  <2>1. /\ UNCHANGED <<program, environment, io_env, pipes, npipes, spawned, status>>
        /\ pc' \in Nat
    BY DEF PushFrame, Next1, code, scopes, host, IInv, TypeOK
  <2> QED
    BY <1>5, <1>6, <2>1 DEF IInv, TypeOK, ProgramOK, SeqOver
<1>8. FramesTile'
  <2>1. DOMAIN frames' = 1 .. Len(frames) + 1 /\ DOMAIN frames = 1 .. Len(frames)
    BY <1>6
  <2>2. frames' # << >> /\ frames'[Len(frames')].fp = Len(stack')
    BY <1>2, <1>5, <1>6, EmptySeq
  <2>3. ASSUME NEW k \in 1 .. Len(frames)
        PROVE  frames'[k].fp = Base(frames', k) + frames'[k].size
    <3>1. k = 1 \/ k - 1 \in 1 .. Len(frames)
      BY <1>6
    <3>2. Base(frames', k) = Base(frames, k)
      BY <1>6, <3>1 DEF Base
    <3> QED
      BY <1>6, <2>1, <2>3, <3>2 DEF IInv, FramesTile
  <2>4. Base(frames', Len(frames) + 1) = Len(stack)
    <3>1. CASE frames = << >>
      <4>1. Len(frames) = 0
        BY <3>1
      <4> QED
        BY <3>1, <4>1 DEF Base, IInv, FramesTile
    <3>2. CASE frames # << >>
      <4>1. Len(frames) \in 1 .. Len(frames)
        BY <1>6, <3>2, EmptySeq
      <4>2. Base(frames', Len(frames) + 1) = frames[Len(frames)].fp
        BY <1>6, <4>1 DEF Base
      <4> QED
        BY <3>2, <4>2 DEF IInv, FramesTile
    <3> QED
      BY <3>1, <3>2
  <2>5. ASSUME NEW k \in DOMAIN frames'
        PROVE  frames'[k].fp = Base(frames', k) + frames'[k].size
    <3>1. k \in 1 .. Len(frames) \/ k = Len(frames) + 1
      BY <1>6, <2>1
    <3>2. frames'[Len(frames) + 1].fp = Len(stack) + Ins.size
          /\ frames'[Len(frames) + 1].size = Ins.size
      BY <1>2, <1>6
    <3> QED
      BY <2>3, <2>4, <3>1, <3>2
  <2> QED
    BY <2>2, <2>5 DEF FramesTile
<1> QED
  BY <1>7, <1>8 DEF IInv

\* The topmost frame ends where the stack does.
LEMMA TopFrame ==
    ASSUME IInv, frames # << >>
    PROVE  /\ Base(frames, Len(frames)) \in Nat
           /\ Last(frames).fp = Base(frames, Len(frames)) + Last(frames).size
           /\ Last(frames).fp = Len(stack)
           /\ Last(frames).size \in Nat
<1> DEFINE F == [fp : Nat, size : Nat]
           base == Base(frames, Len(frames))
<1>1. frames \in Seq(F)
  BY DEF IInv, TypeOK
<1> HIDE DEF F
<1>2. /\ Len(frames) \in Nat \ {0} /\ Len(frames) \in DOMAIN frames
      /\ DOMAIN frames = 1 .. Len(frames)
  BY <1>1, EmptySeq
<1>3. Last(frames) = frames[Len(frames)] /\ Last(frames) \in F
  BY <1>1, <1>2 DEF Last
<1>4. base \in Nat
  <2>1. Len(frames) = 1 \/ Len(frames) - 1 \in DOMAIN frames
    BY <1>2
  <2>2. CASE Len(frames) = 1
    BY <2>2 DEF Base
  <2>3. CASE Len(frames) - 1 \in DOMAIN frames
    <3>1. Len(frames) # 1
      BY <1>2, <2>3
    <3>2. base = frames[Len(frames) - 1].fp
      BY <3>1 DEF Base
    <3>3. frames[Len(frames) - 1] \in F
      BY <1>1, <2>3
    <3> QED
      BY <3>2, <3>3 DEF F
  <2> QED
    BY <2>1, <2>2, <2>3
<1>5. /\ Last(frames).fp = base + Last(frames).size /\ Last(frames).fp = Len(stack)
      /\ Last(frames).size \in Nat
  BY <1>1, <1>2, <1>3 DEF IInv, FramesTile, F
<1> HIDE DEF base
<1> QED
  BY <1>4, <1>5 DEF base

\* The topmost frame goes with its part of the stack.
LEMMA PopFrameStep ==
    ASSUME IInv, PopFrame
    PROVE  /\ IInv'
           /\ frames # << >>
           /\ Len(stack') = Base(frames, Len(frames))
           /\ \A n \in 1 .. Len(stack') : stack'[n] = stack[n]
<1> DEFINE F == [fp : Nat, size : Nat]
           base == Base(frames, Len(frames))
           S == {stack[n] : n \in DOMAIN stack}
<1>1. frames # << >> /\ frames \in Seq(F)
  <2>1. Ins.op = "PopFrame" /\ Succeeds(Ins)
    BY DEF PopFrame, At
  <2>2. frames # << >>
    BY <2>1 DEF Succeeds
  <2> QED
    BY <2>2 DEF IInv, TypeOK
<1> HIDE DEF F
<1>2. /\ Len(frames) \in Nat \ {0} /\ Len(frames) \in DOMAIN frames
      /\ DOMAIN frames = 1 .. Len(frames)
  BY <1>1, EmptySeq
<1>4. base \in Nat
  BY <1>1, TopFrame
<1>5. /\ Last(frames).fp = base + Last(frames).size /\ Last(frames).fp = Len(stack)
      /\ Last(frames).size \in Nat
  BY <1>1, TopFrame
<1> HIDE DEF base
<1>6. Last(frames).fp - Last(frames).size = base /\ base <= Len(stack)
  BY <1>4, <1>5
<1>7. stack' = SubSeq(stack, 1, base) /\ frames' = Front(frames)
  BY <1>6 DEF PopFrame
<1>8. stack \in Seq(S) /\ Len(stack) \in Nat
  BY DEF IInv, TypeOK, SeqOver
<1>9. \A n \in 1 .. base : stack[n] \in S
  BY <1>4, <1>6, <1>8
<1> HIDE DEF S
<1>10. /\ stack' \in Seq(S) /\ Len(stack') = base
       /\ \A n \in 1 .. base : stack'[n] = stack[n]
  <2> DEFINE t == SubSeq(stack, 1, base)
  <2>1. /\ t \in Seq(S) /\ Len(t) = IF 1 <= base THEN base - 1 + 1 ELSE 0
        /\ \A n \in 1 .. base - 1 + 1 : t[n] = stack[1 + n - 1]
    BY <1>4, <1>9, SubSeqProperties
  <2>2. stack' = t
    BY <1>7
  <2> HIDE DEF t
  <2>3. base - 1 + 1 = base /\ \A n \in 1 .. base : 1 + n - 1 = n
    BY <1>4
  <2>4. Len(t) = base
    BY <1>4, <2>1
  <2> QED
    BY <2>1, <2>2, <2>3, <2>4
<1>11. SeqOver(stack')
  BY <1>10, OverAny
<1>12. SeqOver(frames)
  BY <1>1, OverAny
<1>13. /\ Len(frames') = Len(frames) - 1 /\ SeqOver(frames')
       /\ \A n \in 1 .. Len(frames) - 1 : frames'[n] = frames[n]
  BY <1>1, <1>7, <1>12, OverFront
<1>14. DOMAIN frames' = 1 .. Len(frames) - 1
  BY <1>13 DEF SeqOver
<1>15. frames' \in Seq(F)
  <2>1. \A n \in 1 .. Len(frames) - 1 : frames'[n] \in F
    BY <1>1, <1>2, <1>13
  <2>2. \A n \in DOMAIN frames' : frames'[n] \in F
    BY <1>14, <2>1
  <2>3. frames' \in Seq({frames'[n] : n \in DOMAIN frames'})
    BY <1>13 DEF SeqOver
  <2>4. {frames'[n] : n \in DOMAIN frames'} \subseteq F
    BY <2>2
  <2> QED
    BY <2>3, <2>4
<1>16. TypeOK'
  <2>1. /\ UNCHANGED <<program, environment, io_env, pipes, npipes, spawned, status>>
        /\ pc' \in Nat
    BY DEF PopFrame, Next1, code, scopes, host, IInv, TypeOK
  <2> QED
    BY <1>11, <1>15, <2>1 DEF IInv, TypeOK, ProgramOK, SeqOver, F
<1>17. \A k \in DOMAIN frames' : Base(frames', k) = Base(frames, k)
  BY <1>2, <1>13, <1>14 DEF Base
<1>18. FramesTile'
  <2>1. \A k \in DOMAIN frames' : frames'[k].fp = Base(frames', k) + frames'[k].size
    BY <1>2, <1>13, <1>14, <1>17 DEF IInv, FramesTile
  <2>2. CASE Len(frames) = 1
    <3>1. frames' = << >>
      BY <1>13, <1>15, <2>2, EmptySeq
    <3>2. base = 0
      BY <2>2 DEF base, Base
    <3> QED
      BY <1>10, <2>1, <3>1, <3>2 DEF FramesTile
  <2>3. CASE Len(frames) # 1
    <3>1. frames' # << >> /\ Len(frames') \in 1 .. Len(frames) - 1
      BY <1>2, <1>13, <2>3
    <3>2. base = frames[Len(frames) - 1].fp
      BY <2>3 DEF base, Base
    <3> QED
      BY <1>10, <1>13, <2>1, <3>1, <3>2 DEF FramesTile
  <2> QED
    BY <2>2, <2>3
<1> QED
  BY <1>1, <1>10, <1>16, <1>18 DEF IInv, base

\* A program ends, or goes on after a command it has run.
LEMMA SpawnCommandStep ==
    ASSUME IInv, SpawnCommand
    PROVE  IInv'
<1>1. CASE /\ \E v : Write(Ins.status, v)
           /\ Next1
           /\ UNCHANGED <<spawned, frames, scopes, last_wait_status, funcs>>
  BY <1>1, ValuesStep DEF StackOnly, host
<1>2. CASE \E fate \in Fates :
              /\ \E x : spawned' = Append(spawned, x)
              /\ environment' = environment
                 \/ \E x : environment' = [environment EXCEPT ![Len(environment)] = x]
              /\ EndsAs("Err", NoneV) \/ \E v : Write(Ins.status, v) /\ Next1
              /\ UNCHANGED <<frames, io_env, pipes, npipes, last_wait_status, funcs>>
  <2>1. SeqOver(spawned') /\ SeqOver(environment')
    <3>1. PICK x : spawned' = Append(spawned, x)
      BY <1>2
    <3>2. /\ SeqOver(spawned) /\ SeqOver(environment)
          /\ environment' = environment \/ \E n, e : environment' = [environment EXCEPT ![n] = e]
      BY <1>2 DEF IInv, TypeOK
    <3>3. SeqOver(spawned')
      BY <3>1, <3>2, OverAppend
    <3> QED
      BY <3>2, <3>3, OverReplaced
  <2>2. SeqOver(stack') /\ Len(stack') = Len(stack)
    <3>1. SeqOver(stack) /\ (stack' = stack \/ \E n, v : stack' = [stack EXCEPT ![n] = v])
      BY <1>2 DEF EndsAs, Write, IInv, TypeOK
    <3> QED
      BY <3>1, OverReplaced
  <2>3. /\ UNCHANGED <<program, frames, io_env, pipes, npipes>> /\ pc' \in Nat
        /\ status' \in {"Running", "Stopped", "Complete", "Err"}
    BY <1>2 DEF EndsAs, Next1, code, IInv, TypeOK
  <2> QED
    BY <2>1, <2>2, <2>3, SameFrames DEF IInv, TypeOK, SeqOver
<1> QED
  BY <1>1, <1>2 DEF SpawnCommand

LEMMA WaitStep ==
    ASSUME IInv, Wait
    PROVE  IInv'
<1>1. SeqOver(spawned')
  <2>1. spawned' = spawned \/ \E n, x : spawned' = [spawned EXCEPT ![n] = x]
    BY DEF Wait
  <2>2. SeqOver(spawned)
    BY DEF IInv, TypeOK
  <2> QED
    BY <2>1, <2>2, OverReplaced
<1>2. \/ Ends("Stopped", NoneV)
      \/ Next1 /\ UNCHANGED <<stack, frames, scopes, funcs>>
  BY DEF Wait
<1>3. /\ UNCHANGED <<program, frames, stack, environment, io_env, pipes, npipes>> /\ pc' \in Nat
      /\ status' \in {"Running", "Stopped", "Complete", "Err"}
  BY <1>2 DEF Ends, EndsAs, Next1, code, scopes, IInv, TypeOK
<1> QED
  BY <1>1, <1>3, SameFrames DEF IInv, TypeOK, SeqOver

LEMMA JumpIfStep ==
    ASSUME IInv, JumpIfZero \/ JumpIfNonZero
    PROVE  IInv'
<1>1. \/ ValidTarget(Ins.target) /\ Goto(Ins.target)
      \/ Next1
  <2>1. CASE JumpIfZero
    <3>1. /\ Ins.op = "JumpIfZero" /\ Succeeds(Ins)
          /\ Next1 \/ (FALSE \in Truths(Read(Ins.condition)) /\ Goto(Ins.target))
      BY <2>1 DEF JumpIfZero, JumpIf, At
    <3>2. FALSE \in Truths(Read(Ins.condition)) => ValidTarget(Ins.target)
      BY <3>1 DEF Succeeds
    <3> QED
      BY <3>1, <3>2
  <2>2. CASE JumpIfNonZero
    <3>1. /\ Ins.op = "JumpIfNonZero" /\ Succeeds(Ins)
          /\ Next1 \/ (TRUE \in Truths(Read(Ins.condition)) /\ Goto(Ins.target))
      BY <2>2 DEF JumpIfNonZero, JumpIf, At
    <3>2. TRUE \in Truths(Read(Ins.condition)) => ValidTarget(Ins.target)
      BY <3>1 DEF Succeeds
    <3> QED
      BY <3>1, <3>2
  <2> QED
    BY <2>1, <2>2
<1>2. UNCHANGED <<stack, frames, scopes, last_wait_status, host>>
  BY DEF JumpIfZero, JumpIfNonZero, JumpIf
<1>3. CASE Next1
  BY <1>2, <1>3, ScopeStep DEF scopes, host, IInv, TypeOK, SeqOver
<1> QED
  BY <1>1, <1>2, <1>3, JumpStep

LEMMA JumpInstruction ==
    ASSUME IInv, Jump
    PROVE  IInv'
<1>1. Ins.op = "Jump" /\ Succeeds(Ins)
  BY DEF Jump, At
<1>2. ValidTarget(Ins.target)
  BY <1>1 DEF Succeeds
<1> QED
  BY <1>2, JumpStep DEF Jump

\* Every step of the machine keeps the invariant.
LEMMA StepInvariance ==
    ASSUME IInv, Next
    PROVE  IInv'
<1>1. CASE \/ Copy \/ StringAppend \/ StringLength \/ JoinList \/ ListAppend
           \/ ListAppendList \/ IsNoneTest \/ IsNoneOrEmptyString \/ TildeExpand \/ GetEnv
  <2>1. StackOnly
    BY <1>1 DEF Copy, StringAppend, StringLength, JoinList, ListAppend, ListAppendList,
                IsNoneTest, IsNoneOrEmptyString, Test, TildeExpand, GetEnv
  <2>2. UNCHANGED stack \/ \E o, v : Write(o, v)
    BY <1>1 DEF Copy, StringAppend, StringLength, JoinList, ListAppend, ListAppendList,
                IsNoneTest, IsNoneOrEmptyString, Test, TildeExpand, GetEnv
  <2> QED
    BY <2>1, <2>2, ValuesStep
<1>2. CASE SetEnv \/ PushEnvironment \/ PopEnvironment
  <2>1. /\ Next1 /\ UNCHANGED <<stack, frames, spawned, io_env, pipes, npipes>>
    BY <1>2 DEF SetEnv, PushEnvironment, PopEnvironment, host
  <2>2. SeqOver(environment')
    <3>1. CASE SetEnv
      BY <3>1, OverExcept DEF SetEnv, IInv, TypeOK
    <3>2. CASE PushEnvironment
      BY <3>2, OverAppend DEF PushEnvironment, IInv, TypeOK
    <3>3. CASE PopEnvironment
      <4>1. Ins.op = "PopEnvironment" /\ Succeeds(Ins)
        BY <3>3 DEF PopEnvironment, At
      <4>2. environment # << >>
        BY <4>1 DEF Succeeds
      <4> QED
        BY <3>3, <4>2, OverFront DEF PopEnvironment, IInv, TypeOK
    <3> QED
      BY <1>2, <3>1, <3>2, <3>3
  <2> QED
    BY <2>1, <2>2, ScopeStep DEF IInv, TypeOK, SeqOver
<1>3. CASE PushIo \/ PopIo \/ PushPipe \/ PopPipe \/ DupFd \/ OpenFile
  <2>1. /\ Next1 /\ UNCHANGED <<stack, frames, spawned, environment>> /\ npipes' \in Nat
    BY <1>3 DEF PushIo, PopIo, PushPipe, PopPipe, DupFd, OpenFile, host, IInv, TypeOK
  <2>2. SeqOver(io_env')
    <3>1. CASE PushIo
      BY <3>1, OverAppend DEF PushIo, IInv, TypeOK
    <3>2. CASE PopIo
      <4>1. Ins.op = "PopIo" /\ Succeeds(Ins)
        BY <3>2 DEF PopIo, At
      <4>2. io_env # << >>
        BY <4>1 DEF Succeeds
      <4> QED
        BY <3>2, <4>2, OverFront DEF PopIo, IInv, TypeOK
    <3>3. CASE PushPipe \/ PopPipe \/ DupFd \/ OpenFile
      <4>1. \E n, x : io_env' = [io_env EXCEPT ![n] = x]
        BY <3>3 DEF PushPipe, PopPipe, DupFd, OpenFile, AssignFd
      <4>2. SeqOver(io_env)
        BY DEF IInv, TypeOK
      <4> QED
        BY <4>1, <4>2, OverReplaced
    <3> QED
      BY <1>3, <3>1, <3>2, <3>3
  <2>3. SeqOver(pipes')
    <3>1. CASE PushPipe
      BY <3>1, OverAppend DEF PushPipe, IInv, TypeOK
    <3>2. CASE PopPipe
      <4>1. Ins.op = "PopPipe" /\ Succeeds(Ins)
        BY <3>2 DEF PopPipe, At
      <4>2. pipes # << >>
        BY <4>1 DEF Succeeds
      <4> QED
        BY <3>2, <4>2, OverFront DEF PopPipe, IInv, TypeOK
    <3>3. CASE PushIo \/ PopIo \/ DupFd \/ OpenFile
      BY <3>3 DEF PushIo, PopIo, DupFd, OpenFile, IInv, TypeOK
    <3> QED
      BY <1>3, <3>1, <3>2, <3>3
  <2> QED
    BY <2>1, <2>2, <2>3, ScopeStep DEF IInv, TypeOK, SeqOver
<1>4. CASE InvertLastWait \/ DefineFunction
  <2>1. Next1 /\ UNCHANGED <<stack, frames, spawned, environment, io_env, pipes, npipes>>
    BY <1>4 DEF InvertLastWait, DefineFunction, scopes, host
  <2> QED
    BY <2>1, ScopeStep DEF IInv, TypeOK, SeqOver
<1>5. CASE Exit \/ ErrorExit \/ Fault
  <2>1. UNCHANGED spawned /\ \E how \in {"Stopped", "Complete", "Err"} : \E v : Ends(how, v)
    BY <1>5 DEF Exit, ErrorExit, Fault
  <2> QED
    BY <2>1, EndStep DEF IInv, TypeOK, SeqOver
<1>6. CASE Halted
  BY <1>6 DEF Halted, vars, code, scopes, host, IInv, TypeOK, FramesTile, Base,
              ProgramOK, SeqOver
<1> QED
  BY <1>1, <1>2, <1>3, <1>4, <1>5, <1>6, PushFrameStep, PopFrameStep, SpawnCommandStep,
     WaitStep, JumpIfStep, JumpInstruction DEF Next, Step

\* A new machine has no frames and no values.
LEMMA InitInvariance == Init => IInv
<1> SUFFICES ASSUME NEW prog \in Programs, MachineInit(prog)
             PROVE  IInv
  BY DEF Init
<1>1. ProgramOK(program)
  BY ProgramsAssumption DEF MachineInit
<1>2. SeqOver(<< >>) /\ << >> \in Seq([fp : Nat, size : Nat])
  <2>1. << >> \in Seq({}) /\ << >> \in Seq([fp : Nat, size : Nat])
    OBVIOUS
  <2>2. SeqOver(<< >>)
    BY <2>1, OverAny
  <2> QED
    BY <2>1, <2>2
<1>3. SeqOver(<<Environment0>>) /\ SeqOver(<<Stdio>>)
  <2>1. <<Environment0>> \in Seq({Environment0}) /\ <<Stdio>> \in Seq({Stdio})
    OBVIOUS
  <2> QED
    BY <2>1, OverAny
<1> QED
  BY <1>1, <1>2, <1>3 DEF MachineInit, IInv, TypeOK, FramesTile

\* IInv holds of every machine: whatever instructions a program has, frames tile
\* the stack (Machine::operand and PopFrame rely on it).
THEOREM Invariance == Spec => []IInv
<1>1. IInv /\ UNCHANGED vars => IInv'
  BY DEF vars, code, scopes, host, IInv, TypeOK, FramesTile, Base, ProgramOK, SeqOver
<1>2. IInv /\ [Next]_vars => IInv'
  BY <1>1, StepInvariance
<1> QED
  BY <1>2, InitInvariance, PTL DEF Spec

-----------------------------------------------------------------------------
(* Frames are isolated from one another.                                   *)

\* The register an instruction writes is one it names, and can be written.
Destination(i) ==
    CASE i.op \in {"Copy", "StringAppend", "JoinList", "IsNone", "IsNoneOrEmptyString",
                   "TildeExpand"} -> i.destination
      [] i.op = "StringLength" -> i.length
      [] i.op = "ListAppend" -> i.list
      [] i.op = "ListAppendList" -> i.dest_list
      [] i.op = "GetEnv" -> i.target
      [] i.op = "SpawnCommand" -> i.status

LEMMA DestinationNamed ==
    ASSUME Ins.op \in {"Copy", "StringAppend", "JoinList", "IsNone", "IsNoneOrEmptyString",
                       "TildeExpand", "StringLength", "ListAppend", "ListAppendList", "GetEnv",
                       "SpawnCommand"}
    PROVE  Destination(Ins) \in Operands(Ins)
  BY DEF Destination, Operands

\* Writing a register of the topmost frame leaves what is below the frame.
LEMMA WriteIsolated ==
    ASSUME IInv, frames # << >>, NEW o, NEW v, Write(o, v), o.fp \in 1 .. Last(frames).size,
           NEW n \in 1 .. Base(frames, Len(frames))
    PROVE  n \in DOMAIN stack' /\ stack'[n] = stack[n]
<1>1. /\ Base(frames, Len(frames)) \in Nat
      /\ Last(frames).fp = Base(frames, Len(frames)) + Last(frames).size
      /\ Last(frames).fp = Len(stack)
      /\ Last(frames).size \in Nat
  BY TopFrame
<1>2. Slot(o) # n
  BY <1>1 DEF Slot
<1>3. DOMAIN stack = 1 .. Len(stack)
  BY DEF IInv, TypeOK, SeqOver
<1>4. n \in DOMAIN stack
  BY <1>1, <1>3
<1> QED
  BY <1>2, <1>4 DEF Write

LEMMA StepIsolated ==
    ASSUME IInv, Next, Running, OwnRegisters, frames # << >>,
           NEW n \in 1 .. Base(frames, Len(frames))
    PROVE  n \in DOMAIN stack' /\ stack'[n] = stack[n]
<1>1. n \in DOMAIN stack
  <2>1. DOMAIN stack = 1 .. Len(stack)
    BY DEF IInv, TypeOK, SeqOver
  <2> QED
    BY <2>1, TopFrame
<1>2. CASE UNCHANGED stack
  BY <1>1, <1>2
<1>3. ASSUME NEW v, Write(Destination(Ins), v), CanWrite(Destination(Ins)),
             Destination(Ins) \in Operands(Ins)
      PROVE  n \in DOMAIN stack' /\ stack'[n] = stack[n]
  <2>1. Destination(Ins).fp \in 1 .. Last(frames).size
    BY <1>3 DEF OwnRegisters, CanWrite
  <2> QED
    BY <1>3, <2>1, WriteIsolated
<1>4. CASE Copy
  <2>1. Ins.op = "Copy" /\ Succeeds(Ins)
    BY <1>4 DEF Copy, At
  <2>2. CanWrite(Destination(Ins)) /\ Destination(Ins) = Ins.destination
    BY <2>1 DEF Succeeds, Destination
  <2> QED
    BY <1>3, <1>4, <2>1, <2>2, DestinationNamed DEF Copy
<1>5. CASE StringAppend
  <2>1. Ins.op = "StringAppend" /\ Succeeds(Ins)
    BY <1>5 DEF StringAppend, At
  <2>2. CASE Text(Read(Ins.source)) = << >>
    BY <1>2, <1>5, <2>2 DEF StringAppend
  <2>3. CASE Text(Read(Ins.source)) # << >>
    <3>1. CanWrite(Destination(Ins)) /\ Destination(Ins) = Ins.destination
      BY <2>1, <2>3 DEF Succeeds, Destination
    <3> QED
      BY <1>3, <1>5, <2>1, <2>3, <3>1, DestinationNamed DEF StringAppend
  <2> QED
    BY <2>2, <2>3
<1>6. CASE StringLength
  <2>1. Ins.op = "StringLength" /\ Succeeds(Ins)
    BY <1>6 DEF StringLength, At
  <2>2. CanWrite(Destination(Ins)) /\ Destination(Ins) = Ins.length
    BY <2>1 DEF Succeeds, Destination
  <2> QED
    BY <1>3, <1>6, <2>1, <2>2, DestinationNamed DEF StringLength
<1>7. CASE JoinList
  <2>1. Ins.op = "JoinList" /\ Succeeds(Ins)
    BY <1>7 DEF JoinList, At
  <2>2. CanWrite(Destination(Ins)) /\ Destination(Ins) = Ins.destination
    BY <2>1 DEF Succeeds, Destination
  <2> QED
    BY <1>3, <1>7, <2>1, <2>2, DestinationNamed DEF JoinList
<1>8. CASE ListAppend
  <2>1. Ins.op = "ListAppend" /\ Succeeds(Ins)
    BY <1>8 DEF ListAppend, At
  <2>2. CanWrite(Destination(Ins)) /\ Destination(Ins) = Ins.list
    BY <2>1 DEF Succeeds, Destination
  <2> QED
    BY <1>3, <1>8, <2>1, <2>2, DestinationNamed DEF ListAppend
<1>9. CASE ListAppendList
  <2>1. Ins.op = "ListAppendList" /\ Succeeds(Ins)
    BY <1>9 DEF ListAppendList, At
  <2>2. CanWrite(Destination(Ins)) /\ Destination(Ins) = Ins.dest_list
    BY <2>1 DEF Succeeds, Destination
  <2> QED
    BY <1>3, <1>9, <2>1, <2>2, DestinationNamed DEF ListAppendList
<1>10. CASE IsNoneTest \/ IsNoneOrEmptyString
  <2>1. Ins.op \in {"IsNone", "IsNoneOrEmptyString"} /\ Succeeds(Ins)
    BY <1>10 DEF IsNoneTest, IsNoneOrEmptyString, Test, At
  <2>2. CanWrite(Destination(Ins)) /\ Destination(Ins) = Ins.destination
    BY <2>1 DEF Succeeds, Destination
  <2> QED
    BY <1>3, <1>10, <2>1, <2>2, DestinationNamed DEF IsNoneTest, IsNoneOrEmptyString, Test
<1>11. CASE TildeExpand
  <2>1. Ins.op = "TildeExpand" /\ Succeeds(Ins)
    BY <1>11 DEF TildeExpand, At
  <2>2. CanWrite(Destination(Ins)) /\ Destination(Ins) = Ins.destination
    BY <2>1 DEF Succeeds, Destination
  <2> QED
    BY <1>3, <1>11, <2>1, <2>2, DestinationNamed DEF TildeExpand
<1>12. CASE GetEnv
  <2>1. Ins.op = "GetEnv" /\ Succeeds(Ins)
    BY <1>12 DEF GetEnv, At
  <2>2. CanWrite(Destination(Ins)) /\ Destination(Ins) = Ins.target
    BY <2>1 DEF Succeeds, Destination
  <2> QED
    BY <1>3, <1>12, <2>1, <2>2, DestinationNamed DEF GetEnv
<1>13. CASE SpawnCommand
  <2>1. Ins.op = "SpawnCommand" /\ Succeeds(Ins)
    BY <1>13 DEF SpawnCommand, At
  <2>2. Destination(Ins) = Ins.status
    BY <2>1 DEF Destination
  <2>3. \/ UNCHANGED stack
        \/ CanWrite(Ins.status) /\ \E v : Write(Ins.status, v)
    <3>1. CASE Read(Ins.argv).list = << >>
      <4>1. CanWrite(Ins.status)
        BY <2>1, <3>1 DEF Succeeds
      <4> QED
        BY <1>13, <3>1, <4>1 DEF SpawnCommand
    <3>2. CASE Read(Ins.argv).list # << >>
      BY <1>13, <3>2 DEF SpawnCommand, EndsAs
    <3> QED
      BY <3>1, <3>2
  <2> QED
    BY <1>2, <1>3, <2>1, <2>2, <2>3, DestinationNamed
<1>14. CASE PushFrame
  <2> DEFINE room == [k \in 1 .. Ins.size |-> NoneV]
             S == {stack[k] : k \in DOMAIN stack} \cup {NoneV}
  <2>1. Ins.size \in Nat
    BY <1>14 DEF PushFrame, At, Running, Ins, IInv, TypeOK, ProgramOK
  <2>2. stack \in Seq(S) /\ room \in Seq(S) /\ stack' = stack \o room
    BY <1>14, <2>1 DEF PushFrame, IInv, TypeOK, SeqOver
  <2> HIDE DEF room, S
  <2>3. /\ Len(stack') = Len(stack) + Len(room) /\ stack' \in Seq(S)
        /\ \A k \in 1 .. Len(stack) : stack'[k] = stack[k]
    BY <2>2, ConcatProperties
  <2>4. /\ DOMAIN stack = 1 .. Len(stack) /\ DOMAIN stack' = 1 .. Len(stack')
        /\ Len(room) \in Nat /\ Len(stack) \in Nat
    BY <2>2, <2>3
  <2> QED
    BY <1>1, <2>3, <2>4
<1>15. CASE PopFrame
  <2>1. /\ IInv' /\ Len(stack') = Base(frames, Len(frames))
        /\ \A k \in 1 .. Len(stack') : stack'[k] = stack[k]
    BY <1>15, PopFrameStep
  <2>2. DOMAIN stack' = 1 .. Len(stack')
    BY <2>1 DEF IInv, TypeOK, SeqOver
  <2> QED
    BY <2>1, <2>2
<1>16. CASE \/ SetEnv \/ PushEnvironment \/ PopEnvironment \/ PushIo \/ PopIo \/ PushPipe
            \/ PopPipe \/ DupFd \/ OpenFile \/ Jump \/ JumpIfZero \/ JumpIfNonZero \/ Exit
            \/ ErrorExit \/ Wait \/ InvertLastWait \/ DefineFunction \/ Fault \/ Halted
  <2>1. UNCHANGED stack
    BY <1>16 DEF SetEnv, PushEnvironment, PopEnvironment, PushIo, PopIo, PushPipe, PopPipe,
                 DupFd, OpenFile, Jump, JumpIfZero, JumpIfNonZero, JumpIf, Exit, ErrorExit,
                 Wait, InvertLastWait, DefineFunction, Fault, Halted, Ends, EndsAs, vars
  <2> QED
    BY <1>2, <2>1
<1> QED
  BY <1>4, <1>5, <1>6, <1>7, <1>8, <1>9, <1>10, <1>11, <1>12, <1>13, <1>14, <1>15, <1>16
     DEF Next, Step

\* FramesIsolated: an instruction that names registers of its own frame leaves
\* the values of the frames below, in every program.
THEOREM NestedCommandsIsolated == Spec => FramesIsolated
<1> DEFINE Isolated ==
        Running /\ OwnRegisters =>
            \A n \in 1 .. (IF frames = << >> THEN 0 ELSE Base(frames, Len(frames))) :
                n \in DOMAIN stack' /\ stack'[n] = stack[n]
<1>1. IInv /\ Next => Isolated
  <2> SUFFICES ASSUME IInv, Next, Running, OwnRegisters,
                      NEW n \in 1 .. (IF frames = << >> THEN 0 ELSE Base(frames, Len(frames)))
               PROVE  n \in DOMAIN stack' /\ stack'[n] = stack[n]
    OBVIOUS
  <2>1. frames # << >>
    OBVIOUS
  <2> QED
    BY <2>1, StepIsolated
<1> HIDE DEF Isolated
<1>2. IInv /\ [Next]_vars => [Isolated]_vars
  BY <1>1
<1>3. [][Isolated]_vars => FramesIsolated
  BY DEF FramesIsolated, Isolated
<1> QED
  BY <1>2, <1>3, Invariance, PTL DEF Spec

=============================================================================
