-------------------------------- MODULE Slots --------------------------------
(***************************************************************************)
(* What a frame promises its temporaries: each holds a slot of its own, and *)
(* the frame grows only when all of its slots are held.  It is thus never   *)
(* larger than the most temporaries that were held together.                *)
(***************************************************************************)
EXTENDS Naturals

CONSTANTS Temp, NoReg

VARIABLES held, size

InUse == {held[t] : t \in Temp} \ {NoReg}

Init == size = 0 /\ held = [t \in Temp |-> NoReg]

Take(t) ==
    /\ held[t] = NoReg
    /\ size' = IF 1 .. size \subseteq InUse THEN size + 1 ELSE size
    /\ \E r \in 1 .. size' \ InUse : held' = [held EXCEPT ![t] = r]

Give(t) ==
    /\ held[t] # NoReg
    /\ held' = [held EXCEPT ![t] = NoReg]
    /\ size' = size

Next == \E t \in Temp : Take(t) \/ Give(t)

Spec == Init /\ [][Next]_<<held, size>>
=============================================================================
