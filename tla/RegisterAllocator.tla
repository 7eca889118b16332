------------------------- MODULE RegisterAllocator --------------------------
(***************************************************************************)
(* One frame of the compiler: its register allocator and the temporaries   *)
(* that hold registers of the frame (src/shell_compiler/src/lib.rs: slots, *)
(* lists, strings, argv, status).  Temporaries come and go in any order,   *)
(* which is more than the compiler's nested use of them.                   *)
(***************************************************************************)
EXTENDS Registers, FiniteSets

CONSTANTS Temp,     \* temporaries that may be live at the same time
          NoReg     \* a temporary that holds no register

ASSUME NoRegAssumption == NoReg \notin Nat

VARIABLES alloc,    \* FrameCompiler.allocator
          held      \* the register each temporary holds

vars == <<alloc, held>>

Live == {t \in Temp : held[t] # NoReg}

TypeOK ==
    /\ alloc \in [num_allocated : Nat, free_list : Seq(Nat)]
    /\ held \in [Temp -> Nat \cup {NoReg}]

Init ==
    /\ alloc = New
    /\ held = [t \in Temp |-> NoReg]

Allocate(t) ==
    /\ held[t] = NoReg
    /\ held' = [held EXCEPT ![t] = allocated(alloc)]
    /\ alloc' = allocate(alloc)

Free(t) ==
    /\ held[t] # NoReg
    /\ held' = [held EXCEPT ![t] = NoReg]
    /\ alloc' = free(alloc, held[t])

Next == \E t \in Temp : Allocate(t) \/ Free(t)

Spec == Init /\ [][Next]_vars

-----------------------------------------------------------------------------
FreeRegs == {alloc.free_list[i] : i \in DOMAIN alloc.free_list}

\* Two temporaries that are live together never share a register: an
\* expansion nested in another one cannot overwrite its word, its test or the
\* argument list under construction.
NoAlias == \A t, u \in Live : held[t] = held[u] => t = u

\* Every live register addresses a slot of the frame PushFrame will reserve:
\* FrameRelative(held[t]) is neither the frame pointer itself nor below it.
InFrame == \A t \in Live : held[t] \in 1 .. frame_size(alloc)

\* No register is lost: the frame holds no slot that is neither live nor free,
\* so it is as large as the most temporaries that were ever live together.
NoLeak == \A r \in 1 .. frame_size(alloc) :
              r \in FreeRegs \/ \E t \in Live : held[t] = r

-----------------------------------------------------------------------------
\* The inductive invariant of the proofs: the free list is disjoint from the
\* live registers and free of duplicates, and lies within the frame.
Disjoint ==
    /\ FreeRegs \subseteq 1 .. frame_size(alloc)
    /\ \A i, j \in DOMAIN alloc.free_list :
           alloc.free_list[i] = alloc.free_list[j] => i = j
    /\ \A t \in Live : held[t] \notin FreeRegs

IInv == TypeOK /\ NoAlias /\ InFrame /\ Disjoint /\ NoLeak

-----------------------------------------------------------------------------
(* The allocator implements the frame that its users think of.             *)

Frame == INSTANCE Slots WITH size <- frame_size(alloc)

\* Whatever is freed and allocated in between, a temporary gets a slot that no
\* other one holds, inside the frame that PushFrame will reserve, and the frame
\* grows only when it has no slot left: a free list cannot lend a register twice,
\* and cannot lose one.
AllocatesSlots == Frame!Spec
=============================================================================
