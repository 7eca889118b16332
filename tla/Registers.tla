----------------------------- MODULE Registers ------------------------------
(* The register allocator of src/shell_compiler/src/registeralloc.rs as    *)
(* operators on its value: the number of registers in the frame so far and *)
(* the free list, a stack.                                                  *)
EXTENDS Naturals, Sequences

New == [num_allocated |-> 0, free_list |-> << >>]

frame_size(a) == a.num_allocated

\* The register allocate() returns: the one freed last, else a new one.
\* Registers are offsets below the top of the frame, so they start at 1.
allocated(a) ==
    IF a.free_list # << >> THEN a.free_list[Len(a.free_list)] ELSE a.num_allocated + 1

\* Mutant of allocate: the free list is read but not popped.
allocateKeepsFree(a) ==
    IF a.free_list # << >> THEN a ELSE [a EXCEPT !.num_allocated = @ + 1]

\* The allocator after allocate().
allocate(a) ==
    IF a.free_list # << >>
      THEN [a EXCEPT !.free_list = SubSeq(@, 1, Len(@) - 1)]
      ELSE [a EXCEPT !.num_allocated = @ + 1]

\* Mutant of free: the register is dropped instead of being listed.
freeForgets(a, reg) == a

free(a, reg) == [a EXCEPT !.free_list = Append(@, reg)]
=============================================================================
