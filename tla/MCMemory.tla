------------------------------ MODULE MCMemory ------------------------------
(* Two slots and heaps of two pages.  Three programs: one segment that      *)
(* starts and ends within a page; two segments; two of which the second is  *)
(* cut off, the first lying where the first program's does.                 *)
EXTENDS Memory

Segment(vaddr, memsz, filesz) == [vaddr |-> vaddr, memsz |-> memsz, filesz |-> filesz, cut |-> FALSE]

MCPrograms ==
    {<<Segment(1, 4, 2)>>,
     <<Segment(6, 2, 2), Segment(9, 2, 1)>>,
     <<Segment(0, 1, 1), [Segment(12, 2, 2) EXCEPT !.cut = TRUE]>>}
=============================================================================
