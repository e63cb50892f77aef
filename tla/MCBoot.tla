------------------------------- MODULE MCBoot -------------------------------
(***************************************************************************)
(* KernelStart on thirteen pages: the kernel's two segments, a heap of     *)
(* five pages behind it with the user program's addresses inside, the      *)
(* firmware's stack, reserved pages, and a page the bitmap has no room for.*)
(***************************************************************************)
EXTENDS KernelStart

MCKernelSegments == <<{1}, {2}>>
MCUserSegments == <<{5}, {4}, {7}>>
MCReserved == {0, 9}
MCMemoryMaps ==
    {{[start_page |-> p, page_count |-> 1, usable |-> p \notin MCReserved] : p \in RamPages}}
=============================================================================
