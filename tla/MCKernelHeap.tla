---------------------------- MODULE MCKernelHeap ----------------------------
(* KernelHeap on a heap of a few bytes; all constants are in the .cfg files. *)
EXTENDS KernelHeap
=============================================================================
