------------------------------ MODULE MCSyscall ------------------------------
(* Syscall on a small table. *)
EXTENDS Syscall

MCEntryPoints == {1, 2}
=============================================================================
