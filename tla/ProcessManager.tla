--------------------------- MODULE ProcessManager ---------------------------
(***************************************************************************)
(* The process table of ProcessManager_Create.c: its entries and the       *)
(* functions that search and change it, as operators on a table ps.        *)
(*                                                                         *)
(* Addresses are kept only as far as they name a stack.  A process stack   *)
(* is a number in 1 .. MAX_STACKS, in the order kmalloc hands them out,    *)
(* and 0 is the boot process's user_stack.  A saved register frame is      *)
(* either the one at the top of a process stack, which has that stack's    *)
(* number, or KERNEL_FRAME, the place on the one system-call stack where   *)
(* syscall_entry pushes the registers.                                     *)
(***************************************************************************)
EXTENDS Integers

CONSTANTS
    PROCESS_MAX_COUNT,   \* slots of g_processes
    MAX_STACKS,          \* process stacks the heap has room for
    EntryPoints          \* entry addresses of user programs, none of them 0

ASSUME ProcessManagerAssumption ==
    /\ PROCESS_MAX_COUNT \in Nat \ {0}
    /\ MAX_STACKS \in Nat
    /\ EntryPoints \subseteq Nat \ {0}

NONE == -1               \* a NULL pointer, pid -1, or no register frame at all
USER_STACK == 0
KERNEL_FRAME == 0

Slots == 0 .. PROCESS_MAX_COUNT - 1
StackIds == 0 .. MAX_STACKS

process_t == [state : {"UNUSED", "READY", "RUNNING", "DEAD"},
              entry : EntryPoints \cup {0},
              saved_rsp : StackIds \cup {NONE},
              saved_user_rsp : StackIds \cup {NONE},
              stack_base : StackIds \cup {NONE}]

\* Faulty form: a slot whose process waits is taken for a free one.
IsFree_ready_too(proc) == proc.state \in {"UNUSED", "READY", "DEAD"}

IsFree(proc) == proc.state \in {"UNUSED", "DEAD"}

\* The set of the slot returned; empty for the return value -1.
find_free_slot(ps) ==
    {i \in Slots : IsFree(ps[i]) /\ \A j \in 0 .. i - 1 : ~IsFree(ps[j])}

\* Faulty form: the search starts at slot 0, not behind the current process.
pick_next_ready_lowest(ps, current_pid) ==
    {idx \in Slots : /\ ps[idx].state = "READY"
                     /\ \A j \in 0 .. idx - 1 : ps[j].state # "READY"}

\* Faulty form: the search starts at the current process itself.
pick_next_ready_self_first(ps, current_pid) ==
    {idx \in Slots : \E step \in 0 .. PROCESS_MAX_COUNT - 1 :
        /\ idx = (current_pid + step) % PROCESS_MAX_COUNT
        /\ ps[idx].state = "READY"
        /\ \A s \in 0 .. step - 1 :
              ps[(current_pid + s) % PROCESS_MAX_COUNT].state # "READY"}

\* Faulty form: one step too few, the current process itself is never tried.
pick_next_ready_not_self(ps, current_pid) ==
    {idx \in Slots : \E step \in 1 .. PROCESS_MAX_COUNT - 1 :
        /\ idx = (current_pid + step) % PROCESS_MAX_COUNT
        /\ ps[idx].state = "READY"
        /\ \A s \in 1 .. step - 1 :
              ps[(current_pid + s) % PROCESS_MAX_COUNT].state # "READY"}

\* The set of the slot returned; empty for -1.  The branch for a negative
\* current_pid is left out: the only caller returns before it.
pick_next_ready(ps, current_pid) ==
    LET idx(step) == (current_pid + step) % PROCESS_MAX_COUNT
        found == {i \in Slots : \E step \in 1 .. PROCESS_MAX_COUNT :
                     /\ i = idx(step)
                     /\ ps[i].state = "READY"
                     /\ \A s \in 1 .. step - 1 : ps[idx(s)].state # "READY"}
    IN  IF found = {} /\ ps[current_pid].state \in {"RUNNING", "READY"}
          THEN {current_pid}
          ELSE found

process_manager_init ==
    [i \in Slots |-> [state |-> "UNUSED", entry |-> 0, saved_rsp |-> NONE,
                      saved_user_rsp |-> NONE, stack_base |-> NONE]]

\* saved_rsp is user_stack_top, where no frame has been saved.
process_register_boot_process(ps, pid, entry) ==
    [ps EXCEPT ![pid] = [state |-> "RUNNING", entry |-> entry,
                         saved_rsp |-> NONE, saved_user_rsp |-> USER_STACK,
                         stack_base |-> NONE]]

\* The table after slot pid got the new stack.
process_create_user(ps, pid, entry, stack) ==
    [ps EXCEPT ![pid] = [state |-> "READY", entry |-> entry,
                         saved_rsp |-> stack, saved_user_rsp |-> stack,
                         stack_base |-> stack]]

process_exit_current(ps, current_pid) ==
    [ps EXCEPT ![current_pid].state = "DEAD"]

\* The first half of process_schedule_on_syscall: a process that has not
\* exited is suspended.
save_current(ps, current_pid, saved_rsp, user_rsp) ==
    IF ps[current_pid].state \in {"RUNNING", "READY"}
      THEN [ps EXCEPT ![current_pid] =
               [state |-> "READY", entry |-> @.entry, saved_rsp |-> saved_rsp,
                saved_user_rsp |-> user_rsp, stack_base |-> @.stack_base]]
      ELSE ps
=============================================================================
