------------------------------- MODULE Syscall -------------------------------
(***************************************************************************)
(* The processor, the system-call entry and exit of Syscall_Entry.asm, the *)
(* dispatcher of Syscall_Dispatch.c and the process manager behind it.     *)
(*                                                                         *)
(* There is one processor.  IA32_FMASK clears the interrupt flag on entry  *)
(* and no interrupt handler calls the scheduler, so a system call is one   *)
(* step; processes interleave at system calls only.  Registers are kept as *)
(* far as the properties need them: whose they are, and whether the return *)
(* address in rcx is still the entry point of the program.                 *)
(***************************************************************************)
EXTENDS ProcessManager

VARIABLES
    mode,            \* "boot", "user", "halted" (halt_forever) or "faulted"
    g_processes,
    g_current_pid,
    stacks,          \* process stacks kmalloc has handed out so far
    frames,          \* the saved register frames in memory
    regs,            \* the registers in user mode
    user_rsp         \* the stack rsp points into in user mode

CONSTANT
    HeapCalls        \* do the programs call SYSCALL_USER_KMALLOC and _KFREE?

ASSUME HeapCallsAssumption == HeapCalls \in BOOLEAN

vars == <<mode, g_processes, g_current_pid, stacks, frames, regs, user_rsp>>

InProgram == 0       \* a return address that is not an entry point
Context == [owner : StackIds \cup {NONE}, rcx : EntryPoints \cup {InProgram}]
Garbage == [owner |-> NONE, rcx |-> InProgram]

Init ==
    /\ mode = "boot"
    /\ g_processes = process_manager_init
    /\ g_current_pid = NONE
    /\ stacks = 0
    /\ frames = [a \in StackIds |-> Garbage]
    /\ regs = Garbage
    /\ user_rsp = NONE

\* The end of kernel_main: process_register_boot_process, entry_user_mode.
EnterUserMode(entry) ==
    /\ mode = "boot"
    /\ \E pid \in find_free_slot(g_processes) :
          /\ g_processes' =
                process_register_boot_process(g_processes, pid, entry)
          /\ g_current_pid' = pid
    /\ regs' = [owner |-> USER_STACK, rcx |-> entry]
    /\ user_rsp' = USER_STACK
    /\ mode' = "user"
    /\ UNCHANGED <<stacks, frames>>

\* syscall_entry up to the call: every process pushes at the same address.
PushRegisters ==
    [frames EXCEPT ![KERNEL_FRAME] = [owner |-> regs.owner, rcx |-> InProgram]]

\* Faulty form: the user stack pointer of the next process is not put in place.
ReturnTo_same_user_rsp(ps, fr, pid) ==
    /\ g_processes' = [ps EXCEPT ![pid].state = "RUNNING"]
    /\ g_current_pid' = pid
    /\ UNCHANGED user_rsp
    /\ regs' = fr[ps[pid].saved_rsp]
    /\ frames' = fr
    /\ mode' = "user"

\* syscall_entry after the call, for the frame of process pid in frames fr.
ReturnTo(ps, fr, pid) ==
    /\ g_processes' = [ps EXCEPT ![pid].state = "RUNNING"]
    /\ g_current_pid' = pid
    /\ user_rsp' = ps[pid].saved_user_rsp
    /\ regs' = fr[ps[pid].saved_rsp]
    /\ frames' = fr
    /\ mode' = "user"

process_schedule_on_syscall(ps, fr, request_switch) ==
    LET saved == save_current(ps, g_current_pid, KERNEL_FRAME, user_rsp)
        next == pick_next_ready(saved, g_current_pid)
    IN  IF ~request_switch /\ saved[g_current_pid].state # "DEAD"
          THEN ReturnTo(saved, fr, g_current_pid)
          ELSE \/ \E pid \in next : ReturnTo(saved, fr, pid)
               \/ /\ next = {}
                  /\ mode' = "halted"
                  /\ g_processes' = saved
                  /\ frames' = fr
                  /\ UNCHANGED <<g_current_pid, regs, user_rsp>>
-----------------------------------------------------------------------------
(* syscall_dispatch, one action per kind of call *)

\* Serial, drawing, file, memcpy, memcmp and unknown calls: whatever they do
\* elsewhere, for the scheduler they return to the caller.
ReturningCall ==
    /\ mode = "user"
    /\ process_schedule_on_syscall(g_processes, PushRegisters, FALSE)
    /\ UNCHANGED stacks

\* kmalloc(PROCESS_STACK_SIZE): NULL at any time, for the heap is shared.
\* Nobody frees a process stack.
kmalloc_stack == {NONE} \cup (IF stacks < MAX_STACKS THEN {stacks + 1} ELSE {})

\* process_create_user returned -1.
CreateFails(entry) ==
    /\ mode = "user"
    /\ \E stack \in kmalloc_stack :
          entry = 0 \/ find_free_slot(g_processes) = {} \/ stack = NONE
    /\ process_schedule_on_syscall(g_processes, PushRegisters, FALSE)
    /\ UNCHANGED stacks

\* Faulty form: the frame of the new process lacks its return address.
Create_no_rcx(entry, request_switch) ==
    /\ mode = "user"
    /\ entry # 0
    /\ \E pid \in find_free_slot(g_processes), stack \in kmalloc_stack \ {NONE} :
          /\ process_schedule_on_syscall(
                process_create_user(g_processes, pid, entry, stack),
                [PushRegisters EXCEPT ![stack] =
                    [owner |-> stack, rcx |-> InProgram]],
                request_switch)
          /\ stacks' = stack

\* Faulty form: the new stack is not taken out of the heap.
Create_same_stack(entry, request_switch) ==
    /\ mode = "user"
    /\ entry # 0
    /\ \E pid \in find_free_slot(g_processes), stack \in kmalloc_stack \ {NONE} :
          process_schedule_on_syscall(
                process_create_user(g_processes, pid, entry, stack),
                [PushRegisters EXCEPT ![stack] =
                    [owner |-> stack, rcx |-> entry]],
                request_switch)
    /\ UNCHANGED stacks

Create(entry, request_switch) ==
    /\ mode = "user"
    /\ entry # 0
    /\ \E pid \in find_free_slot(g_processes), stack \in kmalloc_stack \ {NONE} :
          /\ process_schedule_on_syscall(
                process_create_user(g_processes, pid, entry, stack),
                [PushRegisters EXCEPT ![stack] =
                    [owner |-> stack, rcx |-> entry]],
                request_switch)
          /\ stacks' = stack

process_create(entry) == Create(entry, FALSE)

thread_create(entry) == Create(entry, TRUE)

process_yield ==
    /\ mode = "user"
    /\ process_schedule_on_syscall(g_processes, PushRegisters, TRUE)
    /\ UNCHANGED stacks

process_exit ==
    /\ mode = "user"
    /\ process_schedule_on_syscall(
          process_exit_current(g_processes, g_current_pid), PushRegisters, TRUE)
    /\ UNCHANGED stacks

\* SYSCALL_USER_KMALLOC and SYSCALL_USER_KFREE return kmalloc's result or 0
\* where syscall_entry expects the address of a frame; what it pops from
\* there no process has saved.  g_processes is not looked at.
UserHeapCall ==
    /\ HeapCalls
    /\ mode = "user"
    /\ frames' = PushRegisters
    /\ regs' = Garbage
    /\ UNCHANGED <<mode, g_processes, g_current_pid, stacks, user_rsp>>

\* page_fault_handler halts with interrupts off, whoever caused the fault.
PageFault ==
    /\ mode = "user"
    /\ mode' = "faulted"
    /\ UNCHANGED <<g_processes, g_current_pid, stacks, frames, regs, user_rsp>>

Next ==
    \/ \E entry \in EntryPoints : EnterUserMode(entry)
    \/ \E entry \in EntryPoints \cup {0} :
          \/ process_create(entry)
          \/ thread_create(entry)
          \/ CreateFails(entry)
    \/ ReturningCall
    \/ process_yield
    \/ process_exit
    \/ UserHeapCall
    \/ PageFault

Spec == Init /\ [][Next]_vars

\* Programs give up the processor again and again, as the main loop of
\* Userland.c does (while(1) process_yield()).  Nothing else is fair.
FairSpec == Spec /\ WF_vars(process_yield)
-----------------------------------------------------------------------------
(* Properties *)

IsLive(p) == g_processes[p].state \in {"READY", "RUNNING"}
IsReady(p) == g_processes[p].state = "READY"

\* The stack that belongs to the process in slot p; the boot process, which
\* has no stack_base, runs on user_stack.
StackOf(p) == IF g_processes[p].stack_base = NONE
                THEN USER_STACK ELSE g_processes[p].stack_base

\* Every variable has its type.
TypeOK ==
    /\ mode \in {"boot", "user", "halted", "faulted"}
    /\ g_processes \in [Slots -> process_t]
    /\ g_current_pid \in Slots \cup {NONE}
    /\ stacks \in StackIds
    /\ frames \in [StackIds -> Context]
    /\ regs \in Context
    /\ user_rsp \in StackIds \cup {NONE}

\* While a program runs, exactly one table entry is RUNNING and it is the one
\* g_current_pid names, whatever was created, exited or reused before
\* (process_schedule_on_syscall, process_exit_current, find_free_slot).
OneRunning ==
    mode = "user" =>
        /\ g_current_pid \in Slots
        /\ \A p \in Slots : g_processes[p].state = "RUNNING" <=> p = g_current_pid

\* Two live processes never have the same stack, also when slots of dead
\* processes are reused (process_create_user).
NoSharedStack ==
    \A p, q \in Slots : IsLive(p) /\ IsLive(q) /\ p # q => StackOf(p) # StackOf(q)

\* A program always returns from a system call on its own stack, however many
\* other processes ran in between ([gs:0], saved_user_rsp).
ReturnsOnOwnStack ==
    /\ mode = "user" => user_rsp = StackOf(g_current_pid)
    /\ \A p \in Slots : IsReady(p) => g_processes[p].saved_user_rsp = StackOf(p)

\* A live process loses its slot or its stack only by its own exit: nothing that
\* the others create takes its place in the table (find_free_slot).
KeepsItsSlot ==
    [][\A p \in Slots : IsLive(p) =>
          \/ IsLive(p)' /\ StackOf(p)' = StackOf(p)
          \/ p = g_current_pid /\ g_processes'[p].state = "DEAD"]_vars

\* Until a process runs for the first time, the frame process_create_user
\* built for it stays as built, so that it starts at its entry point.
FirstFrameIntact ==
    \A p \in Slots :
        IsReady(p) /\ g_processes[p].saved_rsp # KERNEL_FRAME =>
            frames[g_processes[p].saved_rsp] =
                [owner |-> StackOf(p), rcx |-> g_processes[p].entry]

\* The scheduler halts the machine only when no process could go on
\* ("No runnable process. Halting.").
HaltsOnlyWhenIdle == mode = "halted" => \A p \in Slots : ~IsLive(p)

Sched == INSTANCE CooperativeScheduler WITH
            SlotCount <- PROCESS_MAX_COUNT,
            waiting <- {p \in Slots : IsReady(p)},
            running <- IF mode = "user" THEN g_current_pid ELSE NONE,
            stopped <- mode \in {"halted", "faulted"}

\* Whenever the processor changes hands, every process that goes on waiting
\* has come strictly closer to its turn; it is therefore passed over at most
\* PROCESS_MAX_COUNT - 2 times (pick_next_ready).
RoundRobinProgress ==
    [][\A p \in Slots :
          /\ mode = "user" /\ mode' = "user" /\ g_current_pid' # g_current_pid
          /\ IsReady(p) /\ IsReady(p)'
          => Sched!Distance(g_current_pid', p) < Sched!Distance(g_current_pid, p)]_vars

\* The kernel implements the abstract scheduler, its fairness included.
ImplementsScheduler == Sched!SchedSpec

\* A process that is ready runs eventually, unless the machine stops.
ReadyRuns ==
    \A p \in Slots :
        IsReady(p) ~> (g_processes[p].state = "RUNNING" \/ mode \in {"halted", "faulted"})

\* What syscall_entry pops on return is a frame that was saved at some time
\* ("Saved frame layout (rsp = index 0)", Syscall_Entry.asm:16).
ReturnsThroughSavedFrame == mode = "user" => regs.owner # NONE

\* The saved frame a process is resumed from holds the registers of that
\* process (the same comment: rax, rdx, ... of the caller).
ResumesOwnRegisters == mode = "user" => regs.owner = StackOf(g_current_pid)
=============================================================================
