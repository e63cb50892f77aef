---------------------------- MODULE SyscallProofs ----------------------------
(***************************************************************************)
(* Proofs about Syscall, for every table size, number of stacks and set of *)
(* entry points.  The inductive invariant is IInv; TableInv states the     *)
(* part of it that concerns a process table and the frames, for the tables *)
(* that exist only in the middle of a system call as well.                 *)
(***************************************************************************)
EXTENDS Syscall, TLAPS, WellFoundedInduction

LiveIn(ps, p) == ps[p].state \in {"READY", "RUNNING"}

StackIn(ps, p) == IF ps[p].stack_base = NONE
                    THEN USER_STACK ELSE ps[p].stack_base

TableInv(ps, fr, n) ==
    /\ ps \in [Slots -> process_t]
    /\ fr \in [StackIds -> Context]
    /\ n \in StackIds
    /\ \A p \in Slots : LiveIn(ps, p) => ps[p].stack_base \in {NONE} \cup 1 .. n
    /\ \A p, q \in Slots :
          LiveIn(ps, p) /\ LiveIn(ps, q) /\ p # q => StackIn(ps, p) # StackIn(ps, q)
    /\ \A p \in Slots : ps[p].state = "READY" =>
          /\ ps[p].saved_user_rsp = StackIn(ps, p)
          /\ ps[p].saved_rsp \in StackIds
          /\ ps[p].saved_rsp # KERNEL_FRAME =>
                /\ ps[p].saved_rsp = ps[p].stack_base
                /\ fr[ps[p].saved_rsp] =
                      [owner |-> StackIn(ps, p), rcx |-> ps[p].entry]

\* The inductive invariant.
IInv ==
    /\ TypeOK
    /\ TableInv(g_processes, frames, stacks)
    /\ mode = "boot" => \A p \in Slots : g_processes[p].state = "UNUSED"
    /\ OneRunning
    /\ mode = "user" => user_rsp = StackOf(g_current_pid)
    /\ HaltsOnlyWhenIdle

NobodyRuns(ps) == \A p \in Slots : ps[p].state # "RUNNING"

\* Only process pid runs, if any.
OnlyRuns(ps, pid) == \A p \in Slots : ps[p].state = "RUNNING" => p = pid
-----------------------------------------------------------------------------
(* Arithmetic *)

\* Going round the table, as pick_next_ready does.
LEMMA RoundTheTable ==
    \A a \in Slots, s \in 1 .. PROCESS_MAX_COUNT :
        /\ (a + s) % PROCESS_MAX_COUNT \in Slots
        /\ (a + s) % PROCESS_MAX_COUNT =
              IF a + s < PROCESS_MAX_COUNT THEN a + s ELSE a + s - PROCESS_MAX_COUNT
BY ProcessManagerAssumption DEF Slots

\* Slot p is reached from slot a in Distance(a, p) steps.
LEMMA DistanceReaches ==
    ASSUME NEW a \in Slots, NEW p \in Slots
    PROVE  /\ Sched!Distance(a, p) \in 1 .. PROCESS_MAX_COUNT
           /\ (a + Sched!Distance(a, p)) % PROCESS_MAX_COUNT = p
<1> DEFINE d == Sched!Distance(a, p)
<1>1. d \in 1 .. PROCESS_MAX_COUNT
  BY ProcessManagerAssumption DEF Slots, Sched!Distance
<1>2. p = IF a + d < PROCESS_MAX_COUNT THEN a + d ELSE a + d - PROCESS_MAX_COUNT
  BY ProcessManagerAssumption DEF Slots, Sched!Distance
<1> HIDE DEF d
<1>3. (a + d) % PROCESS_MAX_COUNT = p
  BY <1>1, <1>2, RoundTheTable, Zenon
<1> QED
  BY <1>1, <1>3, Zenon DEF d

\* A minimal element of a set of numbers is its least one.
LEMMA NotBelowLeast ==
    ASSUME NEW T, T \subseteq Nat, NEW R,
           \A x, y \in Nat : <<x, y>> \in R <=> x < y,
           NEW x \in T, \A y \in T : ~(<<y, x>> \in R)
    PROVE  \A y \in T : x <= y
<1> TAKE y \in T
<1>1. x \in Nat /\ y \in Nat
  BY Zenon
<1>2. ~(y < x)
  BY <1>1, Zenon
<1> QED
  BY <1>1, <1>2

\* A non-empty set of natural numbers has a least element.
LEMMA LeastNatural ==
    ASSUME NEW T, T \subseteq Nat, T # {}
    PROVE  \E x \in T : \A y \in T : x <= y
<1>1. IsWellFoundedOn(OpToRel(<, Nat), Nat)
  BY NatLessThanWellFounded, Zenon
<1>2. \A x, y \in Nat : <<x, y>> \in OpToRel(<, Nat) <=> x < y
  BY Zenon DEF OpToRel
<1>3. PICK x \in T : \A y \in T : ~(<<y, x>> \in OpToRel(<, Nat))
  BY <1>1, WFMin, Zenon
<1>4. \A y \in T : x <= y
  BY <1>2, <1>3, NotBelowLeast, Zenon
<1> QED
  BY <1>4, Zenon
-----------------------------------------------------------------------------
(* pick_next_ready *)

\* What it returns is READY, given that nobody is RUNNING.
LEMMA PickedIsReady ==
    ASSUME NEW ps \in [Slots -> process_t], NEW cur \in Slots, NobodyRuns(ps),
           NEW q \in pick_next_ready(ps, cur)
    PROVE  q \in Slots /\ ps[q].state = "READY"
BY Zenon DEF pick_next_ready, NobodyRuns

\* The slots the search of pick_next_ready may stop at.
Found(ps, cur) ==
    {i \in Slots : \E step \in 1 .. PROCESS_MAX_COUNT :
        /\ i = (cur + step) % PROCESS_MAX_COUNT
        /\ ps[i].state = "READY"
        /\ \A s \in 1 .. step - 1 : ps[(cur + s) % PROCESS_MAX_COUNT].state # "READY"}

\* It finds a process whenever one is READY, the current one included.
LEMMA SomebodyFound ==
    ASSUME NEW ps \in [Slots -> process_t], NEW cur \in Slots,
           NEW p \in Slots, ps[p].state = "READY"
    PROVE  Found(ps, cur) # {}
<1> DEFINE Idx(step) == (cur + step) % PROCESS_MAX_COUNT
           Hits == {s \in 1 .. PROCESS_MAX_COUNT : ps[Idx(s)].state = "READY"}
<1>1. PICK d \in 1 .. PROCESS_MAX_COUNT : Idx(d) = p
  BY DistanceReaches, Zenon
<1>2. Hits \subseteq Nat /\ Hits # {}
  BY <1>1, ProcessManagerAssumption
<1>3. PICK m \in Hits : \A s \in Hits : m <= s
  BY <1>2, LeastNatural, Zenon
<1>4. \A s \in 1 .. m - 1 : ps[Idx(s)].state # "READY"
  <2> TAKE s \in 1 .. m - 1
  <2>1. s \in 1 .. PROCESS_MAX_COUNT /\ ~(m <= s)
    BY ProcessManagerAssumption
  <2> QED
    BY <2>1, <1>3, Zenon
<1>5. Idx(m) \in Slots /\ m \in 1 .. PROCESS_MAX_COUNT /\ ps[Idx(m)].state = "READY"
  BY RoundTheTable, Zenon
<1>6. Idx(m) \in Found(ps, cur)
  BY <1>4, <1>5, Zenon DEF Found
<1> QED
  BY <1>6, Zenon

\* It returns -1 only when no process is READY.
LEMMA PickedNone ==
    ASSUME NEW ps \in [Slots -> process_t], NEW cur \in Slots,
           pick_next_ready(ps, cur) = {},
           NEW p \in Slots
    PROVE  ps[p].state # "READY"
<1>1. Found(ps, cur) = {}
  BY Zenon DEF pick_next_ready, Found
<1> QED
  BY <1>1, SomebodyFound, Zenon

\* What it returns is, of all READY processes, the nearest after the current one.
LEMMA PickedIsTheNearest ==
    ASSUME NEW ps \in [Slots -> process_t], NEW cur \in Slots, NobodyRuns(ps),
           NEW q \in pick_next_ready(ps, cur),
           NEW p \in Slots, ps[p].state = "READY"
    PROVE  Sched!Distance(cur, q) <= Sched!Distance(cur, p)
<1> DEFINE d == Sched!Distance(cur, p)
           e == Sched!Distance(cur, q)
<1>1. q \in Found(ps, cur)
  BY SomebodyFound, Zenon DEF pick_next_ready, Found
<1>2. PICK step \in 1 .. PROCESS_MAX_COUNT :
         /\ q = (cur + step) % PROCESS_MAX_COUNT
         /\ \A s \in 1 .. step - 1 :
               ps[(cur + s) % PROCESS_MAX_COUNT].state # "READY"
  BY <1>1, Zenon DEF Found
<1>3. d \in 1 .. PROCESS_MAX_COUNT /\ (cur + d) % PROCESS_MAX_COUNT = p
  BY DistanceReaches, Zenon
<1>4. ~(d \in 1 .. step - 1)
  BY <1>2, <1>3, Zenon
<1>5. step <= d
  BY <1>3, <1>4, ProcessManagerAssumption
<1>6. q = IF cur + step < PROCESS_MAX_COUNT
            THEN cur + step ELSE cur + step - PROCESS_MAX_COUNT
  BY <1>2, RoundTheTable, Zenon
<1>7. e = IF q > cur THEN q - cur ELSE q - cur + PROCESS_MAX_COUNT
  BY Zenon DEF Sched!Distance
<1> HIDE DEF d, e
<1>8. e = step
  BY <1>6, <1>7, ProcessManagerAssumption DEF Slots
<1>9. e <= d
  BY <1>5, <1>8, Zenon
<1> QED
  BY <1>9, Zenon DEF d, e

\* Every READY process that is not chosen comes closer to its turn.
LEMMA PickedIsNearest ==
    ASSUME NEW ps \in [Slots -> process_t], NEW cur \in Slots, NobodyRuns(ps),
           NEW q \in pick_next_ready(ps, cur), q # cur,
           NEW p \in Slots, ps[p].state = "READY", p # q, p # cur
    PROVE  Sched!Distance(q, p) < Sched!Distance(cur, p)
<1> DEFINE d == Sched!Distance(cur, p)
<1>1. PICK step \in 1 .. PROCESS_MAX_COUNT :
         /\ q = (cur + step) % PROCESS_MAX_COUNT
         /\ \A s \in 1 .. step - 1 :
               ps[(cur + s) % PROCESS_MAX_COUNT].state # "READY"
  BY Zenon DEF pick_next_ready
<1>2. d \in 1 .. PROCESS_MAX_COUNT /\ (cur + d) % PROCESS_MAX_COUNT = p
  BY DistanceReaches, Zenon
<1>3. ~(d \in 1 .. step - 1) /\ d # step
  BY <1>1, <1>2, Zenon
<1>4. step < d
  BY <1>2, <1>3, ProcessManagerAssumption
<1>5. q = IF cur + step < PROCESS_MAX_COUNT
            THEN cur + step ELSE cur + step - PROCESS_MAX_COUNT
  BY <1>1, RoundTheTable, Zenon
<1>6. d = IF p > cur THEN p - cur ELSE p - cur + PROCESS_MAX_COUNT
  BY Zenon DEF Sched!Distance
<1>7. Sched!Distance(q, p) = IF p > q THEN p - q ELSE p - q + PROCESS_MAX_COUNT
  BY Zenon DEF Sched!Distance
<1> HIDE DEF d
<1>8. Sched!Distance(q, p) < d
  BY <1>1, <1>4, <1>5, <1>6, <1>7, ProcessManagerAssumption DEF Slots
<1> QED
  BY <1>8, Zenon DEF d
-----------------------------------------------------------------------------
(* TableInv is kept by everything a system call does to table and frames *)

\* syscall_entry writes only the frame of the system-call stack.
LEMMA PushKeepsTable ==
    ASSUME IInv
    PROVE  TableInv(g_processes, PushRegisters, stacks)
<1>1. PushRegisters \in [StackIds -> Context]
  BY ProcessManagerAssumption
 , Zenon DEF IInv, TypeOK, PushRegisters, Context, StackIds, KERNEL_FRAME, InProgram
<1>2. \A a \in StackIds : a # KERNEL_FRAME => PushRegisters[a] = frames[a]
  BY Zenon DEF IInv, TypeOK, PushRegisters
<1> QED
  BY <1>1, <1>2, Zenon DEF IInv, TableInv

\* process_exit_current keeps the table's part of the invariant.
LEMMA ExitKeepsTable ==
    ASSUME NEW ps, NEW fr, NEW n, TableInv(ps, fr, n), NEW cur \in Slots
    PROVE  TableInv(process_exit_current(ps, cur), fr, n)
<1> DEFINE new == process_exit_current(ps, cur)
<1>1. new \in [Slots -> process_t] /\ new[cur].state = "DEAD"
  BY DEF TableInv, process_exit_current, process_t
<1>2. \A p \in Slots : p # cur => new[p] = ps[p]
  BY Zenon DEF TableInv, process_exit_current
<1> HIDE DEF new
<1>3. TableInv(new, fr, n)
  BY <1>1, <1>2 DEF TableInv, LiveIn, StackIn
<1> QED
  BY <1>3, Zenon DEF new

\* So does process_create_user with a new stack in a free slot.
LEMMA CreateKeepsTable ==
    ASSUME NEW ps, NEW fr, NEW n, TableInv(ps, fr, n),
           NEW pid \in Slots, IsFree(ps[pid]),
           NEW entry \in EntryPoints,
           n < MAX_STACKS
    PROVE  TableInv(process_create_user(ps, pid, entry, n + 1),
                    [fr EXCEPT ![n + 1] = [owner |-> n + 1, rcx |-> entry]],
                    n + 1)
<1> DEFINE new == process_create_user(ps, pid, entry, n + 1)
           nfr == [fr EXCEPT ![n + 1] = [owner |-> n + 1, rcx |-> entry]]
<1>1. n + 1 \in StackIds /\ n + 1 # KERNEL_FRAME /\ n + 1 # NONE
      /\ n \in Nat /\ NONE = -1 /\ USER_STACK = 0
  BY ProcessManagerAssumption
  DEF TableInv, StackIds, KERNEL_FRAME, NONE, USER_STACK
<1>2. /\ new \in [Slots -> process_t]
      /\ new[pid] = [state |-> "READY", entry |-> entry, saved_rsp |-> n + 1,
                     saved_user_rsp |-> n + 1, stack_base |-> n + 1]
      /\ \A p \in Slots : p # pid => new[p] = ps[p]
  BY <1>1, Zenon DEF TableInv, process_create_user, process_t
<1>3. /\ nfr \in [StackIds -> Context]
      /\ nfr[n + 1] = [owner |-> n + 1, rcx |-> entry]
      /\ \A a \in StackIds : a # n + 1 => nfr[a] = fr[a]
  BY <1>1, Zenon DEF TableInv, Context
<1>4. \A p \in Slots : p # pid /\ LiveIn(ps, p) =>
         /\ ps[p].stack_base \in {NONE} \cup 1 .. n
         /\ ps[p].stack_base # n + 1
         /\ StackIn(ps, p) # n + 1
  BY <1>1 DEF TableInv, StackIn
<1> HIDE DEF new, nfr
<1>5. \A p \in Slots : p # pid => /\ LiveIn(new, p) = LiveIn(ps, p)
                                  /\ StackIn(new, p) = StackIn(ps, p)
  BY <1>2, Zenon DEF LiveIn, StackIn
<1>6. StackIn(new, pid) = n + 1
  BY <1>1, <1>2 DEF StackIn
<1>7. \A p \in Slots : LiveIn(new, p) => new[p].stack_base \in {NONE} \cup 1 .. n + 1
  BY <1>1, <1>2, <1>4, <1>5
<1>8. \A p, q \in Slots : LiveIn(new, p) /\ LiveIn(new, q) /\ p # q
         => StackIn(new, p) # StackIn(new, q)
  BY <1>4, <1>5, <1>6 DEF TableInv
<1>9. ASSUME NEW p \in Slots, new[p].state = "READY"
      PROVE  /\ new[p].saved_user_rsp = StackIn(new, p)
             /\ new[p].saved_rsp \in StackIds
             /\ new[p].saved_rsp # KERNEL_FRAME =>
                   /\ new[p].saved_rsp = new[p].stack_base
                   /\ nfr[new[p].saved_rsp] =
                         [owner |-> StackIn(new, p), rcx |-> new[p].entry]
  <2>1. CASE p = pid
    BY <1>1, <1>2, <1>3, <1>6, <2>1
  <2>2. CASE p # pid
    BY <1>1, <1>2, <1>3, <1>4, <1>5, <1>9, <2>2 DEF TableInv, LiveIn
  <2> QED
    BY <2>1, <2>2, Zenon
<1>10. TableInv(new, nfr, n + 1)
  BY <1>1, <1>2, <1>3, <1>7, <1>8, <1>9, Zenon DEF TableInv
<1> QED
  BY <1>10, Zenon DEF new, nfr

\* Suspending the current process, which runs on its own stack unless it has
\* just exited.
LEMMA SaveKeepsTable ==
    ASSUME NEW ps, NEW fr, NEW n, TableInv(ps, fr, n),
           NEW cur \in Slots, NEW rsp \in StackIds,
           LiveIn(ps, cur) => rsp = StackIn(ps, cur),
           OnlyRuns(ps, cur)
    PROVE  LET saved == save_current(ps, cur, KERNEL_FRAME, rsp)
           IN  /\ TableInv(saved, fr, n)
               /\ NobodyRuns(saved)
               /\ \A p \in Slots : p # cur => saved[p] = ps[p]
               /\ saved[cur].state = IF LiveIn(ps, cur) THEN "READY" ELSE ps[cur].state
<1> DEFINE saved == save_current(ps, cur, KERNEL_FRAME, rsp)
<1>1. CASE ~LiveIn(ps, cur)
  BY <1>1, Zenon DEF save_current, LiveIn, NobodyRuns, OnlyRuns
<1>2. CASE LiveIn(ps, cur)
  <2>1. KERNEL_FRAME \in StackIds
    BY ProcessManagerAssumption DEF KERNEL_FRAME, StackIds
  <2> DEFINE new == [state |-> "READY", entry |-> ps[cur].entry,
                    saved_rsp |-> KERNEL_FRAME, saved_user_rsp |-> rsp,
                    stack_base |-> ps[cur].stack_base]
  <2>2. /\ new \in process_t
        /\ new.state = "READY" /\ new.saved_rsp = KERNEL_FRAME
        /\ new.saved_user_rsp = rsp /\ new.stack_base = ps[cur].stack_base
    BY <2>1, Zenon DEF TableInv, process_t
  <2>3. saved = [ps EXCEPT ![cur] = new]
    BY <1>2, Zenon DEF save_current, LiveIn
  <2> HIDE DEF new, saved
  <2>4. /\ saved \in [Slots -> process_t]
        /\ \A p \in Slots : p # cur => saved[p] = ps[p]
        /\ saved[cur] = new
    BY <2>2, <2>3, Zenon DEF TableInv
  <2>5. \A p \in Slots : /\ LiveIn(saved, p) = LiveIn(ps, p)
                          /\ StackIn(saved, p) = StackIn(ps, p)
    BY <1>2, <2>2, <2>4 DEF LiveIn, StackIn
  <2>6. TableInv(saved, fr, n)
    <3>1. \A p \in Slots :
             LiveIn(saved, p) => saved[p].stack_base \in {NONE} \cup 1 .. n
      BY <2>2, <2>4, <2>5, Zenon DEF TableInv
    <3>2. \A p, q \in Slots : LiveIn(saved, p) /\ LiveIn(saved, q) /\ p # q
             => StackIn(saved, p) # StackIn(saved, q)
      BY <2>5, Zenon DEF TableInv
    <3>3. ASSUME NEW p \in Slots, saved[p].state = "READY"
          PROVE  /\ saved[p].saved_user_rsp = StackIn(saved, p)
                 /\ saved[p].saved_rsp \in StackIds
                 /\ saved[p].saved_rsp # KERNEL_FRAME =>
                       /\ saved[p].saved_rsp = saved[p].stack_base
                       /\ fr[saved[p].saved_rsp] =
                             [owner |-> StackIn(saved, p), rcx |-> saved[p].entry]
      <4>1. CASE p = cur
        <5>1. rsp = StackIn(saved, cur)
          BY <1>2, <2>5, Zenon
        <5> QED
          BY <2>1, <2>2, <2>4, <4>1, <5>1, Zenon
      <4>2. CASE p # cur
        <5>1. saved[p] = ps[p] /\ StackIn(saved, p) = StackIn(ps, p)
          BY <2>4, <2>5, <4>2, Zenon
        <5> QED
          BY <3>3, <5>1, Zenon DEF TableInv
      <4> QED
        BY <4>1, <4>2, Zenon
    <3> QED
      BY <2>4, <3>1, <3>2, <3>3, Zenon DEF TableInv
  <2>7. NobodyRuns(saved)
    BY <2>2, <2>4, Zenon DEF NobodyRuns, OnlyRuns
  <2> QED
    BY <1>2, <2>2, <2>4, <2>6, <2>7, Zenon DEF saved
<1> QED
  BY <1>1, <1>2, Zenon
-----------------------------------------------------------------------------
(* The scheduler *)

\* Resuming a READY process of a table in which nobody runs.
LEMMA ReturnKeepsInvariant ==
    ASSUME NEW ps, NEW fr, TableInv(ps, fr, stacks'), NobodyRuns(ps),
           NEW pid \in Slots, ps[pid].state = "READY",
           ReturnTo(ps, fr, pid)
    PROVE  IInv'
<1>1. /\ mode' = "user" /\ g_current_pid' = pid /\ frames' = fr
      /\ user_rsp' = ps[pid].saved_user_rsp /\ regs' = fr[ps[pid].saved_rsp]
      /\ g_processes' = [ps EXCEPT ![pid].state = "RUNNING"]
  BY Zenon DEF ReturnTo
<1>2. /\ g_processes' \in [Slots -> process_t]
      /\ \A p \in Slots : p # pid => g_processes'[p] = ps[p]
      /\ g_processes'[pid].state = "RUNNING"
      /\ g_processes'[pid].stack_base = ps[pid].stack_base
  BY <1>1 DEF TableInv, process_t
<1>3. /\ user_rsp' = StackIn(ps, pid) /\ user_rsp' \in StackIds \cup {NONE}
      /\ regs' \in Context
  BY <1>1, Zenon DEF TableInv, process_t
<1>4. \A p \in Slots : /\ LiveIn(g_processes', p) = LiveIn(ps, p)
                        /\ StackIn(g_processes', p) = StackIn(ps, p)
  BY <1>2 DEF LiveIn, StackIn
<1>5. TableInv(g_processes', frames', stacks')
  <2>1. \A p \in Slots : LiveIn(g_processes', p) =>
            g_processes'[p].stack_base \in {NONE} \cup 1 .. stacks'
    BY <1>2, <1>4, Zenon DEF TableInv
  <2>2. \A p, q \in Slots : LiveIn(g_processes', p) /\ LiveIn(g_processes', q) /\ p # q
            => StackIn(g_processes', p) # StackIn(g_processes', q)
    BY <1>4, Zenon DEF TableInv
  <2>3. ASSUME NEW p \in Slots, g_processes'[p].state = "READY"
        PROVE  g_processes'[p] = ps[p] /\ StackIn(g_processes', p) = StackIn(ps, p)
    BY <1>2, <1>4, <2>3, Zenon
  <2>4. frames' = fr
    BY <1>1, Zenon
  <2> QED
    BY <1>2, <2>1, <2>2, <2>3, <2>4 DEF TableInv
<1>6. TypeOK'
  BY <1>1, <1>2, <1>3, <1>5, Zenon DEF TypeOK, TableInv
<1>7. OneRunning'
  BY <1>1, <1>2, Zenon DEF OneRunning, NobodyRuns
<1>8. user_rsp' = StackOf(g_current_pid)'
  BY <1>1, <1>2, <1>3, Zenon DEF StackOf, StackIn
<1> QED
  BY <1>1, <1>5, <1>6, <1>7, <1>8, Zenon DEF IInv, HaltsOnlyWhenIdle

\* What holds when syscall_dispatch calls process_schedule_on_syscall.
AtSchedule(ps, fr, n) ==
    /\ mode = "user"
    /\ TableInv(ps, fr, n)
    /\ OnlyRuns(ps, g_current_pid)
    /\ LiveIn(ps, g_current_pid) => user_rsp = StackIn(ps, g_current_pid)

\* After the first half of process_schedule_on_syscall no process is RUNNING and
\* the table's part of the invariant still holds.
LEMMA SavedTable ==
    ASSUME IInv, NEW ps, NEW fr, NEW n, AtSchedule(ps, fr, n)
    PROVE  LET saved == save_current(ps, g_current_pid, KERNEL_FRAME, user_rsp)
           IN  /\ TableInv(saved, fr, n)
               /\ NobodyRuns(saved)
               /\ \A p \in Slots : p # g_current_pid => saved[p] = ps[p]
               /\ saved[g_current_pid].state # "DEAD" /\ LiveIn(ps, g_current_pid)
                     => saved[g_current_pid].state = "READY"
<1>1. g_current_pid \in Slots
  BY Zenon DEF IInv, OneRunning, AtSchedule
<1>2. user_rsp \in StackIds
  <2>1. user_rsp = StackOf(g_current_pid)
    BY Zenon DEF IInv, AtSchedule
  <2>2. StackOf(g_current_pid) \in StackIds
    BY <1>1, ProcessManagerAssumption
    DEF IInv, TypeOK, StackOf, process_t, USER_STACK, StackIds
  <2> QED
    BY <2>1, <2>2, Zenon
<1> QED
  BY <1>1, <1>2, SaveKeepsTable DEF AtSchedule

\* process_schedule_on_syscall keeps the invariant.
LEMMA ScheduleKeepsInvariant ==
    ASSUME IInv, NEW ps, NEW fr, AtSchedule(ps, fr, stacks'),
           NEW switch \in BOOLEAN,
           switch \/ LiveIn(ps, g_current_pid),
           process_schedule_on_syscall(ps, fr, switch)
    PROVE  IInv'
<1> DEFINE saved == save_current(ps, g_current_pid, KERNEL_FRAME, user_rsp)
           next == pick_next_ready(saved, g_current_pid)
<1>1. g_current_pid \in Slots
  BY Zenon DEF IInv, OneRunning, AtSchedule
<1>2. /\ TableInv(saved, fr, stacks') /\ NobodyRuns(saved)
      /\ saved[g_current_pid].state # "DEAD" /\ LiveIn(ps, g_current_pid)
            => saved[g_current_pid].state = "READY"
  BY SavedTable, Zenon
<1>3. saved \in [Slots -> process_t]
  BY <1>2, Zenon DEF TableInv
<1>4. \/ /\ ~switch /\ saved[g_current_pid].state # "DEAD"
         /\ ReturnTo(saved, fr, g_current_pid)
      \/ \E pid \in next : ReturnTo(saved, fr, pid)
      \/ /\ next = {} /\ mode' = "halted" /\ g_processes' = saved
         /\ frames' = fr /\ UNCHANGED <<g_current_pid, regs, user_rsp>>
  BY Zenon DEF process_schedule_on_syscall
<1> HIDE DEF saved, next
<1>5. CASE ~switch /\ saved[g_current_pid].state # "DEAD"
           /\ ReturnTo(saved, fr, g_current_pid)
  BY <1>1, <1>2, <1>5, ReturnKeepsInvariant, Zenon
<1>6. CASE \E pid \in next : ReturnTo(saved, fr, pid)
  <2>1. PICK pid \in next : ReturnTo(saved, fr, pid)
    BY <1>6, Zenon
  <2>2. pid \in Slots /\ saved[pid].state = "READY"
    BY <1>1, <1>2, <1>3, <2>1, PickedIsReady, Zenon DEF next
  <2> QED
    BY <1>2, <2>1, <2>2, ReturnKeepsInvariant, Zenon
<1>7. CASE /\ next = {} /\ mode' = "halted" /\ g_processes' = saved
           /\ frames' = fr /\ UNCHANGED <<g_current_pid, regs, user_rsp>>
  <2>1. \A p \in Slots : saved[p].state # "READY"
    BY <1>1, <1>3, <1>7, PickedNone, Zenon DEF next
  <2>2. TypeOK'
    BY <1>2, <1>7, Zenon DEF IInv, TypeOK, TableInv
  <2>3. HaltsOnlyWhenIdle'
    BY <1>2, <1>7, <2>1, Zenon DEF HaltsOnlyWhenIdle, IsLive, NobodyRuns
  <2> QED
    BY <1>2, <1>7, <2>2, <2>3, Zenon DEF IInv, OneRunning
<1> QED
  BY <1>4, <1>5, <1>6, <1>7, Zenon

\* Whenever process_schedule_on_syscall switches to another process, every
\* process that was READY before and still is has come closer to its turn.
LEMMA ScheduleProgress ==
    ASSUME IInv, NEW ps, NEW fr, NEW n, AtSchedule(ps, fr, n),
           NEW switch \in BOOLEAN,
           process_schedule_on_syscall(ps, fr, switch),
           mode' = "user", g_current_pid' # g_current_pid,
           NEW p \in Slots, IsReady(p), ps[p] = g_processes[p], IsReady(p)'
    PROVE  Sched!Distance(g_current_pid', p) < Sched!Distance(g_current_pid, p)
<1> DEFINE saved == save_current(ps, g_current_pid, KERNEL_FRAME, user_rsp)
           next == pick_next_ready(saved, g_current_pid)
<1>1. g_current_pid \in Slots /\ p # g_current_pid
  BY Zenon DEF IInv, OneRunning, AtSchedule, IsReady
<1>2. TableInv(saved, fr, n) /\ NobodyRuns(saved) /\ saved[p] = ps[p]
  BY <1>1, SavedTable, Zenon
<1>3. saved \in [Slots -> process_t] /\ saved[p].state = "READY"
  BY <1>2, Zenon DEF TableInv, IsReady
<1>4. \E q \in next : ReturnTo(saved, fr, q)
  <2>1. ~ReturnTo(saved, fr, g_current_pid)
    BY Zenon DEF ReturnTo
  <2> QED
    BY <2>1, Zenon DEF process_schedule_on_syscall
<1> HIDE DEF saved
<1>5. PICK q \in next : g_current_pid' = q
                         /\ g_processes' = [saved EXCEPT ![q].state = "RUNNING"]
  BY <1>4, Zenon DEF ReturnTo
<1>6. q \in Slots
  BY <1>1, <1>2, <1>3, PickedIsReady, Zenon
<1>7. p # q
  <2>1. g_processes'[q].state = "RUNNING"
    BY <1>3, <1>5, <1>6, Zenon DEF process_t
  <2> QED
    BY <2>1, Zenon DEF IsReady
<1>8. q \in pick_next_ready(saved, g_current_pid) /\ q # g_current_pid
  BY <1>5, Zenon
<1>9. Sched!Distance(q, p) < Sched!Distance(g_current_pid, p)
  BY <1>1, <1>2, <1>3, <1>7, <1>8, PickedIsNearest, Zenon
<1> QED
  BY <1>5, <1>9, Zenon
\* process_schedule_on_syscall leaves every live process of the table it is given
\* alive and with its stack, and revives no process that ended.
LEMMA ScheduleKeepsSlot ==
    ASSUME IInv, NEW ps, NEW fr, NEW n, AtSchedule(ps, fr, n),
           NEW switch \in BOOLEAN,
           process_schedule_on_syscall(ps, fr, switch),
           NEW p \in Slots
    PROVE  /\ LiveIn(ps, p) => /\ g_processes'[p].state \in {"READY", "RUNNING"}
                               /\ g_processes'[p].stack_base = ps[p].stack_base
           /\ ps[p].state = "DEAD" => g_processes'[p].state = "DEAD"
<1> DEFINE saved == save_current(ps, g_current_pid, KERNEL_FRAME, user_rsp)
           next == pick_next_ready(saved, g_current_pid)
<1>1. g_current_pid \in Slots /\ ps \in [Slots -> process_t]
  BY Zenon DEF IInv, OneRunning, AtSchedule, TableInv
<1>2. TableInv(saved, fr, n) /\ NobodyRuns(saved)
  BY SavedTable, Zenon
<1>3. saved \in [Slots -> process_t]
  BY <1>2, Zenon DEF TableInv
<1>4. /\ LiveIn(ps, p) => LiveIn(saved, p) /\ saved[p].stack_base = ps[p].stack_base
      /\ ps[p].state = "DEAD" => saved[p].state = "DEAD"
  BY <1>1, Zenon DEF save_current, LiveIn
<1>5. \/ /\ saved[g_current_pid].state # "DEAD"
         /\ ReturnTo(saved, fr, g_current_pid)
      \/ \E q \in next : ReturnTo(saved, fr, q)
      \/ g_processes' = saved
  BY Zenon DEF process_schedule_on_syscall
<1> HIDE DEF saved
<1>6. \A q \in next : q \in Slots /\ saved[q].state # "DEAD"
  BY <1>1, <1>2, <1>3, PickedIsReady, Zenon
<1>7. ASSUME NEW q \in Slots, saved[q].state # "DEAD", ReturnTo(saved, fr, q)
      PROVE  /\ LiveIn(saved, p) => /\ g_processes'[p].state \in {"READY", "RUNNING"}
                                    /\ g_processes'[p].stack_base = saved[p].stack_base
             /\ saved[p].state = "DEAD" => g_processes'[p].state = "DEAD"
  <2>1. g_processes' = [saved EXCEPT ![q].state = "RUNNING"]
    BY <1>7, Zenon DEF ReturnTo
  <2>2. p # q => g_processes'[p] = saved[p]
    BY <1>3, <2>1, Zenon
  <2>3. p = q => /\ g_processes'[p].state = "RUNNING"
                 /\ g_processes'[p].stack_base = saved[p].stack_base
    BY <1>3, <2>1, Zenon DEF process_t
  <2> QED
    BY <1>7, <2>2, <2>3 DEF LiveIn
<1> HIDE DEF next
<1> QED
  BY <1>1, <1>4, <1>5, <1>6, <1>7, Zenon DEF LiveIn
-----------------------------------------------------------------------------
(* syscall_dispatch: every call reaches the scheduler with AtSchedule *)

\* A call that creates and ends nothing reaches the scheduler with the table in
\* order.
LEMMA CallReachesSchedule ==
    ASSUME IInv, mode = "user"
    PROVE  /\ AtSchedule(g_processes, PushRegisters, stacks)
           /\ LiveIn(g_processes, g_current_pid)
<1>1. TableInv(g_processes, PushRegisters, stacks)
  BY PushKeepsTable, Zenon
<1>2. OnlyRuns(g_processes, g_current_pid) /\ LiveIn(g_processes, g_current_pid)
  BY Zenon DEF IInv, OneRunning, OnlyRuns, LiveIn
<1>3. user_rsp = StackIn(g_processes, g_current_pid)
  BY Zenon DEF IInv, StackOf, StackIn
<1> QED
  BY <1>1, <1>2, <1>3, Zenon DEF AtSchedule

\* So does SYSCALL_PROCESS_EXIT ...
LEMMA ExitReachesSchedule ==
    ASSUME IInv, mode = "user"
    PROVE  AtSchedule(process_exit_current(g_processes, g_current_pid),
                      PushRegisters, stacks)
<1> DEFINE new == process_exit_current(g_processes, g_current_pid)
<1>1. g_current_pid \in Slots /\ g_processes \in [Slots -> process_t]
  BY Zenon DEF IInv, OneRunning, TypeOK
<1>2. TableInv(new, PushRegisters, stacks)
  BY <1>1, PushKeepsTable, ExitKeepsTable, Zenon
<1>3. /\ new[g_current_pid].state = "DEAD"
      /\ \A p \in Slots : p # g_current_pid => new[p] = g_processes[p]
  BY <1>1, Zenon DEF process_exit_current, process_t
<1> HIDE DEF new
<1>4. OnlyRuns(new, g_current_pid) /\ ~LiveIn(new, g_current_pid)
  BY <1>3, Zenon DEF IInv, OneRunning, OnlyRuns, LiveIn
<1>5. AtSchedule(new, PushRegisters, stacks)
  BY <1>2, <1>4, Zenon DEF AtSchedule
<1> QED
  BY <1>5, Zenon DEF new

\* ... and SYSCALL_PROCESS_CREATE and SYSCALL_THREAD_CREATE when they succeed.
LEMMA CreateReachesSchedule ==
    ASSUME IInv, mode = "user",
           NEW pid \in find_free_slot(g_processes),
           NEW stack \in kmalloc_stack \ {NONE},
           NEW entry \in EntryPoints
    PROVE  LET new == process_create_user(g_processes, pid, entry, stack)
               fr == [PushRegisters EXCEPT ![stack] =
                         [owner |-> stack, rcx |-> entry]]
           IN  /\ AtSchedule(new, fr, stack)
               /\ LiveIn(new, g_current_pid)
               /\ \A p \in Slots : IsReady(p) => new[p] = g_processes[p]
<1> DEFINE new == process_create_user(g_processes, pid, entry, stack)
           fr == [PushRegisters EXCEPT ![stack] = [owner |-> stack, rcx |-> entry]]
<1>1. stacks < MAX_STACKS /\ stack = stacks + 1
  BY Zenon DEF kmalloc_stack
<1>2. pid \in Slots /\ IsFree(g_processes[pid])
  BY Zenon DEF find_free_slot
<1>3. g_current_pid \in Slots /\ g_processes \in [Slots -> process_t]
      /\ g_processes[g_current_pid].state = "RUNNING"
  BY Zenon DEF IInv, OneRunning, TypeOK
<1>4. TableInv(new, fr, stack)
  BY <1>1, <1>2, PushKeepsTable, CreateKeepsTable, Zenon
<1>5. /\ new[pid].state = "READY"
      /\ \A p \in Slots : p # pid => new[p] = g_processes[p]
  BY <1>2, <1>3, Zenon DEF process_create_user
<1>6. pid # g_current_pid /\ ~IsReady(pid)
  BY <1>2, <1>3, Zenon DEF IsFree, IsReady
<1> HIDE DEF new, fr
<1>7. OnlyRuns(new, g_current_pid)
  BY <1>5, Zenon DEF IInv, OneRunning, OnlyRuns
<1>8. new[g_current_pid] = g_processes[g_current_pid]
  BY <1>3, <1>5, <1>6, Zenon
<1>9. user_rsp = StackIn(new, g_current_pid) /\ LiveIn(new, g_current_pid)
  BY <1>3, <1>8, Zenon DEF IInv, StackOf, StackIn, LiveIn
<1>10. AtSchedule(new, fr, stack)
  BY <1>4, <1>7, <1>9, Zenon DEF AtSchedule
<1> QED
  BY <1>5, <1>6, <1>9, <1>10, Zenon DEF new, fr
-----------------------------------------------------------------------------
(* The invariant *)

\* process_manager_init establishes the invariant.
LEMMA InitEstablishesInvariant == Init => IInv
<1> SUFFICES ASSUME Init PROVE IInv
  BY Zenon
<1>1. TypeOK /\ \A p \in Slots : g_processes[p].state = "UNUSED"
  BY ProcessManagerAssumption
  DEF Init, TypeOK, process_manager_init, process_t, Context, Garbage, StackIds,
      InProgram
<1>2. TableInv(g_processes, frames, stacks)
  BY <1>1, Zenon DEF TypeOK, TableInv, LiveIn
<1> QED
  BY <1>1, <1>2, Zenon DEF Init, IInv, OneRunning, HaltsOnlyWhenIdle

\* Entering user mode at the end of kernel_main keeps the invariant.
LEMMA BootKeepsInvariant ==
    ASSUME IInv, NEW entry \in EntryPoints, EnterUserMode(entry)
    PROVE  IInv'
<1>1. PICK pid \in Slots :
         /\ g_processes' = process_register_boot_process(g_processes, pid, entry)
         /\ g_current_pid' = pid
  BY Zenon DEF EnterUserMode, find_free_slot
<1>2. /\ mode = "boot" /\ mode' = "user" /\ UNCHANGED <<stacks, frames>>
      /\ regs' = [owner |-> USER_STACK, rcx |-> entry] /\ user_rsp' = USER_STACK
  BY Zenon DEF EnterUserMode
<1>3. /\ g_processes' \in [Slots -> process_t]
      /\ g_processes'[pid].state = "RUNNING" /\ g_processes'[pid].stack_base = NONE
      /\ \A p \in Slots : p # pid => g_processes'[p].state = "UNUSED"
  BY <1>1, <1>2, ProcessManagerAssumption
  DEF IInv, TypeOK, process_register_boot_process, process_t, USER_STACK, StackIds
<1>4. TypeOK'
  BY <1>1, <1>2, <1>3, ProcessManagerAssumption
  DEF IInv, TypeOK, Context, USER_STACK, StackIds
<1>5. TableInv(g_processes', frames', stacks')
  BY <1>3, <1>4, Zenon DEF TypeOK, TableInv, LiveIn
<1>6. OneRunning' /\ (user_rsp = StackOf(g_current_pid))' /\ HaltsOnlyWhenIdle'
  BY <1>1, <1>2, <1>3, Zenon DEF OneRunning, StackOf, HaltsOnlyWhenIdle
<1> QED
  BY <1>2, <1>4, <1>5, <1>6, Zenon DEF IInv

\* SYSCALL_USER_KMALLOC and _KFREE, which return past the scheduler, keep it.
LEMMA HeapCallKeepsInvariant == IInv /\ UserHeapCall => IInv'
<1> SUFFICES ASSUME IInv, UserHeapCall PROVE IInv'
  BY Zenon
<1>1. TableInv(g_processes, PushRegisters, stacks)
  BY PushKeepsTable, Zenon
<1>2. Garbage \in Context
  BY Zenon DEF Garbage, Context, InProgram
<1> QED
  BY <1>1, <1>2
  DEF IInv, UserHeapCall, TypeOK, TableInv, LiveIn, StackIn, OneRunning, StackOf,
      HaltsOnlyWhenIdle, IsLive

\* Every step keeps the invariant.
LEMMA NextKeepsInvariant == IInv /\ [Next]_vars => IInv'
<1> SUFFICES ASSUME IInv, [Next]_vars PROVE IInv'
  BY Zenon
<1>1. ASSUME NEW entry \in EntryPoints, EnterUserMode(entry) PROVE IInv'
  BY <1>1, BootKeepsInvariant, Zenon
<1>2. ASSUME NEW entry \in EntryPoints \cup {0}, NEW switch \in BOOLEAN,
             Create(entry, switch)
      PROVE  IInv'
  <2>1. entry \in EntryPoints /\ mode = "user"
    BY <1>2, Zenon DEF Create
  <2>2. PICK pid \in find_free_slot(g_processes), stack \in kmalloc_stack \ {NONE} :
           /\ process_schedule_on_syscall(
                 process_create_user(g_processes, pid, entry, stack),
                 [PushRegisters EXCEPT ![stack] = [owner |-> stack, rcx |-> entry]],
                 switch)
           /\ stacks' = stack
    BY <1>2, Zenon DEF Create
  <2> QED
    BY <2>1, <2>2, CreateReachesSchedule, ScheduleKeepsInvariant, Zenon
<1>3. ASSUME mode = "user", UNCHANGED stacks, NEW switch \in BOOLEAN,
             process_schedule_on_syscall(g_processes, PushRegisters, switch)
      PROVE  IInv'
  BY <1>3, CallReachesSchedule, ScheduleKeepsInvariant, Zenon
<1>4. ASSUME process_exit PROVE IInv'
  BY <1>4, ExitReachesSchedule, ScheduleKeepsInvariant, Zenon DEF process_exit
<1>5. ASSUME UserHeapCall PROVE IInv'
  BY <1>5, HeapCallKeepsInvariant, Zenon
<1>6. ASSUME PageFault PROVE IInv'
  BY <1>6 DEF PageFault, IInv, TypeOK, TableInv, LiveIn, StackIn, OneRunning,
              HaltsOnlyWhenIdle
<1>7. ASSUME UNCHANGED vars PROVE IInv'
  BY <1>7 DEF vars, IInv, TypeOK, TableInv, LiveIn, StackIn, OneRunning, StackOf,
              HaltsOnlyWhenIdle, IsLive
<1> QED
  BY <1>1, <1>2, <1>3, <1>4, <1>5, <1>6, <1>7
 , Zenon DEF Next, process_create, thread_create, CreateFails, ReturningCall, process_yield

\* The inductive invariant holds throughout every behaviour.
THEOREM InvariantHolds == Spec => []IInv
<1>1. Init => IInv
  BY InitEstablishesInvariant, Zenon
<1>2. IInv /\ [Next]_vars => IInv'
  BY NextKeepsInvariant, Zenon
<1> QED
  BY <1>1, <1>2, PTL DEF Spec

\* Every variable keeps its type, for every table size and number of stacks.
THEOREM TypeCorrect == Spec => []TypeOK
BY InvariantHolds, PTL DEF IInv

\* While a program runs, g_current_pid names the only RUNNING process.
THEOREM CurrentIsTheOnlyRunning == Spec => []OneRunning
BY InvariantHolds, PTL DEF IInv

\* No two live processes share a stack.
THEOREM StacksAreDisjoint == Spec => []NoSharedStack
<1>1. IInv => NoSharedStack
  BY Zenon DEF IInv, TableInv, NoSharedStack, IsLive, LiveIn, StackOf, StackIn
<1> QED
  BY <1>1, InvariantHolds, PTL

\* Every process returns from its system calls on its own stack.
THEOREM ReturnsOnOwnStackAlways == Spec => []ReturnsOnOwnStack
<1>1. IInv => ReturnsOnOwnStack
  BY Zenon DEF IInv, TableInv, ReturnsOnOwnStack, IsReady, StackOf, StackIn
<1> QED
  BY <1>1, InvariantHolds, PTL

\* The frame of a process that has not run yet stays as it was built.
THEOREM FirstFrameStaysIntact == Spec => []FirstFrameIntact
<1>1. IInv => FirstFrameIntact
  BY Zenon DEF IInv, TableInv, FirstFrameIntact, IsReady, StackOf, StackIn
<1> QED
  BY <1>1, InvariantHolds, PTL

\* The scheduler halts only when no process can go on.
THEOREM HaltMeansIdle == Spec => []HaltsOnlyWhenIdle
BY InvariantHolds, PTL DEF IInv

\* Round robin: each switch brings every waiting process closer to its turn.
THEOREM RoundRobinHolds == Spec => RoundRobinProgress
<1> DEFINE Progress ==
      \A p \in Slots :
          /\ mode = "user" /\ mode' = "user" /\ g_current_pid' # g_current_pid
          /\ IsReady(p) /\ IsReady(p)'
          => Sched!Distance(g_current_pid', p) < Sched!Distance(g_current_pid, p)
<1>1. IInv /\ [Next]_vars => [Progress]_vars
  <2> SUFFICES ASSUME IInv, Next,
                      NEW p \in Slots,
                      mode = "user", mode' = "user", g_current_pid' # g_current_pid,
                      IsReady(p), IsReady(p)'
               PROVE  Sched!Distance(g_current_pid', p)
                         < Sched!Distance(g_current_pid, p)
    BY Zenon
  <2>1. ASSUME NEW entry \in EntryPoints \cup {0}, NEW switch \in BOOLEAN,
               Create(entry, switch)
        PROVE  Sched!Distance(g_current_pid', p) < Sched!Distance(g_current_pid, p)
    <3>1. entry \in EntryPoints
      BY <2>1, Zenon DEF Create
    <3>2. PICK pid \in find_free_slot(g_processes), stack \in kmalloc_stack \ {NONE} :
             process_schedule_on_syscall(
                 process_create_user(g_processes, pid, entry, stack),
                 [PushRegisters EXCEPT ![stack] = [owner |-> stack, rcx |-> entry]],
                 switch)
      BY <2>1, Zenon DEF Create
    <3> DEFINE new == process_create_user(g_processes, pid, entry, stack)
               fr == [PushRegisters EXCEPT ![stack] =
                         [owner |-> stack, rcx |-> entry]]
    <3>3. AtSchedule(new, fr, stack) /\ new[p] = g_processes[p]
      BY <3>1, CreateReachesSchedule, Zenon
    <3>4. process_schedule_on_syscall(new, fr, switch)
      BY <3>2, Zenon
    <3> HIDE DEF new, fr
    <3> QED
      BY <3>3, <3>4, ScheduleProgress, Zenon
  <2>2. ASSUME NEW switch \in BOOLEAN,
               process_schedule_on_syscall(g_processes, PushRegisters, switch)
        PROVE  Sched!Distance(g_current_pid', p) < Sched!Distance(g_current_pid, p)
    BY <2>2, CallReachesSchedule, ScheduleProgress, Zenon
  <2>3. ASSUME process_exit
        PROVE  Sched!Distance(g_current_pid', p) < Sched!Distance(g_current_pid, p)
    <3> DEFINE new == process_exit_current(g_processes, g_current_pid)
    <3>1. AtSchedule(new, PushRegisters, stacks)
          /\ process_schedule_on_syscall(new, PushRegisters, TRUE)
      BY <2>3, ExitReachesSchedule, Zenon DEF process_exit
    <3>2. new[p] = g_processes[p]
      BY Zenon DEF IInv, TypeOK, OneRunning, IsReady, process_exit_current
    <3> HIDE DEF new
    <3> QED
      BY <3>1, <3>2, ScheduleProgress, Zenon
  <2> QED
    BY <2>1, <2>2, <2>3
   , Zenon DEF Next, EnterUserMode, process_create, thread_create, CreateFails,
        ReturningCall, process_yield, UserHeapCall, PageFault
<1> QED
  BY <1>1, InvariantHolds, PTL DEF Spec, RoundRobinProgress

\* A live process loses its slot or its stack only by its own exit, whatever the
\* other processes create (find_free_slot, process_exit_current).
THEOREM SlotsAreKept == Spec => KeepsItsSlot
<1> DEFINE KeptOrExits(p) ==
      \/ IsLive(p)' /\ StackOf(p)' = StackOf(p)
      \/ p = g_current_pid /\ g_processes'[p].state = "DEAD"
<1>1. IInv /\ [Next]_vars => [\A p \in Slots : IsLive(p) => KeptOrExits(p)]_vars
  <2> SUFFICES ASSUME IInv, Next, NEW p \in Slots, IsLive(p)
               PROVE  KeptOrExits(p)
    BY Zenon
  <2>1. ASSUME NEW ps, NEW fr, NEW n, AtSchedule(ps, fr, n), NEW switch \in BOOLEAN,
               process_schedule_on_syscall(ps, fr, switch), ps[p] = g_processes[p]
        PROVE  KeptOrExits(p)
    <3>1. LiveIn(ps, p)
      BY <2>1, Zenon DEF LiveIn, IsLive
    <3>2. /\ g_processes'[p].state \in {"READY", "RUNNING"}
          /\ g_processes'[p].stack_base = g_processes[p].stack_base
      BY <2>1, <3>1, ScheduleKeepsSlot
    <3> QED
      BY <3>2, Zenon DEF IsLive, StackOf
  <2>2. ASSUME NEW entry \in EntryPoints \cup {0}, NEW switch \in BOOLEAN,
               Create(entry, switch)
        PROVE  KeptOrExits(p)
    <3>1. entry \in EntryPoints /\ mode = "user"
      BY <2>2, Zenon DEF Create
    <3>2. PICK pid \in find_free_slot(g_processes), stack \in kmalloc_stack \ {NONE} :
             process_schedule_on_syscall(
                 process_create_user(g_processes, pid, entry, stack),
                 [PushRegisters EXCEPT ![stack] = [owner |-> stack, rcx |-> entry]],
                 switch)
      BY <2>2, Zenon DEF Create
    <3> DEFINE new == process_create_user(g_processes, pid, entry, stack)
               fr == [PushRegisters EXCEPT ![stack] =
                         [owner |-> stack, rcx |-> entry]]
    <3>3. AtSchedule(new, fr, stack)
      BY <3>1, CreateReachesSchedule, Zenon
    <3>4. process_schedule_on_syscall(new, fr, switch)
      BY <3>2, Zenon
    <3>5. p # pid
      BY Zenon DEF find_free_slot, IsFree, IsLive
    <3>6. new[p] = g_processes[p]
      BY <3>5, Zenon DEF process_create_user, IInv, TypeOK
    <3> HIDE DEF new, fr, KeptOrExits
    <3> QED
      BY <2>1, <3>3, <3>4, <3>6, Zenon
  <2>3. ASSUME mode = "user", NEW switch \in BOOLEAN,
               process_schedule_on_syscall(g_processes, PushRegisters, switch)
        PROVE  KeptOrExits(p)
    <3> HIDE DEF KeptOrExits
    <3> QED
      BY <2>1, <2>3, CallReachesSchedule, Zenon
  <2>4. ASSUME process_exit PROVE KeptOrExits(p)
    <3> DEFINE new == process_exit_current(g_processes, g_current_pid)
    <3>1. AtSchedule(new, PushRegisters, stacks)
          /\ process_schedule_on_syscall(new, PushRegisters, TRUE)
      BY <2>4, ExitReachesSchedule, Zenon DEF process_exit
    <3>2. /\ p = g_current_pid => new[p].state = "DEAD"
          /\ p # g_current_pid => new[p] = g_processes[p]
      BY Zenon DEF IInv, TypeOK, process_exit_current, process_t
    <3> HIDE DEF new
    <3>3. CASE p = g_current_pid
      BY <3>1, <3>2, <3>3, ScheduleKeepsSlot, Zenon
    <3>4. CASE p # g_current_pid
      <4> HIDE DEF KeptOrExits
      <4> QED
        BY <2>1, <3>1, <3>2, <3>4, Zenon
    <3> QED
      BY <3>3, <3>4, Zenon
  <2>5. ASSUME NEW entry \in EntryPoints, EnterUserMode(entry) PROVE KeptOrExits(p)
    <3>1. PICK pid \in find_free_slot(g_processes) :
             g_processes' = process_register_boot_process(g_processes, pid, entry)
      BY <2>5, Zenon DEF EnterUserMode
    <3>2. p # pid
      BY Zenon DEF find_free_slot, IsFree, IsLive
    <3>3. g_processes'[p] = g_processes[p]
      BY <3>1, <3>2, Zenon DEF process_register_boot_process, IInv, TypeOK
    <3> QED
      BY <3>3, Zenon DEF IsLive, StackOf
  <2>6. ASSUME UNCHANGED g_processes PROVE KeptOrExits(p)
    BY <2>6, Zenon DEF IsLive, StackOf
  <2> HIDE DEF KeptOrExits
  <2> QED
    BY <2>2, <2>3, <2>4, <2>5, <2>6
   , Zenon DEF Next, process_create, thread_create, CreateFails, ReturningCall,
        process_yield, UserHeapCall, PageFault
<1> QED
  BY <1>1, InvariantHolds, PTL DEF Spec, KeepsItsSlot
-----------------------------------------------------------------------------
(* Refinement: the process table implements CooperativeScheduler *)

ReadyIn(ps) == {p \in Slots : ps[p].state = "READY"}

Waiting == ReadyIn(g_processes)

\* The processes that may run next: those that wait, and the caller unless it
\* has exited.
Candidates(ps) ==
    {p \in Slots : ps[p].state = "READY" \/ (p = g_current_pid /\ LiveIn(ps, p))}

\* process_schedule_on_syscall returns to the caller, passes the processor to the
\* nearest candidate, or halts because there is none.
LEMMA ScheduleRefines ==
    ASSUME IInv, NEW ps, NEW fr, NEW n, AtSchedule(ps, fr, n),
           NEW switch \in BOOLEAN,
           switch \/ LiveIn(ps, g_current_pid),
           process_schedule_on_syscall(ps, fr, switch)
    PROVE  \/ /\ ~switch /\ mode' = "user" /\ g_current_pid' = g_current_pid
              /\ Waiting' = Candidates(ps) \ {g_current_pid}
           \/ /\ switch /\ mode' = "user"
              /\ g_current_pid' \in Sched!Nearest(g_current_pid, Candidates(ps))
              /\ Waiting' = Candidates(ps) \ {g_current_pid'}
           \/ /\ switch /\ mode' = "halted" /\ Candidates(ps) = {} /\ Waiting' = {}
<1> DEFINE saved == save_current(ps, g_current_pid, KERNEL_FRAME, user_rsp)
           next == pick_next_ready(saved, g_current_pid)
<1>1. g_current_pid \in Slots /\ ps \in [Slots -> process_t]
  BY Zenon DEF IInv, OneRunning, AtSchedule, TableInv
<1>2. TableInv(saved, fr, n) /\ NobodyRuns(saved)
  BY SavedTable, Zenon
<1>3. saved \in [Slots -> process_t]
  BY <1>2, Zenon DEF TableInv
<1>4. /\ \A p \in Slots : p # g_current_pid => saved[p] = ps[p]
      /\ saved[g_current_pid].state = IF LiveIn(ps, g_current_pid) THEN "READY"
                                      ELSE ps[g_current_pid].state
  BY <1>1, Zenon DEF save_current, LiveIn
<1>5. ~switch => saved[g_current_pid].state = "READY"
  BY <1>4, Zenon
<1>6. \/ ~switch /\ ReturnTo(saved, fr, g_current_pid)
      \/ switch /\ \E pid \in next : ReturnTo(saved, fr, pid)
      \/ switch /\ next = {} /\ mode' = "halted" /\ g_processes' = saved
  BY <1>5, Zenon DEF process_schedule_on_syscall
<1> HIDE DEF saved
<1>7. ReadyIn(saved) = Candidates(ps)
  <2>1. ASSUME NEW p \in Slots
        PROVE  saved[p].state = "READY" <=>
                 ps[p].state = "READY" \/ (p = g_current_pid /\ LiveIn(ps, p))
    BY <1>1, <1>4, <2>1, Zenon DEF LiveIn
  <2> QED
    BY <2>1, Zenon DEF ReadyIn, Candidates
<1>8. ASSUME NEW q \in Slots, ReturnTo(saved, fr, q)
      PROVE  mode' = "user" /\ g_current_pid' = q /\ Waiting' = Candidates(ps) \ {q}
  <2>1. g_processes' = [saved EXCEPT ![q].state = "RUNNING"]
    BY <1>8, Zenon DEF ReturnTo
  <2>2. \A p \in Slots : g_processes'[p].state = IF p = q THEN "RUNNING" ELSE saved[p].state
    BY <1>3, <1>8, <2>1, Zenon DEF process_t
  <2>3. Waiting' = ReadyIn(saved) \ {q}
    BY <2>2, Zenon DEF Waiting, ReadyIn
  <2> QED
    BY <1>7, <1>8, <2>3, Zenon DEF ReturnTo
<1>9. CASE ~switch /\ ReturnTo(saved, fr, g_current_pid)
  BY <1>1, <1>8, <1>9, Zenon
<1>10. CASE switch /\ \E pid \in next : ReturnTo(saved, fr, pid)
  <2>1. PICK pid \in next : ReturnTo(saved, fr, pid)
    BY <1>10, Zenon
  <2>2. pid \in ReadyIn(saved)
    BY <1>1, <1>2, <1>3, PickedIsReady, Zenon DEF ReadyIn
  <2>3. \A p \in ReadyIn(saved) :
           Sched!Distance(g_current_pid, pid) <= Sched!Distance(g_current_pid, p)
    BY <1>1, <1>2, <1>3, PickedIsTheNearest, Zenon DEF ReadyIn
  <2>4. pid \in Sched!Nearest(g_current_pid, Candidates(ps))
    BY <1>7, <2>2, <2>3, Zenon DEF Sched!Nearest
  <2>5. pid \in Slots
    BY <2>2, Zenon DEF ReadyIn
  <2> QED
    BY <1>8, <1>10, <2>1, <2>4, <2>5, Zenon
<1>11. CASE switch /\ next = {} /\ mode' = "halted" /\ g_processes' = saved
  <2>1. ReadyIn(saved) = {}
    BY <1>1, <1>3, <1>11, PickedNone, Zenon DEF ReadyIn
  <2> QED
    BY <1>7, <1>11, <2>1, Zenon DEF Waiting, ReadyIn
<1> QED
  BY <1>6, <1>9, <1>10, <1>11, Zenon

\* The abstract state, in terms of the table.
LEMMA AbstractState ==
    /\ Waiting = {p \in Slots : IsReady(p)}
    /\ Waiting' = {p \in Slots : IsReady(p)}'
    /\ Sched!AllSlots = Slots
    /\ Sched!NoOne = NONE
BY Zenon DEF Waiting, ReadyIn, IsReady, Sched!AllSlots, Slots, Sched!NoOne, NONE

\* In user mode the caller is a slot of its own, and does not wait.
LEMMA CallerRuns ==
    ASSUME IInv, mode = "user"
    PROVE  /\ g_current_pid \in Slots /\ g_current_pid # NONE /\ g_current_pid \notin Waiting
           /\ Candidates(g_processes) = Waiting \cup {g_current_pid}
<1>1. g_current_pid \in Slots /\ g_processes[g_current_pid].state = "RUNNING"
  BY Zenon DEF IInv, OneRunning
<1> QED
  BY <1>1, ProcessManagerAssumption DEF Slots, NONE, Waiting, ReadyIn, Candidates, LiveIn

\* A call that creates and ends nothing: a stuttering step, or Yield.
LEMMA CallRefines ==
    ASSUME IInv, mode = "user", NEW switch \in BOOLEAN,
           process_schedule_on_syscall(g_processes, PushRegisters, switch)
    PROVE  [Sched!SchedNext]_(Sched!schedVars)
<1>1. /\ AtSchedule(g_processes, PushRegisters, stacks)
      /\ LiveIn(g_processes, g_current_pid)
  BY CallReachesSchedule, Zenon
<1>2. /\ g_current_pid \in Slots /\ g_current_pid # NONE /\ g_current_pid \notin Waiting
      /\ Candidates(g_processes) = Waiting \cup {g_current_pid}
  BY CallerRuns, Zenon
<1>3. \/ mode' = "user" /\ g_current_pid' = g_current_pid /\ Waiting' = Waiting
      \/ /\ mode' = "user"
         /\ g_current_pid' \in Sched!Nearest(g_current_pid, Waiting \cup {g_current_pid})
         /\ Waiting' = (Waiting \cup {g_current_pid}) \ {g_current_pid'}
  BY <1>1, <1>2, ScheduleRefines, Zenon
<1>4. CASE mode' = "user" /\ g_current_pid' = g_current_pid /\ Waiting' = Waiting
  BY <1>4, AbstractState, Zenon DEF Sched!schedVars
<1>5. CASE /\ mode' = "user"
           /\ g_current_pid' \in Sched!Nearest(g_current_pid, Waiting \cup {g_current_pid})
           /\ Waiting' = (Waiting \cup {g_current_pid}) \ {g_current_pid'}
  <2>1. Sched!Yield
    BY <1>2, <1>5, AbstractState, Zenon DEF Sched!Yield, Sched!PassTo
  <2> QED
    BY <2>1, Zenon DEF Sched!SchedNext
<1> QED
  BY <1>3, <1>4, <1>5, Zenon

\* process_exit: Exit, or Stop when nobody waits.
LEMMA ExitRefines ==
    ASSUME IInv, process_exit PROVE Sched!Exit \/ Sched!Stop
<1> DEFINE new == process_exit_current(g_processes, g_current_pid)
<1>1. /\ mode = "user" /\ AtSchedule(new, PushRegisters, stacks)
      /\ process_schedule_on_syscall(new, PushRegisters, TRUE)
  BY ExitReachesSchedule, Zenon DEF process_exit
<1>2. g_current_pid \in Slots /\ g_current_pid # NONE /\ g_current_pid \notin Waiting
  BY <1>1, CallerRuns, Zenon
<1>3. /\ new[g_current_pid].state = "DEAD"
      /\ \A p \in Slots : p # g_current_pid => new[p] = g_processes[p]
  BY <1>2, Zenon DEF IInv, TypeOK, process_exit_current, process_t
<1> HIDE DEF new
<1>4. Candidates(new) = Waiting
  BY <1>2, <1>3, Zenon DEF Candidates, Waiting, ReadyIn, LiveIn
<1>5. \/ /\ mode' = "user"
         /\ g_current_pid' \in Sched!Nearest(g_current_pid, Waiting)
         /\ Waiting' = Waiting \ {g_current_pid'}
      \/ mode' = "halted" /\ Waiting = {} /\ Waiting' = {}
  BY <1>1, <1>4, ScheduleRefines, Zenon
<1>6. CASE /\ mode' = "user"
           /\ g_current_pid' \in Sched!Nearest(g_current_pid, Waiting)
           /\ Waiting' = Waiting \ {g_current_pid'}
  <2>1. Waiting # {}
    BY <1>6, Zenon DEF Sched!Nearest
  <2>2. Sched!Exit
    BY <1>1, <1>2, <1>6, <2>1, AbstractState, Zenon DEF Sched!Exit, Sched!PassTo
  <2> QED
    BY <2>2, Zenon
<1>7. CASE mode' = "halted" /\ Waiting = {} /\ Waiting' = {}
  <2>1. Sched!Stop
    BY <1>1, <1>2, <1>7, AbstractState, Zenon DEF Sched!Stop
  <2> QED
    BY <2>1, Zenon
<1> QED
  BY <1>5, <1>6, <1>7, Zenon

\* process_create and thread_create, when they succeed: Spawn, SpawnAndYield.
LEMMA CreateRefines ==
    ASSUME IInv, NEW entry \in EntryPoints \cup {0}, NEW switch \in BOOLEAN,
           Create(entry, switch)
    PROVE  \E q \in Sched!AllSlots : Sched!Spawn(q) \/ Sched!SpawnAndYield(q)
<1>1. entry \in EntryPoints /\ mode = "user"
  BY Zenon DEF Create
<1>2. PICK pid \in find_free_slot(g_processes), stack \in kmalloc_stack \ {NONE} :
         process_schedule_on_syscall(
             process_create_user(g_processes, pid, entry, stack),
             [PushRegisters EXCEPT ![stack] = [owner |-> stack, rcx |-> entry]],
             switch)
  BY Zenon DEF Create
<1> DEFINE new == process_create_user(g_processes, pid, entry, stack)
           fr == [PushRegisters EXCEPT ![stack] = [owner |-> stack, rcx |-> entry]]
<1>3. AtSchedule(new, fr, stack) /\ LiveIn(new, g_current_pid)
  BY <1>1, CreateReachesSchedule, Zenon
<1>4. process_schedule_on_syscall(new, fr, switch)
  BY <1>2, Zenon
<1>5. g_current_pid \in Slots /\ g_current_pid # NONE /\ g_current_pid \notin Waiting
  BY <1>1, CallerRuns, Zenon
<1>6. pid \in Slots /\ pid # g_current_pid /\ pid \notin Waiting
  BY <1>1, Zenon DEF find_free_slot, IsFree, IInv, OneRunning, Waiting, ReadyIn
<1>7. /\ new[pid].state = "READY"
      /\ \A p \in Slots : p # pid => new[p] = g_processes[p]
  BY <1>6, Zenon DEF process_create_user, IInv, TypeOK
<1> HIDE DEF new, fr
<1>8. Candidates(new) = Waiting \cup {g_current_pid, pid}
  BY <1>3, <1>5, <1>6, <1>7, Zenon DEF Candidates, Waiting, ReadyIn
<1>9. \/ /\ mode' = "user" /\ g_current_pid' = g_current_pid
         /\ Waiting' = Waiting \cup {pid}
      \/ /\ mode' = "user"
         /\ g_current_pid' \in Sched!Nearest(g_current_pid, Waiting \cup {g_current_pid, pid})
         /\ Waiting' = (Waiting \cup {g_current_pid, pid}) \ {g_current_pid'}
  <2>1. \/ /\ ~switch /\ mode' = "user" /\ g_current_pid' = g_current_pid
           /\ Waiting' = Candidates(new) \ {g_current_pid}
        \/ /\ switch /\ mode' = "user"
           /\ g_current_pid' \in Sched!Nearest(g_current_pid, Candidates(new))
           /\ Waiting' = Candidates(new) \ {g_current_pid'}
        \/ /\ switch /\ mode' = "halted" /\ Candidates(new) = {} /\ Waiting' = {}
    BY <1>3, <1>4, ScheduleRefines, Zenon
  <2>2. (Waiting \cup {g_current_pid, pid}) \ {g_current_pid} = Waiting \cup {pid}
    BY <1>5, <1>6, Zenon
  <2> QED
    BY <1>8, <2>1, <2>2, Zenon
<1>10. CASE mode' = "user" /\ g_current_pid' = g_current_pid /\ Waiting' = Waiting \cup {pid}
  <2>1. Sched!Spawn(pid)
    BY <1>1, <1>5, <1>6, <1>10, AbstractState, Zenon DEF Sched!Spawn
  <2> QED
    BY <1>6, <2>1, AbstractState, Zenon
<1>11. CASE /\ mode' = "user"
            /\ g_current_pid' \in Sched!Nearest(g_current_pid,
                                                Waiting \cup {g_current_pid, pid})
            /\ Waiting' = (Waiting \cup {g_current_pid, pid}) \ {g_current_pid'}
  <2>1. Sched!SpawnAndYield(pid)
    BY <1>1, <1>5, <1>6, <1>11, AbstractState, Zenon DEF Sched!SpawnAndYield, Sched!PassTo
  <2> QED
    BY <1>6, <2>1, AbstractState, Zenon
<1> QED
  BY <1>9, <1>10, <1>11, Zenon

\* The process manager implements the cooperative scheduler: every system call,
\* fault and the boot is one of its steps or changes nothing it speaks of.  Its
\* fairness, which is the programs', is not part of this.
THEOREM SchedulerIsImplemented == Spec => Sched!SchedSafety
<1>1. Init => Sched!SchedInit
  BY DEF Init, Sched!SchedInit, IsReady, process_manager_init, Sched!NoOne, NONE
<1>2. IInv /\ [Next]_vars => [Sched!SchedNext]_(Sched!schedVars)
  <2> SUFFICES ASSUME IInv, [Next]_vars PROVE [Sched!SchedNext]_(Sched!schedVars)
    BY Zenon
  <2>1. ASSUME NEW entry \in EntryPoints, EnterUserMode(entry) PROVE Sched!Start
    <3>1. PICK pid \in Slots :
             /\ g_processes' = process_register_boot_process(g_processes, pid, entry)
             /\ g_current_pid' = pid
      BY <2>1, Zenon DEF EnterUserMode, find_free_slot
    <3>2. mode = "boot" /\ mode' = "user"
      BY <2>1, Zenon DEF EnterUserMode
    <3>3. \A p \in Slots : g_processes[p].state = "UNUSED" /\ g_processes'[p].state # "READY"
      BY <3>1, <3>2, Zenon DEF IInv, TypeOK, process_register_boot_process
    <3>4. Waiting = {} /\ Waiting' = {}
      BY <3>3, Zenon DEF Waiting, ReadyIn
    <3> QED
      BY <3>1, <3>2, <3>4, AbstractState DEF Sched!Start
  <2>2. ASSUME PageFault PROVE Sched!Stop
    <3>1. mode = "user" /\ mode' = "faulted" /\ Waiting' = Waiting
      BY <2>2, Zenon DEF PageFault, Waiting, ReadyIn
    <3>2. g_current_pid # NONE
      BY <3>1, CallerRuns, Zenon
    <3> QED
      BY <3>1, <3>2, AbstractState, Zenon DEF Sched!Stop
  <2>3. ASSUME UserHeapCall \/ UNCHANGED vars PROVE UNCHANGED Sched!schedVars
    <3>1. UNCHANGED <<mode, g_processes, g_current_pid>>
      BY <2>3, Zenon DEF UserHeapCall, vars
    <3> QED
      BY <3>1, Zenon DEF Sched!schedVars, IsReady
  <2> QED
    BY <2>1, <2>2, <2>3, CallRefines, ExitRefines, CreateRefines
   , Zenon DEF Next, process_create, thread_create, CreateFails, ReturningCall, process_yield,
        Sched!SchedNext
<1> QED
  BY <1>1, <1>2, InvariantHolds, PTL DEF Spec, Sched!SchedSafety
=============================================================================
