------------------------ MODULE CooperativeScheduler ------------------------
(***************************************************************************)
(* What the process manager promises its callers, without process table,   *)
(* saved frames or system calls: a running process keeps the processor     *)
(* until it gives it up, and the processor then goes to the process that   *)
(* waits nearest after it in slot order.                                   *)
(***************************************************************************)
EXTENDS Integers

CONSTANT SlotCount

VARIABLES
    waiting,   \* slots of the processes that wait for the processor
    running,   \* slot of the running process, NoOne before boot and at the end
    stopped    \* the machine has halted

NoOne == -1
AllSlots == 0 .. SlotCount - 1
schedVars == <<waiting, running, stopped>>

\* How far slot q is after slot p, going round the table: 1 .. SlotCount.
Distance(p, q) == IF q > p THEN q - p ELSE q - p + SlotCount

Nearest(p, candidates) ==
    {q \in candidates : \A r \in candidates : Distance(p, q) <= Distance(p, r)}

SchedInit == waiting = {} /\ running = NoOne /\ stopped = FALSE

Start == /\ running = NoOne /\ ~stopped
         /\ running' \in AllSlots
         /\ UNCHANGED <<waiting, stopped>>

Spawn(q) == /\ running # NoOne
            /\ q \in AllSlots \ (waiting \cup {running})
            /\ waiting' = waiting \cup {q}
            /\ UNCHANGED <<running, stopped>>

\* The processor goes to the nearest of the candidates.
PassTo(candidates) ==
    \E q \in Nearest(running, candidates) :
        /\ running' = q
        /\ waiting' = candidates \ {q}
        /\ UNCHANGED stopped

Yield == running # NoOne /\ PassTo(waiting \cup {running})

SpawnAndYield(q) == /\ running # NoOne
                    /\ q \in AllSlots \ (waiting \cup {running})
                    /\ PassTo(waiting \cup {running, q})

Exit == running # NoOne /\ waiting # {} /\ PassTo(waiting)

\* The last process exits, or any process faults: nothing runs again.
Stop == /\ running # NoOne
        /\ running' = NoOne /\ stopped' = TRUE
        /\ UNCHANGED waiting

SchedNext == \/ Start \/ Yield \/ Exit \/ Stop
             \/ \E q \in AllSlots : Spawn(q) \/ SpawnAndYield(q)

SchedSafety == SchedInit /\ [][SchedNext]_schedVars

\* A running process yields again and again as long as others wait.
SchedSpec == SchedSafety /\ WF_schedVars(Yield)
=============================================================================
