---------------------------- MODULE SectorStore ----------------------------
(***************************************************************************)
(* What the file system may rely on disk_read and disk_write for: one call *)
(* at a time, a read that succeeds returns the sectors' contents, a write  *)
(* that succeeds has replaced all of them, and one that fails has replaced *)
(* the first few.  Once "broken" is set nothing is promised any more.      *)
(***************************************************************************)
EXTENDS Integers, Sequences

CONSTANTS Lbas, MAX_SECTORS, Values

VARIABLES
    store,      \* the contents of every sector
    call,       \* the call in progress
    result,     \* what the last call returned
    broken

vars == <<store, call, result, broken>>

NoCall == [op |-> "none", lba |-> 0, sectors |-> 0, data |-> <<>>, done |-> 0]
Failure == [ok |-> FALSE, data |-> <<>>]

Init ==
    /\ store \in [Lbas -> Values]
    /\ call = NoCall /\ result = Failure /\ broken = FALSE

Calls(op, sectors) ==
    {[op |-> op, lba |-> lba, sectors |-> sectors, data |-> data, done |-> 0] :
        lba \in {l \in Lbas : sectors = 0 \/ l + sectors - 1 \in Lbas},
        data \in IF op = "write" THEN [1 .. sectors -> Values] ELSE {<<>>}}

Begin ==
    /\ call.op = "none"
    /\ \E op \in {"read", "write"}, n \in 0 .. MAX_SECTORS : call' \in Calls(op, n)
    /\ UNCHANGED <<store, result, broken>>

WriteSector ==
    /\ call.op = "write" /\ call.done < call.sectors
    /\ store' = [store EXCEPT ![call.lba + call.done] = call.data[call.done + 1]]
    /\ call' = [call EXCEPT !.done = @ + 1]
    /\ UNCHANGED <<result, broken>>

Succeed ==
    /\ call.op # "none" /\ call.sectors > 0
    /\ call.op = "write" => call.done = call.sectors
    /\ result' = [ok |-> TRUE,
                  data |-> IF call.op = "read"
                             THEN [i \in 1 .. call.sectors |-> store[call.lba + i - 1]]
                             ELSE <<>>]
    /\ call' = NoCall
    /\ UNCHANGED <<store, broken>>

Fail ==
    /\ call.op # "none"
    /\ result' = Failure /\ call' = NoCall
    /\ UNCHANGED <<store, broken>>

Next == Begin \/ WriteSector \/ Succeed \/ Fail \/ broken'

Spec == Init /\ [][Next]_vars
=============================================================================
