------------------------------ MODULE AtaDisk ------------------------------
(***************************************************************************)
(* IO_Main.c: disk_read and disk_write, which poll an ATA drive through    *)
(* its ports, and the drive (external), which works at its own pace.       *)
(*                                                                         *)
(* The drive obeys a command only if it is idle: one that arrives while    *)
(* BSY or DRQ is set is ignored, and disk_write returns when the drive has *)
(* the data, not when it has written them.  A loop that waits for a status *)
(* bit ends after 10,000,000 polls; how many of its polls the drive takes  *)
(* is open, so a loop may end at any of them.  The 256 words of a sector   *)
(* are transferred in one step.                                            *)
(***************************************************************************)
EXTENDS Integers, Sequences

CONSTANTS
    Lbas,               \* the sectors of the volume, from 0
    MAX_SECTORS,        \* bound: sectors in one call
    Values,             \* contents of a sector
    FAT32_START_LBA,    \* where on the drive the volume starts
    LBA_MOD             \* 2^28: more does not fit the ports

Drive == 0 .. LBA_MOD - 1

\* The volume is contiguous, and ends where the ports' addresses do.
ASSUME AtaDiskAssumption ==
    /\ FAT32_START_LBA \in Nat /\ LBA_MOD \in Nat \ {0} /\ MAX_SECTORS \in Nat
    /\ Lbas \subseteq {l \in Nat : FAT32_START_LBA + l < LBA_MOD}
    /\ \A a, b \in Lbas : a .. b \subseteq Lbas

VARIABLES
    platter,    \* the sectors of the drive
    drive,      \* its state, the sector it works on, the data it holds, ERR
    call,       \* the call in progress; done: sectors transferred
    at,         \* where disk_read or disk_write is
    buffer,     \* the caller's buffer, as far as disk_read has filled it
    result,     \* what the last call returned
    broken      \* history: the drive was left alone in the middle of a command,
                \* or could not write data it had accepted

vars == <<platter, drive, call, at, buffer, result, broken>>

NoData == 0
NoCall == [op |-> "none", lba |-> 0, sectors |-> 0, data |-> <<>>, done |-> 0]
Failure == [ok |-> FALSE, data |-> <<>>]

Init ==
    /\ platter \in {p \in [Drive -> Values \cup {NoData}] :
                      \A s \in Drive : (p[s] = NoData) = (s - FAT32_START_LBA \notin Lbas)}
    /\ drive = [state |-> "idle", lba |-> 0, data |-> NoData, err |-> FALSE]
    /\ call = NoCall /\ at = "none" /\ buffer = <<>> /\ result = Failure
    /\ broken = FALSE
-----------------------------------------------------------------------------
(* The drive *)

BSY == drive.state \in {"reading", "preparing", "writing"}
DRQ == drive.state \in {"read", "prepared"}

\* It finishes what it is doing, well or with an error.
DriveWorks ==
    /\ \/ /\ drive.state = "reading"
          /\ drive' \in {[drive EXCEPT !.state = "read", !.data = platter[drive.lba]],
                         [drive EXCEPT !.state = "idle", !.err = TRUE]}
          /\ UNCHANGED <<platter, broken>>
       \/ /\ drive.state = "preparing"
          /\ drive' \in {[drive EXCEPT !.state = "prepared"],
                         [drive EXCEPT !.state = "idle", !.err = TRUE]}
          /\ UNCHANGED <<platter, broken>>
       \/ /\ drive.state = "writing"
          /\ drive' = [drive EXCEPT !.state = "idle", !.data = NoData]
          /\ platter' = [platter EXCEPT ![drive.lba] = drive.data]
          /\ UNCHANGED broken
       \/ /\ drive.state = "writing"
          /\ drive' = [drive EXCEPT !.state = "idle", !.data = NoData, !.err = TRUE]
          /\ broken' = TRUE
          /\ UNCHANGED platter
    /\ UNCHANGED <<call, at, buffer, result>>
-----------------------------------------------------------------------------
(* disk_read and disk_write *)

Calls(op, sectors) ==
    {[op |-> op, lba |-> lba, sectors |-> sectors, data |-> data, done |-> 0] :
        lba \in {l \in Lbas : sectors = 0 \/ l + sectors - 1 \in Lbas},
        data \in IF op = "write" THEN [1 .. sectors -> Values] ELSE {<<>>}}

Begin ==
    /\ at = "none"
    /\ \E op \in {"read", "write"}, n \in 0 .. MAX_SECTORS : call' \in Calls(op, n)
    /\ at' = "sector"
    /\ UNCHANGED <<platter, drive, buffer, result, broken>>

Return(answer) ==
    /\ result' = answer
    /\ call' = NoCall /\ at' = "none" /\ buffer' = <<>>

\* The end of the loop over the sectors; without sectors the answer is false.
Finish ==
    /\ at = "sector" /\ call.done = call.sectors
    /\ Return(IF call.sectors = 0 THEN Failure ELSE [ok |-> TRUE, data |-> buffer])
    /\ UNCHANGED <<platter, drive, broken>>

\* Faulty form: every turn of the loop asks for the first sector.
real_lba_first == (FAT32_START_LBA + call.lba) % LBA_MOD

real_lba == (FAT32_START_LBA + call.lba + call.done) % LBA_MOD

\* The address and the command go to the ports.
SendCommand ==
    /\ at = "sector" /\ call.done < call.sectors
    /\ at' = "bsy"
    /\ drive' = IF drive.state = "idle"
                  THEN [state |-> IF call.op = "read" THEN "reading" ELSE "preparing",
                        lba |-> real_lba, data |-> NoData, err |-> FALSE]
                  ELSE drive
    /\ UNCHANGED <<platter, call, buffer, result, broken>>

BsyClear ==
    /\ at = "bsy" /\ ~BSY
    /\ at' = "drq"
    /\ UNCHANGED <<platter, drive, call, buffer, result, broken>>

\* Only disk_read looks at ERR.
DiskError ==
    /\ at = "drq" /\ call.op = "read" /\ drive.err
    /\ Return(Failure)
    /\ UNCHANGED <<platter, drive, broken>>

\* 256 words in, or out; the drive ignores a transfer it does not expect.
Transfer ==
    /\ at = "drq" /\ DRQ /\ ~(call.op = "read" /\ drive.err)
    /\ at' = "sector"
    /\ call' = [call EXCEPT !.done = @ + 1]
    /\ \/ /\ call.op = "read"
          /\ buffer' = Append(buffer, drive.data)
          /\ drive' = IF drive.state = "read"
                        THEN [drive EXCEPT !.state = "idle", !.data = NoData] ELSE drive
       \/ /\ call.op = "write"
          /\ drive' = IF drive.state = "prepared"
                        THEN [drive EXCEPT !.state = "writing",
                                           !.data = call.data[call.done + 1]]
                        ELSE drive
          /\ UNCHANGED buffer
    /\ UNCHANGED <<platter, result, broken>>

\* Too many polls.  disk_read counts a poll before it looks at DRQ, and so may
\* leave a sector the drive has just got ready.
GivesUp ==
    \/ at = "bsy" /\ BSY
    \/ at = "drq" /\ (IF call.op = "read" THEN ~drive.err ELSE ~DRQ)

\* Faulty form: the sector is tried again.
TimeOut_retries ==
    /\ GivesUp
    /\ at' = "sector"
    /\ UNCHANGED <<platter, drive, call, buffer, result, broken>>

\* The call fails, and the drive goes on with its command (or with the write of
\* an earlier sector, because of which it ignored the command).
TimeOut ==
    /\ GivesUp
    /\ Return(Failure)
    /\ broken' = (broken \/ drive.state \notin {"idle", "writing"})
    /\ UNCHANGED <<platter, drive>>

DriverStep == Finish \/ SendCommand \/ BsyClear \/ DiskError \/ Transfer \/ TimeOut

Next == DriveWorks \/ Begin \/ DriverStep

\* The processor keeps executing the function it is in; polling ends.
Spec == Init /\ [][Next]_vars /\ WF_vars(DriverStep)
-----------------------------------------------------------------------------
(* Properties *)

\* A sector the drive has the data for counts as written.
Contents ==
    [l \in Lbas |-> IF drive.state = "writing" /\ drive.lba = FAT32_START_LBA + l
                      THEN drive.data ELSE platter[FAT32_START_LBA + l]]

\* The sectors already read are of no concern to the store.
Progress == [call EXCEPT !.done = IF call.op = "write" THEN @ ELSE 0]

Store == INSTANCE SectorStore WITH store <- Contents, call <- Progress

\* As long as no time-out cuts off a command the drive is working on, and the
\* drive writes what it has accepted, disk_read and disk_write are a store of
\* sectors: although commands are lost when the drive is still writing, no
\* call that returns true has returned or written the wrong sector.
ImplementsSectorStore == Store!Spec

\* Every call returns, whatever the drive does.
DiskCallsReturn == at # "none" ~> at = "none"
=============================================================================
