---------------------------- MODULE AtaDiskProofs ----------------------------
(***************************************************************************)
(* Proof that disk_read and disk_write implement SectorStore, for every    *)
(* volume, every number of sectors and every pace of the drive.            *)
(***************************************************************************)
EXTENDS AtaDisk, SequenceTheorems, TLAPS

CallType ==
    /\ call = [op |-> call.op, lba |-> call.lba, sectors |-> call.sectors,
               data |-> call.data, done |-> call.done]
    /\ call.op \in {"read", "write"}
    /\ call.lba \in Lbas /\ call.sectors \in Nat /\ call.done \in 0 .. call.sectors
    /\ call.sectors > 0 => call.lba + call.sectors - 1 \in Lbas

DriveType ==
    /\ platter = [s \in Drive |-> platter[s]]
    /\ drive = [state |-> drive.state, lba |-> drive.lba,
                data |-> drive.data, err |-> drive.err]
    /\ drive.lba \in Drive

\* The drive works on nothing, on an earlier write, or on the sector the call is
\* waiting for.
Commands ==
    \/ drive.state \in {"idle", "writing"}
    \/ /\ at \in {"bsy", "drq"}
       /\ drive.lba = FAT32_START_LBA + call.lba + call.done
       /\ ~drive.err
       /\ \/ call.op = "read" /\ drive.state \in {"reading", "read"}
          \/ call.op = "write" /\ drive.state \in {"preparing", "prepared"}

\* What has been read is what the store holds.
Buffers ==
    /\ call.op = "write" => buffer = <<>>
    /\ call.op = "read" => buffer = [i \in 1 .. call.done |-> Contents[call.lba + i - 1]]

\* The inductive invariant.  Once the drive has been left alone nothing is
\* promised, and nothing needed.
Promise ==
    /\ DriveType
    /\ at \in {"none", "sector", "bsy", "drq"}
    /\ at = "none" => call = NoCall /\ buffer = <<>>
    /\ at # "none" => CallType
    /\ at \in {"bsy", "drq"} => call.done < call.sectors
    /\ Commands
    /\ drive.state = "read" => drive.data = platter[drive.lba]
    /\ Buffers

DiskInv == broken \in BOOLEAN /\ (~broken => Promise)
-----------------------------------------------------------------------------
\* The sectors of a call lie in the volume, and their addresses fit the ports.
LEMMA SectorInVolume ==
    ASSUME CallType, call.done < call.sectors
    PROVE  /\ call.lba + call.done \in Lbas
           /\ real_lba = FAT32_START_LBA + call.lba + call.done
           /\ real_lba \in Drive
<1> USE AtaDiskAssumption
<1>1. call.lba \in Nat /\ call.done \in Nat /\ call.sectors \in Nat
    BY DEF CallType
<1>2. call.lba + call.sectors - 1 \in Lbas /\ call.lba \in Lbas
    BY <1>1 DEF CallType
<1>3. call.lba + call.done \in call.lba .. (call.lba + call.sectors - 1)
    BY <1>1
<1>4. call.lba + call.done \in Lbas
    BY <1>2, <1>3, Zenon
<1>5. FAT32_START_LBA + call.lba + call.done \in 0 .. LBA_MOD - 1
    BY <1>1, <1>4
<1> QED
    BY <1>4, <1>5 DEF real_lba, Drive

\* Every sector of the volume is one of the drive.
LEMMA VolumeOnDrive ==
    ASSUME NEW l \in Lbas PROVE l \in Nat /\ FAT32_START_LBA + l \in Drive
BY AtaDiskAssumption DEF Drive

\* Writing what the drive has accepted changes nothing for the reader.
LEMMA WriteKeepsContents ==
    ASSUME DriveType, drive.state = "writing",
           drive'.state = "idle", platter' = [platter EXCEPT ![drive.lba] = drive.data]
    PROVE  Contents' = Contents
<1> SUFFICES ASSUME NEW l \in Lbas PROVE Contents'[l] = Contents[l]
    BY Zenon DEF Contents
<1>1. FAT32_START_LBA + l \in Drive /\ drive.lba \in Drive
    BY VolumeOnDrive, Zenon DEF DriveType
<1>2. platter'[FAT32_START_LBA + l] =
        IF drive.lba = FAT32_START_LBA + l THEN drive.data ELSE platter[FAT32_START_LBA + l]
    BY <1>1, Zenon DEF DriveType
<1> QED
    BY <1>2, Zenon DEF Contents

\* Neither does anything else but the start of a write.
LEMMA IdleKeepsContents ==
    ASSUME platter' = platter, drive.state # "writing", drive'.state # "writing"
    PROVE  Contents' = Contents
BY Zenon DEF Contents

LEMMA SameContents ==
    ASSUME platter' = platter, drive' = drive PROVE Contents' = Contents
BY Zenon DEF Contents

LEMMA AppendToFunction ==
    ASSUME NEW n \in Nat, NEW s, s = [i \in 1 .. n |-> s[i]], NEW v
    PROVE  Append(s, v) = [i \in 1 .. n + 1 |-> IF i = n + 1 THEN v ELSE s[i]]
<1> DEFINE S == {s[i] : i \in 1 .. n} \cup {v}
<1>1. s \in [1 .. n -> S]
    BY Zenon
<1>2. s \in Seq(S) /\ Len(s) = n
    BY <1>1
<1>3. v \in S
    BY Zenon
<1> HIDE DEF S
<1>4. /\ Append(s, v) \in Seq(S) /\ Len(Append(s, v)) = n + 1
      /\ \A i \in 1 .. n : Append(s, v)[i] = s[i]
      /\ Append(s, v)[n + 1] = v
    BY <1>2, <1>3, AppendProperties
<1>5. Append(s, v) = [i \in 1 .. n + 1 |-> Append(s, v)[i]]
    BY <1>4
<1> QED
    BY <1>4, <1>5
-----------------------------------------------------------------------------
(* The invariant *)

LEMMA InvInit == Init => DiskInv
<1> SUFFICES ASSUME Init PROVE DiskInv
    BY Zenon
<1>1. DriveType
    BY AtaDiskAssumption DEF Init, DriveType, Drive
<1>2. Commands
    BY Zenon DEF Init, Commands
<1>3. Buffers
    BY Zenon DEF Init, Buffers, NoCall
<1> QED
    BY <1>1, <1>2, <1>3, Zenon DEF Init, DiskInv, Promise

\* The drive's steps: the call it works for stays the same.
LEMMA DriveWorksInv == ASSUME Promise, DriveWorks, ~broken' PROVE Promise'
<1> USE DEF Promise
<1>1. UNCHANGED <<call, at, buffer>>
    BY Zenon DEF DriveWorks
<1>2. DriveType' /\ Commands' /\ (drive.state = "read" => drive.data = platter[drive.lba])'
    BY <1>1, Zenon DEF DriveWorks, DriveType, Commands
<1>3. Contents' = Contents
    <2>1. CASE drive.state = "writing"
        BY <2>1, WriteKeepsContents, Zenon DEF DriveWorks, DriveType
    <2>2. CASE drive.state # "writing"
        BY <2>2, IdleKeepsContents, Zenon DEF DriveWorks, DriveType
    <2> QED
        BY <2>1, <2>2, Zenon
<1>4. Buffers'
    BY <1>1, <1>3, Zenon DEF Buffers
<1>5. CallType' = CallType
    BY <1>1, Zenon DEF CallType
<1> QED
    BY <1>1, <1>2, <1>4, <1>5, Zenon

LEMMA BeginInv == ASSUME Promise, Begin PROVE Promise'
<1> USE DEF Promise
<1>1. UNCHANGED <<platter, drive, buffer>> /\ at = "none" /\ at' = "sector" /\ buffer = <<>>
    BY Zenon DEF Begin
<1>2. PICK op \in {"read", "write"}, n \in 0 .. MAX_SECTORS : call' \in Calls(op, n)
    BY Zenon DEF Begin
<1>3. PICK lba \in {l \in Lbas : n = 0 \/ l + n - 1 \in Lbas} :
        \E data : call' = [op |-> op, lba |-> lba, sectors |-> n, data |-> data, done |-> 0]
    BY <1>2 DEF Calls
<1>4. CallType'
    BY <1>3, AtaDiskAssumption DEF CallType
<1>5. call'.op = op /\ call'.done = 0
    BY <1>3
<1>6. Buffers'
    BY <1>1, <1>5 DEF Buffers
<1>7. DriveType' /\ Commands'
    BY <1>1, Zenon DEF DriveType, Commands
<1> QED
    BY <1>1, <1>4, <1>6, <1>7, Zenon

\* A call returns only between two commands, or breaks the promise.
LEMMA ReturnInv ==
    ASSUME Promise, UNCHANGED <<platter, drive>>, drive.state \in {"idle", "writing"},
           NEW answer, Return(answer)
    PROVE  Promise'
<1>1. at' = "none" /\ call' = NoCall /\ buffer' = <<>>
    BY Zenon DEF Return
<1>2. DriveType' /\ Commands'
    BY Zenon DEF Promise, DriveType, Commands
<1>3. Buffers'
    BY <1>1, Zenon DEF Buffers, NoCall
<1> QED
    BY <1>1, <1>2, <1>3, Zenon DEF Promise

LEMMA FinishInv == ASSUME Promise, Finish PROVE Promise'
<1>1. drive.state \in {"idle", "writing"}
    BY Zenon DEF Finish, Promise, Commands
<1> QED
    BY <1>1, ReturnInv, Zenon DEF Finish

LEMMA DiskErrorInv == ASSUME Promise, DiskError PROVE Promise'
<1>1. drive.state \in {"idle", "writing"}
    BY Zenon DEF DiskError, Promise, Commands
<1> QED
    BY <1>1, ReturnInv, Zenon DEF DiskError

LEMMA TimeOutInv == ASSUME Promise, ~broken, TimeOut, ~broken' PROVE Promise'
<1>1. drive.state \in {"idle", "writing"}
    BY Zenon DEF TimeOut
<1> QED
    BY <1>1, ReturnInv, Zenon DEF TimeOut

LEMMA SendCommandInv == ASSUME Promise, SendCommand PROVE Promise'
<1> USE DEF Promise
<1>1. /\ UNCHANGED <<platter, call, buffer>>
      /\ at = "sector" /\ at' = "bsy" /\ call.done < call.sectors
    BY Zenon DEF SendCommand
<1>2. CallType /\ CallType' = CallType
    BY <1>1, Zenon DEF CallType
<1>3. real_lba = FAT32_START_LBA + call.lba + call.done /\ real_lba \in Drive
    BY <1>1, <1>2, SectorInVolume, Zenon
<1>4. drive.state \in {"idle", "writing"}
    BY <1>1, Zenon DEF Commands
<1>5. CASE drive.state = "idle"
    <2>1. drive' = [state |-> IF call.op = "read" THEN "reading" ELSE "preparing",
                    lba |-> real_lba, data |-> NoData, err |-> FALSE]
        BY <1>5, Zenon DEF SendCommand
    <2>2. /\ drive'.state = IF call.op = "read" THEN "reading" ELSE "preparing"
          /\ drive'.lba = real_lba /\ ~drive'.err
        BY <2>1, Zenon
    <2>3. DriveType'
        BY <1>1, <1>3, <2>1, Zenon DEF DriveType
    <2>4. Commands'
        BY <1>1, <1>2, <1>3, <2>2, Zenon DEF Commands, CallType
    <2>5. Buffers'
        BY <1>1, <1>5, <2>2, IdleKeepsContents, Zenon DEF Buffers
    <2> QED
        BY <1>1, <1>2, <2>2, <2>3, <2>4, <2>5, Zenon
<1>6. CASE drive.state = "writing"
    <2>1. drive' = drive
        BY <1>6, Zenon DEF SendCommand
    <2>2. DriveType' /\ Commands' /\ drive'.state # "read"
        BY <1>1, <1>6, <2>1, Zenon DEF DriveType, Commands
    <2>3. Buffers'
        BY <1>1, <2>1, SameContents, Zenon DEF Buffers
    <2> QED
        BY <1>1, <1>2, <2>2, <2>3, Zenon
<1> QED
    BY <1>4, <1>5, <1>6, Zenon

LEMMA BsyClearInv == ASSUME Promise, BsyClear PROVE Promise'
<1> USE DEF Promise
<1>1. UNCHANGED <<platter, drive, call, buffer>> /\ at = "bsy" /\ at' = "drq"
    BY Zenon DEF BsyClear
<1>2. DriveType' /\ Commands' /\ CallType'
    BY <1>1, Zenon DEF DriveType, Commands, CallType
<1>3. Buffers'
    BY <1>1, SameContents, Zenon DEF Buffers
<1> QED
    BY <1>1, <1>2, <1>3, Zenon

\* A sector is transferred to or from the drive's own command.
LEMMA TransferFacts ==
    ASSUME Promise, Transfer
    PROVE  /\ CallType /\ call.done < call.sectors
           /\ drive.lba = FAT32_START_LBA + call.lba + call.done
           /\ call.lba + call.done \in Lbas
           /\ call.op = "read" => drive.state = "read"
           /\ call.op = "write" => drive.state = "prepared"
<1>1. at = "drq" /\ drive.state \in {"read", "prepared"}
    BY Zenon DEF Transfer, DRQ
<1>2. CallType /\ call.done < call.sectors
    BY <1>1, Zenon DEF Promise
<1> QED
    BY <1>1, <1>2, SectorInVolume, Zenon DEF Promise, Commands

LEMMA TransferInv == ASSUME Promise, Transfer PROVE Promise'
<1>1. at' = "sector" /\ call' = [call EXCEPT !.done = @ + 1] /\ platter' = platter
    BY Zenon DEF Transfer
<1>2. /\ CallType /\ call.done < call.sectors
      /\ call.lba + call.done \in Lbas
    BY TransferFacts, Zenon
<1>3. /\ call'.op = call.op /\ call'.lba = call.lba /\ call'.sectors = call.sectors
      /\ call'.data = call.data /\ call'.done = call.done + 1
    BY <1>1, <1>2, Zenon DEF CallType
<1>4. CallType'
    BY <1>1, <1>2, <1>3 DEF CallType
<1>5. CASE call.op = "read"
    <2>1. /\ drive.state = "read" /\ drive.lba = FAT32_START_LBA + call.lba + call.done
          /\ buffer' = Append(buffer, drive.data)
        BY <1>5, TransferFacts, Zenon DEF Transfer
    <2>2. drive' = [drive EXCEPT !.state = "idle", !.data = NoData]
        BY <1>5, <2>1, Zenon DEF Transfer
    <2>3. drive'.state = "idle" /\ DriveType'
        BY <1>1, <2>2, Zenon DEF Promise, DriveType
    <2>4. Contents' = Contents
        BY <1>1, <2>1, <2>3, IdleKeepsContents, Zenon
    <2>5. drive.data = Contents[call.lba + call.done]
        <3>1. FAT32_START_LBA + (call.lba + call.done) = drive.lba
            BY <1>2, <2>1, AtaDiskAssumption DEF CallType
        <3>2. drive.data = platter[drive.lba]
            BY <2>1, Zenon DEF Promise
        <3> QED
            BY <1>2, <2>1, <3>1, <3>2, Zenon DEF Contents
    <2>6. buffer = [i \in 1 .. call.done |-> Contents[call.lba + i - 1]]
            /\ call.done \in Nat /\ call.lba \in Nat
        BY <1>2, <1>5, AtaDiskAssumption DEF Promise, Buffers, CallType
    <2>7. buffer = [i \in 1 .. call.done |-> buffer[i]]
        BY <2>6, Zenon
    <2>8. buffer' = [i \in 1 .. call.done + 1 |->
                       IF i = call.done + 1 THEN drive.data ELSE buffer[i]]
        BY <2>1, <2>6, <2>7, AppendToFunction
    <2>9. ASSUME NEW i \in 1 .. call.done + 1
          PROVE  buffer'[i] = Contents[call.lba + i - 1]
        <3>1. CASE i = call.done + 1
            <4>1. call.lba + i - 1 = call.lba + call.done
                BY <2>6, <3>1
            <4> QED
                BY <2>5, <2>8, <3>1, <4>1, Zenon
        <3>2. CASE i # call.done + 1
            <4>1. i \in 1 .. call.done
                BY <2>6, <3>2
            <4> QED
                BY <2>6, <2>8, <3>2, <4>1, Zenon
        <3> QED
            BY <3>1, <3>2, Zenon
    <2>10. buffer' = [i \in 1 .. call'.done |-> Contents'[call'.lba + i - 1]]
        BY <1>3, <2>4, <2>8, <2>9
    <2>11. Buffers'
        BY <1>3, <1>5, <2>10, Zenon DEF Buffers
    <2>12. Commands'
        BY <2>3, Zenon DEF Commands
    <2> QED
        BY <1>1, <1>4, <2>3, <2>11, <2>12, Zenon DEF Promise
<1>6. CASE call.op = "write"
    <2>1. drive.state = "prepared" /\ buffer' = buffer
        BY <1>6, TransferFacts, Zenon DEF Transfer
    <2>2. drive' = [drive EXCEPT !.state = "writing", !.data = call.data[call.done + 1]]
        BY <1>6, <2>1, Zenon DEF Transfer
    <2>3. drive'.state = "writing" /\ DriveType'
        BY <1>1, <2>2, Zenon DEF Promise, DriveType
    <2>4. Buffers'
        BY <1>3, <1>6, <2>1, Zenon DEF Promise, Buffers
    <2>5. Commands'
        BY <2>3, Zenon DEF Commands
    <2> QED
        BY <1>1, <1>4, <2>3, <2>4, <2>5, Zenon DEF Promise
<1> QED
    BY <1>2, <1>5, <1>6, Zenon DEF CallType

LEMMA InvStep == DiskInv /\ [Next]_vars => DiskInv'
<1> SUFFICES ASSUME DiskInv, [Next]_vars PROVE DiskInv'
    BY Zenon
<1>1. broken' \in BOOLEAN /\ (broken => broken')
    BY Zenon DEF DiskInv, Next, vars, DriveWorks, Begin, DriverStep, Finish, SendCommand,
           BsyClear, DiskError, Transfer, TimeOut
<1> SUFFICES ASSUME ~broken' PROVE Promise'
    BY <1>1, Zenon DEF DiskInv
<1>2. ~broken /\ Promise
    BY <1>1, Zenon DEF DiskInv
<1>3. CASE UNCHANGED vars
    <2>1. DriveType' /\ Commands' /\ CallType' = CallType
        BY <1>2, <1>3, Zenon DEF vars, Promise, DriveType, Commands, CallType
    <2>2. Buffers'
        BY <1>2, <1>3, SameContents, Zenon DEF vars, Promise, Buffers
    <2> QED
        BY <1>2, <1>3, <2>1, <2>2, Zenon DEF vars, Promise
<1>4. CASE Next
    BY <1>2, <1>4, DriveWorksInv, BeginInv, FinishInv, SendCommandInv, BsyClearInv,
       DiskErrorInv, TransferInv, TimeOutInv, Zenon DEF Next, DriverStep
<1> QED
    BY <1>3, <1>4, Zenon
-----------------------------------------------------------------------------
(* The refinement *)

LEMMA InitRefines == Init => Store!Init
<1> SUFFICES ASSUME Init PROVE Store!Init
    BY Zenon
<1>1. ASSUME NEW l \in Lbas PROVE Contents[l] = platter[FAT32_START_LBA + l]
    BY Zenon DEF Init, Contents
<1>2. ASSUME NEW l \in Lbas PROVE platter[FAT32_START_LBA + l] \in Values
    <2>1. PICK s \in Drive : s = FAT32_START_LBA + l
        BY VolumeOnDrive, Zenon
    <2>2. s - FAT32_START_LBA = l
        BY <2>1, VolumeOnDrive, AtaDiskAssumption
    <2>3. platter[s] \in Values \cup {NoData}
            /\ (platter[s] = NoData) = (s - FAT32_START_LBA \notin Lbas)
        BY Zenon DEF Init
    <2>4. platter[s] \in Values
        BY <2>2, <2>3, Zenon
    <2> QED
        BY <2>1, <2>4, Zenon
<1>3. Contents \in [Lbas -> Values]
    BY <1>1, <1>2, Zenon DEF Contents
<1>4. Progress = Store!NoCall
    BY DEF Init, Progress, NoCall, Store!NoCall
<1> QED
    BY <1>3, <1>4, Zenon DEF Init, Store!Init, Failure, Store!Failure

\* A call that returns false.
LEMMA FailRefines ==
    ASSUME CallType, Contents' = Contents, broken' = broken, Return(Failure)
    PROVE  Store!Next
<1>1. Progress.op # "none"
    BY Zenon DEF Progress, CallType
<1>2. Progress' = Store!NoCall
    BY DEF Return, Progress, NoCall, Store!NoCall
<1> QED
    BY <1>1, <1>2, Zenon DEF Return, Failure, Store!Next, Store!Fail, Store!Failure

LEMMA FinishRefines == ASSUME Promise, Finish PROVE Store!Next
<1>1. CallType /\ call.done = call.sectors /\ Contents' = Contents /\ broken' = broken
    BY SameContents, Zenon DEF Finish, Promise
<1>2. CASE call.sectors = 0
    BY <1>1, <1>2, FailRefines, Zenon DEF Finish
<1>3. CASE call.sectors # 0
    <2>1. result' = [ok |-> TRUE, data |-> buffer] /\ call' = NoCall
        BY <1>3, Zenon DEF Finish, Return
    <2>2. Progress' = Store!NoCall
        BY <2>1 DEF Progress, NoCall, Store!NoCall
    <2>3. /\ Progress.op = call.op /\ Progress.sectors = call.sectors
          /\ Progress.lba = call.lba
          /\ call.op = "write" => Progress.done = call.sectors
        BY <1>1, Zenon DEF Progress, CallType
    <2>4. call.op \in {"read", "write"} /\ call.sectors > 0
        BY <1>1, <1>3 DEF CallType
    <2>5. buffer = IF Progress.op = "read"
                     THEN [i \in 1 .. Progress.sectors |-> Contents[Progress.lba + i - 1]]
                     ELSE <<>>
        BY <1>1, <2>3, <2>4, Zenon DEF Promise, Buffers
    <2>6. Store!Succeed
        BY <1>1, <2>1, <2>2, <2>3, <2>4, <2>5, Zenon DEF Store!Succeed
    <2> QED
        BY <2>6, Zenon DEF Store!Next
<1> QED
    BY <1>2, <1>3, Zenon

LEMMA BeginRefines == ASSUME Promise, Begin PROVE Store!Next
<1>1. call = NoCall /\ UNCHANGED <<result, broken>> /\ Contents' = Contents
    BY SameContents, Zenon DEF Begin, Promise
<1>2. Progress.op = "none"
    BY <1>1, Zenon DEF Progress, NoCall
<1>3. PICK op \in {"read", "write"}, n \in 0 .. MAX_SECTORS : call' \in Calls(op, n)
    BY Zenon DEF Begin
<1>4. PICK lba \in {l \in Lbas : n = 0 \/ l + n - 1 \in Lbas},
           data \in IF op = "write" THEN [1 .. n -> Values] ELSE {<<>>} :
             call' = [op |-> op, lba |-> lba, sectors |-> n, data |-> data, done |-> 0]
    BY <1>3 DEF Calls
<1>5. Progress' = call'
    BY <1>4 DEF Progress
<1>6. Progress' \in Store!Calls(op, n)
    BY <1>4, <1>5 DEF Store!Calls
<1>7. Store!Begin
    BY <1>1, <1>2, <1>6, Zenon DEF Store!Begin
<1> QED
    BY <1>7, Zenon DEF Store!Next

\* Sectors read do not concern the store; a sector handed to the drive has been
\* written.
LEMMA TransferRefines == ASSUME Promise, Transfer PROVE Store!Next \/ UNCHANGED Store!vars
<1>1. /\ CallType /\ call.done < call.sectors
      /\ drive.lba = FAT32_START_LBA + call.lba + call.done
      /\ call.lba + call.done \in Lbas
    BY TransferFacts, Zenon
<1>2. /\ call' = [call EXCEPT !.done = @ + 1]
      /\ UNCHANGED <<platter, result, broken>>
    BY Zenon DEF Transfer
<1>3. CASE call.op = "read"
    <2>1. drive.state = "read"
        BY <1>3, TransferFacts, Zenon
    <2>2. drive' = [drive EXCEPT !.state = "idle", !.data = NoData]
        BY <1>3, <2>1, Zenon DEF Transfer
    <2>3. drive'.state = "idle"
        BY <2>2, Zenon DEF Promise, DriveType
    <2>4. Contents' = Contents
        BY <1>2, <2>1, <2>3, IdleKeepsContents, Zenon
    <2>5. Progress' = Progress
        BY <1>1, <1>2, <1>3, Zenon DEF Progress, CallType
    <2> QED
        BY <1>2, <2>4, <2>5, Zenon DEF Store!vars
<1>4. CASE call.op = "write"
    <2>1. drive.state = "prepared"
        BY <1>4, TransferFacts, Zenon
    <2>2. drive' = [drive EXCEPT !.state = "writing", !.data = call.data[call.done + 1]]
        BY <1>4, <2>1, Zenon DEF Transfer
    <2>3. /\ drive'.state = "writing" /\ drive'.lba = drive.lba
          /\ drive'.data = call.data[call.done + 1]
        BY <2>2, Zenon DEF Promise, DriveType
    <2>4. FAT32_START_LBA \in Int /\ call.lba \in Int /\ call.done \in Int
            /\ (\A l \in Lbas : l \in Int)
        BY <1>1, AtaDiskAssumption DEF CallType
    <2>5. ASSUME NEW l \in Lbas
          PROVE  drive.lba = FAT32_START_LBA + l <=> l = call.lba + call.done
        <3>1. l \in Int
            BY <2>4, Zenon
        <3> QED
            BY <1>1, <2>4, <3>1
    <2>6. ASSUME NEW l \in Lbas
          PROVE  Contents'[l] = IF l = call.lba + call.done
                                  THEN call.data[call.done + 1] ELSE Contents[l]
        BY <1>2, <2>1, <2>3, <2>5, Zenon DEF Contents
    <2>7. Contents' = [Contents EXCEPT ![call.lba + call.done] = call.data[call.done + 1]]
        BY <2>6, Zenon DEF Contents
    <2>8. Progress = call /\ Progress' = [call EXCEPT !.done = @ + 1]
        BY <1>1, <1>2, <1>4, Zenon DEF Progress, CallType
    <2>9. Store!WriteSector
        BY <1>1, <1>2, <1>4, <2>7, <2>8, Zenon DEF Store!WriteSector
    <2> QED
        BY <2>9, Zenon DEF Store!Next
<1> QED
    BY <1>1, <1>3, <1>4, Zenon DEF CallType

LEMMA StepRefines ==
    DiskInv /\ [Next]_vars => [Store!Next]_(Store!vars)
<1> SUFFICES ASSUME DiskInv, [Next]_vars PROVE Store!Next \/ UNCHANGED Store!vars
    BY Zenon
<1>1. CASE broken'
    BY <1>1, Zenon DEF Store!Next
<1>2. CASE ~broken'
    <2>1. broken' \in BOOLEAN /\ (broken => broken')
        BY Zenon DEF DiskInv, Next, vars, DriveWorks, Begin, DriverStep, Finish, SendCommand,
               BsyClear, DiskError, Transfer, TimeOut
    <2>2. ~broken /\ Promise /\ broken' = broken
        BY <1>2, <2>1, Zenon DEF DiskInv
    <2>3. CASE DriveWorks
        <3>1. UNCHANGED <<call, result>>
            BY <2>3, Zenon DEF DriveWorks
        <3>2. Contents' = Contents
            <4>1. CASE drive.state = "writing"
                BY <1>2, <2>2, <2>3, <4>1, WriteKeepsContents
               , Zenon DEF DriveWorks, Promise, DriveType
            <4>2. CASE drive.state # "writing"
                BY <2>2, <2>3, <4>2, IdleKeepsContents, Zenon DEF DriveWorks, Promise, DriveType
            <4> QED
                BY <4>1, <4>2, Zenon
        <3> QED
            BY <2>2, <3>1, <3>2, Zenon DEF Store!vars, Progress
    <2>4. CASE Begin
        BY <2>2, <2>4, BeginRefines, Zenon
    <2>5. CASE Finish
        BY <2>2, <2>5, FinishRefines, Zenon
    <2>6. CASE SendCommand
        <3>1. UNCHANGED <<call, result>>
            BY <2>6, Zenon DEF SendCommand
        <3>2. Contents' = Contents
            <4>1. CASE drive.state = "idle"
                <5>1. drive'.state # "writing"
                    BY <2>6, <4>1, Zenon DEF SendCommand
                <5> QED
                    BY <2>6, <4>1, <5>1, IdleKeepsContents, Zenon DEF SendCommand
            <4>2. CASE drive.state # "idle"
                BY <2>6, <4>2, SameContents, Zenon DEF SendCommand
            <4> QED
                BY <4>1, <4>2, Zenon
        <3> QED
            BY <2>2, <3>1, <3>2, Zenon DEF Store!vars, Progress
    <2>7. CASE BsyClear
        BY <2>7, SameContents, Zenon DEF BsyClear, Store!vars, Progress
    <2>8. CASE DiskError
        BY <2>2, <2>8, SameContents, FailRefines, Zenon DEF DiskError, Promise
    <2>9. CASE Transfer
        BY <2>2, <2>9, TransferRefines, Zenon
    <2>10. CASE TimeOut
        BY <2>2, <2>10, SameContents, FailRefines, Zenon DEF TimeOut, GivesUp, Promise
    <2>11. CASE UNCHANGED vars
        BY <2>11, SameContents, Zenon DEF vars, Store!vars, Progress
    <2> QED
        BY <2>3, <2>4, <2>5, <2>6, <2>7, <2>8, <2>9, <2>10, <2>11, Zenon DEF Next, DriverStep
<1> QED
    BY <1>1, <1>2, Zenon

\* For every volume and every length of a call, disk_read and disk_write with the
\* drive behind them behave as the store of sectors that SectorStore specifies, as
\* long as no time-out cuts off a command in progress and the drive writes what
\* it has accepted.
THEOREM DiskIsASectorStore == Spec => ImplementsSectorStore
<1>1. Spec => []DiskInv
    BY InvInit, InvStep, PTL DEF Spec
<1>2. Spec => Store!Init /\ [][Store!Next]_(Store!vars)
    BY <1>1, InitRefines, StepRefines, PTL DEF Spec
<1> QED
    BY <1>2, Zenon DEF ImplementsSectorStore, Store!Spec
=============================================================================
