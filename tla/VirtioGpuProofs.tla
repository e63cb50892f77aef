--------------------------- MODULE VirtioGpuProofs ---------------------------
(***************************************************************************)
(* Proofs about VirtioGpu, for every number of polls, range of indices,    *)
(* layout of the responses and set of frames.                              *)
(*                                                                         *)
(* The inductive invariant has three parts.  Counting says how far the     *)
(* indices are apart, measured from the one the driver has seen, and how   *)
(* far they can be where the driver is.  Starting says what the device has *)
(* done by the time virtio_gpu_init is at each command.  InStep says what  *)
(* device and driver are at as long as the driver has never given up.      *)
(***************************************************************************)
EXTENDS VirtioGpu, TLAPS

Indices == 0 .. IDX_MOD - 1

Responses == {"zero", "ok_display", "ok_nodata", "error"}

AllAddresses == {layout[k] : layout \in Layouts, k \in Kinds} \cup {"none"}

Works == Kinds \cup {"garbage", "done", "none"}

DeviceType ==
    [status : {"reset", "failed", "features_ok", "driver_ok"}, enabled : BOOLEAN,
     last_avail : Indices, working : Works, writes_to : AllAddresses,
     resource : BOOLEAN, backing : BOOLEAN, scanout : BOOLEAN,
     host : Frames, shown : Frames]

Issuing == {"desc0", "desc1", "publish"}
Waiting == {"wait", "seen"}
InCommand == Issuing \cup Waiting \cup {"check"}

GpuTypeOK ==
    /\ Resp \in Layouts
    /\ pc \in {"start", "queue", "driver_ok", "idle", "down"} \cup InCommand
    /\ cmd \in Kinds \cup {"none"}
    /\ cmd # "none" <=> pc \in InCommand
    /\ avail_idx \in Indices /\ used_idx_seen \in Indices /\ used_idx \in Indices
    /\ desc \in [command : Kinds \cup {"none"}, resp : AllAddresses]
    /\ response \in [Addresses -> Responses]
    /\ dev \in DeviceType
    /\ g_gpu_ready \in BOOLEAN /\ g_gpu_fb \in Frames /\ gave_up \in BOOLEAN

\* How far index i is ahead of index j.
Ahead(i, j) == IF i >= j THEN i - j ELSE i - j + IDX_MOD

Published == Ahead(avail_idx, used_idx_seen)
Fetched == Ahead(dev.last_avail, used_idx_seen)
Used == Ahead(used_idx, used_idx_seen)

InitCommands == {"display_info", "create", "attach", "scanout"}

\* The most commands there can be behind the index the driver has seen.
MostPublished ==
    IF pc \in {"start", "queue", "driver_ok"} THEN 0
    ELSE IF pc = "idle" THEN MAX_PENDING + 2
    ELSE IF pc = "down" THEN 2
    ELSE IF cmd = "display_info" THEN IF pc \in Waiting THEN 1 ELSE 0
    ELSE IF cmd \in InitCommands THEN IF pc \in Waiting THEN 2 ELSE 1
    ELSE IF cmd = "transfer" THEN
            IF pc \in Waiting THEN MAX_PENDING + 3
            ELSE IF pc = "check" THEN MAX_PENDING + 1 ELSE MAX_PENDING + 2
    ELSE IF pc \in Issuing THEN MAX_PENDING + 1 ELSE MAX_PENDING + 2

Counting ==
    /\ Used <= Fetched /\ Fetched <= Published
    /\ Fetched = IF dev.working = "none" THEN Used ELSE Used + 1
    /\ Published <= MostPublished
    /\ cmd = "transfer" /\ pc \in Issuing => Published - Used <= MAX_PENDING
    /\ cmd = "transfer" /\ pc \in Waiting => Published - Used <= MAX_PENDING + 1
    /\ pc = "seen" => Used > 0
    /\ pc \in InCommand \ {"desc0"} => desc.command = cmd
    /\ Published > 0 => desc.command # "none"

Configured == dev.status = "driver_ok" /\ dev.resource /\ dev.backing /\ dev.scanout

\* Commands the device may have found so far.
Found == {dev.working, desc.command}

Succeeded(k) == response[Resp[k]] = "ok_nodata"

Starting ==
    /\ pc \in {"start", "queue", "driver_ok"} =>
          ~g_gpu_ready /\ Found = {"none"}
    /\ pc \in InCommand => dev.status = "driver_ok"
    /\ pc = "idle" => g_gpu_ready
    /\ cmd \in InitCommands => ~g_gpu_ready
    /\ cmd \in {"transfer", "flush"} => g_gpu_ready
    /\ dev.backing => dev.resource
    /\ cmd \in InitCommands => Found \cap {"transfer", "flush"} = {}
    /\ cmd \in InitCommands \ {"scanout"} => "scanout" \notin Found
    /\ cmd = "create" /\ Succeeded("create") => dev.resource
    /\ cmd = "attach" => dev.resource /\ (Succeeded("attach") => dev.backing)
    /\ cmd = "scanout" => dev.resource /\ dev.backing /\ (Succeeded("scanout") => dev.scanout)
    /\ g_gpu_ready => Configured

\* The device has executed the command the driver is at.
Done == dev.working = "done" \/ Used > 0 \/ pc = "check"

InStep ==
    ~gave_up =>
        /\ pc \notin Waiting => Published = 0
        /\ pc \in Waiting => Published = 1
        /\ dev.working \in {"none", "done", cmd}
        /\ cmd = "transfer" /\ Done => dev.host = g_gpu_fb
        /\ cmd = "flush" => dev.host = g_gpu_fb
        /\ cmd = "flush" /\ Done => dev.shown = g_gpu_fb

GpuInv == GpuTypeOK /\ Counting /\ Starting /\ InStep
-----------------------------------------------------------------------------
(* Arithmetic of the indices *)

LEMMA NextIndex ==
    ASSUME NEW i \in Indices
    PROVE  (i + 1) % IDX_MOD = IF i = IDX_MOD - 1 THEN 0 ELSE i + 1
BY VirtioGpuAssumption DEF Indices

LEMMA AheadIsDifference ==
    ASSUME NEW i \in Indices, NEW j \in Indices
    PROVE  (i - j) % IDX_MOD = Ahead(i, j)
BY VirtioGpuAssumption DEF Indices, Ahead

LEMMA AheadType ==
    ASSUME NEW i \in Indices, NEW j \in Indices
    PROVE  Ahead(i, j) \in Indices
BY VirtioGpuAssumption DEF Indices, Ahead

\* One more is one further ahead, unless that goes all the way round.
LEMMA OneFurther ==
    ASSUME NEW i \in Indices, NEW j \in Indices, Ahead(i, j) < IDX_MOD - 1
    PROVE  /\ (i + 1) % IDX_MOD \in Indices
           /\ Ahead((i + 1) % IDX_MOD, j) = Ahead(i, j) + 1
<1>1. (i + 1) % IDX_MOD = IF i = IDX_MOD - 1 THEN 0 ELSE i + 1
    BY NextIndex, Zenon
<1> QED
    BY <1>1, VirtioGpuAssumption DEF Indices, Ahead

\* Measured from another index in between.
LEMMA AheadOfLater ==
    ASSUME NEW i \in Indices, NEW j \in Indices, NEW k \in Indices,
           Ahead(k, j) <= Ahead(i, j)
    PROVE  Ahead(i, k) = Ahead(i, j) - Ahead(k, j)
BY VirtioGpuAssumption DEF Indices, Ahead
-----------------------------------------------------------------------------
LEMMA GpuInvInit == Init => GpuInv
<1> SUFFICES ASSUME Init PROVE GpuInv
    BY Zenon
<1>1. GpuTypeOK
    <2>1. 0 \in Indices /\ BlankFrame \in Frames
        BY VirtioGpuAssumption DEF Indices
    <2>2. dev \in DeviceType /\ desc \in [command : Kinds \cup {"none"}, resp : AllAddresses]
        BY <2>1 DEF Init, DeviceType, Works, AllAddresses
    <2>3. response \in [Addresses -> Responses]
        BY Zenon DEF Init, Responses
    <2> QED
        BY <2>1, <2>2, <2>3, Zenon DEF Init, GpuTypeOK, InCommand, Issuing, Waiting, Kinds
<1>2. Published = 0 /\ Fetched = 0 /\ Used = 0
    BY DEF Init, Published, Fetched, Used, Ahead
<1>3. Counting
    BY <1>2 DEF Init, Counting, MostPublished, InCommand, Issuing, Waiting
<1>4. Starting
    BY Zenon DEF Init, Starting, Found, InCommand, Issuing, Waiting, InitCommands
<1>5. InStep
    BY <1>2, Zenon DEF Init, InStep, Waiting
<1> QED
    BY <1>1, <1>3, <1>4, <1>5, Zenon DEF GpuInv
-----------------------------------------------------------------------------
(* Types *)

LEMMA BeginTypes ==
    ASSUME GpuTypeOK, NEW k \in Kinds, Begin(k)
    PROVE  cmd' \in Kinds /\ pc' = "desc0" /\ response' \in [Addresses -> Responses]
BY Zenon DEF GpuTypeOK, Begin, Responses

LEMMA ContinueTypes ==
    ASSUME GpuTypeOK, NEW ok \in BOOLEAN, Continue(ok)
    PROVE  /\ pc' \in {"idle", "down", "desc0"}
           /\ cmd' \in Kinds \cup {"none"}
           /\ cmd' # "none" <=> pc' = "desc0"
           /\ response' \in [Addresses -> Responses]
           /\ g_gpu_ready' \in BOOLEAN
BY BeginTypes, Zenon DEF GpuTypeOK, Continue, Begin, Kinds

\* The fields of the device after a command.
LEMMA ExecuteFields ==
    ASSUME GpuTypeOK, Execute
    PROVE  LET k == dev.working IN
           /\ dev' \in DeviceType /\ dev'.working = "done"
           /\ dev'.last_avail = dev.last_avail /\ dev'.status = dev.status
           /\ dev'.resource <=> dev.resource \/ (k = "create" /\ Legal(k))
           /\ dev'.backing <=> dev.backing \/ (k = "attach" /\ Legal(k))
           /\ dev'.scanout <=> dev.scanout \/ (k = "scanout" /\ Legal(k))
           /\ dev'.host = IF k = "transfer" /\ Legal(k) THEN g_gpu_fb ELSE dev.host
           /\ dev'.shown = IF k = "flush" /\ Legal(k) /\ dev.scanout
                             THEN dev.host ELSE dev.shown
<1> DEFINE k == dev.working
           r == dev.resource \/ (k = "create" /\ Legal(k))
           b == dev.backing \/ (k = "attach" /\ Legal(k))
           c == dev.scanout \/ (k = "scanout" /\ Legal(k))
           h == IF k = "transfer" /\ Legal(k) THEN g_gpu_fb ELSE dev.host
           w == IF (k = "flush" /\ Legal(k)) /\ dev.scanout THEN dev.host ELSE dev.shown
<1>1. dev' = [dev EXCEPT !.working = "done", !.resource = r, !.backing = b,
                         !.scanout = c, !.host = h, !.shown = w]
    BY Zenon DEF Execute
<1>2. r \in BOOLEAN /\ b \in BOOLEAN /\ c \in BOOLEAN
    BY Zenon
<1>3. dev \in DeviceType /\ g_gpu_fb \in Frames
    BY Zenon DEF GpuTypeOK
<1>4. h \in Frames /\ w \in Frames
    BY <1>3, Zenon DEF DeviceType
<1> HIDE DEF r, b, c, h, w
<1>5. /\ dev' \in DeviceType /\ dev'.working = "done"
      /\ dev'.last_avail = dev.last_avail /\ dev'.status = dev.status
      /\ dev'.resource = r /\ dev'.backing = b /\ dev'.scanout = c
      /\ dev'.host = h /\ dev'.shown = w
    BY <1>1, <1>2, <1>3, <1>4 DEF DeviceType, Works
<1> QED
    BY <1>5, Zenon DEF r, b, c, h, w

LEMMA TypeStep ==
    ASSUME GpuTypeOK, [Next]_vars
    PROVE  GpuTypeOK'
<1>0. Resp' = Resp /\ Addresses' = Addresses
    BY Zenon DEF Next, vars, Addresses
<1> USE DEF GpuTypeOK, InCommand, Issuing, Waiting
<1>1. ASSUME NoDevice, UNCHANGED gave_up PROVE GpuTypeOK'
    BY <1>0, <1>1, Zenon DEF NoDevice
<1>2. ASSUME virtio_pci_device_init, UNCHANGED gave_up PROVE GpuTypeOK'
    BY <1>0, <1>2, Zenon DEF virtio_pci_device_init, DeviceType
<1>3. ASSUME virtqueue_init_ctrl, UNCHANGED gave_up PROVE GpuTypeOK'
    BY <1>0, <1>3 DEF virtqueue_init_ctrl, DeviceType
<1>4. ASSUME SetDriverOk, UNCHANGED gave_up PROVE GpuTypeOK'
    BY <1>0, <1>4, BeginTypes, Zenon DEF SetDriverOk, DeviceType, Kinds
<1>5. ASSUME WriteDesc0, UNCHANGED gave_up PROVE GpuTypeOK'
    BY <1>0, <1>5, Zenon DEF WriteDesc0
<1>6. ASSUME WriteDesc1, UNCHANGED gave_up PROVE GpuTypeOK'
    BY <1>0, <1>6 DEF WriteDesc1, AllAddresses
<1>7. ASSUME Publish, UNCHANGED gave_up PROVE GpuTypeOK'
    BY <1>0, <1>7, VirtioGpuAssumption DEF Publish, Indices
<1>8. ASSUME SeeCompletion, UNCHANGED gave_up PROVE GpuTypeOK'
    BY <1>0, <1>8, Zenon DEF SeeCompletion
<1>9. ASSUME TakeIndex, UNCHANGED gave_up PROVE GpuTypeOK'
    BY <1>0, <1>9, Zenon DEF TakeIndex
<1>10. ASSUME CheckResponse, UNCHANGED gave_up PROVE GpuTypeOK'
    <2>1. Accepts(cmd) \in BOOLEAN
        BY Zenon DEF Accepts
    <2> QED
        BY <1>0, <1>10, <2>1, ContinueTypes, Zenon DEF CheckResponse
<1>11. ASSUME Poll, UNCHANGED gave_up PROVE GpuTypeOK'
    BY <1>0, <1>11, Zenon DEF Poll
<1>12. ASSUME TimeOut PROVE GpuTypeOK'
    BY <1>0, <1>12, ContinueTypes, Zenon DEF TimeOut
<1>13. ASSUME Fetch, UNCHANGED gave_up PROVE GpuTypeOK'
    <2>1. CommandsAt \subseteq Works
        BY Zenon DEF CommandsAt, Works
    <2>2. (dev.last_avail + 1) % IDX_MOD \in Indices
        BY VirtioGpuAssumption DEF DeviceType, Indices
    <2>3. dev' \in DeviceType
        BY <1>13, <2>1, <2>2 DEF Fetch, DeviceType
    <2> QED
        BY <1>0, <1>13, <2>3, Zenon DEF Fetch, driver
<1>14. ASSUME Execute, UNCHANGED gave_up PROVE GpuTypeOK'
    <2>1. response' \in [Addresses -> Responses]
        BY <1>14, Zenon DEF Execute, Responses
    <2>2. dev' \in DeviceType
        BY <1>14, ExecuteFields, Zenon
    <2> QED
        BY <1>0, <1>14, <2>1, <2>2, Zenon DEF Execute, driver
<1>15. ASSUME Use, UNCHANGED gave_up PROVE GpuTypeOK'
    BY <1>0, <1>15, VirtioGpuAssumption DEF Use, driver, DeviceType, Works, Indices
<1>16. ASSUME virtio_gpu_present, UNCHANGED gave_up PROVE GpuTypeOK'
    BY <1>0, <1>16, BeginTypes, Zenon DEF virtio_gpu_present, vars, driver, Kinds
<1>17. ASSUME NEW frame \in Frames, Draw(frame), UNCHANGED gave_up PROVE GpuTypeOK'
    BY <1>0, <1>17, Zenon DEF Draw
<1>18. ASSUME UNCHANGED vars PROVE GpuTypeOK'
    BY <1>0, <1>18, Zenon DEF vars, driver
<1> HIDE DEF GpuTypeOK
<1> QED
    BY <1>1, <1>2, <1>3, <1>4, <1>5, <1>6, <1>7, <1>8, <1>9, <1>10, <1>11, <1>12, <1>13, <1>14, <1>15, <1>16, <1>17, <1>18, Zenon DEF Next, DriverStep, DeviceStep
-----------------------------------------------------------------------------
(* Counting *)

LEMMA Distances ==
    ASSUME GpuTypeOK
    PROVE  Published \in Indices /\ Fetched \in Indices /\ Used \in Indices
BY AheadType, Zenon DEF GpuTypeOK, DeviceType, Published, Fetched, Used

LEMMA MostIsSmall == MostPublished \in Nat /\ MostPublished <= MAX_PENDING + 3
BY VirtioGpuAssumption DEF MostPublished

\* Steps that leave the indices and the device's work alone.
LEMMA Unmoved ==
    ASSUME UNCHANGED <<avail_idx, used_idx_seen, used_idx>>,
           dev'.last_avail = dev.last_avail
    PROVE  Published' = Published /\ Fetched' = Fetched /\ Used' = Used
BY Zenon DEF Published, Fetched, Used

LEMMA SmallDistances ==
    ASSUME GpuTypeOK, Counting
    PROVE  /\ Published \in Nat /\ Fetched \in Nat /\ Used \in Nat
           /\ Published <= IDX_MOD - 1 /\ Published <= MAX_PENDING + 3
BY Distances, MostIsSmall, VirtioGpuAssumption DEF Indices, Counting

LEMMA PublishMoves ==
    ASSUME GpuTypeOK, Counting, Publish
    PROVE  Published' = Published + 1 /\ Fetched' = Fetched /\ Used' = Used /\ dev' = dev
<1>1. Published < IDX_MOD - 1
    BY SmallDistances, VirtioGpuAssumption
    DEF Publish, Counting, MostPublished, Issuing, Waiting, GpuTypeOK
<1> QED
    BY <1>1, OneFurther, Zenon DEF Publish, Published, Fetched, Used, GpuTypeOK

LEMMA TakeMoves ==
    ASSUME GpuTypeOK, Counting, TakeIndex
    PROVE  Published' = Published - Used /\ Fetched' = Fetched - Used /\ Used' = 0
<1>1. Used <= Fetched /\ Fetched <= Published /\ Used <= Published
    BY SmallDistances DEF Counting
<1>2. /\ avail_idx \in Indices /\ used_idx \in Indices /\ used_idx_seen \in Indices
      /\ dev.last_avail \in Indices
    BY Zenon DEF GpuTypeOK, DeviceType
<1>3. Ahead(used_idx, used_idx) = 0
    BY <1>2 DEF Ahead, Indices
<1>4. Ahead(avail_idx, used_idx) = Published - Used
    BY <1>1, <1>2, AheadOfLater, Zenon DEF Published, Used
<1>5. Ahead(dev.last_avail, used_idx) = Fetched - Used
    BY <1>1, <1>2, AheadOfLater, Zenon DEF Fetched, Used
<1> QED
    BY <1>3, <1>4, <1>5, Zenon DEF TakeIndex, Published, Fetched, Used

LEMMA FetchMoves ==
    ASSUME GpuTypeOK, Counting, Fetch
    PROVE  /\ Fetched < Published
           /\ Published' = Published /\ Fetched' = Fetched + 1 /\ Used' = Used
           /\ dev'.working \in CommandsAt \ {"none"}
<1>1. Published \in Nat /\ Fetched \in Nat /\ Published <= IDX_MOD - 1
    BY SmallDistances, Zenon
<1>2. Fetched # Published
    BY VirtioGpuAssumption
    DEF Fetch, Fetched, Published, Ahead, GpuTypeOK, DeviceType, Indices
<1>3. Fetched < Published
    BY <1>1, <1>2 DEF Counting
<1>4. dev'.last_avail = (dev.last_avail + 1) % IDX_MOD /\ dev'.working \in CommandsAt
    BY Zenon DEF Fetch, GpuTypeOK, DeviceType
<1>5. "none" \notin CommandsAt
    BY <1>1, <1>3 DEF CommandsAt, Counting
<1>6. dev.last_avail \in Indices /\ used_idx_seen \in Indices
    BY Zenon DEF GpuTypeOK, DeviceType
<1>7. Fetched < IDX_MOD - 1
    BY <1>1, <1>3, VirtioGpuAssumption
<1>8. Published' = Published /\ Fetched' = Fetched + 1 /\ Used' = Used
    BY <1>4, <1>6, <1>7, OneFurther, Zenon DEF Fetch, driver, Published, Fetched, Used
<1> QED
    BY <1>3, <1>4, <1>5, <1>8, Zenon

LEMMA UseMoves ==
    ASSUME GpuTypeOK, Counting, Use
    PROVE  Published' = Published /\ Fetched' = Fetched /\ Used' = Used + 1
<1>1. dev'.last_avail = dev.last_avail
    BY Zenon DEF Use, GpuTypeOK, DeviceType
<1>2. Used < IDX_MOD - 1
    BY SmallDistances, VirtioGpuAssumption DEF Use, Counting
<1> QED
    BY <1>1, <1>2, OneFurther, Zenon DEF Use, driver, Published, Fetched, Used, GpuTypeOK

LEMMA CountingStep ==
    ASSUME GpuTypeOK, Counting, [Next]_vars
    PROVE  Counting'
<1> USE VirtioGpuAssumption
<1>0. /\ Published \in Nat /\ Fetched \in Nat /\ Used \in Nat
      /\ Published <= IDX_MOD - 1 /\ Published <= MAX_PENDING + 3
    BY SmallDistances, Zenon
<1>1. CASE NoDevice
    <2>1. /\ Published' = Published /\ Fetched' = Fetched /\ Used' = Used
          /\ dev'.working = dev.working
        BY <1>1, Unmoved, Zenon DEF NoDevice, GpuTypeOK, DeviceType
    <2> QED
        BY <1>0, <1>1, <2>1 DEF NoDevice, GpuTypeOK, Counting, MostPublished, InCommand, Issuing,
           Waiting, InitCommands
<1>2. CASE virtio_pci_device_init
    <2>1. /\ Published' = Published /\ Fetched' = Fetched /\ Used' = Used
          /\ dev'.working = dev.working
        BY <1>2, Unmoved, Zenon DEF virtio_pci_device_init, GpuTypeOK, DeviceType
    <2> QED
        BY <1>0, <1>2, <2>1 DEF virtio_pci_device_init, GpuTypeOK, Counting, MostPublished, InCommand, Issuing,
           Waiting, InitCommands
<1>3. CASE virtqueue_init_ctrl
    <2>1. /\ Published' = Published /\ Fetched' = Fetched /\ Used' = Used
          /\ dev'.working = dev.working
        BY <1>3, Unmoved, Zenon DEF virtqueue_init_ctrl, GpuTypeOK, DeviceType
    <2> QED
        BY <1>0, <1>3, <2>1 DEF virtqueue_init_ctrl, GpuTypeOK, Counting, MostPublished, InCommand, Issuing,
           Waiting, InitCommands
<1>4. CASE SetDriverOk
    <2>1. /\ Published' = Published /\ Fetched' = Fetched /\ Used' = Used
          /\ dev'.working = dev.working
        BY <1>4, Unmoved, Zenon DEF SetDriverOk, GpuTypeOK, DeviceType
    <2> QED
        BY <1>0, <1>4, <2>1, Zenon DEF SetDriverOk, GpuTypeOK, Counting, MostPublished, Begin, InCommand, Issuing,
           Waiting, InitCommands
<1>5. CASE WriteDesc0
    <2>1. /\ Published' = Published /\ Fetched' = Fetched /\ Used' = Used
          /\ dev'.working = dev.working
        BY <1>5, Unmoved, Zenon DEF WriteDesc0, GpuTypeOK, DeviceType
    <2> QED
        BY <1>0, <1>5, <2>1, Zenon DEF WriteDesc0, GpuTypeOK, Counting, MostPublished, InCommand, Issuing,
           Waiting, InitCommands
<1>6. CASE WriteDesc1
    <2>1. /\ Published' = Published /\ Fetched' = Fetched /\ Used' = Used
          /\ dev'.working = dev.working
        BY <1>6, Unmoved, Zenon DEF WriteDesc1, GpuTypeOK, DeviceType
    <2> QED
        BY <1>0, <1>6, <2>1, Zenon DEF WriteDesc1, GpuTypeOK, Counting, MostPublished, InCommand, Issuing,
           Waiting, InitCommands
<1>7. CASE SeeCompletion
    <2>1. Published' = Published /\ Fetched' = Fetched /\ Used' = Used /\ dev' = dev
        BY <1>7, Unmoved, Zenon DEF SeeCompletion
    <2>2. Used > 0
        BY <1>7 DEF SeeCompletion, Used, Ahead, GpuTypeOK, Indices
    <2> QED
        BY <1>0, <1>7, <2>1, <2>2, Zenon DEF SeeCompletion, Counting, MostPublished, GpuTypeOK,
           InCommand, Issuing, Waiting, InitCommands
<1>8. CASE CheckResponse
    <2>1. /\ Published' = Published /\ Fetched' = Fetched /\ Used' = Used
          /\ dev'.working = dev.working
        BY <1>8, Unmoved, Zenon DEF CheckResponse, GpuTypeOK, DeviceType
    <2> QED
        BY <1>0, <1>8, <2>1 DEF CheckResponse, GpuTypeOK, Counting, MostPublished, Continue, Begin, InCommand, Issuing,
           Waiting, InitCommands
<1>9. CASE Poll
    <2>1. /\ Published' = Published /\ Fetched' = Fetched /\ Used' = Used
          /\ dev'.working = dev.working
        BY <1>9, Unmoved, Zenon DEF Poll, GpuTypeOK, DeviceType
    <2> QED
        BY <1>0, <1>9, <2>1, Zenon DEF Poll, GpuTypeOK, Counting, MostPublished, InCommand, Issuing,
           Waiting, InitCommands
<1>10. CASE TimeOut
    <2>1. Used = 0
        BY <1>10 DEF TimeOut, Used, Ahead, GpuTypeOK, Indices
    <2>2. Published' = Published /\ Fetched' = Fetched /\ Used' = Used /\ dev' = dev
        BY <1>10, Unmoved, Zenon DEF TimeOut
    <2> QED
        BY <1>0, <1>10, <2>1, <2>2 DEF TimeOut, Counting, MostPublished, Continue, Begin,
           GpuTypeOK, InCommand, Issuing, Waiting, InitCommands
<1>11. CASE virtio_gpu_present
    <2>1. Published' = Published /\ Fetched' = Fetched /\ Used' = Used /\ dev' = dev
        BY <1>11, Unmoved, Zenon DEF virtio_gpu_present, vars, driver
    <2>2. Pending = Published - Used
        <3>1. avail_idx \in Indices /\ used_idx \in Indices /\ used_idx_seen \in Indices
            BY Zenon DEF GpuTypeOK
        <3>2. Used <= Published
            BY <1>0 DEF Counting
        <3> QED
            BY <3>1, <3>2, AheadIsDifference, AheadOfLater DEF Pending, Published, Used
    <2>3. CASE pc = "idle"
        BY <1>0, <1>11, <2>1, <2>2, <2>3, Zenon DEF virtio_gpu_present, Counting, MostPublished, Begin,
           GpuTypeOK, InCommand, Issuing, Waiting, InitCommands
    <2>4. CASE pc # "idle"
        <3>1. UNCHANGED vars
            BY <1>11, <2>4, Zenon DEF virtio_gpu_present
        <3> QED
            BY <2>1, <3>1, Zenon DEF vars, driver, Counting, MostPublished, InCommand, Issuing, Waiting
    <2> QED
        BY <2>3, <2>4, Zenon
<1>12. CASE Publish
    <2>2. Published' = Published + 1 /\ Fetched' = Fetched /\ Used' = Used /\ dev' = dev
        BY <1>12, PublishMoves, Zenon
    <2> QED
        BY <1>0, <1>12, <2>2 DEF Publish, GpuTypeOK, Counting, MostPublished, InCommand, Issuing,
           Waiting, InitCommands
<1>13. CASE TakeIndex
    <2>1. Used <= Fetched /\ Fetched <= Published /\ Used > 0
        BY <1>0, <1>13, Zenon DEF TakeIndex, Counting
    <2>2. Published' = Published - Used /\ Fetched' = Fetched - Used /\ Used' = 0
        BY <1>13, TakeMoves, Zenon
    <2> QED
        BY <1>0, <1>13, <2>1, <2>2 DEF TakeIndex, GpuTypeOK, Counting, MostPublished, InCommand,
           Issuing, Waiting, InitCommands
<1>14. CASE Fetch
    <2>1. dev'.working # "none"
        BY <1>14, FetchMoves, Zenon
    <2>2. Fetched < Published
        BY <1>14, FetchMoves, Zenon
    <2>3. Published' = Published /\ Fetched' = Fetched + 1 /\ Used' = Used
        BY <1>14, FetchMoves, Zenon
    <2> QED
        BY <1>0, <1>14, <2>1, <2>2, <2>3 DEF Fetch, driver, Counting, MostPublished, InCommand, Issuing, Waiting
<1>15. CASE Execute
    <2>1. dev'.last_avail = dev.last_avail /\ dev'.working = "done"
        BY <1>15, ExecuteFields, Zenon
    <2>2. Published' = Published /\ Fetched' = Fetched /\ Used' = Used
        BY <1>15, <2>1, Unmoved, Zenon DEF Execute, driver
    <2> QED
        BY <1>0, <1>15, <2>1, <2>2, Zenon DEF Execute, driver, Counting, MostPublished, InCommand, Issuing, Waiting
<1>16. CASE Use
    <2>1. dev'.working = "none"
        BY <1>16, Zenon DEF Use, GpuTypeOK, DeviceType
    <2>3. Published' = Published /\ Fetched' = Fetched /\ Used' = Used + 1
        BY <1>16, UseMoves, Zenon
    <2> QED
        BY <1>0, <1>16, <2>1, <2>3 DEF Use, driver, Counting, MostPublished, InCommand, Issuing, Waiting
<1>17. CASE \E frame \in Frames : Draw(frame)
    <2>1. Published' = Published /\ Fetched' = Fetched /\ Used' = Used /\ dev' = dev
        BY <1>17, Unmoved, Zenon DEF Draw
    <2> QED
        BY <1>17, <2>1, Zenon DEF Draw, Counting, MostPublished, InCommand, Issuing, Waiting
<1>18. CASE UNCHANGED vars
    <2>1. Published' = Published /\ Fetched' = Fetched /\ Used' = Used /\ dev' = dev
        BY <1>18, Unmoved, Zenon DEF vars, driver
    <2> QED
        BY <1>18, <2>1, Zenon DEF vars, driver, Counting, MostPublished, InCommand, Issuing, Waiting
<1> QED
    BY <1>1, <1>2, <1>3, <1>4, <1>5, <1>6, <1>7, <1>8, <1>9, <1>10, <1>11, <1>12, <1>13, <1>14, <1>15, <1>16, <1>17, <1>18, Zenon DEF Next, DriverStep, DeviceStep
-----------------------------------------------------------------------------
(* Starting *)

\* A success is written by a command the device could execute.
LEMMA ExecuteResponse ==
    ASSUME GpuTypeOK, Execute, NEW a \in Addresses, response'[a] = "ok_nodata"
    PROVE  \/ response[a] = "ok_nodata"
           \/ Legal(dev.working) /\ dev.working # "display_info"
BY Zenon DEF GpuTypeOK, Execute

\* The device takes no command before the first one is published.
LEMMA FetchesPublished ==
    ASSUME GpuTypeOK, Counting, Fetch
    PROVE  pc \notin {"start", "queue", "driver_ok"}
<1>1. Published \in Nat /\ Fetched \in Nat /\ Fetched < Published
    BY SmallDistances, FetchMoves, Zenon
<1> QED
    BY <1>1 DEF Counting, MostPublished

\* A command's function begins with a response that is no success.
LEMMA BeginClears ==
    ASSUME GpuTypeOK, NEW k \in Kinds, Begin(k)
    PROVE  response'[Resp[k]] # "ok_nodata"
BY Zenon DEF GpuTypeOK, Begin, Addresses

LEMMA StartingStep ==
    ASSUME GpuTypeOK, Counting, Starting, [Next]_vars
    PROVE  Starting'
<1>0. Resp' = Resp
    BY Zenon DEF Next, vars
<1> USE DEF InCommand, Issuing, Waiting, InitCommands, Found, Succeeded, Configured
<1>1. CASE NoDevice
    BY <1>0, <1>1, Zenon DEF NoDevice, Starting, GpuTypeOK
<1>2. CASE virtio_pci_device_init
    BY <1>0, <1>2, Zenon DEF virtio_pci_device_init, Starting, GpuTypeOK, DeviceType
<1>3. CASE virtqueue_init_ctrl
    BY <1>0, <1>3 DEF virtqueue_init_ctrl, Starting, GpuTypeOK, DeviceType
<1>4. CASE SetDriverOk
    BY <1>0, <1>4, BeginClears, Zenon DEF SetDriverOk, Starting, GpuTypeOK, DeviceType, Kinds, Begin
<1>5. CASE WriteDesc0
    BY <1>0, <1>5 DEF WriteDesc0, Starting, GpuTypeOK, DeviceType
<1>6. CASE WriteDesc1
    BY <1>0, <1>6, Zenon DEF WriteDesc1, Starting, GpuTypeOK
<1>7. CASE Publish
    BY <1>0, <1>7, Zenon DEF Publish, Starting, GpuTypeOK
<1>8. CASE SeeCompletion
    BY <1>0, <1>8, Zenon DEF SeeCompletion, Starting, GpuTypeOK
<1>9. CASE TakeIndex
    BY <1>0, <1>9, Zenon DEF TakeIndex, Starting, GpuTypeOK
<1>10. CASE Poll
    BY <1>0, <1>10, Zenon DEF Poll, Starting, GpuTypeOK
<1>11. CASE CheckResponse
    <2>1. dev' = dev /\ desc' = desc /\ Continue(Accepts(cmd))
        BY <1>11, Zenon DEF CheckResponse
    <2> QED
        BY <1>0, <1>11, <2>1, BeginClears
        DEF CheckResponse, Continue, Accepts, Begin, Starting, GpuTypeOK, Kinds
<1>12. CASE TimeOut
    <2>1. dev' = dev /\ desc' = desc /\ Continue(FALSE)
        BY <1>12, Zenon DEF TimeOut
    <2> QED
        BY <1>0, <1>12, <2>1, BeginClears DEF TimeOut, Continue, Begin, Starting, GpuTypeOK, Kinds
<1>13. CASE Fetch
    <2>1. PICK j \in CommandsAt :
              dev' = [dev EXCEPT !.last_avail = (@ + 1) % IDX_MOD,
                                 !.working = j, !.writes_to = desc.resp]
        BY <1>13, Zenon DEF Fetch
    <2>2. j \in {desc.command, cmd, "garbage"}
        BY Zenon DEF CommandsAt
    <2>3. /\ dev'.working = j /\ dev'.status = dev.status /\ dev'.resource = dev.resource
          /\ dev'.backing = dev.backing /\ dev'.scanout = dev.scanout
        BY <2>1, Zenon DEF GpuTypeOK, DeviceType
    <2> QED
        BY <1>0, <1>13, <2>2, <2>3, FetchesPublished DEF Fetch, driver, Starting, GpuTypeOK
<1>14. CASE Execute
    <2>1. \A j \in Kinds : Resp[j] \in Addresses
        BY Zenon DEF Addresses
    <2>2. \A j \in Kinds : Succeeded(j)' =>
              Succeeded(j) \/ (Legal(dev.working) /\ dev.working # "display_info")
        BY <1>0, <1>14, <2>1, ExecuteResponse, Zenon
    <2>3. UNCHANGED <<pc, cmd, desc, g_gpu_ready>>
        BY <1>14, Zenon DEF Execute, driver
    <2>4. dev.working \notin {"none", "done"}
        BY <1>14, Zenon DEF Execute
    <2>5. /\ dev.backing => dev.resource
          /\ dev'.working = "done" /\ dev'.status = dev.status
          /\ dev.resource => dev'.resource
          /\ dev.backing => dev'.backing
          /\ dev.scanout => dev'.scanout
        BY <1>14, ExecuteFields, Zenon DEF Starting
    <2>6. dev'.backing => dev'.resource
        BY <1>14, <2>5, ExecuteFields, Zenon DEF Legal
    <2>7. cmd = "create" /\ Succeeded("create")' => dev'.resource
        BY <1>14, <2>2, <2>5, ExecuteFields, Zenon DEF Starting, Legal, Kinds
    <2>8. cmd = "attach" => dev'.resource /\ (Succeeded("attach")' => dev'.backing)
        BY <1>14, <2>2, <2>5, ExecuteFields, Zenon DEF Starting, Legal, Kinds
    <2>9. cmd = "scanout" => /\ dev'.resource /\ dev'.backing
                             /\ Succeeded("scanout")' => dev'.scanout
        BY <1>14, <2>2, <2>5, ExecuteFields, Zenon DEF Starting, Legal, Kinds
    <2>10. g_gpu_ready => Configured'
        BY <2>5, Zenon DEF Starting
    <2> QED
        BY <2>3, <2>4, <2>5, <2>6, <2>7, <2>8, <2>9, <2>10, Zenon DEF Starting
<1>15. CASE Use
    <2>1. /\ dev'.working = "none" /\ dev'.status = dev.status /\ dev'.resource = dev.resource
          /\ dev'.backing = dev.backing /\ dev'.scanout = dev.scanout
        BY <1>15, Zenon DEF Use, GpuTypeOK, DeviceType
    <2> QED
        BY <1>0, <1>15, <2>1, Zenon DEF Use, driver, Starting, GpuTypeOK
<1>16. CASE virtio_gpu_present
    BY <1>0, <1>16 DEF virtio_gpu_present, vars, driver, Begin, Starting, GpuTypeOK
<1>17. CASE \E frame \in Frames : Draw(frame)
    BY <1>0, <1>17 DEF Draw, Starting, GpuTypeOK
<1>18. CASE UNCHANGED vars
    BY <1>0, <1>18, Zenon DEF vars, driver, Starting, GpuTypeOK
<1> QED
    BY <1>1, <1>2, <1>3, <1>4, <1>5, <1>6, <1>7, <1>8, <1>9, <1>10, <1>11, <1>12, <1>13, <1>14, <1>15, <1>16, <1>17, <1>18, Zenon DEF Next, DriverStep, DeviceStep
-----------------------------------------------------------------------------
(* In step *)

LEMMA InStepStep ==
    ASSUME GpuInv, [Next]_vars
    PROVE  InStep'
<1> SUFFICES ASSUME ~gave_up' PROVE InStep'
    BY Zenon DEF InStep
<1>0. /\ GpuTypeOK /\ Counting /\ Starting /\ InStep
      /\ Published \in Nat /\ Fetched \in Nat /\ Used \in Nat
      /\ Used <= Fetched /\ Fetched <= Published
      /\ Fetched = IF dev.working = "none" THEN Used ELSE Used + 1
    BY SmallDistances, Zenon DEF GpuInv, Counting
<1>1. ~gave_up
    BY Zenon DEF Next, DriverStep, TimeOut, vars
<1> USE DEF InCommand, Issuing, Waiting
<1>2. CASE NoDevice
    <2>1. /\ Published' = Published /\ Used' = Used /\ dev'.working = dev.working
          /\ dev'.host = dev.host /\ dev'.shown = dev.shown
        BY <1>0, <1>2, Unmoved, Zenon DEF NoDevice, GpuTypeOK, DeviceType
    <2> QED
        BY <1>0, <1>1, <1>2, <2>1, Zenon DEF NoDevice, InStep, Done, GpuTypeOK
<1>3. CASE virtio_pci_device_init
    <2>1. /\ Published' = Published /\ Used' = Used /\ dev'.working = dev.working
          /\ dev'.host = dev.host /\ dev'.shown = dev.shown
        BY <1>0, <1>3, Unmoved, Zenon DEF virtio_pci_device_init, GpuTypeOK, DeviceType
    <2> QED
        BY <1>0, <1>1, <1>3, <2>1, Zenon DEF virtio_pci_device_init, InStep, Done, GpuTypeOK
<1>4. CASE virtqueue_init_ctrl
    <2>1. /\ Published' = Published /\ Used' = Used /\ dev'.working = dev.working
          /\ dev'.host = dev.host /\ dev'.shown = dev.shown
        BY <1>0, <1>4, Unmoved, Zenon DEF virtqueue_init_ctrl, GpuTypeOK, DeviceType
    <2> QED
        BY <1>0, <1>1, <1>4, <2>1, Zenon DEF virtqueue_init_ctrl, InStep, Done, GpuTypeOK
<1>5. CASE SetDriverOk
    <2>1. /\ Published' = Published /\ Used' = Used /\ dev'.working = dev.working
          /\ dev'.host = dev.host /\ dev'.shown = dev.shown
        BY <1>0, <1>5, Unmoved, Zenon DEF SetDriverOk, GpuTypeOK, DeviceType
    <2> QED
        BY <1>0, <1>1, <1>5, <2>1, Zenon DEF SetDriverOk, Begin, InStep, Done, GpuTypeOK
<1>6. CASE WriteDesc0
    <2>1. /\ Published' = Published /\ Used' = Used /\ dev'.working = dev.working
          /\ dev'.host = dev.host /\ dev'.shown = dev.shown
        BY <1>0, <1>6, Unmoved, Zenon DEF WriteDesc0, GpuTypeOK, DeviceType
    <2> QED
        BY <1>0, <1>1, <1>6, <2>1, Zenon DEF WriteDesc0, InStep, Done, GpuTypeOK
<1>7. CASE WriteDesc1
    <2>1. /\ Published' = Published /\ Used' = Used /\ dev'.working = dev.working
          /\ dev'.host = dev.host /\ dev'.shown = dev.shown
        BY <1>0, <1>7, Unmoved, Zenon DEF WriteDesc1, GpuTypeOK, DeviceType
    <2> QED
        BY <1>0, <1>1, <1>7, <2>1, Zenon DEF WriteDesc1, InStep, Done, GpuTypeOK
<1>8. CASE SeeCompletion
    <2>1. /\ Published' = Published /\ Used' = Used /\ dev'.working = dev.working
          /\ dev'.host = dev.host /\ dev'.shown = dev.shown
        BY <1>0, <1>8, Unmoved, Zenon DEF SeeCompletion, GpuTypeOK, DeviceType
    <2> QED
        BY <1>0, <1>1, <1>8, <2>1, Zenon DEF SeeCompletion, InStep, Done, GpuTypeOK
<1>9. CASE CheckResponse
    <2>1. /\ Published' = Published /\ Used' = Used /\ dev'.working = dev.working
          /\ dev'.host = dev.host /\ dev'.shown = dev.shown
        BY <1>0, <1>9, Unmoved, Zenon DEF CheckResponse, GpuTypeOK, DeviceType
    <2> QED
        BY <1>0, <1>1, <1>9, <2>1 DEF CheckResponse, Continue, Begin, InStep, Done, GpuTypeOK
<1>10. CASE Poll
    <2>1. /\ Published' = Published /\ Used' = Used /\ dev'.working = dev.working
          /\ dev'.host = dev.host /\ dev'.shown = dev.shown
        BY <1>0, <1>10, Unmoved, Zenon DEF Poll, GpuTypeOK, DeviceType
    <2> QED
        BY <1>0, <1>1, <1>10, <2>1, Zenon DEF Poll, InStep, Done, GpuTypeOK
<1>11. CASE Publish
    <2>1. Published' = Published + 1 /\ Used' = Used /\ dev' = dev
        BY <1>0, <1>11, PublishMoves, Zenon
    <2> QED
        BY <1>0, <1>1, <1>11, <2>1 DEF Publish, InStep, Done, GpuTypeOK
<1>12. CASE TakeIndex
    <2>1. Published' = Published - Used /\ Used' = 0 /\ Used > 0
        BY <1>0, <1>12, TakeMoves, Zenon DEF TakeIndex, Counting
    <2> QED
        BY <1>0, <1>1, <1>12, <2>1 DEF TakeIndex, InStep, Done, GpuTypeOK
<1>13. CASE TimeOut
    BY <1>1, <1>13, Zenon DEF TimeOut
<1>14. CASE Fetch
    <2>1. /\ Fetched < Published /\ Published' = Published /\ Used' = Used
          /\ dev'.working \in CommandsAt \ {"none"}
        BY <1>0, <1>14, FetchMoves, Zenon
    <2>2. dev'.host = dev.host /\ dev'.shown = dev.shown
        BY <1>0, <1>14, Zenon DEF Fetch, GpuTypeOK, DeviceType
    <2>3. desc.command = cmd
        BY <1>0, <1>1, <2>1 DEF InStep, Counting
    <2>4. dev'.working = cmd /\ cmd \in Kinds
        BY <1>0, <2>1, <2>3, Zenon DEF CommandsAt, GpuTypeOK
    <2> QED
        BY <1>0, <1>1, <1>14, <2>1, <2>2, <2>4, Zenon DEF Fetch, driver, InStep, Done, Kinds
<1>15. CASE Execute
    <2>1. dev.working = cmd
        BY <1>0, <1>1, <1>15, Zenon DEF Execute, InStep
    <2>2. Published' = Published /\ Used' = Used
        BY <1>0, <1>15, ExecuteFields, Unmoved, Zenon DEF Execute, driver
    <2>3. UNCHANGED <<pc, cmd, g_gpu_fb>> /\ dev'.working = "done"
        BY <1>0, <1>15, ExecuteFields, Zenon DEF Execute, driver
    <2>4. pc \in Waiting /\ Published = 1
        BY <1>0, <1>1, <1>15 DEF Execute, InStep
    <2>5. cmd = "transfer" => dev'.host = g_gpu_fb
        BY <1>0, <1>15, <2>1, ExecuteFields, Zenon DEF Starting, Configured, Legal
    <2>6. cmd = "flush" => dev'.host = g_gpu_fb /\ dev'.shown = g_gpu_fb
        BY <1>0, <1>1, <1>15, <2>1, ExecuteFields, Zenon DEF Starting, Configured, Legal, InStep
    <2> QED
        BY <2>2, <2>3, <2>4, <2>5, <2>6, Zenon DEF InStep
<1>16. CASE Use
    <2>1. /\ Published' = Published /\ Used' = Used + 1
          /\ dev'.working = "none" /\ dev'.host = dev.host /\ dev'.shown = dev.shown
        BY <1>0, <1>16, UseMoves, Zenon DEF Use, GpuTypeOK, DeviceType
    <2>2. Done
        BY <1>16, Zenon DEF Use, Done
    <2> QED
        BY <1>0, <1>1, <1>16, <2>1, <2>2, Zenon DEF Use, driver, InStep
<1>17. CASE virtio_gpu_present
    <2>1. Published' = Published /\ Used' = Used /\ dev' = dev
        BY <1>17, Unmoved, Zenon DEF virtio_gpu_present, vars, driver
    <2> QED
        BY <1>0, <1>1, <1>17, <2>1 DEF virtio_gpu_present, vars, driver, Begin, InStep, Done, GpuTypeOK
<1>18. CASE \E frame \in Frames : Draw(frame)
    <2>1. Published' = Published /\ Used' = Used /\ dev' = dev
        BY <1>18, Unmoved, Zenon DEF Draw
    <2> QED
        BY <1>0, <1>1, <1>18, <2>1, Zenon DEF Draw, InStep, Done, GpuTypeOK
<1>19. CASE UNCHANGED vars
    <2>1. Published' = Published /\ Used' = Used /\ dev' = dev
        BY <1>19, Unmoved, Zenon DEF vars, driver
    <2> QED
        BY <1>0, <1>1, <1>19, <2>1, Zenon DEF vars, driver, InStep, Done
<1> QED
    BY <1>2, <1>3, <1>4, <1>5, <1>6, <1>7, <1>8, <1>9, <1>10, <1>11, <1>12, <1>13, <1>14, <1>15, <1>16, <1>17, <1>18, <1>19, Zenon DEF Next, DriverStep, DeviceStep
-----------------------------------------------------------------------------
(* The theorems *)

LEMMA GpuInvariant == Spec => []GpuInv
<1>1. GpuInv /\ [Next]_vars => GpuInv'
    BY TypeStep, CountingStep, StartingStep, InStepStep, Zenon DEF GpuInv
<1> QED
    BY <1>1, GpuInvInit, PTL DEF Spec

\* However late the device answers, and whichever completion virtio_gpu_init takes
\* for its own, the display is ready only when the device is set up.
THEOREM ReadyIsConfigured == Spec => []ReadyMeansConfigured
<1>1. GpuInv => ReadyMeansConfigured
    BY Zenon DEF GpuInv, Starting, Configured, ReadyMeansConfigured
<1> QED
    BY <1>1, GpuInvariant, PTL

\* The indices of the rings never overtake each other, as long as there are more of
\* them than commands the device may owe and those in between
\* (virtqueue_submit_sync).
THEOREM IndicesStayInOrder == Spec => []IndicesInOrder
<1>1. GpuInv => IndicesInOrder
    <2> SUFFICES ASSUME GpuInv PROVE IndicesInOrder
        BY Zenon
    <2>1. Used <= Published
        BY SmallDistances DEF GpuInv, Counting
    <2> QED
        BY <2>1, AheadIsDifference, Zenon DEF GpuInv, GpuTypeOK, IndicesInOrder, Used, Published
<1> QED
    BY <1>1, GpuInvariant, PTL

\* A present that ends has shown the frame, unless the driver has ever given up on a
\* command (virtio_gpu_present).
THEOREM PresentAlwaysShows == Spec => PresentShowsFrame
<1> DEFINE Shows == (cmd = "flush" /\ pc' = "idle" /\ ~gave_up') => dev.shown = g_gpu_fb
<1>1. GpuInv /\ [Next]_vars => [Shows]_vars
    <2> SUFFICES ASSUME GpuInv, Next, cmd = "flush", pc' = "idle", ~gave_up'
                 PROVE  dev.shown = g_gpu_fb
        BY Zenon
    <2>1. pc # "idle" /\ pc # "down"
        BY Zenon DEF GpuInv, GpuTypeOK, InCommand, Issuing, Waiting
    <2>2. /\ ~NoDevice /\ ~virtio_pci_device_init /\ ~virtqueue_init_ctrl /\ ~SetDriverOk
          /\ ~WriteDesc0 /\ ~WriteDesc1 /\ ~Publish /\ ~SeeCompletion /\ ~TakeIndex
        BY Zenon DEF NoDevice, virtio_pci_device_init, virtqueue_init_ctrl, SetDriverOk, Begin,
           WriteDesc0, WriteDesc1, Publish, SeeCompletion, TakeIndex
    <2>3. ~Poll /\ ~DeviceStep /\ ~virtio_gpu_present /\ ~(\E frame \in Frames : Draw(frame))
        BY <2>1, Zenon DEF Poll, DeviceStep, Fetch, Execute, Use, driver, vars,
           virtio_gpu_present, Draw
    <2>4. ~TimeOut
        BY Zenon DEF TimeOut
    <2>5. CheckResponse /\ UNCHANGED gave_up
        BY <2>2, <2>3, <2>4, Zenon DEF Next, DriverStep
    <2>6. pc = "check" /\ ~gave_up
        BY <2>5, Zenon DEF CheckResponse
    <2> QED
        BY <2>6, Zenon DEF GpuInv, InStep, Done
<1> QED
    BY <1>1, GpuInvariant, PTL DEF Spec, PresentShowsFrame
=============================================================================
