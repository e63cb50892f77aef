------------------------------ MODULE VirtioGpu ------------------------------
(***************************************************************************)
(* The virtio GPU driver of VirtIO.c and the device behind it, which run   *)
(* concurrently and share the descriptors, the two rings and the buffers   *)
(* of the command in progress.  The driver issues one command at a time    *)
(* and polls for its completion; if it gives up, the device may still      *)
(* complete the command later.                                             *)
(*                                                                         *)
(* Every command uses descriptors 0 and 1.  The command and its response   *)
(* are local variables of the function that issues the command: Resp gives *)
(* the address of the response, which functions called from the same depth *)
(* of the stack may share.  All commands run from one stack, so what lies  *)
(* at a command's address after its function has returned is undefined.    *)
(***************************************************************************)
EXTENDS Integers

CONSTANTS
    MAX_POLLS,      \* VIRTIO_MMIO_TIMEOUT
    IDX_MOD,        \* 2^16, the range of the ring indices
    MAX_PENDING,    \* bound: commands given up on that the device still owes
    Frames,         \* contents of the frame buffer
    BlankFrame,
    Layouts         \* where the build may put the response of each command

Kinds == {"display_info", "create", "attach", "scanout", "transfer", "flush"}

ASSUME VirtioGpuAssumption ==
    /\ MAX_POLLS \in Nat \ {0}
    /\ MAX_PENDING \in Nat /\ IDX_MOD \in Nat /\ IDX_MOD > MAX_PENDING + 3
    /\ BlankFrame \in Frames
    /\ \A layout \in Layouts : DOMAIN layout = Kinds

VARIABLES
    Resp,           \* the address of each command's response
    pc,             \* where the driver is
    cmd,            \* the command it is working on, or "none"
    polls,          \* timeout
    avail_idx, used_idx_seen,   \* of virtqueue_t
    desc,           \* descriptors 0 and 1: the command and the response address
    used_idx,       \* used->idx
    response,       \* the type field of the response at every address
    dev,            \* the device
    g_gpu_ready, g_gpu_fb,
    gave_up         \* has the driver ever given up on a command?

driver == <<pc, cmd, polls, avail_idx, used_idx_seen, desc, g_gpu_ready, g_gpu_fb>>
vars == <<Resp, driver, used_idx, response, dev, gave_up>>

Addresses == {Resp[k] : k \in Kinds}

Init ==
    /\ Resp \in Layouts
    /\ pc = "start" /\ cmd = "none" /\ polls = 0
    /\ avail_idx = 0 /\ used_idx_seen = 0 /\ used_idx = 0
    /\ desc = [command |-> "none", resp |-> "none"]
    /\ response = [a \in Addresses |-> "zero"]
    /\ dev = [status |-> "reset", enabled |-> FALSE, last_avail |-> 0,
              working |-> "none", writes_to |-> "none",
              resource |-> FALSE, backing |-> FALSE, scanout |-> FALSE,
              host |-> BlankFrame, shown |-> BlankFrame]
    /\ g_gpu_ready = FALSE /\ g_gpu_fb = BlankFrame
    /\ gave_up = FALSE
-----------------------------------------------------------------------------
(* virtio_gpu_init *)

\* find_virtio_gpu finds no device, or virtio_pci_find_caps not the capabilities.
NoDevice ==
    /\ pc = "start"
    /\ pc' = "down"
    /\ UNCHANGED <<cmd, polls, avail_idx, used_idx_seen, desc, used_idx, response,
                   dev, g_gpu_ready, g_gpu_fb>>

\* Reset, ACKNOWLEDGE, DRIVER, the features and FEATURES_OK, which the device
\* may refuse to keep.
virtio_pci_device_init ==
    /\ pc = "start"
    /\ \E accepted \in BOOLEAN :
          /\ dev' = [dev EXCEPT !.status = IF accepted THEN "features_ok" ELSE "failed"]
          /\ pc' = IF accepted THEN "queue" ELSE "down"
    /\ UNCHANGED <<cmd, polls, avail_idx, used_idx_seen, desc, used_idx, response,
                   g_gpu_ready, g_gpu_fb>>

\* A queue that is too small or no memory for it, or a device that does not
\* keep the queue enabled: the status stays at FEATURES_OK.
virtqueue_init_ctrl ==
    /\ pc = "queue"
    /\ \/ pc' = "down" /\ UNCHANGED dev
       \/ pc' = "driver_ok" /\ dev' = [dev EXCEPT !.enabled = TRUE]
    /\ UNCHANGED <<cmd, polls, avail_idx, used_idx_seen, desc, used_idx, response,
                   g_gpu_ready, g_gpu_fb>>

\* The function of a command: it clears its response and calls
\* virtqueue_submit_sync.
Begin(k) ==
    /\ cmd' = k
    /\ response' = [response EXCEPT ![Resp[k]] = "zero"]
    /\ pc' = "desc0"

\* DRIVER_OK, and the first command.
SetDriverOk ==
    /\ pc = "driver_ok"
    /\ dev' = [dev EXCEPT !.status = "driver_ok"]
    /\ Begin("display_info")
    /\ UNCHANGED <<polls, avail_idx, used_idx_seen, desc, used_idx,
                   g_gpu_ready, g_gpu_fb>>
-----------------------------------------------------------------------------
(* virtqueue_submit_sync *)

WriteDesc0 ==
    /\ pc = "desc0"
    /\ desc' = [desc EXCEPT !.command = cmd]
    /\ pc' = "desc1"
    /\ UNCHANGED <<cmd, polls, avail_idx, used_idx_seen, used_idx, response, dev,
                   g_gpu_ready, g_gpu_fb>>

WriteDesc1 ==
    /\ pc = "desc1"
    /\ desc' = [desc EXCEPT !.resp = Resp[cmd]]
    /\ pc' = "publish"
    /\ UNCHANGED <<cmd, polls, avail_idx, used_idx_seen, used_idx, response, dev,
                   g_gpu_ready, g_gpu_fb>>

\* ring[...] = 0, avail->idx and the notification.
Publish ==
    /\ pc = "publish"
    /\ avail_idx' = (avail_idx + 1) % IDX_MOD
    /\ polls' = MAX_POLLS
    /\ pc' = "wait"
    /\ UNCHANGED <<cmd, used_idx_seen, desc, used_idx, response, dev,
                   g_gpu_ready, g_gpu_fb>>

\* What the functions of the commands and their callers do with the result.
\* The result of "display_info" is ignored; the frame buffer is allocated
\* behind it.
Continue(ok) ==
    \/ /\ cmd = "display_info"
       /\ \/ Begin("create")
          \/ pc' = "down" /\ cmd' = "none" /\ UNCHANGED response
       /\ UNCHANGED g_gpu_ready
    \/ /\ cmd \in {"create", "attach"} /\ ok
       /\ Begin(IF cmd = "create" THEN "attach" ELSE "scanout")
       /\ UNCHANGED g_gpu_ready
    \/ /\ cmd = "transfer" /\ ok
       /\ Begin("flush")
       /\ UNCHANGED g_gpu_ready
    \/ /\ cmd = "scanout" /\ ok
       /\ g_gpu_ready' = TRUE
       /\ pc' = "idle" /\ cmd' = "none" /\ UNCHANGED response
    \/ /\ cmd \in {"create", "attach", "scanout"} /\ ~ok
       /\ pc' = "down" /\ cmd' = "none" /\ UNCHANGED <<response, g_gpu_ready>>
    \/ /\ cmd = "flush" \/ (cmd = "transfer" /\ ~ok)
       /\ pc' = "idle" /\ cmd' = "none" /\ UNCHANGED <<response, g_gpu_ready>>

\* Faulty form: every completion counts as a success.
Accepts_any(k) == TRUE

\* The test of the response's type in the function of the command.
Accepts(k) ==
    response[Resp[k]] = IF k = "display_info" THEN "ok_display" ELSE "ok_nodata"

\* The loop ends when it sees a new index; whose completion it is, it does not
\* look at.
SeeCompletion ==
    /\ pc = "wait"
    /\ used_idx # used_idx_seen
    /\ pc' = "seen"
    /\ UNCHANGED <<cmd, polls, avail_idx, used_idx_seen, desc, used_idx, response, dev,
                   g_gpu_ready, g_gpu_fb>>

\* vq->used_idx_seen = vq->used->idx, which may have moved again.
TakeIndex ==
    /\ pc = "seen"
    /\ used_idx_seen' = used_idx
    /\ pc' = "check"
    /\ UNCHANGED <<cmd, polls, avail_idx, desc, used_idx, response, dev,
                   g_gpu_ready, g_gpu_fb>>

CheckResponse ==
    /\ pc = "check"
    /\ Continue(Accepts(cmd))
    /\ UNCHANGED <<polls, avail_idx, used_idx_seen, desc, used_idx, dev, g_gpu_fb>>

\* Faulty form: the timeout is not counted down.
Poll_forever ==
    /\ pc = "wait"
    /\ used_idx = used_idx_seen
    /\ UNCHANGED vars

\* One more turn of the loop.
Poll ==
    /\ pc = "wait"
    /\ used_idx = used_idx_seen
    /\ polls > 1
    /\ polls' = polls - 1
    /\ UNCHANGED <<pc, cmd, avail_idx, used_idx_seen, desc, used_idx, response, dev,
                   g_gpu_ready, g_gpu_fb>>

\* Faulty form: a command that was given up counts as seen.
TimeOut_counts ==
    /\ pc = "wait"
    /\ used_idx = used_idx_seen
    /\ polls = 1
    /\ Continue(FALSE)
    /\ gave_up' = TRUE
    /\ used_idx_seen' = (used_idx_seen + 1) % IDX_MOD
    /\ UNCHANGED <<polls, avail_idx, desc, used_idx, dev, g_gpu_fb>>

TimeOut ==
    /\ pc = "wait"
    /\ used_idx = used_idx_seen
    /\ polls = 1
    /\ Continue(FALSE)
    /\ gave_up' = TRUE
    /\ UNCHANGED <<polls, avail_idx, used_idx_seen, desc, used_idx, dev, g_gpu_fb>>
-----------------------------------------------------------------------------
(* The system calls *)

\* virtio_gpu_draw_pixel and virtio_gpu_fill_rect.
Draw(frame) ==
    /\ pc = "idle" /\ g_gpu_ready
    /\ g_gpu_fb' = frame
    /\ UNCHANGED <<pc, cmd, polls, avail_idx, used_idx_seen, desc, used_idx, response,
                   dev, g_gpu_ready>>

\* What the device still owes, given up or not.
Pending == (avail_idx - used_idx) % IDX_MOD

\* Faulty form: the frame is not transferred before it is flushed.
virtio_gpu_present_flush_only ==
    \/ /\ pc = "idle" /\ g_gpu_ready
       /\ Begin("flush")
       /\ UNCHANGED <<polls, avail_idx, used_idx_seen, desc, used_idx, dev,
                      g_gpu_ready, g_gpu_fb>>
    \/ /\ pc = "down"
       /\ UNCHANGED vars

\* The transfer; Continue has the flush behind it.
virtio_gpu_present ==
    \/ /\ pc = "idle" /\ g_gpu_ready
       /\ Pending <= MAX_PENDING
       /\ Begin("transfer")
       /\ UNCHANGED <<polls, avail_idx, used_idx_seen, desc, used_idx, dev,
                      g_gpu_ready, g_gpu_fb>>
    \/ /\ pc = "down"      \* !g_gpu_ready
       /\ UNCHANGED vars
-----------------------------------------------------------------------------
(* The device *)

\* What the device finds at the command's address: the command, or, once its
\* function has returned, what another one has put there.
CommandsAt == {desc.command} \cup
              (IF desc.command = cmd THEN {} ELSE {"garbage", cmd} \ {"none"})

\* The device takes the next entry of the available ring.
Fetch ==
    /\ dev.enabled /\ dev.status = "driver_ok"
    /\ dev.working = "none"
    /\ dev.last_avail # avail_idx
    /\ \E k \in CommandsAt :
          dev' = [dev EXCEPT !.last_avail = (@ + 1) % IDX_MOD,
                             !.working = k, !.writes_to = desc.resp]
    /\ UNCHANGED <<driver, used_idx, response>>

\* Can the device execute the command?  A resource that exists is not created
\* again, nor given a second backing.
Legal(k) ==
    \/ k = "display_info"
    \/ k = "create" /\ ~dev.resource
    \/ k = "attach" /\ dev.resource /\ ~dev.backing
    \/ k \in {"scanout", "flush"} /\ dev.resource
    \/ k = "transfer" /\ dev.backing

\* It executes the command and stores the response ...
Execute ==
    /\ dev.working \notin {"none", "done"}
    /\ LET k == dev.working
           Does(kind) == k = kind /\ Legal(k)
       IN  /\ dev' = [dev EXCEPT
                 !.working = "done",
                 !.resource = @ \/ Does("create"),
                 !.backing = @ \/ Does("attach"),
                 !.scanout = @ \/ Does("scanout"),
                 !.host = IF Does("transfer") THEN g_gpu_fb ELSE @,
                 !.shown = IF Does("flush") /\ dev.scanout THEN dev.host ELSE @]
           /\ response' = [response EXCEPT ![dev.writes_to] =
                 IF ~Legal(k) THEN "error"
                 ELSE IF k = "display_info" THEN "ok_display" ELSE "ok_nodata"]
    /\ UNCHANGED <<driver, used_idx>>

\* ... and then advances used->idx.
Use ==
    /\ dev.working = "done"
    /\ dev' = [dev EXCEPT !.working = "none"]
    /\ used_idx' = (used_idx + 1) % IDX_MOD
    /\ UNCHANGED <<driver, response>>

DriverStep ==
    \/ /\ \/ NoDevice \/ virtio_pci_device_init \/ virtqueue_init_ctrl
          \/ SetDriverOk \/ WriteDesc0 \/ WriteDesc1 \/ Publish
          \/ SeeCompletion \/ TakeIndex \/ CheckResponse \/ Poll
       /\ UNCHANGED gave_up
    \/ TimeOut

DeviceStep == Fetch \/ Execute \/ Use

Next ==
    /\ \/ DriverStep
       \/ /\ \/ DeviceStep
             \/ virtio_gpu_present
             \/ \E frame \in Frames : Draw(frame)
          /\ UNCHANGED gave_up
    /\ UNCHANGED Resp

Spec == Init /\ [][Next]_vars

\* The driver is never stopped for good: the processor runs nothing else
\* meanwhile.
FairSpec == Spec /\ WF_vars(DriverStep /\ UNCHANGED Resp)
-----------------------------------------------------------------------------
(* Properties *)

\* The display is declared ready only when the device was told DRIVER_OK, has
\* created the resource, has been given the frame buffer and scans it out,
\* however late it answers and whichever completion virtio_gpu_init takes for
\* its own.
ReadyMeansConfigured ==
    g_gpu_ready => dev.status = "driver_ok" /\ dev.resource /\ dev.backing /\ dev.scanout

\* The index the driver has seen never passes the device's, and that one never
\* the driver's available index, across the wrap of the 16-bit indices
\* (virtqueue_submit_sync).
IndicesInOrder ==
    (used_idx - used_idx_seen) % IDX_MOD <= (avail_idx - used_idx_seen) % IDX_MOD

\* As long as the driver has never given up on a command, a present that ends
\* leaves the screen with the frame that was in the frame buffer: a flush never
\* overtakes its transfer (virtio_gpu_present).
PresentShowsFrame ==
    [][(cmd = "flush" /\ pc' = "idle" /\ ~gave_up') => dev.shown = g_gpu_fb]_vars

\* Every call of the driver returns, also when the device never answers: the
\* polling loop is bounded (virtqueue_submit_sync).
CallsReturn == cmd # "none" ~> pc \in {"idle", "down"}
=============================================================================
