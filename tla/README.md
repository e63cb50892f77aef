# ImplusOS in TLA+

TLA+ models of ImplusOS, from the boot loader (`src/BootLoader`) through the kernel
(`src/Kernel`) to the user program (`src/Userland`), the TLC configurations that
check them on small instances, and TLAPS proofs of the properties that matter
most for every value of the constants.

## 1. The system and its parts

ImplusOS is a 64-bit kernel for one processor. A UEFI boot loader loads it; it
sets up memory, the display, the system calls and the file system, loads one
user program from a FAT32 volume and enters it. From then on the kernel runs only
when a program executes `syscall` or causes an exception. Programs are scheduled
cooperatively.

| part | state | operations that change it | talks to |
|---|---|---|---|
| boot loader (`BootLoader/Loader.c`) | memory map, kernel image | load, `ExitBootServices` with retry | kernel start |
| kernel start, ELF loader (`Kernel_Main.c`) | user image | `kernel_main`, `load_userland_elf`, `entry_user_mode` | all below |
| process manager (`ProcessManager_Create.c`) | process table, current pid | create, exit, schedule | heap, system calls |
| system calls (`Syscall_Entry.asm`, `_Dispatch.c`, `_Init.c`) | syscall stack, saved frames, `gs:0` | entry, dispatch, return | everything |
| kernel heap (`Memory_Main.c`) | list of blocks, search hint, counters | `kmalloc`, `kcalloc`, `krealloc`, `kfree` | all users |
| page allocator (`Memory_Main.c`) | bitmap, hint | `init_physical_memory`, `alloc_page`, `free_page` | none yet |
| paging, MMIO window (`Paging_Main.c`) | page tables, slots | `init_paging`, `map_mmio_virt` | virtio driver |
| file calls (`Syscall_File.c`) | descriptor table | open, read, write, close | FAT32, heap |
| FAT32 (`FAT32_Main.c`) | the volume | find, read, overwrite | disk I/O |
| disk I/O (`IO_Main.c`) | the drive | `disk_read`, `disk_write` | drive |
| virtio GPU (`VirtIO.c`, `Display_Main.c`) | queue, response buffers, frame buffer | init, draw, fill, present | device, heap |
| interrupts, GDT, serial, PCI | constant tables, ports | | |
| user side (`Userland.c`, `PNG_Decoder.c`) | open file, buffers, picture | `_start`, `load_png`, decoder | system calls |

The behaviours that are hard to get right, and hard to test, are:

* processes interleave at system calls, share one syscall stack, and reuse each
  other's slots;
* long sequences of allocations split and merge blocks, with a search hint that
  outlives the block it points to, and sizes that wrap;
* the firmware changes its memory map while the loader tries to leave it, and the
  loader's buffers, the kernel, the heap and the user program share one memory;
* the processor caches translations of addresses that are mapped anew;
* a disk command can fail at any sector of a read or a read-modify-write, and the
  drive may still work on an earlier command when the next one comes;
* the GPU runs concurrently with the driver, and may answer after the driver has
  given up and gone on to the next command;
* 16-bit ring indices and 32-bit coordinates wrap.

`PROJECT.json` lists these hazards line by line with the properties that cover
them.

## 2. Modules

| module | models | how |
|---|---|---|
| `ProcessManager` | `ProcessManager_Create.c` | pure operators on the process table, under the names of the C functions |
| `Syscall` | entry, dispatch and return of system calls, with `ProcessManager` | one action per kind of call |
| `CooperativeScheduler` | the promise of the scheduler | abstract specification |
| `KernelHeap` | the heap | one action per function; the headers in memory and the set of those on the list |
| `PageAllocator` | the page bitmap | one action per function |
| `Paging` | page tables, MMIO window and, as external, the translation cache | one action per function |
| `BootLoader` | `Loader.c` and, as external, the firmware's memory map | one action per firmware call |
| `KernelStart` | `kernel_main` and `load_userland_elf`, composed with the three above | one action per call or step that can fail |
| `AtaDisk` | `disk_read`, `disk_write` and, as external, the drive | one action per command, status test and transfer |
| `SectorStore` | the promise of the disk functions | abstract specification |
| `FAT32` | lookup, read, overwrite | pure operators, parameterised by the number of disk commands that succeed |
| `SyscallFile` | the file system calls over `FAT32` | one action per call |
| `FileStore` | the promise of the file calls | abstract specification |
| `Framebuffer` | drawing | one action per function; a store outside the frame buffer adds a place to it |
| `VirtioGpu` | the driver and, as external, the device | one action per memory access the other side can see |
| `PngDecoder` | the PNG decoder | pure operators, and one action for a call |
| `MC...` | | instances for TLC |
| `...Proofs` | | theorems and their proofs |

Definitions named `X_...` directly above a definition `X`, with a comment that
starts "Faulty form", are variants of `X` with a bug such code might have. They are
used by no specification; each shows that a property notices the bug.

**System calls.** `IA32_FMASK` clears the interrupt flag and no interrupt
handler calls the scheduler, so a call is one step. A frame is kept as far as
the properties tell frames apart: whose registers it holds, and whether its return
address is the entry point of a new program. A stack is a number: 0 is
`user_stack` and, as a frame address, the frame on the syscall stack; the others are
the stacks `kmalloc` has returned, which nobody frees. Calls that touch neither
the table nor a frame are one action (`ReturningCall`). A page fault halts
the machine.

**Heap.** Every function runs with interrupts off and the lock held and is one
step. Addresses are offsets from `heap_start`. The bytes of a header stay in
memory when the block is merged, which is what makes a stale hint matter.
`owned` is a history variable: what each caller holds and asked for.
`GrowsIntoHint` says whether `krealloc` may grow into the block the hint points
to, and the history variable `resized` whether `krealloc` was called; the kernel has
no caller of it at present.

**Start.** A page has a type, which the firmware keeps, and a content, as far as the
properties tell contents apart: the kernel, `BOOT_INFO`, the memory map, the file's
bytes, the heap, the user program, or anything else. Pool memory comes from any free
page, so the map's buffer may lie in the future heap, or a buffer where a segment is
to go. The firmware takes and gives back pages on its own, a bounded number of times
(`MAX_CHANGES`), and each change gives the map a new key. `kernel_main` is the sequence
`CallOrder`; a function in it is one or several actions. A write to a segment's
address changes whatever lies there. That may be the buffer the file is read from, which
lies in the heap, as the user program's addresses do: `load_userland_elf` compares an
address with 0x400000 (`USER_BASE`) and 0x80000000 and with nothing else. From then on
(history variable `clobbered`) the headers it reads are what it has written: `RestOfLoopSpoiled` lets the
rest of the loop overwrite any page (one page), and then it fails, faults
(`LoaderFaults`) or goes on to user mode. The headers of the heap's blocks are not part of
this module, nor is what a segment copied over them does to `kfree`. The heap is taken in
whole pages and address order, as next fit does while nothing is freed. `Paging` counts
in pages of 2 MB; the processor may cache a translation it finds in the tables
between any two steps.

**Files.** The FAT and the directory are constant, for no function in use changes
them. `good` is the number of disk commands that succeed before one fails. The
disk stores a sector once its transfer is complete; a command that fails stores
nothing, as `SectorStore` says.

**Disk.** The drive ignores a command while BSY or DRQ is set, and is busy writing
after `disk_write` has returned. Polls are not counted: a loop may give up at any
of them, `disk_read` also at the one that shows DRQ. `broken` is a history variable:
a time-out cut off a command of the drive, or the drive failed to write what it had
accepted. `SectorStore` promises nothing afterwards.

**Virtio.** The build has no optimisation flag and x86 keeps the order of
stores, so the driver's stores reach the device in program order. All commands use
descriptors 0 and 1, and their responses are local variables: `Resp` gives the
address of each, for the layouts in which functions share addresses or do not.
What a late device finds at the address of a command that has returned is
undefined, and `CommandsAt` chooses. The device is modelled from how the driver
uses it; it refuses to create a resource twice or to attach a second backing.
`gave_up` is a history variable.

**Pictures.** A picture file is a sequence of chunks. `Files` gives, with each
file, the picture it holds if it is of the kind the decoder takes (8-bit RGBA, one
stored block in one IDAT chunk); the encoder in `MCPngDecoder` builds the files from
pictures, as the PNG specification defines the filters. `PngDecoder` is about what
`png_decode_buffer` computes. A call returns that, or NULL for want of memory, or does not
return: its `kmalloc` and `kfree` are the system calls of the run `syscall_heap_calls`.

**Assumptions.** One processor. Programs keep `rsp` on their own stack. Programs
do not free process stacks. Callers of `free_page` own the page. The heap is memory that
is neither the kernel's nor the firmware's stack, the user program's segments are memory
other than that stack, and the kernel is linked below 0x400000 (`KernelStartAssumption`);
no device or memory lies in the MMIO window (`PagingAssumption`): the code does not tell
such an address from one of the window. The volume's sectors have the drive's 512 bytes
and lie within 28-bit sector numbers (`AtaDiskAssumption`). Drawing
and presenting happen one after the other, since system calls do.

## 3. Runs

| run | bounds | shows |
|---|---|---|
| `syscall` | 3 slots, 4 stacks, 2 entry points | `NoSharedStack`, `ReturnsOnOwnStack`, `FirstFrameIntact`, `HaltsOnlyWhenIdle`, `KeepsItsSlot`, `RoundRobinProgress`; refinement `ImplementsScheduler`; `ReadyRuns` |
| `heap` | heap of 16 bytes, headers of 2, sizes 0, 1, 3, 7 | the list, the owners, the counters, honest failure, harmless wrong frees, with `krealloc` away from the hint |
| `files` | 2 descriptors, clusters of 2 sectors of 2 bytes, files of 5, 1 and 5 bytes (the last one broken) | refinement `ImplementsFileStore`; `WritesStayInside`; `DriverComplete` |
| `disk` | 3 sectors on a drive of 4, up to 2 in a call | refinement `ImplementsSectorStore`; `DiskCallsReturn` |
| `boot` | 13 pages, 2 segments of the kernel and 3 of the user program, heap of 5 pages, 2 changes of the map, 4 devices for 2 slots | the loader (`RetriesLeakNothing`, `HangsOnlyForCause`), the hand-over (`KernelReadsTheMap`, `KernelSurvives`), the kernel (`PagesAccounted`, `TranslationsHold`, `WindowNotWasted`, `UserImageComplete`), the composition (`ImplementsParts`), `BootEnds` |
| `framebuffer` | screen of 3 by 3, integers modulo 5 | exact clipping |
| `png` | pictures of 2 by 2 with every pair of filters and of 4 by 1, pixels of 2 bytes, bytes modulo 8, four files of other kinds | `DecodesThePicture` |
| `gpu` | 2 polls, indices modulo 5, one command outstanding, 2 frames, both layouts | `ReadyMeansConfigured`, `IndicesInOrder`, `PresentShowsFrame`, `CallsReturn` |
| `syscall_frames`, `syscall_heap_calls`, `heap_stale_hint`, `heap_wrap` | | disagreements, section 5 |

Why the bounds are enough to meet the interesting cases:

* three slots allow a running, a waiting and a dead process whose slot is used
  again, and a waiting process to be passed over; four stacks allow a slot to be
  used again twice;
* the small heap holds up to four blocks, so that merges on both sides, a
  remainder too small to split and a full heap all occur;
* a file of a full cluster and part of a sector has a chain, a write that stops
  inside a cluster or between clusters, and a last sector that is written in part;
  two descriptors can be on one file;
* two changes of the map make the loader try three times, and can use up the three
  descriptors it has to spare; the map's buffer and the file's fall into the heap and
  onto the addresses of both programs; the user's segments lie inside the heap, and the
  file's buffer is below them, on the second of them or between them, depending on how far
  the display's start got; four devices, one below the limit of the identity map, exhaust two slots;
* a call of two sectors meets a drive that is still writing the first, and three
  sectors tell a neighbour from the sector asked for;
* two rows and two columns have a pixel with all three neighbours, and two bytes per pixel
  tell the byte to the left from the byte of the pixel to the left;
* sums of coordinates wrap modulo 5 on a screen of 3;
* the indices wrap after five commands, the initialisation and one present take
  six; a command given up can be completed during any later one.

`CHECK_DEADLOCK FALSE` is set where the system really stops: after `halt_forever` and a
page fault (`Syscall`), after `while (1)` of the loader and `hlt` of the kernel (`boot`),
and after the one call of the decoder (`png`).

**Fairness.** `Syscall!FairSpec` has weak fairness of `process_yield`: the main
loop of the user program is `while(1) process_yield();` (`Userland.c:225`), and
a cooperative scheduler promises nothing about programs that never yield. The program at
hand gets to that loop only if its picture file does not open (section 5); the run
`syscall` is about programs that make no heap calls.
`VirtioGpu!FairSpec` has weak fairness of the driver's steps: the processor runs
nothing else while it polls. The device has none, it may never answer.
`AtaDisk` is alike: the driver's steps are fair, the drive's are not, and a poll that
may give up does so in the end, because the loops count; the models do not count along.
`KernelStart!BootSpec` says that the one thread of control there is goes on; that the
firmware leaves its map alone in the end is the bound `MAX_CHANGES`, without which
`ExitBootServicesComplete` need not end.

## 4. Proofs

All theorems hold for every value of the constants that satisfies the named
assumptions.

* **`SyscallProofs`**: the properties of `syscall` and `RoundRobinProgress`. The
  inductive invariant `IInv` adds `TableInv`: live processes have distinct stacks
  out of those handed out so far, and a ready process has its own stack as saved
  user stack and either the frame prepared for it or the common frame. That is
  needed because what a process returns with is decided when it is saved or
  created, several switches earlier. `TableInv` is stated for a table and frames
  as parameters, so that the lemmas about saving, creating and picking apply
  in the middle of a call. `pick_next_ready` is shown to return the nearest ready
  slot, from the least element of a set of distances. `SchedulerIsImplemented` is the
  safety part of the refinement of `CooperativeScheduler`: each call is a step of it,
  the slot picked being one that no other ready slot is nearer than.
* **`KernelHeapProofs`**: `IInv` says that the blocks on the list tile the heap
  (`HeapOK`), the hint is on the list, no header is left behind where a block was
  merged, and owners and used blocks correspond (`OwnInv`). Splitting and merging are
  shown to preserve the tiling in lemmas of their own. Two hypotheses are explicit:
  `NoWrap` (no requested size wraps in `align_up`) and `HintKept` (`krealloc` does not
  grow into the hint's block); the runs `heap_wrap` and `heap_stale_hint` show that both
  are needed. `FreeBlocksAreMerged`, `HeapChangesOnlyForOwners` and
  `PayloadsHandedOutOnce` are for the kernel as it is, without callers of `krealloc`.
* **`KernelHeapSearchProofs`** continues it with what the recursive functions compute.
  `OutOfMemoryMeansFull` rests on what the two recursive functions of
  `kmalloc_scan` compute: `FirstAhead` says it without recursion, is shown to satisfy
  their equation, and, from the last block where they could differ, to be the only
  solution. `UsedMemoryIsExact` treats the sum of `MapThenSumSet` alike: sums up to an
  address exist and are unique, by the least address where they would not, give the sum
  of a set, and that solves the equation of the fold; the sizes of blocks that tile the
  heap sum up to less than 2^32, so that the wrapped difference is the sum itself
  (again without callers of `krealloc`).
* **`MemoryProofs`**: of the page allocator, that the bitmap and the owners agree, and that
  `alloc_page` is honest wherever the hint is; of paging, `TranslationsAlwaysHold` and
  `WindowNeverWasted`. The inductive invariant of the latter says of every page of the
  window whether its slot is filled, what the tables then hold, that the cache holds
  nothing else, and that what was granted is just the filled slots and the identity map.
  The state of the cache has to be part of it: a translation cached before a slot is
  filled is harmless only because of `invlpg`. Of the boot loader and the kernel's start,
  `LoaderLeaksNothing` and `KernelAlwaysSurvives`: the inductive invariant `BootInv`
  accounts for every page of type LoaderData and says that
  the buffers are distinct, that they are not on pages of segments already copied, and
  what those hold while the loader runs; from the jump on it is `KernelSurvives` itself,
  for the kernel writes only to the heap and to addresses that passed the test of
  `load_userland_elf`. For how long that test is of the headers in the file is `FileInv`:
  until a segment is copied over the buffer, the buffer holds the file.
* **`KernelStartProofs`**: the other safety properties of `boot`, over the whole
  composition. `MapInv` bounds
  the number of descriptors by the changes of the map (a change of one page adds at most
  two), which gives `HangsOnlyForCause`, and says where the map that was fetched lies.
  `Called` says how far the parts are when a call of `kernel_main` is reached, which makes
  each step of the whole a step of the parts (`StartImplementsParts`); their theorems then
  hold of the whole. `ImageInv` says when the file's
  buffer is held and, until a segment is copied over it, which segments are in place and
  that they are not in the buffer, which `kfree` is going to overwrite. Where the heap and
  the segments lie to each other is not assumed.
* **`AtaDiskProofs`**: `DiskIsASectorStore`, the refinement of `SectorStore`. The
  invariant `DiskInv` ties the drive's state to the call: unless `broken`, a drive that has
  data ready or wants them works for the sector the call is at, and what was read so
  far is what the store held. Each step is then a step of the store or a stutter.
* **`VirtioGpuProofs`**: the safety properties of `gpu`. The invariant `GpuInv` has three
  parts. `Counting`: the distances between the three indices are true distances, which
  needs an index range larger than what can be outstanding (`VirtioGpuAssumption`; 65536
  in the code). `Starting`: which commands the device may have found at each point of
  `virtio_gpu_init`, and what a response that reports success says of it. `InStep`: until
  the driver gives up, the one command that is outstanding is the driver's own, and the device has done all earlier ones.
* **`PictureProofs`**: of the frame buffer, that clipping with sums modulo 2^32 is exact
  and that no store leaves it, for every screen and width of integers. Of the decoder,
  `DecoderRestores`: whatever filters the rows of a picture went through, `png_unfilter`
  gives the picture back, by induction over the bytes of a row and over the rows, with
  the recursive functions as the only solutions of their equations.
  `DecoderReturnsThePicture` adds the walk over the chunks and the stored block. It rests on
  `FilesAssumption`: a file holds the picture it is said to hold, or is one the decoder has
  to refuse.

Only model-checked: liveness (`ReadyRuns`, `CallsReturn`, `DiskCallsReturn`, `BootEnds`)
and the fairness in `CooperativeScheduler`; of the file calls,
`DriverComplete`, `WritesStayInside` and the refinement of `FileStore`, which rest on what
`FAT32`'s recursive functions compute from a volume. That
`alloc_page` is honest (`AllocHonest`), that one process runs at a time (`OneRunning`) and
the types are proved, and no run repeats them.

## 5. Where the code disagrees with itself

* `syscall_frames`: all processes push their frame at one address
  (`Syscall_Entry.asm:11`), so a process that waits is resumed with the registers of
  the last one that made a call. `FirstFrameIntact` shows that the first run of a
  process is not affected.
* `syscall_heap_calls`: `SYSCALL_USER_KMALLOC` and `SYSCALL_USER_KFREE` return their
  result where `syscall_entry` expects the address of a frame
  (`Syscall_Dispatch.c:108`, `:114`). For the user program this means that `load_png` does
  not get past its first `kmalloc` (`Userland.c:173`) once the picture file is open.
* `heap_stale_hint`: `krealloc` grows into the block the hint points to and leaves
  the hint (`Memory_Main.c:343`); the next allocation uses a header inside the grown
  block. No code calls `krealloc` yet.
* `heap_wrap`: `align_up` wraps for sizes next to 2^32 (`Memory_Main.c:69`), and
  `kmalloc` then returns a block of size 0.

Not disagreements within the repository, but worth knowing:

* `load_userland_elf` may copy a segment over the file it is reading; the run `boot` reaches
  user mode with a damaged program that way, and no line says that it cannot happen.
* `src/Userland/LOGO.PNG` has two IDAT chunks with two stored blocks, and `png_decode_buffer`
  keeps the last chunk only (`Parsed`): it would not make the picture of it even if its heap
  calls returned.

## 6. Not modelled

* The user program as a whole. Behind its first `kmalloc` nothing of it runs (section 5);
  before it there is a rectangle, a present and an open, which are actions of
  `Framebuffer`, `VirtioGpu` and `SyscallFile`.
* What exactly `load_userland_elf` does once the file it reads is overwritten: it is a
  choice, and the properties stop there.
* The GDT, the serial port, the PCI configuration ports (the scan for the display is a
  choice) and the memory utilities hold no state a property could be about; the display
  layer forwards its calls. Of the interrupt handlers only the page fault changes what the
  kernel does.
* `fat32_list_root_files` prints, `fat_set_next_cluster` is not called, and exFAT is
  empty. `fat32_init` copies fields; its result is dropped, and after a failure the
  divisions by a sector size of 0 are undefined.
* The depth of the stacks: `fat32_read_file` puts a cluster on a stack of 4096 bytes.
* What happens to the user program's memory once it runs: its addresses, the heap and the
  frame buffer may overlap, depending on sizes that nothing in the code compares.
* Structures of a device that continue behind the end of a 2 MB page, and sector numbers
  of more than 28 bits; the models take both not to occur. `free_page` of a page the
  caller does not own: nothing in the kernel calls it yet.
* What a failed initialisation of the display, or a loader that returns to the firmware,
  has allocated and keeps: no line promises to give it back, and both happen once.
* Interrupts between `sti` and the kernel's own segment table (`IDT.asm:101`), and the
  order of red and blue between decoder and display (`VirtIO.c:519`): a colour is passed
  on unchanged in the models.
* Picture files whose header does not fit their data: the reads leave the buffer.
* The drive and the display after the driver has given up on a command that they go on
  to complete: the models have these states, the properties stop there. More than
  `MAX_PENDING` commands that the device has not yet taken: the guard of
  `virtio_gpu_present` leaves out presents by a kernel that has already given up so often.
