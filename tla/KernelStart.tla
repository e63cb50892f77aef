----------------------------- MODULE KernelStart -----------------------------
(***************************************************************************)
(* The whole start of the system: the boot loader of BootLoader, then      *)
(* kernel_main with the page allocator of PageAllocator, the page tables   *)
(* of Paging, the heap, the display's start and load_userland_elf, up to   *)
(* user mode.  What ties the parts together is memory: the firmware's map  *)
(* lies in a page of the loader, the heap is wherever the kernel ends,     *)
(* and the user program is copied to the addresses it was linked for.      *)
(*                                                                         *)
(* kernel_main runs on one processor and nothing runs beside it; init_idt, *)
(* init_gdt, syscall_init, process_manager_init and syscall_file_init      *)
(* touch no state of this module and are left out.  The heap is taken here *)
(* in whole pages and in address order, which is what kmalloc's next fit   *)
(* does while nothing is freed (see KernelHeap).                           *)
(***************************************************************************)
EXTENDS BootLoader, PageAllocator, Paging

CONSTANTS
    HeapStart,              \* heap_start_page
    RING_PAGES,             \* pages of the virtqueue ...
    FRAMEBUFFER_PAGES,      \* ... and of the frame buffer
    UserSegments,           \* the PT_LOAD segments of URLD.ELF
    USER_BASE,              \* page of 0x400000, the lowest address of a segment
    MAX_CAPS                \* bound: capabilities of the display

HeapPages == HeapStart .. HeapEnd - 1
Union(segments) == UNION {segments[i] : i \in DOMAIN segments}

\* The pages load_userland_elf lets a segment begin at; there is no memory here
\* at 0x80000000 and above.
UserPages == {p \in RamPages : p >= USER_BASE}

\* The heap is taken to be where there is memory that is neither the kernel's nor
\* its stack, and no segment of the user program at the stack; the code does not
\* look.  The kernel is linked below USER_BASE.  The maps that PageAllocator is
\* studied with include the one of this machine.
ASSUME KernelStartAssumption ==
    /\ HeapStart \in Nat /\ HeapPages # {} /\ HeapPages \subseteq RamPages
    /\ RING_PAGES \in Nat /\ FRAMEBUFFER_PAGES \in Nat /\ MAX_CAPS \in Nat
    /\ HeapPages \cap (ReservedPages \cup {StackPage} \cup Union(KernelSegments)) = {}
    /\ UserSegments \in Seq(SUBSET (RamPages \ (ReservedPages \cup {StackPage})))
    /\ USER_BASE \in Nat /\ \A p \in Union(KernelSegments) : p < USER_BASE
    /\ {[start_page |-> p, page_count |-> 1, usable |-> p \notin ReservedPages] : p \in RamPages}
         \in MemoryMaps

VARIABLES
    call,           \* where kernel_main is in CallOrder
    stage,          \* where the function called is
    lent,           \* per page of the heap, what kmalloc gave it to
    caps,           \* capabilities of the display mapped so far
    useg,           \* the segment load_userland_elf is at
    clobbered       \* history: a segment was copied over the file it comes from

kernelVars == <<call, stage, lent, caps, useg, clobbered>>
allVars == <<loaderVars, vars, pagingVars, kernelVars>>

BootInit ==
    /\ LoaderInit /\ Init /\ PagingInit
    /\ call = 1 /\ stage = "start" /\ caps = 0 /\ useg = 1 /\ clobbered = FALSE
    /\ lent = [p \in HeapPages |-> "free"]

\* Faulty form: the heap is initialized before the memory map is read.
CallOrder_heap_first ==
    <<"memory_init", "init_physical_memory", "init_paging", "display_init",
      "all_fs_initialize", "load_userland_elf", "process_register_boot_process">>

\* Faulty form: the display is started before the kernel has its page tables.
CallOrder_display_first ==
    <<"init_physical_memory", "memory_init", "display_init", "init_paging",
      "all_fs_initialize", "load_userland_elf", "process_register_boot_process">>

\* The calls of kernel_main.
CallOrder ==
    <<"init_physical_memory", "init_paging", "memory_init", "display_init",
      "all_fs_initialize", "load_userland_elf", "process_register_boot_process">>

In(name, at) == pc = "kernel" /\ CallOrder[call] = name /\ stage = at
Return == call' = call + 1 /\ stage' = "start" /\ UNCHANGED pc
To(at) == stage' = at /\ UNCHANGED <<pc, call>>
Halt == pc' = "halted" /\ UNCHANGED <<call, stage>>

Write(pages, content) ==
    bytes' = [p \in RamPages |-> IF p \in pages THEN content ELSE bytes[p]]
-----------------------------------------------------------------------------
(* Memory *)

\* The descriptors the loader left, one per page here.
BootMap ==
    {[start_page |-> p, page_count |-> 1, usable |-> map[p] # "Reserved"] : p \in RamPages}

\* The firmware's types mean nothing from here on, nor do the loader's buffers.
InitPhysicalMemory ==
    /\ In("init_physical_memory", "start")
    /\ init_physical_memory(BootMap)
    /\ mem' = [p \in RamPages |-> IF p \in ReservedPages THEN "Reserved" ELSE "Kernel"]
    /\ bytes' = [p \in RamPages |->
                   IF bytes[p] \in {"kernel", "boot_info", "heap"} THEN bytes[p] ELSE "other"]
    /\ map' = <<>> /\ MemoryMap' = NO_PAGE
    /\ Return
    /\ UNCHANGED <<loaderOnly, pagingVars, lent, caps, useg, clobbered>>

InitPaging ==
    /\ In("init_paging", "start")
    /\ \E fb_end \in FramebufferEnds : init_paging(fb_end)
    /\ Return
    /\ UNCHANGED <<mem, bytes, loaderOnly, MemoryMap, map, vars, lent, caps, useg, clobbered>>

\* The header of the heap's only block is written.
MemoryInit ==
    /\ In("memory_init", "start")
    /\ Write({HeapStart}, "heap")
    /\ Return
    /\ UNCHANGED <<mem, loaderOnly, MemoryMap, map, vars, pagingVars, lent, caps, useg, clobbered>>

FreeHeap == {p \in HeapPages : lent[p] = "free"}

\* The next n pages of the heap, which is free from some page on.
Fresh(n) == {p \in FreeHeap : Cardinality({q \in FreeHeap : q < p}) < n}

kmalloc(n, owner) ==
    /\ Cardinality(FreeHeap) >= n
    /\ lent' = [p \in HeapPages |-> IF p \in Fresh(n) THEN owner ELSE lent[p]]
    /\ Write(Fresh(n), "heap")

\* kfree of the buffer of load_userland_elf.
kfree(owner) ==
    /\ lent' = [p \in HeapPages |-> IF lent[p] = owner THEN "free" ELSE lent[p]]
    /\ Write({p \in HeapPages : lent[p] = owner}, "heap")
-----------------------------------------------------------------------------
(* display_init, which is virtio_gpu_init; VirtioGpu has the device's side *)

NoLoaderNoPages == UNCHANGED <<mem, loaderOnly, MemoryMap, map, vars>>

\* No device, a call of map_mmio_virt or kmalloc that returns NULL, a device
\* that refuses: kernel_main warns and goes on.
DisplayFails ==
    /\ pc = "kernel" /\ CallOrder[call] = "display_init"
    /\ Return
    /\ NoLoaderNoPages /\ UNCHANGED <<bytes, pagingVars, lent, caps, useg, clobbered>>

\* virtio_pci_find_caps maps the page of every capability in a memory BAR.
MapCapability ==
    /\ In("display_init", "start") /\ caps < MAX_CAPS
    /\ \E phys \in DevicePages : map_mmio_virt(phys)
    /\ caps' = caps + 1
    /\ To("start")
    /\ NoLoaderNoPages /\ UNCHANGED <<bytes, lent, useg, clobbered>>

\* virtqueue_init_ctrl, once the capabilities are mapped.
AllocateRing ==
    /\ In("display_init", "start")
    /\ kmalloc(RING_PAGES, "ring")
    /\ To("framebuffer")
    /\ NoLoaderNoPages /\ UNCHANGED <<pagingVars, caps, useg, clobbered>>

AllocateFramebuffer ==
    /\ In("display_init", "framebuffer")
    /\ kmalloc(FRAMEBUFFER_PAGES, "framebuffer")
    /\ To("commands")
    /\ NoLoaderNoPages /\ UNCHANGED <<pagingVars, caps, useg, clobbered>>

DisplayReady ==
    /\ In("display_init", "commands")
    /\ Return
    /\ NoLoaderNoPages /\ UNCHANGED <<bytes, pagingVars, lent, caps, useg, clobbered>>
-----------------------------------------------------------------------------
(* The file system and the user program *)

\* Whether fat32_init succeeds is not looked at; without a file system the file
\* is not found.
AllFsInitialize ==
    /\ In("all_fs_initialize", "start")
    /\ Return
    /\ NoLoaderNoPages /\ UNCHANGED <<bytes, pagingVars, lent, caps, useg, clobbered>>

\* load_userland_elf: no such file, a size out of bounds, or no memory for it.
UserFileRefused ==
    /\ In("load_userland_elf", "start")
    /\ Halt
    /\ NoLoaderNoPages /\ UNCHANGED <<bytes, pagingVars, lent, caps, useg, clobbered>>

AllocateUserFile ==
    /\ In("load_userland_elf", "start")
    /\ kmalloc(1, "file")
    /\ To("read")
    /\ NoLoaderNoPages /\ UNCHANGED <<pagingVars, caps, useg, clobbered>>

\* The buffer of load_userland_elf.
FilePages == {p \in HeapPages : lent[p] = "file"}

ReadUserFile ==
    /\ In("load_userland_elf", "read")
    /\ Write(FilePages, "user_elf")
    /\ To("segments")
    /\ NoLoaderNoPages /\ UNCHANGED <<pagingVars, lent, caps, useg, clobbered>>

\* Faulty form: the buffer is not freed.
UserFileFails_leak ==
    /\ \/ In("load_userland_elf", "read")
       \/ In("load_userland_elf", "segments") /\ useg <= Len(UserSegments)
       \/ In("load_userland_elf", "spoiled")
    /\ Halt
    /\ NoLoaderNoPages /\ UNCHANGED <<bytes, pagingVars, lent, caps, useg, clobbered>>

\* The read fails, the magic number is wrong, or a segment is: memsz < filesz,
\* "Invalid virtual address".
UserFileFails ==
    /\ \/ In("load_userland_elf", "read")
       \/ In("load_userland_elf", "segments") /\ useg <= Len(UserSegments)
       \/ In("load_userland_elf", "spoiled")
    /\ kfree("file")
    /\ Halt
    /\ NoLoaderNoPages /\ UNCHANGED <<pagingVars, caps, useg, clobbered>>

\* Something was written over the file in the buffer.
Spoiled == \E p \in FilePages : bytes[p] # "user_elf"

\* One segment: memcpy from the buffer, memset behind it.  What is copied from a
\* spoiled buffer, or over the buffer, is not the program.
LoadUserSegment ==
    /\ In("load_userland_elf", "segments") /\ useg <= Len(UserSegments)
    /\ UserSegments[useg] \subseteq UserPages
    /\ LET over == UserSegments[useg] \cap FilePages # {} IN
         /\ Write(UserSegments[useg], IF over \/ Spoiled THEN "other" ELSE "user")
         /\ clobbered' = (clobbered \/ over)
    /\ useg' = useg + 1
    /\ To("segments")
    /\ NoLoaderNoPages /\ UNCHANGED <<pagingVars, lent, caps>>

\* The headers are read from the buffer in every turn, the sizes again after the
\* memcpy.  Once it is spoiled, the rest of the loop may write anywhere, to one
\* page here.
RestOfLoopSpoiled ==
    /\ In("load_userland_elf", "segments") /\ Spoiled
    /\ \E p \in RamPages : Write({p}, "other")
    /\ To("spoiled")
    /\ NoLoaderNoPages /\ UNCHANGED <<pagingVars, lent, caps, useg, clobbered>>

\* It writes where there is no memory: the exception handler stops the machine.
LoaderFaults ==
    /\ In("load_userland_elf", "spoiled")
    /\ Halt
    /\ NoLoaderNoPages /\ UNCHANGED <<bytes, pagingVars, lent, caps, useg, clobbered>>

UserLoaded ==
    /\ \/ In("load_userland_elf", "segments") /\ useg > Len(UserSegments)
       \/ In("load_userland_elf", "spoiled")
    /\ kfree("file")
    /\ Return
    /\ NoLoaderNoPages /\ UNCHANGED <<pagingVars, caps, useg, clobbered>>

\* process_register_boot_process finds a slot, and entry_user_mode is the end of
\* kernel_main; or it does not, and the system halts.
EnterUserMode ==
    /\ In("process_register_boot_process", "start")
    /\ pc' \in {"user", "halted"}
    /\ NoLoaderNoPages /\ UNCHANGED <<bytes, pagingVars, kernelVars>>

KernelStep ==
    \/ InitPhysicalMemory \/ InitPaging \/ MemoryInit
    \/ DisplayFails \/ MapCapability \/ AllocateRing \/ AllocateFramebuffer \/ DisplayReady
    \/ AllFsInitialize
    \/ UserFileRefused \/ AllocateUserFile \/ ReadUserFile \/ UserFileFails
    \/ LoadUserSegment \/ RestOfLoopSpoiled \/ LoaderFaults \/ UserLoaded \/ EnterUserMode
-----------------------------------------------------------------------------

\* The loader's steps come before the kernel's.
LoaderRuns ==
    (LoaderStep \/ FirmwareChanges) /\ UNCHANGED <<vars, pagingVars, kernelVars>>

\* Pages are allocated and freed once the system is up.
PagesUsed == pc = "user" /\ Next /\ UNCHANGED <<loaderVars, pagingVars, kernelVars>>

\* Only the window's pages: the entries of the others never change.
ProcessorCaches ==
    /\ pc = "kernel"
    /\ \E v \in Window : CacheTranslation(v)
    /\ UNCHANGED <<loaderVars, vars, kernelVars>>

BootNext == LoaderRuns \/ KernelStep \/ PagesUsed \/ ProcessorCaches

\* The loader and kernel_main keep running.
BootSpec ==
    /\ BootInit /\ [][BootNext]_allVars
    /\ WF_allVars(LoaderStep /\ UNCHANGED <<vars, pagingVars, kernelVars>>)
    /\ WF_allVars(KernelStep)
-----------------------------------------------------------------------------
(* Properties *)

\* init_physical_memory reads a map that describes the memory as it is: nothing
\* has overwritten the loader's buffer, which may well lie where the heap is
\* going to be, and the firmware has not changed the map since.
KernelReadsTheMap ==
    [][memory_map # memory_map' =>
          MemoryMap # NO_PAGE /\ bytes[MemoryMap] = "map" /\ map = mem]_allVars

\* From the jump to the kernel on its segments stay as the loader put them, and
\* BootInfo on the firmware's stack stays readable, through heap, display and
\* the loading of the user program; unless load_userland_elf has copied a segment
\* over the file it reads, which nothing in it prevents.
KernelSurvives ==
    pc \in {"kernel", "user"} /\ ~clobbered =>
        /\ \A p \in Union(KernelSegments) : bytes[p] = "kernel"
        /\ bytes[StackPage] = "boot_info"

\* As long as no segment was copied over the file's buffer, user mode is entered
\* only with all segments of the user program in memory, and no buffer of
\* load_userland_elf is left behind, on any of its paths.
UserImageComplete ==
    ~clobbered =>
        /\ pc = "user" => \A p \in Union(UserSegments) : bytes[p] = "user"
        /\ pc \in {"user", "halted"} => FilePages = {}

\* kernel_main and virtio_gpu_init use the page allocator and the page tables
\* only in the ways PageAllocator and Paging describe (the tables are built
\* before a device is mapped, the map handed over is a proper one), so that
\* what is proved about the two holds in the whole system.
ImplementsParts == Spec /\ PagingSpec

\* The machine does not hang half way: the loader gives up, or the kernel
\* reaches user mode or halts, however often the memory map changes.
BootEnds == <>(pc \in {"returned", "hung", "halted", "user"})
=============================================================================
