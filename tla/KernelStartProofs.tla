-------------------------- MODULE KernelStartProofs --------------------------
(***************************************************************************)
(* Proofs about the whole start of the system, for every size of memory,   *)
(* every layout of the kernel and the user program that satisfies          *)
(* KernelStartAssumption, and any number of changes of the memory map.     *)
(***************************************************************************)
EXTENDS MemoryProofs, FiniteSetTheorems
-----------------------------------------------------------------------------
(* The number of descriptors *)

LEMMA RamIsFinite == IsFiniteSet(RamPages)
BY BootLoaderAssumption, FS_Interval DEF RamPages

LEMMA DescriptorsCount == Descriptors \in Nat
<1> DEFINE D == {p \in RamPages \ {0} : mem[p] # mem[p - 1]}
<1>1. IsFiniteSet(D)
    BY RamIsFinite, FS_Subset, D \in SUBSET RamPages, Zenon
<1>2. Cardinality(D) \in Nat
    BY <1>1, FS_CardinalityType, Zenon
<1> QED
    BY <1>2 DEF Descriptors

\* A page that changes its type begins a run, and so may the one behind it.
LEMMA OnePageTwoDescriptors ==
    ASSUME NEW q \in RamPages, NEW type, NEW content, Retype({q}, type, content)
    PROVE  Descriptors' \in Nat /\ Descriptors' <= Descriptors + 2
<1> DEFINE D == {p \in RamPages \ {0} : mem[p] # mem[p - 1]}
           E == {p \in RamPages \ {0} : mem'[p] # mem'[p - 1]}
<1>1. \A p \in RamPages \ {q} : mem'[p] = mem[p]
    BY Zenon DEF Retype
<1>2. E \in SUBSET ((D \cup {q}) \cup {q + 1})
    <2> SUFFICES ASSUME NEW p \in E, p # q, p # q + 1 PROVE p \in D
        BY Zenon
    <2>1. p \in RamPages \ {q} /\ p - 1 \in RamPages \ {q}
        BY BootLoaderAssumption DEF RamPages
    <2> QED
        BY <1>1, <2>1, Zenon
<1>3. IsFiniteSet(D)
    BY RamIsFinite, FS_Subset, D \in SUBSET RamPages, Zenon
<1> HIDE DEF D, E
<1>4. /\ IsFiniteSet(D \cup {q})
      /\ Cardinality(D \cup {q}) = IF q \in D THEN Cardinality(D) ELSE Cardinality(D) + 1
    BY <1>3, FS_AddElement, Zenon
<1>5. /\ IsFiniteSet((D \cup {q}) \cup {q + 1})
      /\ Cardinality((D \cup {q}) \cup {q + 1}) =
           IF q + 1 \in D \cup {q} THEN Cardinality(D \cup {q}) ELSE Cardinality(D \cup {q}) + 1
    BY <1>4, FS_AddElement
<1>6. IsFiniteSet(E) /\ Cardinality(E) <= Cardinality((D \cup {q}) \cup {q + 1})
    BY <1>2, <1>5, FS_Subset, Zenon
<1>7. Cardinality(D) \in Nat /\ Cardinality(E) \in Nat
    BY <1>3, <1>6, FS_CardinalityType
<1>8. Cardinality(E) <= Cardinality(D) + 2
    BY <1>4, <1>5, <1>6, <1>7
<1>9. Descriptors = 1 + Cardinality(D) /\ Descriptors' = 1 + Cardinality(E)
    BY Zenon DEF Descriptors, D, E
<1> QED
    BY <1>7, <1>8, <1>9

LEMMA DescriptorsAreFew == FewDescriptors
BY DescriptorsCount, OnePageTwoDescriptors, Zenon DEF FewDescriptors
-----------------------------------------------------------------------------
(* The calls of kernel_main *)

\* Which calls have been made, and what they leave: the map that was read, the
\* page tables.
Called ==
    /\ call \in 1 .. 7
    /\ Loading => call = 1
    /\ pc = "user" => call = 7
    /\ call = 1 => stage = "start"
    /\ call = 1 <=> memory_map = NoMap
    /\ call <= 2 <=> pdpt = {}

StartInv == BootInv /\ MapInv /\ Called

LEMMA CallNames ==
    ASSUME NEW c \in 1 .. 7
    PROVE  /\ CallOrder[c] = "init_physical_memory" <=> c = 1
           /\ CallOrder[c] = "init_paging" <=> c = 2
           /\ CallOrder[c] = "memory_init" <=> c = 3
           /\ CallOrder[c] = "display_init" <=> c = 4
           /\ CallOrder[c] = "all_fs_initialize" <=> c = 5
           /\ CallOrder[c] = "load_userland_elf" <=> c = 6
           /\ CallOrder[c] = "process_register_boot_process" <=> c = 7
<1>1. c = 1 \/ c = 2 \/ c = 3 \/ c = 4 \/ c = 5 \/ c = 6 \/ c = 7
    OBVIOUS
<1> QED
    BY <1>1 DEF CallOrder

\* Where each step of the kernel is in kernel_main.
LEMMA StepsAt ==
    ASSUME Called, KernelStep
    PROVE  /\ pc = "kernel" /\ pc' \in {"kernel", "halted", "user"}
           /\ InitPhysicalMemory => call = 1 /\ call' = 2
           /\ InitPaging => call = 2 /\ call' = 3
           /\ MemoryInit => call = 3 /\ call' = 4
           /\ MapCapability \/ AllocateRing \/ AllocateFramebuffer => call = 4 /\ call' = 4
           /\ DisplayFails \/ DisplayReady => call = 4 /\ call' = 5
           /\ AllFsInitialize => call = 5 /\ call' = 6
           /\ UserFileRefused \/ AllocateUserFile \/ ReadUserFile \/ UserFileFails
                \/ LoadUserSegment \/ RestOfLoopSpoiled \/ LoaderFaults
                => call = 6 /\ call' = 6
           /\ UserLoaded => call = 6 /\ call' = 7
           /\ EnterUserMode => call = 7 /\ call' = 7
           /\ pc' = "user" => EnterUserMode
<1>1. pc = "kernel" /\ pc' \in {"kernel", "halted", "user"}
    BY Zenon DEF KernelStep, InitPhysicalMemory, InitPaging, MemoryInit, DisplayFails, MapCapability,
       AllocateRing, AllocateFramebuffer, DisplayReady, AllFsInitialize, UserFileRefused,
       AllocateUserFile, ReadUserFile, UserFileFails, LoadUserSegment,
       RestOfLoopSpoiled, LoaderFaults, UserLoaded,
       EnterUserMode, In, Return, To, Halt
<1>2. call \in 1 .. 7
    BY Zenon DEF Called
<1>3. pc' = "user" => EnterUserMode
    BY Zenon DEF KernelStep, InitPhysicalMemory, InitPaging, MemoryInit, DisplayFails, MapCapability,
       AllocateRing, AllocateFramebuffer, DisplayReady, AllFsInitialize, UserFileRefused,
       AllocateUserFile, ReadUserFile, UserFileFails, LoadUserSegment,
       RestOfLoopSpoiled, LoaderFaults, UserLoaded,
       EnterUserMode, In, Return, To, Halt
<1>4. /\ InitPhysicalMemory => call = 1 /\ call' = 2
      /\ InitPaging => call = 2 /\ call' = 3
      /\ MemoryInit => call = 3 /\ call' = 4
    BY <1>2, CallNames DEF InitPhysicalMemory, InitPaging, MemoryInit, In, Return
<1>5. /\ MapCapability \/ AllocateRing \/ AllocateFramebuffer => call = 4 /\ call' = 4
      /\ DisplayFails \/ DisplayReady => call = 4 /\ call' = 5
      /\ AllFsInitialize => call = 5 /\ call' = 6
    BY <1>2, CallNames DEF MapCapability, AllocateRing, AllocateFramebuffer, DisplayFails,
       DisplayReady, AllFsInitialize, In, Return, To
<1>6. /\ UserFileRefused \/ AllocateUserFile \/ ReadUserFile \/ UserFileFails
           \/ LoadUserSegment \/ RestOfLoopSpoiled \/ LoaderFaults => call = 6 /\ call' = 6
      /\ UserLoaded => call = 6 /\ call' = 7
      /\ EnterUserMode => call = 7 /\ call' = 7
    BY <1>2, CallNames DEF UserFileRefused, AllocateUserFile, ReadUserFile, UserFileFails,
       LoadUserSegment, RestOfLoopSpoiled, LoaderFaults, UserLoaded, EnterUserMode, In, Return,
       To, Halt, kernelVars
<1> QED
    BY <1>1, <1>3, <1>4, <1>5, <1>6

\* The map kernel_main hands over is one the page allocator knows.
LEMMA BootMapKnown ==
    ASSUME MapInv, pc = "kernel", call = 1 PROVE BootMap \in MemoryMaps
<1>1. \A p \in RamPages : (map[p] # "Reserved") = (p \notin ReservedPages)
    BY Zenon DEF MapInv, Reserving
<1>2. BootMap = {[start_page |-> p, page_count |-> 1, usable |-> p \notin ReservedPages]
                    : p \in RamPages}
    BY <1>1, Zenon DEF BootMap
<1> QED
    BY <1>2, KernelStartAssumption, Zenon

\* A kernel step either is a step of the page allocator or leaves it alone.
LEMMA KernelPages ==
    ASSUME MapInv, Called, KernelStep
    PROVE  /\ InitPhysicalMemory => memory_map = NoMap /\ BootMap \in MemoryMaps
                                      /\ init_physical_memory(BootMap)
           /\ ~InitPhysicalMemory => UNCHANGED vars
<1>1. InitPhysicalMemory => memory_map = NoMap /\ BootMap \in MemoryMaps
                              /\ init_physical_memory(BootMap)
    BY StepsAt, BootMapKnown, Zenon DEF InitPhysicalMemory, Called
<1>2. InitPaging \/ MemoryInit \/ DisplayFails \/ MapCapability \/ AllocateRing
        \/ AllocateFramebuffer \/ DisplayReady \/ AllFsInitialize => UNCHANGED vars
    BY DEF InitPaging, MemoryInit, DisplayFails, MapCapability, AllocateRing,
       AllocateFramebuffer, DisplayReady, AllFsInitialize, NoLoaderNoPages
<1>3. UserFileRefused \/ AllocateUserFile \/ ReadUserFile \/ UserFileFails
        \/ LoadUserSegment \/ RestOfLoopSpoiled \/ LoaderFaults \/ UserLoaded \/ EnterUserMode
        => UNCHANGED vars
    BY DEF UserFileRefused, AllocateUserFile, ReadUserFile, UserFileFails, LoadUserSegment,
       RestOfLoopSpoiled, LoaderFaults, UserLoaded, EnterUserMode, NoLoaderNoPages
<1> QED
    BY <1>1, <1>2, <1>3, Zenon DEF KernelStep

\* The same for the page tables.
LEMMA KernelTables ==
    ASSUME Called, KernelStep
    PROVE  \/ /\ InitPaging /\ pdpt = {}
              /\ \E fb_end \in FramebufferEnds : init_paging(fb_end)
           \/ /\ MapCapability /\ pdpt # {}
              /\ \E phys \in DevicePages : map_mmio_virt(phys)
           \/ ~InitPaging /\ UNCHANGED pagingVars
<1>1. InitPaging => pdpt = {} /\ \E fb_end \in FramebufferEnds : init_paging(fb_end)
    BY StepsAt DEF InitPaging, Called
<1>2. MapCapability => pdpt # {} /\ \E phys \in DevicePages : map_mmio_virt(phys)
    BY StepsAt DEF MapCapability, Called
<1>3. InitPhysicalMemory \/ MemoryInit \/ DisplayFails \/ AllocateRing
        \/ AllocateFramebuffer \/ DisplayReady \/ AllFsInitialize => UNCHANGED pagingVars
    BY DEF InitPhysicalMemory, MemoryInit, DisplayFails, AllocateRing,
       AllocateFramebuffer, DisplayReady, AllFsInitialize
<1>4. UserFileRefused \/ AllocateUserFile \/ ReadUserFile \/ UserFileFails
        \/ LoadUserSegment \/ RestOfLoopSpoiled \/ LoaderFaults \/ UserLoaded \/ EnterUserMode
        => UNCHANGED pagingVars
    BY DEF UserFileRefused, AllocateUserFile, ReadUserFile, UserFileFails, LoadUserSegment,
       RestOfLoopSpoiled, LoaderFaults, UserLoaded, EnterUserMode
<1>5. CASE InitPaging
    BY <1>1, <1>5, Zenon
<1>6. CASE ~InitPaging /\ MapCapability
    BY <1>2, <1>6, Zenon
<1>7. CASE ~InitPaging /\ ~MapCapability
    BY <1>3, <1>4, <1>7, Zenon DEF KernelStep
<1> QED
    BY <1>5, <1>6, <1>7, Zenon

LEMMA CalledStep == StartInv /\ [BootNext]_allVars => Called'
<1> SUFFICES ASSUME StartInv, [BootNext]_allVars PROVE Called'
    BY Zenon
<1> USE DEF StartInv
<1>1. CASE LoaderRuns
    <2>1. Loading /\ pc' # "user"
        BY <1>1, LoaderLoads DEF LoaderRuns
    <2>2. UNCHANGED <<memory_map, pdpt, call, stage>>
        BY <1>1, Zenon DEF LoaderRuns, vars, pagingVars, kernelVars
    <2> QED
        BY <2>1, <2>2, Zenon DEF Called
<1>2. CASE KernelStep
    <2>1. call' \in 1 .. 7 /\ call' >= call /\ call' # 1 /\ ~Loading'
            /\ (pc' = "user" => call' = 7)
        BY <1>2, StepsAt DEF Called, KernelStep, Loading
    <2>2. memory_map' # NoMap
        <3>1. CASE InitPhysicalMemory
            BY <1>2, <3>1, KernelPages, PageAllocatorAssumption DEF init_physical_memory
        <3>2. CASE ~InitPhysicalMemory
            <4>1. call # 1 /\ UNCHANGED vars
                BY <1>2, <3>2, KernelPages, StepsAt DEF KernelStep
            <4> QED
                BY <4>1, Zenon DEF Called, vars
        <3> QED
            BY <3>1, <3>2, Zenon
    <2>3. call' <= 2 <=> pdpt' = {}
        <3>1. CASE InitPaging
            <4>1. PICK fb_end \in FramebufferEnds : init_paging(fb_end)
                BY <3>1, Zenon DEF InitPaging
            <4>2. required_entries(fb_end) \in Nat /\ required_entries(fb_end) >= LOW_GB
                BY EntriesEnough, Zenon
            <4>3. 0 \in pdpt'
                BY <4>1, <4>2, PagingAssumption DEF init_paging
            <4>4. call' = 3
                BY <1>2, <3>1, StepsAt, Zenon
            <4> QED
                BY <4>3, <4>4
        <3>2. CASE ~InitPaging /\ pdpt' = pdpt
            <4>1. call' <= 2 <=> call <= 2
                BY <1>2, <3>2, StepsAt DEF KernelStep, Called
            <4> QED
                BY <3>2, <4>1, Zenon DEF Called
        <3>3. CASE MapCapability
            <4>1. call' = 4 /\ pdpt # {}
                BY <1>2, <3>3, StepsAt DEF Called
            <4>2. pdpt \subseteq pdpt'
                BY <3>3, Zenon DEF MapCapability, map_mmio_virt, map_new_slot
            <4> QED
                BY <4>1, <4>2
        <3> QED
            BY <1>2, <3>1, <3>2, <3>3, KernelTables, Zenon DEF pagingVars
    <2> QED
        BY <2>1, <2>2, <2>3 DEF Called
<1>3. CASE PagesUsed
    <2>1. UNCHANGED <<pc, pdpt, call, stage>> /\ pc = "user" /\ Next
        BY <1>3, Zenon DEF PagesUsed, loaderVars, pagingVars, kernelVars
    <2>2. memory_map # NoMap
        BY <2>1 DEF Called
    <2>3. memory_map' = memory_map
        BY <2>1, <2>2, Zenon DEF Next, alloc_page, free_page
    <2> QED
        BY <2>1, <2>3, Zenon DEF Called, Loading
<1>4. CASE ProcessorCaches \/ UNCHANGED allVars
    <2>1. UNCHANGED <<pc, memory_map, pdpt, call, stage>>
        BY <1>4, Zenon DEF ProcessorCaches, CacheTranslation, allVars, loaderVars, vars, pagingVars,
           kernelVars
    <2> QED
        BY <2>1 DEF Called, Loading
<1> QED
    BY <1>1, <1>2, <1>3, <1>4, Zenon DEF BootNext

LEMMA MapInvStep == StartInv /\ [BootNext]_allVars => MapInv'
<1> SUFFICES ASSUME StartInv, [BootNext]_allVars PROVE MapInv'
    BY Zenon
<1> USE DEF StartInv
<1>1. CASE LoaderRuns
    <2>1. call' = call /\ (LoaderStep \/ FirmwareChanges)
        BY <1>1, Zenon DEF LoaderRuns, kernelVars
    <2>2. Loading
        BY <2>1, LoaderLoads, Zenon
    <2>3. LoaderInv
        BY <2>2, Zenon DEF BootInv
    <2> QED
        BY <2>1, <2>3, DescriptorsAreFew, QuietMap, ChangedMap, AllocateMapMap, GetMapMap,
           FirmwareMap, Zenon DEF LoaderStep
<1>2. CASE KernelStep
    <2>1. pc' \in {"kernel", "halted", "user"} /\ call' # 1
        BY <1>2, StepsAt DEF KernelStep
    <2>2. UNCHANGED loaderOnly
        BY <1>2, Zenon DEF KernelStep, InitPhysicalMemory, InitPaging, MemoryInit, DisplayFails,
           MapCapability, AllocateRing, AllocateFramebuffer, DisplayReady, AllFsInitialize,
           UserFileRefused, AllocateUserFile, ReadUserFile, UserFileFails, LoadUserSegment,
           RestOfLoopSpoiled, LoaderFaults, UserLoaded, EnterUserMode, NoLoaderNoPages
    <2> QED
        BY <2>1, <2>2, Zenon DEF MapInv, HangsOnlyForCause, Loading, loaderOnly
<1>3. CASE PagesUsed \/ ProcessorCaches \/ UNCHANGED allVars
    <2>1. UNCHANGED <<loaderVars, kernelVars>>
        BY <1>3, Zenon DEF PagesUsed, ProcessorCaches, allVars
    <2>2. UNCHANGED <<pc, mem, bytes, key, BufferSize, MapKey, MemoryMap, map, changes, asked,
                      call>>
        BY <2>1, Zenon DEF loaderVars, loaderOnly, kernelVars
    <2>3. /\ Reserving' = Reserving /\ Descriptors' = Descriptors /\ Loading' = Loading
          /\ HangsOnlyForCause' = HangsOnlyForCause
        BY <2>2, Zenon DEF Reserving, Descriptors, Loading, HangsOnlyForCause, PagesOfType
    <2> QED
        BY <2>2, <2>3, Zenon DEF MapInv, RoomFor
<1> QED
    BY <1>1, <1>2, <1>3 DEF BootNext

LEMMA StartInvariant == BootSpec => []StartInv
<1>1. BootInit => StartInv
    BY BootInvInit, MapInvInit DEF BootInit, LoaderInit, Init, PagingInit, StartInv, Called
<1>2. FileInv /\ StartInv /\ [BootNext]_allVars => StartInv'
    BY BootInvStep, MapInvStep, CalledStep, Zenon DEF StartInv
<1> QED
    BY <1>1, <1>2, FileInvariant, PTL DEF BootSpec

\* The loader stops for good only when memory is used up or the firmware has
\* changed the map more often than the additional descriptors allow for
\* (ExitBootServicesComplete, BufferSize += DescriptorSize * 8).
THEOREM LoaderHangsOnlyForCause == BootSpec => []HangsOnlyForCause
<1>1. StartInv => HangsOnlyForCause
    BY Zenon DEF StartInv, MapInv
<1> QED
    BY <1>1, StartInvariant, PTL

\* init_physical_memory reads the map as the firmware left it, from a buffer that
\* nothing has written to since.
THEOREM MapIsReadUnspoiled == BootSpec => KernelReadsTheMap
<1>1. StartInv /\ [BootNext]_allVars =>
        [memory_map # memory_map' =>
            MemoryMap # NO_PAGE /\ bytes[MemoryMap] = "map" /\ map = mem]_allVars
    <2> SUFFICES ASSUME StartInv, BootNext, memory_map # memory_map'
                 PROVE  MemoryMap # NO_PAGE /\ bytes[MemoryMap] = "map" /\ map = mem
        BY Zenon
    <2> USE DEF StartInv
    <2>1. CASE LoaderRuns \/ ProcessorCaches
        BY <2>1, Zenon DEF LoaderRuns, ProcessorCaches, vars
    <2>2. CASE PagesUsed
        <3>1. memory_map # NoMap /\ Next
            BY <2>2 DEF PagesUsed, Called
        <3> QED
            BY <3>1, Zenon DEF Next, alloc_page, free_page
    <2>3. CASE KernelStep
        <3>1. InitPhysicalMemory
            BY <2>3, KernelPages, Zenon DEF vars
        <3>2. pc = "kernel" /\ call = 1
            BY <2>3, <3>1, StepsAt
        <3> QED
            BY <3>2, Zenon DEF MapInv
    <2> QED
        BY <2>1, <2>2, <2>3, Zenon DEF BootNext
<1> QED
    BY <1>1, StartInvariant, PTL DEF BootSpec, KernelReadsTheMap

\* The whole start uses the page allocator and the page tables as their own
\* modules say (kernel_main, virtio_pci_find_caps): every step of it is a step of
\* theirs or leaves them alone.
THEOREM StartImplementsParts == BootSpec => ImplementsParts
<1>1. BootInit => Init /\ PagingInit
    BY Zenon DEF BootInit
<1>2. StartInv /\ [BootNext]_allVars => [Next]_vars
    <2> SUFFICES ASSUME StartInv, [BootNext]_allVars PROVE [Next]_vars
        BY Zenon
    <2>1. CASE KernelStep
        BY <2>1, KernelPages, Zenon DEF StartInv, Next
    <2>2. CASE LoaderRuns \/ PagesUsed \/ ProcessorCaches \/ UNCHANGED allVars
        BY <2>2 DEF LoaderRuns, PagesUsed, ProcessorCaches, allVars
    <2> QED
        BY <2>1, <2>2, Zenon DEF BootNext
<1>3. StartInv /\ [BootNext]_allVars => [PagingNext]_pagingVars
    <2> SUFFICES ASSUME StartInv, [BootNext]_allVars PROVE [PagingNext]_pagingVars
        BY Zenon
    <2>1. CASE KernelStep
        BY <2>1, KernelTables DEF StartInv, PagingNext
    <2>2. CASE ProcessorCaches
        <3>1. PICK v \in Window : CacheTranslation(v)
            BY <2>2, Zenon DEF ProcessorCaches
        <3>2. v \in Low
            BY PagingAssumption DEF Window, Low
        <3>3. v \in Virt
            BY <3>2, LowDirectory, Zenon
        <3> QED
            BY <3>1, <3>3, Zenon DEF PagingNext
    <2>3. CASE LoaderRuns \/ PagesUsed \/ UNCHANGED allVars
        BY <2>3, Zenon DEF LoaderRuns, PagesUsed, allVars
    <2> QED
        BY <2>1, <2>2, <2>3, Zenon DEF BootNext
<1> QED
    BY <1>1, <1>2, <1>3, StartInvariant, PTL DEF BootSpec, ImplementsParts, Spec, PagingSpec

\* So what holds of the page allocator by itself holds in the running system:
\* no page is lost or has two owners.
THEOREM StartAccountsForPages == BootSpec => []PagesAccounted
BY StartImplementsParts, PagesAlwaysAccounted, PTL DEF ImplementsParts

\* And every address map_mmio_virt returned leads to its device for good.
THEOREM StartKeepsTranslations == BootSpec => []TranslationsHold
BY StartImplementsParts, TranslationsAlwaysHold, PTL DEF ImplementsParts

\* And the capabilities of the display waste no slot of the window.
THEOREM StartWastesNoSlot == BootSpec => []WindowNotWasted
BY StartImplementsParts, WindowNeverWasted, PTL DEF ImplementsParts
-----------------------------------------------------------------------------
(* The user program *)

\* The pages of the segments copied so far.
Placed == UNION {UserSegments[i] : i \in 1 .. useg - 1}

\* When load_userland_elf holds its buffer.
Buffer ==
    /\ call < 6 \/ stage = "start" => FilePages = {}
    /\ call = 6 /\ stage = "spoiled" => clobbered
    /\ pc \in {"user", "halted"} /\ ~clobbered => FilePages = {}

\* How far the program is copied; what is copied is not in the buffer, which
\* kfree writes to.
Image ==
    /\ useg \in 1 .. Len(UserSegments) + 1
    /\ call < 6 => useg = 1
    /\ call = 6 => stage \in {"start", "read", "segments", "spoiled"}
    /\ call = 6 /\ stage \in {"start", "read"} => useg = 1
    /\ pc \in {"kernel", "user"} /\ ~clobbered =>
          \A p \in Placed : bytes[p] = "user" /\ p \notin FilePages
    /\ call = 7 => stage = "start" /\ (~clobbered => useg = Len(UserSegments) + 1)

ImageInv == Buffer /\ Image

LEMMA SegmentFacts ==
    /\ UserSegments \in Seq(SUBSET RamPages) /\ Len(UserSegments) \in Nat
    /\ DOMAIN UserSegments = 1 .. Len(UserSegments)
    /\ HeapPages \subseteq RamPages
<1>1. /\ UserSegments \in Seq(SUBSET (RamPages \ (ReservedPages \cup {StackPage})))
      /\ HeapPages \subseteq RamPages
    BY KernelStartAssumption, Zenon
<1>2. Len(UserSegments) \in Nat /\ DOMAIN UserSegments = 1 .. Len(UserSegments)
    BY <1>1
<1>3. UserSegments \in Seq(SUBSET RamPages)
    BY <1>1
<1> QED
    BY <1>1, <1>2, <1>3, Zenon

LEMMA PlacedInMemory == ASSUME Image PROVE Placed \subseteq RamPages
<1>1. \A i \in 1 .. useg - 1 : i \in DOMAIN UserSegments
    BY SegmentFacts DEF Image
<1>2. \A i \in DOMAIN UserSegments : UserSegments[i] \subseteq RamPages
    BY SegmentFacts
<1> QED
    BY <1>1, <1>2, Zenon DEF Placed

\* The segment that load_userland_elf copies next.
LEMMA SegmentToPlace ==
    ASSUME Image, useg <= Len(UserSegments)
    PROVE  /\ UserSegments[useg] \subseteq RamPages
           /\ \A i : i \in 1 .. (useg + 1) - 1 <=> i \in 1 .. useg - 1 \/ i = useg
<1>1. Len(UserSegments) \in Nat /\ useg \in 1 .. Len(UserSegments) + 1
    BY SegmentFacts DEF Image
<1>2. useg \in DOMAIN UserSegments
    BY <1>1, SegmentFacts
<1>3. UserSegments[useg] \subseteq RamPages
    BY <1>2, SegmentFacts
<1> QED
    BY <1>1, <1>3

LEMMA BufferStep ==
    ASSUME StartInv, FileInv, ImageInv, [BootNext]_allVars PROVE Buffer'
<1>a. Buffer /\ Called
    BY Zenon DEF StartInv, ImageInv
<1>0. call \in 1 .. 7
    BY <1>a, Zenon DEF Called
<1>1. ASSUME FilePages' = {}, stage' = "spoiled" => call' # 6 \/ clobbered' PROVE Buffer'
    BY <1>1, Zenon DEF Buffer
<1>2. ASSUME UNCHANGED <<lent, call, stage, clobbered>>,
             pc' \in {"user", "halted"} => pc' = pc \/ FilePages = {}
      PROVE  Buffer'
    <2>1. FilePages' = FilePages
        BY <1>2, Zenon DEF FilePages
    <2>2. call' = call /\ stage' = stage /\ clobbered' = clobbered
        BY <1>2, Zenon
    <2> QED
        BY <1>a, <1>2, <2>1, <2>2 DEF Buffer
<1>3. CASE LoaderRuns
    <2>1. Loading
        BY <1>3, LoaderLoads, Zenon DEF LoaderRuns
    <2>2. UNCHANGED <<lent, call, stage, clobbered>> /\ call = 1
        BY <1>a, <1>3, <2>1, Zenon DEF LoaderRuns, kernelVars, Called
    <2>3. FilePages = {}
        BY <1>a, <2>2 DEF Buffer
    <2> QED
        BY <1>2, <2>2, <2>3, Zenon
<1>4. CASE PagesUsed \/ ProcessorCaches \/ UNCHANGED allVars
    <2>1. UNCHANGED <<pc, lent, call, stage, clobbered>>
        BY <1>4, Zenon DEF PagesUsed, ProcessorCaches, allVars, loaderVars, kernelVars
    <2> QED
        BY <1>2, <2>1, Zenon
<1>5. CASE KernelStep /\ (InitPhysicalMemory \/ InitPaging \/ MemoryInit \/ MapCapability
                           \/ DisplayFails \/ DisplayReady \/ AllFsInitialize)
    <2>1. lent' = lent /\ stage' = "start"
        BY <1>5, Zenon DEF InitPhysicalMemory, InitPaging, MemoryInit, MapCapability, DisplayFails,
           DisplayReady, AllFsInitialize, Return, To, In
    <2>2. call < 6
        BY <1>a, <1>5, StepsAt
    <2>3. FilePages' = {}
        BY <1>a, <2>1, <2>2 DEF Buffer, FilePages
    <2> QED
        BY <1>1, <2>1, <2>3, Zenon
<1>6. CASE KernelStep /\ (AllocateRing \/ AllocateFramebuffer)
    <2>1. /\ stage' \in {"framebuffer", "commands"} /\ call = 4
          /\ \E n, owner : owner # "file" /\ kmalloc(n, owner)
        BY <1>a, <1>6, StepsAt, Zenon DEF AllocateRing, AllocateFramebuffer, To, In
    <2>2. FilePages' = {}
        BY <1>a, <2>1 DEF Buffer, FilePages, kmalloc
    <2> QED
        BY <1>1, <2>1, <2>2, Zenon
<1>7. CASE KernelStep /\ (AllocateUserFile \/ ReadUserFile \/ LoadUserSegment)
    <2>1. pc' = "kernel" /\ stage' \in {"read", "segments"} /\ call' = 6
        BY <1>a, <1>7, StepsAt, Zenon DEF AllocateUserFile, ReadUserFile, LoadUserSegment, To, In
    <2> QED
        BY <2>1 DEF Buffer
<1>8. CASE KernelStep /\ RestOfLoopSpoiled
    <2>1. /\ pc = "kernel" /\ pc' = "kernel" /\ stage = "segments" /\ stage' = "spoiled"
          /\ Spoiled /\ clobbered' = clobbered /\ call' = 6
        BY <1>a, <1>8, StepsAt, Zenon DEF RestOfLoopSpoiled, To, In
    <2>2. clobbered'
        BY <2>1, Zenon DEF FileInv
    <2> QED
        BY <2>1, <2>2 DEF Buffer
<1>9. CASE KernelStep /\ LoaderFaults
    <2>1. /\ call = 6 /\ call' = 6 /\ stage = "spoiled" /\ stage' = "spoiled"
          /\ clobbered' = clobbered
        BY <1>a, <1>9, StepsAt, Zenon DEF LoaderFaults, Halt, In
    <2>2. clobbered'
        BY <1>a, <2>1, Zenon DEF Buffer
    <2> QED
        BY <2>1, <2>2 DEF Buffer
<1>10. CASE KernelStep /\ (UserFileFails \/ UserLoaded)
    <2>1. kfree("file") /\ clobbered' = clobbered /\ call = 6
            /\ (stage' = "start" \/ stage' = stage)
        BY <1>a, <1>10, StepsAt, Zenon DEF UserFileFails, UserLoaded, Return, Halt
    <2>2. FilePages' = {}
        BY <2>1 DEF kfree, FilePages
    <2>3. stage' = "spoiled" => clobbered'
        BY <1>a, <2>1 DEF Buffer
    <2> QED
        BY <1>1, <2>2, <2>3, Zenon
<1>11. CASE KernelStep /\ (UserFileRefused \/ EnterUserMode)
    <2>1. UNCHANGED <<lent, call, stage, clobbered>> /\ stage = "start"
        BY <1>11, Zenon DEF UserFileRefused, EnterUserMode, In, Halt, kernelVars
    <2>2. FilePages = {}
        BY <1>a, <2>1, Zenon DEF Buffer
    <2> QED
        BY <1>2, <2>1, <2>2, Zenon
<1> QED
    BY <1>3, <1>4, <1>5, <1>6, <1>7, <1>8, <1>9, <1>10, <1>11, Zenon DEF BootNext, KernelStep

LEMMA ImageStep ==
    ASSUME StartInv, FileInv, ImageInv, [BootNext]_allVars PROVE Image'
<1>a. Image /\ Called
    BY Zenon DEF StartInv, ImageInv
<1>0. call \in 1 .. 7 /\ Len(UserSegments) \in Nat
    BY <1>a, SegmentFacts, Zenon DEF Called
<1>1. ASSUME UNCHANGED <<bytes, lent, call, stage, useg, clobbered>>,
             pc' \in {"kernel", "user"} => pc = "kernel" \/ pc' = pc
      PROVE  Image'
    <2>1. FilePages' = FilePages /\ Placed' = Placed
        BY <1>1, Zenon DEF FilePages, Placed
    <2>2. /\ bytes' = bytes /\ call' = call /\ stage' = stage /\ useg' = useg
          /\ clobbered' = clobbered
        BY <1>1, Zenon
    <2> QED
        BY <1>a, <1>1, <2>1, <2>2 DEF Image
<1>2. ASSUME call' < 6 \/ (call' = 6 /\ stage' \in {"start", "read"}), useg' = 1
      PROVE  Image'
    <2>1. Placed' = {}
        BY <1>2 DEF Placed
    <2> QED
        BY <1>0, <1>2, <2>1 DEF Image
<1>3. CASE LoaderRuns
    <2>1. Loading
        BY <1>3, LoaderLoads, Zenon DEF LoaderRuns
    <2>2. UNCHANGED <<call, stage, useg>> /\ call = 1
        BY <1>a, <1>3, <2>1, Zenon DEF LoaderRuns, kernelVars, Called
    <2> QED
        BY <1>a, <1>2, <2>2 DEF Image
<1>4. CASE PagesUsed \/ ProcessorCaches \/ UNCHANGED allVars
    <2>1. UNCHANGED <<pc, bytes, lent, call, stage, useg, clobbered>>
        BY <1>4, Zenon DEF PagesUsed, ProcessorCaches, allVars, loaderVars, kernelVars
    <2> QED
        BY <1>1, <2>1, Zenon
<1>5. CASE KernelStep /\ (InitPhysicalMemory \/ InitPaging \/ MemoryInit \/ DisplayFails
                           \/ MapCapability \/ AllocateRing \/ AllocateFramebuffer
                           \/ DisplayReady)
    <2>1. call < 6 /\ call' < 6
        BY <1>a, <1>5, StepsAt
    <2>2. useg' = useg
        BY <1>5, Zenon DEF InitPhysicalMemory, InitPaging, MemoryInit, DisplayFails,
           MapCapability, AllocateRing, AllocateFramebuffer, DisplayReady
    <2> QED
        BY <1>a, <1>2, <2>1, <2>2, Zenon DEF Image
<1>6. CASE KernelStep /\ (AllFsInitialize \/ AllocateUserFile)
    <2>1. call' = 6 /\ stage' \in {"start", "read"} /\ useg' = useg
            /\ (call = 5 \/ (call = 6 /\ stage = "start"))
        BY <1>a, <1>6, StepsAt, Zenon DEF AllFsInitialize, AllocateUserFile, Return, To, In
    <2>2. useg = 1
        BY <1>a, <2>1 DEF Image
    <2> QED
        BY <1>2, <2>1, <2>2, Zenon
<1>7. CASE KernelStep /\ (UserFileRefused \/ EnterUserMode \/ LoaderFaults)
    <2>1. UNCHANGED <<bytes, lent, call, stage, useg, clobbered>> /\ pc = "kernel"
        BY <1>a, <1>7, StepsAt, Zenon DEF UserFileRefused, EnterUserMode, LoaderFaults, In, Halt,
           kernelVars
    <2> QED
        BY <1>1, <2>1, Zenon
<1>8. CASE KernelStep /\ ReadUserFile
    <2>1. /\ call' = 6 /\ call = 6 /\ stage = "read" /\ stage' = "segments" /\ useg' = useg
        BY <1>a, <1>8, StepsAt, Zenon DEF ReadUserFile, To, In
    <2>2. useg' = 1
        BY <1>a, <2>1 DEF Image
    <2>3. Placed' = {}
        BY <2>2 DEF Placed
    <2> QED
        BY <1>0, <2>1, <2>2, <2>3 DEF Image
<1>9. CASE KernelStep /\ LoadUserSegment
    <2>1. /\ pc = "kernel" /\ pc' = "kernel" /\ call' = 6 /\ stage = "segments"
          /\ stage' = "segments" /\ lent' = lent /\ useg' = useg + 1
          /\ useg <= Len(UserSegments)
          /\ Write(UserSegments[useg],
                   IF UserSegments[useg] \cap FilePages # {} \/ Spoiled THEN "other" ELSE "user")
          /\ clobbered' = (clobbered \/ UserSegments[useg] \cap FilePages # {})
        BY <1>a, <1>9, StepsAt, Zenon DEF LoadUserSegment, To, In
    <2>2. /\ UserSegments[useg] \subseteq RamPages
          /\ \A i : i \in 1 .. useg' - 1 <=> i \in 1 .. useg - 1 \/ i = useg
        BY <1>a, <2>1, SegmentToPlace, Zenon
    <2>3. FilePages' = FilePages
        BY <2>1, Zenon DEF FilePages
    <2>4. Placed' = Placed \cup UserSegments[useg]
        BY <2>2 DEF Placed
    <2>5. ASSUME ~clobbered' PROVE \A p \in Placed' : bytes'[p] = "user" /\ p \notin FilePages'
        <3>1. ~clobbered /\ UserSegments[useg] \cap FilePages = {}
            BY <2>1, <2>5, Zenon
        <3>2. ~Spoiled
            BY <2>1, <3>1, Zenon DEF FileInv
        <3>3. \A p \in RamPages : bytes'[p] = IF p \in UserSegments[useg] THEN "user" ELSE bytes[p]
            BY <2>1, <3>1, <3>2 DEF Write
        <3>4. Placed \subseteq RamPages /\ \A p \in Placed : bytes[p] = "user" /\ p \notin FilePages
            BY <1>a, <2>1, <3>1, PlacedInMemory, Zenon DEF Image
        <3> QED
            BY <2>2, <2>3, <2>4, <3>1, <3>3, <3>4, Zenon
    <2>6. useg' \in 1 .. Len(UserSegments) + 1
        BY <1>a, <1>0, <2>1 DEF Image
    <2> QED
        BY <2>1, <2>5, <2>6 DEF Image
<1>10. CASE KernelStep /\ RestOfLoopSpoiled
    <2>1. /\ pc = "kernel" /\ call' = 6 /\ stage = "segments" /\ stage' = "spoiled"
          /\ useg' = useg /\ Spoiled /\ clobbered' = clobbered
        BY <1>a, <1>10, StepsAt, Zenon DEF RestOfLoopSpoiled, To, In
    <2>2. clobbered'
        BY <2>1, Zenon DEF FileInv
    <2> QED
        BY <1>a, <2>1, <2>2 DEF Image
<1>11. CASE KernelStep /\ (UserLoaded \/ UserFileFails)
    <2>1. /\ pc = "kernel" /\ useg' = useg /\ clobbered' = clobbered /\ call = 6
          /\ kfree("file") /\ Write(FilePages, "heap")
          /\ \/ /\ call' = 7 /\ stage' = "start"
                /\ stage = "spoiled" \/ useg > Len(UserSegments)
             \/ pc' = "halted" /\ call' = 6 /\ stage' = stage
        BY <1>a, <1>11, StepsAt, Zenon DEF UserLoaded, UserFileFails, kfree, Return, Halt, In,
           FilePages
    <2>2. Placed' = Placed /\ FilePages' = {}
        BY <2>1 DEF Placed, kfree, FilePages
    <2>3. ASSUME ~clobbered' PROVE \A p \in Placed' : bytes'[p] = "user" /\ p \notin FilePages'
        <3>1. Placed \subseteq RamPages /\ \A p \in Placed : bytes[p] = "user" /\ p \notin FilePages
            BY <1>a, <2>1, <2>3, PlacedInMemory DEF Image
        <3> QED
            BY <2>1, <2>2, <3>1, Zenon DEF Write
    <2>4. call = 6 /\ stage = "spoiled" => clobbered
        BY Zenon DEF ImageInv, Buffer
    <2>5. call' = 7 => stage' = "start" /\ (~clobbered' => useg' = Len(UserSegments) + 1)
        BY <1>a, <1>0, <2>1, <2>4 DEF Image
    <2> QED
        BY <1>a, <1>0, <2>1, <2>3, <2>5 DEF Image
<1> QED
    BY <1>3, <1>4, <1>5, <1>6, <1>7, <1>8, <1>9, <1>10, <1>11, Zenon DEF BootNext, KernelStep

\* Whichever way the display's start goes and wherever the program is linked:
\* while no segment has been copied over the file's buffer, user mode is entered
\* only with the whole program in memory, and the buffer is given back on every
\* path (load_userland_elf).
THEOREM UserImageIsComplete == BootSpec => []UserImageComplete
<1>1. BootInit => ImageInv
    <2> SUFFICES ASSUME BootInit PROVE ImageInv
        OBVIOUS
    <2>1. /\ call = 1 /\ stage = "start" /\ useg = 1 /\ lent = [p \in HeapPages |-> "free"]
          /\ pc \notin {"kernel", "user", "halted"}
        BY DEF BootInit, LoaderInit
    <2>2. FilePages = {} /\ Placed = {}
        BY <2>1 DEF FilePages, Placed
    <2>3. Buffer
        BY <2>1, <2>2 DEF Buffer
    <2>4. Image
        BY <2>1, <2>2, SegmentFacts DEF Image
    <2> QED
        BY <2>3, <2>4, Zenon DEF ImageInv
<1>2. StartInv /\ FileInv /\ ImageInv /\ [BootNext]_allVars => ImageInv'
    BY BufferStep, ImageStep, Zenon DEF ImageInv
<1>3. StartInv /\ ImageInv => UserImageComplete
    <2> SUFFICES ASSUME StartInv, ImageInv, ~clobbered PROVE UserImageComplete
        BY Zenon DEF UserImageComplete
    <2>1. pc = "user" => Placed = Union(UserSegments)
        <3>1. pc = "user" => useg - 1 = Len(UserSegments)
            BY SegmentFacts DEF StartInv, Called, ImageInv, Image
        <3> QED
            BY <3>1, SegmentFacts, Zenon DEF Placed, Union
    <2> QED
        BY <2>1, Zenon DEF UserImageComplete, ImageInv, Buffer, Image
<1> QED
    BY <1>1, <1>2, <1>3, StartInvariant, FileInvariant, PTL DEF BootSpec
=============================================================================
