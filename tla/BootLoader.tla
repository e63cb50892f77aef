----------------------------- MODULE BootLoader -----------------------------
(***************************************************************************)
(* BootLoader/Loader.c, from efi_main to the jump into the kernel, and the *)
(* UEFI firmware under it (external).  The firmware's timers and drivers   *)
(* go on allocating and freeing memory between any two calls of the        *)
(* loader, until ExitBootServices succeeds; every change gives the memory  *)
(* map a new key.                                                          *)
(*                                                                         *)
(* Physical memory is a row of pages.  A pool allocation takes one page;   *)
(* what matters of a page is its type in the memory map and whose bytes it *)
(* holds.  The map has one descriptor for each run of pages of one type.   *)
(***************************************************************************)
EXTENDS Integers, Sequences, FiniteSets

CONSTANTS
    RAM_PAGES,
    StackPage,          \* where efi_main's frame, BootInfo included, lies
    ReservedPages,      \* pages of the firmware that outlive it
    KernelSegments,     \* the PT_LOAD segments, each a set of pages
    SLACK,              \* the 8 descriptors added to the size of the map
    MAX_CHANGES         \* bound: changes the firmware makes by itself

RamPages == 0 .. RAM_PAGES - 1

ASSUME BootLoaderAssumption ==
    /\ RAM_PAGES \in Nat /\ SLACK \in Nat /\ MAX_CHANGES \in Nat
    /\ StackPage \in RamPages /\ ReservedPages \subseteq RamPages \ {StackPage}
    /\ KernelSegments \in Seq(SUBSET (RamPages \ {StackPage}))

VARIABLES
    pc,                 \* where the boot is
    mem,                \* the type of every page
    bytes,              \* what it holds
    key,                \* the key of the memory map
    info, file,         \* the pool pages of LoadFileToMemory, or NO_PAGE
    seg,                \* the segment LoadKernelELF is at
    BufferSize, MapKey,
    MemoryMap,          \* the page of the map's buffer, or NO_PAGE
    map,                \* the map that was copied there
    changes,            \* changes the firmware has made ...
    asked               \* ... when the size of the map was asked for

\* What is over once the kernel runs.
loaderOnly == <<key, info, file, seg, BufferSize, MapKey, changes, asked>>
loaderVars == <<pc, mem, bytes, loaderOnly, MemoryMap, map>>

NO_PAGE == -1

LoaderInit ==
    /\ pc = "locate"
    /\ mem = [p \in RamPages |-> IF p = StackPage THEN "BootServicesData"
                                 ELSE IF p \in ReservedPages THEN "Reserved"
                                 ELSE "Conventional"]
    /\ bytes = [p \in RamPages |-> IF p = StackPage THEN "boot_info" ELSE "other"]
    /\ key = 0 /\ MapKey = 0 /\ changes = 0 /\ asked = 0
    /\ info = NO_PAGE /\ file = NO_PAGE /\ MemoryMap = NO_PAGE
    /\ seg = 1 /\ BufferSize = 0 /\ map = <<>>
-----------------------------------------------------------------------------
(* The firmware *)

\* The loader is still running.
Loading == pc \in {"locate", "info", "get_info", "file", "read", "segments", "size",
                   "buffer", "map", "exit", "free"}

PagesOfType(type) == {p \in RamPages : mem[p] = type}

Descriptors == 1 + Cardinality({p \in RamPages \ {0} : mem[p] # mem[p - 1]})

\* A page changes its type, its owner may write to it.
Retype(pages, type, content) ==
    /\ mem' = [p \in RamPages |-> IF p \in pages THEN type ELSE mem[p]]
    /\ bytes' = [p \in RamPages |-> IF p \in pages THEN content ELSE bytes[p]]
    /\ key' = key + 1

AllocatePool(p, content) ==
    p \in PagesOfType("Conventional") /\ Retype({p}, "LoaderData", content)

\* The firmware takes a page for itself or gives one back.
FirmwareChanges ==
    /\ Loading /\ changes < MAX_CHANGES
    /\ \/ \E p \in PagesOfType("Conventional") :
             Retype({p}, "BootServicesData", "other")
       \/ \E p \in PagesOfType("BootServicesData") \ {StackPage} :
             Retype({p}, "Conventional", "other")
    /\ changes' = changes + 1
    /\ UNCHANGED <<pc, info, file, seg, BufferSize, MapKey, MemoryMap, map, asked>>
-----------------------------------------------------------------------------
(* The loader *)

NoMemoryChange == UNCHANGED <<mem, bytes, key>>
Goto(from, to) == pc = from /\ pc' = to

\* efi_main returns to the firmware with an error ("CHECK"), from whichever
\* call failed; what was allocated stays allocated.  An ELF file with a bad
\* magic number fails like a call.
Fails ==
    /\ \/ pc \in {"locate", "info", "get_info", "file", "read"}
       \/ pc = "segments" /\ seg <= Len(KernelSegments)
    /\ pc' = "returned"
    /\ NoMemoryChange
    /\ UNCHANGED <<info, file, seg, BufferSize, MapKey, MemoryMap, map, changes, asked>>

\* The protocols, the volume, the graphics mode and the kernel's file.
LocateKernel ==
    /\ Goto("locate", "info")
    /\ NoMemoryChange
    /\ UNCHANGED <<info, file, seg, BufferSize, MapKey, MemoryMap, map, changes, asked>>

\* LoadFileToMemory: two pool allocations, each followed by a call that fills it.
AllocateInfo ==
    /\ Goto("info", "get_info")
    /\ \E p \in RamPages : AllocatePool(p, "other") /\ info' = p
    /\ UNCHANGED <<file, seg, BufferSize, MapKey, MemoryMap, map, changes, asked>>

GetInfo ==
    /\ Goto("get_info", "file")
    /\ NoMemoryChange
    /\ UNCHANGED <<info, file, seg, BufferSize, MapKey, MemoryMap, map, changes, asked>>

AllocateFile ==
    /\ Goto("file", "read")
    /\ \E p \in RamPages : AllocatePool(p, "other") /\ file' = p
    /\ UNCHANGED <<info, seg, BufferSize, MapKey, MemoryMap, map, changes, asked>>

ReadFile ==
    /\ Goto("read", "segments")
    /\ bytes' = [bytes EXCEPT ![file] = "elf"]
    /\ UNCHANGED <<mem, key, info, file, seg, BufferSize, MapKey, MemoryMap, map,
                   changes, asked>>

\* Faulty form: the segment is copied to pages that are not allocated first.
LoadSegment_unallocated ==
    /\ pc = "segments" /\ seg <= Len(KernelSegments)
    /\ KernelSegments[seg] \subseteq PagesOfType("Conventional")
    /\ bytes' = [p \in RamPages |->
                   IF p \in KernelSegments[seg]
                     THEN (IF bytes[file] = "elf" THEN "kernel" ELSE "other")
                     ELSE bytes[p]]
    /\ seg' = seg + 1
    /\ UNCHANGED <<pc, mem, key, info, file, BufferSize, MapKey, MemoryMap, map,
                   changes, asked>>

\* LoadKernelELF, one segment: AllocatePages at its address (a failure is in
\* Fails), the copy from the file and the zeros behind it.
LoadSegment ==
    /\ pc = "segments" /\ seg <= Len(KernelSegments)
    /\ KernelSegments[seg] \subseteq PagesOfType("Conventional")
    /\ Retype(KernelSegments[seg], "LoaderData",
              IF bytes[file] = "elf" THEN "kernel" ELSE "other")
    /\ seg' = seg + 1
    /\ UNCHANGED <<pc, info, file, BufferSize, MapKey, MemoryMap, map, changes, asked>>

KernelLoaded ==
    /\ seg > Len(KernelSegments)
    /\ Goto("segments", "size")
    /\ NoMemoryChange
    /\ UNCHANGED <<info, file, seg, BufferSize, MapKey, MemoryMap, map, changes, asked>>
-----------------------------------------------------------------------------
(* ExitBootServicesComplete *)

\* Faulty form: room for the map as it is, none for the buffer's own entry.
GetMapSize_exact ==
    /\ Goto("size", "buffer")
    /\ BufferSize' = Descriptors
    /\ asked' = changes
    /\ NoMemoryChange
    /\ UNCHANGED <<info, file, seg, MapKey, MemoryMap, map, changes>>

\* GetMemoryMap with no buffer answers EFI_BUFFER_TOO_SMALL and the size.
GetMapSize ==
    /\ Goto("size", "buffer")
    /\ BufferSize' = Descriptors + SLACK
    /\ asked' = changes
    /\ NoMemoryChange
    /\ UNCHANGED <<info, file, seg, MapKey, MemoryMap, map, changes>>

\* The buffer, whose allocation itself changes the map; without memory efi_main
\* stops in "while (1)".
AllocateMap ==
    \/ /\ Goto("buffer", "map")
       /\ \E p \in RamPages : AllocatePool(p, "other") /\ MemoryMap' = p
       /\ UNCHANGED <<info, file, seg, BufferSize, MapKey, map, changes, asked>>
    \/ /\ PagesOfType("Conventional") = {}
       /\ Goto("buffer", "hung")
       /\ NoMemoryChange
       /\ UNCHANGED <<info, file, seg, BufferSize, MapKey, MemoryMap, map, changes, asked>>

\* The map is copied if it fits, otherwise efi_main stops.
GetMap ==
    \/ /\ Descriptors <= BufferSize
       /\ Goto("map", "exit")
       /\ map' = mem /\ MapKey' = key
       /\ bytes' = [bytes EXCEPT ![MemoryMap] = "map"]
       /\ BufferSize' = Descriptors
       /\ UNCHANGED <<mem, key, info, file, seg, MemoryMap, changes, asked>>
    \/ /\ Descriptors > BufferSize
       /\ Goto("map", "hung")
       /\ NoMemoryChange
       /\ UNCHANGED <<info, file, seg, BufferSize, MapKey, MemoryMap, map, changes, asked>>

\* What the loader need not remember any more.
Forget ==
    /\ key' = 0 /\ info' = NO_PAGE /\ file' = NO_PAGE /\ seg' = 1 /\ BufferSize' = 0
    /\ MapKey' = 0 /\ changes' = MAX_CHANGES /\ asked' = 0

\* Faulty form: the attempt is repeated with the same key.
ExitBootServices_same_key ==
    \/ /\ key = MapKey
       /\ Goto("exit", "kernel")
       /\ Forget
       /\ UNCHANGED <<mem, bytes, MemoryMap, map>>
    \/ pc = "exit" /\ key # MapKey /\ UNCHANGED loaderVars

\* The firmware is gone; or the key is stale and the loader tries again.
ExitBootServices ==
    \/ /\ key = MapKey
       /\ Goto("exit", "kernel")
       /\ Forget
       /\ UNCHANGED <<mem, bytes, MemoryMap, map>>
    \/ /\ key # MapKey
       /\ Goto("exit", "free")
       /\ NoMemoryChange
       /\ UNCHANGED <<info, file, seg, BufferSize, MapKey, MemoryMap, map, changes, asked>>

\* Faulty form: the buffer is not given back before the next attempt.
FreeMap_kept ==
    /\ Goto("free", "size")
    /\ NoMemoryChange
    /\ UNCHANGED <<info, file, seg, BufferSize, MapKey, MemoryMap, map, changes, asked>>

FreeMap ==
    /\ Goto("free", "size")
    /\ Retype({MemoryMap}, "Conventional", "other")
    /\ MemoryMap' = NO_PAGE
    /\ map' = <<>>
    /\ UNCHANGED <<info, file, seg, BufferSize, MapKey, changes, asked>>

LoaderStep ==
    \/ Fails \/ LocateKernel \/ AllocateInfo \/ GetInfo \/ AllocateFile \/ ReadFile
    \/ LoadSegment \/ KernelLoaded
    \/ GetMapSize \/ AllocateMap \/ GetMap \/ ExitBootServices \/ FreeMap
-----------------------------------------------------------------------------
(* Properties *)

\* However often ExitBootServices has to be tried again, the loader holds the
\* two buffers of LoadFileToMemory, the segments and at most one buffer for
\* the map: no attempt leaves memory behind (FreePool).
RetriesLeakNothing ==
    Loading => PagesOfType("LoaderData") =
                  ({info, file, MemoryMap} \ {NO_PAGE})
                  \cup UNION {KernelSegments[i] : i \in 1 .. seg - 1}

\* The loader stops in "while (1)" only if memory is used up or the firmware
\* has changed the map so often, since its size was asked for, that the
\* additional descriptors do not suffice; each change, the loader's own
\* allocation included, adds at most two.
HangsOnlyForCause ==
    pc = "hung" => \/ PagesOfType("Conventional") = {}
                   \/ 2 * (changes - asked + 1) > SLACK
=============================================================================
