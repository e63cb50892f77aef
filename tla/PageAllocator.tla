---------------------------- MODULE PageAllocator ----------------------------
(***************************************************************************)
(* The physical pages of Memory_Main.c: init_physical_memory fills the     *)
(* bitmap from the firmware's memory map, alloc_page and free_page work on *)
(* it.  Each of the two runs with interrupts off and page_lock held and is *)
(* one step.  A caller frees pages it got from alloc_page, and NULL.       *)
(***************************************************************************)
EXTENDS Integers

CONSTANTS
    MAX_PAGES,
    HeapEnd,        \* heap_start_page + HEAP_PAGE_COUNT
    MemoryMaps,     \* the memory maps, each a set of descriptors
    NoMap           \* the map before init_physical_memory is called

\* A descriptor of the map; "usable" is is_usable_memory_type of its type.
Descriptor == [start_page : Nat, page_count : Nat, usable : BOOLEAN]

ASSUME PageAllocatorAssumption ==
    /\ MAX_PAGES \in Nat \ {0}
    /\ HeapEnd \in Nat \ {0}
    /\ \A map \in MemoryMaps : map \subseteq Descriptor
    /\ NoMap \notin MemoryMaps

VARIABLES
    memory_map,         \* the map that init_physical_memory was given
    page_bitmap, page_alloc_hint,
    owned,              \* pages alloc_page returned and nobody has freed
    ret                 \* the page the last alloc_page returned, or NULL

vars == <<memory_map, page_bitmap, page_alloc_hint, owned, ret>>

NULL == -1
Pages == 0 .. MAX_PAGES - 1

\* The pages mark_pages(start_page, page_count, used) sets.
mark_pages(start_page, page_count) ==
    {i \in Pages : start_page <= i /\ i < start_page + page_count}

\* The program starts with the bitmap and the hint zero.
Init ==
    /\ memory_map = NoMap
    /\ page_bitmap = [i \in Pages |-> 0]
    /\ page_alloc_hint = 0
    /\ owned = {}
    /\ ret = NULL

\* Faulty form: the heap is not taken out again.
init_physical_memory_no_heap(map) ==
    /\ memory_map' = map
    /\ page_bitmap' =
         [i \in Pages |->
            IF \E d \in map : d.usable /\ i \in mark_pages(d.start_page, d.page_count)
              THEN 0 ELSE 1]
    /\ UNCHANGED <<page_alloc_hint, owned, ret>>

\* Usable pages are free, but for the kernel's and the heap's.
init_physical_memory(map) ==
    /\ memory_map' = map
    /\ page_bitmap' =
         [i \in Pages |->
            IF /\ i \notin mark_pages(0, HeapEnd)
               /\ \E d \in map : d.usable /\ i \in mark_pages(d.start_page, d.page_count)
              THEN 0 ELSE 1]
    /\ UNCHANGED <<page_alloc_hint, owned, ret>>

Free == {i \in Pages : page_bitmap[i] = 0}

\* Steps of the search from the hint to page i, going round.
Offset(i) == (i - page_alloc_hint) % MAX_PAGES

alloc_page ==
    \/ \E i \in Free :
          /\ \A j \in Free : Offset(i) <= Offset(j)
          /\ page_bitmap' = [page_bitmap EXCEPT ![i] = 1]
          /\ page_alloc_hint' = (i + 1) % MAX_PAGES
          /\ owned' = owned \cup {i}
          /\ ret' = i
          /\ UNCHANGED memory_map
    \/ /\ Free = {}
       /\ ret' = NULL
       /\ UNCHANGED <<memory_map, page_bitmap, page_alloc_hint, owned>>

\* With addr NULL nothing happens.
free_page(page) ==
    /\ page_bitmap' = [page_bitmap EXCEPT ![page] = 0]
    /\ page_alloc_hint' = IF page < page_alloc_hint THEN page ELSE page_alloc_hint
    /\ owned' = owned \ {page}
    /\ UNCHANGED <<memory_map, ret>>

\* kernel_main calls init_physical_memory once, before anything else; memory_init
\* sets the hint to zero, which it still is.
Next ==
    \/ memory_map = NoMap /\ \E map \in MemoryMaps : init_physical_memory(map)
    \/ /\ memory_map # NoMap
       /\ alloc_page \/ \E page \in owned : free_page(page)

Spec == Init /\ [][Next]_vars
-----------------------------------------------------------------------------
(* Properties *)

\* Pages the map calls usable, outside the kernel and its heap.
Available ==
    {i \in Pages : i >= HeapEnd /\
        \E d \in memory_map :
            d.usable /\ d.start_page <= i /\ i < d.start_page + d.page_count}

\* Every variable has its type.
TypeOK ==
    /\ memory_map \in MemoryMaps \cup {NoMap}
    /\ page_bitmap \in [Pages -> {0, 1}]
    /\ page_alloc_hint \in Pages
    /\ owned \subseteq Pages
    /\ ret \in Pages \cup {NULL}

\* Every available page is either free or owned, never both and never lost, and
\* no page of the kernel, the heap or the firmware is ever either (alloc_page,
\* free_page; page 0, whose address is NULL, is among those of the kernel).
PagesAccounted ==
    memory_map # NoMap =>
        /\ Free \cap owned = {}
        /\ Free \cup owned = Available

\* alloc_page hands out a page only to one owner at a time, and returns NULL
\* only when every available page has an owner, wherever the hint is.
AllocHonest ==
    [][memory_map # NoMap /\ alloc_page =>
          IF ret' = NULL THEN owned = Available
                         ELSE ret' \in Available \ owned]_vars
=============================================================================
