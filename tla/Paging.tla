------------------------------- MODULE Paging -------------------------------
(***************************************************************************)
(* Paging_Main.c: init_paging builds an identity map, map_mmio_virt gives  *)
(* device memory above 4 GB a place in a window inside that map.           *)
(* Addresses are numbers of 2 MB pages; the offset inside a page, which    *)
(* map_mmio_virt adds to what it returns, is the same on both sides and is *)
(* left out.  The processor may cache a translation (external: tlb) at any *)
(* time and keeps using it until invlpg or a load of cr3 removes it.       *)
(***************************************************************************)
EXTENDS Integers, Sequences

CONSTANTS
    GB,                 \* 2 MB pages in a page directory: 512
    MAX_PDPT_ENTRIES,   \* 64
    LOW_GB,             \* 4: memory below is reached through the identity map
    MMIO_WINDOW_BASE,   \* 0xF0000000
    MMIO_WINDOW_SLOTS,  \* 16
    DevicePages,        \* the pages that hold registers of a device
    FramebufferEnds     \* framebuffer_base + framebuffer_size, rounded up

Virt == 0 .. MAX_PDPT_ENTRIES * GB - 1
Window == MMIO_WINDOW_BASE .. MMIO_WINDOW_BASE + MMIO_WINDOW_SLOTS - 1
Low == 0 .. LOW_GB * GB - 1

\* The window lies below 4 GB (so that "MMIO window index out of range" never
\* happens) and no device or memory has its physical address there, which
\* nothing in the code looks after.
ASSUME PagingAssumption ==
    /\ GB \in Nat \ {0} /\ MMIO_WINDOW_SLOTS \in Nat /\ MMIO_WINDOW_BASE \in Nat
    /\ LOW_GB \in Nat \ {0} /\ MAX_PDPT_ENTRIES \in Nat
    /\ LOW_GB <= MAX_PDPT_ENTRIES
    /\ MMIO_WINDOW_BASE + MMIO_WINDOW_SLOTS <= LOW_GB * GB
    /\ DevicePages \subseteq Nat /\ DevicePages \cap Window = {}
    /\ FramebufferEnds \subseteq Nat

VARIABLES
    pdpt,               \* the entries that point to a page directory
    pd,                 \* all page directories, as one table
    mmio_phys_base,     \* its first mmio_slots_used entries
    tlb,                \* cached translations
    granted             \* history: <<address returned, page asked for>>

pagingVars == <<pdpt, pd, mmio_phys_base, tlb, granted>>

NOT_PRESENT == -1

\* The tables as the program starts with them; cr3 is still the firmware's.
PagingInit ==
    /\ pdpt = {}
    /\ pd = [v \in Virt |-> NOT_PRESENT]
    /\ mmio_phys_base = <<>>
    /\ tlb = [v \in Virt |-> NOT_PRESENT]
    /\ granted = {}

\* max(4 GB, fb_end) in GB, rounded up and limited to MAX_PDPT_ENTRIES.
required_entries(fb_end) ==
    LET entries == (fb_end + GB - 1) \div GB
    IN  IF entries > MAX_PDPT_ENTRIES THEN MAX_PDPT_ENTRIES
        ELSE IF entries < LOW_GB THEN LOW_GB ELSE entries

init_paging(fb_end) ==
    /\ pdpt' = 0 .. required_entries(fb_end) - 1
    /\ pd' = [v \in Virt |-> IF v \div GB < required_entries(fb_end)
                               THEN v ELSE NOT_PRESENT]
    /\ mmio_phys_base' = <<>>
    /\ tlb' = [v \in Virt |-> NOT_PRESENT]      \* write_cr3
    /\ UNCHANGED granted

\* What the processor finds in the tables for page v.
Walk(v) == IF v \div GB \in pdpt THEN pd[v] ELSE NOT_PRESENT

\* The slots whose page is phys_base.
SlotsOf(phys_base) ==
    {i \in DOMAIN mmio_phys_base : mmio_phys_base[i] = phys_base}

\* The page of the window that slot i, counted from 1, stands for.
SlotPage(i) == MMIO_WINDOW_BASE + i - 1

Grant(virt, phys) == granted' = granted \cup {<<virt, phys>>}

\* Faulty form: the cached translation is not invalidated.
map_new_slot_no_invlpg(phys) ==
    LET virt == SlotPage(Len(mmio_phys_base) + 1) IN
    /\ pdpt' = pdpt \cup {virt \div GB}
    /\ pd' = [pd EXCEPT ![virt] = phys]
    /\ mmio_phys_base' = Append(mmio_phys_base, phys)
    /\ Grant(virt, phys)
    /\ UNCHANGED tlb

\* The next slot: the tables, invlpg, the books.
map_new_slot(phys) ==
    LET virt == SlotPage(Len(mmio_phys_base) + 1) IN
    /\ pdpt' = pdpt \cup {virt \div GB}
    /\ pd' = [pd EXCEPT ![virt] = phys]
    /\ tlb' = [tlb EXCEPT ![virt] = NOT_PRESENT]
    /\ mmio_phys_base' = Append(mmio_phys_base, phys)
    /\ Grant(virt, phys)

\* Faulty form: the slots are not searched for the page first.
map_mmio_virt_no_search(phys) ==
    \/ /\ phys \in Low
       /\ Grant(phys, phys) /\ UNCHANGED <<pdpt, pd, mmio_phys_base, tlb>>
    \/ /\ phys \notin Low
       /\ Len(mmio_phys_base) < MMIO_WINDOW_SLOTS
       /\ map_new_slot(phys)

\* map_mmio_virt, when it returns an address; "MMIO window exhausted" changes
\* nothing.
map_mmio_virt(phys) ==
    \/ /\ phys \in Low
       /\ Grant(phys, phys) /\ UNCHANGED <<pdpt, pd, mmio_phys_base, tlb>>
    \/ /\ phys \notin Low
       /\ \E i \in SlotsOf(phys) : Grant(SlotPage(i), phys)
       /\ UNCHANGED <<pdpt, pd, mmio_phys_base, tlb>>
    \/ /\ phys \notin Low /\ SlotsOf(phys) = {}
       /\ Len(mmio_phys_base) < MMIO_WINDOW_SLOTS
       /\ map_new_slot(phys)

\* The processor caches the translation of page v.
CacheTranslation(v) ==
    /\ Walk(v) # NOT_PRESENT
    /\ tlb' = [tlb EXCEPT ![v] = Walk(v)]
    /\ UNCHANGED <<pdpt, pd, mmio_phys_base, granted>>

PagingNext ==
    \/ /\ pdpt = {}
       /\ \E fb_end \in FramebufferEnds : init_paging(fb_end)
    \/ pdpt # {} /\ \E phys \in DevicePages : map_mmio_virt(phys)
    \/ \E v \in Virt : CacheTranslation(v)

PagingSpec == PagingInit /\ [][PagingNext]_pagingVars
-----------------------------------------------------------------------------
(* Properties *)

\* The pages an access to page v may reach: through the tables or the cache.
Reaches(v) == {Walk(v)} \cup ({tlb[v]} \ {NOT_PRESENT})

\* An address map_mmio_virt has returned leads to the device's page for good,
\* whatever is mapped later and whatever the processor cached before the slot
\* was filled; below 4 GB and outside the window every address is its own
\* (init_paging, map_mmio_virt, invlpg_addr).
TranslationsHold ==
    pdpt # {} =>
        /\ \A g \in granted : Reaches(g[1]) = {g[2]}
        /\ \A v \in Low \ Window : Reaches(v) = {v}

\* The window is exhausted only by as many different pages as it has slots: no
\* page has two slots and no slot is taken that was not asked for.
WindowNotWasted ==
    \A i \in DOMAIN mmio_phys_base :
        /\ SlotsOf(mmio_phys_base[i]) = {i}
        /\ <<SlotPage(i), mmio_phys_base[i]>> \in granted
=============================================================================
