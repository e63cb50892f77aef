---------------------------- MODULE MemoryProofs ----------------------------
(* Proofs about who may use which page of memory: the physical page allocator *)
(* of PageAllocator, the page tables and the device window of Paging, and the *)
(* pages of the boot loader and of the kernel it loads.                       *)
EXTENDS KernelStart, TLAPS

\* Nothing is owned before the bitmap is filled.
Inv ==
    /\ TypeOK
    /\ PagesAccounted
    /\ memory_map = NoMap => owned = {}

LEMMA InvInit == Init => Inv
BY PageAllocatorAssumption DEF Init, Inv, TypeOK, PagesAccounted, Pages, NULL

\* init_physical_memory establishes the account, for every map.
LEMMA InitFills ==
    ASSUME Inv, memory_map = NoMap, NEW given \in MemoryMaps, init_physical_memory(given)
    PROVE  Inv'
<1> USE PageAllocatorAssumption
<1>1. memory_map' = given /\ given \subseteq Descriptor /\ given # NoMap
    BY Zenon DEF init_physical_memory
<1>2. TypeOK'
    BY <1>1, Zenon DEF Inv, TypeOK, init_physical_memory, Pages, NULL
<1>3. ASSUME NEW i \in Pages
      PROVE  (page_bitmap'[i] = 0) = (i \in Available')
    <2>1. (i \notin mark_pages(0, HeapEnd)) = (i >= HeapEnd)
        BY DEF mark_pages, Pages
    <2>2. ASSUME NEW d \in given
          PROVE  (i \in mark_pages(d.start_page, d.page_count))
                    = (d.start_page <= i /\ i < d.start_page + d.page_count)
        BY DEF mark_pages
    <2>3. (i \in Available') = (i >= HeapEnd /\
             \E d \in given : d.usable /\ d.start_page <= i /\ i < d.start_page + d.page_count)
        BY <1>1 DEF Available
    <2> QED
        BY <2>1, <2>2, <2>3 DEF init_physical_memory
<1>4. Free' = Available'
    BY <1>3, Zenon DEF Free, Available
<1>5. owned' = {}
    BY Zenon DEF Inv, init_physical_memory
<1> QED
    BY <1>1, <1>2, <1>4, <1>5, Zenon DEF Inv, PagesAccounted

\* alloc_page and free_page keep it.
LEMMA InvNext == Inv /\ [Next]_vars => Inv'
<1> SUFFICES ASSUME Inv, [Next]_vars PROVE Inv'
    BY Zenon
<1> USE PageAllocatorAssumption DEF Inv
<1>0. ASSUME memory_map = NoMap, NEW given \in MemoryMaps, init_physical_memory(given)
      PROVE  Inv'
    BY <1>0, InitFills, Zenon
<1>1. CASE memory_map # NoMap /\ alloc_page
    <2>1. ASSUME NEW i \in Free,
                 page_bitmap' = [page_bitmap EXCEPT ![i] = 1],
                 page_alloc_hint' = (i + 1) % MAX_PAGES,
                 owned' = owned \cup {i}, ret' = i, UNCHANGED memory_map
          PROVE  Inv'
        <3>1. TypeOK'
            BY <2>1 DEF TypeOK, Free, Pages
        <3>2. Free' = Free \ {i}
            BY <2>1 DEF TypeOK, Free
        <3>3. Available' = Available
            BY <2>1, Zenon DEF Available
        <3> QED
            BY <1>1, <2>1, <3>1, <3>2, <3>3, Zenon DEF PagesAccounted
    <2>2. CASE ret' = NULL /\ UNCHANGED <<memory_map, page_bitmap, page_alloc_hint, owned>>
        BY <2>2, Zenon DEF TypeOK, PagesAccounted, Free, Available
    <2> QED
        BY <1>1, <2>1, <2>2, Zenon DEF alloc_page
<1>2. ASSUME memory_map # NoMap, NEW page \in owned, free_page(page) PROVE Inv'
    <2>1. TypeOK'
        BY <1>2, Zenon DEF TypeOK, free_page, Pages
    <2>2. Free' = Free \cup {page}
        BY <1>2, Zenon DEF TypeOK, Free, free_page
    <2>3. Available' = Available
        BY <1>2, Zenon DEF Available, free_page
    <2>4. owned' = owned \ {page} /\ memory_map' = memory_map
        BY <1>2, Zenon DEF free_page
    <2> QED
        BY <1>2, <2>1, <2>2, <2>3, <2>4, Zenon DEF PagesAccounted
<1>3. CASE UNCHANGED vars
    BY <1>3, Zenon DEF vars, TypeOK, PagesAccounted, Free, Available
<1> QED
    BY <1>0, <1>1, <1>2, <1>3, Zenon DEF Next

\* The invariant always holds.
LEMMA InvHolds == Spec => []Inv
BY InvInit, InvNext, PTL DEF Spec

\* The bitmap, the hint and the owners keep their types; in particular the hint
\* always is the number of a page (alloc_page, free_page).
THEOREM PageTypeCorrect == Spec => []TypeOK
BY InvHolds, PTL DEF Inv

\* For every number of pages and every memory given: no page is lost, has two
\* roles, or is taken from the kernel, its heap or the firmware.
THEOREM PagesAlwaysAccounted == Spec => []PagesAccounted
BY InvHolds, PTL DEF Inv

\* alloc_page returns a page nobody owns, and NULL only when there is none.
THEOREM AllocIsHonest == Spec => AllocHonest
<1>1. Inv /\ [Next]_vars =>
          [memory_map # NoMap /\ alloc_page =>
              IF ret' = NULL THEN owned = Available
                             ELSE ret' \in Available \ owned]_vars
    <2> SUFFICES ASSUME Inv, memory_map # NoMap, alloc_page
                 PROVE  IF ret' = NULL THEN owned = Available
                                       ELSE ret' \in Available \ owned
        BY Zenon
    <2>1. ASSUME NEW i \in Free, ret' = i
          PROVE  ret' # NULL /\ ret' \in Available \ owned
        BY <2>1 DEF Inv, PagesAccounted, Free, Pages, NULL
    <2>2. ASSUME Free = {} PROVE owned = Available
        BY <2>2, Zenon DEF Inv, PagesAccounted
    <2> QED
        BY <2>1, <2>2, Zenon DEF alloc_page
<1> QED
    BY <1>1, InvHolds, PTL DEF Spec, AllocHonest
-----------------------------------------------------------------------------

\* A page below 4 GB has an entry in one of the first LOW_GB directories.
LEMMA LowDirectory ==
    ASSUME NEW v \in Low
    PROVE  v \in Virt /\ v \div GB \in 0 .. LOW_GB - 1
<1> USE PagingAssumption DEF Low, Virt
<1>1. LOW_GB * GB \in Nat /\ MAX_PDPT_ENTRIES * GB \in Nat
    OBVIOUS
<1>2. LOW_GB * GB <= MAX_PDPT_ENTRIES * GB
    OBVIOUS
<1>3. v \in Nat /\ v < LOW_GB * GB
    BY <1>1
<1>4. v \div GB \in Nat /\ GB * (v \div GB) <= v
    BY <1>3
<1>5. v \div GB >= LOW_GB => GB * (v \div GB) >= GB * LOW_GB
    BY <1>4
<1> QED
    BY <1>1, <1>2, <1>3, <1>4, <1>5

LEMMA SlotsAreLow ==
    ASSUME NEW i \in 1 .. MMIO_WINDOW_SLOTS
    PROVE  SlotPage(i) \in Low /\ SlotPage(i) \in Window
BY PagingAssumption DEF SlotPage, Low, Window

LEMMA EntriesEnough ==
    ASSUME NEW fb_end \in FramebufferEnds
    PROVE  required_entries(fb_end) \in Nat /\ required_entries(fb_end) >= LOW_GB
<1> USE PagingAssumption
<1>1. fb_end + GB - 1 \in Nat
    OBVIOUS
<1>2. (fb_end + GB - 1) \div GB \in Int
    BY <1>1
<1> DEFINE entries == (fb_end + GB - 1) \div GB
<1>3. entries \in Int
    BY <1>2, Zenon
<1> HIDE DEF entries
<1>4. required_entries(fb_end) = IF entries > MAX_PDPT_ENTRIES THEN MAX_PDPT_ENTRIES
                                 ELSE IF entries < LOW_GB THEN LOW_GB ELSE entries
    BY Zenon DEF required_entries, entries
<1> QED
    BY <1>3, <1>4
-----------------------------------------------------------------------------

\* The tables exist: below 4 GB every page has an entry, which outside the
\* window is the page itself and in the window is what the books say.
Tables ==
    /\ 0 .. LOW_GB - 1 \subseteq pdpt
    /\ \A v \in Low \ Window : pd[v] = v
    /\ \A i \in DOMAIN mmio_phys_base : pd[SlotPage(i)] = mmio_phys_base[i]

\* The books: different pages above 4 GB, each of them asked for.
Books ==
    /\ Len(mmio_phys_base) <= MMIO_WINDOW_SLOTS
    /\ \A i, j \in DOMAIN mmio_phys_base :
          mmio_phys_base[i] = mmio_phys_base[j] => i = j
    /\ \A i \in DOMAIN mmio_phys_base : <<SlotPage(i), mmio_phys_base[i]>> \in granted
    /\ \A g \in granted :
          \/ g[1] \in Low \ Window /\ g[2] = g[1]
          \/ \E i \in DOMAIN mmio_phys_base : g = <<SlotPage(i), mmio_phys_base[i]>>

\* Nothing stale is cached.
Cached == \A v \in Virt : tlb[v] \in {NOT_PRESENT, Walk(v)}

PagingTypeOK ==
    /\ pdpt \subseteq Nat
    /\ pd \in [Virt -> Nat \cup {NOT_PRESENT}]
    /\ mmio_phys_base \in Seq(Nat)
    /\ tlb \in [Virt -> Nat \cup {NOT_PRESENT}]

PagingInv ==
    /\ PagingTypeOK
    /\ IF pdpt = {} THEN mmio_phys_base = <<>> /\ granted = {}
                         /\ tlb = [v \in Virt |-> NOT_PRESENT]
                    ELSE Tables /\ Books /\ Cached

LEMMA PagingInvInit == PagingInit => PagingInv
BY DEF PagingInit, PagingInv, PagingTypeOK

\* init_paging builds the identity map and leaves nothing cached.
LEMMA InitPagingKeeps ==
    ASSUME PagingInv, pdpt = {}, NEW fb_end \in FramebufferEnds, init_paging(fb_end)
    PROVE  PagingInv'
<1> DEFINE n == required_entries(fb_end)
<1>1. n \in Nat /\ n >= LOW_GB
    BY EntriesEnough, Zenon
<1> HIDE DEF n
<1>2. /\ pdpt' = 0 .. n - 1
      /\ pd' = [v \in Virt |-> IF v \div GB < n THEN v ELSE NOT_PRESENT]
      /\ mmio_phys_base' = <<>>
      /\ tlb' = [v \in Virt |-> NOT_PRESENT]
      /\ granted' = {}
    BY Zenon DEF init_paging, n, PagingInv
<1>3. PagingTypeOK'
    BY <1>1, <1>2, PagingAssumption DEF PagingTypeOK, Virt, NOT_PRESENT
<1>4. 0 .. LOW_GB - 1 \subseteq pdpt' /\ pdpt' # {}
    <2>1. 0 .. LOW_GB - 1 \subseteq pdpt'
        BY <1>1, <1>2, PagingAssumption
    <2>2. 0 \in 0 .. LOW_GB - 1
        BY PagingAssumption
    <2> QED
        BY <2>1, <2>2, Zenon
<1>5. ASSUME NEW v \in Low PROVE pd'[v] = v
    <2>1. v \in Virt /\ v \div GB < n
        BY <1>1, LowDirectory, PagingAssumption
    <2> QED
        BY <1>2, <2>1, Zenon
<1>6. Tables'
    BY <1>2, <1>4, <1>5 DEF Tables
<1>7. Books'
    BY <1>2, PagingAssumption DEF Books
<1>8. Cached'
    BY <1>2, Zenon DEF Cached
<1> QED
    BY <1>3, <1>4, <1>6, <1>7, <1>8, Zenon DEF PagingInv

\* Returning an address that is in the books, or below 4 GB, changes nothing.
LEMMA GrantKeeps ==
    ASSUME PagingInv, pdpt # {}, NEW virt, NEW phys, Grant(virt, phys),
           UNCHANGED <<pdpt, pd, mmio_phys_base, tlb>>,
           \/ virt \in Low \ Window /\ phys = virt
           \/ \E i \in DOMAIN mmio_phys_base :
                 virt = SlotPage(i) /\ phys = mmio_phys_base[i]
    PROVE  PagingInv'
<1>1. granted' = granted \cup {<<virt, phys>>}
    BY Zenon DEF Grant
<1>2. PagingTypeOK' /\ Tables' /\ Cached'
    BY Zenon DEF PagingInv, PagingTypeOK, Tables, Cached, Walk
<1>3. ASSUME NEW g \in granted'
      PROVE  \/ g[1] \in Low \ Window /\ g[2] = g[1]
             \/ \E i \in DOMAIN mmio_phys_base : g = <<SlotPage(i), mmio_phys_base[i]>>
    <2>1. CASE g \in granted
        BY <2>1, Zenon DEF PagingInv, Books
    <2>2. CASE g = <<virt, phys>>
        BY <2>2, Zenon
    <2> QED
        BY <1>1, <2>1, <2>2, Zenon
<1>4. Books'
    BY <1>1, <1>3, Zenon DEF PagingInv, Books
<1> QED
    BY <1>2, <1>4, Zenon DEF PagingInv

\* A new slot: its entry changes, but nobody was given its address before, and
\* what the processor had cached for it is gone.
LEMMA NewSlotKeeps ==
    ASSUME PagingInv, pdpt # {}, NEW phys \in DevicePages, SlotsOf(phys) = {},
           Len(mmio_phys_base) < MMIO_WINDOW_SLOTS, map_new_slot(phys)
    PROVE  PagingInv'
<1> DEFINE n == Len(mmio_phys_base)
           virt == SlotPage(n + 1)
<1>0. PagingTypeOK /\ Tables /\ Books /\ Cached
    BY Zenon DEF PagingInv
<1>1. /\ n \in Nat /\ n + 1 \in 1 .. MMIO_WINDOW_SLOTS
      /\ DOMAIN mmio_phys_base = 1 .. n
      /\ PagingTypeOK /\ Tables /\ Books /\ Cached
    BY <1>0, PagingAssumption DEF PagingTypeOK
<1>2. virt \in Low /\ virt \in Window /\ virt \in Virt /\ virt \div GB \in 0 .. LOW_GB - 1
    BY <1>1, SlotsAreLow, LowDirectory, Zenon
<1>3. phys \in Nat
    BY PagingAssumption, Zenon
<1>4. /\ pdpt' = pdpt
      /\ pd' = [pd EXCEPT ![virt] = phys]
      /\ tlb' = [tlb EXCEPT ![virt] = NOT_PRESENT]
      /\ mmio_phys_base' = Append(mmio_phys_base, phys)
      /\ granted' = granted \cup {<<virt, phys>>}
    BY <1>1, <1>2, Zenon DEF map_new_slot, Grant, Tables
<1>5. \A i \in 1 .. n : SlotPage(i) # virt /\ SlotPage(i) \in Low /\ SlotPage(i) \in Virt
    <2> TAKE i \in 1 .. n
    <2>1. i \in 1 .. MMIO_WINDOW_SLOTS
        BY <1>1, PagingAssumption
    <2>2. SlotPage(i) # virt
        BY <1>1, <2>1, PagingAssumption DEF SlotPage
    <2> QED
        BY <2>1, <2>2, SlotsAreLow, LowDirectory, Zenon
<1>6. /\ DOMAIN mmio_phys_base' = 1 .. n + 1 /\ Len(mmio_phys_base') = n + 1
      /\ \A i \in 1 .. n : mmio_phys_base'[i] = mmio_phys_base[i]
      /\ mmio_phys_base'[n + 1] = phys
      /\ mmio_phys_base' \in Seq(Nat)
    BY <1>1, <1>3, <1>4 DEF PagingTypeOK
<1>7. \A i \in 1 .. n : mmio_phys_base[i] # phys
    BY <1>1, Zenon DEF SlotsOf
<1> HIDE DEF n, virt
<1>8. PagingTypeOK'
    BY <1>1, <1>2, <1>3, <1>4, <1>6, Zenon DEF PagingTypeOK
<1>9. pd \in [Virt -> Nat \cup {NOT_PRESENT}] /\ tlb \in [Virt -> Nat \cup {NOT_PRESENT}]
    BY <1>1, Zenon DEF PagingTypeOK
<1>10. \A i \in 1 .. n + 1 : i \in 1 .. n \/ i = n + 1
    BY <1>1
<1>11. virt = SlotPage(n + 1)
    BY Zenon DEF virt
<1>12. Tables'
    <2>1. \A v \in Low \ Window : pd'[v] = v
        BY <1>1, <1>2, <1>4, <1>9, LowDirectory, Zenon DEF Tables
    <2>2. ASSUME NEW i \in 1 .. n + 1 PROVE pd'[SlotPage(i)] = mmio_phys_base'[i]
        <3>1. CASE i \in 1 .. n
            BY <1>1, <1>4, <1>5, <1>6, <1>9, <3>1, Zenon DEF Tables
        <3>2. CASE i = n + 1
            BY <1>2, <1>4, <1>6, <1>9, <1>11, <3>2, Zenon
        <3> QED
            BY <1>10, <3>1, <3>2, Zenon
    <2>3. 0 .. LOW_GB - 1 \subseteq pdpt'
        BY <1>1, <1>4, Zenon DEF Tables
    <2> QED
        BY <1>6, <2>1, <2>2, <2>3, Zenon DEF Tables
<1>13. Books'
    <2>1. Len(mmio_phys_base') <= MMIO_WINDOW_SLOTS
        BY <1>1, <1>6
    <2>2. ASSUME NEW i \in 1 .. n + 1, NEW j \in 1 .. n + 1,
                 mmio_phys_base'[i] = mmio_phys_base'[j]
          PROVE  i = j
        BY <1>1, <1>6, <1>7, <1>10, <2>2, Zenon DEF Books
    <2>3. ASSUME NEW i \in 1 .. n + 1
          PROVE  <<SlotPage(i), mmio_phys_base'[i]>> \in granted'
        <3>1. CASE i \in 1 .. n
            BY <1>1, <1>4, <1>6, <3>1, Zenon DEF Books
        <3>2. CASE i = n + 1
            BY <1>4, <1>6, <1>11, <3>2, Zenon
        <3> QED
            BY <1>10, <3>1, <3>2, Zenon
    <2>4. ASSUME NEW g \in granted'
          PROVE  \/ g[1] \in Low \ Window /\ g[2] = g[1]
                 \/ \E i \in 1 .. n + 1 : g = <<SlotPage(i), mmio_phys_base'[i]>>
        <3>1. CASE g = <<virt, phys>>
            BY <1>1, <1>6, <1>11, <3>1
        <3>2. CASE g \in granted /\ ~(g[1] \in Low \ Window /\ g[2] = g[1])
            <4>1. PICK i \in 1 .. n : g = <<SlotPage(i), mmio_phys_base[i]>>
                BY <1>1, <3>2, Zenon DEF Books
            <4>2. i \in 1 .. n + 1 /\ mmio_phys_base'[i] = mmio_phys_base[i]
                BY <1>1, <1>6
            <4> QED
                BY <4>1, <4>2, Zenon
        <3> QED
            BY <1>4, <3>1, <3>2, Zenon
    <2> QED
        BY <1>6, <2>1, <2>2, <2>3, <2>4 DEF Books
<1>14. Cached'
    <2> SUFFICES ASSUME NEW v \in Virt PROVE tlb'[v] \in {NOT_PRESENT, Walk(v)'}
        BY Zenon DEF Cached
    <2>1. CASE v = virt
        BY <1>4, <1>9, <2>1, Zenon
    <2>2. CASE v # virt
        <3>1. tlb'[v] = tlb[v] /\ pd'[v] = pd[v]
            BY <1>4, <1>9, <2>2, Zenon
        <3>2. Walk(v)' = Walk(v)
            BY <1>4, <3>1, Zenon DEF Walk
        <3> QED
            BY <1>1, <3>1, <3>2, Zenon DEF Cached
    <2> QED
        BY <2>1, <2>2, Zenon
<1> QED
    BY <1>4, <1>8, <1>12, <1>13, <1>14, Zenon DEF PagingInv

LEMMA CacheKeeps ==
    ASSUME PagingInv, NEW v \in Virt, CacheTranslation(v)
    PROVE  PagingInv'
<1>1. /\ Walk(v) # NOT_PRESENT
      /\ tlb' = [tlb EXCEPT ![v] = Walk(v)]
      /\ UNCHANGED <<pdpt, pd, mmio_phys_base, granted>>
    BY Zenon DEF CacheTranslation
<1>2. pdpt # {}
    BY <1>1, Zenon DEF Walk
<1>3. Walk(v) \in Nat \cup {NOT_PRESENT}
    BY Zenon DEF PagingInv, PagingTypeOK, Walk
<1>4. PagingTypeOK'
    BY <1>1, <1>3, Zenon DEF PagingInv, PagingTypeOK
<1>5. Tables' /\ Books'
    BY <1>1, <1>2, Zenon DEF PagingInv, Tables, Books
<1>6. \A u \in Virt : Walk(u)' = Walk(u)
    BY <1>1, Zenon DEF Walk
<1>7. Cached'
    BY <1>1, <1>2, <1>6, Zenon DEF PagingInv, PagingTypeOK, Cached
<1> QED
    BY <1>1, <1>2, <1>4, <1>5, <1>7, Zenon DEF PagingInv

LEMMA PagingInvNext == PagingInv /\ [PagingNext]_pagingVars => PagingInv'
<1> SUFFICES ASSUME PagingInv, [PagingNext]_pagingVars PROVE PagingInv'
    BY Zenon
<1>1. ASSUME pdpt = {}, NEW fb_end \in FramebufferEnds, init_paging(fb_end)
      PROVE  PagingInv'
    BY <1>1, InitPagingKeeps, Zenon
<1>2. ASSUME pdpt # {}, NEW phys \in DevicePages, map_mmio_virt(phys)
      PROVE  PagingInv'
    <2>1. CASE /\ phys \in Low
               /\ Grant(phys, phys) /\ UNCHANGED <<pdpt, pd, mmio_phys_base, tlb>>
        <3>1. phys \in Low \ Window
            BY <2>1, PagingAssumption, Zenon
        <3> QED
            BY <1>2, <2>1, <3>1, GrantKeeps, Zenon
    <2>2. CASE /\ \E i \in SlotsOf(phys) : Grant(SlotPage(i), phys)
               /\ UNCHANGED <<pdpt, pd, mmio_phys_base, tlb>>
        <3>1. PICK i \in DOMAIN mmio_phys_base :
                 mmio_phys_base[i] = phys /\ Grant(SlotPage(i), phys)
            BY <2>2, Zenon DEF SlotsOf
        <3> QED
            BY <1>2, <2>2, <3>1, GrantKeeps, Zenon
    <2>3. CASE /\ SlotsOf(phys) = {} /\ Len(mmio_phys_base) < MMIO_WINDOW_SLOTS
               /\ map_new_slot(phys)
        BY <1>2, <2>3, NewSlotKeeps, Zenon
    <2> QED
        BY <1>2, <2>1, <2>2, <2>3, Zenon DEF map_mmio_virt
<1>3. ASSUME NEW v \in Virt, CacheTranslation(v) PROVE PagingInv'
    BY <1>3, CacheKeeps, Zenon
<1>4. CASE UNCHANGED pagingVars
    BY <1>4, Zenon DEF pagingVars, PagingInv, PagingTypeOK, Tables, Books, Cached, Walk
<1> QED
    BY <1>1, <1>2, <1>3, <1>4, Zenon DEF PagingNext

LEMMA PagingInvHolds == PagingSpec => []PagingInv
BY PagingInvInit, PagingInvNext, PTL DEF PagingSpec
-----------------------------------------------------------------------------

\* For any number of slots, devices and directories: an address map_mmio_virt
\* returned leads to its device for good, through the tables and through
\* whatever the processor caches, and the identity map below 4 GB stays.
THEOREM TranslationsAlwaysHold == PagingSpec => []TranslationsHold
<1>1. PagingInv => TranslationsHold
    <2> SUFFICES ASSUME PagingInv, pdpt # {}
                 PROVE  /\ \A g \in granted : Reaches(g[1]) = {g[2]}
                        /\ \A v \in Low \ Window : Reaches(v) = {v}
        BY Zenon DEF TranslationsHold
    <2>0. PagingTypeOK /\ Tables /\ Books /\ Cached
        BY Zenon DEF PagingInv
    <2>1. ASSUME NEW v \in Low, pd[v] # NOT_PRESENT
          PROVE  Reaches(v) = {pd[v]}
        <3>1. Walk(v) = pd[v] /\ v \in Virt
            BY <2>0, LowDirectory, Zenon DEF Walk, Tables
        <3>2. tlb[v] \in {NOT_PRESENT, pd[v]}
            BY <2>0, <3>1, Zenon DEF Cached
        <3> QED
            BY <2>1, <3>1, <3>2, Zenon DEF Reaches
    <2>2. \A v \in Low \ Window : Reaches(v) = {v}
        <3> TAKE v \in Low \ Window
        <3>1. pd[v] = v /\ v # NOT_PRESENT
            BY <2>0 DEF Tables, Low, NOT_PRESENT
        <3> QED
            BY <2>1, <3>1, Zenon
    <2>3. ASSUME NEW i \in DOMAIN mmio_phys_base
          PROVE  Reaches(SlotPage(i)) = {mmio_phys_base[i]}
        <3>1. i \in 1 .. MMIO_WINDOW_SLOTS
            BY <2>0, PagingAssumption DEF PagingTypeOK, Books
        <3>2. SlotPage(i) \in Low
            BY <3>1, SlotsAreLow, Zenon
        <3>3. pd[SlotPage(i)] = mmio_phys_base[i] /\ mmio_phys_base[i] # NOT_PRESENT
            BY <2>0 DEF Tables, PagingTypeOK, NOT_PRESENT
        <3> QED
            BY <2>1, <3>2, <3>3, Zenon
    <2>4. ASSUME NEW g \in granted PROVE Reaches(g[1]) = {g[2]}
        <3>1. CASE g[1] \in Low \ Window /\ g[2] = g[1]
            BY <2>2, <3>1, Zenon
        <3>2. CASE \E i \in DOMAIN mmio_phys_base : g = <<SlotPage(i), mmio_phys_base[i]>>
            <4>1. PICK i \in DOMAIN mmio_phys_base : g = <<SlotPage(i), mmio_phys_base[i]>>
                BY <3>2, Zenon
            <4>2. g[1] = SlotPage(i) /\ g[2] = mmio_phys_base[i]
                BY <4>1, Zenon
            <4> QED
                BY <2>3, <4>2, Zenon
        <3> QED
            BY <2>0, <3>1, <3>2, Zenon DEF Books
    <2> QED
        BY <2>2, <2>4, Zenon
<1> QED
    BY <1>1, PagingInvHolds, PTL

\* No page ever has two slots, and every slot in use was asked for.
THEOREM WindowNeverWasted == PagingSpec => []WindowNotWasted
<1>1. PagingInv => WindowNotWasted
    BY DEF PagingInv, Books, WindowNotWasted, SlotsOf
<1> QED
    BY <1>1, PagingInvHolds, PTL
-----------------------------------------------------------------------------
(* The boot loader *)

\* The pages of the segments loaded so far.
Loaded == UNION {KernelSegments[i] : i \in 1 .. seg - 1}

PoolPages == RamPages \cup {NO_PAGE}

BeforeInfo == {"locate", "info"}
BeforeFile == BeforeInfo \cup {"get_info", "file"}
BeforeKernel == BeforeFile \cup {"read"}
WithMap == {"map", "exit", "free"}

\* Where the loader is, and what it has allocated there.
Allocated ==
    /\ info \in PoolPages /\ file \in PoolPages /\ MemoryMap \in PoolPages
    /\ pc \in BeforeInfo => info = NO_PAGE
    /\ pc \in BeforeFile => file = NO_PAGE
    /\ pc \notin BeforeFile => file # NO_PAGE
    /\ pc \in WithMap <=> MemoryMap # NO_PAGE
    /\ seg \in 1 .. Len(KernelSegments) + 1
    /\ pc \in BeforeKernel => seg = 1
    /\ pc \notin BeforeKernel \cup {"segments"} => seg = Len(KernelSegments) + 1

\* What the pages hold.
Filled ==
    /\ mem[StackPage] = "BootServicesData" /\ bytes[StackPage] = "boot_info"
    /\ \A p \in Loaded : bytes[p] = "kernel"
    /\ pc \notin BeforeKernel => bytes[file] = "elf"

\* The inductive invariant of the loader: the buffer of the memory map is not a
\* page of anything else, so that freeing it takes nothing else away.
LoaderInv ==
    /\ mem = [p \in RamPages |-> mem[p]] /\ bytes = [p \in RamPages |-> bytes[p]]
    /\ Allocated
    /\ PagesOfType("LoaderData") = ({info, file, MemoryMap} \ {NO_PAGE}) \cup Loaded
    /\ MemoryMap # NO_PAGE => MemoryMap \notin {info, file} \cup Loaded
    /\ Filled

BootInv ==
    /\ Loading => LoaderInv
    /\ KernelSurvives
    /\ useg \in Nat \ {0}
-----------------------------------------------------------------------------
(* Memory *)

LEMMA NoPageIsNone == NO_PAGE \notin RamPages
BY BootLoaderAssumption DEF NO_PAGE, RamPages

LEMMA SegmentsInMemory ==
    ASSUME NEW i \in 1 .. Len(KernelSegments)
    PROVE  KernelSegments[i] \subseteq RamPages \ {StackPage}
BY BootLoaderAssumption

LEMMA LoadedInMemory ==
    ASSUME Allocated PROVE Loaded \subseteq RamPages \ {StackPage}
<1>1. Len(KernelSegments) \in Nat
    BY BootLoaderAssumption
<1>2. ASSUME NEW i \in 1 .. seg - 1 PROVE i \in 1 .. Len(KernelSegments)
    BY <1>1 DEF Allocated
<1> QED
    BY <1>2, SegmentsInMemory, Zenon DEF Loaded

\* The pages of a type after some pages have changed theirs.
LEMMA RetypeFacts ==
    ASSUME NEW pages \in SUBSET RamPages, NEW type, NEW content,
           Retype(pages, type, content)
    PROVE  /\ mem' = [p \in RamPages |-> mem'[p]] /\ bytes' = [p \in RamPages |-> bytes'[p]]
           /\ \A p \in RamPages : mem'[p] = IF p \in pages THEN type ELSE mem[p]
           /\ \A p \in RamPages : bytes'[p] = IF p \in pages THEN content ELSE bytes[p]
           /\ PagesOfType("LoaderData")' =
                IF type = "LoaderData" THEN PagesOfType("LoaderData") \cup pages
                                       ELSE PagesOfType("LoaderData") \ pages
BY Zenon DEF Retype, PagesOfType

\* A pool page was free, and is the loader's.
LEMMA PoolFacts ==
    ASSUME LoaderInv, NEW q, AllocatePool(q, "other")
    PROVE  /\ q \in RamPages /\ q # NO_PAGE /\ q # StackPage
           /\ q \notin {info, file, MemoryMap} \cup Loaded
           /\ mem' = [p \in RamPages |-> mem'[p]] /\ bytes' = [p \in RamPages |-> bytes'[p]]
           /\ mem'[StackPage] = mem[StackPage]
           /\ \A p \in RamPages \ {q} : bytes'[p] = bytes[p]
           /\ PagesOfType("LoaderData")' = PagesOfType("LoaderData") \cup {q}
<1>1. q \in RamPages /\ mem[q] = "Conventional" /\ Retype({q}, "LoaderData", "other")
    BY Zenon DEF AllocatePool, PagesOfType
<1>2. q \notin PagesOfType("LoaderData") /\ q # StackPage /\ q # NO_PAGE
    BY <1>1, NoPageIsNone, Zenon DEF PagesOfType, LoaderInv, Filled
<1>3. StackPage \in RamPages
    BY BootLoaderAssumption, Zenon
<1>4. q \notin {info, file, MemoryMap} \cup Loaded
    BY <1>2, Zenon DEF LoaderInv
<1>5. {q} \in SUBSET RamPages
    BY <1>1, Zenon
<1>6. /\ mem' = [p \in RamPages |-> mem'[p]] /\ bytes' = [p \in RamPages |-> bytes'[p]]
      /\ \A p \in RamPages : mem'[p] = IF p \in {q} THEN "LoaderData" ELSE mem[p]
      /\ \A p \in RamPages : bytes'[p] = IF p \in {q} THEN "other" ELSE bytes[p]
      /\ PagesOfType("LoaderData")' = PagesOfType("LoaderData") \cup {q}
    BY <1>1, <1>5, RetypeFacts, Zenon
<1>7. mem'[StackPage] = mem[StackPage]
    BY <1>2, <1>3, <1>6, Zenon
<1>8. \A p \in RamPages \ {q} : bytes'[p] = bytes[p]
    BY <1>6, Zenon
<1> QED
    BY <1>1, <1>2, <1>4, <1>6, <1>7, <1>8, Zenon
-----------------------------------------------------------------------------
(* The loader *)

LEMMA LoaderInvInit == LoaderInit => LoaderInv
<1> SUFFICES ASSUME LoaderInit PROVE LoaderInv
    BY Zenon
<1>1. Loaded = {}
    BY DEF LoaderInit, Loaded
<1>2. StackPage \in RamPages /\ KernelSegments \in Seq(SUBSET (RamPages \ {StackPage}))
    BY BootLoaderAssumption, Zenon
<1>3. mem[StackPage] = "BootServicesData" /\ bytes[StackPage] = "boot_info"
    BY <1>2, Zenon DEF LoaderInit
<1>4. ASSUME NEW p \in RamPages PROVE mem[p] # "LoaderData"
    BY Zenon DEF LoaderInit
<1>5. PagesOfType("LoaderData") = {}
    BY <1>4, Zenon DEF PagesOfType
<1>6. Allocated
    <2>1. Len(KernelSegments) \in Nat
        BY <1>2
    <2> QED
        BY <2>1 DEF LoaderInit, Allocated, PoolPages, BeforeInfo, BeforeFile, BeforeKernel,
                    WithMap
<1>7. Filled
    BY <1>1, <1>3, Zenon DEF LoaderInit, Filled, BeforeKernel, BeforeFile, BeforeInfo
<1>8. mem = [p \in RamPages |-> mem[p]] /\ bytes = [p \in RamPages |-> bytes[p]]
    BY Zenon DEF LoaderInit
<1> QED
    BY <1>1, <1>5, <1>6, <1>7, <1>8, Zenon DEF LoaderInv, LoaderInit

\* The steps that neither allocate nor write.
LEMMA QuietInv ==
    ASSUME LoaderInv, Loading, UNCHANGED <<mem, bytes, info, file, seg, MemoryMap>>,
           \/ LocateKernel \/ GetInfo \/ KernelLoaded \/ GetMapSize
           \/ (ExitBootServices /\ pc' = "free")
    PROVE  LoaderInv'
<1>1. Loaded' = Loaded /\ PagesOfType("LoaderData")' = PagesOfType("LoaderData")
    BY Zenon DEF Loaded, PagesOfType
<1>2. Len(KernelSegments) \in Nat
    BY BootLoaderAssumption
<1>3. Allocated'
    BY <1>2 DEF LoaderInv, Allocated, BeforeInfo, BeforeFile, BeforeKernel, WithMap,
       LocateKernel, GetInfo, KernelLoaded, GetMapSize, ExitBootServices, Goto
<1>4. Filled'
    BY <1>1, Zenon DEF LoaderInv, Filled, BeforeInfo, BeforeFile, BeforeKernel,
       LocateKernel, GetInfo, KernelLoaded, GetMapSize, ExitBootServices, Goto
<1> QED
    BY <1>1, <1>3, <1>4, Zenon DEF LoaderInv

LEMMA FirmwareInv == ASSUME LoaderInv, FirmwareChanges PROVE LoaderInv'
<1>1. UNCHANGED <<pc, info, file, seg, MemoryMap>>
    BY Zenon DEF FirmwareChanges
<1>2. PICK q \in RamPages \ {StackPage}, type \in {"BootServicesData", "Conventional"} :
        /\ mem[q] # "LoaderData"
        /\ Retype({q}, type, "other")
    BY Zenon DEF FirmwareChanges, PagesOfType, LoaderInv, Filled
<1>3. /\ mem' = [p \in RamPages |-> mem'[p]] /\ bytes' = [p \in RamPages |-> bytes'[p]]
      /\ \A p \in RamPages : mem'[p] = IF p \in {q} THEN type ELSE mem[p]
      /\ \A p \in RamPages : bytes'[p] = IF p \in {q} THEN "other" ELSE bytes[p]
      /\ PagesOfType("LoaderData")' = PagesOfType("LoaderData") \ {q}
    BY <1>2, RetypeFacts, Zenon
<1>4. q \notin PagesOfType("LoaderData")
    BY <1>2, Zenon DEF PagesOfType
<1>5. PagesOfType("LoaderData")' = PagesOfType("LoaderData") /\ Loaded' = Loaded
    BY <1>1, <1>3, <1>4, Zenon DEF Loaded
<1>6. Allocated'
    BY <1>1, Zenon DEF LoaderInv, Allocated
<1>7. Filled'
    <2>1. StackPage \in RamPages /\ Loaded \subseteq RamPages
        BY BootLoaderAssumption, LoadedInMemory, Zenon DEF LoaderInv
    <2>2. q \notin Loaded
        BY <1>4, Zenon DEF LoaderInv
    <2>3. \A p \in Loaded : bytes'[p] = "kernel"
        BY <1>3, <2>1, <2>2, Zenon DEF LoaderInv, Filled
    <2>4. mem'[StackPage] = "BootServicesData" /\ bytes'[StackPage] = "boot_info"
        BY <1>2, <1>3, <2>1, Zenon DEF LoaderInv, Filled
    <2>5. pc \notin BeforeKernel => bytes'[file] = "elf"
        <3>1. SUFFICES ASSUME pc \notin BeforeKernel PROVE bytes'[file] = "elf"
            BY Zenon
        <3>2. file \in RamPages /\ file # NO_PAGE /\ bytes[file] = "elf"
            BY <3>1, Zenon DEF LoaderInv, Allocated, Filled, PoolPages, BeforeKernel
        <3>3. file # q
            BY <1>4, <3>2, Zenon DEF LoaderInv
        <3> QED
            BY <1>3, <3>2, <3>3, Zenon
    <2> QED
        BY <1>1, <1>5, <2>3, <2>4, <2>5, Zenon DEF Filled
<1> QED
    BY <1>1, <1>3, <1>5, <1>6, <1>7, Zenon DEF LoaderInv

LEMMA AllocateInfoInv == ASSUME LoaderInv, AllocateInfo PROVE LoaderInv'
<1>1. /\ pc = "info" /\ pc' = "get_info" /\ UNCHANGED <<file, seg, MemoryMap>>
      /\ info' \in RamPages /\ AllocatePool(info', "other")
    BY Zenon DEF AllocateInfo, Goto
<1>2. info = NO_PAGE /\ file = NO_PAGE /\ MemoryMap = NO_PAGE /\ seg = 1
    BY <1>1, Zenon DEF LoaderInv, Allocated, BeforeInfo, BeforeFile, BeforeKernel, WithMap
<1>3. /\ info' # NO_PAGE /\ info' # StackPage
      /\ mem' = [p \in RamPages |-> mem'[p]] /\ bytes' = [p \in RamPages |-> bytes'[p]]
      /\ mem'[StackPage] = mem[StackPage]
      /\ \A p \in RamPages \ {info'} : bytes'[p] = bytes[p]
      /\ PagesOfType("LoaderData")' = PagesOfType("LoaderData") \cup {info'}
    BY <1>1, PoolFacts, Zenon
<1>4. Loaded = {} /\ Loaded' = {}
    <2>1. seg = 1 /\ seg' = 1
        BY <1>1, <1>2, Zenon
    <2> QED
        BY <2>1 DEF Loaded
<1>5. Allocated'
    BY <1>1, <1>2, Zenon DEF LoaderInv, Allocated, PoolPages, BeforeInfo, BeforeFile,
       BeforeKernel, WithMap
<1>6. Filled'
    BY <1>1, <1>3, <1>4, BootLoaderAssumption, Zenon DEF LoaderInv, Filled, BeforeFile, BeforeKernel
<1> QED
    BY <1>1, <1>2, <1>3, <1>4, <1>5, <1>6, Zenon DEF LoaderInv

LEMMA AllocateFileInv == ASSUME LoaderInv, AllocateFile PROVE LoaderInv'
<1>1. /\ pc = "file" /\ pc' = "read" /\ UNCHANGED <<info, seg, MemoryMap>>
      /\ file' \in RamPages /\ AllocatePool(file', "other")
    BY Zenon DEF AllocateFile, Goto
<1>2. file = NO_PAGE /\ MemoryMap = NO_PAGE /\ seg = 1
    BY <1>1, Zenon DEF LoaderInv, Allocated, BeforeInfo, BeforeFile, BeforeKernel, WithMap
<1>3. /\ file' # NO_PAGE /\ file' # StackPage
      /\ mem' = [p \in RamPages |-> mem'[p]] /\ bytes' = [p \in RamPages |-> bytes'[p]]
      /\ mem'[StackPage] = mem[StackPage]
      /\ \A p \in RamPages \ {file'} : bytes'[p] = bytes[p]
      /\ PagesOfType("LoaderData")' = PagesOfType("LoaderData") \cup {file'}
    BY <1>1, PoolFacts, Zenon
<1>4. Loaded = {} /\ Loaded' = {}
    <2>1. seg = 1 /\ seg' = 1
        BY <1>1, <1>2, Zenon
    <2> QED
        BY <2>1 DEF Loaded
<1>5. Allocated'
    BY <1>1, <1>2, <1>3, Zenon DEF LoaderInv, Allocated, PoolPages, BeforeInfo, BeforeFile,
       BeforeKernel, WithMap
<1>6. Filled'
    BY <1>1, <1>3, <1>4, BootLoaderAssumption, Zenon DEF LoaderInv, Filled, BeforeKernel
<1> QED
    BY <1>1, <1>2, <1>3, <1>4, <1>5, <1>6, Zenon DEF LoaderInv

LEMMA ReadFileInv == ASSUME LoaderInv, ReadFile PROVE LoaderInv'
<1>1. /\ pc = "read" /\ pc' = "segments" /\ UNCHANGED <<mem, info, file, seg, MemoryMap>>
      /\ bytes' = [bytes EXCEPT ![file] = "elf"]
    BY Zenon DEF ReadFile, Goto
<1>2. file \in RamPages /\ file # NO_PAGE /\ seg = 1
    BY <1>1, Zenon DEF LoaderInv, Allocated, PoolPages, BeforeInfo, BeforeFile, BeforeKernel
<1>3. file # StackPage
    BY <1>2, Zenon DEF LoaderInv, Filled, PagesOfType
<1>4. Loaded = {} /\ Loaded' = {}
    <2>1. seg = 1 /\ seg' = 1
        BY <1>1, <1>2, Zenon
    <2> QED
        BY <2>1 DEF Loaded
<1>5. PagesOfType("LoaderData")' = PagesOfType("LoaderData")
    BY <1>1, Zenon DEF PagesOfType
<1>6. /\ bytes' = [p \in RamPages |-> bytes'[p]]
      /\ \A p \in RamPages : bytes'[p] = IF p = file THEN "elf" ELSE bytes[p]
    BY <1>1, Zenon DEF LoaderInv
<1>7. Len(KernelSegments) \in Nat /\ StackPage \in RamPages
    BY BootLoaderAssumption
<1>8. Allocated'
    BY <1>1, <1>2, <1>7, Zenon DEF LoaderInv, Allocated, PoolPages, BeforeInfo, BeforeFile,
       BeforeKernel, WithMap
<1>9. Filled'
    BY <1>1, <1>2, <1>3, <1>4, <1>6, <1>7, Zenon DEF LoaderInv, Filled
<1> QED
    BY <1>1, <1>4, <1>5, <1>6, <1>8, <1>9, Zenon DEF LoaderInv

LEMMA LoadSegmentInv == ASSUME LoaderInv, LoadSegment PROVE LoaderInv'
<1> DEFINE S == KernelSegments[seg]
<1>1. /\ pc = "segments" /\ UNCHANGED <<pc, info, file, MemoryMap>> /\ seg' = seg + 1
      /\ seg <= Len(KernelSegments) /\ S \subseteq PagesOfType("Conventional")
      /\ Retype(S, "LoaderData", IF bytes[file] = "elf" THEN "kernel" ELSE "other")
    BY Zenon DEF LoadSegment
<1>2. /\ bytes[file] = "elf" /\ file \in RamPages /\ file # NO_PAGE /\ MemoryMap = NO_PAGE
      /\ seg \in Nat \ {0} /\ Len(KernelSegments) \in Nat
    BY <1>1, BootLoaderAssumption DEF LoaderInv, Filled, Allocated, PoolPages, BeforeInfo,
       BeforeFile, BeforeKernel, WithMap
<1>3. S \in SUBSET RamPages /\ StackPage \notin S
    BY <1>1, <1>2, SegmentsInMemory
<1>4. S \cap PagesOfType("LoaderData") = {}
    BY <1>1, Zenon DEF PagesOfType
<1> HIDE DEF S
<1>5. /\ mem' = [p \in RamPages |-> mem'[p]] /\ bytes' = [p \in RamPages |-> bytes'[p]]
      /\ \A p \in RamPages : mem'[p] = IF p \in S THEN "LoaderData" ELSE mem[p]
      /\ \A p \in RamPages : bytes'[p] = IF p \in S THEN "kernel" ELSE bytes[p]
      /\ PagesOfType("LoaderData")' = PagesOfType("LoaderData") \cup S
    BY <1>1, <1>2, <1>3, RetypeFacts, Zenon
<1>6. Loaded' = Loaded \cup S
    <2>1. \A i : i \in 1 .. seg' - 1 <=> i \in 1 .. seg - 1 \/ i = seg
        BY <1>1, <1>2
    <2> QED
        BY <2>1, Zenon DEF Loaded, S
<1>7. Allocated'
    BY <1>1, <1>2 DEF LoaderInv, Allocated, BeforeInfo, BeforeFile, BeforeKernel, WithMap
<1>8. Filled'
    <2>1. Loaded \subseteq RamPages /\ StackPage \in RamPages
        BY LoadedInMemory, BootLoaderAssumption, Zenon DEF LoaderInv
    <2>2. \A p \in Loaded' : bytes'[p] = "kernel"
        BY <1>3, <1>5, <1>6, <2>1, Zenon DEF LoaderInv, Filled
    <2>3. mem'[StackPage] = "BootServicesData" /\ bytes'[StackPage] = "boot_info"
        BY <1>3, <1>5, <2>1, Zenon DEF LoaderInv, Filled
    <2>4. file \notin S
        BY <1>2, <1>4, Zenon DEF LoaderInv
    <2>5. bytes'[file] = "elf"
        BY <1>2, <1>5, <2>4, Zenon
    <2> QED
        BY <1>1, <2>2, <2>3, <2>5, Zenon DEF Filled
<1> QED
    BY <1>1, <1>2, <1>5, <1>6, <1>7, <1>8, Zenon DEF LoaderInv

LEMMA AllocateMapInv == ASSUME LoaderInv, AllocateMap, pc' # "hung" PROVE LoaderInv'
<1>1. /\ pc = "buffer" /\ pc' = "map" /\ UNCHANGED <<info, file, seg>>
      /\ MemoryMap' \in RamPages /\ AllocatePool(MemoryMap', "other")
    BY Zenon DEF AllocateMap, Goto
<1>2. /\ MemoryMap = NO_PAGE /\ file \in RamPages /\ file # NO_PAGE
      /\ bytes[file] = "elf"
    BY <1>1, Zenon DEF LoaderInv, Allocated, Filled, PoolPages, BeforeInfo, BeforeFile,
       BeforeKernel, WithMap
<1>3. /\ MemoryMap' # NO_PAGE /\ MemoryMap' # StackPage
      /\ MemoryMap' \notin {info, file, MemoryMap} \cup Loaded
      /\ mem' = [p \in RamPages |-> mem'[p]] /\ bytes' = [p \in RamPages |-> bytes'[p]]
      /\ mem'[StackPage] = mem[StackPage]
      /\ \A p \in RamPages \ {MemoryMap'} : bytes'[p] = bytes[p]
      /\ PagesOfType("LoaderData")' = PagesOfType("LoaderData") \cup {MemoryMap'}
    BY <1>1, PoolFacts, Zenon
<1>4. Loaded' = Loaded
    BY <1>1, Zenon DEF Loaded
<1>5. Allocated'
    BY <1>1, <1>3, Zenon DEF LoaderInv, Allocated, PoolPages, BeforeInfo, BeforeFile,
       BeforeKernel, WithMap
<1>6. Loaded \subseteq RamPages /\ StackPage \in RamPages
    BY LoadedInMemory, BootLoaderAssumption, Zenon DEF LoaderInv
<1>7. Filled'
    BY <1>1, <1>2, <1>3, <1>4, <1>6, Zenon DEF LoaderInv, Filled
<1> QED
    BY <1>1, <1>2, <1>3, <1>4, <1>5, <1>7, Zenon DEF LoaderInv

LEMMA GetMapInv == ASSUME LoaderInv, GetMap, pc' # "hung" PROVE LoaderInv'
<1>1. /\ pc = "map" /\ pc' = "exit" /\ UNCHANGED <<mem, info, file, seg, MemoryMap>>
      /\ bytes' = [bytes EXCEPT ![MemoryMap] = "map"]
    BY Zenon DEF GetMap, Goto
<1>2. /\ MemoryMap \in RamPages /\ MemoryMap # NO_PAGE
      /\ MemoryMap \notin {info, file} \cup Loaded
      /\ file \in RamPages /\ bytes[file] = "elf"
    BY <1>1, Zenon DEF LoaderInv, Allocated, Filled, PoolPages, BeforeInfo, BeforeFile,
       BeforeKernel, WithMap
<1>3. MemoryMap # StackPage
    BY <1>2, Zenon DEF LoaderInv, Filled, PagesOfType
<1>4. Loaded' = Loaded /\ PagesOfType("LoaderData")' = PagesOfType("LoaderData")
    BY <1>1, Zenon DEF Loaded, PagesOfType
<1>5. /\ bytes' = [p \in RamPages |-> bytes'[p]]
      /\ \A p \in RamPages : bytes'[p] = IF p = MemoryMap THEN "map" ELSE bytes[p]
    BY <1>1, Zenon DEF LoaderInv
<1>6. Allocated'
    BY <1>1, Zenon DEF LoaderInv, Allocated, BeforeInfo, BeforeFile, BeforeKernel, WithMap
<1>7. Loaded \subseteq RamPages /\ StackPage \in RamPages
    BY LoadedInMemory, BootLoaderAssumption, Zenon DEF LoaderInv
<1>8. Filled'
    BY <1>1, <1>2, <1>3, <1>4, <1>5, <1>7, Zenon DEF LoaderInv, Filled
<1> QED
    BY <1>1, <1>4, <1>5, <1>6, <1>8, Zenon DEF LoaderInv

LEMMA FreeMapInv == ASSUME LoaderInv, FreeMap PROVE LoaderInv'
<1>1. /\ pc = "free" /\ pc' = "size" /\ UNCHANGED <<info, file, seg>>
      /\ MemoryMap' = NO_PAGE /\ Retype({MemoryMap}, "Conventional", "other")
    BY Zenon DEF FreeMap, Goto
<1>2. /\ MemoryMap \in RamPages /\ MemoryMap # NO_PAGE
      /\ MemoryMap \notin {info, file} \cup Loaded
      /\ file \in RamPages /\ bytes[file] = "elf"
    BY <1>1, Zenon DEF LoaderInv, Allocated, Filled, PoolPages, BeforeInfo, BeforeFile,
       BeforeKernel, WithMap
<1>3. MemoryMap # StackPage
    BY <1>2, Zenon DEF LoaderInv, Filled, PagesOfType
<1>4. /\ mem' = [p \in RamPages |-> mem'[p]] /\ bytes' = [p \in RamPages |-> bytes'[p]]
      /\ \A p \in RamPages : mem'[p] = IF p \in {MemoryMap} THEN "Conventional" ELSE mem[p]
      /\ \A p \in RamPages : bytes'[p] = IF p \in {MemoryMap} THEN "other" ELSE bytes[p]
      /\ PagesOfType("LoaderData")' = PagesOfType("LoaderData") \ {MemoryMap}
    <2>1. mem' = [p \in RamPages |-> IF p \in {MemoryMap} THEN "Conventional" ELSE mem[p]]
        BY <1>1, Zenon DEF Retype
    <2>2. bytes' = [p \in RamPages |-> IF p \in {MemoryMap} THEN "other" ELSE bytes[p]]
        BY <1>1, Zenon DEF Retype
    <2>3. PagesOfType("LoaderData")' = PagesOfType("LoaderData") \ {MemoryMap}
        BY <2>1, Zenon DEF PagesOfType
    <2> QED
        BY <2>1, <2>2, <2>3, Zenon
<1>5. Loaded' = Loaded
    BY <1>1, Zenon DEF Loaded
<1>6. Allocated'
    BY <1>1, Zenon DEF LoaderInv, Allocated, PoolPages, BeforeInfo, BeforeFile, BeforeKernel, WithMap
<1>7. Loaded \subseteq RamPages /\ StackPage \in RamPages
    BY LoadedInMemory, BootLoaderAssumption, Zenon DEF LoaderInv
<1>8. Filled'
    BY <1>1, <1>2, <1>3, <1>4, <1>5, <1>7, Zenon DEF LoaderInv, Filled
<1>9. PagesOfType("LoaderData")' = ({info, file} \ {NO_PAGE}) \cup Loaded
    BY <1>2, <1>4, Zenon DEF LoaderInv
<1> QED
    BY <1>1, <1>4, <1>5, <1>6, <1>8, <1>9, Zenon DEF LoaderInv

\* The jump to the kernel: all segments are in place.
LEMMA JumpToKernel ==
    ASSUME LoaderInv, pc = "exit", bytes' = bytes PROVE KernelSurvives'
<1>1. KernelSegments \in Seq(SUBSET (RamPages \ {StackPage}))
    BY BootLoaderAssumption, Zenon
<1>2. seg = Len(KernelSegments) + 1 /\ Len(KernelSegments) \in Nat
        /\ DOMAIN KernelSegments = 1 .. Len(KernelSegments)
    BY <1>1 DEF LoaderInv, Allocated, BeforeInfo, BeforeFile, BeforeKernel
<1>3. seg - 1 = Len(KernelSegments)
    BY <1>2
<1>4. Union(KernelSegments) = Loaded
    BY <1>2, <1>3, Zenon DEF Union, Loaded
<1> QED
    BY <1>4, Zenon DEF KernelSurvives, LoaderInv, Filled

\* The boot loader's steps are those before the kernel is entered.
LEMMA LoaderLoads == ASSUME LoaderStep \/ FirmwareChanges PROVE Loading /\ pc' # "user"
<1> USE DEF Loading, Goto
<1>1. CASE Fails
    BY <1>1, Zenon DEF Fails
<1>2. CASE LocateKernel
    BY <1>2, Zenon DEF LocateKernel
<1>3. CASE AllocateInfo
    BY <1>3, Zenon DEF AllocateInfo
<1>4. CASE GetInfo
    BY <1>4, Zenon DEF GetInfo
<1>5. CASE AllocateFile
    BY <1>5, Zenon DEF AllocateFile
<1>6. CASE ReadFile
    BY <1>6, Zenon DEF ReadFile
<1>7. CASE LoadSegment
    BY <1>7, Zenon DEF LoadSegment
<1>8. CASE KernelLoaded
    BY <1>8, Zenon DEF KernelLoaded
<1>9. CASE GetMapSize
    BY <1>9, Zenon DEF GetMapSize
<1>10. CASE AllocateMap
    BY <1>10, Zenon DEF AllocateMap
<1>11. CASE GetMap
    BY <1>11, Zenon DEF GetMap
<1>12. CASE ExitBootServices
    BY <1>12, Zenon DEF ExitBootServices
<1>13. CASE FreeMap
    BY <1>13, Zenon DEF FreeMap
<1>14. CASE FirmwareChanges
    BY <1>14, Zenon DEF FirmwareChanges
<1> QED
    BY <1>1, <1>2, <1>3, <1>4, <1>5, <1>6, <1>7, <1>8, <1>9, <1>10, <1>11, <1>12, <1>13, <1>14, Zenon DEF LoaderStep

LEMMA LoaderStepInv ==
    ASSUME BootInv, LoaderStep \/ FirmwareChanges, useg' = useg PROVE BootInv'
<1>1. Loading
    BY LoaderLoads, Zenon
<1>2. LoaderInv
    BY <1>1, Zenon DEF BootInv
<1>3. ASSUME pc' \notin {"kernel", "user"} PROVE KernelSurvives'
    BY <1>3, Zenon DEF KernelSurvives
<1>4. CASE Fails
    BY <1>3, <1>4, Zenon DEF Fails, BootInv, Loading
<1>5. CASE LocateKernel \/ GetInfo \/ KernelLoaded \/ GetMapSize
    <2>1. UNCHANGED <<mem, bytes, info, file, seg, MemoryMap>> /\ pc' \notin {"kernel", "user"}
        BY <1>5, Zenon DEF LocateKernel, GetInfo, KernelLoaded, GetMapSize, NoMemoryChange, Goto
    <2> QED
        BY <1>1, <1>2, <1>3, <1>5, <2>1, QuietInv, Zenon DEF BootInv
<1>6. CASE FirmwareChanges
    <2>1. pc' \notin {"kernel", "user"}
        BY <1>1, <1>6, Zenon DEF FirmwareChanges, Loading
    <2> QED
        BY <1>2, <1>3, <1>6, <2>1, FirmwareInv, Zenon DEF BootInv
<1>7. CASE AllocateInfo
    BY <1>2, <1>3, <1>7, AllocateInfoInv, Zenon DEF BootInv, AllocateInfo, Goto
<1>8. CASE AllocateFile
    BY <1>2, <1>3, <1>8, AllocateFileInv, Zenon DEF BootInv, AllocateFile, Goto
<1>9. CASE ReadFile
    BY <1>2, <1>3, <1>9, ReadFileInv, Zenon DEF BootInv, ReadFile, Goto
<1>10. CASE LoadSegment
    BY <1>2, <1>3, <1>10, LoadSegmentInv, Zenon DEF BootInv, LoadSegment
<1>11. CASE AllocateMap
    <2>1. pc' \in {"map", "hung"}
        BY <1>11, Zenon DEF AllocateMap, Goto
    <2> QED
        BY <1>2, <1>3, <1>11, <2>1, AllocateMapInv, Zenon DEF BootInv, Loading
<1>12. CASE GetMap
    <2>1. pc' \in {"exit", "hung"}
        BY <1>12, Zenon DEF GetMap, Goto
    <2> QED
        BY <1>2, <1>3, <1>12, <2>1, GetMapInv, Zenon DEF BootInv, Loading
<1>13. CASE FreeMap
    BY <1>2, <1>3, <1>13, FreeMapInv, Zenon DEF BootInv, FreeMap, Goto
<1>14. CASE ExitBootServices
    <2>1. pc = "exit" /\ pc' \in {"kernel", "free"} /\ UNCHANGED <<mem, bytes>>
        BY <1>14, Zenon DEF ExitBootServices, Goto, NoMemoryChange
    <2>2. CASE pc' = "kernel"
        BY <1>2, <2>1, <2>2, JumpToKernel, Zenon DEF BootInv, Loading
    <2>3. CASE pc' = "free"
        <3>1. UNCHANGED <<mem, bytes, info, file, seg, MemoryMap>>
            BY <1>14, <2>3, Zenon DEF ExitBootServices, Goto, NoMemoryChange
        <3> QED
            BY <1>1, <1>2, <1>3, <1>14, <2>3, <3>1, QuietInv, Zenon DEF BootInv
    <2> QED
        BY <2>1, <2>2, <2>3, Zenon
<1> QED
    BY <1>4, <1>5, <1>6, <1>7, <1>8, <1>9, <1>10, <1>11, <1>12, <1>13, <1>14, Zenon DEF LoaderStep
-----------------------------------------------------------------------------
(* The kernel *)

\* The kernel's segments and its stack, which nothing may overwrite.
Precious == Union(KernelSegments) \cup {StackPage}

LEMMA PreciousInMemory == Precious \subseteq RamPages /\ Precious \cap HeapPages = {}
<1>1. KernelSegments \in Seq(SUBSET (RamPages \ {StackPage})) /\ StackPage \in RamPages
    BY BootLoaderAssumption, Zenon
<1>2. Precious \subseteq RamPages
    BY <1>1 DEF Precious, Union
<1>3. HeapPages \cap (ReservedPages \cup {StackPage} \cup Union(KernelSegments)) = {}
    BY KernelStartAssumption, Zenon
<1> QED
    BY <1>2, <1>3, Zenon DEF Precious

\* A segment that begins where load_userland_elf lets it.
LEMMA SegmentSpares ==
    ASSUME useg \in Nat \ {0}, useg <= Len(UserSegments), UserSegments[useg] \subseteq UserPages
    PROVE  UserSegments[useg] \subseteq RamPages /\ UserSegments[useg] \cap Precious = {}
<1>1. UserSegments \in Seq(SUBSET (RamPages \ (ReservedPages \cup {StackPage})))
    BY KernelStartAssumption, Zenon
<1>2. UserSegments[useg] \subseteq RamPages /\ StackPage \notin UserSegments[useg]
    BY <1>1
<1>3. USER_BASE \in Nat /\ \A p \in Union(KernelSegments) : p < USER_BASE
    BY KernelStartAssumption, Zenon
<1>4. \A p \in UserSegments[useg] : p \in Nat /\ p >= USER_BASE
    BY DEF UserPages, RamPages
<1>5. \A p \in Union(KernelSegments) : p \in Nat
    BY PreciousInMemory DEF Precious, RamPages
<1>6. UserSegments[useg] \cap Union(KernelSegments) = {}
    BY <1>3, <1>4, <1>5
<1> QED
    BY <1>2, <1>6, Zenon DEF Precious

LEMMA WriteSpares ==
    ASSUME NEW pages, pages \cap Precious = {},
           NEW content, Write(pages, content), NEW p \in Precious
    PROVE  bytes'[p] = bytes[p]
BY PreciousInMemory, Zenon DEF Write

LEMMA HeapWriteSpares ==
    ASSUME NEW pages, pages \subseteq HeapPages,
           NEW content, Write(pages, content), NEW p \in Precious
    PROVE  bytes'[p] = bytes[p]
<1>1. pages \cap Precious = {}
    BY PreciousInMemory, Zenon
<1> QED
    BY <1>1, WriteSpares, Zenon

\* The file in the buffer is as it was read until a segment is copied over it.
FileInv ==
    /\ Loading => stage = "start"
    /\ pc = "kernel" /\ stage = "segments" /\ ~clobbered => ~Spoiled

LEMMA FileInvStep == FileInv /\ [BootNext]_allVars => FileInv'
<1> SUFFICES ASSUME FileInv, [BootNext]_allVars PROVE FileInv'
    BY Zenon
<1>1. CASE LoaderRuns
    <2>1. Loading /\ UNCHANGED kernelVars
        BY <1>1, LoaderLoads, Zenon DEF LoaderRuns
    <2>2. stage' = "start"
        BY <2>1, Zenon DEF FileInv, kernelVars
    <2> QED
        BY <2>2, Zenon DEF FileInv
<1>2. CASE PagesUsed \/ ProcessorCaches \/ UNCHANGED allVars
    <2>1. UNCHANGED <<loaderVars, kernelVars>>
        BY <1>2, Zenon DEF PagesUsed, ProcessorCaches, allVars
    <2>2. UNCHANGED <<pc, bytes, stage, lent, clobbered>>
        BY <2>1, Zenon DEF loaderVars, kernelVars
    <2> QED
        BY <2>2, Zenon DEF FileInv, Spoiled, FilePages, Loading
<1>3. ASSUME pc' \in {"kernel", "halted", "user"},
             pc' = "kernel" /\ stage' = "segments" /\ ~clobbered' => ~Spoiled'
      PROVE  FileInv'
    BY <1>3, Zenon DEF FileInv, Loading
<1>4. CASE \/ InitPhysicalMemory \/ InitPaging \/ MemoryInit \/ DisplayFails \/ MapCapability
           \/ AllocateRing \/ AllocateFramebuffer \/ DisplayReady \/ AllFsInitialize
           \/ UserFileRefused \/ AllocateUserFile \/ UserFileFails \/ RestOfLoopSpoiled
           \/ LoaderFaults \/ UserLoaded \/ EnterUserMode
    <2>1. pc' \in {"kernel", "halted", "user"} /\ (pc' # "kernel" \/ stage' # "segments")
        BY <1>4, Zenon DEF InitPhysicalMemory, InitPaging, MemoryInit, DisplayFails, MapCapability,
           AllocateRing, AllocateFramebuffer, DisplayReady, AllFsInitialize, UserFileRefused,
           AllocateUserFile, UserFileFails, RestOfLoopSpoiled, LoaderFaults, UserLoaded,
           EnterUserMode, In, Return, To, Halt
    <2> QED
        BY <1>3, <2>1, Zenon
<1>5. CASE ReadUserFile
    <2>1. pc' = "kernel" /\ lent' = lent /\ Write(FilePages, "user_elf")
        BY <1>5, Zenon DEF ReadUserFile, In, To
    <2>2. FilePages' = FilePages /\ FilePages \subseteq RamPages
        BY <2>1, KernelStartAssumption, Zenon DEF FilePages
    <2>3. ~Spoiled'
        BY <2>1, <2>2, Zenon DEF Spoiled, Write
    <2> QED
        BY <1>3, <2>1, <2>3, Zenon
<1>6. CASE LoadUserSegment
    <2>1. /\ pc = "kernel" /\ pc' = "kernel" /\ stage = "segments" /\ lent' = lent
          /\ clobbered' = (clobbered \/ UserSegments[useg] \cap FilePages # {})
          /\ \E content : Write(UserSegments[useg], content)
        BY <1>6, Zenon DEF LoadUserSegment, In, To
    <2>2. FilePages' = FilePages /\ FilePages \subseteq RamPages
        BY <2>1, KernelStartAssumption, Zenon DEF FilePages
    <2>3. ASSUME ~clobbered' PROVE ~Spoiled'
        <3>1. ~clobbered /\ UserSegments[useg] \cap FilePages = {}
            BY <2>1, <2>3, Zenon
        <3>2. \A p \in FilePages : bytes[p] = "user_elf" /\ p \notin UserSegments[useg]
            BY <2>1, <3>1, Zenon DEF FileInv, Spoiled
        <3> QED
            BY <2>1, <2>2, <3>2, Zenon DEF Spoiled, Write
    <2> QED
        BY <1>3, <2>1, <2>3, Zenon
<1> QED
    BY <1>1, <1>2, <1>4, <1>5, <1>6, Zenon DEF BootNext, KernelStep

LEMMA FileInvariant == BootSpec => []FileInv
<1>1. BootInit => FileInv
    BY DEF BootInit, LoaderInit, FileInv
<1> QED
    BY <1>1, FileInvStep, PTL DEF BootSpec

\* A step of the kernel writes to what it needs only after load_userland_elf has
\* overwritten the file it reads.
LEMMA KernelStepSpares ==
    ASSUME KernelSurvives, FileInv, useg \in Nat \ {0}, KernelStep
    PROVE  /\ pc = "kernel" /\ pc' \in {"kernel", "user", "halted"}
           /\ ~clobbered' => ~clobbered /\ \A p \in Precious : bytes'[p] = bytes[p]
<1>1. CASE InitPhysicalMemory
    <2>1. /\ pc = "kernel" /\ pc' = "kernel" /\ clobbered' = clobbered
          /\ bytes' = [p \in RamPages |->
                          IF bytes[p] \in {"kernel", "boot_info", "heap"}
                            THEN bytes[p] ELSE "other"]
        BY <1>1, Zenon DEF InitPhysicalMemory, In, Return
    <2>2. ~clobbered =>
            \A p \in Precious : p \in RamPages /\ bytes[p] \in {"kernel", "boot_info"}
        BY <2>1, PreciousInMemory, Zenon DEF KernelSurvives, Precious
    <2> QED
        BY <2>1, <2>2, Zenon
<1>2. CASE InitPaging \/ DisplayFails \/ MapCapability \/ DisplayReady \/ AllFsInitialize
           \/ UserFileRefused \/ LoaderFaults \/ EnterUserMode
    <2>1. /\ pc = "kernel" /\ pc' \in {"kernel", "user", "halted"}
          /\ UNCHANGED <<bytes, clobbered>>
        BY <1>2, Zenon DEF InitPaging, DisplayFails, MapCapability, DisplayReady, AllFsInitialize,
           UserFileRefused, LoaderFaults, EnterUserMode, In, Return, To, Halt, kernelVars
    <2>2. ~clobbered' => ~clobbered /\ \A p \in Precious : bytes'[p] = bytes[p]
        BY <2>1
    <2> QED
        BY <2>1, <2>2, Zenon
<1>3. CASE MemoryInit
    <2>1. HeapStart \in HeapPages
        BY KernelStartAssumption, PageAllocatorAssumption DEF HeapPages
    <2>2. pc = "kernel" /\ pc' = "kernel" /\ clobbered' = clobbered
            /\ Write({HeapStart}, "heap") /\ {HeapStart} \subseteq HeapPages
        BY <1>3, <2>1, Zenon DEF MemoryInit, In, Return
    <2> QED
        BY <2>2, HeapWriteSpares, Zenon
<1>4. ASSUME NEW n, NEW owner, kmalloc(n, owner)
      PROVE  \A p \in Precious : bytes'[p] = bytes[p]
    BY <1>4, HeapWriteSpares, Zenon DEF kmalloc, Fresh, FreeHeap
<1>5. ASSUME NEW owner, kfree(owner) PROVE \A p \in Precious : bytes'[p] = bytes[p]
    BY <1>5, HeapWriteSpares, Zenon DEF kfree
<1>6. CASE AllocateRing \/ AllocateFramebuffer \/ AllocateUserFile
    <2>1. /\ pc = "kernel" /\ pc' = "kernel" /\ clobbered' = clobbered
          /\ \E n, owner : kmalloc(n, owner)
        BY <1>6, Zenon DEF AllocateRing, AllocateFramebuffer, AllocateUserFile, In, To
    <2> QED
        BY <1>4, <2>1, Zenon
<1>7. CASE ReadUserFile
    <2>1. pc = "kernel" /\ pc' = "kernel" /\ clobbered' = clobbered
            /\ Write(FilePages, "user_elf") /\ FilePages \subseteq HeapPages
        BY <1>7, Zenon DEF ReadUserFile, In, To, FilePages
    <2> QED
        BY <2>1, HeapWriteSpares, Zenon
<1>8. CASE UserFileFails \/ UserLoaded
    <2>1. /\ pc = "kernel" /\ pc' \in {"kernel", "halted"} /\ clobbered' = clobbered
          /\ kfree("file")
        BY <1>8, Zenon DEF UserFileFails, UserLoaded, In, Return, Halt
    <2> QED
        BY <1>5, <2>1, Zenon
<1>9. CASE LoadUserSegment
    <2>1. pc = "kernel" /\ pc' = "kernel" /\ useg <= Len(UserSegments)
            /\ UserSegments[useg] \subseteq UserPages /\ (~clobbered' => ~clobbered)
            /\ \E content : Write(UserSegments[useg], content)
        BY <1>9, Zenon DEF LoadUserSegment, In, To
    <2>2. UserSegments[useg] \cap Precious = {}
        BY <2>1, SegmentSpares, Zenon
    <2> QED
        BY <2>1, <2>2, WriteSpares, Zenon
<1>10. CASE RestOfLoopSpoiled
    <2>1. pc = "kernel" /\ pc' = "kernel" /\ stage = "segments" /\ Spoiled
            /\ clobbered' = clobbered
        BY <1>10, Zenon DEF RestOfLoopSpoiled, In, To
    <2> QED
        BY <2>1, Zenon DEF FileInv
<1> QED
    BY <1>1, <1>2, <1>3, <1>6, <1>7, <1>8, <1>9, <1>10, Zenon DEF KernelStep

LEMMA BootInvInit == BootInit => BootInv
BY LoaderInvInit DEF BootInit, LoaderInit, BootInv, KernelSurvives

LEMMA BootInvStep == FileInv /\ BootInv /\ [BootNext]_allVars => BootInv'
<1> SUFFICES ASSUME FileInv, BootInv, [BootNext]_allVars PROVE BootInv'
    BY Zenon
<1>1. CASE LoaderRuns
    BY <1>1, LoaderStepInv, Zenon DEF LoaderRuns, kernelVars
<1>2. CASE KernelStep
    <2>1. /\ pc = "kernel" /\ pc' \in {"kernel", "user", "halted"}
          /\ ~clobbered' => ~clobbered /\ \A p \in Precious : bytes'[p] = bytes[p]
        BY <1>2, KernelStepSpares, Zenon DEF BootInv
    <2>2. ~Loading'
        BY <2>1, Zenon DEF Loading
    <2>3. KernelSurvives'
        BY <2>1, Zenon DEF BootInv, KernelSurvives, Precious
    <2>4. useg' = useg \/ useg' = useg + 1
        BY <1>2, ZenonT(30) DEF KernelStep, InitPhysicalMemory, InitPaging, MemoryInit,
           DisplayFails, MapCapability, AllocateRing, AllocateFramebuffer, DisplayReady,
           AllFsInitialize, UserFileRefused, AllocateUserFile, ReadUserFile, UserFileFails,
           LoadUserSegment, RestOfLoopSpoiled, LoaderFaults, UserLoaded, EnterUserMode, kernelVars
    <2>5. useg' \in Nat \ {0}
        BY <2>4 DEF BootInv
    <2> QED
        BY <2>2, <2>3, <2>5, Zenon DEF BootInv
<1>3. CASE PagesUsed \/ ProcessorCaches \/ UNCHANGED allVars
    <2>1. UNCHANGED <<loaderVars, kernelVars>>
        BY <1>3, Zenon DEF PagesUsed, ProcessorCaches, allVars
    <2>2. UNCHANGED <<pc, mem, bytes, info, file, seg, MemoryMap, useg, clobbered>>
        BY <2>1, Zenon DEF loaderVars, loaderOnly, kernelVars
    <2>3. LoaderInv' = LoaderInv
        BY <2>2, Zenon DEF LoaderInv, Allocated, Filled, Loaded, PagesOfType
    <2> QED
        BY <2>2, <2>3, Zenon DEF BootInv, KernelSurvives, Loading
<1> QED
    BY <1>1, <1>2, <1>3, Zenon DEF BootNext

LEMMA BootInvariant == BootSpec => []BootInv
BY BootInvInit, BootInvStep, FileInvariant, PTL DEF BootSpec

\* However often the memory map changes and ExitBootServices is tried again, the
\* loader holds the file's buffers, the segments and one buffer for the map
\* (ExitBootServicesComplete).
THEOREM LoaderLeaksNothing == BootSpec => []RetriesLeakNothing
<1>1. BootInv => RetriesLeakNothing
    BY Zenon DEF BootInv, LoaderInv, RetriesLeakNothing, Loaded
<1> QED
    BY <1>1, BootInvariant, PTL

\* For every layout with the heap outside the kernel and its stack, and wherever
\* the user program is linked, the kernel's image and BootInfo survive the whole
\* start until load_userland_elf copies a segment over the file it reads
\* (kernel_main, load_userland_elf).
THEOREM KernelAlwaysSurvives == BootSpec => []KernelSurvives
<1>1. BootInv => KernelSurvives
    BY Zenon DEF BootInv
<1> QED
    BY <1>1, BootInvariant, PTL
-----------------------------------------------------------------------------
(* The memory map *)

\* The firmware's own pages, which no change of the map touches.
Reserving == \A p \in RamPages : mem[p] = "Reserved" <=> p \in ReservedPages

\* The descriptors that were counted or have been added since, each change with
\* two at most.
RoomFor(changed) == Descriptors + SLACK <= BufferSize + 2 * changed

\* The copy of the map is as good as its key is, and the buffer as large as the
\* changes since allow.
MapInv ==
    /\ key \in Nat /\ MapKey \in Nat /\ changes \in Nat /\ asked \in Nat /\ BufferSize \in Nat
    /\ Loading => MapKey <= key /\ asked <= changes /\ Reserving
    /\ pc = "exit" => bytes[MemoryMap] = "map" /\ (key = MapKey => map = mem)
    /\ pc = "buffer" => RoomFor(changes - asked)
    /\ pc = "map" => RoomFor(changes - asked + 1)
    /\ HangsOnlyForCause
    /\ pc = "kernel" /\ call = 1 =>
          MemoryMap # NO_PAGE /\ bytes[MemoryMap] = "map" /\ map = mem /\ Reserving

\* What the change of one page does to the number of descriptors, which
\* KernelStartProofs shows of every step.
FewDescriptors ==
    /\ Descriptors \in Nat
    /\ \A q \in RamPages : (\E type, content : Retype({q}, type, content)) =>
          Descriptors' \in Nat /\ Descriptors' <= Descriptors + 2

\* The room that is left after one change.
LEMMA RoomShrinks ==
    ASSUME FewDescriptors, NEW q \in RamPages, NEW type, NEW content,
           Retype({q}, type, content),
           BufferSize \in Nat, BufferSize' = BufferSize, NEW n \in Int, RoomFor(n)
    PROVE  Descriptors' + SLACK <= BufferSize' + 2 * (n + 1)
<1>1. PICK d \in Nat : d = Descriptors
    BY Zenon DEF FewDescriptors
<1>2. PICK e \in Nat : e = Descriptors' /\ e <= d + 2
    BY <1>1, Zenon DEF FewDescriptors
<1>3. PICK size \in Nat : size = BufferSize
    BY Zenon
<1>4. d + SLACK <= size + 2 * n
    BY <1>1, <1>3, Zenon DEF RoomFor
<1>5. SLACK \in Nat /\ 2 * (n + 1) = 2 * n + 2 /\ 2 * n \in Int
    BY BootLoaderAssumption
<1>6. e <= d + 2
    BY <1>2, Zenon
<1>7. e + SLACK <= size + 2 * (n + 1)
    BY <1>4, <1>5, <1>6
<1> QED
    BY <1>2, <1>3, <1>7, Zenon

LEMMA ReservingStays ==
    ASSUME Reserving, NEW pages \in SUBSET RamPages, NEW type, NEW content,
           Retype(pages, type, content), type # "Reserved",
           \A p \in pages : mem[p] # "Reserved"
    PROVE  Reserving'
BY Zenon DEF Reserving, Retype

LEMMA MapInvInit == BootInit => MapInv
<1> SUFFICES ASSUME BootInit PROVE MapInv
    BY Zenon
<1>1. StackPage \notin ReservedPages
    BY BootLoaderAssumption, Zenon
<1>2. Reserving
    BY <1>1, Zenon DEF BootInit, LoaderInit, Reserving
<1> QED
    BY <1>2 DEF BootInit, LoaderInit, MapInv, HangsOnlyForCause

\* What MapInv says of a state of the loader.
LEMMA MapNumbers ==
    ASSUME MapInv, Loading
    PROVE  /\ key \in Nat /\ MapKey \in Nat /\ changes \in Nat /\ asked \in Nat
           /\ BufferSize \in Nat /\ MapKey <= key /\ asked <= changes /\ Reserving
BY Zenon DEF MapInv

\* What is to be shown of a step after which the loader goes on.
LEMMA MapGoesOn ==
    ASSUME key' \in Nat, MapKey' \in Nat, changes' \in Nat, asked' \in Nat,
           BufferSize' \in Nat, MapKey' <= key', asked' <= changes', Reserving',
           pc' \notin {"hung", "kernel"},
           pc' = "exit" => bytes'[MemoryMap'] = "map" /\ (key' = MapKey' => map' = mem'),
           pc' = "buffer" => RoomFor(changes - asked)',
           pc' = "map" => RoomFor(changes - asked + 1)'
    PROVE  MapInv'
BY Zenon DEF MapInv, HangsOnlyForCause

LEMMA ReservingUnchanged ==
    ASSUME Reserving, mem' = mem PROVE Reserving'
BY Zenon DEF Reserving

\* The map in steps of the loader that leave memory alone, or end it.
LEMMA QuietMap ==
    ASSUME MapInv, LoaderInv, FewDescriptors, call' = call,
           \/ Fails \/ LocateKernel \/ GetInfo \/ KernelLoaded \/ GetMapSize
           \/ ReadFile \/ ExitBootServices
    PROVE  MapInv'
<1>1. Descriptors \in Nat /\ SLACK \in Nat /\ MAX_CHANGES \in Nat
    BY BootLoaderAssumption, Zenon DEF FewDescriptors
<1>2. CASE Fails \/ LocateKernel \/ GetInfo \/ KernelLoaded \/ ReadFile
    <2>1. /\ UNCHANGED <<mem, key, MapKey, changes, asked, BufferSize>> /\ Loading
          /\ pc' \in {"returned", "info", "file", "size", "segments"}
        BY <1>2, Zenon DEF Fails, LocateKernel, GetInfo, KernelLoaded, ReadFile, NoMemoryChange,
           Goto, Loading
    <2>2. Reserving'
        BY <2>1, MapNumbers, ReservingUnchanged, Zenon
    <2> QED
        BY <2>1, <2>2, MapNumbers, MapGoesOn, Zenon
<1>3. CASE GetMapSize
    <2>1. /\ UNCHANGED <<mem, key, MapKey, changes>> /\ Loading /\ pc' = "buffer"
          /\ asked' = changes /\ BufferSize' = Descriptors + SLACK
        BY <1>3, Zenon DEF GetMapSize, NoMemoryChange, Goto, Loading
    <2>2. Descriptors' = Descriptors
        BY <2>1, Zenon DEF Descriptors
    <2>3. RoomFor(changes - asked)'
        BY <1>1, <2>1, <2>2 DEF RoomFor, MapInv
    <2>4. Reserving' /\ changes <= changes
        BY <2>1, MapNumbers, ReservingUnchanged
    <2>5. BufferSize' \in Nat
        BY <1>1, <2>1
    <2> QED
        BY <2>1, <2>3, <2>4, <2>5, MapNumbers, MapGoesOn, Zenon
<1>4. CASE ExitBootServices
    <2>1. /\ UNCHANGED <<mem, bytes, MemoryMap, map>> /\ pc = "exit" /\ Loading
          /\ \/ pc' = "kernel" /\ key = MapKey /\ Forget
             \/ pc' = "free" /\ UNCHANGED <<key, MapKey, changes, asked, BufferSize>>
        BY <1>4, Zenon DEF ExitBootServices, NoMemoryChange, Goto, Loading
    <2>2. MemoryMap # NO_PAGE
        BY <2>1, Zenon DEF LoaderInv, Allocated, WithMap
    <2>3. Reserving' /\ bytes[MemoryMap] = "map" /\ (key = MapKey => map = mem)
        <3>1. Reserving'
            BY <2>1, MapNumbers, ReservingUnchanged, Zenon
        <3> QED
            BY <2>1, <3>1, Zenon DEF MapInv
    <2>4. CASE pc' = "kernel"
        <3>1. Forget /\ key = MapKey
            BY <2>1, <2>4, Zenon
        <3>2. /\ key' \in Nat /\ MapKey' \in Nat /\ changes' \in Nat /\ asked' \in Nat
              /\ BufferSize' \in Nat
            BY <1>1, <3>1, Zenon DEF Forget
        <3>3. MemoryMap' # NO_PAGE /\ bytes'[MemoryMap'] = "map" /\ map' = mem'
            BY <2>1, <2>2, <2>3, <3>1, Zenon
        <3>4. ~Loading' /\ pc' \notin {"exit", "buffer", "map", "hung"}
            BY <2>4, Zenon DEF Loading
        <3> QED
            BY <2>3, <3>2, <3>3, <3>4, Zenon DEF MapInv, HangsOnlyForCause
    <2>5. CASE pc' = "free"
        <3>1. UNCHANGED <<key, MapKey, changes, asked, BufferSize>>
            BY <2>1, <2>5, Zenon
        <3> QED
            BY <2>1, <2>3, <2>5, <3>1, MapNumbers, MapGoesOn, Zenon
    <2> QED
        BY <2>1, <2>4, <2>5, Zenon
<1> QED
    BY <1>2, <1>3, <1>4, Zenon

\* The steps that change the map.
LEMMA ChangedMap ==
    ASSUME MapInv, LoaderInv, call' = call,
           AllocateInfo \/ AllocateFile \/ LoadSegment \/ FreeMap
    PROVE  MapInv'
<1>1. /\ UNCHANGED <<MapKey, changes, asked, BufferSize>> /\ Loading /\ key' = key + 1
      /\ pc' \in {"get_info", "read", "segments", "size"}
    BY Zenon DEF AllocateInfo, AllocateFile, LoadSegment, FreeMap, AllocatePool, Retype, Goto, Loading
<1>2. Reserving
    BY <1>1, MapNumbers, Zenon
<1>3. PICK pages, type, content :
        /\ pages \subseteq RamPages
        /\ Retype(pages, type, content) /\ type # "Reserved"
        /\ \A p \in pages : mem[p] # "Reserved"
    <2>1. CASE AllocateInfo \/ AllocateFile
        <3>1. PICK p \in RamPages : AllocatePool(p, "other")
            BY <2>1, Zenon DEF AllocateInfo, AllocateFile
        <3> QED
            BY <3>1 DEF AllocatePool, PagesOfType
    <2>2. CASE LoadSegment
        BY <2>2, Zenon DEF LoadSegment, PagesOfType
    <2>3. CASE FreeMap
        <3>1. pc = "free" /\ Retype({MemoryMap}, "Conventional", "other")
            BY <2>3, Zenon DEF FreeMap, Goto
        <3>2. MemoryMap \in RamPages /\ mem[MemoryMap] = "LoaderData"
            BY <3>1, Zenon DEF LoaderInv, Allocated, WithMap, PoolPages, PagesOfType
        <3> QED
            BY <3>1, <3>2
    <2> QED
        BY <2>1, <2>2, <2>3, Zenon
<1>4. Reserving'
    BY <1>2, <1>3, ReservingStays, Zenon
<1>5. key' \in Nat /\ MapKey' <= key'
    BY <1>1, MapNumbers
<1> QED
    BY <1>1, <1>4, <1>5, MapNumbers, MapGoesOn, Zenon

LEMMA AllocateMapMap ==
    ASSUME MapInv, LoaderInv, FewDescriptors, call' = call, AllocateMap PROVE MapInv'
<1>1. pc = "buffer" /\ Loading /\ UNCHANGED <<MapKey, changes, asked, BufferSize>>
    BY Zenon DEF AllocateMap, Goto, Loading
<1>2. CASE pc' = "hung"
    <2>1. PagesOfType("Conventional") = {} /\ UNCHANGED <<mem, key>>
        BY <1>1, <1>2, Zenon DEF AllocateMap, Goto, NoMemoryChange
    <2>2. HangsOnlyForCause'
        BY <2>1, Zenon DEF HangsOnlyForCause, PagesOfType
    <2> QED
        BY <1>1, <1>2, <2>1, <2>2, Zenon DEF MapInv, Loading
<1>3. CASE pc' # "hung"
    <2>1. PICK q \in RamPages : pc' = "map" /\ AllocatePool(q, "other")
        BY <1>3, Zenon DEF AllocateMap, Goto
    <2>2. Retype({q}, "LoaderData", "other") /\ mem[q] # "Reserved" /\ key' = key + 1
        BY <2>1, Zenon DEF AllocatePool, PagesOfType, Retype
    <2>3. Reserving'
        BY <1>1, <2>2, MapNumbers, ReservingStays
    <2>4. RoomFor(changes - asked + 1)'
        <3>1. SLACK \in Nat /\ changes \in Nat /\ asked \in Nat /\ BufferSize \in Nat
            BY <1>1, BootLoaderAssumption, MapNumbers, Zenon
        <3>2. ASSUME NEW n \in Int, RoomFor(n)
              PROVE  Descriptors' + SLACK <= BufferSize' + 2 * (n + 1)
            BY <1>1, <2>2, <3>1, <3>2, RoomShrinks, Zenon
        <3>3. changes' - asked' + 1 = (changes - asked) + 1 /\ changes - asked \in Int
            BY <1>1, <3>1
        <3> QED
            BY <1>1, <3>2, <3>3, Zenon DEF MapInv, RoomFor
    <2>5. key' \in Nat /\ MapKey' <= key'
        BY <1>1, <2>2, MapNumbers
    <2> QED
        BY <1>1, <2>1, <2>3, <2>4, <2>5, MapNumbers, MapGoesOn, Zenon
<1> QED
    BY <1>2, <1>3, Zenon

LEMMA GetMapMap ==
    ASSUME MapInv, LoaderInv, FewDescriptors, call' = call, GetMap PROVE MapInv'
<1>1. pc = "map" /\ Loading /\ UNCHANGED <<mem, key, changes, asked, MemoryMap>>
    BY Zenon DEF GetMap, Goto, Loading, NoMemoryChange
<1>2. Descriptors \in Nat /\ SLACK \in Nat
    BY BootLoaderAssumption, Zenon DEF FewDescriptors
<1>3. CASE pc' = "hung"
    <2>1. Descriptors > BufferSize /\ UNCHANGED <<BufferSize, MapKey>>
        BY <1>3, Zenon DEF GetMap, Goto
    <2>2. 2 * (changes - asked + 1) > SLACK
        BY <1>1, <1>2, <2>1 DEF MapInv, RoomFor
    <2> QED
        BY <1>1, <1>3, <2>1, <2>2, Zenon DEF MapInv, HangsOnlyForCause, Loading
<1>4. CASE pc' # "hung"
    <2>1. /\ pc' = "exit" /\ map' = mem /\ MapKey' = key /\ BufferSize' = Descriptors
          /\ bytes' = [bytes EXCEPT ![MemoryMap] = "map"]
        BY <1>4, Zenon DEF GetMap, Goto
    <2>2. MemoryMap \in RamPages
        BY <1>1, Zenon DEF LoaderInv, Allocated, WithMap, PoolPages
    <2>3. bytes'[MemoryMap] = "map"
        BY <2>1, <2>2, Zenon DEF LoaderInv
    <2>4. Reserving' /\ MapKey' <= key'
        BY <1>1, <2>1, MapNumbers, ReservingUnchanged
    <2>5. bytes'[MemoryMap'] = "map" /\ map' = mem'
        BY <1>1, <2>1, <2>3, Zenon
    <2> QED
        BY <1>1, <1>2, <2>1, <2>4, <2>5, MapNumbers, MapGoesOn, Zenon
<1> QED
    BY <1>3, <1>4, Zenon

LEMMA FirmwareMap ==
    ASSUME MapInv, LoaderInv, FewDescriptors, call' = call, FirmwareChanges PROVE MapInv'
<1>1. /\ Loading /\ UNCHANGED <<pc, BufferSize, MapKey, MemoryMap, map, asked>>
      /\ changes' = changes + 1
    BY Zenon DEF FirmwareChanges
<1>2. PICK q \in RamPages, type \in {"BootServicesData", "Conventional"} :
        /\ mem[q] \notin {"LoaderData", "Reserved"}
        /\ Retype({q}, type, "other")
    BY Zenon DEF FirmwareChanges, PagesOfType
<1>3. Reserving' /\ key' = key + 1
    <2>1. Reserving /\ {q} \in SUBSET RamPages /\ type # "Reserved"
            /\ \A p \in {q} : mem[p] # "Reserved"
        BY <1>1, <1>2, Zenon DEF MapInv
    <2>2. Reserving'
        BY <1>2, <2>1, ReservingStays, Zenon
    <2> QED
        BY <1>2, <2>2, Zenon DEF Retype
<1>4. SLACK \in Nat /\ changes \in Nat /\ asked \in Nat /\ BufferSize \in Nat
    BY BootLoaderAssumption, Zenon DEF MapInv
<1>5. ASSUME NEW n \in Int, RoomFor(n)
      PROVE  Descriptors' + SLACK <= BufferSize' + 2 * (n + 1)
    BY <1>1, <1>2, <1>4, <1>5, RoomShrinks, Zenon
<1>6. /\ pc = "buffer" => RoomFor(changes - asked)'
      /\ pc = "map" => RoomFor(changes - asked + 1)'
    <2>1. changes' - asked' = (changes - asked) + 1 /\ changes - asked \in Int
        BY <1>1, <1>4
    <2>2. changes' - asked' + 1 = (changes - asked + 1) + 1 /\ changes - asked + 1 \in Int
        BY <1>1, <1>4
    <2>3. pc = "buffer" => RoomFor(changes - asked)'
        BY <1>5, <2>1, Zenon DEF MapInv, RoomFor
    <2>4. pc = "map" => RoomFor(changes - asked + 1)'
        BY <1>5, <2>2, Zenon DEF MapInv, RoomFor
    <2> QED
        BY <2>3, <2>4, Zenon
<1>7. pc = "exit" => bytes'[MemoryMap] = "map" /\ key' # MapKey'
    <2> SUFFICES ASSUME pc = "exit" PROVE bytes'[MemoryMap] = "map" /\ key' # MapKey'
        BY Zenon
    <2>1. MemoryMap \in RamPages /\ mem[MemoryMap] = "LoaderData"
        BY Zenon DEF LoaderInv, Allocated, WithMap, PoolPages, PagesOfType
    <2>2. bytes'[MemoryMap] = bytes[MemoryMap]
        BY <1>2, <2>1, Zenon DEF Retype
    <2>3. key \in Nat /\ MapKey \in Nat /\ MapKey <= key /\ bytes[MemoryMap] = "map"
        BY <1>1, Zenon DEF MapInv
    <2>4. key' # MapKey'
        BY <1>1, <1>3, <2>3
    <2> QED
        BY <1>1, <2>2, <2>3, <2>4, Zenon
<1>8. pc \notin {"hung", "kernel"}
    BY <1>1, Zenon DEF Loading
<1>9. key' \in Nat /\ changes' \in Nat /\ MapKey' <= key' /\ asked' <= changes'
    BY <1>1, <1>3, MapNumbers
<1> QED
    BY <1>1, <1>3, <1>6, <1>7, <1>8, <1>9, MapNumbers, MapGoesOn, Zenon
=============================================================================
