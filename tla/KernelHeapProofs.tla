-------------------------- MODULE KernelHeapProofs --------------------------
(***************************************************************************)
(* Proofs about KernelHeap, for every heap size, header size, alignment    *)
(* and set of requests.  They cover kmalloc, kfree and kcalloc, and also   *)
(* krealloc as long as it does not absorb the block the hint points to.    *)
(***************************************************************************)
EXTENDS KernelHeap, TLAPS

\* ListTiles without the hint, for a set of blocks B and headers h.
Tiles(B, h) ==
    /\ B \subseteq Addr
    /\ h \in [Addr -> Header]
    /\ heap_start \in B
    /\ \A b \in B : h[b].next = NULL => b + SIZEOF_BLOCK + h[b].size = HEAP_BYTES
    /\ \A b \in B : h[b].next # NULL =>
          h[b].next \in B /\ h[b].next = b + SIZEOF_BLOCK + h[b].size
    /\ \A b, c \in B : b < c => b + SIZEOF_BLOCK + h[b].size <= c

\* A block of a heap that is tiled has a header of the right type and ends inside
\* the heap.
LEMMA BlocksInHeap ==
    ASSUME NEW B, NEW h, Tiles(B, h), NEW b \in B
    PROVE  /\ b \in Nat /\ h[b].size \in Nat /\ h[b].is_free \in BOOLEAN
           /\ h[b].next \in Addr \cup {NULL}
           /\ b + SIZEOF_BLOCK + h[b].size <= HEAP_BYTES
<1>1. h[b] \in Header /\ b \in Nat
  BY KernelHeapAssumption DEF Tiles, Addr
<1>2. CASE h[b].next = NULL
  BY <1>1, <1>2, KernelHeapAssumption DEF Tiles, Header
<1>3. CASE h[b].next # NULL
  <2>1. h[b].next \in Addr /\ h[b].next = b + SIZEOF_BLOCK + h[b].size
    BY <1>3, Zenon DEF Tiles
  <2> QED
    BY <1>1, <2>1, KernelHeapAssumption DEF Header, Addr
<1> QED
  BY <1>2, <1>3, Zenon

\* Two blocks of the list that are linked have no block in between, and no
\* block has two predecessors.
LEMMA LinkedAreNeighbours ==
    ASSUME NEW B, NEW h, Tiles(B, h), NEW b \in B, h[b].next # NULL
    PROVE  /\ h[b].next > b
           /\ \A c \in B : c > b => c >= h[b].next
           /\ \A c \in B : h[c].next = h[b].next => c = b
<1>1. h[b].next \in B /\ h[b].next = b + SIZEOF_BLOCK + h[b].size
  BY Zenon DEF Tiles
<1>2. h[b].next > b
  BY <1>1, BlocksInHeap, KernelHeapAssumption
<1>3. \A c \in B : c > b => c >= h[b].next
  BY <1>1, BlocksInHeap, KernelHeapAssumption, Zenon DEF Tiles
<1>4. ASSUME NEW c \in B, h[c].next = h[b].next PROVE c = b
  <2>1. h[c].next # NULL /\ h[c].next = c + SIZEOF_BLOCK + h[c].size
    BY <1>4, Zenon DEF Tiles
  <2>2. c \in Nat /\ b \in Nat /\ h[c].size \in Nat /\ h[b].size \in Nat
    BY BlocksInHeap, Zenon
  <2>3. ~(c < b) /\ ~(b < c)
    <3>1. c < b => h[c].next <= b
      BY <2>1, Zenon DEF Tiles
    <3>2. b < c => h[b].next <= c
      BY <1>1, Zenon DEF Tiles
    <3> QED
      BY <1>1, <1>4, <2>1, <2>2, <3>1, <3>2, KernelHeapAssumption
  <2> QED
    BY <2>2, <2>3
<1> QED
  BY <1>2, <1>3, <1>4, Zenon

\* Cutting a block in two.
LEMMA SplitKeepsTiles ==
    ASSUME NEW B, NEW h, Tiles(B, h), NEW b \in B, NEW size \in Nat,
           h[b].size >= size + SIZEOF_BLOCK + MIN_SPLIT_REMAINDER,
           NEW g \in [Addr -> Header],
           g[b].size = size,
           g[b].next = b + SIZEOF_BLOCK + size,
           g[b + SIZEOF_BLOCK + size].size = h[b].size - size - SIZEOF_BLOCK,
           g[b + SIZEOF_BLOCK + size].next = h[b].next,
           \A a \in B : a # b => g[a] = h[a]
    PROVE  /\ b + SIZEOF_BLOCK + size \in Addr \ B
           /\ Tiles(B \cup {b + SIZEOF_BLOCK + size}, g)
<1> DEFINE new == b + SIZEOF_BLOCK + size
<1>1. /\ b \in Nat /\ h[b].size \in Nat /\ b + SIZEOF_BLOCK + h[b].size <= HEAP_BYTES
  BY BlocksInHeap, Zenon
<1>2. /\ new \in Nat /\ b < new /\ new < b + SIZEOF_BLOCK + h[b].size
      /\ new + SIZEOF_BLOCK + g[new].size = b + SIZEOF_BLOCK + h[b].size
      /\ g[b].next = new /\ b + SIZEOF_BLOCK + g[b].size = new
  BY <1>1, KernelHeapAssumption
<1>3. new \in Addr
  BY <1>1, <1>2, KernelHeapAssumption DEF Addr
<1>4. g[new].next = h[b].next
  BY Zenon
<1> HIDE DEF new
<1>5. new \notin B
  <2>1. ASSUME new \in B PROVE FALSE
    <3>1. b + SIZEOF_BLOCK + h[b].size <= new
      BY <1>2, <2>1, Zenon DEF Tiles
    <3> QED
      BY <1>1, <1>2, <3>1, KernelHeapAssumption
  <2> QED
    BY <2>1, Zenon
<1>6. \A a \in B : a # b => g[a] = h[a] /\ a # new
  BY <1>5, Zenon
<1>7. \A c \in B \cup {new} : g[c].next = NULL =>
         c + SIZEOF_BLOCK + g[c].size = HEAP_BYTES
  <2>1. new # NULL
    BY <1>2 DEF NULL
  <2> QED
    BY <1>2, <1>4, <1>6, <2>1 DEF Tiles
<1>8. \A c \in B \cup {new} : g[c].next # NULL =>
         g[c].next \in B \cup {new} /\ g[c].next = c + SIZEOF_BLOCK + g[c].size
  BY <1>2, <1>4, <1>6 DEF Tiles
<1>9. ASSUME NEW c \in B \cup {new}, NEW d \in B \cup {new}, c < d
      PROVE  c + SIZEOF_BLOCK + g[c].size <= d
  <2>1. CASE c = b
    <3>1. d = new \/ (d \in B /\ b + SIZEOF_BLOCK + h[b].size <= d)
      BY <1>9, <2>1, Zenon DEF Tiles
    <3> QED
      BY <1>1, <1>2, <2>1, <3>1, BlocksInHeap, KernelHeapAssumption
  <2>2. CASE c = new
    <3>1. d \in B /\ b < d
      BY <1>1, <1>2, <1>9, <2>2, BlocksInHeap
    <3> QED
      BY <1>2, <2>2, <3>1, Zenon DEF Tiles
  <2>3. CASE c \in B /\ c # b
    <3>1. g[c] = h[c]
      BY <1>6, <2>3, Zenon
    <3>2. CASE d \in B
      BY <1>9, <2>3, <3>1, <3>2, Zenon DEF Tiles
    <3>3. CASE d = new
      <4>1. c < b
        <5>1. ~(b < c)
          <6>1. b < c => b + SIZEOF_BLOCK + h[b].size <= c
            BY <2>3, Zenon DEF Tiles
          <6> QED
            BY <1>1, <1>2, <1>9, <2>3, <3>3, <6>1, BlocksInHeap, KernelHeapAssumption
        <5> QED
          BY <1>1, <2>3, <5>1, BlocksInHeap
      <4>2. c + SIZEOF_BLOCK + h[c].size <= b
        BY <2>3, <4>1, Zenon DEF Tiles
      <4> QED
        BY <1>1, <1>2, <2>3, <3>1, <3>3, <4>2, BlocksInHeap, KernelHeapAssumption
    <3> QED
      BY <3>2, <3>3, Zenon
  <2> QED
    BY <2>1, <2>2, <2>3, Zenon
<1>10. Tiles(B \cup {new}, g)
  BY <1>3, <1>7, <1>8, <1>9, Zenon DEF Tiles
<1> QED
  BY <1>3, <1>5, <1>10, Zenon DEF new

\* Merging a block with the one behind it.
LEMMA AbsorbKeepsTiles ==
    ASSUME NEW B, NEW h, Tiles(B, h), NEW b \in B, h[b].next # NULL,
           NEW g \in [Addr -> Header],
           g[b].size = h[b].size + SIZEOF_BLOCK + h[h[b].next].size,
           g[b].next = h[h[b].next].next,
           \A a \in B : a # b /\ a # h[b].next => g[a] = h[a]
    PROVE  Tiles(B \ {h[b].next}, g)
<1> DEFINE n == h[b].next
<1>1. /\ n \in B /\ n = b + SIZEOF_BLOCK + h[b].size /\ n > b
      /\ b \in Nat /\ n \in Nat /\ h[b].size \in Nat /\ h[n].size \in Nat
  BY BlocksInHeap, LinkedAreNeighbours DEF Tiles
<1>2. b + SIZEOF_BLOCK + g[b].size = n + SIZEOF_BLOCK + h[n].size
  BY <1>1, KernelHeapAssumption
<1>3. g[b].next = h[n].next
  BY Zenon
<1>4. \A a \in B \ {n} : a # b => g[a] = h[a]
  BY Zenon
<1>5. \A a \in B \ {n} : a # b => h[a].next # n \/ h[a].next = NULL
  BY LinkedAreNeighbours
<1>6. n # heap_start
  BY <1>1 DEF heap_start
<1>7. h[n].next # n
  BY <1>1, LinkedAreNeighbours
<1> HIDE DEF n
<1>8. \A c \in B \ {n} : g[c].next = NULL =>
         c + SIZEOF_BLOCK + g[c].size = HEAP_BYTES
  BY <1>1, <1>2, <1>3, <1>4 DEF Tiles
<1>9. \A c \in B \ {n} : g[c].next # NULL =>
         g[c].next \in B \ {n} /\ g[c].next = c + SIZEOF_BLOCK + g[c].size
  BY <1>1, <1>2, <1>3, <1>4, <1>5, <1>7 DEF Tiles
<1>10. ASSUME NEW c \in B \ {n}, NEW d \in B \ {n}, c < d
       PROVE  c + SIZEOF_BLOCK + g[c].size <= d
  <2>1. CASE c # b
    BY <1>4, <1>10, <2>1, Zenon DEF Tiles
  <2>2. CASE c = b
    <3>1. n < d
      <4>1. n <= d
        BY <1>1, <1>10, <2>2, Zenon DEF Tiles
      <4> QED
        BY <1>1, <4>1, BlocksInHeap
    <3>2. n + SIZEOF_BLOCK + h[n].size <= d
      BY <1>1, <3>1, Zenon DEF Tiles
    <3> QED
      BY <1>2, <2>2, <3>2, Zenon
  <2> QED
    BY <2>1, <2>2, Zenon
<1>11. Tiles(B \ {n}, g)
  BY <1>6, <1>8, <1>9, <1>10, Zenon DEF Tiles
<1> QED
  BY <1>11, Zenon DEF n

-----------------------------------------------------------------------------
(* The operators on the heap record *)

HeapType ==
    [blocks : SUBSET Addr, hdr : [Addr -> Header], hint : Addr,
     total_allocated : 0 .. UINT32_MOD - 1, total_freed : 0 .. UINT32_MOD - 1]

\* split_block_if_needed changes block b and at most adds a free block behind
\* it; b keeps at least the size asked for if it had it.
SplitOutcome(hp, b, size, s) ==
    /\ s \in HeapType
    /\ Tiles(s.blocks, s.hdr)
    /\ s.hint = hp.hint
    /\ hp.blocks \subseteq s.blocks
    /\ s.hdr[b].is_free = hp.hdr[b].is_free
    /\ hp.hdr[b].size >= size => s.hdr[b].size >= size
    /\ \A c \in hp.blocks : c # b => s.hdr[c] = hp.hdr[c]
    /\ \A c \in s.blocks \ hp.blocks :
          s.hdr[c].is_free /\ s.hdr[c].next = hp.hdr[b].next
    /\ s.hdr[b].next = hp.hdr[b].next \/ s.hdr[b].next \in s.blocks \ hp.blocks
    /\ \A a \in Addr : a \notin s.blocks => s.hdr[a] = hp.hdr[a]
    /\ s.total_allocated = hp.total_allocated /\ s.total_freed = hp.total_freed

LEMMA SplitFacts ==
    ASSUME NEW hp \in HeapType, Tiles(hp.blocks, hp.hdr), NEW b \in hp.blocks,
           NEW size \in Nat, NEW s, s = split_block_if_needed(hp, b, size)
    PROVE  SplitOutcome(hp, b, size, s)
<1> DEFINE new == b + SIZEOF_BLOCK + size
<1>1. CASE ~(hp.hdr[b].size >= size + SIZEOF_BLOCK + MIN_SPLIT_REMAINDER)
  BY <1>1, Zenon DEF split_block_if_needed, SplitOutcome
<1>2. CASE hp.hdr[b].size >= size + SIZEOF_BLOCK + MIN_SPLIT_REMAINDER
  <2>1. /\ b \in Addr /\ b \in Nat /\ hp.hdr[b].size \in Nat
        /\ hp.hdr[b].is_free \in BOOLEAN /\ hp.hdr[b].next \in Addr \cup {NULL}
        /\ b + SIZEOF_BLOCK + hp.hdr[b].size <= HEAP_BYTES
    BY BlocksInHeap, Zenon DEF Tiles
  <2>2. new \in Addr /\ new # b
    BY <1>2, <2>1, KernelHeapAssumption DEF Addr
  <2> DEFINE rest == [size |-> hp.hdr[b].size - size - SIZEOF_BLOCK,
                      is_free |-> TRUE, next |-> hp.hdr[b].next]
             kept == [size |-> size, is_free |-> hp.hdr[b].is_free, next |-> new]
             g == [hp.hdr EXCEPT ![new] = rest, ![b] = kept]
  <2>3. rest \in Header /\ kept \in Header
    BY <1>2, <2>1, <2>2, KernelHeapAssumption DEF Header
  <2>4. /\ s.blocks = hp.blocks \cup {new} /\ s.hdr = g /\ s.hint = hp.hint
        /\ s.total_allocated = hp.total_allocated /\ s.total_freed = hp.total_freed
        /\ s = [blocks |-> s.blocks, hdr |-> s.hdr, hint |-> s.hint,
                total_allocated |-> s.total_allocated, total_freed |-> s.total_freed]
    BY <1>2, Zenon DEF split_block_if_needed, HeapType
  <2>5. /\ g \in [Addr -> Header]
        /\ g[b] = kept /\ g[new] = rest
        /\ \A c \in Addr : c # b /\ c # new => g[c] = hp.hdr[c]
    BY <2>1, <2>2, <2>3, Zenon DEF Tiles
  <2>6. /\ g[b].size = size /\ g[b].next = new
        /\ g[b].is_free = hp.hdr[b].is_free
        /\ g[new].size = hp.hdr[b].size - size - SIZEOF_BLOCK
        /\ g[new].next = hp.hdr[b].next /\ g[new].is_free
    BY <2>5
  <2> HIDE DEF g, rest, kept
  <2>7. new \notin hp.blocks
    <3>1. new > b /\ new < b + SIZEOF_BLOCK + hp.hdr[b].size
      BY <1>2, <2>1, KernelHeapAssumption
    <3>2. new \in hp.blocks => b + SIZEOF_BLOCK + hp.hdr[b].size <= new
      BY <3>1, Zenon DEF Tiles
    <3> QED
      BY <1>2, <2>1, <3>1, <3>2, KernelHeapAssumption
  <2>8. \A c \in hp.blocks : c # b => g[c] = hp.hdr[c]
    BY <2>5, <2>7, Zenon DEF Tiles
  <2>9. Tiles(hp.blocks \cup {new}, g)
    BY <1>2, <2>5, <2>6, <2>8, SplitKeepsTiles
  <2>10. s \in HeapType
    <3>1. s.blocks \in SUBSET Addr /\ s.hdr \in [Addr -> Header]
      BY <2>4, <2>9, Zenon DEF Tiles
    <3>2. /\ s.hint \in Addr /\ s.total_allocated \in 0 .. UINT32_MOD - 1
          /\ s.total_freed \in 0 .. UINT32_MOD - 1
      BY <2>4, Zenon DEF HeapType
    <3> QED
      BY <2>4, <3>1, <3>2, Zenon DEF HeapType
  <2>11. s.hdr[b].size >= size
    BY <2>4, <2>6
  <2> HIDE DEF new
  <2>12. \A a \in Addr : a \notin s.blocks => s.hdr[a] = hp.hdr[a]
    BY <2>4, <2>5, Zenon
  <2> QED
    BY <2>4, <2>6, <2>7, <2>8, <2>9, <2>10, <2>11, <2>12, Zenon DEF SplitOutcome
<1> QED
  BY <1>1, <1>2, Zenon

\* Absorbing the block behind a block (kfree, krealloc) keeps the heap tiled and
\* every other header as it is.
AbsorbOutcome(hp, b, n, s) ==
    /\ s \in HeapType
    /\ Tiles(s.blocks, s.hdr)
    /\ s.hint = hp.hint
    /\ n \in hp.blocks /\ n > b /\ n # b
    /\ s.blocks = hp.blocks \ {n}
    /\ s.hdr[b].size = hp.hdr[b].size + SIZEOF_BLOCK + hp.hdr[n].size
    /\ s.hdr[b].is_free = hp.hdr[b].is_free
    /\ s.hdr[b].next = hp.hdr[n].next
    /\ \A c \in s.blocks : c # b => s.hdr[c] = hp.hdr[c]
    /\ \A a \in Addr : a \notin hp.blocks => s.hdr[a] = hp.hdr[a]
    /\ n # hp.hint => s.hdr[n] = Blank
    /\ s.total_allocated = hp.total_allocated /\ s.total_freed = hp.total_freed

LEMMA AbsorbFacts ==
    ASSUME NEW hp \in HeapType, Tiles(hp.blocks, hp.hdr), NEW b \in hp.blocks,
           NEW n, n = hp.hdr[b].next, n # NULL,
           NEW s, s = absorb_next(hp, b)
    PROVE  AbsorbOutcome(hp, b, n, s)
<1>1. /\ n \in hp.blocks /\ n > b /\ n \in Addr /\ b \in Addr
      /\ b \in Nat /\ n \in Nat /\ n # b
  BY LinkedAreNeighbours, BlocksInHeap DEF Tiles
<1>2. /\ hp.hdr[b].size \in Nat /\ hp.hdr[n].size \in Nat
      /\ hp.hdr[b].is_free \in BOOLEAN /\ hp.hdr[n].next \in Addr \cup {NULL}
      /\ hp.hdr[n] \in Header
  BY <1>1, BlocksInHeap DEF Tiles
<1> DEFINE whole == [size |-> hp.hdr[b].size + SIZEOF_BLOCK + hp.hdr[n].size,
                     is_free |-> hp.hdr[b].is_free, next |-> hp.hdr[n].next]
           stale == IF n = hp.hint THEN hp.hdr[n] ELSE Blank
           g == [hp.hdr EXCEPT ![b] = whole, ![n] = stale]
<1>3. whole \in Header
  BY <1>2, KernelHeapAssumption DEF Header
<1>4. stale \in Header
  BY <1>2, Zenon DEF Header, Blank
<1>5. /\ s.blocks = hp.blocks \ {n} /\ s.hdr = g /\ s.hint = hp.hint
      /\ s.total_allocated = hp.total_allocated /\ s.total_freed = hp.total_freed
      /\ s = [blocks |-> s.blocks, hdr |-> s.hdr, hint |-> s.hint,
              total_allocated |-> s.total_allocated, total_freed |-> s.total_freed]
  BY Zenon DEF absorb_next, HeapType
<1> HIDE DEF stale
<1>6. /\ g \in [Addr -> Header] /\ g[b] = whole /\ g[n] = stale
      /\ \A a \in Addr : a # b /\ a # n => g[a] = hp.hdr[a]
  BY <1>1, <1>3, <1>4, Zenon DEF Tiles
<1> HIDE DEF g
<1>7. /\ g[b].size = hp.hdr[b].size + SIZEOF_BLOCK + hp.hdr[n].size
      /\ g[b].is_free = hp.hdr[b].is_free
      /\ g[b].next = hp.hdr[n].next
  <2>1. g[b] = whole
    BY <1>6, Zenon
  <2> QED
    BY <2>1
<1>8. Tiles(hp.blocks \ {n}, g)
  <2>1. \A a \in hp.blocks : a # b /\ a # n => g[a] = hp.hdr[a]
    BY <1>6, Zenon DEF Tiles
  <2> QED
    BY <1>6, <1>7, <2>1, AbsorbKeepsTiles
<1>9. s \in HeapType
  <2>1. s.blocks \in SUBSET Addr /\ s.hdr \in [Addr -> Header]
    BY <1>5, <1>8, Zenon DEF Tiles
  <2>2. /\ s.hint \in Addr /\ s.total_allocated \in 0 .. UINT32_MOD - 1
        /\ s.total_freed \in 0 .. UINT32_MOD - 1
    BY <1>5, Zenon DEF HeapType
  <2> QED
    BY <1>5, <2>1, <2>2, Zenon DEF HeapType
<1>10. n # hp.hint => s.hdr[n] = Blank
  BY <1>5, <1>6, Zenon DEF stale
<1>11. /\ \A a \in Addr : a \notin hp.blocks => s.hdr[a] = hp.hdr[a]
       /\ \A c \in s.blocks : c # b => s.hdr[c] = hp.hdr[c]
  BY <1>1, <1>5, <1>6, <1>8 DEF Tiles
<1> QED
  BY <1>1, <1>5, <1>7, <1>8, <1>9, <1>10, <1>11, Zenon DEF AbsorbOutcome

\* Changing is_free alone keeps the heap tiled.
LEMMA FlagKeepsTiles ==
    ASSUME NEW B, NEW h, Tiles(B, h), NEW g \in [Addr -> Header],
           \A a \in B : g[a].size = h[a].size /\ g[a].next = h[a].next
    PROVE  Tiles(B, g)
BY Zenon DEF Tiles

\* No header is left behind where a block was merged into another one.
Unlisted(hp) == \A a \in Addr : a \notin hp.blocks => hp.hdr[a] = Blank

HeapOK(hp) ==
    /\ hp \in HeapType
    /\ Tiles(hp.blocks, hp.hdr)
    /\ hp.hint \in hp.blocks
    /\ Unlisted(hp)

\* NoAdjacentFree for a heap record.
NoFreePair(hp) ==
    \A b \in hp.blocks :
        hp.hdr[b].is_free /\ hp.hdr[b].next # NULL
            => ~hp.hdr[hp.hdr[b].next].is_free

\* What kmalloc_locked does to the heap: the block found is used and large enough,
\* new blocks are free and the others are left alone.
MallocOutcome(hp, b, size, k) ==
    /\ HeapOK(k)
    /\ hp.blocks \subseteq k.blocks
    /\ ~k.hdr[b].is_free /\ k.hdr[b].size >= size
    /\ \A c \in hp.blocks : c # b => k.hdr[c] = hp.hdr[c]
    /\ \A c \in k.blocks \ hp.blocks : k.hdr[c].is_free
    /\ k.total_allocated = (hp.total_allocated + k.hdr[b].size) % UINT32_MOD
    /\ k.total_freed = hp.total_freed
    /\ NoFreePair(hp) => NoFreePair(k)

LEMMA MallocFacts ==
    ASSUME NEW hp, HeapOK(hp), NEW b \in hp.blocks, NEW size \in Nat,
           Fits(hp, b, size), NEW k, k = kmalloc_locked(hp, b, size)
    PROVE  MallocOutcome(hp, b, size, k)
<1>0. PICK s : s = split_block_if_needed(hp, b, size)
  BY Zenon
<1>1. /\ s \in HeapType /\ Tiles(s.blocks, s.hdr) /\ s.hint = hp.hint
      /\ hp.blocks \subseteq s.blocks
      /\ s.hdr[b].size >= size
      /\ \A c \in hp.blocks : c # b => s.hdr[c] = hp.hdr[c]
      /\ \A c \in s.blocks \ hp.blocks :
            s.hdr[c].is_free /\ s.hdr[c].next = hp.hdr[b].next
      /\ s.hdr[b].next = hp.hdr[b].next \/ s.hdr[b].next \in s.blocks \ hp.blocks
      /\ \A a \in Addr : a \notin s.blocks => s.hdr[a] = hp.hdr[a]
      /\ s.total_allocated = hp.total_allocated /\ s.total_freed = hp.total_freed
  <2>1. SplitOutcome(hp, b, size, s)
    BY <1>0, SplitFacts, Zenon DEF HeapOK
  <2>2. hp.hdr[b].size >= size
    BY Zenon DEF Fits
  <2> QED
    BY <2>1, <2>2, Zenon DEF SplitOutcome
<1> DEFINE block == [size |-> s.hdr[b].size, is_free |-> FALSE, next |-> s.hdr[b].next]
           g == [s.hdr EXCEPT ![b] = block]
<1>2. k = [s EXCEPT
             !.hdr = g,
             !.total_allocated = (s.total_allocated + s.hdr[b].size) % UINT32_MOD,
             !.hint = IF s.hdr[b].next # NULL THEN s.hdr[b].next ELSE heap_start]
  BY <1>0, <1>1, Zenon DEF kmalloc_locked
<1>3. /\ b \in s.blocks /\ b \in Addr /\ s.hdr[b].size \in Nat
      /\ s.hdr[b].next \in Addr \cup {NULL}
  BY <1>1, BlocksInHeap DEF Tiles
<1>4. block \in Header
  BY <1>3, Zenon DEF Header
<1>5. g \in [Addr -> Header] /\ g[b] = block /\ \A a \in Addr : a # b => g[a] = s.hdr[a]
  BY <1>1, <1>3, <1>4 DEF Tiles
<1>6. Tiles(s.blocks, g)
  <2>1. \A a \in s.blocks : g[a].size = s.hdr[a].size /\ g[a].next = s.hdr[a].next
    BY <1>1, <1>5, Zenon DEF Tiles
  <2> HIDE DEF g, block
  <2> QED
    BY <1>1, <1>5, <2>1, FlagKeepsTiles
<1>7. /\ k.blocks = s.blocks /\ k.hdr = g
      /\ k.hint = IF s.hdr[b].next # NULL THEN s.hdr[b].next ELSE heap_start
      /\ k.total_allocated = (s.total_allocated + s.hdr[b].size) % UINT32_MOD
      /\ k.total_freed = s.total_freed
      /\ k = [blocks |-> k.blocks, hdr |-> k.hdr, hint |-> k.hint,
              total_allocated |-> k.total_allocated, total_freed |-> k.total_freed]
  BY <1>1, <1>2, Zenon DEF HeapType
<1>8. g[b].is_free = FALSE /\ g[b].size = s.hdr[b].size /\ g[b].next = s.hdr[b].next
  BY <1>5
<1> HIDE DEF g, block
<1>9. k.hint \in k.blocks
  BY <1>1, <1>3, <1>7, Zenon DEF Tiles
<1>10. HeapOK(k)
  <2>1. k.blocks \in SUBSET Addr /\ k.hdr \in [Addr -> Header]
    BY <1>6, <1>7, Zenon DEF Tiles
  <2>2. k.hint \in Addr
    BY <1>9, <2>1, Zenon
  <2>3. s.total_allocated \in Nat /\ s.total_freed \in 0 .. UINT32_MOD - 1
    BY <1>1, KernelHeapAssumption DEF HeapType
  <2>4. k.total_allocated \in 0 .. UINT32_MOD - 1 /\ k.total_freed \in 0 .. UINT32_MOD - 1
    BY <1>3, <1>7, <2>3, KernelHeapAssumption
  <2>5. k \in HeapType
    BY <1>7, <2>1, <2>2, <2>4, Zenon DEF HeapType
  <2>6. Unlisted(k)
    BY <1>1, <1>3, <1>5, <1>7 DEF HeapOK, Unlisted
  <2> QED
    BY <1>6, <1>7, <1>9, <2>5, <2>6, Zenon DEF HeapOK
<1>11. /\ hp.blocks \subseteq k.blocks
       /\ ~k.hdr[b].is_free /\ k.hdr[b].size >= size
       /\ \A c \in hp.blocks : c # b => k.hdr[c] = hp.hdr[c]
       /\ \A c \in k.blocks \ hp.blocks : k.hdr[c].is_free /\ k.hdr[c].next = hp.hdr[b].next
       /\ k.total_allocated = (hp.total_allocated + k.hdr[b].size) % UINT32_MOD
       /\ k.total_freed = hp.total_freed
  <2>1. \A c \in s.blocks : c # b => k.hdr[c] = s.hdr[c]
    BY <1>1, <1>5, <1>7, Zenon DEF Tiles
  <2> QED
    BY <1>1, <1>3, <1>7, <1>8, <2>1
<1>12. ASSUME NoFreePair(hp) PROVE NoFreePair(k)
  <2>1. SUFFICES ASSUME NEW c \in k.blocks, k.hdr[c].is_free, k.hdr[c].next # NULL,
                        k.hdr[k.hdr[c].next].is_free
                 PROVE  FALSE
    BY Zenon DEF NoFreePair
  <2> DEFINE d == k.hdr[c].next
  <2>2. c # b
    BY <1>11, <2>1, Zenon
  <2>3. d \in k.blocks /\ d # b
    BY <1>11, <1>10, <2>1, Zenon DEF HeapOK, Tiles
  <2>4. CASE c \notin hp.blocks
    <3>1. d = hp.hdr[b].next /\ d \in hp.blocks /\ hp.hdr[b].is_free
      BY <1>11, <2>1, <2>4 DEF HeapOK, Tiles, Fits
    <3>2. k.hdr[d] = hp.hdr[d]
      BY <1>11, <2>3, <3>1, Zenon
    <3> QED
      BY <1>12, <2>1, <3>1, <3>2, Zenon DEF NoFreePair
  <2>5. CASE c \in hp.blocks
    <3>1. k.hdr[c] = hp.hdr[c]
      BY <1>11, <2>2, <2>5, Zenon
    <3>2. d \in hp.blocks
      BY <2>1, <2>5, <3>1, Zenon DEF HeapOK, Tiles
    <3>3. k.hdr[d] = hp.hdr[d]
      BY <1>11, <2>3, <3>2, Zenon
    <3> QED
      BY <1>12, <2>1, <2>5, <3>1, <3>3, Zenon DEF NoFreePair
  <2> QED
    BY <2>4, <2>5, Zenon
<1> QED
  BY <1>10, <1>11, <1>12, Zenon DEF MallocOutcome

\* A place in the heap that is not behind another one.
LEMMA LessOrEqual == ASSUME NEW a \in Nat, NEW b \in Nat, a < b \/ a = b PROVE a <= b
OBVIOUS

\* kfree merges block b with the free blocks around it; a block in use other
\* than b is left alone.
FreeOutcome(hp, b, f) ==
    /\ HeapOK(f)
    /\ \A c \in hp.blocks : c # b /\ ~hp.hdr[c].is_free =>
          c \in f.blocks /\ f.hdr[c] = hp.hdr[c]
    /\ \A c \in f.blocks : ~f.hdr[c].is_free =>
          c \in hp.blocks /\ c # b /\ ~hp.hdr[c].is_free
    /\ f.total_allocated = hp.total_allocated
    /\ f.total_freed = (hp.total_freed + hp.hdr[b].size) % UINT32_MOD
    /\ NoFreePair(hp) => NoFreePair(f)

LEMMA FreeFacts ==
    ASSUME NEW hp, HeapOK(hp), NEW b \in hp.blocks, ~hp.hdr[b].is_free,
           NEW f, f = kfree_locked(hp, b)
    PROVE  FreeOutcome(hp, b, f)
<1> DEFINE before == {p \in Prev(hp, b) : hp.hdr[p].is_free}
           block == IF before = {} THEN b ELSE CHOOSE p \in before : TRUE
           open == [size |-> hp.hdr[b].size, is_free |-> TRUE, next |-> hp.hdr[b].next]
           g == [hp.hdr EXCEPT ![b] = open]
           freed == [hp EXCEPT
                       !.hdr = g,
                       !.total_freed = (hp.total_freed + hp.hdr[b].size) % UINT32_MOD,
                       !.hint = block]
           n == hp.hdr[b].next
           merges == n # NULL /\ hp.hdr[n].is_free
           merged == IF merges THEN absorb_next(freed, b) ELSE freed
<1>1. f = IF before = {} THEN merged ELSE absorb_next(merged, block)
  BY Zenon DEF kfree_locked
<1>2. /\ hp \in HeapType /\ Tiles(hp.blocks, hp.hdr) /\ hp.hint \in hp.blocks
      /\ Unlisted(hp)
  BY Zenon DEF HeapOK
<1>3. /\ b \in Addr /\ b \in Nat /\ hp.hdr[b].size \in Nat
      /\ n \in Addr \cup {NULL}
  BY <1>2, BlocksInHeap, Zenon DEF Tiles
<1>4. block \in hp.blocks /\ (before # {} => block \in before)
  BY Zenon DEF Prev
<1>5. before # {} => /\ hp.hdr[block].next = b /\ hp.hdr[block].is_free
                     /\ block # b
  BY <1>4, Zenon DEF Prev
<1>6. b # NULL
  BY <1>3 DEF NULL
<1>7. /\ g \in [Addr -> Header] /\ g[b] = open
      /\ \A a \in hp.blocks : a # b => g[a] = hp.hdr[a]
      /\ \A a \in Addr : a \notin hp.blocks => g[a] = Blank
  <2>1. open \in Header
    BY <1>3, Zenon DEF Header
  <2> QED
    BY <1>2, <1>3, <2>1, Zenon DEF Tiles, Unlisted
<1>8. /\ freed \in HeapType /\ freed.blocks = hp.blocks /\ freed.hdr = g
      /\ freed.hint = block
      /\ freed.total_allocated = hp.total_allocated
      /\ freed.total_freed = (hp.total_freed + hp.hdr[b].size) % UINT32_MOD
  <2> HIDE DEF g, block
  <2>0. freed = [hp EXCEPT
                   !.hdr = g,
                   !.total_freed = (hp.total_freed + hp.hdr[b].size) % UINT32_MOD,
                   !.hint = block]
    BY Zenon
  <2> HIDE DEF freed
  <2>1. /\ freed.blocks = hp.blocks /\ freed.hdr = g /\ freed.hint = block
        /\ freed.total_allocated = hp.total_allocated
        /\ freed.total_freed = (hp.total_freed + hp.hdr[b].size) % UINT32_MOD
        /\ freed = [blocks |-> freed.blocks, hdr |-> freed.hdr, hint |-> freed.hint,
                    total_allocated |-> freed.total_allocated,
                    total_freed |-> freed.total_freed]
    BY <1>2, <2>0, Zenon DEF HeapType
  <2>2. freed.blocks \in SUBSET Addr /\ freed.hint \in Addr
    BY <1>2, <1>4, <2>1, Zenon DEF Tiles
  <2>3. /\ hp.total_freed \in Nat
        /\ freed.total_allocated \in 0 .. UINT32_MOD - 1
    BY <1>2, <2>1, KernelHeapAssumption DEF HeapType
  <2>4. freed.total_freed \in 0 .. UINT32_MOD - 1
    BY <1>3, <2>1, <2>3, KernelHeapAssumption
  <2>5. freed.hdr \in [Addr -> Header]
    BY <1>7, <2>1, Zenon
  <2> QED
    BY <2>1, <2>2, <2>3, <2>4, <2>5, Zenon DEF HeapType
<1>9. g[b].is_free /\ g[b].next = n /\ g[b].size = hp.hdr[b].size
  BY <1>7
<1>10. Tiles(freed.blocks, freed.hdr)
  <2>1. \A a \in hp.blocks : g[a].size = hp.hdr[a].size /\ g[a].next = hp.hdr[a].next
    BY <1>7, <1>9, Zenon
  <2> HIDE DEF g, freed
  <2> QED
    BY <1>2, <1>7, <1>8, <2>1, FlagKeepsTiles
<1> HIDE DEF g, freed, block, before, open
<1>11. merges => n \in hp.blocks /\ n > b /\ n # b /\ n \in Nat
  BY <1>2, <1>3, LinkedAreNeighbours, BlocksInHeap DEF Tiles
<1>12. /\ merged \in HeapType /\ Tiles(merged.blocks, merged.hdr)
       /\ merged.hint = block
       /\ b \in merged.blocks /\ merged.hdr[b].is_free
       /\ merged.blocks \subseteq hp.blocks
       /\ \A c \in merged.blocks : c # b => merged.hdr[c] = hp.hdr[c]
       /\ \A c \in hp.blocks : c \notin merged.blocks => merges /\ c = n
       /\ merged.hdr[b].next = IF merges THEN hp.hdr[n].next ELSE n
       /\ merges => block # n
       /\ Unlisted(merged)
       /\ merged.total_allocated = hp.total_allocated
       /\ merged.total_freed = (hp.total_freed + hp.hdr[b].size) % UINT32_MOD
  <2>0. merges => block # n
    <3> HIDE DEF merges, n, merged
    <3>1. before # {} => block < b
      BY <1>2, <1>4, <1>5, <1>6, LinkedAreNeighbours, BlocksInHeap
    <3>2. before = {} => block = b
      BY Zenon DEF block
    <3>3. block \in Nat
      BY <1>2, <1>4, BlocksInHeap, Zenon
    <3>4. b \in Nat
      BY <1>3, Zenon
    <3>5. block <= b
      <4>1. block < b \/ block = b
        BY <3>1, <3>2, Zenon
      <4> HIDE DEF before
      <4> QED
        BY <3>3, <3>4, <4>1, LessOrEqual, Zenon
    <3> QED
      BY <1>11, <3>3, <3>4, <3>5
  <2>1. CASE ~merges
    BY <1>7, <1>8, <1>9, <1>10, <2>1, Zenon DEF Unlisted
  <2>2. CASE merges
    <3>1. b \in freed.blocks /\ freed.hdr[b].next = n /\ n # NULL
      BY <1>8, <1>9, <2>2, Zenon
    <3>2. merged = absorb_next(freed, b)
      BY <2>2, Zenon
    <3> HIDE DEF merged, merges, n
    <3>3. /\ merged \in HeapType /\ Tiles(merged.blocks, merged.hdr)
          /\ merged.hint = freed.hint
          /\ merged.blocks = freed.blocks \ {n}
          /\ merged.hdr[b].is_free = freed.hdr[b].is_free
          /\ merged.hdr[b].next = freed.hdr[n].next
          /\ \A c \in merged.blocks : c # b => merged.hdr[c] = freed.hdr[c]
          /\ \A a \in Addr : a \notin freed.blocks => merged.hdr[a] = freed.hdr[a]
          /\ n # freed.hint => merged.hdr[n] = Blank
          /\ merged.total_allocated = freed.total_allocated
          /\ merged.total_freed = freed.total_freed
      <4>1. AbsorbOutcome(freed, b, n, merged)
        BY <1>8, <1>10, <3>1, <3>2, AbsorbFacts, Zenon
      <4> QED
        BY <4>1, Zenon DEF AbsorbOutcome
    <3>4. freed.hdr[n] = hp.hdr[n]
      BY <1>7, <1>8, <1>11, <2>2, Zenon
    <3>5. merged.hdr[b].is_free /\ merged.hdr[b].next = hp.hdr[n].next
      BY <1>8, <1>9, <3>3, <3>4, Zenon
    <3>6. Unlisted(merged)
      BY <1>7, <1>8, <2>2, <2>0, <3>3, Zenon DEF Unlisted
    <3> QED
      BY <1>7, <1>8, <1>11, <2>0, <2>2, <3>3, <3>5, <3>6, Zenon
  <2> QED
    BY <2>0, <2>1, <2>2, Zenon
<1> HIDE DEF merged
<1>13. ASSUME NoFreePair(hp), merged.hdr[b].next # NULL
       PROVE  ~merged.hdr[merged.hdr[b].next].is_free
  <2> DEFINE d == merged.hdr[b].next
  <2>1. d \in merged.blocks /\ d # b
    <3> HIDE DEF merges, n
    <3>1. d \in merged.blocks /\ d > b
      BY <1>12, <1>13, LinkedAreNeighbours DEF Tiles
    <3> QED
      BY <1>3, <3>1
  <2>2. merged.hdr[d] = hp.hdr[d]
    BY <1>12, <2>1, Zenon
  <2>3. CASE ~merges
    BY <1>12, <1>13, <2>2, <2>3, Zenon
  <2>4. CASE merges
    <3>1. d = hp.hdr[n].next /\ n \in hp.blocks /\ hp.hdr[n].is_free
      BY <1>11, <1>12, <2>4, Zenon
    <3> QED
      BY <1>13, <2>2, <3>1, Zenon DEF NoFreePair
  <2> QED
    BY <2>3, <2>4, Zenon
<1>14. \A c \in hp.blocks : ~hp.hdr[c].is_free => c \in merged.blocks
  BY <1>12, Zenon
<1>15. block \in merged.blocks
  BY <1>4, <1>12, Zenon
<1> HIDE DEF merges
<1>16. CASE before = {}
  <2>1. f = merged
    BY <1>1, <1>16, Zenon
  <2>2. HeapOK(f)
    BY <1>12, <1>15, <2>1, Zenon DEF HeapOK
  <2>3. ASSUME NoFreePair(hp) PROVE NoFreePair(f)
    <3>1. SUFFICES ASSUME NEW c \in merged.blocks, merged.hdr[c].is_free,
                          merged.hdr[c].next # NULL,
                          merged.hdr[merged.hdr[c].next].is_free
                   PROVE  FALSE
      BY <2>1, Zenon DEF NoFreePair
    <3>2. c # b
      BY <1>13, <2>3, <3>1, Zenon
    <3>3. merged.hdr[c] = hp.hdr[c] /\ c \in hp.blocks
      BY <1>12, <3>2, Zenon
    <3>4. merged.hdr[c].next # b
      BY <1>16, <3>1, <3>3, Zenon DEF before, Prev
    <3>5. merged.hdr[c].next \in merged.blocks
      BY <1>12, <3>1, Zenon DEF Tiles
    <3>6. merged.hdr[merged.hdr[c].next] = hp.hdr[merged.hdr[c].next]
      BY <1>12, <3>4, <3>5, Zenon
    <3> QED
      BY <2>3, <3>1, <3>3, <3>6, Zenon DEF NoFreePair
  <2> QED
    BY <1>12, <1>14, <2>1, <2>2, <2>3, Zenon DEF FreeOutcome
<1>17. CASE before # {}
  <2>1. block \in merged.blocks /\ block # b /\ merged.hdr[block] = hp.hdr[block]
    BY <1>5, <1>12, <1>15, <1>17, Zenon
  <2>2. merged.hdr[block].next = b /\ merged.hdr[block].is_free
    BY <1>5, <1>17, <2>1, Zenon
  <2>3. f = absorb_next(merged, block)
    BY <1>1, <1>17, Zenon
  <2>4. /\ f \in HeapType /\ Tiles(f.blocks, f.hdr) /\ f.hint = block
        /\ f.blocks = merged.blocks \ {b} /\ b > block
        /\ f.hdr[block].is_free = merged.hdr[block].is_free
        /\ f.hdr[block].next = merged.hdr[b].next
        /\ \A c \in f.blocks : c # block => f.hdr[c] = merged.hdr[c]
        /\ \A a \in Addr : a \notin merged.blocks => f.hdr[a] = merged.hdr[a]
        /\ b # merged.hint => f.hdr[b] = Blank
        /\ f.total_allocated = merged.total_allocated
        /\ f.total_freed = merged.total_freed
    <3>1. merged \in HeapType /\ Tiles(merged.blocks, merged.hdr) /\ merged.hint = block
      BY <1>12, Zenon
    <3>2. b = merged.hdr[block].next
      BY <2>2, Zenon
    <3>3. AbsorbOutcome(merged, block, b, f)
      BY <1>6, <2>1, <2>3, <3>1, <3>2, AbsorbFacts, Zenon
    <3> QED
      BY <3>1, <3>3, Zenon DEF AbsorbOutcome
  <2>5. HeapOK(f)
    <3>1. Unlisted(f)
      BY <1>12, <2>1, <2>4 DEF Unlisted
    <3> QED
      BY <2>1, <2>4, <3>1, Zenon DEF HeapOK
  <2>6. f.hdr[block].is_free /\ f.hdr[block].next = merged.hdr[b].next
    BY <2>2, <2>4, Zenon
  <2>7. \A c \in f.blocks : c # block => f.hdr[c] = hp.hdr[c] /\ c \in hp.blocks
    BY <1>12, <2>4
  <2>8. \A c \in hp.blocks : c # b /\ ~hp.hdr[c].is_free =>
           c \in f.blocks /\ f.hdr[c] = hp.hdr[c]
    BY <1>5, <1>14, <1>17, <2>4, <2>7, Zenon
  <2>9. ASSUME NoFreePair(hp) PROVE NoFreePair(f)
    <3>1. SUFFICES ASSUME NEW c \in f.blocks, f.hdr[c].is_free,
                          f.hdr[c].next # NULL, f.hdr[f.hdr[c].next].is_free
                   PROVE  FALSE
      BY Zenon DEF NoFreePair
    <3> DEFINE d == f.hdr[c].next
    <3>2. d \in f.blocks
      BY <2>4, <3>1, Zenon DEF Tiles
    <3>3. CASE c = block
      <4>1. d # block
        BY <2>1, <2>4, <3>1, <3>3, LinkedAreNeighbours, BlocksInHeap
      <4>2. f.hdr[d] = merged.hdr[d] /\ d = merged.hdr[b].next
        BY <2>4, <2>6, <3>2, <3>3, <4>1, Zenon
      <4> QED
        BY <1>13, <2>9, <3>1, <4>2, Zenon
    <3>4. CASE c # block
      <4>1. f.hdr[c] = hp.hdr[c] /\ c \in hp.blocks
        BY <2>7, <3>4, Zenon
      <4>2. d # block
        BY <1>4, <1>5, <1>17, <2>9, <3>1, <4>1, Zenon DEF NoFreePair
      <4>3. f.hdr[d] = hp.hdr[d]
        BY <2>7, <3>2, <4>2, Zenon
      <4> QED
        BY <2>9, <3>1, <4>1, <4>3, Zenon DEF NoFreePair
    <3> QED
      BY <3>3, <3>4, Zenon
  <2> QED
    BY <1>12, <2>4, <2>5, <2>6, <2>7, <2>8, <2>9, Zenon DEF FreeOutcome
<1> QED
  BY <1>16, <1>17, Zenon

-----------------------------------------------------------------------------
(* The owners *)

\* Blocks in use and owners correspond, and an owner has what it asked for.
OwnInv(hp, own) ==
    /\ own \in [Addr -> Nat]
    /\ \A p \in Addr : own[p] # 0 =>
          /\ p - SIZEOF_BLOCK \in hp.blocks
          /\ ~hp.hdr[p - SIZEOF_BLOCK].is_free
          /\ own[p] <= hp.hdr[p - SIZEOF_BLOCK].size
    /\ \A b \in hp.blocks : ~hp.hdr[b].is_free =>
          b + SIZEOF_BLOCK \in Addr /\ own[b + SIZEOF_BLOCK] # 0

\* A used block large enough for a positive request has a payload address.
LEMMA PayloadInHeap ==
    ASSUME NEW hp, HeapOK(hp), NEW b \in hp.blocks, NEW size \in Nat \ {0},
           hp.hdr[b].size >= size
    PROVE  b + SIZEOF_BLOCK \in Addr
<1>1. b \in Nat /\ hp.hdr[b].size \in Nat /\ b + SIZEOF_BLOCK + hp.hdr[b].size <= HEAP_BYTES
  BY BlocksInHeap, Zenon DEF HeapOK
<1> QED
  BY <1>1, KernelHeapAssumption DEF Addr

\* One used block changes hands: what is left to show when block b of a heap
\* gets an owner, a new size or becomes free.
Handover(hp, k, b, size) ==
    /\ b + SIZEOF_BLOCK \in Addr
    /\ \A c \in hp.blocks : c # b /\ ~hp.hdr[c].is_free =>
          c \in k.blocks /\ k.hdr[c] = hp.hdr[c]
    /\ \A c \in k.blocks : c # b /\ ~k.hdr[c].is_free =>
          c \in hp.blocks /\ ~hp.hdr[c].is_free
    /\ size # 0 => b \in k.blocks /\ ~k.hdr[b].is_free /\ size <= k.hdr[b].size
    /\ size = 0 => b \notin k.blocks \/ k.hdr[b].is_free

LEMMA OwnerChanges ==
    ASSUME NEW hp, HeapOK(hp), NEW own, OwnInv(hp, own),
           NEW k, HeapOK(k), NEW b \in hp.blocks, NEW size \in Nat,
           Handover(hp, k, b, size)
    PROVE  OwnInv(k, [own EXCEPT ![b + SIZEOF_BLOCK] = size])
<1>0. /\ b + SIZEOF_BLOCK \in Addr
      /\ \A c \in hp.blocks : c # b /\ ~hp.hdr[c].is_free =>
            c \in k.blocks /\ k.hdr[c] = hp.hdr[c]
      /\ \A c \in k.blocks : c # b /\ ~k.hdr[c].is_free =>
            c \in hp.blocks /\ ~hp.hdr[c].is_free
      /\ size # 0 => b \in k.blocks /\ ~k.hdr[b].is_free /\ size <= k.hdr[b].size
      /\ size = 0 => b \notin k.blocks \/ k.hdr[b].is_free
  BY Zenon DEF Handover
<1> DEFINE ptr == b + SIZEOF_BLOCK
           new == [own EXCEPT ![ptr] = size]
<1>1. new \in [Addr -> Nat] /\ new[ptr] = size /\ \A p \in Addr : p # ptr => new[p] = own[p]
  BY <1>0, Zenon DEF OwnInv
<1>2. b \in Nat /\ SIZEOF_BLOCK \in Nat
  BY BlocksInHeap, KernelHeapAssumption, Zenon DEF HeapOK
<1>3. ptr - SIZEOF_BLOCK = b /\ \A p \in Addr : p - SIZEOF_BLOCK = b => p = ptr
  BY <1>2, KernelHeapAssumption DEF Addr
<1> HIDE DEF new
<1>4. ASSUME NEW p \in Addr, new[p] # 0
      PROVE  /\ p - SIZEOF_BLOCK \in k.blocks
             /\ ~k.hdr[p - SIZEOF_BLOCK].is_free
             /\ new[p] <= k.hdr[p - SIZEOF_BLOCK].size
  <2>1. CASE p = ptr
    BY <1>0, <1>1, <1>3, <1>4, <2>1, Zenon
  <2>2. CASE p # ptr
    BY <1>0, <1>1, <1>3, <1>4, <2>2, Zenon DEF OwnInv
  <2> QED
    BY <2>1, <2>2, Zenon
<1>5. ASSUME NEW c \in k.blocks, ~k.hdr[c].is_free
      PROVE  c + SIZEOF_BLOCK \in Addr /\ new[c + SIZEOF_BLOCK] # 0
  <2>1. CASE c = b
    BY <1>0, <1>1, <1>5, <2>1, Zenon
  <2>2. CASE c # b
    <3>1. c \in hp.blocks /\ ~hp.hdr[c].is_free /\ c \in Nat
      BY <1>0, <1>5, <2>2, BlocksInHeap, Zenon DEF HeapOK
    <3>2. c + SIZEOF_BLOCK # ptr
      BY <1>2, <2>2, <3>1
    <3> QED
      BY <1>1, <3>1, <3>2, Zenon DEF OwnInv
  <2> QED
    BY <2>1, <2>2, Zenon
<1> QED
  BY <1>1, <1>4, <1>5, Zenon DEF OwnInv, new

\* kmalloc_locked hands out a payload without owner and keeps the owners' part of
\* the invariant.
LEMMA MallocOwner ==
    ASSUME NEW hp, HeapOK(hp), NEW own, OwnInv(hp, own), NEW b \in hp.blocks,
           NEW aligned \in Nat, NEW size \in Nat \ {0}, size <= aligned,
           Fits(hp, b, aligned), NEW k, k = kmalloc_locked(hp, b, aligned)
    PROVE  /\ b + SIZEOF_BLOCK \in Addr
           /\ own[b + SIZEOF_BLOCK] = 0
           /\ OwnInv(k, [own EXCEPT ![b + SIZEOF_BLOCK] = size])
<1>1. /\ HeapOK(k) /\ hp.blocks \subseteq k.blocks
      /\ ~k.hdr[b].is_free /\ k.hdr[b].size >= aligned
      /\ \A c \in hp.blocks : c # b => k.hdr[c] = hp.hdr[c]
      /\ \A c \in k.blocks \ hp.blocks : k.hdr[c].is_free
  <2>1. MallocOutcome(hp, b, aligned, k)
    BY MallocFacts, Zenon
  <2> QED
    BY <2>1, Zenon DEF MallocOutcome
<1>2. /\ hp.hdr[b].is_free /\ hp.hdr[b].size \in Nat /\ hp.hdr[b].size >= size
      /\ k.hdr[b].size \in Nat /\ size <= k.hdr[b].size /\ b \in Nat
  BY <1>1, BlocksInHeap DEF Fits, HeapOK
<1>3. b + SIZEOF_BLOCK \in Addr
  BY <1>2, PayloadInHeap, Zenon
<1>4. (b + SIZEOF_BLOCK) - SIZEOF_BLOCK = b
  BY <1>2, KernelHeapAssumption
<1>5. own[b + SIZEOF_BLOCK] = 0
  BY <1>2, <1>3, <1>4, Zenon DEF OwnInv
<1>6. OwnInv(k, [own EXCEPT ![b + SIZEOF_BLOCK] = size])
  <2>1. b \in k.blocks
    BY <1>1, Zenon
  <2>2. Handover(hp, k, b, size)
    BY <1>1, <1>2, <1>3, <2>1, Zenon DEF Handover
  <2>3. size \in Nat
    BY Zenon
  <2> QED
    BY <1>1, <2>2, <2>3, OwnerChanges, Zenon
<1> QED
  BY <1>3, <1>5, <1>6, Zenon

\* kfree_locked takes just the payload that is freed from its owner.
LEMMA FreeOwner ==
    ASSUME NEW hp, HeapOK(hp), NEW own, OwnInv(hp, own), NEW b \in hp.blocks,
           ~hp.hdr[b].is_free, NEW f, f = kfree_locked(hp, b)
    PROVE  /\ b + SIZEOF_BLOCK \in Addr
           /\ own[b + SIZEOF_BLOCK] # 0
           /\ OwnInv(f, [own EXCEPT ![b + SIZEOF_BLOCK] = 0])
<1>1. /\ HeapOK(f)
      /\ \A c \in hp.blocks : c # b /\ ~hp.hdr[c].is_free =>
            c \in f.blocks /\ f.hdr[c] = hp.hdr[c]
      /\ \A c \in f.blocks : ~f.hdr[c].is_free =>
            c \in hp.blocks /\ c # b /\ ~hp.hdr[c].is_free
  <2>1. FreeOutcome(hp, b, f)
    BY FreeFacts, Zenon
  <2> QED
    BY <2>1, Zenon DEF FreeOutcome
<1>2. b + SIZEOF_BLOCK \in Addr /\ own[b + SIZEOF_BLOCK] # 0
  BY Zenon DEF OwnInv
<1>3. OwnInv(f, [own EXCEPT ![b + SIZEOF_BLOCK] = 0])
  <2>1. Handover(hp, f, b, 0)
    BY <1>1, <1>2, Zenon DEF Handover
  <2>2. 0 \in Nat
    BY Zenon
  <2> QED
    BY <1>1, <2>1, <2>2, OwnerChanges, Zenon
<1> QED
  BY <1>2, <1>3, Zenon

\* krealloc merges used block b with the free block behind it.
GrowOutcome(hp, b, aligned, whole) ==
    /\ HeapOK(whole) /\ b \in whole.blocks /\ ~whole.hdr[b].is_free
    /\ whole.hdr[b].size >= aligned
    /\ whole.blocks \subseteq hp.blocks
    /\ \A c \in whole.blocks : c # b => whole.hdr[c] = hp.hdr[c]
    /\ \A c \in hp.blocks : ~hp.hdr[c].is_free => c \in whole.blocks

LEMMA GrowFacts ==
    ASSUME NEW hp, HeapOK(hp), NEW b \in hp.blocks, ~hp.hdr[b].is_free,
           NEW aligned \in Nat, CanGrow(hp, b, aligned), hp.hdr[b].next # hp.hint,
           NEW whole, whole = absorb_next(hp, b)
    PROVE  GrowOutcome(hp, b, aligned, whole)
<1>1. PICK n : n = hp.hdr[b].next
  BY Zenon
<1>2. /\ hp \in HeapType /\ Tiles(hp.blocks, hp.hdr) /\ hp.hint \in hp.blocks
      /\ Unlisted(hp)
  BY Zenon DEF HeapOK
<1>3. /\ n # NULL /\ hp.hdr[n].is_free
      /\ hp.hdr[b].size + SIZEOF_BLOCK + hp.hdr[n].size >= aligned
  BY <1>1, Zenon DEF CanGrow
<1>4. /\ whole \in HeapType /\ Tiles(whole.blocks, whole.hdr)
      /\ whole.hint = hp.hint
      /\ n \in hp.blocks /\ n # b
      /\ whole.blocks = hp.blocks \ {n}
      /\ whole.hdr[b].size = hp.hdr[b].size + SIZEOF_BLOCK + hp.hdr[n].size
      /\ whole.hdr[b].is_free = hp.hdr[b].is_free
      /\ \A c \in whole.blocks : c # b => whole.hdr[c] = hp.hdr[c]
      /\ \A a \in Addr : a \notin hp.blocks => whole.hdr[a] = hp.hdr[a]
      /\ n # hp.hint => whole.hdr[n] = Blank
  <2>1. AbsorbOutcome(hp, b, n, whole)
    BY <1>1, <1>2, <1>3, AbsorbFacts, Zenon
  <2> QED
    BY <2>1, Zenon DEF AbsorbOutcome
<1>6. whole.hdr[b].size >= aligned /\ ~whole.hdr[b].is_free
  BY <1>3, <1>4, Zenon
<1>7. HeapOK(whole)
  <2>1. whole.hint \in whole.blocks
    BY <1>1, <1>2, <1>4, Zenon
  <2>2. Unlisted(whole)
    BY <1>1, <1>2, <1>4, Zenon DEF Unlisted
  <2> QED
    BY <1>4, <2>1, <2>2, Zenon DEF HeapOK
<1>8. b \in whole.blocks /\ whole.blocks \subseteq hp.blocks
  BY <1>4, Zenon
<1>9. \A c \in hp.blocks : ~hp.hdr[c].is_free => c \in whole.blocks
  BY <1>3, <1>4, Zenon
<1> QED
  BY <1>4, <1>6, <1>7, <1>8, <1>9, Zenon DEF GrowOutcome

\* A block in use is split, if there is enough left of it.
IsSplit(whole, b, aligned, k) ==
    /\ HeapOK(k) /\ b \in k.blocks /\ ~k.hdr[b].is_free
    /\ k.hdr[b].size \in Nat /\ k.hdr[b].size >= aligned
    /\ whole.blocks \subseteq k.blocks
    /\ \A c \in whole.blocks : c # b => k.hdr[c] = whole.hdr[c]
    /\ \A c \in k.blocks \ whole.blocks : k.hdr[c].is_free

LEMMA SplitUsed ==
    ASSUME NEW whole, HeapOK(whole), NEW b \in whole.blocks, ~whole.hdr[b].is_free,
           NEW aligned \in Nat, whole.hdr[b].size >= aligned,
           NEW k, k = split_block_if_needed(whole, b, aligned)
    PROVE  IsSplit(whole, b, aligned, k)
<1>1. /\ whole \in HeapType /\ Tiles(whole.blocks, whole.hdr)
      /\ whole.hint \in whole.blocks /\ Unlisted(whole)
  BY Zenon DEF HeapOK
<1>2. /\ k \in HeapType /\ Tiles(k.blocks, k.hdr) /\ k.hint = whole.hint
      /\ whole.blocks \subseteq k.blocks
      /\ k.hdr[b].is_free = whole.hdr[b].is_free
      /\ k.hdr[b].size >= aligned
      /\ \A c \in whole.blocks : c # b => k.hdr[c] = whole.hdr[c]
      /\ \A c \in k.blocks \ whole.blocks : k.hdr[c].is_free
      /\ \A a \in Addr : a \notin k.blocks => k.hdr[a] = whole.hdr[a]
  <2>1. SplitOutcome(whole, b, aligned, k)
    BY <1>1, SplitFacts, Zenon
  <2> QED
    BY <2>1, Zenon DEF SplitOutcome
<1>3. Unlisted(k)
  BY <1>1, <1>2, Zenon DEF Unlisted
<1>4. HeapOK(k)
  BY <1>1, <1>2, <1>3, Zenon DEF HeapOK
<1>5. b \in k.blocks
  BY <1>2, Zenon
<1>6. k.hdr[b].size \in Nat
  BY <1>2, <1>5, BlocksInHeap
<1> QED
  BY <1>2, <1>4, <1>5, <1>6, Zenon DEF IsSplit

\* krealloc in place: block b is split, or first merged with the free block
\* behind it and then split.
LEMMA ResizeOwner ==
    ASSUME NEW hp, HeapOK(hp), NEW own, OwnInv(hp, own), NEW b \in hp.blocks,
           ~hp.hdr[b].is_free, NEW aligned \in Nat, NEW size \in Nat \ {0},
           size <= aligned, NEW whole,
           \/ whole = hp /\ aligned <= hp.hdr[b].size
           \/ /\ whole = absorb_next(hp, b) /\ CanGrow(hp, b, aligned)
              /\ hp.hdr[b].next # hp.hint,
           NEW k, k = split_block_if_needed(whole, b, aligned)
    PROVE  HeapOK(k) /\ OwnInv(k, [own EXCEPT ![b + SIZEOF_BLOCK] = size])
<1>1. hp \in HeapType /\ Tiles(hp.blocks, hp.hdr) /\ hp.hint \in hp.blocks
  BY Zenon DEF HeapOK
<1>2. b + SIZEOF_BLOCK \in Addr
  BY Zenon DEF OwnInv
<1>3. /\ HeapOK(whole) /\ b \in whole.blocks /\ ~whole.hdr[b].is_free
      /\ whole.hdr[b].size >= aligned
      /\ whole.blocks \subseteq hp.blocks
      /\ \A c \in whole.blocks : c # b => whole.hdr[c] = hp.hdr[c]
      /\ \A c \in hp.blocks : ~hp.hdr[c].is_free => c \in whole.blocks
  <2>1. CASE whole = hp /\ aligned <= hp.hdr[b].size
    <3>1. hp.hdr[b].size \in Nat
      BY <1>1, BlocksInHeap, Zenon
    <3> QED
      <4>1. whole.hdr[b].size >= aligned
        BY <2>1, <3>1, Zenon
      <4> QED
        BY <2>1, <4>1, Zenon
  <2>2. CASE /\ whole = absorb_next(hp, b) /\ CanGrow(hp, b, aligned)
             /\ hp.hdr[b].next # hp.hint
    <3>1. GrowOutcome(hp, b, aligned, whole)
      BY <2>2, GrowFacts, Zenon
    <3> QED
      BY <3>1, Zenon DEF GrowOutcome
  <2> QED
    BY <2>1, <2>2, Zenon
<1>4. /\ HeapOK(k) /\ b \in k.blocks /\ ~k.hdr[b].is_free
      /\ k.hdr[b].size \in Nat /\ k.hdr[b].size >= aligned
      /\ whole.blocks \subseteq k.blocks
      /\ \A c \in whole.blocks : c # b => k.hdr[c] = whole.hdr[c]
      /\ \A c \in k.blocks \ whole.blocks : k.hdr[c].is_free
  <2>1. IsSplit(whole, b, aligned, k)
    BY <1>3, SplitUsed, Zenon
  <2> QED
    BY <2>1, Zenon DEF IsSplit
<1>5. size <= k.hdr[b].size
  <2>1. PICK held \in Nat : held = k.hdr[b].size /\ held >= aligned
    BY <1>4, Zenon
  <2>2. size <= held
    BY <2>1
  <2> QED
    BY <2>1, <2>2, Zenon
<1>6. /\ \A c \in hp.blocks : c # b /\ ~hp.hdr[c].is_free =>
            c \in k.blocks /\ k.hdr[c] = hp.hdr[c]
      /\ \A c \in k.blocks : c # b /\ ~k.hdr[c].is_free =>
            c \in hp.blocks /\ ~hp.hdr[c].is_free
  BY <1>3, <1>4, Zenon
<1>7. Handover(hp, k, b, size)
  BY <1>2, <1>4, <1>5, <1>6, Zenon DEF Handover
<1>8. size \in Nat
  BY Zenon
<1> QED
  BY <1>4, <1>7, <1>8, OwnerChanges, Zenon

-----------------------------------------------------------------------------
(* The specification *)

\* No size wraps in align_up, unless kcalloc refuses it.  The run on
\* HoldsRequest with a request near 2^32 shows that this is needed.
NoWrap ==
    /\ \A r \in Requests : r + MIN_ALLOC_ALIGN - 1 < UINT32_MOD
    /\ \A n \in Counts, r \in Requests :
          \/ n * r + MIN_ALLOC_ALIGN - 1 < UINT32_MOD
          \/ n # 0 /\ r > (UINT32_MOD - 1) \div n

\* krealloc leaves the block heap_search_hint points to on the list.
HintKept == ~GrowsIntoHint

IInv == HeapOK(heap) /\ OwnInv(heap, owned) /\ oom \in Nat \cup {NULL}

\* A size that does not wrap is rounded up, never down (align_up).
LEMMA AlignUp ==
    ASSUME NEW size \in Nat, size + MIN_ALLOC_ALIGN - 1 < UINT32_MOD
    PROVE  /\ align_up(size, MIN_ALLOC_ALIGN) \in Nat
           /\ size <= align_up(size, MIN_ALLOC_ALIGN)
<1> DEFINE sum == (size + MIN_ALLOC_ALIGN - 1) % UINT32_MOD
<1>1. size + MIN_ALLOC_ALIGN - 1 \in Nat
  BY KernelHeapAssumption
<1>2. sum = size + MIN_ALLOC_ALIGN - 1
  BY <1>1, KernelHeapAssumption
<1> HIDE DEF sum
<1>3. sum % MIN_ALLOC_ALIGN \in 0 .. MIN_ALLOC_ALIGN - 1
  BY <1>1, <1>2, KernelHeapAssumption
<1>4. sum - (sum % MIN_ALLOC_ALIGN) \in Nat /\ size <= sum - (sum % MIN_ALLOC_ALIGN)
  BY <1>1, <1>2, <1>3, KernelHeapAssumption
<1> QED
  BY <1>4, Zenon DEF align_up, sum

\* memory_init establishes the invariant.
LEMMA InitHolds == Init => IInv
<1> SUFFICES ASSUME Init PROVE IInv
  BY Zenon
<1> USE KernelHeapAssumption
<1> DEFINE whole == [size |-> HEAP_BYTES - SIZEOF_BLOCK, is_free |-> TRUE, next |-> NULL]
<1>1. heap_start \in Addr /\ heap_start = 0
  BY DEF heap_start, Addr
<1>2. whole \in Header /\ Blank \in Header
  BY DEF Header, Blank
<1>3. /\ heap.blocks = {heap_start} /\ heap.hint = heap_start
      /\ heap.total_allocated = 0 /\ heap.total_freed = 0
      /\ heap.hdr = [a \in Addr |-> IF a = heap_start THEN whole ELSE Blank]
      /\ heap = [blocks |-> heap.blocks, hdr |-> heap.hdr, hint |-> heap.hint,
                 total_allocated |-> heap.total_allocated,
                 total_freed |-> heap.total_freed]
  BY Zenon DEF Init
<1>4. heap.hdr \in [Addr -> Header] /\ heap.hdr[heap_start] = whole
  <2> HIDE DEF whole
  <2> QED
    BY <1>1, <1>2, <1>3
<1>5. heap.hdr[heap_start].size = HEAP_BYTES - SIZEOF_BLOCK
      /\ heap.hdr[heap_start].is_free /\ heap.hdr[heap_start].next = NULL
  BY <1>4
<1> HIDE DEF whole
<1>6. heap \in HeapType
  BY <1>1, <1>3, <1>4 DEF HeapType
<1>7. Tiles(heap.blocks, heap.hdr)
  BY <1>1, <1>3, <1>4, <1>5 DEF Tiles
<1>8. HeapOK(heap)
  BY <1>3, <1>6, <1>7, Zenon DEF HeapOK, Unlisted
<1>9. OwnInv(heap, owned)
  BY <1>3, <1>5, Zenon DEF OwnInv, Init
<1> QED
  BY <1>8, <1>9, Zenon DEF IInv, Init

\* A call that is refused keeps the invariant.
LEMMA NoChangeKeeps == IInv /\ NoChange => IInv'
BY Zenon DEF IInv, NoChange

\* kmalloc keeps the invariant, makes no two free neighbours, changes the heap only
\* for an owner and hands nothing out twice.
LEMMA kmallocKeeps ==
    ASSUME IInv, NEW size \in Nat, size + MIN_ALLOC_ALIGN - 1 < UINT32_MOD, kmalloc(size)
    PROVE  /\ IInv'
           /\ NoFreePair(heap) => NoFreePair(heap')
           /\ owned' = owned => heap' = heap
           /\ \A p \in Addr : owned'[p] # owned[p] => owned[p] = 0 \/ owned'[p] = 0
<1> DEFINE aligned == align_up(size, MIN_ALLOC_ALIGN)
           found == kmalloc_scan(heap, aligned)
<1>1. aligned \in Nat /\ size <= aligned
  BY AlignUp, Zenon
<1> HIDE DEF aligned
<1>2. CASE size = 0 /\ NoChange
  BY <1>2, NoChangeKeeps, Zenon DEF NoChange
<1>3. CASE oom' = aligned /\ UNCHANGED <<heap, owned>>
  BY <1>1, <1>3, Zenon DEF IInv
<1>4. CASE /\ size # 0
           /\ \E b \in heap.blocks \cup {heap.hint} :
                 /\ Fits(heap, b, aligned)
                 /\ heap' = kmalloc_locked(heap, b, aligned)
                 /\ owned' = [owned EXCEPT ![b + SIZEOF_BLOCK] = size]
                 /\ oom' = NULL
  <2>1. PICK b \in heap.blocks :
                 /\ Fits(heap, b, aligned)
                 /\ heap' = kmalloc_locked(heap, b, aligned)
                 /\ owned' = [owned EXCEPT ![b + SIZEOF_BLOCK] = size]
                 /\ oom' = NULL
    BY <1>4, Zenon DEF IInv, HeapOK
  <2>2. HeapOK(heap) /\ OwnInv(heap, owned)
    BY Zenon DEF IInv
  <2>3. HeapOK(heap') /\ (NoFreePair(heap) => NoFreePair(heap'))
    <3>1. MallocOutcome(heap, b, aligned, heap')
      BY <1>1, <2>1, <2>2, MallocFacts, Zenon
    <3> QED
      BY <3>1, Zenon DEF MallocOutcome
  <2>4. /\ b + SIZEOF_BLOCK \in Addr /\ owned[b + SIZEOF_BLOCK] = 0
        /\ OwnInv(heap', owned')
    BY <1>1, <1>4, <2>1, <2>2, MallocOwner, Zenon
  <2>5. /\ owned' # owned
        /\ \A p \in Addr : owned'[p] # owned[p] => owned[p] = 0
    BY <1>4, <2>1, <2>2, <2>4, Zenon DEF OwnInv
  <2>6. IInv' = (HeapOK(heap') /\ OwnInv(heap', owned') /\ oom' \in Nat \cup {NULL})
    BY Zenon DEF IInv
  <2> QED
    BY <2>1, <2>3, <2>4, <2>5, <2>6, Zenon
<1> QED
  BY <1>2, <1>3, <1>4, Zenon DEF kmalloc, aligned

\* The same of kfree.
LEMMA kfreeKeeps ==
    ASSUME IInv, NEW ptr \in Addr, kfree(ptr)
    PROVE  /\ IInv'
           /\ NoFreePair(heap) => NoFreePair(heap')
           /\ owned' = owned => heap' = heap
           /\ \A p \in Addr : owned'[p] # owned[p] => owned[p] = 0 \/ owned'[p] = 0
<1>1. CASE NoChange
  BY <1>1, NoChangeKeeps, Zenon DEF NoChange
<1>2. ASSUME NEW b \in find_block_by_payload(heap, ptr), ~heap.hdr[b].is_free,
             heap' = kfree_locked(heap, b),
             owned' = [owned EXCEPT ![ptr] = 0], oom' = NULL
      PROVE  /\ IInv'
             /\ NoFreePair(heap) => NoFreePair(heap')
             /\ owned' = owned => heap' = heap
             /\ \A p \in Addr : owned'[p] # owned[p] => owned[p] = 0 \/ owned'[p] = 0
  <2>1. b \in heap.blocks /\ ptr = b + SIZEOF_BLOCK
    BY Zenon DEF find_block_by_payload
  <2>2. HeapOK(heap) /\ OwnInv(heap, owned)
    BY Zenon DEF IInv
  <2>3. HeapOK(heap') /\ (NoFreePair(heap) => NoFreePair(heap'))
    <3>1. FreeOutcome(heap, b, heap')
      BY <1>2, <2>1, <2>2, FreeFacts, Zenon
    <3> QED
      BY <3>1, Zenon DEF FreeOutcome
  <2>4. owned[ptr] # 0 /\ OwnInv(heap', owned')
    BY <1>2, <2>1, <2>2, FreeOwner, Zenon
  <2>5. /\ owned' # owned
        /\ \A p \in Addr : owned'[p] # owned[p] => owned'[p] = 0
    BY <1>2, <2>2, <2>4, Zenon DEF OwnInv
  <2>6. IInv' = (HeapOK(heap') /\ OwnInv(heap', owned') /\ oom' \in Nat \cup {NULL})
    BY Zenon DEF IInv
  <2> QED
    BY <1>2, <2>3, <2>4, <2>5, <2>6, Zenon
<1> QED
  BY <1>1, <1>2, Zenon DEF kfree

\* Every way through krealloc keeps the invariant, if it spares the block of the
\* hint.
LEMMA kreallocKeeps ==
    ASSUME IInv, HintKept, NEW ptr \in Addr, NEW size \in Nat,
           size + MIN_ALLOC_ALIGN - 1 < UINT32_MOD,
           \/ krealloc_shrink(ptr, size)
           \/ krealloc_grow(ptr, size)
           \/ krealloc_move(ptr, size)
    PROVE  IInv'
<1> DEFINE aligned == align_up(size, MIN_ALLOC_ALIGN)
<1>1. aligned \in Nat /\ size <= aligned
  BY AlignUp, Zenon
<1> HIDE DEF aligned
<1>2. HeapOK(heap) /\ OwnInv(heap, owned)
  BY Zenon DEF IInv
<1>3. IInv' = (HeapOK(heap') /\ OwnInv(heap', owned') /\ oom' \in Nat \cup {NULL})
  BY Zenon DEF IInv
<1>4. \A b \in InUse(ptr) : b \in heap.blocks /\ ptr = b + SIZEOF_BLOCK /\ ~heap.hdr[b].is_free
  BY Zenon DEF InUse, find_block_by_payload
<1>5. CASE krealloc_shrink(ptr, size)
  <2>1. PICK b \in InUse(ptr) :
                /\ aligned <= heap.hdr[b].size
                /\ heap' = split_block_if_needed(heap, b, aligned)
                /\ owned' = [owned EXCEPT ![ptr] = size]
                /\ oom' = NULL
    BY <1>5, Zenon DEF krealloc_shrink, aligned
  <2>2. size # 0
    BY <1>5, Zenon DEF krealloc_shrink
  <2>3. HeapOK(heap') /\ OwnInv(heap', owned')
    BY <1>1, <1>2, <1>4, <2>1, <2>2, ResizeOwner, Zenon
  <2> QED
    BY <1>3, <2>1, <2>3, Zenon
<1>6. CASE krealloc_grow(ptr, size)
  <2>1. PICK b \in InUse(ptr) :
                /\ CanGrow(heap, b, aligned)
                /\ GrowsIntoHint \/ heap.hdr[b].next # heap.hint
                /\ heap' = split_block_if_needed(absorb_next(heap, b), b, aligned)
                /\ owned' = [owned EXCEPT ![ptr] = size]
                /\ oom' = NULL
    BY <1>6, Zenon DEF krealloc_grow, aligned
  <2>2. size # 0 /\ heap.hdr[b].next # heap.hint
    BY <1>6, <2>1, Zenon DEF krealloc_grow, HintKept
  <2>3. HeapOK(heap') /\ OwnInv(heap', owned')
    BY <1>1, <1>2, <1>4, <2>1, <2>2, ResizeOwner, Zenon
  <2> QED
    BY <1>3, <2>1, <2>3, Zenon
<1>7. CASE krealloc_move(ptr, size)
  <2>1. PICK b \in InUse(ptr) :
           \/ oom' = aligned /\ UNCHANGED <<heap, owned>>
           \/ \E c \in heap.blocks \cup {heap.hint} :
                /\ Fits(heap, c, aligned)
                /\ heap' = kfree_locked(kmalloc_locked(heap, c, aligned), b)
                /\ owned' = [owned EXCEPT ![ptr] = 0, ![c + SIZEOF_BLOCK] = size]
                /\ oom' = NULL
    BY <1>7, Zenon DEF krealloc_move, aligned
  <2>2. size # 0
    BY <1>7, Zenon DEF krealloc_move
  <2>3. CASE oom' = aligned /\ UNCHANGED <<heap, owned>>
    BY <1>1, <1>2, <1>3, <2>3, Zenon
  <2>4. ASSUME NEW c \in heap.blocks \cup {heap.hint},
               Fits(heap, c, aligned),
               heap' = kfree_locked(kmalloc_locked(heap, c, aligned), b),
               owned' = [owned EXCEPT ![ptr] = 0, ![c + SIZEOF_BLOCK] = size],
               oom' = NULL
        PROVE  IInv'
    <3> DEFINE k == kmalloc_locked(heap, c, aligned)
               own == [owned EXCEPT ![c + SIZEOF_BLOCK] = size]
    <3>1. c \in heap.blocks /\ c # b /\ b \in heap.blocks /\ ptr = b + SIZEOF_BLOCK
      BY <1>2, <1>4, <2>4, Zenon DEF HeapOK, Fits
    <3>2. HeapOK(k) /\ b \in k.blocks /\ k.hdr[b] = heap.hdr[b]
      <4>1. HeapOK(heap) /\ aligned \in Nat /\ Fits(heap, c, aligned)
        BY <1>1, <1>2, <2>4, Zenon
      <4>2. /\ HeapOK(k) /\ heap.blocks \subseteq k.blocks
            /\ \A d \in heap.blocks : d # c => k.hdr[d] = heap.hdr[d]
        <5>1. MallocOutcome(heap, c, aligned, k)
          BY <3>1, <4>1, MallocFacts, Zenon
        <5> QED
          BY <5>1, Zenon DEF MallocOutcome
      <4> QED
        BY <3>1, <4>2, Zenon
    <3>3. c + SIZEOF_BLOCK \in Addr /\ OwnInv(k, own)
      BY <1>1, <1>2, <2>2, <2>4, <3>1, MallocOwner, Zenon
    <3>4. c + SIZEOF_BLOCK # ptr
      BY <1>2, <3>1, BlocksInHeap, KernelHeapAssumption DEF HeapOK
    <3>5. owned' = [own EXCEPT ![ptr] = 0]
      BY <1>2, <2>4, <3>3, <3>4, Zenon DEF OwnInv
    <3> HIDE DEF own
    <3>6. heap' = kfree_locked(k, b)
      BY <2>4, Zenon
    <3> HIDE DEF k
    <3>7. ~k.hdr[b].is_free
      BY <1>4, <3>2, Zenon
    <3>8. HeapOK(heap')
      BY <3>2, <3>6, <3>7, FreeFacts, Zenon DEF FreeOutcome
    <3>9. OwnInv(heap', owned')
      BY <3>1, <3>2, <3>3, <3>5, <3>6, <3>7, FreeOwner, Zenon
    <3> QED
      BY <1>3, <2>4, <3>8, <3>9, Zenon
  <2> QED
    BY <2>1, <2>3, <2>4, Zenon
<1> QED
  BY <1>5, <1>6, <1>7, Zenon

\* The sizes the specification passes to kmalloc.
LEMMA kcallocKeeps ==
    ASSUME IInv, NoWrap, NEW num \in Counts, NEW size \in Requests, kcalloc(num, size)
    PROVE  /\ IInv'
           /\ NoFreePair(heap) => NoFreePair(heap')
           /\ owned' = owned => heap' = heap
           /\ \A p \in Addr : owned'[p] # owned[p] => owned[p] = 0 \/ owned'[p] = 0
<1>1. num \in Nat /\ size \in Nat
  BY KernelHeapAssumption
<1>2. num * size \in Nat
  BY <1>1
<1>3. CASE num # 0 /\ size > (UINT32_MOD - 1) \div num
  BY <1>3, NoChangeKeeps, Zenon DEF kcalloc, NoChange
<1>4. CASE ~(num # 0 /\ size > (UINT32_MOD - 1) \div num)
  <2>1. kmalloc(num * size) /\ num * size + MIN_ALLOC_ALIGN - 1 < UINT32_MOD
    BY <1>4, Zenon DEF kcalloc, NoWrap
  <2> QED
    BY <1>2, <2>1, kmallocKeeps, Zenon
<1> QED
  BY <1>3, <1>4, Zenon

\* Only krealloc changes the history variable, and sets it.
LEMMA ResizedStep == [Next]_vars => resized' = resized \/ resized' = TRUE
<1> SUFFICES ASSUME [Next]_vars PROVE resized' = resized \/ resized' = TRUE
  BY Zenon
<1>1. ASSUME NEW size, kmalloc(size) PROVE resized' = resized
  BY <1>1, Zenon DEF kmalloc, NoChange
<1>2. ASSUME NEW num, NEW size, kcalloc(num, size) PROVE resized' = resized
  BY <1>1, <1>2, Zenon DEF kcalloc, NoChange
<1>3. ASSUME NEW ptr, kfree(ptr) PROVE resized' = resized
  BY <1>3, Zenon DEF kfree, NoChange
<1>4. ASSUME NEW ptr, NEW size, \/ krealloc_shrink(ptr, size)
                               \/ krealloc_grow(ptr, size)
                               \/ krealloc_move(ptr, size)
      PROVE  resized' = TRUE
  BY <1>4, Zenon DEF krealloc_shrink, krealloc_grow, krealloc_move
<1>5. CASE UNCHANGED vars
  BY <1>5, Zenon DEF vars
<1> QED
  BY <1>1, <1>2, <1>3, <1>4, <1>5, Zenon DEF Next

\* Every step keeps the invariant.
LEMMA NextKeeps == NoWrap /\ HintKept /\ IInv /\ [Next]_vars => IInv'
<1> SUFFICES ASSUME NoWrap, HintKept, IInv, [Next]_vars PROVE IInv'
  BY Zenon
<1>1. \A r \in Requests : r \in Nat /\ r + MIN_ALLOC_ALIGN - 1 < UINT32_MOD
  BY KernelHeapAssumption DEF NoWrap
<1>2. ASSUME NEW size \in Requests, kmalloc(size) PROVE IInv'
  BY <1>1, <1>2, kmallocKeeps, Zenon
<1>3. ASSUME NEW num \in Counts, NEW size \in Requests, kcalloc(num, size) PROVE IInv'
  BY <1>3, kcallocKeeps, Zenon
<1>4. ASSUME NEW ptr \in Addr, kfree(ptr) PROVE IInv'
  BY <1>4, kfreeKeeps, Zenon
<1>5. ASSUME NEW ptr \in Addr, NEW size \in Requests,
             \/ krealloc_shrink(ptr, size)
             \/ krealloc_grow(ptr, size)
             \/ krealloc_move(ptr, size)
      PROVE  IInv'
  BY <1>1, <1>5, kreallocKeeps, Zenon
<1>6. CASE UNCHANGED vars
  BY <1>6, Zenon DEF vars, IInv
<1> QED
  BY <1>2, <1>3, <1>4, <1>5, <1>6, Zenon DEF Next

\* The inductive invariant holds in every reachable state of the heap.
THEOREM HeapInvariant == ASSUME NoWrap, HintKept PROVE Spec => []IInv
<1>1. Init => IInv
  BY InitHolds, Zenon
<1>2. IInv /\ [Next]_vars => IInv'
  BY NextKeeps, Zenon
<1> QED
  BY <1>1, <1>2, PTL DEF Spec

\* The invariant implies the properties about single blocks and owners.
LEMMA InvariantImplies ==
    ASSUME IInv
    PROVE  /\ resized \in BOOLEAN => TypeOK
           /\ ListTiles /\ OwnedTracked /\ UsedHasOwner /\ HoldsRequest
<1>1. /\ heap \in HeapType /\ Tiles(heap.blocks, heap.hdr) /\ heap.hint \in heap.blocks
      /\ OwnInv(heap, owned)
  BY Zenon DEF IInv, HeapOK
<1>2. resized \in BOOLEAN => TypeOK
  BY <1>1, Zenon DEF TypeOK, HeapType, OwnInv, IInv
<1>3. ListTiles
  BY <1>1, Zenon DEF ListTiles, Tiles, End
<1>4. ASSUME NEW p \in Addr, owned[p] # 0
      PROVE  /\ p - SIZEOF_BLOCK \in find_block_by_payload(heap, p)
             /\ ~heap.hdr[p - SIZEOF_BLOCK].is_free
             /\ heap.hdr[p - SIZEOF_BLOCK].size >= owned[p]
  <2>1. /\ p - SIZEOF_BLOCK \in heap.blocks
        /\ ~heap.hdr[p - SIZEOF_BLOCK].is_free
        /\ owned[p] <= heap.hdr[p - SIZEOF_BLOCK].size
        /\ owned[p] \in Nat
    BY <1>1, <1>4, Zenon DEF OwnInv
  <2>2. heap.hdr[p - SIZEOF_BLOCK].size \in Nat
    BY <1>1, <2>1, BlocksInHeap, Zenon
  <2>3. (p - SIZEOF_BLOCK) + SIZEOF_BLOCK = p
    BY KernelHeapAssumption DEF Addr
  <2> QED
    BY <2>1, <2>2, <2>3, Zenon DEF find_block_by_payload
<1>5. OwnedTracked /\ HoldsRequest
  BY <1>4, Zenon DEF OwnedTracked, HoldsRequest
<1>6. UsedHasOwner
  BY <1>1, Zenon DEF UsedHasOwner, OwnInv
<1> QED
  BY <1>2, <1>3, <1>5, <1>6, Zenon

\* The invariant keeps what two owners asked for apart.
LEMMA InvariantSeparates == ASSUME IInv PROVE AllocationsDisjoint
<1>1. Tiles(heap.blocks, heap.hdr) /\ OwnInv(heap, owned)
  BY Zenon DEF IInv, HeapOK
<1> SUFFICES ASSUME NEW p \in Addr, owned[p] # 0
             PROVE  /\ p + owned[p] <= HEAP_BYTES
                    /\ \A b \in heap.blocks : b >= p => b >= p + owned[p]
                    /\ \A q \in Addr : owned[q] # 0 /\ p < q =>
                          p + owned[p] <= q - SIZEOF_BLOCK
  BY Zenon DEF AllocationsDisjoint
<1> DEFINE a == p - SIZEOF_BLOCK
<1>2. /\ a \in heap.blocks /\ owned[p] <= heap.hdr[a].size /\ owned[p] \in Nat
  BY <1>1, Zenon DEF OwnInv
<1>3. /\ a \in Nat /\ heap.hdr[a].size \in Nat
      /\ a + SIZEOF_BLOCK + heap.hdr[a].size <= HEAP_BYTES
      /\ p \in Nat /\ a + SIZEOF_BLOCK = p
  <2>1. p \in Nat /\ a + SIZEOF_BLOCK = p
    BY KernelHeapAssumption DEF Addr
  <2> QED
    BY <1>1, <1>2, <2>1, BlocksInHeap, Zenon
<1> HIDE DEF a
<1>4. \A b \in heap.blocks : b > a => b >= p + owned[p]
  <2>1. \A b \in heap.blocks : b > a => b \in Nat /\ p + heap.hdr[a].size <= b
    BY <1>1, <1>2, <1>3, BlocksInHeap, Zenon DEF Tiles
  <2> QED
    BY <1>2, <1>3, <2>1
<1>5. \A b \in heap.blocks : b >= p => b >= p + owned[p]
  BY <1>1, <1>3, <1>4, BlocksInHeap, KernelHeapAssumption
<1>6. ASSUME NEW q \in Addr, owned[q] # 0, p < q
      PROVE  p + owned[p] <= q - SIZEOF_BLOCK
  <2>1. q - SIZEOF_BLOCK \in heap.blocks
    BY <1>1, <1>6, Zenon DEF OwnInv
  <2>2. q - SIZEOF_BLOCK > a
    BY <1>3, <1>6, KernelHeapAssumption DEF Addr
  <2>3. q - SIZEOF_BLOCK >= p + owned[p]
    BY <1>4, <2>1, <2>2, Zenon
  <2> QED
    BY <1>2, <1>3, <2>3, KernelHeapAssumption, Zenon DEF Addr
<1>7. p + owned[p] <= HEAP_BYTES
  BY <1>2, <1>3, KernelHeapAssumption
<1> QED
  BY <1>5, <1>6, <1>7, Zenon

ResizedType == resized \in BOOLEAN

\* Every variable keeps its type.
THEOREM HeapTypeCorrect == ASSUME NoWrap, HintKept PROVE Spec => []TypeOK
<1>1. Init => ResizedType
  BY Zenon DEF Init, ResizedType
<1>2. ResizedType /\ [Next]_vars => ResizedType'
  BY ResizedStep, Zenon DEF ResizedType
<1>3. IInv /\ ResizedType => TypeOK
  BY InvariantImplies, Zenon DEF ResizedType
<1>4. Spec => []IInv
  BY HeapInvariant, Zenon
<1> QED
  BY <1>1, <1>2, <1>3, <1>4, PTL DEF Spec

\* The block list always fills the heap, without gap or overlap, whatever
\* split_block_if_needed and the merges of kfree and krealloc did to it.
THEOREM ListAlwaysTiles == ASSUME NoWrap, HintKept PROVE Spec => []ListTiles
BY HeapInvariant, InvariantImplies, PTL

\* kfree never answers "Pointer not tracked" or "Double free detected" to the
\* owner of a payload.
THEOREM OwnersAreTracked == ASSUME NoWrap, HintKept PROVE Spec => []OwnedTracked
BY HeapInvariant, InvariantImplies, PTL

\* No block is left in use without somebody who can free it.
THEOREM NoBlockLeaks == ASSUME NoWrap, HintKept PROVE Spec => []UsedHasOwner
BY HeapInvariant, InvariantImplies, PTL

\* The blocks in use are always just those whose payload somebody holds.
THEOREM OwnersAlwaysMatch == ASSUME NoWrap, HintKept PROVE Spec => []OwnersMatch
BY OwnersAreTracked, NoBlockLeaks, PTL DEF OwnersMatch

\* kmalloc, kcalloc and krealloc give at least as many bytes as asked for.
THEOREM RequestsAreHeld == ASSUME NoWrap, HintKept PROVE Spec => []HoldsRequest
BY HeapInvariant, InvariantImplies, PTL

\* Two payloads never share a byte, with each other or with a header.
THEOREM PayloadsAreDisjoint == ASSUME NoWrap, HintKept PROVE Spec => []AllocationsDisjoint
BY HeapInvariant, InvariantSeparates, PTL

\* Until krealloc is used, what kmallocKeeps and kfreeKeeps say holds of every step.
LEMMA WithoutRealloc ==
    ASSUME NoWrap, IInv, [Next]_vars, ~resized'
    PROVE  /\ NoFreePair(heap) => NoFreePair(heap')
           /\ owned' = owned => heap' = heap
           /\ \A p \in Addr : owned'[p] # owned[p] => owned[p] = 0 \/ owned'[p] = 0
<1>1. \A r \in Requests : r \in Nat /\ r + MIN_ALLOC_ALIGN - 1 < UINT32_MOD
  BY KernelHeapAssumption DEF NoWrap
<1> DEFINE Goal == /\ NoFreePair(heap) => NoFreePair(heap')
                   /\ owned' = owned => heap' = heap
                   /\ \A p \in Addr : owned'[p] # owned[p] => owned[p] = 0 \/ owned'[p] = 0
<1>2. ASSUME NEW size \in Requests, kmalloc(size) PROVE Goal
  BY <1>1, <1>2, kmallocKeeps, Zenon
<1>3. ASSUME NEW num \in Counts, NEW size \in Requests, kcalloc(num, size) PROVE Goal
  BY <1>3, kcallocKeeps, Zenon
<1>4. ASSUME NEW ptr \in Addr, kfree(ptr) PROVE Goal
  BY <1>4, kfreeKeeps, Zenon
<1>5. ASSUME NEW ptr \in Addr, NEW size \in Requests,
             \/ krealloc_shrink(ptr, size)
             \/ krealloc_grow(ptr, size)
             \/ krealloc_move(ptr, size)
      PROVE  FALSE
  BY <1>5, Zenon DEF krealloc_shrink, krealloc_grow, krealloc_move
<1>6. CASE UNCHANGED vars
  BY <1>6, Zenon DEF vars
<1>7. CASE Next
  BY <1>2, <1>3, <1>4, <1>5, <1>7, Zenon DEF Next
<1> QED
  BY <1>6, <1>7, Zenon

\* In the kernel as it is, which never calls krealloc, no two free blocks lie
\* side by side.
THEOREM FreeBlocksAreMerged == ASSUME NoWrap, HintKept PROVE Spec => []NoAdjacentFree
<1>1. Spec => []IInv
  BY HeapInvariant, Zenon
<1>2. Init => NoAdjacentFree
  <2> SUFFICES ASSUME Init PROVE NoAdjacentFree
    BY Zenon
  <2>1. heap_start \in Addr
    BY KernelHeapAssumption DEF heap_start, Addr
  <2>2. heap.blocks = {heap_start} /\ heap.hdr[heap_start].next = NULL
    BY <2>1, Zenon DEF Init
  <2> QED
    BY <2>2, Zenon DEF NoAdjacentFree
<1>3. IInv /\ NoAdjacentFree /\ [Next]_vars => NoAdjacentFree'
  <2> SUFFICES ASSUME IInv, NoAdjacentFree, [Next]_vars, ~resized'
               PROVE  NoFreePair(heap')
    BY Zenon DEF NoAdjacentFree, NoFreePair
  <2>1. ~resized
    BY ResizedStep, Zenon
  <2>2. NoFreePair(heap)
    BY <2>1, Zenon DEF NoAdjacentFree, NoFreePair
  <2> QED
    BY <2>2, WithoutRealloc, Zenon
<1> QED
  BY <1>1, <1>2, <1>3, PTL DEF Spec

\* A call that changes no owner changes nothing in the heap.
THEOREM HeapChangesOnlyForOwners ==
    ASSUME NoWrap, HintKept PROVE Spec => ChangesOnlyForOwners
<1>1. Spec => []IInv
  BY HeapInvariant, Zenon
<1>2. IInv /\ [Next]_vars => [~resized' /\ owned' = owned => heap' = heap]_vars
  BY WithoutRealloc, Zenon DEF vars
<1> QED
  BY <1>1, <1>2, PTL DEF Spec, ChangesOnlyForOwners

\* kmalloc never gives one payload to two owners.
THEOREM PayloadsHandedOutOnce ==
    ASSUME NoWrap, HintKept PROVE Spec => NeverHandedOutTwice
<1>1. Spec => []IInv
  BY HeapInvariant, Zenon
<1>2. IInv /\ [Next]_vars =>
         [~resized' => \A p \in Addr :
             owned'[p] # owned[p] => owned[p] = 0 \/ owned'[p] = 0]_vars
  BY WithoutRealloc, Zenon DEF vars
<1> QED
  BY <1>1, <1>2, PTL DEF Spec, NeverHandedOutTwice
=============================================================================
