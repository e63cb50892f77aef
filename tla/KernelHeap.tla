----------------------------- MODULE KernelHeap -----------------------------
(***************************************************************************)
(* The kernel heap of Memory_Main.c: kmalloc, kfree, kcalloc and krealloc  *)
(* on a list of blocks, each with a header in front of its payload.        *)
(*                                                                         *)
(* Addresses are byte offsets from heap_start.  Every function runs with   *)
(* interrupts off and heap_lock held and is one step.  The bytes of a      *)
(* header stay in memory after the block has been merged into another one; *)
(* "blocks" is the set of the headers that are on the list.                *)
(***************************************************************************)
EXTENDS Integers, FiniteSetsExt

CONSTANTS
    HEAP_BYTES,            \* HEAP_PAGE_COUNT * PAGE_SIZE
    SIZEOF_BLOCK,          \* sizeof(memory_block_t)
    MIN_ALLOC_ALIGN,
    MIN_SPLIT_REMAINDER,
    UINT32_MOD,            \* 2^32
    Requests,              \* sizes the callers ask for
    Counts,                \* first arguments of kcalloc
    GrowsIntoHint          \* whether krealloc is called where it swallows the
                           \* block heap_search_hint points to

ASSUME KernelHeapAssumption ==
    /\ SIZEOF_BLOCK \in Nat \ {0}
    /\ MIN_SPLIT_REMAINDER \in Nat \ {0}
    /\ MIN_ALLOC_ALIGN \in Nat \ {0}
    /\ HEAP_BYTES \in Nat /\ HEAP_BYTES > SIZEOF_BLOCK
    /\ UINT32_MOD \in Nat /\ UINT32_MOD > HEAP_BYTES
    /\ Requests \subseteq 0 .. UINT32_MOD - 1
    /\ Counts \subseteq 0 .. UINT32_MOD - 1
    /\ GrowsIntoHint \in BOOLEAN

VARIABLES
    heap,    \* the list and the static variables of Memory_Main.c
    owned,   \* per payload address, the size its owner asked for; 0: no owner
    oom,     \* the size the last call reported as out of memory, or NULL
    resized  \* history: krealloc, which the kernel has no caller of, was used

vars == <<heap, owned, oom, resized>>

NULL == -1
heap_start == 0
Addr == 0 .. HEAP_BYTES - 1

Header == [size : Nat, is_free : BOOLEAN, next : Addr \cup {NULL}]
Blank == [size |-> 0, is_free |-> FALSE, next |-> NULL]

\* memory_init
Init ==
    /\ heap = [blocks |-> {heap_start},
               hdr |-> [a \in Addr |->
                          IF a = heap_start
                            THEN [size |-> HEAP_BYTES - SIZEOF_BLOCK,
                                  is_free |-> TRUE, next |-> NULL]
                            ELSE Blank],
               hint |-> heap_start, total_allocated |-> 0, total_freed |-> 0]
    /\ owned = [a \in Addr |-> 0]
    /\ oom = NULL
    /\ resized = FALSE

\* Faulty form: rounds down.
align_up_down(value, align) == value - (value % align)

align_up(value, align) ==
    LET sum == (value + align - 1) % UINT32_MOD IN sum - (sum % align)

End(hp, b) == b + SIZEOF_BLOCK + hp.hdr[b].size

\* Faulty form: the remainder gets the size of a block without a header.
split_block_no_header(hp, b, size) ==
    LET new == b + SIZEOF_BLOCK + size
        old == hp.hdr[b]
    IN  IF old.size >= size + SIZEOF_BLOCK + MIN_SPLIT_REMAINDER
          THEN [hp EXCEPT
                  !.blocks = @ \cup {new},
                  !.hdr = [@ EXCEPT
                    ![new] = [size |-> old.size - size, is_free |-> TRUE,
                              next |-> old.next],
                    ![b] = [size |-> size, is_free |-> old.is_free,
                            next |-> new]]]
          ELSE hp

\* Faulty form: the remainder is in use.
split_block_rest_used(hp, b, size) ==
    LET new == b + SIZEOF_BLOCK + size
        old == hp.hdr[b]
    IN  IF old.size >= size + SIZEOF_BLOCK + MIN_SPLIT_REMAINDER
          THEN [hp EXCEPT
                  !.blocks = @ \cup {new},
                  !.hdr = [@ EXCEPT
                    ![new] = [size |-> old.size - size - SIZEOF_BLOCK,
                              is_free |-> FALSE, next |-> old.next],
                    ![b] = [size |-> size, is_free |-> old.is_free,
                            next |-> new]]]
          ELSE hp

\* A block that is not on the list (b read through a stale hint) is split in
\* memory, but the remainder is not on the list either.
split_block_if_needed(hp, b, size) ==
    LET new == b + SIZEOF_BLOCK + size
        old == hp.hdr[b]
    IN  IF old.size >= size + SIZEOF_BLOCK + MIN_SPLIT_REMAINDER
          THEN [hp EXCEPT
                  !.blocks = IF b \in @ THEN @ \cup {new} ELSE @,
                  !.hdr = [@ EXCEPT
                    ![new] = [size |-> old.size - size - SIZEOF_BLOCK,
                              is_free |-> TRUE, next |-> old.next],
                    ![b] = [size |-> size, is_free |-> old.is_free,
                            next |-> new]]]
          ELSE hp

\* Faulty form: a block in use is handed out again.
Fits_used_too(hp, b, size) == hp.hdr[b].size >= size

Fits(hp, b, size) == hp.hdr[b].is_free /\ hp.hdr[b].size >= size

\* Faulty form: the walk ends at the end of the list.
kmalloc_scan_no_wrap(hp, size) ==
    LET walk[b \in Addr \cup {NULL}] ==
          IF b = NULL THEN NULL
          ELSE IF Fits(hp, b, size) THEN b
          ELSE walk[hp.hdr[b].next]
    IN  walk[hp.hint]

\* The loop of kmalloc_locked: the first block that fits, from the hint to
\* the end of the list and, once wrapped, on from heap_start up to the hint,
\* or NULL.
kmalloc_scan(hp, size) ==
    LET wrapped[b \in Addr \cup {NULL}] ==
          IF b = NULL \/ b = hp.hint THEN NULL
          ELSE IF Fits(hp, b, size) THEN b
          ELSE wrapped[hp.hdr[b].next]
        walk[b \in Addr \cup {NULL}] ==
          IF b = NULL THEN wrapped[heap_start]
          ELSE IF Fits(hp, b, size) THEN b
          ELSE walk[hp.hdr[b].next]
    IN  walk[hp.hint]

\* The rest of kmalloc_locked, for the block b the loop found.
kmalloc_locked(hp, b, size) ==
    LET split == split_block_if_needed(hp, b, size)
        block == split.hdr[b]
    IN  [split EXCEPT
           !.hdr = [@ EXCEPT ![b] = [size |-> block.size, is_free |-> FALSE,
                                     next |-> block.next]],
           !.total_allocated = (@ + block.size) % UINT32_MOD,
           !.hint = IF block.next # NULL THEN block.next ELSE heap_start]

\* Block b swallows the block behind it, whose header becomes payload; the
\* model remembers those bytes only if the hint still points to them.
absorb_next(hp, b) ==
    LET block == hp.hdr[b]
        next == hp.hdr[block.next]
    IN  [hp EXCEPT
           !.blocks = @ \ {block.next},
           !.hdr = [@ EXCEPT
               ![b] = [size |-> block.size + SIZEOF_BLOCK + next.size,
                       is_free |-> block.is_free, next |-> next.next],
               ![block.next] = IF block.next = hp.hint THEN next ELSE Blank]]

find_block_by_payload(hp, ptr) == {b \in hp.blocks : b + SIZEOF_BLOCK = ptr}

Prev(hp, b) == {p \in hp.blocks : hp.hdr[p].next = b}

\* Faulty form: the block is not merged with the one in front of it.
kfree_locked_no_prev(hp, b) ==
    LET old == hp.hdr[b]
        freed == [hp EXCEPT
                    !.hdr = [@ EXCEPT ![b] = [size |-> old.size, is_free |-> TRUE,
                                              next |-> old.next]],
                    !.total_freed = (@ + old.size) % UINT32_MOD,
                    !.hint = b]
    IN  IF old.next # NULL /\ hp.hdr[old.next].is_free
          THEN absorb_next(freed, b) ELSE freed

\* Faulty form: the freed bytes are counted after the first merge.
kfree_locked_counts_late(hp, b) ==
    LET old == hp.hdr[b]
        before == {p \in Prev(hp, b) : hp.hdr[p].is_free}
        block == IF before = {} THEN b ELSE CHOOSE p \in before : TRUE
        freed == [hp EXCEPT
                    !.hdr = [@ EXCEPT ![b] = [size |-> old.size, is_free |-> TRUE,
                                              next |-> old.next]],
                    !.hint = block]
        merged == IF old.next # NULL /\ hp.hdr[old.next].is_free
                    THEN absorb_next(freed, b) ELSE freed
        counted == [merged EXCEPT
                      !.total_freed = (@ + merged.hdr[b].size) % UINT32_MOD]
    IN  IF before = {} THEN counted ELSE absorb_next(counted, block)

\* kfree behind its checks, for the used block b: it is merged with the block
\* behind it and then into the one in front of it, and the hint is set to
\* what became of it.
kfree_locked(hp, b) ==
    LET old == hp.hdr[b]
        before == {p \in Prev(hp, b) : hp.hdr[p].is_free}
        block == IF before = {} THEN b ELSE CHOOSE p \in before : TRUE
        freed == [hp EXCEPT
                    !.hdr = [@ EXCEPT ![b] = [size |-> old.size, is_free |-> TRUE,
                                              next |-> old.next]],
                    !.total_freed = (@ + old.size) % UINT32_MOD,
                    !.hint = block]
        merged == IF old.next # NULL /\ hp.hdr[old.next].is_free
                    THEN absorb_next(freed, b) ELSE freed
    IN  IF before = {} THEN merged ELSE absorb_next(merged, block)
-----------------------------------------------------------------------------
(* The functions of Memory_Main.h *)

NoChange == UNCHANGED <<heap, owned, resized>> /\ oom' = NULL

kmalloc(size) ==
    LET aligned == align_up(size, MIN_ALLOC_ALIGN)
        found == kmalloc_scan(heap, aligned)
    IN  \/ size = 0 /\ NoChange
        \/ /\ size # 0 /\ found = NULL
           /\ oom' = aligned
           /\ UNCHANGED <<heap, owned, resized>>
        \/ /\ size # 0
           /\ \E b \in heap.blocks \cup {heap.hint} :
                 /\ b = found /\ Fits(heap, b, aligned)
                 /\ heap' = kmalloc_locked(heap, b, aligned)
                 /\ owned' = [owned EXCEPT ![b + SIZEOF_BLOCK] = size]
                 /\ oom' = NULL /\ UNCHANGED resized

\* The overflow test; zeroing the payload stays inside the total_size bytes
\* that owned records.
kcalloc(num, size) ==
    IF num # 0 /\ size > (UINT32_MOD - 1) \div num
      THEN NoChange
      ELSE kmalloc(num * size)

\* Faulty form: a block that is free already is freed again.
kfree_no_check(ptr) ==
    \/ find_block_by_payload(heap, ptr) = {} /\ NoChange
    \/ \E b \in find_block_by_payload(heap, ptr) :
          /\ heap' = kfree_locked(heap, b)
          /\ owned' = [owned EXCEPT ![ptr] = 0]
          /\ oom' = NULL /\ UNCHANGED resized

\* "Pointer not tracked" and "Double free detected" leave all as it is.
kfree(ptr) ==
    \/ find_block_by_payload(heap, ptr) = {} /\ NoChange
    \/ \E b \in find_block_by_payload(heap, ptr) :
          \/ heap.hdr[b].is_free /\ NoChange
          \/ /\ ~heap.hdr[b].is_free
             /\ heap' = kfree_locked(heap, b)
             /\ owned' = [owned EXCEPT ![ptr] = 0]
             /\ oom' = NULL /\ UNCHANGED resized

(* krealloc(ptr, new_size); with ptr NULL it is kmalloc, with new_size 0 it  *)
(* is kfree, with a ptr that is not in use it returns NULL.                  *)

InUse(ptr) == {b \in find_block_by_payload(heap, ptr) : ~heap.hdr[b].is_free}

\* Faulty form: krealloc grows into a block in use.
CanGrow_used_too(hp, b, size) ==
    /\ hp.hdr[b].next # NULL
    /\ hp.hdr[b].size + SIZEOF_BLOCK + hp.hdr[hp.hdr[b].next].size >= size

CanGrow(hp, b, size) ==
    /\ hp.hdr[b].next # NULL
    /\ hp.hdr[hp.hdr[b].next].is_free
    /\ hp.hdr[b].size + SIZEOF_BLOCK + hp.hdr[hp.hdr[b].next].size >= size

krealloc_shrink(ptr, new_size) ==
    /\ new_size # 0 /\ resized' = TRUE
    /\ \E b \in InUse(ptr) :
          LET aligned == align_up(new_size, MIN_ALLOC_ALIGN) IN
          /\ aligned <= heap.hdr[b].size
          /\ heap' = split_block_if_needed(heap, b, aligned)
          /\ owned' = [owned EXCEPT ![ptr] = new_size]
          /\ oom' = NULL

\* heap_search_hint is left alone, also when it points to the block absorbed.
krealloc_grow(ptr, new_size) ==
    /\ new_size # 0 /\ resized' = TRUE
    /\ \E b \in InUse(ptr) :
          LET aligned == align_up(new_size, MIN_ALLOC_ALIGN) IN
          /\ aligned > heap.hdr[b].size
          /\ CanGrow(heap, b, aligned)
          /\ GrowsIntoHint \/ heap.hdr[b].next # heap.hint
          /\ heap' = split_block_if_needed(absorb_next(heap, b), b, aligned)
          /\ owned' = [owned EXCEPT ![ptr] = new_size]
          /\ oom' = NULL

\* kmalloc, copy old_size bytes, kfree.
krealloc_move(ptr, new_size) ==
    /\ new_size # 0 /\ resized' = TRUE
    /\ \E b \in InUse(ptr) :
          LET aligned == align_up(new_size, MIN_ALLOC_ALIGN)
              found == kmalloc_scan(heap, aligned)
          IN
          /\ aligned > heap.hdr[b].size
          /\ ~CanGrow(heap, b, aligned)
          /\ \/ /\ found = NULL
                /\ oom' = aligned
                /\ UNCHANGED <<heap, owned>>
             \/ \E c \in heap.blocks \cup {heap.hint} :
                  /\ c = found /\ Fits(heap, c, aligned)
                  /\ heap' = kfree_locked(kmalloc_locked(heap, c, aligned), b)
                  /\ owned' = [owned EXCEPT ![ptr] = 0,
                                            ![c + SIZEOF_BLOCK] = new_size]
                  /\ oom' = NULL

Next ==
    \/ \E size \in Requests : kmalloc(size)
    \/ \E num \in Counts, size \in Requests : kcalloc(num, size)
    \/ \E ptr \in Addr : kfree(ptr)
    \/ \E ptr \in Addr, size \in Requests :
          \/ krealloc_shrink(ptr, size)
          \/ krealloc_grow(ptr, size)
          \/ krealloc_move(ptr, size)

Spec == Init /\ [][Next]_vars
-----------------------------------------------------------------------------
(* Properties *)

\* Every variable has its type.
TypeOK ==
    /\ heap \in [blocks : SUBSET Addr, hdr : [Addr -> Header], hint : Addr,
                 total_allocated : 0 .. UINT32_MOD - 1,
                 total_freed : 0 .. UINT32_MOD - 1]
    /\ owned \in [Addr -> Nat]
    /\ oom \in Nat \cup {NULL}
    /\ resized \in BOOLEAN

\* The list starts at heap_start and its blocks, headers included, fill the
\* heap without gap or overlap, each one linked to the one behind it; the
\* next search starts at a block of the list.
ListTiles ==
    /\ heap_start \in heap.blocks
    /\ heap.hint \in heap.blocks
    /\ \A b \in heap.blocks :
          IF heap.hdr[b].next = NULL
            THEN End(heap, b) = HEAP_BYTES
            ELSE /\ heap.hdr[b].next = End(heap, b)
                 /\ heap.hdr[b].next \in heap.blocks
    /\ \A b, c \in heap.blocks : b < c => End(heap, b) <= c

\* A pointer that kmalloc, kcalloc or krealloc handed out and that was not
\* freed is one kfree accepts: on the list and in use (the opposite of
\* "kfree: Pointer not tracked" and "kfree: Double free detected").
OwnedTracked ==
    \A p \in Addr : owned[p] # 0 =>
        \E b \in find_block_by_payload(heap, p) : ~heap.hdr[b].is_free

\* No memory is lost: a block in use has an owner who can free it.
UsedHasOwner ==
    \A b \in heap.blocks : ~heap.hdr[b].is_free => owned[b + SIZEOF_BLOCK] # 0

\* The blocks in use and the pointers that callers hold correspond: kfree
\* accepts every pointer that is held, and no block is lost to its callers.
OwnersMatch == OwnedTracked /\ UsedHasOwner

\* The bytes two owners asked for never overlap, nor does a header of the
\* list lie in them, and all of them are inside the heap.
AllocationsDisjoint ==
    \A p \in Addr : owned[p] # 0 =>
        /\ p + owned[p] <= HEAP_BYTES
        /\ \A b \in heap.blocks : b >= p => b >= p + owned[p]
        /\ \A q \in Addr : owned[q] # 0 /\ p < q => p + owned[p] <= q - SIZEOF_BLOCK

\* What an owner got is at least what it asked for.  kcalloc zeroes as many
\* bytes as were asked for ("kcalloc: Size overflow" is meant to refuse
\* sizes that uint32_t cannot hold).
HoldsRequest ==
    \A p \in Addr : owned[p] # 0 =>
        \E b \in find_block_by_payload(heap, p) : heap.hdr[b].size >= owned[p]

\* kfree leaves no two free blocks side by side, so that memory given back is
\* available to larger requests (krealloc, which nothing calls, does not merge).
NoAdjacentFree ==
    ~resized => \A b \in heap.blocks :
        heap.hdr[b].is_free /\ heap.hdr[b].next # NULL
            => ~heap.hdr[heap.hdr[b].next].is_free

\* get_used_memory, total_allocated - total_freed in uint32_t arithmetic, is
\* the sum of the sizes of the blocks in use, also after the counters wrap
\* (krealloc changes sizes and not the counters).
UsedMemoryExact ==
    LET used == {b \in heap.blocks : ~heap.hdr[b].is_free}
    IN  ~resized => (heap.total_allocated - heap.total_freed) % UINT32_MOD
          = MapThenSumSet(LAMBDA b : heap.hdr[b].size, used)

\* "kmalloc: Out of memory" is reported only if no free block of the list is
\* large enough, wherever the search started.
NullOnlyWhenFull ==
    oom # NULL => \A b \in heap.blocks : ~Fits(heap, b, oom)

\* A call that gives no memory to anybody and takes none from an owner, such
\* as a second kfree of the same pointer, leaves the heap as it is.
ChangesOnlyForOwners == [][~resized' /\ owned' = owned => heap' = heap]_vars

\* kmalloc and kcalloc never hand out a payload that somebody still owns
\* (krealloc may change what is owned at an address).
NeverHandedOutTwice ==
    [][~resized' => \A p \in Addr :
          owned'[p] # owned[p] => owned[p] = 0 \/ owned'[p] = 0]_vars
=============================================================================
