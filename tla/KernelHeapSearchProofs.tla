----------------------- MODULE KernelHeapSearchProofs -----------------------
(***************************************************************************)
(* Proofs about the search of kmalloc and the counters of KernelHeap: out  *)
(* of memory is reported only if no free block is large enough, and        *)
(* get_used_memory is exact.                                               *)
(***************************************************************************)
EXTENDS KernelHeapProofs, WellFoundedInduction, FiniteSetTheorems

-----------------------------------------------------------------------------
(* The search of kmalloc *)

\* A minimal element of a set of numbers is its least one.
LEMMA NotBelowLeast ==
    ASSUME NEW T, T \subseteq Nat, NEW R,
           \A x, y \in Nat : <<x, y>> \in R <=> x < y,
           NEW x \in T, \A y \in T : ~(<<y, x>> \in R)
    PROVE  \A y \in T : x <= y
<1> TAKE y \in T
<1>1. x \in Nat /\ y \in Nat
  BY Zenon
<1>2. ~(y < x)
  BY <1>1, Zenon
<1> QED
  BY <1>1, <1>2

\* A non-empty set of natural numbers has a least element.
LEMMA LeastNatural ==
    ASSUME NEW T, T \subseteq Nat, T # {}
    PROVE  \E x \in T : \A y \in T : x <= y
<1>1. IsWellFoundedOn(OpToRel(<, Nat), Nat)
  BY NatLessThanWellFounded, Zenon
<1>2. \A x, y \in Nat : <<x, y>> \in OpToRel(<, Nat) <=> x < y
  BY Zenon DEF OpToRel
<1>3. PICK x \in T : \A y \in T : ~(<<y, x>> \in OpToRel(<, Nat))
  BY <1>1, WFMin, Zenon
<1>4. \A y \in T : x <= y
  BY <1>2, <1>3, NotBelowLeast, Zenon
<1> QED
  BY <1>4, Zenon

\* A non-empty set of addresses has a greatest element.
LEMMA GreatestAddress ==
    ASSUME NEW T, T \subseteq Addr, T # {}
    PROVE  \E x \in T : \A y \in T : y <= x
<1> DEFINE U == {HEAP_BYTES - x : x \in T}
<1>1. \A x \in T : x \in Nat /\ x < HEAP_BYTES /\ HEAP_BYTES \in Nat
  BY KernelHeapAssumption DEF Addr
<1>2. U \subseteq Nat /\ U # {}
  BY <1>1
<1> HIDE DEF U
<1>3. PICK u \in U : \A w \in U : u <= w
  BY <1>2, LeastNatural, Zenon
<1>4. PICK x \in T : u = HEAP_BYTES - x
  BY Zenon DEF U
<1>5. ASSUME NEW y \in T PROVE y <= x
  <2>1. HEAP_BYTES - y \in U
    BY Zenon DEF U
  <2>2. HEAP_BYTES - x <= HEAP_BYTES - y
    BY <1>3, <1>4, <2>1, Zenon
  <2> QED
    BY <1>1, <2>2
<1> QED
  BY <1>5, Zenon

\* Both halves of the loop of kmalloc_locked: f walks the list to its end or
\* to the block "stop", where it answers v.
Walks(hp, size, stop, v, f) ==
    f = [b \in Addr \cup {NULL} |->
           IF b = NULL \/ b = stop THEN v
           ELSE IF Fits(hp, b, size) THEN b
           ELSE f[hp.hdr[b].next]]

\* The blocks a walk from b may answer.
Ahead(hp, size, stop, b) ==
    {c \in hp.blocks : /\ Fits(hp, c, size)
                       /\ b <= c /\ b # stop
                       /\ b < stop => c < stop}

\* What the walk is to answer.
FirstAhead(hp, size, stop, v, b) ==
    IF b \in hp.blocks /\ Ahead(hp, size, stop, b) # {}
      THEN CHOOSE x \in Ahead(hp, size, stop, b) :
             \A y \in Ahead(hp, size, stop, b) : x <= y
      ELSE v

\* A block that does not fit is passed over.
LEMMA PassedOver ==
    ASSUME NEW hp, HeapOK(hp), NEW size, NEW stop \in hp.blocks \cup {NULL},
           NEW b \in hp.blocks, b # stop, ~Fits(hp, b, size)
    PROVE  /\ hp.hdr[b].next = NULL => Ahead(hp, size, stop, b) = {}
           /\ hp.hdr[b].next # NULL =>
                 /\ hp.hdr[b].next \in hp.blocks
                 /\ Ahead(hp, size, stop, b) = Ahead(hp, size, stop, hp.hdr[b].next)
<1>1. Tiles(hp.blocks, hp.hdr)
  BY Zenon DEF HeapOK
<1>2. \A c \in hp.blocks : c \in Nat
  BY <1>1, BlocksInHeap, Zenon
<1>3. CASE hp.hdr[b].next = NULL
  <2>1. \A c \in hp.blocks : ~(b < c)
    <3> TAKE c \in hp.blocks
    <3>1. /\ b + SIZEOF_BLOCK + hp.hdr[b].size = HEAP_BYTES
          /\ b < c => b + SIZEOF_BLOCK + hp.hdr[b].size <= c
      BY <1>1, <1>3, Zenon DEF Tiles
    <3>2. c < HEAP_BYTES
      BY <1>1, KernelHeapAssumption DEF Tiles, Addr
    <3> QED
      BY <1>2, <3>1, <3>2, KernelHeapAssumption
  <2>2. \A c \in hp.blocks : b <= c => c = b
    BY <1>2, <2>1
  <2> QED
    BY <1>3, <2>2, Zenon DEF Ahead
<1>4. CASE hp.hdr[b].next # NULL
  <2> DEFINE n == hp.hdr[b].next
  <2>1. n \in hp.blocks /\ n > b /\ \A c \in hp.blocks : c > b => c >= n
    BY <1>1, <1>4, LinkedAreNeighbours DEF Tiles
  <2> HIDE DEF n
  <2>2. \A c \in hp.blocks : b <= c /\ c # b <=> n <= c
    BY <1>2, <2>1
  <2>3. n # stop => (b < stop <=> n < stop)
    <3>1. CASE stop = NULL
      BY <1>2, <2>1, <3>1 DEF NULL
    <3>2. CASE stop \in hp.blocks
      BY <1>2, <2>1, <3>2
    <3> QED
      BY <3>1, <3>2, Zenon
  <2>4. n = stop => \A c \in hp.blocks : ~(n <= c /\ b < stop /\ c < stop) /\ b < stop
    BY <1>2, <2>1
  <2>5. \A c \in hp.blocks : Fits(hp, c, size) => c # b
    BY Zenon
  <2>6. ASSUME n # stop PROVE Ahead(hp, size, stop, b) = Ahead(hp, size, stop, n)
    BY <2>2, <2>3, <2>5, <2>6, Zenon DEF Ahead
  <2>7. ASSUME n = stop PROVE Ahead(hp, size, stop, b) = Ahead(hp, size, stop, n)
    <3>1. Ahead(hp, size, stop, n) = {}
      BY <2>7, Zenon DEF Ahead
    <3>2. Ahead(hp, size, stop, b) = {}
      BY <2>2, <2>4, <2>5, <2>7 DEF Ahead
    <3> QED
      BY <3>1, <3>2, Zenon
  <2>8. Ahead(hp, size, stop, b) = Ahead(hp, size, stop, n)
    BY <2>6, <2>7, Zenon
  <2> QED
    BY <1>4, <2>1, <2>8, Zenon DEF n
<1> QED
  BY <1>3, <1>4, Zenon

\* FirstAhead does what one turn of the loop does.
LEMMA FirstAheadTurns ==
    ASSUME NEW hp, HeapOK(hp), NEW size, NEW stop \in hp.blocks \cup {NULL}, NEW v,
           NEW b \in Addr \cup {NULL}
    PROVE  FirstAhead(hp, size, stop, v, b)
             = IF b = NULL \/ b = stop THEN v
               ELSE IF Fits(hp, b, size) THEN b
               ELSE FirstAhead(hp, size, stop, v, hp.hdr[b].next)
<1>1. Tiles(hp.blocks, hp.hdr) /\ Unlisted(hp) /\ NULL \notin hp.blocks
  BY DEF HeapOK, Tiles, Addr, NULL
<1>2. \A c \in hp.blocks : c \in Nat
  BY <1>1, BlocksInHeap, Zenon
<1>3. CASE b = NULL
  BY <1>1, <1>3, Zenon DEF FirstAhead
<1>4. CASE b = stop
  <2>1. Ahead(hp, size, stop, b) = {}
    BY <1>4, Zenon DEF Ahead
  <2> QED
    BY <1>4, <2>1, Zenon DEF FirstAhead
<1>5. CASE b # NULL /\ b # stop /\ b \notin hp.blocks
  <2>1. hp.hdr[b] = Blank
    BY <1>1, <1>5, Zenon DEF Unlisted
  <2>2. ~Fits(hp, b, size) /\ hp.hdr[b].next = NULL
    BY <2>1 DEF Blank, Fits
  <2> QED
    BY <1>1, <1>5, <2>2, Zenon DEF FirstAhead
<1>6. CASE b # NULL /\ b # stop /\ b \in hp.blocks /\ ~Fits(hp, b, size)
  <2>1. CASE hp.hdr[b].next = NULL
    <3>1. Ahead(hp, size, stop, b) = {}
      BY <1>6, <2>1, PassedOver, Zenon
    <3> QED
      BY <1>1, <1>6, <2>1, <3>1 DEF FirstAhead
  <2>2. CASE hp.hdr[b].next # NULL
    <3>1. /\ hp.hdr[b].next \in hp.blocks
          /\ Ahead(hp, size, stop, b) = Ahead(hp, size, stop, hp.hdr[b].next)
      BY <1>6, <2>2, PassedOver, Zenon
    <3>2. FirstAhead(hp, size, stop, v, b)
            = FirstAhead(hp, size, stop, v, hp.hdr[b].next)
      BY <1>6, <3>1 DEF FirstAhead
    <3> QED
      BY <1>6, <3>2, Zenon
  <2> QED
    BY <2>1, <2>2, Zenon
<1>7. CASE b # NULL /\ b # stop /\ b \in hp.blocks /\ Fits(hp, b, size)
  <2> DEFINE A == Ahead(hp, size, stop, b)
  <2>1. b \in A /\ \A y \in A : b <= y /\ y \in Nat
    BY <1>2, <1>7 DEF Ahead
  <2> HIDE DEF A
  <2>2. \A x \in A : (\A y \in A : x <= y) => x = b
    BY <1>2, <1>7, <2>1
  <2>3. (CHOOSE x \in A : \A y \in A : x <= y) = b
    BY <2>1, <2>2, Zenon
  <2>4. FirstAhead(hp, size, stop, v, b) = b
    BY <1>7, <2>1, <2>3 DEF FirstAhead, A
  <2> QED
    BY <1>7, <2>4, Zenon
<1> QED
  BY <1>3, <1>4, <1>5, <1>6, <1>7

\* There is a walk, and it answers the first block that fits.
LEMMA WalkAnswers ==
    ASSUME NEW hp, HeapOK(hp), NEW size, NEW stop \in hp.blocks \cup {NULL}, NEW v
    PROVE  /\ \E f : Walks(hp, size, stop, v, f)
           /\ \A f : Walks(hp, size, stop, v, f) =>
                 \A b \in Addr \cup {NULL} : f[b] = FirstAhead(hp, size, stop, v, b)
<1>1. /\ Tiles(hp.blocks, hp.hdr) /\ Unlisted(hp) /\ hp.blocks \subseteq Addr
      /\ hp.hdr \in [Addr -> Header]
  BY Zenon DEF HeapOK, Tiles
<1>2. \A b \in Addr : b # NULL /\ b \in Nat /\ hp.hdr[b].next \in Addr \cup {NULL}
  BY <1>1, KernelHeapAssumption DEF Header, Addr, NULL
<1>3. \E f : Walks(hp, size, stop, v, f)
  <2> DEFINE w == [b \in Addr \cup {NULL} |-> FirstAhead(hp, size, stop, v, b)]
             t == [b \in Addr \cup {NULL} |->
                     IF b = NULL \/ b = stop THEN v
                     ELSE IF Fits(hp, b, size) THEN b
                     ELSE w[hp.hdr[b].next]]
  <2>1. ASSUME NEW b \in Addr \cup {NULL} PROVE w[b] = t[b]
    <3>1. w[b] = FirstAhead(hp, size, stop, v, b)
      BY Zenon
    <3>2. b # NULL => w[hp.hdr[b].next] = FirstAhead(hp, size, stop, v, hp.hdr[b].next)
      BY <1>2, Zenon
    <3>3. t[b] = IF b = NULL \/ b = stop THEN v
                 ELSE IF Fits(hp, b, size) THEN b
                 ELSE w[hp.hdr[b].next]
      BY Zenon
    <3> HIDE DEF w, t
    <3> QED
      BY <3>1, <3>2, <3>3, FirstAheadTurns
  <2>2. w = t
    BY <2>1, Zenon
  <2>3. Walks(hp, size, stop, v, w)
    BY <2>2, Zenon DEF Walks
  <2> QED
    BY <2>3, Zenon
<1>4. ASSUME NEW f, Walks(hp, size, stop, v, f)
      PROVE  \A b \in Addr \cup {NULL} : f[b] = FirstAhead(hp, size, stop, v, b)
  <2>1. \A b \in Addr \cup {NULL} :
           f[b] = IF b = NULL \/ b = stop THEN v
                  ELSE IF Fits(hp, b, size) THEN b
                  ELSE f[hp.hdr[b].next]
    <3> DEFINE t == [b \in Addr \cup {NULL} |->
                       IF b = NULL \/ b = stop THEN v
                       ELSE IF Fits(hp, b, size) THEN b
                       ELSE f[hp.hdr[b].next]]
    <3>1. f = t
      BY <1>4, Zenon DEF Walks
    <3>2. \A b \in Addr \cup {NULL} :
             t[b] = IF b = NULL \/ b = stop THEN v
                    ELSE IF Fits(hp, b, size) THEN b
                    ELSE f[hp.hdr[b].next]
      BY Zenon
    <3> HIDE DEF t
    <3> QED
      BY <3>1, <3>2, Zenon
  <2>2. f[NULL] = FirstAhead(hp, size, stop, v, NULL)
    BY <2>1, FirstAheadTurns
  <2>3. ASSUME NEW b \in Addr, b \notin hp.blocks
        PROVE  f[b] = FirstAhead(hp, size, stop, v, b)
    <3>1. ~Fits(hp, b, size) /\ hp.hdr[b].next = NULL
      BY <1>1, <2>3 DEF Unlisted, Blank, Fits
    <3> QED
      BY <2>1, <2>2, <3>1, FirstAheadTurns
  <2> DEFINE bad == {b \in hp.blocks : f[b] # FirstAhead(hp, size, stop, v, b)}
  <2>4. ASSUME bad # {} PROVE FALSE
    <3>1. PICK b \in bad : \A c \in bad : c <= b
      BY <1>1, <2>4, GreatestAddress, Zenon
    <3>2. b \in hp.blocks /\ f[b] # FirstAhead(hp, size, stop, v, b) /\ b \in Addr
      BY <1>1, Zenon
    <3> DEFINE n == hp.hdr[b].next
    <3>3. b # stop /\ ~Fits(hp, b, size) /\ f[n] # FirstAhead(hp, size, stop, v, n)
      BY <1>2, <2>1, <3>2, FirstAheadTurns
    <3>4. n # NULL
      BY <2>2, <3>3, Zenon
    <3>5. n \in hp.blocks /\ n > b /\ n \in Nat /\ b \in Nat
      BY <1>1, <1>2, <3>2, <3>4, LinkedAreNeighbours DEF Tiles
    <3>6. n \in bad
      BY <3>3, <3>5, Zenon
    <3> QED
      BY <3>1, <3>5, <3>6
  <2>5. \A b \in hp.blocks : f[b] = FirstAhead(hp, size, stop, v, b)
    BY <2>4
  <2> QED
    BY <2>2, <2>3, <2>5, Zenon
<1> QED
  BY <1>3, <1>4, Zenon

\* kmalloc_locked is made of two walks.
LEMMA ScanIsTwoWalks ==
    ASSUME NEW hp, HeapOK(hp), NEW size
    PROVE  kmalloc_scan(hp, size)
             = FirstAhead(hp, size, NULL,
                          FirstAhead(hp, size, hp.hint, NULL, heap_start), hp.hint)
<1> DEFINE wrapped == CHOOSE f : Walks(hp, size, hp.hint, NULL, f)
           walk == CHOOSE f : Walks(hp, size, NULL, wrapped[heap_start], f)
<1>1. /\ hp.hint \in hp.blocks /\ hp.hint \in Addr
      /\ heap_start \in hp.blocks /\ heap_start \in Addr
  BY Zenon DEF HeapOK, Tiles
<1>2. kmalloc_scan(hp, size) = walk[hp.hint]
  BY Zenon DEF kmalloc_scan, Walks
<1>3. Walks(hp, size, hp.hint, NULL, wrapped)
  BY <1>1, WalkAnswers, Zenon
<1> HIDE DEF wrapped
<1>4. wrapped[heap_start] = FirstAhead(hp, size, hp.hint, NULL, heap_start)
  BY <1>1, <1>3, WalkAnswers
<1>5. Walks(hp, size, NULL, wrapped[heap_start], walk)
  BY WalkAnswers, Zenon
<1> HIDE DEF walk
<1>6. walk[hp.hint] = FirstAhead(hp, size, NULL, wrapped[heap_start], hp.hint)
  BY <1>1, <1>5, WalkAnswers
<1> QED
  BY <1>2, <1>4, <1>6, Zenon

\* The search finds a block of the list that fits, wherever it starts, and
\* answers NULL only if there is none.
LEMMA ScanFindsAFit ==
    ASSUME NEW hp, HeapOK(hp), NEW size
    PROVE  LET found == kmalloc_scan(hp, size) IN
           /\ found = NULL => \A b \in hp.blocks : ~Fits(hp, b, size)
           /\ found # NULL => found \in hp.blocks /\ Fits(hp, found, size)
<1> DEFINE low == FirstAhead(hp, size, hp.hint, NULL, heap_start)
           high == FirstAhead(hp, size, NULL, low, hp.hint)
           L == Ahead(hp, size, hp.hint, heap_start)
           H == Ahead(hp, size, NULL, hp.hint)
<1>1. /\ hp.hint \in hp.blocks /\ heap_start \in hp.blocks /\ NULL \notin hp.blocks
      /\ Tiles(hp.blocks, hp.hdr)
  BY DEF HeapOK, Tiles, Addr, NULL
<1>2. \A c \in hp.blocks : c \in Nat
  BY <1>1, BlocksInHeap, Zenon
<1>3. \A T : T \subseteq hp.blocks /\ T # {} =>
         (CHOOSE x \in T : \A y \in T : x <= y) \in T
  <2> TAKE T
  <2> HAVE T \subseteq hp.blocks /\ T # {}
  <2>1. \E x \in T : \A y \in T : x <= y
    BY <1>2, LeastNatural, Zenon
  <2> QED
    BY <2>1, Zenon
<1>4. /\ L \subseteq hp.blocks /\ H \subseteq hp.blocks
      /\ \A c \in L \cup H : Fits(hp, c, size)
  BY Zenon DEF Ahead
<1>5. low \in L \/ (L = {} /\ low = NULL)
  BY <1>1, <1>3, <1>4, Zenon DEF FirstAhead
<1>6. high \in H \/ (H = {} /\ high = low)
  <2> HIDE DEF low
  <2> QED
    BY <1>1, <1>3, <1>4 DEF FirstAhead
<1>7. ASSUME L = {}, H = {}, NEW b \in hp.blocks, Fits(hp, b, size) PROVE FALSE
  <2>1. ~(hp.hint <= b)
    <3>1. ~(hp.hint < NULL) /\ hp.hint # NULL
      BY <1>1, <1>2 DEF NULL
    <3> QED
      BY <1>7, <3>1 DEF Ahead
  <2>2. heap_start <= b /\ b < hp.hint /\ heap_start # hp.hint
    BY <1>1, <1>2, <2>1 DEF heap_start
  <2> QED
    BY <1>7, <2>2, Zenon DEF Ahead
<1>8. kmalloc_scan(hp, size) = high
  BY ScanIsTwoWalks, Zenon
<1> HIDE DEF low, high, L, H
<1> QED
  BY <1>1, <1>4, <1>5, <1>6, <1>7, <1>8, Zenon

-----------------------------------------------------------------------------
(* The sum of the sizes of a set of blocks *)

\* p[k] is the sum of v over the addresses of s below k.
Prefix(v, s, n, p) ==
    /\ p \in [0 .. n -> Nat]
    /\ p[0] = 0
    /\ \A k \in 0 .. n - 1 : p[k + 1] = p[k] + (IF k \in s THEN v[k] ELSE 0)

SumOf(v, s) == CHOOSE x : \E p : Prefix(v, s, HEAP_BYTES, p) /\ x = p[HEAP_BYTES]

\* Partial sums exist up to every address.
LEMMA PrefixExists ==
    ASSUME NEW v \in [Addr -> Nat], NEW s
    PROVE  \E p : Prefix(v, s, HEAP_BYTES, p)
<1> DEFINE bad == {n \in 0 .. HEAP_BYTES : ~ \E p : Prefix(v, s, n, p)}
<1>1. HEAP_BYTES \in Nat
  BY KernelHeapAssumption, Zenon
<1> SUFFICES ASSUME bad # {} PROVE FALSE
  BY <1>1
<1>2. bad \subseteq Nat
  BY <1>1
<1>3. PICK m \in bad : \A n \in bad : m <= n
  <2> HIDE DEF bad
  <2> QED
    BY <1>2, LeastNatural, Zenon
<1>4. m \in 0 .. HEAP_BYTES /\ ~ \E p : Prefix(v, s, m, p)
  BY Zenon
<1>5. CASE m = 0
  <2> DEFINE p == [k \in 0 .. 0 |-> 0]
  <2>1. Prefix(v, s, 0, p)
    BY DEF Prefix
  <2> QED
    BY <1>4, <1>5, <2>1, Zenon
<1>6. CASE m # 0
  <2>1. m - 1 \in 0 .. HEAP_BYTES /\ ~(m <= m - 1) /\ m - 1 \in Addr /\ m \in Nat
    BY <1>1, <1>4, <1>6 DEF Addr
  <2>2. PICK p : Prefix(v, s, m - 1, p)
    BY <1>3, <2>1, Zenon
  <2> DEFINE last == p[m - 1] + (IF m - 1 \in s THEN v[m - 1] ELSE 0)
             q == [k \in 0 .. m |-> IF k < m THEN p[k] ELSE last]
  <2>3. p \in [0 .. m - 1 -> Nat] /\ p[0] = 0 /\ last \in Nat
    BY <2>1, <2>2 DEF Prefix
  <2>4. q \in [0 .. m -> Nat] /\ q[0] = 0
    <3> HIDE DEF last
    <3> QED
      BY <1>6, <2>1, <2>3
  <2>5. ASSUME NEW k \in 0 .. m - 1
        PROVE  q[k + 1] = q[k] + (IF k \in s THEN v[k] ELSE 0)
    <3>1. CASE k = m - 1
      <4>1. q[k + 1] = last /\ q[k] = p[m - 1]
        <5> HIDE DEF last
        <5> QED
          BY <2>1, <3>1
      <4> QED
        BY <3>1, <4>1, Zenon
    <3>2. CASE k # m - 1
      <4>1. k \in 0 .. (m - 1) - 1 /\ k + 1 \in 0 .. m /\ k + 1 < m /\ k < m
            /\ k \in 0 .. m
        BY <2>1, <3>2
      <4>2. q[k + 1] = p[k + 1] /\ q[k] = p[k]
        <5> HIDE DEF last
        <5> QED
          BY <4>1, Zenon
      <4> QED
        BY <2>2, <4>1, <4>2, Zenon DEF Prefix
    <3> QED
      BY <3>1, <3>2, Zenon
  <2>6. Prefix(v, s, m, q)
    <3> HIDE DEF q
    <3> QED
      BY <2>4, <2>5, Zenon DEF Prefix
  <2> QED
    BY <1>4, <2>6, Zenon
<1> QED
  BY <1>5, <1>6, Zenon

\* Partial sums depend only on the values at the addresses that are summed.
LEMMA PrefixUnique ==
    ASSUME NEW v, NEW w, NEW s, \A k \in s : v[k] = w[k],
           NEW p, Prefix(v, s, HEAP_BYTES, p), NEW q, Prefix(w, s, HEAP_BYTES, q)
    PROVE  p[HEAP_BYTES] = q[HEAP_BYTES]
<1> DEFINE bad == {n \in 0 .. HEAP_BYTES : p[n] # q[n]}
<1>1. HEAP_BYTES \in Nat
  BY KernelHeapAssumption, Zenon
<1> SUFFICES ASSUME bad # {} PROVE FALSE
  BY <1>1
<1>2. bad \subseteq Nat
  BY <1>1
<1>3. PICK m \in bad : \A n \in bad : m <= n
  <2> HIDE DEF bad
  <2> QED
    BY <1>2, LeastNatural, Zenon
<1>4. m \in 0 .. HEAP_BYTES /\ p[m] # q[m] /\ m # 0
  BY Zenon DEF Prefix
<1>5. m - 1 \in 0 .. HEAP_BYTES - 1 /\ ~(m <= m - 1) /\ (m - 1) + 1 = m
      /\ m - 1 \in 0 .. HEAP_BYTES
  BY <1>1, <1>4
<1>6. p[m - 1] = q[m - 1]
  BY <1>3, <1>5, Zenon
<1>7. /\ p[m] = p[m - 1] + (IF m - 1 \in s THEN v[m - 1] ELSE 0)
      /\ q[m] = q[m - 1] + (IF m - 1 \in s THEN w[m - 1] ELSE 0)
  BY <1>5, Zenon DEF Prefix
<1> QED
  BY <1>4, <1>6, <1>7, Zenon

\* SumOf is the last partial sum.
LEMMA SumOfIsLast ==
    ASSUME NEW v \in [Addr -> Nat], NEW s, NEW p, Prefix(v, s, HEAP_BYTES, p)
    PROVE  SumOf(v, s) = p[HEAP_BYTES] /\ SumOf(v, s) \in Nat
<1>1. \A q : Prefix(v, s, HEAP_BYTES, q) => q[HEAP_BYTES] = p[HEAP_BYTES]
  BY PrefixUnique
<1>2. SumOf(v, s) = p[HEAP_BYTES]
  BY <1>1, Zenon DEF SumOf
<1>3. p[HEAP_BYTES] \in Nat
  BY KernelHeapAssumption DEF Prefix
<1> QED
  BY <1>2, <1>3, Zenon

\* Nothing sums to 0.
LEMMA SumOfNothing ==
    ASSUME NEW v \in [Addr -> Nat]
    PROVE  SumOf(v, {}) = 0
<1> DEFINE p == [k \in 0 .. HEAP_BYTES |-> 0]
<1>1. Prefix(v, {}, HEAP_BYTES, p) /\ p[HEAP_BYTES] = 0
  BY KernelHeapAssumption DEF Prefix
<1> HIDE DEF p
<1> QED
  BY <1>1, SumOfIsLast, Zenon

\* One more address adds its value.
LEMMA SumOfOneMore ==
    ASSUME NEW v \in [Addr -> Nat], NEW s, NEW x \in Addr, x \notin s
    PROVE  SumOf(v, s \cup {x}) = SumOf(v, s) + v[x]
<1>1. PICK p : Prefix(v, s, HEAP_BYTES, p)
  BY PrefixExists, Zenon
<1> DEFINE q == [k \in 0 .. HEAP_BYTES |-> IF k <= x THEN p[k] ELSE p[k] + v[x]]
<1>2. x \in Nat /\ x < HEAP_BYTES /\ HEAP_BYTES \in Nat /\ v[x] \in Nat
  BY KernelHeapAssumption DEF Addr
<1>3. p \in [0 .. HEAP_BYTES -> Nat] /\ p[0] = 0
  BY <1>1, Zenon DEF Prefix
<1>4. q \in [0 .. HEAP_BYTES -> Nat] /\ q[0] = 0
      /\ q[HEAP_BYTES] = p[HEAP_BYTES] + v[x]
  BY <1>2, <1>3
<1>5. ASSUME NEW k \in 0 .. HEAP_BYTES - 1
      PROVE  q[k + 1] = q[k] + (IF k \in s \cup {x} THEN v[k] ELSE 0)
  <2>1. /\ k \in 0 .. HEAP_BYTES /\ k + 1 \in 0 .. HEAP_BYTES /\ k \in Addr
        /\ v[k] \in Nat /\ k \in Nat
    BY <1>2 DEF Addr
  <2>2. p[k + 1] = p[k] + (IF k \in s THEN v[k] ELSE 0)
    BY <1>1, Zenon DEF Prefix
  <2>3. /\ q[k] = IF k <= x THEN p[k] ELSE p[k] + v[x]
        /\ q[k + 1] = IF k + 1 <= x THEN p[k + 1] ELSE p[k + 1] + v[x]
        /\ p[k] \in Nat /\ p[k + 1] \in Nat
    BY <1>3, <2>1, Zenon
  <2> HIDE DEF q
  <2>4. CASE k = x
    BY <1>2, <2>1, <2>2, <2>3, <2>4
  <2>5. CASE k < x
    BY <1>2, <2>1, <2>2, <2>3, <2>5
  <2>6. CASE k > x
    <3>1. q[k] = p[k] + v[x] /\ q[k + 1] = p[k + 1] + v[x]
      BY <1>2, <2>1, <2>3, <2>6
    <3> QED
      BY <1>2, <2>1, <2>2, <2>3, <2>6, <3>1
  <2> QED
    BY <1>2, <2>1, <2>4, <2>5, <2>6
<1> HIDE DEF q
<1>6. Prefix(v, s \cup {x}, HEAP_BYTES, q)
  BY <1>4, <1>5, Zenon DEF Prefix
<1>7. SumOf(v, s) = p[HEAP_BYTES]
  BY <1>1, SumOfIsLast, Zenon
<1>8. SumOf(v, s \cup {x}) = q[HEAP_BYTES]
  BY <1>6, SumOfIsLast
<1> QED
  BY <1>4, <1>7, <1>8, Zenon

\* The sum is that of the values at the addresses that are summed.
LEMMA SumOfSame ==
    ASSUME NEW v \in [Addr -> Nat], NEW w \in [Addr -> Nat], NEW s,
           \A k \in s : v[k] = w[k]
    PROVE  SumOf(v, s) = SumOf(w, s)
<1>1. PICK p : Prefix(v, s, HEAP_BYTES, p)
  BY PrefixExists, Zenon
<1>2. PICK q : Prefix(w, s, HEAP_BYTES, q)
  BY PrefixExists, Zenon
<1>3. p[HEAP_BYTES] = q[HEAP_BYTES]
  BY <1>1, <1>2, PrefixUnique
<1> QED
  BY <1>1, <1>2, <1>3, SumOfIsLast

SizesOf(h) == [a \in Addr |-> h[a].size]

\* The sizes of blocks that fill the heap, headers left out, sum up to no more
\* than the heap.
LEMMA SizesFitTheHeap ==
    ASSUME NEW B, NEW h, Tiles(B, h), NEW s \in SUBSET B
    PROVE  SumOf(SizesOf(h), s) <= HEAP_BYTES
<1> DEFINE v == SizesOf(h)
<1>1. /\ h \in [Addr -> Header] /\ v \in [Addr -> Nat] /\ B \subseteq Addr
      /\ \A a \in Addr : v[a] = h[a].size
  BY Zenon DEF Tiles, SizesOf, Header
<1>2. HEAP_BYTES \in Nat /\ SIZEOF_BLOCK \in Nat
  BY KernelHeapAssumption, Zenon
<1> HIDE DEF v
<1>3. PICK p : Prefix(v, s, HEAP_BYTES, p)
  BY <1>1, PrefixExists, Zenon
<1>4. p \in [0 .. HEAP_BYTES -> Nat] /\ p[0] = 0
  BY <1>3, Zenon DEF Prefix
<1> DEFINE Below(n) == p[n] <= HEAP_BYTES /\ \A c \in B : n <= c => p[n] <= c
           bad == {n \in 0 .. HEAP_BYTES : ~Below(n)}
<1>5. ASSUME bad # {} PROVE FALSE
  <2>1. bad \subseteq Nat
    BY <1>2
  <2>2. PICK m \in bad : \A n \in bad : m <= n
    <3> HIDE DEF bad
    <3> QED
      BY <1>5, <2>1, LeastNatural, Zenon
  <2>3. m \in 0 .. HEAP_BYTES /\ ~Below(m)
    BY Zenon
  <2>4. \A c \in B : c \in Nat
    BY <1>1 DEF Addr
  <2>5. m # 0
    BY <1>2, <1>4, <2>3, <2>4
  <2> DEFINE k == m - 1
  <2>6. /\ k \in 0 .. HEAP_BYTES - 1 /\ k \in 0 .. HEAP_BYTES /\ ~(m <= k)
        /\ k + 1 = m /\ k \in Addr /\ k \in Nat
    BY <1>2, <2>3, <2>5 DEF Addr
  <2> HIDE DEF k
  <2>7. Below(k)
    BY <2>2, <2>6
  <2>8. p[m] = p[k] + (IF k \in s THEN v[k] ELSE 0) /\ p[k] \in Nat
    BY <1>3, <1>4, <2>6, Zenon DEF Prefix
  <2>9. CASE k \notin s
    BY <2>3, <2>4, <2>6, <2>7, <2>8, <2>9
  <2>10. CASE k \in s
    <3>1. k \in B /\ h[k].size \in Nat /\ k + SIZEOF_BLOCK + h[k].size <= HEAP_BYTES
      BY <2>10, BlocksInHeap
    <3>2. p[m] <= k + h[k].size /\ p[m] \in Nat
      BY <1>1, <2>6, <2>7, <2>8, <2>10, <3>1
    <3>3. p[m] <= HEAP_BYTES
      BY <1>2, <2>6, <3>1, <3>2
    <3>4. ASSUME NEW c \in B, m <= c PROVE p[m] <= c
      <4>1. k < c /\ c \in Nat
        BY <2>4, <2>6, <3>4
      <4>2. k + SIZEOF_BLOCK + h[k].size <= c
        BY <3>1, <4>1 DEF Tiles
      <4> QED
        BY <1>2, <2>6, <3>1, <3>2, <4>1, <4>2
    <3> QED
      BY <2>3, <3>3, <3>4, Zenon
  <2> QED
    BY <2>9, <2>10, Zenon
<1>6. Below(HEAP_BYTES)
  BY <1>2, <1>5
<1>7. SumOf(v, s) = p[HEAP_BYTES]
  BY <1>1, <1>3, SumOfIsLast, Zenon
<1> QED
  BY <1>6, <1>7, Zenon DEF v

\* What MapThenSumSet chooses: f sums sizes over every subset of S.
Sums(h, S, f) ==
    f = [s \in SUBSET S |->
           IF s = {} THEN 0
           ELSE h[CHOOSE x \in s : TRUE].size + f[s \ {CHOOSE x \in s : TRUE}]]

\* MapThenSumSet of the sizes is their sum.
LEMMA SizesAreSummed ==
    ASSUME NEW h \in [Addr -> Header], NEW S \in SUBSET Addr
    PROVE  MapThenSumSet(LAMBDA b : h[b].size, S) = SumOf(SizesOf(h), S)
<1> DEFINE v == SizesOf(h)
           f == CHOOSE g : Sums(h, S, g)
           Pick(s) == CHOOSE x \in s : TRUE
<1>1. MapThenSumSet(LAMBDA b : h[b].size, S) = f[S]
  BY Zenon DEF MapThenSumSet, MapThenFoldSet, Sums
<1>2. v \in [Addr -> Nat] /\ \A a \in Addr : v[a] = h[a].size
  BY Zenon DEF SizesOf, Header
<1> HIDE DEF v
<1>3. \A s \in SUBSET S : s # {} => Pick(s) \in s /\ Pick(s) \in Addr
  BY Zenon
<1> HIDE DEF Pick
<1>4. ASSUME NEW s \in SUBSET S, s # {}
      PROVE  SumOf(v, s) = h[Pick(s)].size + SumOf(v, s \ {Pick(s)})
  <2> DEFINE r == s \ {Pick(s)}
  <2>1. Pick(s) \in s /\ Pick(s) \in Addr /\ Pick(s) \notin r
    BY <1>3, <1>4, Zenon
  <2>2. r \cup {Pick(s)} = s
    BY <2>1, Zenon
  <2> HIDE DEF r
  <2>3. SumOf(v, s) = SumOf(v, r) + v[Pick(s)]
    BY <1>2, <2>1, <2>2, SumOfOneMore
  <2>4. SumOf(v, r) \in Nat /\ v[Pick(s)] = h[Pick(s)].size /\ v[Pick(s)] \in Nat
    BY <1>2, <2>1, PrefixExists, SumOfIsLast, Zenon
  <2> QED
    BY <2>3, <2>4 DEF r
<1>5. Sums(h, S, f)
  <2> DEFINE g == [s \in SUBSET S |-> SumOf(v, s)]
             t == [s \in SUBSET S |->
                     IF s = {} THEN 0 ELSE h[Pick(s)].size + g[s \ {Pick(s)}]]
  <2>1. ASSUME NEW s \in SUBSET S PROVE g[s] = t[s]
    <3>1. g[s] = SumOf(v, s) /\ g[s \ {Pick(s)}] = SumOf(v, s \ {Pick(s)})
      BY Zenon
    <3>2. t[s] = IF s = {} THEN 0 ELSE h[Pick(s)].size + g[s \ {Pick(s)}]
      BY Zenon
    <3> HIDE DEF g, t
    <3>3. CASE s = {}
      BY <1>2, <3>1, <3>2, <3>3, SumOfNothing
    <3>4. CASE s # {}
      BY <1>4, <3>1, <3>2, <3>4, Zenon
    <3> QED
      BY <3>3, <3>4, Zenon
  <2>2. g = t
    BY <2>1, Zenon
  <2>3. Sums(h, S, g)
    BY <2>2, Zenon DEF Sums, Pick
  <2> QED
    BY <2>3, Zenon
<1> HIDE DEF f
<1>6. \A s \in SUBSET S :
         f[s] = IF s = {} THEN 0 ELSE h[Pick(s)].size + f[s \ {Pick(s)}]
  <2> DEFINE t == [s \in SUBSET S |->
                     IF s = {} THEN 0 ELSE h[Pick(s)].size + f[s \ {Pick(s)}]]
  <2>1. f = t
    BY <1>5, Zenon DEF Sums, Pick
  <2>2. \A s \in SUBSET S :
           t[s] = IF s = {} THEN 0 ELSE h[Pick(s)].size + f[s \ {Pick(s)}]
    BY Zenon
  <2> HIDE DEF t
  <2> QED
    BY <2>1, <2>2, Zenon
<1>7. \A s \in SUBSET S : IsFiniteSet(s) /\ Cardinality(s) \in Nat
  <2>1. IsFiniteSet(Addr)
    BY KernelHeapAssumption, FS_Interval DEF Addr
  <2> QED
    BY <2>1, FS_Subset, FS_CardinalityType, Zenon
<1> DEFINE bad == {s \in SUBSET S : f[s] # SumOf(v, s)}
           sizes == {Cardinality(s) : s \in bad}
<1>8. ASSUME bad # {} PROVE FALSE
  <2>1. sizes \subseteq Nat /\ sizes # {}
    BY <1>7, <1>8, Zenon
  <2>2. PICK n \in sizes : \A j \in sizes : n <= j
    <3> HIDE DEF sizes
    <3> QED
      BY <2>1, LeastNatural, Zenon
  <2>3. PICK s \in bad : n = Cardinality(s)
    BY Zenon
  <2>4. s \in SUBSET S /\ f[s] # SumOf(v, s)
    OBVIOUS
  <2>5. s # {}
    BY <1>2, <1>6, <2>4, SumOfNothing, Zenon
  <2> DEFINE r == s \ {Pick(s)}
  <2>6. r \in SUBSET S /\ f[r] # SumOf(v, r)
    BY <1>4, <1>6, <2>4, <2>5
  <2>7. Cardinality(r) = Cardinality(s) - 1
    BY <1>3, <1>7, <2>4, <2>5, FS_RemoveElement, Zenon
  <2> HIDE DEF r
  <2>8. Cardinality(r) \in sizes
    BY <2>6
  <2>9. Cardinality(s) <= Cardinality(r)
    <3> HIDE DEF sizes, bad
    <3> QED
      BY <2>2, <2>3, <2>8, Zenon
  <2> QED
    BY <1>7, <2>4, <2>7, <2>9
<1> QED
  BY <1>1, <1>8, Zenon DEF v

-----------------------------------------------------------------------------
(* get_used_memory *)

Used(hp) == {b \in hp.blocks : ~hp.hdr[b].is_free}

\* UsedMemoryExact for a heap record.
Counted(hp) ==
    (hp.total_allocated - hp.total_freed) % UINT32_MOD = SumOf(SizesOf(hp.hdr), Used(hp))

\* uint32_t arithmetic one turn around 0.
LEMMA WrapsOnce ==
    ASSUME NEW M \in Nat \ {0}
    PROVE  /\ \A x \in Int : 0 <= x /\ x < M => x % M = x
           /\ \A x \in Int : x < 0 /\ 0 <= x + M => x % M = x + M
           /\ \A x \in Int : M <= x /\ x < M + M => x % M = x - M
<1>1. ASSUME NEW x \in Int, x < 0, 0 <= x + M PROVE x % M = x + M
  <2>1. x + M \in 0 .. M - 1
    BY <1>1
  <2> QED
    BY <1>1, <2>1
<1>2. ASSUME NEW x \in Int, 0 <= x, x < M PROVE x % M = x
  BY <1>2
<1>3. ASSUME NEW x \in Int, M <= x, x < M + M PROVE x % M = x - M
  <2>1. x - M \in 0 .. M - 1
    BY <1>3
  <2> QED
    BY <1>3, <2>1
<1> QED
  BY <1>1, <1>2, <1>3

\* Counting bytes in total_allocated adds them to the difference.
LEMMA CountsUp ==
    ASSUME NEW M \in Nat \ {0}, NEW a \in 0 .. M - 1, NEW f \in 0 .. M - 1, NEW z \in Nat,
           NEW x \in Nat, (a - f) % M = x, x + z < M
    PROVE  (((a + z) % M) - f) % M = x + z
<1>0. z < M
  OBVIOUS
<1>1. (a + z) % M = IF a + z < M THEN a + z ELSE a + z - M
  <2>1. 0 <= a + z /\ a + z < M + M /\ a + z \in Int
    BY <1>0
  <2>2. PICK t \in Int : t = a + z
    BY <2>1, Zenon
  <2>3. t % M = IF t < M THEN t ELSE t - M
    <3>1. 0 <= t /\ t < M + M
      BY <2>1, <2>2, Zenon
    <3>2. CASE t < M
      BY <3>1, <3>2, WrapsOnce
    <3>3. CASE M <= t
      BY <3>1, <3>3, WrapsOnce, Zenon
    <3> QED
      BY <3>2, <3>3
  <2> QED
    BY <2>2, <2>3
<1>2. x = IF a - f < 0 THEN a - f + M ELSE a - f
  <2>1. 0 <= a - f + M /\ a - f < M /\ a - f \in Int
    OBVIOUS
  <2>2. a - f < 0 => (a - f) % M = a - f + M
    BY <2>1, WrapsOnce, Zenon
  <2>3. 0 <= a - f => (a - f) % M = a - f
    BY <2>1, WrapsOnce, Zenon
  <2> QED
    BY <2>1, <2>2, <2>3
<1> DEFINE d == ((a + z) % M) - f
<1>3. d \in Int /\ 0 <= d + M /\ d < M
  BY <1>1
<1>4. d = x + z \/ d + M = x + z
  BY <1>1, <1>2
<1> HIDE DEF d
<1>5. d % M = IF d < 0 THEN d + M ELSE d
  <2>1. d < 0 => d % M = d + M
    BY <1>3, WrapsOnce, Zenon
  <2>2. 0 <= d => d % M = d
    BY <1>3, WrapsOnce, Zenon
  <2> QED
    BY <1>3, <2>1, <2>2
<1>6. d % M = x + z
  BY <1>3, <1>4, <1>5
<1> QED
  BY <1>6, Zenon DEF d

\* Counting bytes in total_freed takes them from the difference.
LEMMA CountsDown ==
    ASSUME NEW M \in Nat \ {0}, NEW a \in 0 .. M - 1, NEW f \in 0 .. M - 1, NEW z \in Nat,
           NEW x \in Nat, (a - f) % M = x + z
    PROVE  (a - ((f + z) % M)) % M = x
<1>1. x + z = IF a - f < 0 THEN a - f + M ELSE a - f
  <2>1. 0 <= a - f + M /\ a - f < M /\ a - f \in Int
    OBVIOUS
  <2>2. a - f < 0 => (a - f) % M = a - f + M
    BY <2>1, WrapsOnce, Zenon
  <2>3. 0 <= a - f => (a - f) % M = a - f
    BY <2>1, WrapsOnce, Zenon
  <2> QED
    BY <2>1, <2>2, <2>3
<1>2. z < M /\ x < M
  BY <1>1
<1>3. (f + z) % M = IF f + z < M THEN f + z ELSE f + z - M
  <2>1. 0 <= f + z /\ f + z < M + M /\ f + z \in Int
    BY <1>2
  <2>2. PICK t \in Int : t = f + z
    BY <2>1, Zenon
  <2>3. t % M = IF t < M THEN t ELSE t - M
    <3>1. 0 <= t /\ t < M + M
      BY <2>1, <2>2, Zenon
    <3>2. CASE t < M
      BY <3>1, <3>2, WrapsOnce, Zenon
    <3>3. CASE M <= t
      BY <3>1, <3>3, WrapsOnce, Zenon
    <3> QED
      BY <3>2, <3>3
  <2> QED
    BY <2>2, <2>3
<1> DEFINE d == a - ((f + z) % M)
<1>4. d \in Int /\ 0 <= d + M /\ d < M
  BY <1>2, <1>3
<1>5. d = x \/ d + M = x
  BY <1>1, <1>2, <1>3
<1> HIDE DEF d
<1>6. d % M = IF d < 0 THEN d + M ELSE d
  <2>1. d < 0 => d % M = d + M
    BY <1>4, WrapsOnce, Zenon
  <2>2. 0 <= d => d % M = d
    BY <1>4, WrapsOnce
  <2> QED
    BY <1>4, <2>1, <2>2
<1>7. d % M = x
  BY <1>2, <1>4, <1>5, <1>6
<1> QED
  BY <1>7, Zenon DEF d

\* The types of what is counted.
LEMMA CountedTypes ==
    ASSUME NEW hp, HeapOK(hp)
    PROVE  /\ SizesOf(hp.hdr) \in [Addr -> Nat]
           /\ \A a \in Addr : SizesOf(hp.hdr)[a] = hp.hdr[a].size
           /\ Used(hp) \subseteq hp.blocks /\ hp.blocks \subseteq Addr
           /\ hp.hdr \in [Addr -> Header]
           /\ SumOf(SizesOf(hp.hdr), Used(hp)) \in Nat
           /\ SumOf(SizesOf(hp.hdr), Used(hp)) < UINT32_MOD
           /\ hp.total_allocated \in 0 .. UINT32_MOD - 1
           /\ hp.total_freed \in 0 .. UINT32_MOD - 1
<1>1. Tiles(hp.blocks, hp.hdr) /\ hp \in HeapType
  BY Zenon DEF HeapOK
<1>2. /\ SizesOf(hp.hdr) \in [Addr -> Nat]
      /\ \A a \in Addr : SizesOf(hp.hdr)[a] = hp.hdr[a].size
      /\ hp.hdr \in [Addr -> Header] /\ hp.blocks \subseteq Addr
  BY <1>1, Zenon DEF Tiles, SizesOf, Header
<1>3. Used(hp) \subseteq hp.blocks
  BY DEF Used
<1>4. SumOf(SizesOf(hp.hdr), Used(hp)) \in Nat
  BY <1>2, PrefixExists, SumOfIsLast, Zenon
<1>5. SumOf(SizesOf(hp.hdr), Used(hp)) <= HEAP_BYTES
  BY <1>1, <1>3, SizesFitTheHeap
<1>6. SumOf(SizesOf(hp.hdr), Used(hp)) < UINT32_MOD
  BY <1>4, <1>5, KernelHeapAssumption
<1>7. /\ hp.total_allocated \in 0 .. UINT32_MOD - 1
      /\ hp.total_freed \in 0 .. UINT32_MOD - 1
  BY <1>1, Zenon DEF HeapType
<1> QED
  BY <1>2, <1>3, <1>4, <1>6, <1>7, Zenon

\* kmalloc_locked counts the size of the block it hands out.
LEMMA MallocCounts ==
    ASSUME NEW hp, HeapOK(hp), NEW b \in hp.blocks, NEW size \in Nat,
           Fits(hp, b, size), NEW k, k = kmalloc_locked(hp, b, size), Counted(hp)
    PROVE  Counted(k)
<1> DEFINE v == SizesOf(hp.hdr)
           w == SizesOf(k.hdr)
           x == SumOf(v, Used(hp))
           z == k.hdr[b].size
<1>1. /\ HeapOK(k) /\ hp.blocks \subseteq k.blocks /\ ~k.hdr[b].is_free
      /\ \A c \in hp.blocks : c # b => k.hdr[c] = hp.hdr[c]
      /\ \A c \in k.blocks \ hp.blocks : k.hdr[c].is_free
      /\ k.total_allocated = (hp.total_allocated + z) % UINT32_MOD
      /\ k.total_freed = hp.total_freed
  <2>1. MallocOutcome(hp, b, size, k)
    BY MallocFacts, Zenon
  <2> QED
    BY <2>1, Zenon DEF MallocOutcome
<1>2. b \notin Used(hp) /\ b \in Addr /\ Used(k) = Used(hp) \cup {b}
  BY <1>1, CountedTypes, Zenon DEF Used, Fits
<1>3. \A c \in Used(hp) : v[c] = w[c]
  <2> TAKE c \in Used(hp)
  <2>1. c \in hp.blocks /\ c # b /\ c \in Addr
    BY <1>2, CountedTypes, Zenon DEF Used
  <2>2. k.hdr[c] = hp.hdr[c]
    BY <1>1, <2>1, Zenon
  <2> QED
    BY <1>1, <2>1, <2>2, CountedTypes
<1>4. v \in [Addr -> Nat] /\ w \in [Addr -> Nat] /\ w[b] = z
  BY <1>1, <1>2, CountedTypes
<1>5. /\ x \in Nat /\ hp.total_allocated \in 0 .. UINT32_MOD - 1
      /\ hp.total_freed \in 0 .. UINT32_MOD - 1
  BY CountedTypes, Zenon
<1>6. SumOf(w, Used(k)) < UINT32_MOD
  BY <1>1, CountedTypes, Zenon
<1>7. (hp.total_allocated - hp.total_freed) % UINT32_MOD = x
  BY Zenon DEF Counted
<1>8. Counted(k) = ((k.total_allocated - k.total_freed) % UINT32_MOD = SumOf(w, Used(k)))
  BY Zenon DEF Counted
<1>9. z \in Nat
  BY <1>2, <1>4
<1> HIDE DEF v, w, z
<1>10. SumOf(w, Used(k)) = x + z
  <2>1. SumOf(w, Used(k)) = SumOf(w, Used(hp)) + w[b]
    BY <1>2, <1>4, SumOfOneMore
  <2>2. SumOf(w, Used(hp)) = x
    BY <1>3, <1>4, SumOfSame, Zenon
  <2> QED
    BY <1>4, <2>1, <2>2, Zenon
<1> HIDE DEF x
<1>11. (((hp.total_allocated + z) % UINT32_MOD) - hp.total_freed) % UINT32_MOD = x + z
  <2>1. UINT32_MOD \in Nat \ {0}
    BY KernelHeapAssumption
  <2>2. PICK a \in 0 .. UINT32_MOD - 1 : a = hp.total_allocated
    BY <1>5, Zenon
  <2>3. PICK f \in 0 .. UINT32_MOD - 1 : f = hp.total_freed
    BY <1>5
  <2>4. (a - f) % UINT32_MOD = x /\ x + z < UINT32_MOD
    BY <1>6, <1>7, <1>10, <2>2, <2>3, Zenon
  <2>5. (((a + z) % UINT32_MOD) - f) % UINT32_MOD = x + z
    BY <1>5, <1>9, <2>1, <2>4, CountsUp
  <2> QED
    BY <2>2, <2>3, <2>5, Zenon
<1> QED
  BY <1>1, <1>8, <1>10, <1>11, Zenon

\* kfree_locked counts the size the block had before it was merged.
LEMMA FreeCounts ==
    ASSUME NEW hp, HeapOK(hp), NEW b \in hp.blocks, ~hp.hdr[b].is_free,
           NEW f, f = kfree_locked(hp, b), Counted(hp)
    PROVE  Counted(f)
<1> DEFINE v == SizesOf(hp.hdr)
           w == SizesOf(f.hdr)
           x == SumOf(w, Used(f))
           z == hp.hdr[b].size
<1>1. /\ HeapOK(f)
      /\ \A c \in hp.blocks : c # b /\ ~hp.hdr[c].is_free =>
            c \in f.blocks /\ f.hdr[c] = hp.hdr[c]
      /\ \A c \in f.blocks : ~f.hdr[c].is_free =>
            c \in hp.blocks /\ c # b /\ ~hp.hdr[c].is_free
      /\ f.total_allocated = hp.total_allocated
      /\ f.total_freed = (hp.total_freed + z) % UINT32_MOD
  <2>1. FreeOutcome(hp, b, f)
    BY FreeFacts, Zenon
  <2> QED
    BY <2>1, Zenon DEF FreeOutcome
<1>2. b \notin Used(f) /\ b \in Addr /\ Used(hp) = Used(f) \cup {b}
  <2>1. b \in Addr
    BY CountedTypes, Zenon
  <2>2. \A c : c \in Used(f) <=> c \in Used(hp) /\ c # b
    BY <1>1, Zenon DEF Used
  <2>3. b \in Used(hp)
    BY Zenon DEF Used
  <2> QED
    BY <2>1, <2>2, <2>3, Zenon
<1>3. \A c \in Used(f) : v[c] = w[c]
  <2> TAKE c \in Used(f)
  <2>1. c \in f.blocks /\ f.hdr[c] = hp.hdr[c] /\ c \in Addr
    BY <1>1, CountedTypes, Zenon DEF Used
  <2> QED
    BY <1>1, <2>1, CountedTypes
<1>4. v \in [Addr -> Nat] /\ w \in [Addr -> Nat] /\ v[b] = z
  BY <1>1, <1>2, CountedTypes
<1>5. /\ x \in Nat /\ hp.total_allocated \in 0 .. UINT32_MOD - 1
      /\ hp.total_freed \in 0 .. UINT32_MOD - 1
  BY <1>1, CountedTypes, Zenon
<1>6. (hp.total_allocated - hp.total_freed) % UINT32_MOD = SumOf(v, Used(hp))
  BY Zenon DEF Counted
<1>7. Counted(f) = ((f.total_allocated - f.total_freed) % UINT32_MOD = x)
  BY Zenon DEF Counted
<1>8. z \in Nat
  BY <1>2, <1>4, Zenon
<1> HIDE DEF v, w, z
<1>9. SumOf(v, Used(hp)) = x + z
  <2>1. SumOf(v, Used(hp)) = SumOf(v, Used(f)) + v[b]
    BY <1>2, <1>4, SumOfOneMore, Zenon
  <2>2. SumOf(v, Used(f)) = x
    BY <1>3, <1>4, SumOfSame
  <2> QED
    BY <1>4, <2>1, <2>2
<1> HIDE DEF x
<1>10. (hp.total_allocated - ((hp.total_freed + z) % UINT32_MOD)) % UINT32_MOD = x
  <2>1. UINT32_MOD \in Nat \ {0}
    BY KernelHeapAssumption
  <2>2. PICK a \in 0 .. UINT32_MOD - 1 : a = hp.total_allocated
    BY <1>5, Zenon
  <2>3. PICK t \in 0 .. UINT32_MOD - 1 : t = hp.total_freed
    BY <1>5, Zenon
  <2>4. (a - t) % UINT32_MOD = x + z
    BY <1>6, <1>9, <2>2, <2>3
  <2>5. (a - ((t + z) % UINT32_MOD)) % UINT32_MOD = x
    BY <1>5, <1>8, <2>1, <2>4, CountsDown
  <2> QED
    BY <2>2, <2>3, <2>5, Zenon
<1> QED
  BY <1>1, <1>7, <1>10, Zenon

-----------------------------------------------------------------------------
(* The specification *)

\* All that kmalloc, kcalloc and kfree do to the heap.
LEMMA HeapSteps ==
    ASSUME NoWrap, IInv, [Next]_vars, ~resized'
    PROVE  \/ heap' = heap
           \/ \E b \in heap.blocks, size \in Nat :
                 Fits(heap, b, size) /\ heap' = kmalloc_locked(heap, b, size)
           \/ \E b \in heap.blocks :
                 ~heap.hdr[b].is_free /\ heap' = kfree_locked(heap, b)
<1> DEFINE Mallocs == \E b \in heap.blocks, size \in Nat :
                         Fits(heap, b, size) /\ heap' = kmalloc_locked(heap, b, size)
           Frees == \E b \in heap.blocks :
                       ~heap.hdr[b].is_free /\ heap' = kfree_locked(heap, b)
<1>1. ASSUME NEW size \in Nat, size + MIN_ALLOC_ALIGN - 1 < UINT32_MOD, kmalloc(size)
      PROVE  heap' = heap \/ Mallocs
  <2> DEFINE aligned == align_up(size, MIN_ALLOC_ALIGN)
  <2>1. aligned \in Nat
    BY <1>1, AlignUp, Zenon
  <2>2. \/ heap' = heap
        \/ \E b \in heap.blocks \cup {heap.hint} :
              Fits(heap, b, aligned) /\ heap' = kmalloc_locked(heap, b, aligned)
    BY <1>1, Zenon DEF kmalloc, NoChange
  <2>3. heap.hint \in heap.blocks
    BY Zenon DEF IInv, HeapOK
  <2> HIDE DEF aligned
  <2> QED
    BY <2>1, <2>2, <2>3, Zenon
<1>2. ASSUME NEW num \in Counts, NEW size \in Requests, kcalloc(num, size)
      PROVE  heap' = heap \/ Mallocs
  <2>1. num \in Nat /\ size \in Nat
    BY KernelHeapAssumption
  <2>2. num * size \in Nat
    BY <2>1
  <2>3. CASE num # 0 /\ size > (UINT32_MOD - 1) \div num
    BY <1>2, <2>3, Zenon DEF kcalloc, NoChange
  <2>4. CASE ~(num # 0 /\ size > (UINT32_MOD - 1) \div num)
    <3>1. kmalloc(num * size) /\ num * size + MIN_ALLOC_ALIGN - 1 < UINT32_MOD
      BY <1>2, <2>4, Zenon DEF kcalloc, NoWrap
    <3> HIDE DEF Mallocs
    <3> QED
      BY <1>1, <2>2, <3>1, Zenon
  <2> QED
    BY <2>3, <2>4, Zenon
<1>3. ASSUME NEW ptr \in Addr, kfree(ptr)
      PROVE  heap' = heap \/ Frees
  BY <1>3, Zenon DEF kfree, NoChange, find_block_by_payload
<1>4. ASSUME NEW ptr \in Addr, NEW size \in Requests,
             \/ krealloc_shrink(ptr, size)
             \/ krealloc_grow(ptr, size)
             \/ krealloc_move(ptr, size)
      PROVE  FALSE
  BY <1>4, Zenon DEF krealloc_shrink, krealloc_grow, krealloc_move
<1>5. UNCHANGED vars => heap' = heap
  BY Zenon DEF vars
<1>6. \A r \in Requests : r \in Nat /\ r + MIN_ALLOC_ALIGN - 1 < UINT32_MOD
  BY KernelHeapAssumption DEF NoWrap
<1> HIDE DEF Mallocs, Frees
<1>7. heap' = heap \/ Mallocs \/ Frees
  BY <1>1, <1>2, <1>3, <1>4, <1>5, <1>6 DEF Next
<1> QED
  BY <1>7, Zenon DEF Mallocs, Frees

\* Until krealloc is used, the counters stay exact.
LEMMA CountedStep ==
    ASSUME NoWrap, IInv, [Next]_vars, ~resized', Counted(heap)
    PROVE  Counted(heap')
<1>1. HeapOK(heap)
  BY Zenon DEF IInv
<1>2. ASSUME NEW b \in heap.blocks, NEW size \in Nat, Fits(heap, b, size),
             heap' = kmalloc_locked(heap, b, size)
      PROVE  Counted(heap')
  BY <1>1, <1>2, MallocCounts
<1>3. ASSUME NEW b \in heap.blocks, ~heap.hdr[b].is_free, heap' = kfree_locked(heap, b)
      PROVE  Counted(heap')
  BY <1>1, <1>3, FreeCounts, Zenon
<1> QED
  BY <1>2, <1>3, HeapSteps

\* UsedMemoryExact is about the sum that the lemmas are about.
LEMMA ExactMeansCounted ==
    ASSUME IInv PROVE UsedMemoryExact <=> (~resized => Counted(heap))
<1>1. heap.hdr \in [Addr -> Header] /\ Used(heap) \in SUBSET Addr
  BY CountedTypes, Zenon DEF IInv
<1>2. MapThenSumSet(LAMBDA b : heap.hdr[b].size, Used(heap))
        = SumOf(SizesOf(heap.hdr), Used(heap))
  BY <1>1, SizesAreSummed, Zenon
<1> QED
  BY <1>2, Zenon DEF UsedMemoryExact, Counted, Used

\* get_used_memory is exact in the kernel as it is, however often the counters
\* have wrapped around.
THEOREM UsedMemoryIsExact == ASSUME NoWrap, HintKept PROVE Spec => []UsedMemoryExact
<1>1. Spec => []IInv
  BY HeapInvariant, Zenon
<1>2. Init => UsedMemoryExact
  <2> SUFFICES ASSUME Init PROVE UsedMemoryExact
    BY Zenon
  <2>1. IInv
    BY InitHolds, Zenon
  <2>2. heap_start \in Addr
    BY KernelHeapAssumption DEF heap_start, Addr
  <2>3. heap.blocks = {heap_start} /\ heap.hdr[heap_start].is_free
    BY <2>2, Zenon DEF Init
  <2>4. Used(heap) = {}
    BY <2>3, Zenon DEF Used
  <2>5. SumOf(SizesOf(heap.hdr), {}) = 0
    BY <2>1, CountedTypes, SumOfNothing, Zenon DEF IInv
  <2>6. heap.total_allocated = 0 /\ heap.total_freed = 0
    BY Zenon DEF Init
  <2>7. (0 - 0) % UINT32_MOD = 0
    BY KernelHeapAssumption
  <2>8. Counted(heap)
    BY <2>4, <2>5, <2>6, <2>7, Zenon DEF Counted
  <2> QED
    BY <2>1, <2>8, ExactMeansCounted, Zenon
<1>3. IInv /\ IInv' /\ UsedMemoryExact /\ [Next]_vars => UsedMemoryExact'
  <2> SUFFICES ASSUME IInv, IInv', UsedMemoryExact, [Next]_vars
               PROVE  UsedMemoryExact'
    BY Zenon
  <2>1. ~resized => Counted(heap)
    BY ExactMeansCounted, Zenon
  <2>2. ~resized' => Counted(heap')
    BY <2>1, ResizedStep, CountedStep
  <2>3. UsedMemoryExact' <=> (~resized' => Counted(heap'))
    <3>1. (UsedMemoryExact <=> (~resized => Counted(heap)))'
      BY ExactMeansCounted, PTL
    <3> QED
      BY <3>1, Zenon DEF Counted
  <2> QED
    BY <2>2, <2>3, Zenon
<1> QED
  BY <1>1, <1>2, <1>3, PTL DEF Spec

\* "Out of memory" is reported only by a step that leaves the heap as it is, of
\* a size the search just went round the list for in vain.
LEMMA ReportsAFailedSearch ==
    ASSUME [Next]_vars
    PROVE  \/ oom' = NULL
           \/ kmalloc_scan(heap, oom') = NULL /\ heap' = heap
           \/ oom' = oom /\ heap' = heap
<1> DEFINE Goal == \/ oom' = NULL
                   \/ kmalloc_scan(heap, oom') = NULL /\ heap' = heap
                   \/ oom' = oom /\ heap' = heap
<1>1. ASSUME NEW size, kmalloc(size) PROVE Goal
  BY <1>1, Zenon DEF kmalloc, NoChange
<1>2. ASSUME NEW num, NEW size, kcalloc(num, size) PROVE Goal
  BY <1>1, <1>2, Zenon DEF kcalloc, NoChange
<1>3. ASSUME NEW ptr, kfree(ptr) PROVE Goal
  BY <1>3, Zenon DEF kfree, NoChange
<1>4. ASSUME NEW ptr, NEW size, \/ krealloc_shrink(ptr, size)
                               \/ krealloc_grow(ptr, size)
                               \/ krealloc_move(ptr, size)
      PROVE  Goal
  <2>1. CASE krealloc_shrink(ptr, size)
    BY <2>1, Zenon DEF krealloc_shrink
  <2>2. CASE krealloc_grow(ptr, size)
    BY <2>2, Zenon DEF krealloc_grow
  <2>3. CASE krealloc_move(ptr, size)
    <3> DEFINE aligned == align_up(size, MIN_ALLOC_ALIGN)
    <3>1. \/ /\ kmalloc_scan(heap, aligned) = NULL
             /\ oom' = aligned
             /\ UNCHANGED <<heap, owned>>
          \/ oom' = NULL
      BY <2>3, Zenon DEF krealloc_move
    <3> HIDE DEF aligned
    <3> QED
      BY <3>1, Zenon
  <2> QED
    BY <1>4, <2>1, <2>2, <2>3, Zenon
<1>5. ASSUME UNCHANGED vars PROVE Goal
  BY <1>5, Zenon DEF vars
<1> HIDE DEF Goal
<1>6. Goal
  BY <1>1, <1>2, <1>3, <1>4, <1>5, Zenon DEF Next
<1> QED
  BY <1>6, Zenon DEF Goal

\* Whatever the hint is, kmalloc and krealloc report "Out of memory" only if no
\* free block of the list is large enough.
THEOREM OutOfMemoryMeansFull ==
    ASSUME NoWrap, HintKept PROVE Spec => []NullOnlyWhenFull
<1>1. Spec => []IInv
  BY HeapInvariant, Zenon
<1>2. Init => NullOnlyWhenFull
  BY Zenon DEF Init, NullOnlyWhenFull
<1>3. IInv /\ NullOnlyWhenFull /\ [Next]_vars => NullOnlyWhenFull'
  <2> SUFFICES ASSUME IInv, NullOnlyWhenFull, [Next]_vars, oom' # NULL,
                      NEW b \in (heap').blocks
               PROVE  ~Fits(heap', b, oom')
    BY Zenon DEF NullOnlyWhenFull
  <2>1. CASE kmalloc_scan(heap, oom') = NULL /\ heap' = heap
    <3>1. \A c \in heap.blocks : ~Fits(heap, c, oom')
      BY <2>1, ScanFindsAFit, Zenon DEF IInv
    <3> QED
      BY <2>1, <3>1
  <2>2. CASE oom' = oom /\ heap' = heap
    BY <2>2, Zenon DEF NullOnlyWhenFull
  <2> QED
    BY <2>1, <2>2, ReportsAFailedSearch
<1> QED
  BY <1>1, <1>2, <1>3, PTL DEF Spec
=============================================================================
