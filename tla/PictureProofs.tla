---------------------------- MODULE PictureProofs ----------------------------
(***************************************************************************)
(* Proofs about what the drawing functions do to the frame buffer, for     *)
(* every size of the screen, and about the decoder of pictures, for every  *)
(* size of picture and every choice of filters.                            *)
(***************************************************************************)
EXTENDS Framebuffer, PngDecoder, WellFoundedInduction, TLAPS
\* The clipped end of a span delimits just the part of it that is on the screen,
\* although start + len is computed modulo 2^32 (virtio_gpu_fill_rect).
LEMMA ClipEndExact ==
    ASSUME NEW limit \in Nat, limit < UINT32_MOD,
           NEW start \in Uint32, start < limit,
           NEW len \in Uint32
    PROVE  start .. ClipEnd(start, len, limit) - 1 =
               Visible(start, len, limit)
<1> USE FramebufferAssumption DEF Uint32
<1> DEFINE end == (start + len) % UINT32_MOD
<1>1. end \in Int
        /\ (start + len < UINT32_MOD => end = start + len)
        /\ (start + len >= UINT32_MOD => end = start + len - UINT32_MOD)
    OBVIOUS
<1>2. ClipEnd(start, len, limit) = IF end > limit \/ end < start THEN limit ELSE end
    BY Zenon DEF ClipEnd
<1> HIDE DEF end
<1>3. ASSUME NEW p \in Int
      PROVE  (start <= p /\ p <= ClipEnd(start, len, limit) - 1)
                = (0 <= p /\ p <= limit - 1 /\ start <= p /\ p < start + len)
    BY <1>1, <1>2
<1>4. ClipEnd(start, len, limit) \in Int
    BY <1>1, <1>2
<1> QED
    BY <1>3, <1>4 DEF Visible

\* The pixels that virtio_gpu_fill_rect writes are those of the rectangle that
\* are on the screen.
LEMMA FilledExact ==
    ASSUME NEW fb, fb = [i \in DOMAIN fb |-> fb[i]],
           NEW x \in Uint32, NEW y \in Uint32, NEW w \in Uint32, NEW h \in Uint32,
           NEW color
    PROVE  Filled(fb, x, y, w, h, color) =
               Painted(fb, Cells(Visible(x, w, Width), Visible(y, h, Height)), color)
<1> USE FramebufferAssumption
<1>1. CASE w = 0 \/ h = 0 \/ x >= Width \/ y >= Height
    <2>1. Visible(x, w, Width) = {} \/ Visible(y, h, Height) = {}
        BY <1>1 DEF Visible, Uint32
    <2>2. Cells(Visible(x, w, Width), Visible(y, h, Height)) = {}
        BY <2>1 DEF Cells
    <2>3. Painted(fb, {}, color) = fb
        BY Zenon DEF Painted
    <2>4. Filled(fb, x, y, w, h, color) = fb
        BY <1>1, Zenon DEF Filled
    <2> QED
        BY <2>2, <2>3, <2>4, Zenon
<1>2. CASE ~(w = 0 \/ h = 0 \/ x >= Width \/ y >= Height)
    <2>1. x .. ClipEnd(x, w, Width) - 1 = Visible(x, w, Width)
        BY <1>2, ClipEndExact DEF Uint32
    <2>2. y .. ClipEnd(y, h, Height) - 1 = Visible(y, h, Height)
        BY <1>2, ClipEndExact DEF Uint32
    <2> QED
        BY <1>2, <2>1, <2>2, Zenon DEF Filled
<1> QED
    BY <1>1, <1>2, Zenon

\* A place of the screen is a place of the frame buffer.
LEMMA CellInside ==
    ASSUME NEW px \in 0 .. Width - 1, NEW py \in 0 .. Height - 1
    PROVE  py * Width + px \in 0 .. Width * Height - 1
<1> USE FramebufferAssumption
<1>1. py * Width \in Nat /\ (py + 1) * Width = py * Width + Width
    OBVIOUS
<1>2. (py + 1) * Width <= Height * Width
    OBVIOUS
<1>3. Height * Width = Width * Height /\ Width * Height \in Nat
    OBVIOUS
<1> QED
    BY <1>1, <1>2, <1>3

\* The stores to places of the screen leave the frame buffer its size and its
\* colours.
LEMMA PaintedType ==
    ASSUME TypeOK, NEW columns \in SUBSET (0 .. Width - 1),
           NEW rows \in SUBSET (0 .. Height - 1), NEW color \in Colors
    PROVE  Painted(g_gpu_fb, Cells(columns, rows), color)
               \in [0 .. Width * Height - 1 -> Colors]
<1>1. Cells(columns, rows) \subseteq 0 .. Width * Height - 1
    BY CellInside DEF Cells
<1> QED
    BY <1>1, Zenon DEF Painted, TypeOK

\* TypeOK is inductive: neither drawing function stores outside the frame buffer
\* or anything but a colour.
LEMMA TypeInvariant == Spec => []TypeOK
<1>1. Init => TypeOK
    BY FramebufferAssumption, Zenon DEF Init, TypeOK
<1>2. TypeOK /\ [Next]_g_gpu_fb => TypeOK'
    <2> SUFFICES ASSUME TypeOK, [Next]_g_gpu_fb PROVE TypeOK'
        BY Zenon
    <2>1. ASSUME NEW x \in Uint32, NEW y \in Uint32, NEW color \in Colors,
                 virtio_gpu_draw_pixel(x, y, color)
          PROVE  TypeOK'
        <3>1. CASE x >= Width \/ y >= Height
            BY <2>1, <3>1, Zenon DEF TypeOK, virtio_gpu_draw_pixel
        <3>2. CASE ~(x >= Width \/ y >= Height)
            <4>1. {x} \in SUBSET (0 .. Width - 1) /\ {y} \in SUBSET (0 .. Height - 1)
                BY <3>2, FramebufferAssumption DEF Uint32
            <4>2. g_gpu_fb' = Painted(g_gpu_fb, Cells({x}, {y}), color)
                BY <2>1, <3>2, Zenon DEF virtio_gpu_draw_pixel
            <4> QED
                BY <4>1, <4>2, PaintedType, Zenon DEF TypeOK
        <3> QED
            BY <3>1, <3>2, Zenon
    <2>2. ASSUME NEW x \in Uint32, NEW y \in Uint32, NEW color \in Colors,
                 NEW w \in Uint32, NEW h \in Uint32,
                 virtio_gpu_fill_rect(x, y, w, h, color)
          PROVE  TypeOK'
        <3>1. g_gpu_fb' = Painted(g_gpu_fb,
                              Cells(Visible(x, w, Width), Visible(y, h, Height)), color)
            <4>1. g_gpu_fb = [i \in DOMAIN g_gpu_fb |-> g_gpu_fb[i]]
                BY Zenon DEF TypeOK
            <4> QED
                BY <2>2, <4>1, FilledExact DEF virtio_gpu_fill_rect
        <3>2. /\ Visible(x, w, Width) \in SUBSET (0 .. Width - 1)
              /\ Visible(y, h, Height) \in SUBSET (0 .. Height - 1)
            BY Zenon DEF Visible
        <3> QED
            BY <3>1, <3>2, PaintedType, Zenon DEF TypeOK
    <2>3. CASE UNCHANGED g_gpu_fb
        BY <2>3, Zenon DEF TypeOK
    <2> QED
        BY <2>1, <2>2, <2>3, Zenon DEF Next
<1> QED
    BY <1>1, <1>2, PTL DEF Spec

\* For every size of the screen and every 32-bit coordinate, virtio_gpu_draw_pixel
\* and virtio_gpu_fill_rect store nothing outside the frame buffer.
THEOREM FramebufferTypeCorrect == Spec => []TypeOK
BY TypeInvariant, Zenon

\* For every size of the screen and every rectangle of 32-bit coordinates and
\* sizes, virtio_gpu_fill_rect colours just the visible part of the rectangle.
THEOREM FillIsExact == Spec => []FillsOnlyTheRectangle
<1>1. TypeOK => FillsOnlyTheRectangle
    <2> SUFFICES ASSUME TypeOK,
                        NEW x \in Uint32, NEW y \in Uint32,
                        NEW w \in Uint32, NEW h \in Uint32, NEW color \in Colors
                 PROVE  LET cells == Cells(Visible(x, w, Width), Visible(y, h, Height))
                        IN  /\ cells \subseteq DOMAIN g_gpu_fb
                            /\ Filled(g_gpu_fb, x, y, w, h, color) =
                                   Painted(g_gpu_fb, cells, color)
        BY Zenon DEF FillsOnlyTheRectangle
    <2>1. g_gpu_fb = [i \in DOMAIN g_gpu_fb |-> g_gpu_fb[i]]
            /\ DOMAIN g_gpu_fb = 0 .. Width * Height - 1
        BY Zenon DEF TypeOK
    <2>2. Cells(Visible(x, w, Width), Visible(y, h, Height)) \subseteq DOMAIN g_gpu_fb
        BY <2>1, CellInside DEF Cells, Visible
    <2>3. Filled(g_gpu_fb, x, y, w, h, color) =
              Painted(g_gpu_fb, Cells(Visible(x, w, Width), Visible(y, h, Height)), color)
        BY <2>1, FilledExact
    <2> QED
        BY <2>2, <2>3, Zenon
<1> QED
    BY <1>1, TypeInvariant, PTL
-----------------------------------------------------------------------------
(* The decoder *)

\* Induction, for sets: the provers do not instantiate a predicate.
LEMMA Upwards ==
    ASSUME NEW T, 0 \in T, \A n \in Nat : n \in T => n + 1 \in T
    PROVE  Nat \subseteq T
<1> DEFINE bad == Nat \ T
<1> SUFFICES ASSUME bad # {} PROVE FALSE
    BY Zenon
<1>1. IsWellFoundedOn(OpToRel(<, Nat), Nat)
    BY NatLessThanWellFounded, Zenon
<1>2. \A x, y \in Nat : <<x, y>> \in OpToRel(<, Nat) <=> x < y
    BY Zenon DEF OpToRel
<1>3. PICK x \in bad : \A y \in bad : ~(<<y, x>> \in OpToRel(<, Nat))
    <2>1. bad \subseteq Nat
        BY Zenon
    <2> HIDE DEF bad
    <2> QED
        BY <1>1, <2>1, WFMin, Zenon
<1>4. x \in Nat /\ x \notin T /\ x # 0
    BY Zenon
<1>5. x - 1 \in Nat /\ (x - 1) + 1 = x /\ x - 1 < x
    BY <1>4
<1>6. x - 1 \in T
    BY <1>2, <1>3, <1>4, <1>5, Zenon
<1> QED
    BY <1>4, <1>5, <1>6, Zenon

\* Quotient and remainder are unique.
LEMMA Quotient ==
    ASSUME NEW q \in Int, NEW d \in Nat \ {0}, NEW r \in 0 .. d - 1, NEW a \in Int,
           a = q * d + r
    PROVE  a \div d = q /\ a % d = r
<1>1. a \div d \in Int /\ a % d \in 0 .. d - 1 /\ a = (a \div d) * d + (a % d)
    BY Z3
<1>2. (a \div d - q) * d = r - (a % d)
    BY <1>1, Z3
<1>3. a \div d - q = 0
    BY <1>1, <1>2, Z3
<1> QED
    BY <1>1, <1>2, <1>3, Z3

\* Adding what has been taken away gives the byte back.
LEMMA TakenAndAdded ==
    ASSUME NEW a \in Byte, NEW p \in Int
    PROVE  (((a - p) % BYTE) + p) % BYTE = a
<1> DEFINE r == (a - p) % BYTE
           q == (a - p) \div BYTE
<1>1. BYTE \in Nat \ {0} /\ a \in 0 .. BYTE - 1 /\ a - p \in Int
    BY PngDecoderAssumption DEF Byte
<1>2. r \in Int /\ q \in Int /\ a - p = q * BYTE + r
    BY <1>1, Z3
<1>3. r + p = (0 - q) * BYTE + a /\ r + p \in Int /\ 0 - q \in Int
    <2> HIDE DEF r, q
    <2> QED
        BY <1>1, <1>2, Z3
<1>4. (r + p) % BYTE = a
    <2> HIDE DEF r, q
    <2> QED
        BY <1>1, <1>3, Quotient
<1> QED
    BY <1>4, Zenon

\* Case 4 of png_unfilter takes the nearest of the three bytes.
LEMMA PaethIsNearest ==
    ASSUME NEW a \in Int, NEW b \in Int, NEW c \in Int
    PROVE  Paeth(a, b, c) = Nearest(a, b, c)
<1> DEFINE order == <<a, b, c>>
           far(i) == Distance(a + b - c, order[i])
           First(i) == \A j \in 1 .. 3 : far(i) < far(j) \/ (far(i) = far(j) /\ i <= j)
           best == CHOOSE i \in 1 .. 3 : First(i)
<1>1. order[1] = a /\ order[2] = b /\ order[3] = c
    BY Zenon
<1>2. far(1) \in Int /\ far(2) \in Int /\ far(3) \in Int
    BY <1>1 DEF Distance
<1>3. /\ far(1) = Distance(a + b - c, a) /\ far(2) = Distance(a + b - c, b)
      /\ far(3) = Distance(a + b - c, c)
    BY <1>1, Zenon
<1>4. Nearest(a, b, c) = order[best]
    BY Zenon DEF Nearest
<1> DEFINE d1 == far(1)
           d2 == far(2)
           d3 == far(3)
<1>5. /\ First(1) <=> d1 <= d2 /\ d1 <= d3
      /\ First(2) <=> d2 < d1 /\ d2 <= d3
      /\ First(3) <=> d3 < d1 /\ d3 < d2
    <2> HIDE DEF far
    <2>1. 1 .. 3 = {1, 2, 3}
        OBVIOUS
    <2> QED
        BY <1>2, <2>1
<1>6. Paeth(a, b, c) = IF d1 <= d2 /\ d1 <= d3 THEN a ELSE IF d2 <= d3 THEN b ELSE c
    BY <1>3, Zenon DEF Paeth
<1>7. \E i \in 1 .. 3 : First(i)
    <2> HIDE DEF First, far
    <2> QED
        BY <1>2, <1>5
<1>8. best \in 1 .. 3 /\ First(best)
    <2> HIDE DEF First
    <2> QED
        BY <1>7, Zenon
<1>9. best = 1 \/ best = 2 \/ best = 3
    <2> HIDE DEF best
    <2> QED
        BY <1>8
<1>10. order[best] = IF d1 <= d2 /\ d1 <= d3 THEN a ELSE IF d2 <= d3 THEN b ELSE c
    <2>1. \/ best = 1 /\ First(1) /\ order[best] = a
          \/ best = 2 /\ First(2) /\ order[best] = b
          \/ best = 3 /\ First(3) /\ order[best] = c
        <3> HIDE DEF best, First, far, order
        <3> QED
            BY <1>1, <1>8, <1>9, Zenon
    <2> HIDE DEF best, First, far, order
    <2> QED
        BY <1>2, <1>5, <2>1
<1> QED
    BY <1>4, <1>6, <1>10, Zenon

\* png_unfilter adds what the PNG specification says for each of the five filters.
LEMMA PredictedAsSpecified ==
    ASSUME NEW filter \in 0 .. 4, NEW a \in Int, NEW b \in Int, NEW c \in Int
    PROVE  /\ Predicted(filter, a, b, c) = Prediction(filter, a, b, c)
           /\ Predicted(filter, a, b, c) \in Int
<1> DEFINE half == (a + b) \div 2
           near == Nearest(a, b, c)
<1>1. filter \in {0, 1, 2, 3, 4} /\ half \in Int
    OBVIOUS
<1>2. Prediction(filter, a, b, c) = <<0, a, b, half, near>>[filter + 1]
    BY Zenon DEF Prediction
<1>3. /\ <<0, a, b, half, near>>[1] = 0 /\ <<0, a, b, half, near>>[2] = a
      /\ <<0, a, b, half, near>>[3] = b /\ <<0, a, b, half, near>>[4] = half
      /\ <<0, a, b, half, near>>[5] = near
    <2> HIDE DEF half, near
    <2> QED
        BY Zenon
<1>4. near = Paeth(a, b, c) /\ near \in Int
    BY PaethIsNearest, Zenon DEF Paeth
<1>5. 0 \in Int
    OBVIOUS
<1>6. 0 # 1 /\ 0 # 2 /\ 0 # 3 /\ 0 # 4 /\ 1 # 2 /\ 1 # 3 /\ 1 # 4 /\ 2 # 3 /\ 2 # 4 /\ 3 # 4
    OBVIOUS
<1>7. 0 + 1 = 1 /\ 1 + 1 = 2 /\ 2 + 1 = 3 /\ 3 + 1 = 4 /\ 4 + 1 = 5
    OBVIOUS
<1> DEFINE P(k) == Predicted(k, a, b, c)
<1>8. /\ P(0) = 0 /\ P(1) = a /\ P(2) = b /\ P(3) = half /\ P(4) = Paeth(a, b, c)
    <2>1. P(0) = 0
        BY <1>6, Zenon DEF Predicted
    <2>2. P(1) = a
        BY <1>6, Zenon DEF Predicted
    <2>3. P(2) = b
        BY <1>6, Zenon DEF Predicted
    <2>4. P(3) = half
        BY <1>6, Zenon DEF Predicted
    <2>5. P(4) = Paeth(a, b, c)
        BY <1>6, Zenon DEF Predicted
    <2> QED
        BY <2>1, <2>2, <2>3, <2>4, <2>5, Zenon
<1> HIDE DEF half, near
<1> QED
    BY <1>1, <1>2, <1>3, <1>4, <1>5, <1>7, <1>8, Zenon

\* The recursion of UnfilteredRow, as an equation.
IsRow(filter, row, prev, out) ==
    out = [x \in DOMAIN row |->
              (row[x] + Predicted(filter, IF x < BPP THEN 0 ELSE out[x - BPP],
                                  At(prev, x), At(prev, x - BPP))) % BYTE]

LEMMA RowIsChosen ==
    ASSUME NEW filter, NEW row, NEW prev
    PROVE  UnfilteredRow(filter, row, prev) = CHOOSE out : IsRow(filter, row, prev, out)
BY Zenon DEF UnfilteredRow, IsRow

\* A row of goal, filtered as the PNG specification says, with the row above it.
IsFilteredRow(n, filter, row, prev, goal) ==
    \A x \in 0 .. n - 1 :
        row[x] = (goal[x] - Prediction(filter, At(goal, x - BPP), At(prev, x),
                                       At(prev, x - BPP))) % BYTE

\* Each byte of a row is restored, from left to right (png_unfilter).
LEMMA RowRestored ==
    ASSUME NEW n \in Nat, NEW filter \in 0 .. 4, NEW row, DOMAIN row = 0 .. n - 1,
           NEW prev \in [0 .. n - 1 -> Byte], NEW goal \in [0 .. n - 1 -> Byte],
           IsFilteredRow(n, filter, row, prev, goal)
    PROVE  UnfilteredRow(filter, row, prev) = goal
<1> DEFINE left(g, x) == IF x < BPP THEN 0 ELSE g[x - BPP]
           Next1(g, x) == (row[x] + Predicted(filter, left(g, x), At(prev, x),
                                              At(prev, x - BPP))) % BYTE
<1>1. Byte \subseteq Int /\ BPP \in Nat \ {0} /\ 0 \in Int
    BY PngDecoderAssumption DEF Byte
<1>2. ASSUME NEW x \in 0 .. n - 1
      PROVE  /\ left(goal, x) = At(goal, x - BPP) /\ left(goal, x) \in Int
             /\ At(prev, x) \in Int /\ At(prev, x - BPP) \in Int
    <2>1. \A y \in 0 .. n - 1 : goal[y] \in Int /\ prev[y] \in Int
        BY <1>1, Zenon
    <2>2. x \in Int /\ x >= 0 /\ (x - BPP < 0 <=> x < BPP)
            /\ (~(x < BPP) => x - BPP \in 0 .. n - 1)
        BY <1>1
    <2>3. left(goal, x) = At(goal, x - BPP)
        BY <2>2, Zenon DEF At
    <2>4. At(goal, x - BPP) \in Int /\ At(prev, x - BPP) \in Int /\ At(prev, x) \in Int
        BY <1>1, <2>1, <2>2, Zenon DEF At
    <2> QED
        BY <2>3, <2>4, Zenon
<1>3. ASSUME NEW x \in 0 .. n - 1
      PROVE  Next1(goal, x) = goal[x]
    <2> DEFINE a == left(goal, x)
               b == At(prev, x)
               c == At(prev, x - BPP)
               p == Predicted(filter, a, b, c)
    <2>1. p \in Int /\ p = Prediction(filter, At(goal, x - BPP), At(prev, x), At(prev, x - BPP))
        <3>1. a \in Int /\ b \in Int /\ c \in Int
            BY <1>2, Zenon
        <3>2. p \in Int /\ p = Prediction(filter, a, b, c)
            <4> HIDE DEF a, b, c
            <4> QED
                BY <3>1, PredictedAsSpecified, Zenon
        <3>3. a = At(goal, x - BPP)
            BY <1>2, Zenon
        <3> HIDE DEF a, p
        <3> QED
            BY <3>2, <3>3, Zenon
    <2>2. row[x] = (goal[x] - p) % BYTE
        <3> HIDE DEF p
        <3> QED
            BY <2>1, Zenon DEF IsFilteredRow
    <2>3. goal[x] \in Byte
        BY Zenon
    <2>4. (row[x] + p) % BYTE = goal[x]
        <3> HIDE DEF p
        <3> QED
            BY <2>1, <2>2, <2>3, TakenAndAdded, Zenon
    <2> QED
        BY <2>4, Zenon
<1>4. \A g : IsRow(filter, row, prev, g) <=> g = [x \in 0 .. n - 1 |-> Next1(g, x)]
    BY Zenon DEF IsRow
<1>5. IsRow(filter, row, prev, goal)
    <2>1. goal = [x \in 0 .. n - 1 |-> goal[x]]
        BY Zenon
    <2> HIDE DEF Next1
    <2> QED
        BY <1>3, <1>4, <2>1, Zenon
<1>6. ASSUME NEW g, IsRow(filter, row, prev, g) PROVE g = goal
    <2>1. g = [x \in 0 .. n - 1 |-> Next1(g, x)]
        BY <1>4, <1>6, Zenon
    <2>2. g = [x \in 0 .. n - 1 |-> g[x]] /\ \A x \in 0 .. n - 1 : g[x] = Next1(g, x)
        <3> HIDE DEF Next1
        <3> QED
            BY <2>1, Zenon
    <2> DEFINE T == {m \in Nat : \A x \in 0 .. n - 1 : x < m => g[x] = goal[x]}
    <2>3. 0 \in T
        OBVIOUS
    <2>4. ASSUME NEW m \in Nat, m \in T PROVE m + 1 \in T
        <3> SUFFICES ASSUME NEW x \in 0 .. n - 1, x < m + 1 PROVE g[x] = goal[x]
            OBVIOUS
        <3>1. x >= BPP => x - BPP \in 0 .. n - 1 /\ x - BPP < m
            BY <1>1
        <3>2. left(g, x) = left(goal, x)
            BY <1>1, <2>4, <3>1
        <3>3. Next1(g, x) = Next1(goal, x)
            <4> HIDE DEF left
            <4> QED
                BY <3>2, Zenon
        <3> QED
            BY <1>3, <2>2, <3>3, Zenon
    <2>5. Nat \subseteq T
        <3> HIDE DEF T
        <3> QED
            BY <2>3, <2>4, Upwards, Zenon
    <2>6. n \in T
        BY <2>5, Zenon
    <2>7. \A x \in 0 .. n - 1 : g[x] = goal[x]
        BY <2>6
    <2>8. goal = [x \in 0 .. n - 1 |-> goal[x]]
        BY Zenon
    <2> QED
        BY <2>2, <2>7, <2>8, Zenon
<1> HIDE DEF Next1, left
<1> QED
    BY <1>5, <1>6, RowIsChosen, Zenon

\* The recursion of png_unfilter, as an equation.
RowStart(width, y) == y * (Stride(width) + 1) + 1
RowOf(data, width, y) == [x \in 0 .. Stride(width) - 1 |-> data[RowStart(width, y) + 1 + x]]
NoRow(width) == [x \in 0 .. Stride(width) - 1 |-> 0]
AreRows(data, width, height, rows) ==
    rows = [y \in -1 .. height - 1 |->
               IF y = -1 THEN NoRow(width)
               ELSE UnfilteredRow(data[RowStart(width, y)], RowOf(data, width, y), rows[y - 1])]

LEMMA RowsAreChosen ==
    ASSUME NEW data, NEW width, NEW height
    PROVE  png_unfilter(data, width, height) =
               [y \in 0 .. height - 1 |->
                   (CHOOSE rows : AreRows(data, width, height, rows))[y]]
BY Zenon DEF png_unfilter, AreRows, RowStart, RowOf, NoRow

\* The bytes of the row y of the picture.
BytesOf(picture, width, y) == [x \in 0 .. Stride(width) - 1 |-> ByteAt(picture, x, y)]

\* The bytes of a row are those of its pixels.
LEMMA BytesOfPixels ==
    ASSUME NEW w \in Nat, NEW x \in 0 .. Stride(w) - 1
    PROVE  Stride(w) \in Nat /\ x \div BPP \in 0 .. w - 1 /\ (x % BPP) + 1 \in 1 .. BPP
<1>1. BPP \in Nat \ {0} /\ w * BPP \in Nat
    BY PngDecoderAssumption, Z3
<1>2. x \in Nat /\ x < w * BPP
    BY <1>1 DEF Stride
<1>3. x \div BPP \in Int /\ x % BPP \in 0 .. BPP - 1 /\ x = (x \div BPP) * BPP + (x % BPP)
    BY <1>1, <1>2, Z3
<1>4. x \div BPP >= 0 /\ x \div BPP < w
    BY <1>1, <1>2, <1>3, Z3
<1>5. Stride(w) = w * BPP
    BY Zenon DEF Stride
<1> HIDE DEF Stride
<1> QED
    BY <1>1, <1>3, <1>4, <1>5

LEMMA BytesType ==
    ASSUME NEW w \in Nat, NEW h \in Nat, NEW picture \in PictureSet(w, h),
           NEW y \in -1 .. h - 1
    PROVE  BytesOf(picture, w, y) \in [0 .. Stride(w) - 1 -> Byte]
<1> SUFFICES ASSUME NEW x \in 0 .. Stride(w) - 1 PROVE ByteAt(picture, x, y) \in Byte
    BY Zenon DEF BytesOf
<1>1. Stride(w) \in Nat /\ x \div BPP \in 0 .. w - 1 /\ (x % BPP) + 1 \in 1 .. BPP
    BY BytesOfPixels, Zenon
<1>2. 0 \in Byte
    BY PngDecoderAssumption DEF Byte
<1>3. CASE y < 0
    BY <1>2, <1>3, Zenon DEF ByteAt
<1>4. CASE ~(y < 0)
    <2>1. y \in 0 .. h - 1 /\ ~(x < 0)
        BY <1>1, <1>4
    <2>2. <<x \div BPP, y>> \in (0 .. w - 1) \X (0 .. h - 1)
        BY <1>1, <2>1, Zenon
    <2>3. picture[<<x \div BPP, y>>][(x % BPP) + 1] \in Byte
        BY <1>1, <2>2, Zenon DEF PictureSet
    <2> QED
        BY <1>4, <2>1, <2>3, Zenon DEF ByteAt
<1> QED
    BY <1>3, <1>4, Zenon

\* A turn of the loop over the rows restores one row of the picture.
LEMMA TurnRestores ==
    ASSUME NEW w \in Nat, NEW h \in Nat, NEW picture \in PictureSet(w, h), NEW data,
           Encodes(data, picture, w, h), NEW y \in 0 .. h - 1
    PROVE  UnfilteredRow(data[RowStart(w, y)], RowOf(data, w, y), BytesOf(picture, w, y - 1))
               = BytesOf(picture, w, y)
<1> DEFINE n == Stride(w)
           filter == data[RowStart(w, y)]
           row == RowOf(data, w, y)
           prev == BytesOf(picture, w, y - 1)
           goal == BytesOf(picture, w, y)
<1>1. n \in Nat
    BY PngDecoderAssumption, Z3 DEF Stride
<1>2. prev \in [0 .. n - 1 -> Byte] /\ goal \in [0 .. n - 1 -> Byte]
    <2>1. y - 1 \in -1 .. h - 1 /\ y \in -1 .. h - 1
        OBVIOUS
    <2> QED
        BY <2>1, BytesType, Zenon
<1>3. /\ filter \in 0 .. 4
      /\ \A x \in 0 .. n - 1 :
             data[RowStart(w, y) + 1 + x] = FilteredByte(picture, filter, x, y)
    BY Zenon DEF Encodes, RowStart
<1>4. DOMAIN row = 0 .. n - 1
    BY Zenon DEF RowOf
<1>5. ASSUME NEW x \in 0 .. n - 1
      PROVE  row[x] = (goal[x] - Prediction(filter, At(goal, x - BPP), At(prev, x),
                                            At(prev, x - BPP))) % BYTE
    <2>1. BPP \in Nat \ {0} /\ x \in Nat
        BY <1>1, PngDecoderAssumption
    <2>2. row[x] = FilteredByte(picture, filter, x, y)
        BY <1>3, Zenon DEF RowOf
    <2>3. goal[x] = ByteAt(picture, x, y) /\ At(prev, x) = ByteAt(picture, x, y - 1)
        BY <2>1 DEF BytesOf, At
    <2>4. /\ At(goal, x - BPP) = ByteAt(picture, x - BPP, y)
          /\ At(prev, x - BPP) = ByteAt(picture, x - BPP, y - 1)
        <3>1. CASE x - BPP < 0
            BY <3>1, Zenon DEF At, ByteAt
        <3>2. CASE ~(x - BPP < 0)
            <4>1. x - BPP \in 0 .. n - 1
                BY <1>1, <2>1, <3>2
            <4> QED
                BY <3>2, <4>1, Zenon DEF At, BytesOf
        <3> QED
            BY <3>1, <3>2, Zenon
    <2> HIDE DEF row, goal, prev, filter, n
    <2> QED
        BY <2>2, <2>3, <2>4, Zenon DEF FilteredByte
<1> HIDE DEF n, filter, row, prev, goal
<1>6. UnfilteredRow(filter, row, prev) = goal
    <2>1. IsFilteredRow(n, filter, row, prev, goal)
        BY <1>5, Zenon DEF IsFilteredRow
    <2> QED
        BY <1>1, <1>2, <1>3, <1>4, <2>1, RowRestored, Zenon
<1> QED
    BY <1>6, Zenon DEF filter, row, prev, goal

\* png_unfilter gives back the bytes of the picture, row by row.
LEMMA RowsRestored ==
    ASSUME NEW w \in Nat, NEW h \in Nat, NEW picture \in PictureSet(w, h), NEW data,
           Encodes(data, picture, w, h)
    PROVE  png_unfilter(data, w, h) = [y \in 0 .. h - 1 |-> BytesOf(picture, w, y)]
<1> DEFINE goal == [y \in -1 .. h - 1 |-> BytesOf(picture, w, y)]
           Turn(rows, y) == UnfilteredRow(data[RowStart(w, y)], RowOf(data, w, y), rows[y - 1])
<1>1. BytesOf(picture, w, -1) = NoRow(w)
    BY DEF BytesOf, NoRow, ByteAt
<1>2. ASSUME NEW y \in 0 .. h - 1 PROVE Turn(goal, y) = BytesOf(picture, w, y)
    <2>1. y - 1 \in -1 .. h - 1
        OBVIOUS
    <2>2. goal[y - 1] = BytesOf(picture, w, y - 1)
        BY <2>1, Zenon
    <2> HIDE DEF goal
    <2> QED
        BY <2>2, TurnRestores
<1>3. \A rows : AreRows(data, w, h, rows) <=>
          rows = [y \in -1 .. h - 1 |-> IF y = -1 THEN NoRow(w) ELSE Turn(rows, y)]
    BY Zenon DEF AreRows
<1>4. \A y \in -1 .. h - 1 : y = -1 \/ y \in 0 .. h - 1
    OBVIOUS
<1> HIDE DEF Turn
<1>5. AreRows(data, w, h, goal)
    <2>1. \A y \in -1 .. h - 1 :
              BytesOf(picture, w, y) = IF y = -1 THEN NoRow(w) ELSE Turn(goal, y)
        <3> HIDE DEF goal
        <3> QED
            BY <1>1, <1>2, <1>4, Zenon
    <2>2. goal = [y \in -1 .. h - 1 |-> IF y = -1 THEN NoRow(w) ELSE Turn(goal, y)]
        BY <2>1, Zenon
    <2> HIDE DEF goal
    <2> QED
        BY <1>3, <2>2, Zenon
<1>6. ASSUME NEW rows, AreRows(data, w, h, rows), NEW y \in -1 .. h - 1
      PROVE  rows[y] = BytesOf(picture, w, y)
    <2>1. \A z \in -1 .. h - 1 : rows[z] = IF z = -1 THEN NoRow(w) ELSE Turn(rows, z)
        BY <1>3, <1>6, Zenon
    <2> DEFINE T == {m \in Nat : m <= h => rows[m - 1] = BytesOf(picture, w, m - 1)}
    <2>2. 0 \in T
        <3>1. 0 - 1 = -1 /\ -1 \in -1 .. h - 1
            OBVIOUS
        <3> QED
            BY <1>1, <2>1, <3>1, Zenon
    <2>3. ASSUME NEW m \in Nat, m \in T PROVE m + 1 \in T
        <3> SUFFICES ASSUME m + 1 <= h PROVE rows[m] = BytesOf(picture, w, m)
            OBVIOUS
        <3>1. m \in 0 .. h - 1 /\ m \in -1 .. h - 1 /\ m - 1 \in -1 .. h - 1 /\ m # -1
            OBVIOUS
        <3>2. rows[m - 1] = BytesOf(picture, w, m - 1)
            BY <2>3, <3>1
        <3>3. Turn(rows, m) = BytesOf(picture, w, m)
            BY <3>1, <3>2, TurnRestores DEF Turn
        <3> QED
            BY <2>1, <3>1, <3>3, Zenon
    <2>4. Nat \subseteq T
        <3> HIDE DEF T
        <3> QED
            BY <2>2, <2>3, Upwards, Zenon
    <2>5. y + 1 \in T /\ y + 1 <= h /\ (y + 1) - 1 = y
        <3>1. y + 1 \in Nat
            OBVIOUS
        <3> QED
            BY <2>4, <3>1
    <2> QED
        BY <2>5, Zenon
<1> DEFINE chosen == CHOOSE rows : AreRows(data, w, h, rows)
<1>7. AreRows(data, w, h, chosen)
    <2> HIDE DEF goal
    <2> QED
        BY <1>5, Zenon
<1>8. \A y \in 0 .. h - 1 : chosen[y] = BytesOf(picture, w, y)
    <2>1. \A y \in 0 .. h - 1 : y \in -1 .. h - 1
        OBVIOUS
    <2> HIDE DEF chosen
    <2> QED
        BY <1>6, <1>7, <2>1, Zenon
<1>9. png_unfilter(data, w, h) = [y \in 0 .. h - 1 |-> chosen[y]]
    BY RowsAreChosen, Zenon
<1> HIDE DEF chosen
<1> QED
    BY <1>8, <1>9, Zenon

\* Where a byte of a pixel is in its row.
LEMMA PixelByte ==
    ASSUME NEW q \in Nat, NEW i \in 1 .. BPP, NEW x \in Nat, x = q * BPP + i - 1
    PROVE  x \div BPP = q /\ (x % BPP) + 1 = i
<1>1. BPP \in Nat \ {0} /\ i - 1 \in 0 .. BPP - 1
    BY PngDecoderAssumption
<1>2. x = q * BPP + (i - 1)
    BY <1>1, Z3
<1>3. x \div BPP = q /\ x % BPP = i - 1
    BY <1>1, <1>2, Quotient
<1> QED
    BY <1>1, <1>3

\* For every size and every picture: what a file holds of the picture after the
\* filters of the PNG specification, png_unfilter turns into the picture again.
THEOREM DecoderRestores ==
    ASSUME NEW w \in Nat, NEW h \in Nat, NEW picture \in PictureSet(w, h), NEW data,
           Encodes(data, picture, w, h)
    PROVE  Pixels(png_unfilter(data, w, h), w, h) = picture
<1> DEFINE rows == png_unfilter(data, w, h)
           Pixel(p) == [i \in 1 .. BPP |-> rows[p[2]][p[1] * BPP + i - 1]]
<1>1. ASSUME NEW q \in 0 .. w - 1, NEW r \in 0 .. h - 1, NEW i \in 1 .. BPP
      PROVE  rows[r][q * BPP + i - 1] = picture[<<q, r>>][i]
    <2> DEFINE x == q * BPP + i - 1
    <2>1. rows[r] = BytesOf(picture, w, r)
        BY RowsRestored
    <2>2. BPP \in Nat \ {0} /\ q \in Nat /\ r \in Nat
        BY PngDecoderAssumption
    <2>3. q * BPP \in Nat /\ (q + 1) * BPP <= w * BPP
            /\ (q + 1) * BPP = q * BPP + BPP /\ w * BPP \in Nat
        BY <2>2, Z3
    <2>4. x \in 0 .. Stride(w) - 1 /\ x \in Nat
        BY <2>2, <2>3 DEF Stride
    <2>5. x \div BPP = q /\ (x % BPP) + 1 = i
        BY <2>2, <2>4, PixelByte
    <2>6. rows[r][x] = ByteAt(picture, x, r)
        <3> HIDE DEF x, rows
        <3> QED
            BY <2>1, <2>4, Zenon DEF BytesOf
    <2>7. ~(x < 0 \/ r < 0)
        BY <2>2, <2>4
    <2>8. ByteAt(picture, x, r) = picture[<<x \div BPP, r>>][(x % BPP) + 1]
        BY <2>7, Zenon DEF ByteAt
    <2> HIDE DEF x
    <2>9. rows[r][x] = picture[<<q, r>>][i]
        BY <2>5, <2>6, <2>8, Zenon
    <2> QED
        BY <2>9, Zenon DEF x
<1>2. ASSUME NEW p \in (0 .. w - 1) \X (0 .. h - 1) PROVE Pixel(p) = picture[p]
    <2>1. p[1] \in 0 .. w - 1 /\ p[2] \in 0 .. h - 1 /\ p = <<p[1], p[2]>>
        OBVIOUS
    <2>2. picture[p] = [i \in 1 .. BPP |-> picture[p][i]]
        BY Zenon DEF PictureSet
    <2> HIDE DEF rows
    <2>3. \A i \in 1 .. BPP : rows[p[2]][p[1] * BPP + i - 1] = picture[p][i]
        BY <1>1, <2>1, Zenon
    <2> QED
        BY <2>2, <2>3, Zenon
<1>3. Pixels(rows, w, h) = [p \in (0 .. w - 1) \X (0 .. h - 1) |-> Pixel(p)]
    BY Zenon DEF Pixels
<1>4. picture = [p \in (0 .. w - 1) \X (0 .. h - 1) |-> picture[p]]
    BY Zenon DEF PictureSet
<1> HIDE DEF Pixel
<1> QED
    BY <1>2, <1>3, <1>4, Zenon
\* The rows of a picture, each with the byte of its filter, are not empty.
LEMMA RowsAreBytes ==
    ASSUME NEW w \in Nat \ {0}, NEW h \in Nat \ {0}
    PROVE  h * (Stride(w) + 1) \in Nat \ {0} /\ w * h # 0
<1>1. BPP \in Nat \ {0}
    BY PngDecoderAssumption
<1>2. w * BPP \in Nat /\ w * h \in Nat \ {0}
    BY <1>1, Z3
<1>3. Stride(w) \in Nat
    BY <1>2 DEF Stride
<1>4. h * (Stride(w) + 1) \in Nat \ {0}
    BY <1>3, Z3
<1> QED
    BY <1>2, <1>4

\* The length of a stored block, from its two bytes.
LEMMA LengthFromBytes ==
    ASSUME NEW n \in Nat PROVE (n % BYTE) + BYTE * (n \div BYTE) = n
<1>1. BYTE \in Nat \ {0}
    BY PngDecoderAssumption
<1> QED
    BY <1>1, Z3

\* The only chunk of its type, not behind IEND, is the one the loop ends with.
LEMMA OnlyChunk ==
    ASSUME NEW chunks, Len(chunks) \in Nat, DOMAIN chunks = 1 .. Len(chunks), NEW type,
           NEW i \in 1 .. Len(chunks), IsOnly(chunks, type, i),
           \A j \in 1 .. i : chunks[j].type # "IEND"
    PROVE  OfType(chunks, type) = {i} /\ Max(OfType(chunks, type)) = i
<1>1. i \in Walked(chunks)
    BY Zenon DEF Walked
<1>2. OfType(chunks, type) = {i}
    BY <1>1, Zenon DEF OfType, Walked, IsOnly
<1>3. Max({i}) = i
    BY DEF Max
<1> QED
    BY <1>2, <1>3, Zenon

\* What the decoder makes of a file of the kind it is for.
LEMMA PictureDecoded ==
    ASSUME NEW f \in Files, Holds(f) PROVE Decoded(f) = f.picture
<1> DEFINE w == f.chunks[1].width
           h == f.chunks[1].height
           n == h * (Stride(w) + 1)
<1>1. Len(f.chunks) \in Nat \ {0} /\ DOMAIN f.chunks = 1 .. Len(f.chunks)
    BY FilesAssumption, Zenon
<1>2. /\ f.signature /\ IsOnly(f.chunks, "IHDR", 1) /\ f.chunks[1].rgba8
      /\ w \in Nat \ {0} /\ h \in Nat \ {0} /\ f.picture \in PictureSet(w, h)
    BY Zenon DEF Holds
<1>3. PICK d \in 2 .. Len(f.chunks) :
             /\ IsOnly(f.chunks, "IDAT", d)
             /\ \A j \in 1 .. d : f.chunks[j].type # "IEND"
             /\ Len(f.chunks[d].data) = BlockHeader + n + 4
             /\ f.chunks[d].data[3] = 1
             /\ f.chunks[d].data[4] = n % BYTE /\ f.chunks[d].data[5] = n \div BYTE
             /\ Encodes(SubSeq(f.chunks[d].data, BlockHeader + 1, BlockHeader + n), f.picture, w, h)
    BY Zenon DEF Holds
<1>4. n \in Nat \ {0} /\ w * h # 0
    BY <1>2, RowsAreBytes
<1> DEFINE block == f.chunks[d].data
<1> HIDE DEF n, w, h
<1>5. 1 \in 1 .. Len(f.chunks) /\ d \in 1 .. Len(f.chunks) /\ Len(f.chunks) \in Nat
    BY <1>1
<1>6. \A j \in 1 .. 1 : f.chunks[j].type # "IEND"
    <2>1. f.chunks[1].type = "IHDR"
        BY <1>2, <1>5, Zenon DEF IsOnly
    <2> QED
        BY <2>1
<1>7. /\ OfType(f.chunks, "IHDR") = {1} /\ Max(OfType(f.chunks, "IHDR")) = 1
      /\ OfType(f.chunks, "IDAT") = {d} /\ Max(OfType(f.chunks, "IDAT")) = d
    BY <1>1, <1>2, <1>3, <1>5, <1>6, OnlyChunk, Zenon
<1>8. Parsed(f) = [width |-> w, height |-> h, data |-> block]
    BY <1>2, <1>7 DEF Parsed, w, h
<1>9. StoredLength(block) = n
    <2>1. Len(block) >= 6 /\ Len(block) \in Nat
        BY <1>3, <1>4 DEF BlockHeader
    <2>2. (block[3] \div 2) % 4 = 0
        BY <1>3
    <2>3. StoredLength(block) = (n % BYTE) + BYTE * (n \div BYTE)
        BY <1>3, <2>1, <2>2 DEF StoredLength
    <2> QED
        BY <1>4, <2>3, LengthFromBytes
<1>10. StoredData(block) = SubSeq(block, BlockHeader + 1, BlockHeader + n)
    BY <1>9, Zenon DEF StoredData
<1> HIDE DEF block
<1>11. Parsed(f).width = w /\ Parsed(f).height = h /\ Parsed(f).data = block
    BY <1>8
<1>12. Decoded(f) = Pixels(png_unfilter(StoredData(block), w, h), w, h)
    BY <1>4, <1>9, <1>11 DEF Decoded
<1>13. Encodes(StoredData(block), f.picture, w, h)
    BY <1>3, <1>10, Zenon DEF block
<1>14. w \in Nat /\ h \in Nat
    BY <1>2
<1> QED
    BY <1>2, <1>12, <1>13, <1>14, DecoderRestores, Zenon

\* And of one of another kind.
LEMMA NothingDecoded ==
    ASSUME NEW f \in Files, IsRefused(f) PROVE Decoded(f) = NoPicture /\ f.picture = NoPicture
<1>1. Len(f.chunks) \in Nat \ {0} /\ DOMAIN f.chunks = 1 .. Len(f.chunks)
    BY FilesAssumption, Zenon
<1>2. StoredLength(<<>>) = 0
    BY DEF StoredLength
<1>3. ASSUME StoredLength(Parsed(f).data) = 0 PROVE Decoded(f) = NoPicture
    BY <1>3, Zenon DEF Decoded
<1>4. ASSUME Parsed(f) = NotParsed PROVE Decoded(f) = NoPicture
    <2>1. Parsed(f).data = <<>>
        BY <1>4 DEF NotParsed
    <2> QED
        BY <1>2, <1>3, <2>1, Zenon
<1>5. CASE ~f.signature
    BY <1>4, <1>5 DEF Parsed, IsRefused
<1>6. CASE IsOnly(f.chunks, "IHDR", 1) /\ ~f.chunks[1].rgba8
    <2>1. 1 \in 1 .. Len(f.chunks) /\ Len(f.chunks) \in Nat
        BY <1>1
    <2>2. \A j \in 1 .. 1 : f.chunks[j].type # "IEND"
        <3>1. f.chunks[1].type = "IHDR"
            BY <1>6, <2>1, Zenon DEF IsOnly
        <3> QED
            BY <3>1
    <2>3. OfType(f.chunks, "IHDR") = {1}
        BY <1>1, <1>6, <2>1, <2>2, OnlyChunk, Zenon
    <2> QED
        BY <1>4, <1>6, <2>3, Zenon DEF Parsed, IsRefused
<1>7. CASE \A i \in 1 .. Len(f.chunks) : f.chunks[i].type # "IDAT"
    <2>1. OfType(f.chunks, "IDAT") = {}
        BY <1>1, <1>7, Zenon DEF OfType, Walked
    <2> QED
        BY <1>4, <2>1, Zenon DEF Parsed, IsRefused
<1>8. CASE \E d \in 1 .. Len(f.chunks) : /\ IsOnly(f.chunks, "IDAT", d)
                                        /\ (f.chunks[d].data[3] \div 2) % 4 # 0
    <2>1. PICK d \in 1 .. Len(f.chunks) : /\ IsOnly(f.chunks, "IDAT", d)
                                        /\ (f.chunks[d].data[3] \div 2) % 4 # 0
        BY <1>8, Zenon
    <2>2. CASE Parsed(f) = NotParsed
        BY <1>4, <2>2, Zenon DEF IsRefused
    <2>3. CASE Parsed(f) # NotParsed
        <3>1. OfType(f.chunks, "IDAT") # {}
            BY <2>3, Zenon DEF Parsed
        <3>2. OfType(f.chunks, "IDAT") = {d}
            <4>1. OfType(f.chunks, "IDAT") \subseteq {d}
                BY <1>1, <2>1 DEF OfType, Walked, IsOnly
            <4> QED
                BY <3>1, <4>1, Zenon
        <3>3. Max({d}) = d
            BY <1>1 DEF Max
        <3>4. Parsed(f).data = f.chunks[d].data
            BY <2>3, <3>2, <3>3 DEF Parsed
        <3>5. StoredLength(Parsed(f).data) = 0
            BY <2>1, <3>4, Zenon DEF StoredLength
        <3> QED
            BY <1>3, <3>5, Zenon DEF IsRefused
    <2> QED
        BY <2>2, <2>3, Zenon
<1> QED
    BY <1>5, <1>6, <1>7, <1>8, Zenon DEF IsRefused

DecoderInv == file \in Files /\ DecodesThePicture

\* Whatever picture of whatever size was put into a file, with any filter for each
\* row: if png_decode_buffer returns anything but NULL, it is that picture.
THEOREM DecoderReturnsThePicture == DecoderSpec => []DecodesThePicture
<1>1. DecoderInit => DecoderInv
    BY Zenon DEF DecoderInit, DecoderInv, DecodesThePicture
<1>2. DecoderInv /\ [png_decode_buffer]_decoderVars => DecoderInv'
    <2> SUFFICES ASSUME DecoderInv, [png_decode_buffer]_decoderVars PROVE DecoderInv'
        BY Zenon
    <2>1. CASE png_decode_buffer
        <3>1. Decoded(file) \in {NoPicture, file.picture}
            BY PictureDecoded, NothingDecoded, FilesAssumption, Zenon DEF DecoderInv
        <3>2. file' = file /\ returned' \in {<<Decoded(file)>>, <<NoPicture>>}
            BY <2>1, Zenon DEF png_decode_buffer
        <3> QED
            BY <3>1, <3>2, Zenon DEF DecoderInv, DecodesThePicture
    <2>2. CASE UNCHANGED decoderVars
        BY <2>2, Zenon DEF decoderVars, DecoderInv, DecodesThePicture
    <2> QED
        BY <2>1, <2>2, Zenon
<1>3. DecoderInv => DecodesThePicture
    BY Zenon DEF DecoderInv
<1> QED
    BY <1>1, <1>2, <1>3, PTL DEF DecoderSpec
=============================================================================
