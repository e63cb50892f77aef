----------------------------- MODULE Framebuffer -----------------------------
(***************************************************************************)
(* The drawing functions of VirtIO.c on the frame buffer in memory, a      *)
(* one-dimensional array of pixels.  Coordinates and sizes are uint32_t;   *)
(* UINT32_MOD stands for 2^32.                                             *)
(***************************************************************************)
EXTENDS Integers

CONSTANTS Width, Height, UINT32_MOD, Colors,
    Black       \* the colour 0

ASSUME FramebufferAssumption ==
    /\ Width \in Nat \ {0} /\ Height \in Nat \ {0} /\ UINT32_MOD \in Nat
    /\ Width < UINT32_MOD /\ Height < UINT32_MOD
    /\ Black \in Colors

VARIABLE g_gpu_fb

Uint32 == 0 .. UINT32_MOD - 1

\* memset(fb, 0, fb_bytes)
Init == g_gpu_fb = [i \in 0 .. Width * Height - 1 |-> Black]

\* The places in the frame buffer of the pixels in the columns and the rows.
Cells(columns, rows) == {py * Width + px : px \in columns, py \in rows}

\* Stores to the places: a store behind the end of the frame buffer adds a place
\* that TypeOK does not allow.
Painted(fb, cells, color) ==
    [i \in DOMAIN fb \cup cells |-> IF i \in cells THEN color ELSE fb[i]]

virtio_gpu_draw_pixel(x, y, color) ==
    IF x >= Width \/ y >= Height
      THEN UNCHANGED g_gpu_fb
      ELSE g_gpu_fb' = Painted(g_gpu_fb, Cells({x}, {y}), color)

\* Faulty form: a sum that wrapped is not noticed.
ClipEnd_wraps(start, len, limit) ==
    LET end == (start + len) % UINT32_MOD IN IF end > limit THEN limit ELSE end

\* x_end and y_end of virtio_gpu_fill_rect.
ClipEnd(start, len, limit) ==
    LET end == (start + len) % UINT32_MOD
    IN  IF end > limit \/ end < start THEN limit ELSE end

\* The frame buffer fb after virtio_gpu_fill_rect.
Filled(fb, x, y, w, h, color) ==
    IF w = 0 \/ h = 0 \/ x >= Width \/ y >= Height
      THEN fb
      ELSE Painted(fb, Cells(x .. ClipEnd(x, w, Width) - 1,
                             y .. ClipEnd(y, h, Height) - 1), color)

virtio_gpu_fill_rect(x, y, w, h, color) ==
    g_gpu_fb' = Filled(g_gpu_fb, x, y, w, h, color)

Next ==
    \E x, y \in Uint32, color \in Colors :
        \/ virtio_gpu_draw_pixel(x, y, color)
        \/ \E w, h \in Uint32 : virtio_gpu_fill_rect(x, y, w, h, color)

Spec == Init /\ [][Next]_g_gpu_fb
-----------------------------------------------------------------------------
(* Properties *)

\* The drawing functions store colours, and nothing outside the frame buffer.
TypeOK == g_gpu_fb \in [0 .. Width * Height - 1 -> Colors]

\* The part of a span of pixels that is on the screen, in unbounded integers.
Visible(start, len, limit) == {p \in 0 .. limit - 1 : start <= p /\ p < start + len}

\* Filling a rectangle colours just the part of it that is on the screen, also
\* when x + w or y + h does not fit in 32 bits, and that part lies inside the
\* frame buffer (virtio_gpu_fill_rect).
FillsOnlyTheRectangle ==
    \A x, y, w, h \in Uint32, color \in Colors :
        LET cells == Cells(Visible(x, w, Width), Visible(y, h, Height))
        IN  /\ cells \subseteq DOMAIN g_gpu_fb
            /\ Filled(g_gpu_fb, x, y, w, h, color) = Painted(g_gpu_fb, cells, color)
=============================================================================
