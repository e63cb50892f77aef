---------------------------- MODULE MCPngDecoder ----------------------------
(***************************************************************************)
(* PngDecoder on small pictures: an encoder written from the filters of    *)
(* the PNG specification makes the files.                                  *)
(***************************************************************************)
EXTENDS PngDecoder

EncodedRow(picture, w, y, filter) ==
    <<filter>> \o [i \in 1 .. w * BPP |-> FilteredByte(picture, filter, i - 1, y)]

Zlib(data) ==
    <<0, 0, 1, Len(data) % BYTE, Len(data) \div BYTE, 0, 0>> \o data \o <<0, 0, 0, 0>>

Chunk(type) == [type |-> type]
Header(w, h) == [type |-> "IHDR", width |-> w, height |-> h, rgba8 |-> TRUE]
Idat(data) == [type |-> "IDAT", data |-> data]

FileOf(picture, w, h, chunks) ==
    [signature |-> TRUE, picture |-> picture,
     chunks |-> <<Header(w, h)>> \o chunks \o <<Chunk("IEND")>>]

\* A picture from the first bytes of its pixels; the others differ from them.
PictureOf(first) == [p \in DOMAIN first |-> [i \in 1 .. BPP |-> (first[p] + 3 * (i - 1)) % BYTE]]

\* Pictures of two by two pixels, with every pair of filters, and wider ones.
Square ==
    {LET picture == PictureOf(first)
     IN  FileOf(picture, 2, 2, <<Idat(Zlib(EncodedRow(picture, 2, 0, f) \o
                                           EncodedRow(picture, 2, 1, g)))>>) :
        first \in [(0 .. 1) \X (0 .. 1) -> {0, 1, BYTE - 1}], f \in 0 .. 4, g \in 0 .. 4}

Line ==
    {LET picture == PictureOf(first)
     IN  FileOf(picture, 4, 1, <<Chunk("tEXt"), Idat(Zlib(EncodedRow(picture, 4, 0, f)))>>) :
        first \in [(0 .. 3) \X {0} -> {0, BYTE - 1}], f \in 0 .. 4}

OnePixel == [p \in {<<0, 0>>} |-> [i \in 1 .. BPP |-> BYTE - 1]]
PixelData == Zlib(EncodedRow(OnePixel, 1, 0, 0))

\* Another format, other fields, no data, compressed data.
Refused ==
    {[FileOf(NoPicture, 1, 1, <<Idat(PixelData)>>) EXCEPT !.signature = FALSE],
     [FileOf(NoPicture, 1, 1, <<Idat(PixelData)>>) EXCEPT !.chunks[1].rgba8 = FALSE],
     FileOf(NoPicture, 1, 1, <<>>),
     FileOf(NoPicture, 1, 1, <<Idat([PixelData EXCEPT ![3] = 3])>>)}

MCFiles == Square \cup Line \cup Refused
=============================================================================
