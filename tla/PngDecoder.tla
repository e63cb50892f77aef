----------------------------- MODULE PngDecoder -----------------------------
(***************************************************************************)
(* PNG_Decoder.c as an algorithm: what png_decode_buffer returns for the   *)
(* bytes of a file, if it returns.  The user program's kmalloc and kfree   *)
(* are system calls that do not come back (ReturnsThroughSavedFrame of     *)
(* Syscall); nothing here says that the decoder gets past them.            *)
(*                                                                         *)
(* A file is a sequence of chunks; a chunk has its type and its bytes, and *)
(* the header chunk its fields.  BYTE stands for 256 and BPP for the 4     *)
(* bytes of a pixel.  The decoder understands one way of compressing only, *)
(* that of not compressing: one stored block in one IDAT chunk.            *)
(***************************************************************************)
EXTENDS Integers, Sequences, FiniteSetsExt

CONSTANTS BYTE, BPP,
    Files       \* the files decoded, each with the picture it is meant to hold

ASSUME PngDecoderAssumption == BYTE \in Nat \ {0, 1} /\ BPP \in Nat \ {0}

Byte == 0 .. BYTE - 1

\* The number of bytes of a row, without that of its filter.
Stride(width) == width * BPP
-----------------------------------------------------------------------------
(* png_unfilter *)

Distance(a, b) == IF a > b THEN a - b ELSE b - a

\* Case 4 of png_unfilter.
Paeth(a, b, c) ==
    LET p == a + b - c
    IN  IF Distance(p, a) <= Distance(p, b) /\ Distance(p, a) <= Distance(p, c) THEN a
        ELSE IF Distance(p, b) <= Distance(p, c) THEN b ELSE c

\* What is added to a byte; a, b and c are the ones to the left, above, and above
\* to the left, or 0.  A filter that is not known adds nothing.
Predicted(filter, a, b, c) ==
    CASE filter = 1 -> a
      [] filter = 2 -> b
      [] filter = 3 -> (a + b) \div 2
      [] filter = 4 -> Paeth(a, b, c)
      [] OTHER -> 0

\* The byte at x of a row; 0 to the left of the row.
At(row, x) == IF x < 0 THEN 0 ELSE row[x]

\* Faulty form: the bytes to the left are taken as they are in the file.
UnfilteredRow_raw(filter, row, prev) ==
    [x \in DOMAIN row |->
        (row[x] + Predicted(filter, At(row, x - BPP), At(prev, x), At(prev, x - BPP))) % BYTE]

\* A turn of the loop over y: the bytes to the left have been restored before.
UnfilteredRow(filter, row, prev) ==
    LET out[x \in DOMAIN row] ==
          (row[x] + Predicted(filter, IF x < BPP THEN 0 ELSE out[x - BPP],
                              At(prev, x), At(prev, x - BPP))) % BYTE
    IN  out

\* The rows of the picture, from 0; there is nothing above the first.
png_unfilter(data, width, height) ==
    LET start(y) == y * (Stride(width) + 1) + 1
        row(y) == [x \in 0 .. Stride(width) - 1 |-> data[start(y) + 1 + x]]
        rows[y \in -1 .. height - 1] ==
          IF y = -1 THEN [x \in 0 .. Stride(width) - 1 |-> 0]
          ELSE UnfilteredRow(data[start(y)], row(y), rows[y - 1])
    IN  [y \in 0 .. height - 1 |-> rows[y]]
-----------------------------------------------------------------------------
(* zlib_decompress_uncompressed *)

\* Two bytes of zlib, one of the block, its length twice; then the data.
BlockHeader == 7

\* The number of bytes to copy; 0 also stands for "not understood": the caller of
\* kmalloc(0) gets NULL.
StoredLength(data) ==
    IF Len(data) < 6 \/ (data[3] \div 2) % 4 # 0 THEN 0 ELSE data[4] + BYTE * data[5]

StoredData(data) == SubSeq(data, BlockHeader + 1, BlockHeader + StoredLength(data))
-----------------------------------------------------------------------------
(* png_decode_buffer *)

\* The chunks before IEND.
Walked(chunks) ==
    {i \in DOMAIN chunks : \A j \in 1 .. i : chunks[j].type # "IEND"}

OfType(chunks, type) == {i \in Walked(chunks) : chunks[i].type = type}

NotParsed == [width |-> 0, height |-> 0, data |-> <<>>]

\* The loop over the chunks: of several IDAT chunks the last one stays.
Parsed(file) ==
    LET headers == OfType(file.chunks, "IHDR")
        idats == OfType(file.chunks, "IDAT")
        header == file.chunks[Max(headers)]
    IN  IF ~file.signature \/ idats = {} \/ (\E i \in headers : ~file.chunks[i].rgba8)
          THEN NotParsed
          ELSE [width |-> IF headers = {} THEN 0 ELSE header.width,
                height |-> IF headers = {} THEN 0 ELSE header.height,
                data |-> file.chunks[Max(idats)].data]

\* The picture that the rows hold: the colour of a pixel is its bytes.
Pixels(rows, width, height) ==
    [p \in (0 .. width - 1) \X (0 .. height - 1) |->
        [i \in 1 .. BPP |-> rows[p[2]][p[1] * BPP + i - 1]]]

NoPicture == <<>>

\* What is made of a file when memory is there: kmalloc(0) returns NULL.
Decoded(file) ==
    LET png == Parsed(file)
    IN  IF StoredLength(png.data) = 0 \/ png.width * png.height = 0 THEN NoPicture
        ELSE Pixels(png_unfilter(StoredData(png.data), png.width, png.height),
                    png.width, png.height)
-----------------------------------------------------------------------------
(* The filters, as the PNG specification defines them: a byte of a row is the
   difference to a prediction from bytes of the picture. *)

\* The one of a, b, c closest to a + b - c, the first of them on a tie.
Nearest(a, b, c) ==
    LET order == <<a, b, c>>
        far(i) == Distance(a + b - c, order[i])
    IN  order[CHOOSE i \in 1 .. 3 : \A j \in 1 .. 3 :
                far(i) < far(j) \/ (far(i) = far(j) /\ i <= j)]

Prediction(filter, a, b, c) ==
    <<0, a, b, (a + b) \div 2, Nearest(a, b, c)>>[filter + 1]

\* The byte at x of the row y of a picture; 0 outside of it.
ByteAt(picture, x, y) ==
    IF x < 0 \/ y < 0 THEN 0 ELSE picture[<<x \div BPP, y>>][(x % BPP) + 1]

FilteredByte(picture, filter, x, y) ==
    (ByteAt(picture, x, y)
       - Prediction(filter, ByteAt(picture, x - BPP, y), ByteAt(picture, x, y - 1),
                    ByteAt(picture, x - BPP, y - 1))) % BYTE

\* The data is that of the picture: before the bytes of each row its filter.
Encodes(data, picture, width, height) ==
    \A y \in 0 .. height - 1 :
        LET start == y * (Stride(width) + 1) + 1
        IN  /\ data[start] \in 0 .. 4
            /\ \A x \in 0 .. Stride(width) - 1 :
                   data[start + 1 + x] = FilteredByte(picture, data[start], x, y)
-----------------------------------------------------------------------------
(* A call of the decoder *)

VARIABLES
    file,           \* what is in the buffer
    returned        \* what png_decode_buffer returned: nothing yet, or one picture

decoderVars == <<file, returned>>

DecoderInit == file \in Files /\ returned = <<>>

\* NULL also when a kmalloc returns NULL.
png_decode_buffer ==
    /\ returned = <<>>
    /\ returned' \in {<<Decoded(file)>>, <<NoPicture>>}
    /\ UNCHANGED file

\* No fairness: the call need not return.
DecoderSpec == DecoderInit /\ [][png_decode_buffer]_decoderVars
-----------------------------------------------------------------------------
(* Properties *)

PictureSet(width, height) ==
    [(0 .. width - 1) \X (0 .. height - 1) -> [1 .. BPP -> Byte]]

IsOnly(chunks, type, i) == \A j \in 1 .. Len(chunks) : chunks[j].type = type <=> j = i

\* A file of the kind the decoder is for: an RGBA header first, and the rows of
\* the picture in one stored block of one IDAT chunk.
Holds(f) ==
    LET width == f.chunks[1].width
        height == f.chunks[1].height
    IN  /\ f.signature /\ IsOnly(f.chunks, "IHDR", 1) /\ f.chunks[1].rgba8
        /\ width \in Nat \ {0} /\ height \in Nat \ {0}
        /\ f.picture \in PictureSet(width, height)
        /\ \E d \in 2 .. Len(f.chunks) :
              LET block == f.chunks[d].data
                  n == height * (Stride(width) + 1)
              IN  /\ IsOnly(f.chunks, "IDAT", d)
                  /\ \A j \in 1 .. d : f.chunks[j].type # "IEND"
                  /\ Len(block) = BlockHeader + n + 4 /\ n < BYTE * BYTE
                  /\ block[3] = 1 /\ block[4] = n % BYTE /\ block[5] = n \div BYTE
                  /\ Encodes(SubSeq(block, BlockHeader + 1, BlockHeader + n),
                             f.picture, width, height)

\* A file of another kind: not a PNG file, another format of pixels, no data, or
\* data that is compressed.
IsRefused(f) ==
    /\ f.picture = NoPicture
    /\ \/ ~f.signature
       \/ IsOnly(f.chunks, "IHDR", 1) /\ ~f.chunks[1].rgba8
       \/ \A i \in 1 .. Len(f.chunks) : f.chunks[i].type # "IDAT"
       \/ \E d \in 1 .. Len(f.chunks) : /\ IsOnly(f.chunks, "IDAT", d)
                                       /\ (f.chunks[d].data[3] \div 2) % 4 # 0

ASSUME FilesAssumption ==
    \A f \in Files :
        /\ Len(f.chunks) \in Nat \ {0} /\ DOMAIN f.chunks = 1 .. Len(f.chunks)
        /\ Holds(f) \/ IsRefused(f)

\* png_decode_buffer returns the picture that was filtered, wrapped and put into
\* the file, or NULL; of a file that holds none it returns NULL.
DecodesThePicture == returned \in {<<>>, <<NoPicture>>, <<file.picture>>}
=============================================================================
