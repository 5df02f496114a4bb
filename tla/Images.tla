------------------------------- MODULE Images -------------------------------
(***************************************************************************)
(* img::Image (common/image.cpp) and the functions that turn, mirror,      *)
(* scale, cut and colour images (rotate.cpp, mirror.cpp, scale.cpp,        *)
(* image.cpp), as the loops over bytes that they are: from one image into  *)
(* another whose buffer may be longer than its picture and hold an older   *)
(* one, or in place.  A buffer shared by copies of an image is a value,    *)
(* which ByteArray.tla shows.                                              *)
(*                                                                         *)
(* Rotation, scaling, cutting and toGray take the rows of an image to lie  *)
(* one after another (Packed); the others know that rows can be aligned.   *)
(***************************************************************************)
EXTENDS Colours

CONSTANTS Names, \* the variables of type Image
          Keeps, \* those with enableMinimumReallocations(true)
          Pages, \* what decoders make: [width, height, depth, align, data]
          Rects, \* the rectangles that are cut out, <<x, y, width, height>>
          Sizes  \* the sizes to scale to, <<width, height>>, 0 for any

ASSUME PagesAssumption ==
    \A p \in Pages : /\ p.width \in Nat \ {0} /\ p.height \in Nat \ {0}
                    /\ p.depth \in {1, 3, 4} /\ p.align \in Nat \ {0}
ASSUME RectsAssumption == Rects \subseteq Int \X Int \X Nat \X Nat
ASSUME SizesAssumption == Sizes \subseteq Nat \X Nat

VARIABLES image,  \* the fields of each image
          answer  \* what the last call answered; TRUE if it answers nothing

vars == <<image, answer>>

\* data is a sequence: the byte at offset k of the code is data[k + 1].
At(s, k) == s[k + 1]

Resized(s, n) == [k \in 1..n |-> IF k <= Len(s) THEN s[k] ELSE 0]

\* memcpy of n bytes from offset j of t to offset k of s.
CopyBytes(s, k, t, j, n) ==
    [i \in 1..Len(s) |-> IF i - 1 - k \in 0..n - 1 THEN At(t, i - 1 - k + j) ELSE s[i]]

Put(s, k, t) == CopyBytes(s, k, t, 0, Len(t))

\* The bytes of t in the buffer of s: to write does not change its length.
Holding(s, t) == [k \in 1..Len(s) |-> t[k]]

\* for (i = 0; i < n; ++i) s = Body(s, i)
Loop(n, s, Body(_, _)) ==
    LET f[i \in 0..n] == IF i = 0 THEN s ELSE Body(f[i - 1], i - 1) IN Holding(s, f[n])

-----------------------------------------------------------------------------
(* Sizes and buffers.                                                      *)

\* Mutant: rounded up to the alignment above.
ScanlineToAlignUp(n, align) == (n \div align + 1) * align

ScanlineToAlign(n, align) ==
    IF n % align # 0 THEN (n \div align + 1) * align ELSE n

\* Nothing reads the alignment of an image before create has set it.
NoImage(keep) ==
    [width |-> 0, height |-> 0, depth |-> 0, align |-> 1, data |-> <<>>, keep |-> keep]

Empty(i) == i.data = <<>>

Scanline(i)        == i.width * i.depth
AlignedScanline(i) == ScanlineToAlign(Scanline(i), i.align)
DataSize(i)        == i.height * AlignedScanline(i)

\* The rows of a decoded page fill its buffer, the bytes they are aligned with
\* included.
ASSUME PageBytesAssumption ==
    \A p \in Pages : p.data \in Seq(Channels) /\ Len(p.data) = DataSize(p)

Packed(i) == i.align = 1

\* Mutant: a buffer that is kept does not grow.
CreateWithoutGrowing(i, w, h, depth, align) ==
    LET new == [i EXCEPT !.width = w, !.height = h, !.depth = depth, !.align = align]
    IN  [new EXCEPT !.data = IF i.keep /\ i.data # <<>> THEN @ ELSE Resized(@, DataSize(new))]

\* Sizes here are positive and small, depths 1, 3 or 4: create throws nothing.
Create(i, w, h, depth, align) ==
    LET new == [i EXCEPT !.width = w, !.height = h, !.depth = depth, !.align = align]
    IN  [new EXCEPT !.data =
            IF ~i.keep \/ DataSize(new) > Len(@) THEN Resized(@, DataSize(new)) ELSE @]

CreateSame(i, other) == Create(i, other.width, other.height, other.depth, other.align)

Copied(src, dst) ==
    LET new == CreateSame(dst, src)
    IN  [new EXCEPT !.data = CopyBytes(@, 0, src.data, 0, DataSize(src))]

\* Where pixel p of an image begins, counted row by row.
PlaceOf(i, p) == (p \div i.width) * AlignedScanline(i) + (p % i.width) * i.depth

Piece(s, k, n) == [i \in 1..n |-> s[k + i]]

PixelAt(i, x, y) == Piece(i.data, y * AlignedScanline(i) + x * i.depth, i.depth)

-----------------------------------------------------------------------------
(* Rotating (rotate.cpp).  Pixels are counted row by row.                  *)

Angles == {"90", "180", "270"}

\* Mutant: 270 degrees with the sizes of the image that is turned.
TargetInOldRows(angle, x, y, w, h) ==
    CASE angle = "90"  -> x * h + h - y - 1
      [] angle = "180" -> (w - 1 - x) + (h - 1 - y) * w
      [] angle = "270" -> y + (w - 1 - x) * w

\* Where the pixel at x, y goes in a picture that was w by h.
Target(angle, x, y, w, h) ==
    CASE angle = "90"  -> x * h + h - y - 1
      [] angle = "180" -> (w - 1 - x) + (h - 1 - y) * w
      [] angle = "270" -> y + (w - 1 - x) * h

\* rotateN_1 moves one byte for a pixel, rotateN_3 three.
RotateInto(src, dst, angle) ==
    LET w     == src.width
        h     == src.height
        bytes == IF src.depth = 1 THEN 1 ELSE 3
        new   == IF angle = "180" THEN Create(dst, w, h, src.depth, 1)
                 ELSE Create(dst, h, w, src.depth, 1)
        Move(s, p) == CopyBytes(s, Target(angle, p % w, p \div w, w, h) * bytes,
                                src.data, p * bytes, bytes)
    IN  [new EXCEPT !.data = Loop(w * h, new.data, Move)]

Rotated(src, dst, same, angle) ==
    IF same THEN Copied(RotateInto(src, NoImage(FALSE), angle), dst)
    ELSE RotateInto(src, dst, angle)

-----------------------------------------------------------------------------
(* Mirroring (mirror.cpp).                                                 *)

SwapBytes(s, j, k, n) == CopyBytes(CopyBytes(s, j, s, k, n), k, s, j, n)

\* Mutant: the pixels of a whole row are exchanged, and so exchanged back.
MirrorSameTwice(i, type) ==
    LET line == AlignedScanline(i)
        Rows(s, h) == SwapBytes(s, h * line, (i.height - 1 - h) * line, Scanline(i))
        Pixels(h, s, x) == SwapBytes(s, h * line + x * i.depth,
                                     h * line + (i.width - 1 - x) * i.depth, i.depth)
        Columns(s, h) == Loop(i.width, s, LAMBDA t, x : Pixels(h, t, x))
    IN  [i EXCEPT !.data = IF type = "UpsideDown" THEN Loop(i.height \div 2, @, Rows)
                           ELSE Loop(i.height, @, Columns)]

MirrorSame(i, type) ==
    LET line == AlignedScanline(i)
        Rows(s, h) == SwapBytes(s, h * line, (i.height - 1 - h) * line, Scanline(i))
        Pixels(h, s, x) == SwapBytes(s, h * line + x * i.depth,
                                     h * line + (i.width - 1 - x) * i.depth, i.depth)
        Columns(s, h) == Loop(i.width \div 2, s, LAMBDA t, x : Pixels(h, t, x))
    IN  [i EXCEPT !.data = IF type = "UpsideDown" THEN Loop(i.height \div 2, @, Rows)
                           ELSE Loop(i.height, @, Columns)]

MirrorToOther(src, dst, type) ==
    LET new  == CreateSame(dst, src)
        line == AlignedScanline(src)
        Rows(s, h) == CopyBytes(s, (src.height - 1 - h) * line, src.data, h * line, Scanline(src))
        Pixels(h, s, x) == CopyBytes(s, h * line + (src.width - 1 - x) * src.depth,
                                     src.data, h * line + x * src.depth, src.depth)
        Columns(s, h) == Loop(src.width, s, LAMBDA t, x : Pixels(h, t, x))
    IN  [new EXCEPT !.data = IF type = "UpsideDown" THEN Loop(src.height, @, Rows)
                             ELSE Loop(src.height, @, Columns)]

Mirrored(src, dst, same, type) ==
    IF same THEN MirrorSame(src, type) ELSE MirrorToOther(src, dst, type)

-----------------------------------------------------------------------------
(* Scaling by nearest pixels (scale.cpp).                                  *)

ProportionalSize(i, size) ==
    IF size[2] = 0 THEN <<size[1], (size[1] * i.height) \div i.width>>
    ELSE IF size[1] = 0 THEN <<(size[2] * i.width) \div i.height, size[2]>>
    ELSE size

\* Positions are numbers of 16 bits behind the point.
Nearest(k, old, new) == (k * ((old * 65536) \div new)) \div 65536

ResampleNearest(src, dst, w, h) ==
    LET new == Create(dst, w, h, src.depth, 1)
        Pick(s, p) ==
            LET x == Nearest(p % w, src.width, w)
                y == Nearest(p \div w, src.height, h)
            IN  CopyBytes(s, p * src.depth, src.data, (y * src.width + x) * src.depth, src.depth)
    IN  [new EXCEPT !.data = Loop(w * h, @, Pick)]

Scaled(src, dst, same, w, h) ==
    IF same THEN Copied(ResampleNearest(src, NoImage(FALSE), w, h), dst)
    ELSE ResampleNearest(src, dst, w, h)

-----------------------------------------------------------------------------
(* Cutting out (defines.cpp, image.cpp).                                   *)

Smaller(a, b) == IF a < b THEN a ELSE b
Larger(a, b)  == IF a > b THEN a ELSE b

\* Mutant: the width is kept when the left side is cut off.
RestrictByWidths(r, i) ==
    LET x == Larger(r[1], 0)
        y == Larger(r[2], 0)
    IN  <<x, y, Smaller(r[3], i.width - x), Larger(0, Smaller(r[2] + r[4], i.height) - y)>>

\* restrictBy(r, getRect(i))
RestrictBy(r, i) ==
    LET x == Larger(r[1], 0)
        y == Larger(r[2], 0)
    IN  <<x, y, Larger(0, Smaller(r[1] + r[3], i.width) - x),
                Larger(0, Smaller(r[2] + r[4], i.height) - y)>>

\* In place, the sizes are set and the buffer keeps its length.
RectCopied(src, dst, same, rect) ==
    LET new  == IF same THEN dst ELSE Create(dst, rect[3], rect[4], src.depth, 1)
        line == rect[3] * src.depth
        Row(s, k) ==
            CopyBytes(s, k * line, IF same THEN s ELSE src.data,
                      ((rect[2] + k) * src.width + rect[1]) * src.depth, line)
    IN  [new EXCEPT !.width = rect[3], !.height = rect[4],
                    !.data = Loop(rect[4], @, Row)]

\* memcpy is not defined where a row goes to bytes it comes from.
RowsOverlap(src, rect) ==
    \E k \in 0..rect[4] - 1 :
        LET from == (rect[2] + k) * src.width + rect[1]
        IN  from - k * rect[3] \in 0..rect[3] - 1

-----------------------------------------------------------------------------
(* Colours (image.cpp).                                                    *)

\* The grey pixels follow each other from the beginning, in place too: the
\* byte that is written is never after those that are read.
GrayMade(src, dst, same) ==
    LET new == IF same THEN dst ELSE Create(dst, src.width, src.height, 1, 1)
        Pixel(s, p) == Put(s, p, Gray(Piece(IF same THEN s ELSE src.data, p * src.depth, 3)))
    IN  [new EXCEPT !.depth = 1, !.data = Loop(src.width * src.height, @, Pixel)]

\* Pixel by pixel from the rows of src to those of new in memory, which is
\* also where src is read if they are the same image.
ColourPixels(memory, src, new, same, Colour(_)) ==
    Loop(src.width * src.height, memory,
         LAMBDA s, p : Put(s, PlaceOf(new, p),
             Colour(Piece(IF same THEN s ELSE src.data, PlaceOf(src, p), src.depth))))

BgrMade(src) == [src EXCEPT !.data = ColourPixels(@, src, src, TRUE, Bgr)]

\* In place the buffer shrinks where it is, and the pointer to its beginning
\* that was taken before stays good.
Recoloured(src, dst, same, depth, Colour(_)) ==
    LET new    == Create(dst, src.width, src.height, depth, src.align)
        memory == IF same THEN src.data ELSE new.data
    IN  [new EXCEPT !.data = Piece(ColourPixels(memory, src, new, same, Colour), 0, Len(@))]

-----------------------------------------------------------------------------
Refuse == answer' = FALSE /\ UNCHANGED image

Becomes(i, new) == image' = [image EXCEPT ![i] = new] /\ answer' = TRUE

Init == /\ image = [i \in Names |-> NoImage(i \in Keeps)]
        /\ answer = TRUE

\* A decoder creates the image and writes its rows.
Load(i) ==
    \E p \in Pages :
        LET new == Create(image[i], p.width, p.height, p.depth, p.align)
        IN  Becomes(i, [new EXCEPT !.data = Put(@, 0, p.data)])

\* operator=, the flag included.
Assign(a, b) == Becomes(b, image[a])

Swap(a, b) ==
    image' = [image EXCEPT ![a] = image[b], ![b] = image[a]] /\ answer' = TRUE

\* create throws at the depth of an empty image, before it changes anything.
Copy(a, b) == ~Empty(image[a]) /\ a # b /\ Becomes(b, Copied(image[a], image[b]))

\* Callers turn grey and coloured images without transparency.
Rotate(a, b) ==
    /\ ~Empty(image[a]) /\ Packed(image[a]) /\ image[a].depth # 4
    /\ \E angle \in Angles :
          Becomes(b, Rotated(image[a], image[b], a = b, angle))

Mirror(a, b) ==
    /\ ~Empty(image[a])
    /\ \E type \in {"UpsideDown", "LeftToRight"} :
          Becomes(b, Mirrored(image[a], image[b], a = b, type))

Scale(a, b) ==
    /\ ~Empty(image[a]) /\ Packed(image[a])
    /\ \E s \in Sizes :
          LET size == ProportionalSize(image[a], s)
          IN  /\ size[1] > 0 /\ size[2] > 0
              /\ Becomes(b, Scaled(image[a], image[b], a = b, size[1], size[2]))

CopyRect(a, b) ==
    /\ Packed(image[a])
    /\ \E r \in Rects :
          LET rect == RestrictBy(r, image[a])
          IN  IF rect[3] <= 0 \/ rect[4] <= 0 THEN Refuse
              ELSE /\ a # b \/ ~RowsOverlap(image[a], rect)
                   /\ Becomes(b, RectCopied(image[a], image[b], a = b, rect))

\* Callers ask for another image only of coloured ones: of a grey one, dst is
\* created, left as it is and false answered.
ToGray(a, b) ==
    /\ Packed(image[a])
    /\ IF Empty(image[a]) \/ image[a].depth = 1 THEN (a = b \/ Empty(image[a])) /\ Refuse
       ELSE Becomes(b, GrayMade(image[a], image[b], a = b))

ToBgr(a, b) ==
    IF Empty(image[a]) \/ image[a].depth = 1 THEN Refuse ELSE Becomes(b, BgrMade(image[a]))

Rgba2Rgb(a, b) ==
    IF Empty(image[a]) \/ image[a].depth # 4 THEN Refuse
    ELSE Becomes(b, Recoloured(image[a], image[b], a = b, 3, Rgb))

\* rgb2rgba and grey2rgba.  Nobody calls them in place, where the buffer would
\* grow and move away from the pointer that was taken before.
IntoRgba(a, b, depth) ==
    IF Empty(image[a]) \/ image[a].depth # depth THEN Refuse
    ELSE a # b /\ Becomes(b, Recoloured(image[a], image[b], FALSE, 4, Rgba))

Next ==
    \/ \E i \in Names : Load(i)
    \/ \E a, b \in Names :
         \/ Assign(a, b) \/ Swap(a, b) \/ Copy(a, b)
         \/ Rotate(a, b) \/ Mirror(a, b) \/ Scale(a, b) \/ CopyRect(a, b)
         \/ ToGray(a, b) \/ ToBgr(a, b) \/ Rgba2Rgb(a, b)
         \/ \E depth \in {1, 3} : IntoRgba(a, b, depth)

Spec == Init /\ [][Next]_vars

-----------------------------------------------------------------------------
TypeOK ==
    /\ answer \in BOOLEAN
    /\ \A i \in Names :
          /\ image[i].width \in Nat /\ image[i].height \in Nat
          /\ image[i].depth \in {0, 1, 3, 4} /\ image[i].align \in Nat \ {0}
          /\ image[i].keep \in BOOLEAN
          /\ \A k \in 1..Len(image[i].data) : image[i].data[k] \in Channels

(***************************************************************************)
(* Pointers into a buffer are computed from the sizes of the picture       *)
(* (image.cpp:133-152), and dataSize(image) bytes of it are copied         *)
(* (image.cpp:385-392).  After any sequence of loads, copies and           *)
(* transformations into buffers that may have kept an older length, the    *)
(* buffer covers the picture.                                              *)
(***************************************************************************)
BuffersCoverPictures == \A i \in Names : Len(image[i].data) >= DataSize(image[i])

(***************************************************************************)
(* The asserts of rotate.cpp (44-45 and in the five loops after it): the   *)
(* place where a pixel goes is inside the turned picture, for the image of *)
(* any size that the calls so far have made.                               *)
(***************************************************************************)
RotationAsserts ==
    \A i \in Names, angle \in Angles :
        LET w == image[i].width
            h == image[i].height
        IN  \A x \in 0..w - 1, y \in 0..h - 1 : Target(angle, x, y, w, h) \in 0..w * h - 1

(***************************************************************************)
(* The loops draw the pictures that Pictures.tla promises (the reference   *)
(* for rotations is test/testRotate.cpp:40-80), from image to image and in *)
(* place, whatever the buffers held before and were used for, and a call   *)
(* that answers false leaves every picture as it was.                      *)
(***************************************************************************)
Picture(i) ==
    [width |-> i.width, height |-> i.height,
     pixel |-> [p \in (0..i.width - 1) \X (0..i.height - 1) |-> PixelAt(i, p[1], p[2])]]

Drawing == INSTANCE Pictures WITH
    picture <- [i \in Names |-> Picture(image[i])], Shown <- {Picture(p) : p \in Pages}

ImplementsPictures == Drawing!Spec
=============================================================================
