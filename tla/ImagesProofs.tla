---------------------------- MODULE ImagesProofs ----------------------------
(***************************************************************************)
(* What is proved of Images for images of every size, in this order:       *)
(*                                                                         *)
(*   sizes     IInv: every buffer covers its picture (AssertsHold,         *)
(*             BuffersCover)                                               *)
(*   loops     what a run of rounds writes, if no round reads what an      *)
(*             earlier one wrote: LoopWrites, PutDraws, SwapDraws          *)
(*   pictures  one ...Draws lemma per function: RotatedDraws,              *)
(*             MirroredDraws, ScaledDraws, RectCopiedDraws, GrayDraws,     *)
(*             BgrDraws, RgbDraws, RgbaDraws, CopiedDraws, LoadedDraws     *)
(*   calls     one ...Shown lemma per action, and BytesInv                 *)
(*             (ImagesTypeCorrect, ImagesImplement)                        *)
(***************************************************************************)
EXTENDS Images, SequenceTheorems, FiniteSetTheorems, WellFoundedInduction, TLAPS

LEMMA Products ==
    ASSUME NEW a \in Nat, NEW b \in Nat, NEW c \in Nat, a <= b
    PROVE  a * c <= b * c
  OBVIOUS

\* Row a of b rows of c places, and place k of it.
LEMMA PlaceInside ==
    ASSUME NEW a \in Nat, NEW b \in Nat, NEW c \in Nat, NEW k \in Nat, a < b, k < c
    PROVE  a * c + k \in 0..b * c - 1
<1>1. (a + 1) * c <= b * c
  BY Products
<1>2. (a + 1) * c = a * c + c /\ a * c \in Nat /\ b * c \in Nat
  OBVIOUS
<1> QED
  BY <1>1, <1>2

\* Places of different rows, or different places of a row, differ.
LEMMA PlacesDiffer ==
    ASSUME NEW a \in Nat, NEW b \in Nat, NEW c \in Nat, NEW k \in Nat, NEW m \in Nat,
           k < c, m < c, a * c + k = b * c + m
    PROVE  a = b /\ k = m
<1>1. ~(a < b)
  <2> SUFFICES ASSUME a < b PROVE FALSE
    OBVIOUS
  <2>1. (a + 1) * c <= b * c
    BY Products
  <2>2. (a + 1) * c = a * c + c /\ a * c \in Nat /\ b * c \in Nat
    OBVIOUS
  <2> QED
    BY <2>1, <2>2
<1>2. ~(b < a)
  <2> SUFFICES ASSUME b < a PROVE FALSE
    OBVIOUS
  <2>1. (b + 1) * c <= a * c
    BY Products
  <2>2. (b + 1) * c = b * c + c /\ a * c \in Nat /\ b * c \in Nat
    OBVIOUS
  <2> QED
    BY <2>1, <2>2
<1>3. a = b
  BY <1>1, <1>2
<1>4. a * c \in Nat
  OBVIOUS
<1> QED
  BY <1>3, <1>4

(***************************************************************************)
(* The place Target gives is inside the turned picture, for pictures of    *)
(* every size (the asserts of rotate.cpp).                                 *)
(***************************************************************************)
THEOREM TargetInside ==
    ASSUME NEW w \in Nat, NEW h \in Nat, NEW x \in 0..w - 1, NEW y \in 0..h - 1,
           NEW angle \in Angles
    PROVE  Target(angle, x, y, w, h) \in 0..w * h - 1
<1>1. CASE angle = "90"
  <2>1. x * h + (h - 1 - y) \in 0..w * h - 1
    BY PlaceInside
  <2>2. x * h \in Int
    OBVIOUS
  <2>3. Target(angle, x, y, w, h) = x * h + (h - 1 - y)
    BY <1>1, <2>2 DEF Target
  <2> QED
    BY <2>1, <2>3
<1>2. CASE angle = "180"
  <2>1. (h - 1 - y) * w + (w - 1 - x) \in 0..h * w - 1
    BY PlaceInside
  <2>2. (h - 1 - y) * w \in Int /\ h * w = w * h
    OBVIOUS
  <2>3. Target(angle, x, y, w, h) = (h - 1 - y) * w + (w - 1 - x)
    BY <1>2, <2>2 DEF Target
  <2> QED
    BY <2>1, <2>2, <2>3
<1>3. CASE angle = "270"
  <2>1. (w - 1 - x) * h + y \in 0..w * h - 1
    BY PlaceInside
  <2>2. (w - 1 - x) * h \in Int
    OBVIOUS
  <2>3. Target(angle, x, y, w, h) = (w - 1 - x) * h + y
    BY <1>3, <2>2 DEF Target
  <2> QED
    BY <2>1, <2>3
<1> QED
  BY <1>1, <1>2, <1>3 DEF Angles

(***************************************************************************)
(* No two pixels go to one place: no pixel is lost when an image is        *)
(* turned, and the order in which the loops of rotate.cpp take the pixels  *)
(* does not matter.                                                        *)
(***************************************************************************)
THEOREM TargetsDiffer ==
    ASSUME NEW w \in Nat, NEW h \in Nat, NEW angle \in Angles,
           NEW x \in 0..w - 1, NEW y \in 0..h - 1, NEW u \in 0..w - 1, NEW v \in 0..h - 1,
           Target(angle, x, y, w, h) = Target(angle, u, v, w, h)
    PROVE  x = u /\ y = v
<1>1. CASE angle = "90"
  <2>1. x * h \in Int /\ u * h \in Int
    OBVIOUS
  <2>2. x * h + (h - 1 - y) = u * h + (h - 1 - v)
    BY <1>1, <2>1 DEF Target
  <2>3. x = u /\ h - 1 - y = h - 1 - v
    BY <2>2, PlacesDiffer
  <2> QED
    BY <2>3
<1>2. CASE angle = "180"
  <2>1. (h - 1 - y) * w \in Int /\ (h - 1 - v) * w \in Int
    OBVIOUS
  <2>2. (h - 1 - y) * w + (w - 1 - x) = (h - 1 - v) * w + (w - 1 - u)
    BY <1>2, <2>1 DEF Target
  <2>3. h - 1 - y = h - 1 - v /\ w - 1 - x = w - 1 - u
    BY <2>2, PlacesDiffer
  <2> QED
    BY <2>3
<1>3. CASE angle = "270"
  <2>1. (w - 1 - x) * h \in Int /\ (w - 1 - u) * h \in Int
    OBVIOUS
  <2>2. (w - 1 - x) * h + y = (w - 1 - u) * h + v
    BY <1>3, <2>1 DEF Target
  <2>3. w - 1 - x = w - 1 - u /\ y = v
    BY <2>2, PlacesDiffer
  <2> QED
    BY <2>3
<1> QED
  BY <1>1, <1>2, <1>3 DEF Angles

-----------------------------------------------------------------------------
(* The sizes of images and of their buffers.  What a loop makes of the     *)
(* bytes does not matter for them, and is not looked at.                   *)

Fields == {"width", "height", "depth", "align", "data", "keep"}

IsSized(i) ==
    /\ i = [f \in Fields |-> i[f]]
    /\ i.width \in Nat /\ i.height \in Nat
    /\ i.depth \in {0, 1, 3, 4} /\ i.align \in Nat \ {0}

\* The buffer covers the picture.
Covers(i) == Len(i.data) \in Nat /\ Len(i.data) >= DataSize(i)

IsImage(i) == IsSized(i) /\ Covers(i)

IsDrawn(i) == IsImage(i) /\ i.width > 0 /\ i.height > 0 /\ i.depth > 0

(***************************************************************************)
(* The inductive invariant: an image has a picture, which its buffer       *)
(* covers, or it is one that nothing was put in yet.  That one has no      *)
(* width, so that no rectangle is cut out of it.                           *)
(***************************************************************************)
IInv ==
    /\ image = [i \in Names |-> image[i]]
    /\ \A i \in Names :
          /\ IsImage(image[i])
          /\ IsDrawn(image[i]) \/ (Empty(image[i]) /\ image[i].width = 0)

LEMMA HoldingLength ==
    ASSUME NEW s, NEW t, Len(s) \in Nat
    PROVE  Len(Holding(s, t)) = Len(s)
  BY DEF Holding

LEMMA CopyBytesLength ==
    ASSUME NEW s, NEW k, NEW t, NEW j, NEW n, Len(s) \in Nat
    PROVE  Len(CopyBytes(s, k, t, j, n)) = Len(s)
  BY DEF CopyBytes

LEMMA ScanlineNat ==
    ASSUME NEW n \in Nat, NEW align \in Nat \ {0}
    PROVE  ScanlineToAlign(n, align) \in Nat
<1>1. n \div align + 1 \in Nat
  OBVIOUS
<1>2. (n \div align + 1) * align \in Nat
  BY <1>1
<1> QED
  BY <1>2 DEF ScanlineToAlign

LEMMA DataSizeNat ==
    ASSUME NEW i, IsSized(i)
    PROVE  DataSize(i) \in Nat
<1>1. i.width * i.depth \in Nat /\ i.align \in Nat \ {0} /\ i.height \in Nat
  BY DEF IsSized
<1>2. AlignedScanline(i) \in Nat
  BY <1>1, ScanlineNat DEF AlignedScanline, Scanline
<1> QED
  BY <1>1, <1>2 DEF DataSize

\* A packed image has exactly its pixels.
LEMMA PackedSize ==
    ASSUME NEW i, IsSized(i), Packed(i)
    PROVE  DataSize(i) = i.height * (i.width * i.depth)
<1>1. i.width * i.depth \in Nat
  BY DEF IsSized
<1>2. AlignedScanline(i) = i.width * i.depth
  BY <1>1 DEF AlignedScanline, Scanline, ScanlineToAlign, Packed
<1> QED
  BY <1>2 DEF DataSize

LEMMA WithData ==
    ASSUME NEW i, IsSized(i), NEW d, Len(d) \in Nat, Len(d) >= DataSize(i)
    PROVE  /\ IsImage([i EXCEPT !.data = d])
           /\ [i EXCEPT !.data = d].width = i.width
           /\ [i EXCEPT !.data = d].height = i.height
           /\ [i EXCEPT !.data = d].depth = i.depth
           /\ [i EXCEPT !.data = d].align = i.align
<1> DEFINE new == [i EXCEPT !.data = d]
<1>1. /\ new = [f \in Fields |-> new[f]] /\ new.data = d
      /\ new.width = i.width /\ new.height = i.height /\ new.depth = i.depth
      /\ new.align = i.align
  BY DEF IsSized, Fields
<1> HIDE DEF new
<1>2. DataSize(new) = DataSize(i)
  BY <1>1 DEF DataSize, AlignedScanline, Scanline
<1>3. IsImage(new)
  BY <1>1, <1>2 DEF IsImage, IsSized, Covers
<1> QED
  BY <1>1, <1>3 DEF new

\* The bytes of an image are written where they are.
LEMMA SameLength ==
    ASSUME NEW i, IsImage(i), NEW d, Len(d) = Len(i.data)
    PROVE  /\ IsImage([i EXCEPT !.data = d])
           /\ IsDrawn(i) => IsDrawn([i EXCEPT !.data = d])
  BY WithData DEF IsImage, Covers, IsDrawn

LEMMA NoImageTyped ==
    ASSUME NEW keep
    PROVE  IsImage(NoImage(keep)) /\ Empty(NoImage(keep)) /\ NoImage(keep).width = 0
<1> DEFINE i == NoImage(keep)
<1>1. IsSized(i) /\ Packed(i)
  BY DEF NoImage, IsSized, Fields, Packed
<1>2. i.width = 0 /\ i.height = 0 /\ i.depth = 0 /\ i.data = <<>>
  BY DEF NoImage
<1> HIDE DEF i
<1>3. DataSize(i) = 0
  BY <1>1, <1>2, PackedSize
<1> QED
  BY <1>1, <1>2, <1>3 DEF IsImage, Covers, Empty, i

LEMMA CreateTyped ==
    ASSUME NEW i, IsImage(i), NEW w \in Nat \ {0}, NEW h \in Nat \ {0},
           NEW d \in {1, 3, 4}, NEW a \in Nat \ {0}
    PROVE  /\ IsDrawn(Create(i, w, h, d, a))
           /\ Create(i, w, h, d, a).width = w /\ Create(i, w, h, d, a).height = h
           /\ Create(i, w, h, d, a).align = a
<1> DEFINE new == [i EXCEPT !.width = w, !.height = h, !.depth = d, !.align = a]
           data == IF ~i.keep \/ DataSize(new) > Len(i.data) THEN Resized(i.data, DataSize(new))
                   ELSE i.data
<1>1. /\ IsSized(new)
      /\ new.width = w /\ new.height = h /\ new.depth = d /\ new.align = a /\ new.data = i.data
  BY DEF IsImage, IsSized, Fields
<1>2. Create(i, w, h, d, a) = [new EXCEPT !.data = data]
  BY <1>1 DEF Create
<1> HIDE DEF new
<1>3. DataSize(new) \in Nat /\ Len(i.data) \in Nat
  BY <1>1, DataSizeNat DEF IsImage, Covers
<1>4. Len(Resized(i.data, DataSize(new))) = DataSize(new)
  BY <1>3 DEF Resized
<1>5. Len(data) \in Nat /\ Len(data) >= DataSize(new)
  BY <1>3, <1>4
<1> HIDE DEF data
<1> QED
  BY <1>1, <1>2, <1>5, WithData DEF IsDrawn

\* The rows of an image that is made follow each other.
LEMMA CreatePacked ==
    ASSUME NEW i, NEW w \in Nat \ {0}, NEW h \in Nat \ {0}, NEW d \in {1, 3, 4}, IsImage(i)
    PROVE  /\ IsDrawn(Create(i, w, h, d, 1)) /\ Packed(Create(i, w, h, d, 1))
           /\ Create(i, w, h, d, 1).width = w /\ Create(i, w, h, d, 1).height = h
<1> DEFINE a == 1
<1>1. a \in Nat \ {0} /\ a = 1
  OBVIOUS
<1> HIDE DEF a
<1>2. /\ IsDrawn(Create(i, w, h, d, a)) /\ Create(i, w, h, d, a).align = a
      /\ Create(i, w, h, d, a).width = w /\ Create(i, w, h, d, a).height = h
  BY <1>1, CreateTyped, SMTT(40)
<1> QED
  BY <1>1, <1>2 DEF Packed

LEMMA CreateSameTyped ==
    ASSUME NEW src, NEW dst, IsDrawn(src), IsImage(dst)
    PROVE  IsDrawn(CreateSame(dst, src))
<1>1. /\ src.width \in Nat \ {0} /\ src.height \in Nat \ {0}
      /\ src.depth \in {1, 3, 4} /\ src.align \in Nat \ {0}
  BY DEF IsDrawn, IsImage, IsSized
<1> QED
  BY <1>1, CreateTyped DEF CreateSame

LEMMA CopiedTyped ==
    ASSUME NEW src, NEW dst, IsDrawn(src), IsImage(dst)
    PROVE  IsDrawn(Copied(src, dst))
<1> DEFINE new == CreateSame(dst, src)
           data == CopyBytes(new.data, 0, src.data, 0, DataSize(src))
<1>1. IsDrawn(new)
  BY CreateSameTyped
<1>2. Copied(src, dst) = [new EXCEPT !.data = data]
  BY DEF Copied
<1> HIDE DEF new
<1>3. Len(data) = Len(new.data)
  BY <1>1, CopyBytesLength DEF IsDrawn, IsImage, Covers
<1> HIDE DEF data
<1> QED
  BY <1>1, <1>2, <1>3, SameLength DEF IsDrawn

\* A loop writes into the buffer that create made.
LEMMA HoldingTyped ==
    ASSUME NEW i, IsDrawn(i), NEW t
    PROVE  IsDrawn([i EXCEPT !.data = Holding(i.data, t)])
<1>1. Len(i.data) \in Nat
  BY DEF IsDrawn, IsImage, Covers
<1>2. Len(Holding(i.data, t)) = Len(i.data)
  BY <1>1, HoldingLength
<1> QED
  BY <1>2, SameLength DEF IsDrawn

LEMMA RotateIntoTyped ==
    ASSUME NEW src, NEW dst, IsDrawn(src), IsImage(dst), NEW angle
    PROVE  IsDrawn(RotateInto(src, dst, angle))
<1>1. src.width \in Nat \ {0} /\ src.height \in Nat \ {0} /\ src.depth \in {1, 3, 4}
  BY DEF IsDrawn, IsImage, IsSized
<1>2. /\ IsDrawn(Create(dst, src.width, src.height, src.depth, 1))
      /\ IsDrawn(Create(dst, src.height, src.width, src.depth, 1))
  BY <1>1, CreatePacked
<1> DEFINE new == IF angle = "180" THEN Create(dst, src.width, src.height, src.depth, 1)
                  ELSE Create(dst, src.height, src.width, src.depth, 1)
<1>3. \E t : RotateInto(src, dst, angle) = [new EXCEPT !.data = Holding(new.data, t)]
  BY DEF RotateInto, Loop
<1>4. IsDrawn(new)
  BY <1>2
<1> HIDE DEF new
<1> QED
  BY <1>3, <1>4, HoldingTyped

LEMMA RotatedTyped ==
    ASSUME NEW src, NEW dst, IsDrawn(src), IsImage(dst), NEW same, NEW angle
    PROVE  IsDrawn(Rotated(src, dst, same, angle))
<1>1. IsDrawn(RotateInto(src, NoImage(FALSE), angle)) /\ IsDrawn(RotateInto(src, dst, angle))
  BY RotateIntoTyped, NoImageTyped
<1> QED
  BY <1>1, CopiedTyped DEF Rotated

LEMMA MirroredTyped ==
    ASSUME NEW src, NEW dst, IsDrawn(src), IsImage(dst), NEW same, NEW type
    PROVE  IsDrawn(Mirrored(src, dst, same, type))
<1>1. \E t : MirrorSame(src, type) = [src EXCEPT !.data = Holding(src.data, t)]
  BY DEF MirrorSame, Loop
<1>2. IsDrawn(MirrorSame(src, type))
  BY <1>1, HoldingTyped
<1> DEFINE new == CreateSame(dst, src)
<1>3. \E t : MirrorToOther(src, dst, type) = [new EXCEPT !.data = Holding(new.data, t)]
  BY DEF MirrorToOther, Loop
<1>4. IsDrawn(new)
  BY CreateSameTyped
<1> HIDE DEF new
<1>5. IsDrawn(MirrorToOther(src, dst, type))
  BY <1>3, <1>4, HoldingTyped
<1> QED
  BY <1>2, <1>5 DEF Mirrored

LEMMA ScaledTyped ==
    ASSUME NEW src, NEW dst, IsDrawn(src), IsImage(dst), NEW same,
           NEW w \in Nat \ {0}, NEW h \in Nat \ {0}
    PROVE  IsDrawn(Scaled(src, dst, same, w, h))
<1>1. ASSUME NEW i, IsImage(i) PROVE IsDrawn(ResampleNearest(src, i, w, h))
  <2> DEFINE new == Create(i, w, h, src.depth, 1)
  <2>1. \E t : ResampleNearest(src, i, w, h) = [new EXCEPT !.data = Holding(new.data, t)]
    BY DEF ResampleNearest, Loop
  <2>2. src.depth \in {1, 3, 4}
    BY DEF IsDrawn, IsImage, IsSized
  <2>3. IsDrawn(new)
    BY <1>1, <2>2, CreatePacked
  <2> HIDE DEF new
  <2> QED
    BY <2>1, <2>3, HoldingTyped
<1>2. IsDrawn(ResampleNearest(src, dst, w, h)) /\ IsDrawn(ResampleNearest(src, NoImage(FALSE), w, h))
  BY <1>1, NoImageTyped
<1> QED
  BY <1>2, CopiedTyped DEF Scaled

\* Cut out in place, the picture is not larger than the one it is cut from.
LEMMA CutInPlace ==
    ASSUME NEW i, IsDrawn(i), Packed(i), NEW w \in Nat \ {0}, NEW h \in Nat \ {0},
           w <= i.width, h <= i.height, NEW d, Len(d) = Len(i.data)
    PROVE  IsDrawn([i EXCEPT !.width = w, !.height = h, !.data = d])
<1> DEFINE new == [i EXCEPT !.width = w, !.height = h, !.data = d]
<1>1. /\ IsSized(new) /\ Packed(new) /\ new.data = d
      /\ new.width = w /\ new.height = h /\ new.depth = i.depth
  BY DEF IsDrawn, IsImage, IsSized, Fields, Packed
<1> HIDE DEF new
<1>2. /\ i.width \in Nat /\ i.height \in Nat /\ i.depth \in Nat \ {0} /\ Len(i.data) \in Nat
      /\ Len(i.data) >= i.height * (i.width * i.depth)
  BY PackedSize DEF IsDrawn, IsImage, IsSized, Covers
<1>3. DataSize(new) = h * (w * i.depth)
  BY <1>1, PackedSize
<1>4. w * i.depth \in Nat /\ i.width * i.depth \in Nat /\ w * i.depth <= i.width * i.depth
  BY <1>2, Products
<1>5. h * (w * i.depth) <= i.height * (w * i.depth)
  BY <1>2, <1>4, Products
<1>6. (w * i.depth) * i.height <= (i.width * i.depth) * i.height
  BY <1>2, <1>4, Products
<1>7. h * (w * i.depth) <= i.height * (i.width * i.depth)
  <2> DEFINE x == w * i.depth
             y == i.width * i.depth
             c == i.height
  <2>1. x \in Nat /\ y \in Nat /\ c \in Nat /\ h * x <= c * x /\ x * c <= y * c
    BY <1>2, <1>4, <1>5, <1>6
  <2> HIDE DEF x, y, c
  <2>2. x * c = c * x /\ y * c = c * y /\ h * x \in Int /\ c * x \in Int /\ c * y \in Int
    BY <2>1
  <2>3. h * x <= c * y
    BY <2>1, <2>2
  <2> QED
    BY <2>3 DEF x, y, c
<1>8. h * (w * i.depth) \in Int /\ i.height * (i.width * i.depth) \in Int
  BY <1>2, <1>4
<1>9. Len(new.data) >= DataSize(new)
  BY <1>1, <1>2, <1>3, <1>7, <1>8
<1> QED
  BY <1>1, <1>2, <1>9 DEF new, IsDrawn, IsImage, Covers

LEMMA RectCopiedTyped ==
    ASSUME NEW src, NEW dst, NEW same, NEW rect,
           IsDrawn(src), IsImage(dst), Packed(src), same => dst = src,
           rect[3] \in Nat \ {0}, rect[4] \in Nat \ {0},
           rect[3] <= src.width, rect[4] <= src.height
    PROVE  IsDrawn(RectCopied(src, dst, same, rect))
<1> DEFINE new == IF same THEN dst ELSE Create(dst, rect[3], rect[4], src.depth, 1)
<1>1. \E t : RectCopied(src, dst, same, rect)
               = [new EXCEPT !.width = rect[3], !.height = rect[4], !.data = Holding(new.data, t)]
  BY DEF RectCopied, Loop
<1>2. src.depth \in {1, 3, 4}
  BY DEF IsDrawn, IsImage, IsSized
<1>3. /\ IsDrawn(new) /\ Packed(new)
      /\ rect[3] <= new.width /\ rect[4] <= new.height
  <2>1. CASE same
    BY <2>1
  <2>2. CASE ~same
    <3>1. new = Create(dst, rect[3], rect[4], src.depth, 1)
      BY <2>2
    <3> HIDE DEF new
    <3>2. IsDrawn(new) /\ Packed(new) /\ new.width = rect[3] /\ new.height = rect[4]
      BY <1>2, <3>1, CreatePacked
    <3> QED
      BY <3>2
  <2> QED
    BY <2>1, <2>2
<1> HIDE DEF new
<1>4. PICK t : RectCopied(src, dst, same, rect)
                 = [new EXCEPT !.width = rect[3], !.height = rect[4], !.data = Holding(new.data, t)]
  BY <1>1
<1>5. Len(Holding(new.data, t)) = Len(new.data)
  BY <1>3, HoldingLength DEF IsDrawn, IsImage, Covers
<1> DEFINE w == rect[3]
           h == rect[4]
           d == Holding(new.data, t)
<1>6. w \in Nat \ {0} /\ h \in Nat \ {0} /\ w <= new.width /\ h <= new.height
      /\ Len(d) = Len(new.data)
      /\ RectCopied(src, dst, same, rect) = [new EXCEPT !.width = w, !.height = h, !.data = d]
  BY <1>3, <1>4, <1>5
<1> HIDE DEF w, h, d
<1>7. IsDrawn([new EXCEPT !.width = w, !.height = h, !.data = d])
  BY <1>3, <1>6, CutInPlace
<1> QED
  BY <1>6, <1>7

\* In place, a grey picture needs a part of the buffer of the coloured one.
LEMMA GreyInPlace ==
    ASSUME NEW i, IsDrawn(i), Packed(i), NEW d, Len(d) = Len(i.data)
    PROVE  IsDrawn([i EXCEPT !.depth = 1, !.data = d])
<1> DEFINE new == [i EXCEPT !.depth = 1, !.data = d]
<1>1. /\ IsSized(new) /\ Packed(new) /\ new.data = d /\ new.depth = 1
      /\ new.width = i.width /\ new.height = i.height
  BY DEF IsDrawn, IsImage, IsSized, Fields, Packed
<1> HIDE DEF new
<1>2. /\ i.width \in Nat /\ i.height \in Nat /\ i.depth \in Nat \ {0} /\ Len(i.data) \in Nat
      /\ Len(i.data) >= i.height * (i.width * i.depth)
  BY PackedSize DEF IsDrawn, IsImage, IsSized, Covers
<1>3. DataSize(new) = i.height * i.width
  BY <1>1, <1>2, PackedSize
<1>4. i.height * i.width <= i.height * (i.width * i.depth)
  <2> DEFINE w == i.width
             h == i.height
             n == i.depth
  <2>1. w \in Nat /\ h \in Nat /\ n \in Nat /\ 1 <= n
    BY <1>2
  <2> HIDE DEF w, h, n
  <2>2. 1 * w <= n * w
    BY <2>1, Products
  <2>3. w <= w * n /\ w * n \in Nat
    BY <2>1, <2>2
  <2>4. w * h <= (w * n) * h
    BY <2>1, <2>3, Products
  <2>5. w * h = h * w /\ (w * n) * h = h * (w * n)
    BY <2>1, <2>3
  <2>6. h * w <= h * (w * n)
    BY <2>4, <2>5
  <2> QED
    BY <2>6 DEF w, h, n
<1>5. i.height * i.width \in Int /\ i.height * (i.width * i.depth) \in Int
  BY <1>2
<1>6. Len(new.data) >= DataSize(new)
  BY <1>1, <1>2, <1>3, <1>4, <1>5
<1> QED
  BY <1>1, <1>2, <1>6 DEF new, IsDrawn, IsImage, Covers

LEMMA GrayTyped ==
    ASSUME NEW src, NEW dst, NEW same,
           IsDrawn(src), IsImage(dst), Packed(src), same => dst = src
    PROVE  IsDrawn(GrayMade(src, dst, same))
<1> DEFINE new == IF same THEN dst ELSE Create(dst, src.width, src.height, 1, 1)
<1>1. \E t : GrayMade(src, dst, same) = [new EXCEPT !.depth = 1, !.data = Holding(new.data, t)]
  BY DEF GrayMade, Loop
<1>2. src.width \in Nat \ {0} /\ src.height \in Nat \ {0}
  BY DEF IsDrawn, IsImage, IsSized
<1>3. IsDrawn(new) /\ Packed(new)
  <2> DEFINE one == 1
  <2>1. one \in {1, 3, 4} /\ (~same => new = Create(dst, src.width, src.height, one, 1))
    OBVIOUS
  <2>2. same => new = src
    OBVIOUS
  <2> HIDE DEF one, new
  <2>3. IsDrawn(Create(dst, src.width, src.height, one, 1)) /\ Packed(Create(dst, src.width, src.height, one, 1))
    BY <1>2, <2>1, CreatePacked
  <2> QED
    BY <2>1, <2>2, <2>3
<1> HIDE DEF new
<1>4. PICK t : GrayMade(src, dst, same) = [new EXCEPT !.depth = 1, !.data = Holding(new.data, t)]
  BY <1>1
<1> DEFINE d == Holding(new.data, t)
<1>5. Len(d) = Len(new.data)
  BY <1>3, HoldingLength DEF IsDrawn, IsImage, Covers
<1> HIDE DEF d
<1>6. IsDrawn([new EXCEPT !.depth = 1, !.data = d])
  BY <1>3, <1>5, GreyInPlace
<1> QED
  BY <1>4, <1>6 DEF d

LEMMA BgrTyped ==
    ASSUME NEW src, IsDrawn(src) PROVE IsDrawn(BgrMade(src))
<1>1. \E t : BgrMade(src) = [src EXCEPT !.data = Holding(src.data, t)]
  BY DEF BgrMade, ColourPixels, Loop
<1> QED
  BY <1>1, HoldingTyped

LEMMA PieceTyped ==
    ASSUME NEW i, IsDrawn(i), NEW t
    PROVE  IsDrawn([i EXCEPT !.data = Piece(t, 0, Len(i.data))])
<1>1. Len(Piece(t, 0, Len(i.data))) = Len(i.data)
  BY DEF Piece, IsDrawn, IsImage, Covers
<1> QED
  BY <1>1, SameLength DEF IsDrawn

LEMMA ToRgbTyped ==
    ASSUME NEW src, NEW dst, IsDrawn(src), IsImage(dst), NEW same
    PROVE  IsDrawn(Recoloured(src, dst, same, 3, Rgb))
<1> DEFINE new == Create(dst, src.width, src.height, 3, src.align)
<1>1. \E t : Recoloured(src, dst, same, 3, Rgb) = [new EXCEPT !.data = Piece(t, 0, Len(new.data))]
  BY DEF Recoloured
<1>2. /\ src.width \in Nat \ {0} /\ src.height \in Nat \ {0} /\ src.align \in Nat \ {0}
  BY DEF IsDrawn, IsImage, IsSized
<1>3. IsDrawn(new)
  <2> DEFINE three == 3
  <2>1. three \in {1, 3, 4} /\ new = Create(dst, src.width, src.height, three, src.align)
    OBVIOUS
  <2> HIDE DEF three, new
  <2>2. IsDrawn(Create(dst, src.width, src.height, three, src.align))
    BY <1>2, <2>1, CreateTyped
  <2> QED
    BY <2>1, <2>2
<1> HIDE DEF new
<1> QED
  BY <1>1, <1>3, PieceTyped

LEMMA ToRgbaTyped ==
    ASSUME NEW src, NEW dst, IsDrawn(src), IsImage(dst), NEW same
    PROVE  IsDrawn(Recoloured(src, dst, same, 4, Rgba))
<1> DEFINE new == Create(dst, src.width, src.height, 4, src.align)
<1>1. \E t : Recoloured(src, dst, same, 4, Rgba) = [new EXCEPT !.data = Piece(t, 0, Len(new.data))]
  BY DEF Recoloured
<1>2. /\ src.width \in Nat \ {0} /\ src.height \in Nat \ {0} /\ src.align \in Nat \ {0}
  BY DEF IsDrawn, IsImage, IsSized
<1>3. IsDrawn(new)
  <2> DEFINE four == 4
  <2>1. four \in {1, 3, 4} /\ new = Create(dst, src.width, src.height, four, src.align)
    OBVIOUS
  <2> HIDE DEF four, new
  <2>2. IsDrawn(Create(dst, src.width, src.height, four, src.align))
    BY <1>2, <2>1, CreateTyped
  <2> QED
    BY <2>1, <2>2
<1> HIDE DEF new
<1> QED
  BY <1>1, <1>3, PieceTyped

-----------------------------------------------------------------------------
LEMMA InitTyped == Init => IInv
  BY NoImageTyped DEF Init, IInv

LEMMA BecomesTyped ==
    ASSUME IInv, NEW i \in Names, NEW new, IsDrawn(new), Becomes(i, new)
    PROVE  IInv'
  BY DEF IInv, IsDrawn, Becomes

LEMMA NextTyped ==
    ASSUME IInv, [Next]_vars
    PROVE  IInv'
<1> USE DEF IInv
<1>1. CASE UNCHANGED vars
  BY <1>1 DEF vars
<1>2. ASSUME NEW i \in Names, Load(i) PROVE IInv'
  <2>1. PICK p \in Pages :
            LET new == Create(image[i], p.width, p.height, p.depth, p.align)
            IN  Becomes(i, [new EXCEPT !.data = Put(@, 0, p.data)])
    BY <1>2 DEF Load
  <2> DEFINE new == Create(image[i], p.width, p.height, p.depth, p.align)
  <2>2. IsDrawn(new)
    BY CreateTyped, PagesAssumption
  <2>3. Becomes(i, [new EXCEPT !.data = Put(new.data, 0, p.data)])
    BY <2>1
  <2> HIDE DEF new
  <2>4. Len(Put(new.data, 0, p.data)) = Len(new.data)
    BY <2>2, CopyBytesLength DEF Put, IsDrawn, IsImage, Covers
  <2>5. IsDrawn([new EXCEPT !.data = Put(new.data, 0, p.data)])
    BY <2>2, <2>4, SameLength DEF IsDrawn
  <2> QED
    BY <2>3, <2>5, BecomesTyped
<1>3. ASSUME NEW a \in Names, NEW b \in Names, Assign(a, b) PROVE IInv'
  BY <1>3 DEF Assign, Becomes
<1>4. ASSUME NEW a \in Names, NEW b \in Names, Swap(a, b) PROVE IInv'
  BY <1>4 DEF Swap
<1>5. ASSUME NEW a \in Names, NEW b \in Names, Copy(a, b) PROVE IInv'
  BY <1>5, CopiedTyped, BecomesTyped DEF Copy
<1>6. ASSUME NEW a \in Names, NEW b \in Names, Rotate(a, b) PROVE IInv'
  BY <1>6, RotatedTyped, BecomesTyped DEF Rotate
<1>7. ASSUME NEW a \in Names, NEW b \in Names, Mirror(a, b) PROVE IInv'
  BY <1>7, MirroredTyped, BecomesTyped DEF Mirror
<1>8. ASSUME NEW a \in Names, NEW b \in Names, Scale(a, b) PROVE IInv'
  <2>1. PICK s \in Sizes :
            LET size == ProportionalSize(image[a], s)
            IN  /\ size[1] > 0 /\ size[2] > 0
                /\ Becomes(b, Scaled(image[a], image[b], a = b, size[1], size[2]))
    BY <1>8 DEF Scale
  <2> DEFINE size == ProportionalSize(image[a], s)
  <2>2. IsDrawn(image[a])
    BY <1>8 DEF Scale
  <2>3. /\ image[a].width \in Nat \ {0} /\ image[a].height \in Nat \ {0}
        /\ s[1] \in Nat /\ s[2] \in Nat
    BY <2>2, SizesAssumption DEF IsDrawn, IsImage, IsSized
  <2>4. /\ s[1] * image[a].height \in Nat /\ s[2] * image[a].width \in Nat
    BY <2>3
  <2>5. /\ (s[1] * image[a].height) \div image[a].width \in Nat
        /\ (s[2] * image[a].width) \div image[a].height \in Nat
    BY <2>3, <2>4
  <2>6. size[1] \in Nat \ {0} /\ size[2] \in Nat \ {0}
    BY <2>1, <2>3, <2>5 DEF ProportionalSize
  <2> QED
    BY <2>1, <2>2, <2>6, ScaledTyped, BecomesTyped
<1>9. ASSUME NEW a \in Names, NEW b \in Names, CopyRect(a, b) PROVE IInv'
  <2>1. PICK r \in Rects :
            LET rect == RestrictBy(r, image[a])
            IN  IF rect[3] <= 0 \/ rect[4] <= 0 THEN Refuse
                ELSE Becomes(b, RectCopied(image[a], image[b], a = b, rect))
    BY <1>9 DEF CopyRect
  <2> DEFINE rect == RestrictBy(r, image[a])
  <2>2. image[a].width \in Nat /\ image[a].height \in Nat /\ Packed(image[a])
    BY <1>9 DEF IsImage, IsSized, CopyRect
  <2>3. /\ rect[3] \in Nat /\ rect[4] \in Nat
        /\ rect[3] <= image[a].width /\ rect[4] <= image[a].height
    BY <2>2, RectsAssumption DEF RestrictBy, Larger, Smaller
  <2>4. CASE Refuse
    BY <2>4 DEF Refuse
  <2>5. CASE /\ rect[3] > 0 /\ rect[4] > 0
             /\ Becomes(b, RectCopied(image[a], image[b], a = b, rect))
    <3>1. IsDrawn(image[a]) /\ IsImage(image[b]) /\ (a = b => image[b] = image[a])
      BY <2>3, <2>5
    <3> HIDE DEF rect
    <3>2. IsDrawn(RectCopied(image[a], image[b], a = b, rect))
      <4> DEFINE src == image[a]
                 dst == image[b]
                 same == a = b
      <4>1. /\ IsDrawn(src) /\ IsImage(dst) /\ Packed(src) /\ (same => dst = src)
            /\ rect[3] \in Nat \ {0} /\ rect[4] \in Nat \ {0}
            /\ rect[3] <= src.width /\ rect[4] <= src.height
        BY <2>2, <2>3, <2>5, <3>1
      <4> HIDE DEF src, dst, same
      <4>2. IsDrawn(RectCopied(src, dst, same, rect))
        BY <4>1, RectCopiedTyped
      <4> QED
        BY <4>2 DEF src, dst, same
    <3> QED
      BY <2>5, <3>2, BecomesTyped
  <2> QED
    BY <2>1, <2>3, <2>4, <2>5
<1>10. ASSUME Refuse PROVE IInv'
  BY <1>10 DEF Refuse
<1>11. ASSUME NEW a \in Names, NEW b \in Names, ToGray(a, b) PROVE IInv'
  BY <1>10, <1>11, GrayTyped, BecomesTyped DEF ToGray
<1>12. ASSUME NEW a \in Names, NEW b \in Names, ToBgr(a, b) PROVE IInv'
  BY <1>10, <1>12, BgrTyped, BecomesTyped DEF ToBgr
<1>13. ASSUME NEW a \in Names, NEW b \in Names, Rgba2Rgb(a, b) PROVE IInv'
  BY <1>10, <1>13, ToRgbTyped, BecomesTyped DEF Rgba2Rgb
<1>14. ASSUME NEW a \in Names, NEW b \in Names, NEW depth \in {1, 3}, IntoRgba(a, b, depth)
       PROVE  IInv'
  BY <1>10, <1>14, ToRgbaTyped, BecomesTyped DEF IntoRgba
<1> QED
  BY <1>1, <1>2, <1>3, <1>4, <1>5, <1>6, <1>7, <1>8, <1>9, <1>11, <1>12, <1>13, <1>14 DEF Next

LEMMA AssertsFromSizes == IInv => RotationAsserts
<1> SUFFICES ASSUME IInv, NEW i \in Names, NEW angle \in Angles
             PROVE  \A x \in 0..image[i].width - 1, y \in 0..image[i].height - 1 :
                       Target(angle, x, y, image[i].width, image[i].height)
                         \in 0..image[i].width * image[i].height - 1
  BY DEF RotationAsserts
<1>1. image[i].width \in Nat /\ image[i].height \in Nat
  BY DEF IInv, IsImage, IsSized
<1> QED
  BY <1>1, TargetInside

(***************************************************************************)
(* No sequence of calls makes an image whose rotation evaluates a false    *)
(* assert, for decoded pictures, rectangles and scales of every size.      *)
(***************************************************************************)
THEOREM AssertsHold == Spec => []RotationAsserts
<1>1. IInv /\ [Next]_vars => IInv'
  BY NextTyped
<1> QED
  BY InitTyped, <1>1, AssertsFromSizes, PTL DEF Spec

(***************************************************************************)
(* The buffer of every image covers its picture, after any loads, copies   *)
(* and transformations, in place, into other images and into buffers that  *)
(* kept an older length, for pictures, rectangles and scales of every size *)
(* (image.cpp:133-152, 385-392).                                           *)
(***************************************************************************)
THEOREM BuffersCover == Spec => []BuffersCoverPictures
<1>1. IInv /\ [Next]_vars => IInv'
  BY NextTyped
<1>2. IInv => BuffersCoverPictures
  BY DEF IInv, IsImage, Covers, BuffersCoverPictures
<1> QED
  BY InitTyped, <1>1, <1>2, PTL DEF Spec

-----------------------------------------------------------------------------
(***************************************************************************)
(* What the loops draw.  A round of a loop is a function on the buffers of *)
(* one length; that the rounds make a run, and what holds of every round,  *)
(* is shown by induction over a set, for a theorem about every predicate   *)
(* cannot be used.                                                         *)
(***************************************************************************)
LEMMA SetInduction ==
    ASSUME NEW S \in SUBSET Nat, 0 \in S, \A n \in S : n + 1 \in S
    PROVE  \A n \in Nat : n \in S
<1> DEFINE T == Nat \ S
           Less == OpToRel(<, Nat)
<1>1. SUFFICES ASSUME T # {} PROVE FALSE
  OBVIOUS
<1>2. ASSUME NEW m \in Nat, NEW k \in Nat, k < m PROVE <<k, m>> \in Less
  BY <1>2 DEF OpToRel
<1>3. IsWellFoundedOn(Less, Nat)
  BY NatLessThanWellFounded
<1> HIDE DEF Less
<1>4. PICK m \in T : \A k \in T : ~(<<k, m>> \in Less)
  BY <1>1, <1>3, WFMin
<1>5. m - 1 \in Nat /\ m - 1 \notin T
  <2>1. m - 1 \in Nat /\ m - 1 < m
    OBVIOUS
  <2> QED
    BY <1>2, <1>4, <2>1
<1>6. m - 1 + 1 \in S
  BY <1>5
<1>7. m - 1 + 1 = m
  OBVIOUS
<1> QED
  BY <1>6, <1>7

\* The rounds 0 to n - 1 of a loop that begins with s.
Rounds(f, n, s, step) == f[0] = s /\ \A i \in 0..n - 1 : f[i + 1] = step[i][f[i]]

LEMMA RoundsExist ==
    ASSUME NEW n \in Nat, NEW S, NEW s \in S, NEW step \in [0..n - 1 -> [S -> S]]
    PROVE  \E f \in [0..n -> S] : Rounds(f, n, s, step)
<1> DEFINE T == {m \in Nat : m <= n => \E f \in [0..m -> S] : Rounds(f, m, s, step)}
<1>1. 0 \in T
  <2> DEFINE f == [k \in 0..0 |-> s]
  <2>1. f \in [0..0 -> S] /\ Rounds(f, 0, s, step)
    BY DEF Rounds
  <2> QED
    BY <2>1
<1>2. ASSUME NEW m \in T PROVE m + 1 \in T
  <2> SUFFICES ASSUME m + 1 <= n
               PROVE  \E f \in [0..(m + 1) -> S] : Rounds(f, m + 1, s, step)
    OBVIOUS
  <2>1. PICK f \in [0..m -> S] : Rounds(f, m, s, step)
    OBVIOUS
  <2>2. m \in Nat /\ m \in 0..n - 1 /\ m \in 0..m /\ 0 \in 0..m
    OBVIOUS
  <2> DEFINE last == step[m][f[m]]
             g == [k \in 0..(m + 1) |-> IF k <= m THEN f[k] ELSE last]
  <2>3. last \in S
    BY <2>2
  <2> HIDE DEF last
  <2>4. g \in [0..(m + 1) -> S]
    BY <2>2, <2>3
  <2>5. g[0] = s
    BY <2>1, <2>2 DEF Rounds
  <2>6. ASSUME NEW i \in 0..m PROVE g[i + 1] = step[i][g[i]]
    <3>1. CASE i = m
      <4>1. g[i + 1] = last /\ g[i] = f[m]
        BY <2>2, <3>1
      <4> HIDE DEF g
      <4> QED
        BY <3>1, <4>1 DEF last
    <3>2. CASE i \in 0..m - 1
      <4>1. g[i + 1] = f[i + 1] /\ g[i] = f[i]
        BY <2>2, <3>2
      <4> HIDE DEF g
      <4> QED
        BY <2>1, <3>2, <4>1 DEF Rounds
    <3> QED
      BY <2>2, <3>1, <3>2
  <2> HIDE DEF g
  <2>7. (m + 1) - 1 = m
    BY <2>2
  <2>8. Rounds(g, m + 1, s, step)
    BY <2>5, <2>6, <2>7 DEF Rounds
  <2> QED
    BY <2>4, <2>8
<1>3. T \in SUBSET Nat /\ (n \in T => \E f \in [0..n -> S] : Rounds(f, n, s, step))
  OBVIOUS
<1> HIDE DEF T
<1> QED
  BY <1>1, <1>2, <1>3, SetInduction

\* Two runs that take the same rounds are the same.
LEMMA SameRounds ==
    ASSUME NEW n \in Nat, NEW f, NEW g, f[0] = g[0],
           \A i \in 0..n - 1 : f[i] = g[i] => f[i + 1] = g[i + 1]
    PROVE  \A i \in 0..n : f[i] = g[i]
<1> DEFINE T == {m \in Nat : m <= n => f[m] = g[m]}
<1>1. 0 \in T
  OBVIOUS
<1>2. ASSUME NEW m \in T PROVE m + 1 \in T
  OBVIOUS
<1>3. T \in SUBSET Nat /\ \A i \in 0..n : i \in T => f[i] = g[i]
  OBVIOUS
<1> HIDE DEF T
<1> QED
  BY <1>1, <1>2, <1>3, SetInduction

(***************************************************************************)
(* Round i of a loop writes the bytes at written[i], no two rounds the     *)
(* same ones, and value[i] there, as long as the bytes it reads are those  *)
(* the loop began with.                                                    *)
(***************************************************************************)
Untouched(u, s, written, n, i) ==
    \A k \in 1..n : (\A j \in 0..i - 1 : k \notin written[j]) => u[k] = s[k]

Writes(v, u, written, value, n, i) ==
    \A k \in 1..n : v[k] = IF k \in written[i] THEN value[i][k] ELSE u[k]

Apart(written, rounds) ==
    \A i, j \in 0..rounds - 1 : i # j => written[i] \intersect written[j] = {}

Wrote(t, s, written, value, n, rounds) ==
    /\ \A i \in 0..rounds - 1 : \A k \in 1..n : k \in written[i] => t[k] = value[i][k]
    /\ \A k \in 1..n : (\A i \in 0..rounds - 1 : k \notin written[i]) => t[k] = s[k]

LEMMA LoopWrites ==
    ASSUME NEW m \in Nat, NEW n, NEW f, NEW s, f[0] = s, NEW written, NEW value,
           Apart(written, m),
           \A i \in 0..m - 1 : Untouched(f[i], s, written, n, i)
                                 => Writes(f[i + 1], f[i], written, value, n, i)
    PROVE  Wrote(f[m], s, written, value, n, m)
<1> USE DEF Apart
<1> DEFINE T == {i \in Nat : i <= m => Wrote(f[i], s, written, value, n, i)}
<1>1. 0 \in T
  BY DEF Wrote
<1>2. ASSUME NEW i \in T PROVE i + 1 \in T
  <2> SUFFICES ASSUME i + 1 <= m PROVE Wrote(f[i + 1], s, written, value, n, i + 1)
    OBVIOUS
  <2>1. i \in Nat /\ i \in 0..m - 1 /\ Wrote(f[i], s, written, value, n, i)
    OBVIOUS
  <2>2. Untouched(f[i], s, written, n, i)
    BY <2>1 DEF Wrote, Untouched
  <2>3. Writes(f[i + 1], f[i], written, value, n, i)
    BY <2>1, <2>2
  <2>4. ASSUME NEW j \in 0..i, NEW k \in 1..n, k \in written[j]
        PROVE  f[i + 1][k] = value[j][k]
    <3>1. CASE j = i
      BY <2>3, <2>4, <3>1 DEF Writes
    <3>2. CASE j \in 0..i - 1
      <4>1. j \in 0..m - 1 /\ j # i
        BY <2>1, <3>2
      <4>2. k \notin written[i]
        BY <2>1, <2>4, <4>1
      <4>3. f[i][k] = value[j][k]
        BY <2>1, <2>4, <3>2 DEF Wrote
      <4> QED
        BY <2>3, <4>2, <4>3 DEF Writes
    <3> QED
      BY <2>1, <3>1, <3>2
  <2>5. ASSUME NEW k \in 1..n, \A j \in 0..i : k \notin written[j]
        PROVE  f[i + 1][k] = s[k]
    <3>1. k \notin written[i] /\ \A j \in 0..i - 1 : k \notin written[j]
      BY <2>1, <2>5
    <3>2. f[i][k] = s[k]
      BY <2>1, <3>1 DEF Wrote
    <3> QED
      BY <2>3, <3>1, <3>2 DEF Writes
  <2>6. (i + 1) - 1 = i
    BY <2>1
  <2> QED
    BY <2>4, <2>5, <2>6 DEF Wrote
<1>3. T \in SUBSET Nat /\ (m \in T => Wrote(f[m], s, written, value, n, m))
  OBVIOUS
<1> HIDE DEF T
<1> QED
  BY <1>1, <1>2, <1>3, SetInduction

-----------------------------------------------------------------------------
(* Bytes and the places of pixels.                                         *)

Buffers(n) == [1..n -> Channels]

HasBytes(i) == i.data \in Buffers(Len(i.data)) /\ i.keep \in BOOLEAN

LEMMA BufferLength ==
    ASSUME NEW n \in Nat, NEW s \in Buffers(n)
    PROVE  Len(s) = n /\ Holding(s, s) = s /\ \A t \in Buffers(n) : Holding(s, t) = t
<1>1. s \in Seq(Channels) /\ Len(s) = n
  BY DEF Buffers
<1>2. \A t \in Buffers(n) : [k \in 1..n |-> t[k]] = t
  BY DEF Buffers
<1> QED
  BY <1>1, <1>2 DEF Holding

\* There are b bytes in t after the first j.
HasPiece(t, j, b) == \A c \in 1..b : t[j + c] \in Channels

\* v is the buffer s of n bytes with those of t after the first k of its own.
IsWritten(v, s, n, k, b, t, j) ==
    /\ v \in Buffers(n)
    /\ \A m \in 1..n : v[m] = IF m \in k + 1..k + b THEN t[j + (m - k)] ELSE s[m]

LEMMA CopyBytesWrites ==
    ASSUME NEW n \in Nat, NEW s \in Buffers(n), NEW k \in Nat, NEW b \in Nat, NEW j \in Nat,
           k + b <= n, NEW t, HasPiece(t, j, b)
    PROVE  IsWritten(CopyBytes(s, k, t, j, b), s, n, k, b, t, j)
<1>1. Len(s) = n
  BY BufferLength
<1>2. ASSUME NEW m \in 1..n
      PROVE  /\ m - 1 - k \in 0..b - 1 <=> m \in k + 1..k + b
             /\ At(t, m - 1 - k + j) = t[j + (m - k)]
  <2>1. m - 1 - k + j + 1 = j + (m - k)
    OBVIOUS
  <2> QED
    BY <2>1 DEF At
<1>3. CopyBytes(s, k, t, j, b)
        = [m \in 1..n |-> IF m \in k + 1..k + b THEN t[j + (m - k)] ELSE s[m]]
  BY <1>1, <1>2 DEF CopyBytes
<1>4. ASSUME NEW m \in k + 1..k + b PROVE t[j + (m - k)] \in Channels
  <2>1. m - k \in 1..b
    OBVIOUS
  <2> QED
    BY <2>1 DEF HasPiece
<1> QED
  BY <1>3, <1>4 DEF Buffers, IsWritten

LEMMA ResizedBytes ==
    ASSUME NEW n \in Nat, NEW m \in Nat, NEW s \in Buffers(m)
    PROVE  Resized(s, n) \in Buffers(n)
  BY BufferLength DEF Resized, Buffers, Channels

IsMade(new, w, h, d, a) ==
    /\ IsDrawn(new) /\ HasBytes(new)
    /\ new.width = w /\ new.height = h /\ new.depth = d /\ new.align = a

LEMMA CreateMakes ==
    ASSUME NEW i, IsImage(i), HasBytes(i), NEW w \in Nat \ {0}, NEW h \in Nat \ {0},
           NEW d \in {1, 3, 4}, NEW a \in Nat \ {0}
    PROVE  IsMade(Create(i, w, h, d, a), w, h, d, a)
<1> DEFINE new == Create(i, w, h, d, a)
           shaped == [i EXCEPT !.width = w, !.height = h, !.depth = d, !.align = a]
           data == IF ~i.keep \/ DataSize(shaped) > Len(i.data)
                   THEN Resized(i.data, DataSize(shaped)) ELSE i.data
<1>1. /\ IsSized(shaped) /\ shaped.keep = i.keep /\ shaped.data = i.data
      /\ shaped.width = w /\ shaped.height = h /\ shaped.depth = d /\ shaped.align = a
      /\ shaped = [f \in Fields |-> shaped[f]]
  BY DEF IsImage, IsSized, Fields
<1>2. new = [shaped EXCEPT !.data = data]
  BY <1>1 DEF Create
<1> HIDE DEF shaped
<1>3. DataSize(shaped) \in Nat /\ Len(i.data) \in Nat
  BY <1>1, DataSizeNat DEF IsImage, Covers
<1>4. data \in Buffers(Len(data))
  <2>1. Resized(i.data, DataSize(shaped)) \in Buffers(DataSize(shaped))
    BY <1>3, ResizedBytes DEF HasBytes
  <2>2. Len(Resized(i.data, DataSize(shaped))) = DataSize(shaped)
    BY <1>3, <2>1, BufferLength
  <2> QED
    BY <2>1, <2>2 DEF HasBytes
<1> HIDE DEF data
<1>5. /\ new.data = data /\ new.keep = i.keep
      /\ new.width = w /\ new.height = h /\ new.depth = d /\ new.align = a
  BY <1>1, <1>2 DEF Fields
<1>6. IsDrawn(new)
  BY CreateTyped
<1> HIDE DEF new
<1>7. IsMade(new, w, h, d, a)
  BY <1>4, <1>5, <1>6 DEF HasBytes, IsMade
<1> QED
  BY <1>7 DEF new

-----------------------------------------------------------------------------
\* Byte c of the pixel at column x and row y.
Spot(i, x, y, c) == y * AlignedScanline(i) + x * i.depth + c

Columns(i) == 0..i.width - 1
Rows(i) == 0..i.height - 1
Bytes(i) == 1..i.depth

LEMMA PixelBytes ==
    ASSUME NEW i, NEW x, NEW y
    PROVE  PixelAt(i, x, y) = [c \in Bytes(i) |-> i.data[Spot(i, x, y, c)]]
BY DEF PixelAt, Piece, Spot, Bytes

LEMMA AlignedCovers ==
    ASSUME NEW n \in Nat, NEW align \in Nat \ {0}
    PROVE  n <= ScanlineToAlign(n, align)
<1> DEFINE q == n \div align
<1>1. q \in Nat /\ n < (q + 1) * align
  OBVIOUS
<1> HIDE DEF q
<1>2. (q + 1) * align \in Nat
  BY <1>1
<1> QED
  BY <1>1, <1>2 DEF ScanlineToAlign, q

\* The rows of an image and the pixels of a row.
LEMMA DrawnSizes ==
    ASSUME NEW i, IsDrawn(i)
    PROVE  /\ i.width \in Nat \ {0} /\ i.height \in Nat \ {0} /\ i.depth \in {1, 3, 4}
           /\ i.depth \in Nat \ {0} /\ i.align \in Nat \ {0}
           /\ AlignedScanline(i) \in Nat /\ i.width * i.depth \in Nat
           /\ i.width * i.depth <= AlignedScanline(i)
           /\ Len(i.data) \in Nat /\ i.height * AlignedScanline(i) \in Nat
           /\ i.height * AlignedScanline(i) <= Len(i.data)
           /\ (Packed(i) => AlignedScanline(i) = i.width * i.depth)
<1>1. /\ i.width \in Nat \ {0} /\ i.height \in Nat \ {0} /\ i.depth \in {1, 3, 4}
      /\ i.align \in Nat \ {0} /\ Len(i.data) \in Nat /\ Len(i.data) >= DataSize(i)
  BY DEF IsDrawn, IsImage, IsSized, Covers
<1>2. i.depth \in Nat \ {0} /\ i.width * i.depth \in Nat
  BY <1>1
<1>3. /\ AlignedScanline(i) \in Nat /\ i.width * i.depth <= AlignedScanline(i)
      /\ (Packed(i) => AlignedScanline(i) = i.width * i.depth)
  <2> DEFINE n == i.width * i.depth
             a == i.align
  <2>1. n \in Nat /\ a \in Nat \ {0} /\ AlignedScanline(i) = ScanlineToAlign(n, a)
    BY <1>1, <1>2 DEF AlignedScanline, Scanline
  <2>2. Packed(i) => a = 1
    BY DEF Packed
  <2> HIDE DEF n, a
  <2>3. ScanlineToAlign(n, a) \in Nat /\ n <= ScanlineToAlign(n, a)
    BY <2>1, ScanlineNat, AlignedCovers
  <2>4. a = 1 => ScanlineToAlign(n, a) = n
    BY <2>1 DEF ScanlineToAlign
  <2> QED
    BY <2>1, <2>2, <2>3, <2>4 DEF n
<1>4. i.height * AlignedScanline(i) \in Nat
  BY <1>1, <1>3
<1> QED
  BY <1>1, <1>2, <1>3, <1>4 DEF DataSize

LEMMA Shuffle ==
    ASSUME NEW a \in Nat, NEW b \in Nat, NEW c \in Nat
    PROVE  a * (b * c) = (b * a) * c /\ b * a \in Nat
<1>1. b * c \in Nat /\ b * a \in Nat
  OBVIOUS
<1>2. a * (b * c) = (b * a) * c
  OBVIOUS
<1> QED
  BY <1>1, <1>2

LEMMA PlaceInRow ==
    ASSUME NEW w \in Nat, NEW d \in Nat, NEW x \in 0..w - 1, NEW c \in 1..d
    PROVE  x * d + (c - 1) \in 0..w * d - 1
  BY PlaceInside

LEMMA SpotInside ==
    ASSUME NEW i, IsDrawn(i), NEW x \in Columns(i), NEW y \in Rows(i), NEW c \in Bytes(i)
    PROVE  /\ Spot(i, x, y, c) \in 1..Len(i.data)
           /\ Spot(i, x, y, c) = y * AlignedScanline(i) + (x * i.depth + c)
           /\ x * i.depth + c \in 1..i.width * i.depth
           /\ x * i.depth \in Nat /\ y * AlignedScanline(i) \in Nat
<1> DEFINE w == i.width
           h == i.height
           d == i.depth
           line == AlignedScanline(i)
           n == Len(i.data)
<1>1. /\ w \in Nat /\ h \in Nat /\ d \in Nat /\ line \in Nat /\ w * d \in Nat /\ w * d <= line
      /\ n \in Nat /\ h * line \in Nat /\ h * line <= n
  BY DrawnSizes
<1>2. x \in 0..w - 1 /\ y \in 0..h - 1 /\ c \in 1..d /\ x \in Nat /\ y \in Nat /\ c \in Nat
  BY DEF Columns, Rows, Bytes
<1>3. Spot(i, x, y, c) = y * line + x * d + c
  BY DEF Spot
<1> HIDE DEF w, h, d, line, n
<1>4. x * d + (c - 1) \in 0..w * d - 1 /\ x * d \in Nat
  BY <1>1, <1>2, PlaceInRow
<1>5. y * line + (x * d + (c - 1)) \in 0..h * line - 1 /\ y * line \in Nat
  <2>1. x * d + (c - 1) \in Nat /\ x * d + (c - 1) < line
    BY <1>1, <1>2, <1>4
  <2> QED
    BY <1>1, <1>2, <2>1, PlaceInside
<1>6. /\ y * line + x * d + c \in 1..n /\ y * line + x * d + c = y * line + (x * d + c)
      /\ x * d + c \in 1..w * d
  BY <1>1, <1>2, <1>4, <1>5
<1> QED
  BY <1>3, <1>4, <1>5, <1>6 DEF w, h, d, line, n

LEMMA SpotsDiffer ==
    ASSUME NEW i, IsDrawn(i), NEW x \in Columns(i), NEW y \in Rows(i), NEW c \in Bytes(i),
           NEW u \in Columns(i), NEW v \in Rows(i), NEW e \in Bytes(i),
           Spot(i, x, y, c) = Spot(i, u, v, e)
    PROVE  x = u /\ y = v /\ c = e
<1> DEFINE w == i.width
           h == i.height
           d == i.depth
           line == AlignedScanline(i)
<1>1. /\ w \in Nat /\ h \in Nat /\ d \in Nat /\ line \in Nat /\ w * d \in Nat /\ w * d <= line
  BY DrawnSizes
<1>2. /\ x \in 0..w - 1 /\ y \in 0..h - 1 /\ c \in 1..d
      /\ u \in 0..w - 1 /\ v \in 0..h - 1 /\ e \in 1..d
  BY DEF Columns, Rows, Bytes
<1>3. /\ y * line + (x * d + c) = v * line + (u * d + e)
      /\ x * d + c \in 1..w * d /\ u * d + e \in 1..w * d
      /\ x * d \in Nat /\ u * d \in Nat /\ y * line \in Nat /\ v * line \in Nat
  BY SpotInside
<1> HIDE DEF w, h, d, line
<1>4. y = v /\ x * d + (c - 1) = u * d + (e - 1)
  <2> DEFINE k == x * d + c - 1
             m == u * d + e - 1
  <2>1. k \in Nat /\ m \in Nat /\ k < line /\ m < line /\ y * line + k = v * line + m
        /\ y \in Nat /\ v \in Nat
    BY <1>1, <1>2, <1>3
  <2>2. k = x * d + (c - 1) /\ m = u * d + (e - 1)
    BY <1>2, <1>3
  <2> HIDE DEF k, m
  <2>3. y = v /\ k = m
    BY <1>1, <2>1, PlacesDiffer
  <2> QED
    BY <2>2, <2>3
<1>5. x = u /\ c - 1 = e - 1
  <2>1. c - 1 \in Nat /\ e - 1 \in Nat /\ c - 1 < d /\ e - 1 < d /\ x \in Nat /\ u \in Nat
    BY <1>1, <1>2
  <2> QED
    BY <1>1, <1>4, <2>1, PlacesDiffer
<1> QED
  BY <1>2, <1>4, <1>5

-----------------------------------------------------------------------------
(* Numbers of pixels.                                                      *)

\* The number of a pixel, counted row by row, and its column and row.
LEMMA PixelOfNumber ==
    ASSUME NEW w \in Nat \ {0}, NEW h \in Nat, NEW p \in 0..w * h - 1
    PROVE  /\ p % w \in 0..w - 1 /\ p \div w \in 0..h - 1
           /\ p = (p \div w) * w + (p % w)
<1> DEFINE q == p \div w
           r == p % w
<1>1. p \in Nat /\ w * h \in Nat /\ p < w * h
  OBVIOUS
<1>2. q \in Nat /\ r \in 0..w - 1 /\ p = q * w + r
  BY <1>1
<1> HIDE DEF q, r
<1>3. q * w \in Nat /\ q * w <= p
  BY <1>2
<1>4. q < h
  <2> SUFFICES ASSUME h <= q PROVE FALSE
    BY <1>2
  <2>1. h * w <= q * w
    BY <1>2, Products
  <2> QED
    BY <1>1, <1>3, <2>1
<1> QED
  BY <1>2, <1>4 DEF q, r

IsNumberOf(p, x, y, w, h) == p \in 0..w * h - 1 /\ p % w = x /\ p \div w = y

LEMMA NumberOfPixel ==
    ASSUME NEW w \in Nat \ {0}, NEW h \in Nat, NEW x \in 0..w - 1, NEW y \in 0..h - 1,
           NEW p, p = y * w + x
    PROVE  IsNumberOf(p, x, y, w, h)
<1>1. p \in 0..h * w - 1
  BY PlaceInside
<1>2. p \in 0..w * h - 1
  BY <1>1
<1>3. p % w \in 0..w - 1 /\ p \div w \in 0..h - 1 /\ p = (p \div w) * w + (p % w)
  BY <1>2, PixelOfNumber
<1> DEFINE q == p \div w
           r == p % w
<1>4. q \in Nat /\ r \in Nat /\ r < w /\ q * w + r = y * w + x /\ y \in Nat /\ x \in Nat /\ x < w
  BY <1>3
<1> HIDE DEF q, r
<1>5. q = y /\ r = x
  BY <1>4, PlacesDiffer
<1> QED
  BY <1>2, <1>5 DEF q, r, IsNumberOf

-----------------------------------------------------------------------------
(***************************************************************************)
(* The loops of Images.  A round puts some bytes, which are those at       *)
(* another place or are made from them, or exchanges the bytes at two      *)
(* places.  The bytes are read in the buffer that is written (inPlace) or  *)
(* in another one, data.                                                   *)
(***************************************************************************)
Painted(colour, pixel) ==
    CASE colour = "none" -> pixel
      [] colour = "gray" -> Gray(pixel)
      [] colour = "bgr"  -> Bgr(pixel)
      [] colour = "rgb"  -> Rgb(pixel)
      [] colour = "rgba" -> Rgba(pixel)

PutRound(c, s, p) ==
    Put(s, c.to[p], Painted(c.colour, Piece(IF c.inPlace THEN s ELSE c.data, c.from[p], c.bytes)))

SwapRound(c, s, p) == SwapBytes(s, c.to[p], c.from[p], c.bytes)

MoveRound(c, s, p) == IF c.swap THEN SwapRound(c, s, p) ELSE PutRound(c, s, p)

MoveLoop(c, m, s) == LET Round(t, p) == MoveRound(c, t, p) IN Loop(m, s, Round)

\* A loop over rows, with a loop over the pixels of each.
RowsRound(c, s, p) == MoveLoop(c.row[p], c.count, s)

RowsLoop(c, m, s) == LET Round(t, p) == RowsRound(c, t, p) IN Loop(m, s, Round)

IsDrawing(t, s, written, value, n, m) == t \in Buffers(n) /\ Wrote(t, s, written, value, n, m)

\* g takes the rounds of step, from s, as long as its buffers are of n bytes.
Follows(g, m, n, s, step) ==
    g[0] = s /\ \A p \in 0..m - 1 : g[p] \in Buffers(n) => g[p + 1] = step[p][g[p]]

StepsWrite(step, s, written, value, n, m) ==
    \A p \in 0..m - 1 : \A u \in Buffers(n) :
       Untouched(u, s, written, n, p) => Writes(step[p][u], u, written, value, n, p)

LEMMA RunDraws ==
    ASSUME NEW m \in Nat, NEW n \in Nat, NEW s \in Buffers(n),
           NEW step \in [0..m - 1 -> [Buffers(n) -> Buffers(n)]], NEW written, NEW value,
           Apart(written, m), StepsWrite(step, s, written, value, n, m),
           NEW g, Follows(g, m, n, s, step)
    PROVE  IsDrawing(g[m], s, written, value, n, m)
<1>1. PICK f \in [0..m -> Buffers(n)] : Rounds(f, m, s, step)
  BY RoundsExist
<1>2. f[0] = s /\ \A p \in 0..m - 1 : f[p] \in Buffers(n) /\ f[p + 1] = step[p][f[p]]
  BY <1>1 DEF Rounds
<1>3. \A p \in 0..m - 1 : f[p] = g[p] => f[p + 1] = g[p + 1]
  BY <1>2 DEF Follows
<1>4. f[0] = g[0]
  BY <1>2 DEF Follows
<1>5. \A p \in 0..m : f[p] = g[p]
  BY <1>3, <1>4, SameRounds, ZenonT(40)
<1>8. f[m] = g[m] /\ f[m] \in Buffers(n)
  BY <1>5
<1>6. \A p \in 0..m - 1 : Untouched(f[p], s, written, n, p)
                            => Writes(f[p + 1], f[p], written, value, n, p)
  BY <1>2 DEF StepsWrite
<1>7. Wrote(f[m], s, written, value, n, m)
  BY <1>2, <1>6, LoopWrites
<1> QED
  BY <1>7, <1>8 DEF IsDrawing

LEMMA RunExists ==
    ASSUME NEW m \in Nat, NEW n \in Nat, NEW s \in Buffers(n),
           NEW step \in [0..m - 1 -> [Buffers(n) -> Buffers(n)]]
    PROVE  \E f \in [0..m -> Buffers(n)] :
              \A p \in 0..m : f[p] = IF p = 0 THEN s ELSE step[p - 1][f[p - 1]]
<1>1. PICK f \in [0..m -> Buffers(n)] : Rounds(f, m, s, step)
  BY RoundsExist
<1>2. ASSUME NEW p \in 0..m, p # 0 PROVE f[p] = step[p - 1][f[p - 1]]
  <2>1. p - 1 \in 0..m - 1 /\ (p - 1) + 1 = p
    BY <1>2
  <2> QED
    BY <1>1, <2>1 DEF Rounds
<1>3. f[0] = s
  BY <1>1 DEF Rounds
<1> QED
  BY <1>2, <1>3

\* What a round of a loop writes.
RoundWrites(v, u, s, written, value, n, p) ==
    /\ v \in Buffers(n)
    /\ Untouched(u, s, written, n, p) => Writes(v, u, written, value, n, p)

LEMMA MoveRuns ==
    ASSUME NEW c, NEW m \in Nat, NEW n \in Nat, NEW s \in Buffers(n), NEW written, NEW value,
           Apart(written, m),
           \A p \in 0..m - 1 : \A u \in Buffers(n) :
              RoundWrites(MoveRound(c, u, p), u, s, written, value, n, p)
    PROVE  IsDrawing(MoveLoop(c, m, s), s, written, value, n, m)
<1> DEFINE step == [p \in 0..m - 1 |-> [t \in Buffers(n) |-> MoveRound(c, t, p)]]
           IsRun(g) == g = [p \in 0..m |-> IF p = 0 THEN s ELSE MoveRound(c, g[p - 1], p - 1)]
           run == CHOOSE g : IsRun(g)
<1>1. /\ step \in [0..m - 1 -> [Buffers(n) -> Buffers(n)]]
      /\ \A p \in 0..m - 1 : \A u \in Buffers(n) : step[p][u] = MoveRound(c, u, p)
  BY DEF RoundWrites
<1> HIDE DEF step
<1>2. PICK f \in [0..m -> Buffers(n)] :
         \A p \in 0..m : f[p] = IF p = 0 THEN s ELSE step[p - 1][f[p - 1]]
  BY <1>1, RunExists, ZenonT(40)
<1>3. IsRun(f)
  <2>1. \A p \in 0..m : p # 0 => p - 1 \in 0..m - 1 /\ f[p - 1] \in Buffers(n)
    BY <1>2
  <2> QED
    BY <1>1, <1>2, <2>1
<1>4. IsRun(run)
  BY <1>3
<1>5. MoveLoop(c, m, s) = Holding(s, run[m])
  BY DEF MoveLoop, Loop
<1> HIDE DEF run
<1>6. Follows(run, m, n, s, step)
  <2>1. \A p \in 0..m - 1 : p + 1 \in 0..m /\ p + 1 # 0 /\ p + 1 - 1 = p
    OBVIOUS
  <2>2. run[0] = s /\ \A p \in 0..m - 1 : run[p + 1] = MoveRound(c, run[p], p)
    BY <1>4, <2>1
  <2> QED
    BY <1>1, <2>2 DEF Follows
<1>7. StepsWrite(step, s, written, value, n, m)
  BY <1>1 DEF StepsWrite, RoundWrites
<1>8. IsDrawing(run[m], s, written, value, n, m)
  BY <1>1, <1>6, <1>7, RunDraws
<1>9. Holding(s, run[m]) = run[m]
  BY <1>8, BufferLength DEF IsDrawing
<1> QED
  BY <1>5, <1>8, <1>9

LEMMA RowsRun ==
    ASSUME NEW c, NEW m \in Nat, NEW n \in Nat, NEW s \in Buffers(n), NEW written, NEW value,
           Apart(written, m),
           \A p \in 0..m - 1 : \A u \in Buffers(n) :
              RoundWrites(RowsRound(c, u, p), u, s, written, value, n, p)
    PROVE  IsDrawing(RowsLoop(c, m, s), s, written, value, n, m)
<1> DEFINE step == [p \in 0..m - 1 |-> [t \in Buffers(n) |-> RowsRound(c, t, p)]]
           IsRun(g) == g = [p \in 0..m |-> IF p = 0 THEN s ELSE RowsRound(c, g[p - 1], p - 1)]
           run == CHOOSE g : IsRun(g)
<1>1. /\ step \in [0..m - 1 -> [Buffers(n) -> Buffers(n)]]
      /\ \A p \in 0..m - 1 : \A u \in Buffers(n) : step[p][u] = RowsRound(c, u, p)
  BY DEF RoundWrites
<1> HIDE DEF step
<1>2. PICK f \in [0..m -> Buffers(n)] :
         \A p \in 0..m : f[p] = IF p = 0 THEN s ELSE step[p - 1][f[p - 1]]
  BY <1>1, RunExists, ZenonT(40)
<1>3. IsRun(f)
  <2>1. \A p \in 0..m : p # 0 => p - 1 \in 0..m - 1 /\ f[p - 1] \in Buffers(n)
    BY <1>2
  <2> QED
    BY <1>1, <1>2, <2>1
<1>4. IsRun(run)
  BY <1>3
<1>5. RowsLoop(c, m, s) = Holding(s, run[m])
  BY DEF RowsLoop, Loop
<1> HIDE DEF run
<1>6. Follows(run, m, n, s, step)
  <2>1. \A p \in 0..m - 1 : p + 1 \in 0..m /\ p + 1 # 0 /\ p + 1 - 1 = p
    OBVIOUS
  <2>2. run[0] = s /\ \A p \in 0..m - 1 : run[p + 1] = RowsRound(c, run[p], p)
    BY <1>4, <2>1
  <2> QED
    BY <1>1, <2>2 DEF Follows
<1>7. StepsWrite(step, s, written, value, n, m)
  BY <1>1 DEF StepsWrite, RoundWrites
<1>8. IsDrawing(run[m], s, written, value, n, m)
  BY <1>1, <1>6, <1>7, RunDraws
<1>9. Holding(s, run[m]) = run[m]
  BY <1>8, BufferLength DEF IsDrawing
<1> QED
  BY <1>5, <1>8, <1>9

-----------------------------------------------------------------------------
(* Pictures                                                                *)

LEMMA PictureFields ==
    ASSUME NEW i
    PROVE  /\ Picture(i).width = i.width /\ Picture(i).height = i.height
           /\ Picture(i) = [width |-> i.width, height |-> i.height, pixel |-> Picture(i).pixel]
           /\ \A x \in Columns(i), y \in Rows(i) : Picture(i).pixel[<<x, y>>] = PixelAt(i, x, y)
           /\ Picture(i).pixel
                = [p \in Columns(i) \X Rows(i) |-> PixelAt(i, p[1], p[2])]
  BY DEF Picture, Columns, Rows

\* Pixel x, y of i is pixel u, v of o.
SamePixel(i, x, y, o, u, v) ==
    i.depth = o.depth /\ \A c \in Bytes(i) : i.data[Spot(i, x, y, c)] = o.data[Spot(o, u, v, c)]

LEMMA SamePixelAt ==
    ASSUME NEW i, NEW x, NEW y, NEW o, NEW u, NEW v, SamePixel(i, x, y, o, u, v)
    PROVE  PixelAt(i, x, y) = PixelAt(o, u, v)
  BY PixelBytes DEF SamePixel, Bytes

LEMMA PackedSpot ==
    ASSUME NEW i, IsDrawn(i), Packed(i), NEW x \in Nat, NEW y \in Nat, NEW c \in Nat
    PROVE  Spot(i, x, y, c) = (y * i.width + x) * i.depth + c
<1> DEFINE w == i.width
           d == i.depth
<1>1. w \in Nat /\ d \in Nat /\ AlignedScanline(i) = w * d
  BY DrawnSizes
<1>2. Spot(i, x, y, c) = y * (w * d) + x * d + c
  BY <1>1 DEF Spot
<1> HIDE DEF w, d
<1>3. y * (w * d) = (w * y) * d
  BY <1>1, Shuffle
<1>4. (y * w + x) * d = (w * y) * d + x * d
  BY <1>1
<1> QED
  BY <1>2, <1>3, <1>4 DEF w, d

\* A copy shows the same picture.
LEMMA CopiedDraws ==
    ASSUME NEW src, IsDrawn(src), HasBytes(src), NEW dst, IsImage(dst), HasBytes(dst),
           NEW r, r = Copied(src, dst)
    PROVE  /\ IsDrawn(r) /\ HasBytes(r) /\ Picture(r) = Picture(src)
           /\ r.width = src.width /\ r.height = src.height /\ r.depth = src.depth
           /\ r.align = src.align
<1> DEFINE new == CreateSame(dst, src)
           data == CopyBytes(new.data, 0, src.data, 0, DataSize(src))
           n == Len(new.data)
<1>1. /\ IsDrawn(new) /\ HasBytes(new)
      /\ new.width = src.width /\ new.height = src.height /\ new.depth = src.depth
      /\ new.align = src.align
  <2>1. /\ src.width \in Nat \ {0} /\ src.height \in Nat \ {0}
        /\ src.depth \in {1, 3, 4} /\ src.align \in Nat \ {0}
    BY DrawnSizes
  <2> DEFINE w == src.width
             h == src.height
             d == src.depth
             a == src.align
  <2>2. new = Create(dst, w, h, d, a)
    BY DEF CreateSame
  <2>3. w \in Nat \ {0} /\ h \in Nat \ {0} /\ d \in {1, 3, 4} /\ a \in Nat \ {0}
    BY <2>1
  <2> HIDE DEF new, w, h, d, a
  <2>4. /\ IsDrawn(new) /\ HasBytes(new)
        /\ new.width = w /\ new.height = h /\ new.depth = d /\ new.align = a
    <3>1. IsMade(Create(dst, w, h, d, a), w, h, d, a)
      BY <2>3, CreateMakes
    <3> QED
      BY <2>2, <3>1 DEF IsMade
  <2> QED
    BY <2>4 DEF w, h, d, a
<1>2. r = [new EXCEPT !.data = data]
  BY DEF Copied
<1> HIDE DEF new
<1>3. /\ n \in Nat /\ DataSize(src) \in Nat /\ DataSize(src) <= n
      /\ DataSize(src) <= Len(src.data) /\ Len(src.data) \in Nat
  <2>1. DataSize(new) = DataSize(src)
    BY <1>1 DEF DataSize, AlignedScanline, Scanline
  <2>2. DataSize(src) = src.height * AlignedScanline(src) /\ DataSize(new) = new.height * AlignedScanline(new)
    BY DEF DataSize
  <2> QED
    BY <1>1, <2>1, <2>2, DrawnSizes
<1>4. IsWritten(data, new.data, n, 0, DataSize(src), src.data, 0)
  <2> DEFINE size == DataSize(src)
             zero == 0
  <2>1. HasPiece(src.data, zero, size)
    BY <1>3 DEF HasBytes, Buffers, HasPiece
  <2>2. zero \in Nat /\ zero + size <= n /\ data = CopyBytes(new.data, zero, src.data, zero, size)
    BY <1>3
  <2>3. new.data \in Buffers(n)
    BY <1>1 DEF HasBytes
  <2> HIDE DEF size, zero, n, data
  <2>4. IsWritten(data, new.data, n, zero, size, src.data, zero)
    BY <1>3, <2>1, <2>2, <2>3, CopyBytesWrites DEF size
  <2> QED
    BY <2>4 DEF size, zero
<1>5. Len(data) = n /\ data \in Buffers(n)
  BY <1>3, <1>4, BufferLength DEF IsWritten
<1>6. /\ IsDrawn(r) /\ HasBytes(r)
      /\ r.width = src.width /\ r.height = src.height /\ r.depth = src.depth
      /\ r.align = src.align /\ r.data = data
  <2>1. IsDrawn(r)
    BY <1>1, <1>2, <1>5, SameLength DEF IsDrawn
  <2>2. /\ r.width = new.width /\ r.height = new.height /\ r.depth = new.depth
        /\ r.align = new.align /\ r.data = data /\ r.keep = new.keep
    <3>1. new = [f \in Fields |-> new[f]]
      BY <1>1 DEF IsDrawn, IsImage, IsSized
    <3> HIDE DEF data
    <3> QED
      BY <1>2, <3>1 DEF Fields
  <2> QED
    BY <1>1, <1>5, <2>1, <2>2 DEF HasBytes
<1> HIDE DEF data
<1>7. ASSUME NEW x \in Columns(src), NEW y \in Rows(src), NEW c \in Bytes(src)
      PROVE  r.data[Spot(r, x, y, c)] = src.data[Spot(src, x, y, c)]
  <2>1. Spot(r, x, y, c) = Spot(src, x, y, c)
    BY <1>6 DEF Spot, AlignedScanline, Scanline
  <2>2. Spot(src, x, y, c) \in 1..DataSize(src)
    <3>1. /\ y * AlignedScanline(src) \in Nat /\ x * src.depth + c \in 1..src.width * src.depth
          /\ Spot(src, x, y, c) = y * AlignedScanline(src) + (x * src.depth + c)
      BY SpotInside
    <3> DEFINE line == AlignedScanline(src)
               h == src.height
               wd == src.width * src.depth
               e == x * src.depth + c
               k == e - 1
    <3>2. /\ line \in Nat /\ h \in Nat /\ wd \in Nat /\ wd <= line /\ e \in 1..wd
          /\ y \in Nat /\ y < h /\ y * line \in Nat
          /\ Spot(src, x, y, c) = y * line + e /\ DataSize(src) = h * line
      BY <3>1, DrawnSizes DEF Rows, DataSize
    <3> HIDE DEF line, h, wd, e
    <3>4. k \in Nat /\ k < line /\ Spot(src, x, y, c) = y * line + k + 1
      BY <3>2
    <3> HIDE DEF k
    <3>3. y * line + k \in 0..h * line - 1 /\ h * line \in Nat
      BY <3>2, <3>4, PlaceInside
    <3> QED
      BY <3>2, <3>3, <3>4
  <2> DEFINE k == Spot(src, x, y, c)
  <2>3. data[k] = src.data[k]
    <3>1. k \in Nat /\ k \in 1..n /\ k \in 0 + 1..0 + DataSize(src) /\ 0 + (k - 0) = k
      BY <1>3, <2>2
    <3> HIDE DEF k
    <3> QED
      BY <1>4, <3>1 DEF IsWritten
  <2> QED
    BY <1>6, <2>1, <2>3
<1>8. \A x \in Columns(src), y \in Rows(src) : PixelAt(r, x, y) = PixelAt(src, x, y)
  BY <1>6, <1>7, SamePixelAt DEF SamePixel, Bytes
<1>9. Picture(r) = Picture(src)
  BY <1>6, <1>8 DEF Picture, Columns, Rows
<1> QED
  BY <1>6, <1>9

-----------------------------------------------------------------------------
(* Loops that put bytes, and loops that exchange them.                     *)

\* Pixels of e bytes are made of pixels of b.
IsColouring(colour, b, e) ==
    \/ colour = "none" /\ b \in Nat /\ e = b
    \/ colour = "gray" /\ b = 3 /\ e = 1
    \/ colour = "bgr" /\ b \in {3, 4} /\ e = b
    \/ colour = "rgb" /\ b = 4 /\ e = 3
    \/ colour = "rgba" /\ b \in {1, 3} /\ e = 4

LEMMA PaintedTyped ==
    ASSUME NEW colour, NEW b, NEW e, IsColouring(colour, b, e), NEW q \in Buffers(b)
    PROVE  Painted(colour, q) \in Buffers(e) /\ Len(Painted(colour, q)) = e /\ e \in Nat /\ b \in Nat
<1>1. e \in Nat /\ b \in Nat
  BY DEF IsColouring
<1>2. q \in Seq(Channels) /\ Len(q) = b
  BY <1>1, BufferLength DEF Buffers
<1>3. Painted(colour, q) \in Buffers(e)
  <2>1. CASE colour = "none"
    BY <2>1 DEF Painted, IsColouring
  <2>2. CASE colour = "gray"
    <3>1. b = 3 /\ e = 1 /\ Painted(colour, q) = Gray(q)
      BY <2>2 DEF Painted, IsColouring
    <3>2. Red(q) \in 0..255 /\ Green(q) \in 0..255 /\ Blue(q) \in 0..255
      BY <3>1 DEF Buffers, Channels, Red, Green, Blue
    <3> DEFINE red == Red(q)
               green == Green(q)
               blue == Blue(q)
               x == 6968 * red + 23434 * green + 2366 * blue
    <3>6. red \in 0..255 /\ green \in 0..255 /\ blue \in 0..255
      BY <3>2
    <3> HIDE DEF red, green, blue
    <3>3. x \in Nat /\ x < 8388608
      BY <3>6
    <3> HIDE DEF x
    <3>4. x \div 32768 \in Channels
      <4>1. x \div 32768 \in Nat /\ x \div 32768 < 256
        BY <3>3
      <4> QED
        BY <4>1 DEF Channels
    <3>5. Gray(q) = <<x \div 32768>>
      BY DEF Gray, x, red, green, blue
    <3> QED
      BY <3>1, <3>4, <3>5 DEF Buffers
  <2>3. CASE colour = "bgr"
    BY <2>3 DEF Painted, IsColouring, Bgr, Red, Blue, Buffers
  <2>4. CASE colour = "rgb"
    BY <2>4 DEF Painted, IsColouring, Rgb, Red, Green, Blue, Buffers
  <2>5. CASE colour = "rgba"
    <3>1. e = 4 /\ Painted(colour, q) = Rgba(q) /\ (b = 1 \/ b = 3)
      BY <2>5 DEF Painted, IsColouring
    <3>2. NotTransparent \in Channels
      BY DEF NotTransparent, Channels
    <3>3. CASE b = 1
      <4>1. Rgba(q) = <<q[1], q[1], q[1], NotTransparent>> /\ q[1] \in Channels
        BY <1>2, <3>3 DEF Rgba, Buffers
      <4> QED
        BY <3>1, <3>2, <4>1 DEF Buffers
    <3>4. CASE b = 3
      <4>1. /\ Rgba(q) = <<q[1], q[2], q[3], NotTransparent>>
            /\ q[1] \in Channels /\ q[2] \in Channels /\ q[3] \in Channels
        <5>1. q[1] \in Channels /\ q[2] \in Channels /\ q[3] \in Channels
          BY <3>4 DEF Buffers
        <5> DEFINE x == <<q[1], q[2], q[3]>>
                   y == <<NotTransparent>>
        <5>2. Rgba(q) = x \o y
          BY <1>2, <3>4 DEF Rgba, Rgb, Red, Green, Blue
        <5>3. x \in Seq(Channels) /\ Len(x) = 3 /\ y \in Seq(Channels) /\ Len(y) = 1
          BY <3>2, <5>1
        <5>4. /\ x \o y \in Seq(Channels) /\ Len(x \o y) = 4
              /\ \A i \in 1..4 : (x \o y)[i] = IF i <= 3 THEN x[i] ELSE y[i - 3]
          <6> HIDE DEF x, y
          <6>1. /\ x \o y \in Seq(Channels) /\ Len(x \o y) = Len(x) + Len(y)
                /\ \A i \in 1..Len(x) + Len(y) :
                      (x \o y)[i] = IF i <= Len(x) THEN x[i] ELSE y[i - Len(x)]
            BY <5>3, ConcatProperties
          <6> QED
            BY <5>3, <6>1
        <5>5. /\ (x \o y)[1] = q[1] /\ (x \o y)[2] = q[2] /\ (x \o y)[3] = q[3]
              /\ (x \o y)[4] = NotTransparent
          BY <5>4
        <5>6. x \o y = <<q[1], q[2], q[3], NotTransparent>>
          <6> DEFINE z == x \o y
          <6>1. z \in Seq(Channels) /\ Len(z) = 4 /\ z[1] = q[1] /\ z[2] = q[2] /\ z[3] = q[3] /\ z[4] = NotTransparent
            BY <5>4, <5>5
          <6> HIDE DEF z
          <6>2. z = <<q[1], q[2], q[3], NotTransparent>>
            BY <6>1
          <6> QED
            BY <6>2 DEF z
        <5> QED
          BY <5>1, <5>2, <5>6
      <4> QED
        BY <3>1, <3>2, <4>1 DEF Buffers
    <3> QED
      BY <3>1, <3>3, <3>4
  <2> QED
    BY <2>1, <2>2, <2>3, <2>4, <2>5 DEF IsColouring
<1> QED
  BY <1>1, <1>3, BufferLength

LEMMA PieceBuffer ==
    ASSUME NEW l \in Nat, NEW d \in Buffers(l), NEW k \in Nat, NEW b \in Nat, k + b <= l
    PROVE  Piece(d, k, b) \in Buffers(b)
<1>1. \A i \in 1..b : k + i \in 1..l
  OBVIOUS
<1> QED
  BY <1>1 DEF Piece, Buffers

\* The places that rounds read and write lie in the buffers.  In place, what
\* is read has not been written.
PutsInside(c, m, n, l, b, e) ==
    /\ \A p \in 0..m - 1 : /\ c.to[p] \in Nat /\ c.to[p] + e <= n
                           /\ c.from[p] \in Nat /\ c.from[p] + b <= l
    /\ \A p, q \in 0..m - 1 : p < q => \/ c.to[p] + e <= c.to[q]
                                       \/ c.to[q] + e <= c.to[p]
    /\ c.inPlace => \A p, q \in 0..m - 1 : p < q => c.to[p] + e <= c.from[q]

\* t is s with a pixel made from d for every round.
IsPut(t, s, d, c, m, n, b, e) ==
    /\ t \in Buffers(n)
    /\ \A p \in 0..m - 1, k \in 1..e :
          t[c.to[p] + k] = Painted(c.colour, Piece(d, c.from[p], b))[k]
    /\ \A k \in 1..n :
          (\A p \in 0..m - 1 : k \notin c.to[p] + 1..c.to[p] + e) => t[k] = s[k]

LEMMA PutWrites ==
    ASSUME NEW n \in Nat, NEW u \in Buffers(n), NEW k \in Nat, NEW e \in Nat, k + e <= n,
           NEW q \in Buffers(e)
    PROVE  IsWritten(Put(u, k, q), u, n, k, e, q, 0)
<1>1. Len(q) = e
  BY BufferLength
<1>2. HasPiece(q, 0, e)
  BY DEF HasPiece, Buffers
<1> DEFINE zero == 0
<1>3. zero \in Nat /\ Put(u, k, q) = CopyBytes(u, k, q, zero, e) /\ HasPiece(q, zero, e)
  BY <1>1, <1>2 DEF Put
<1> HIDE DEF zero
<1>4. IsWritten(CopyBytes(u, k, q, zero, e), u, n, k, e, q, zero)
  BY <1>3, CopyBytesWrites
<1> QED
  BY <1>3, <1>4 DEF zero

LEMMA PutDraws ==
    ASSUME NEW c, c.swap = FALSE, c.inPlace \in BOOLEAN, NEW m \in Nat,
           NEW n \in Nat, NEW s \in Buffers(n), NEW l \in Nat, NEW d \in Buffers(l),
           d = IF c.inPlace THEN s ELSE c.data,
           NEW b, b = c.bytes, NEW e, IsColouring(c.colour, b, e),
           PutsInside(c, m, n, l, b, e)
    PROVE  IsPut(MoveLoop(c, m, s), s, d, c, m, n, b, e)
<1> DEFINE Pixel(r, p) == Painted(c.colour, Piece(r, c.from[p], b))
           Read(u) == IF c.inPlace THEN u ELSE d
           Place(p) == c.to[p] + 1..c.to[p] + e
           written == [p \in 0..m - 1 |-> Place(p)]
           value == [p \in 0..m - 1 |-> [k \in 1..n |-> Pixel(d, p)[k - c.to[p]]]]
<1>1. e \in Nat /\ b \in Nat
  BY DEF IsColouring
<1>2. c.inPlace => l = n
  BY BufferLength
<1>3. ASSUME NEW p \in 0..m - 1
      PROVE  /\ c.to[p] \in Nat /\ c.to[p] + e <= n /\ c.from[p] \in Nat /\ c.from[p] + b <= l
  BY DEF PutsInside
<1>4. ASSUME NEW p \in 0..m - 1, NEW r \in Buffers(l)
      PROVE  Pixel(r, p) \in Buffers(e)
  <2>1. Piece(r, c.from[p], b) \in Buffers(b)
    BY <1>1, <1>3, PieceBuffer
  <2> QED
    BY <2>1, PaintedTyped
<1>5. ASSUME NEW u \in Buffers(n) PROVE Read(u) \in Buffers(l)
  BY <1>2
<1>6. ASSUME NEW p \in 0..m - 1, NEW u
      PROVE  MoveRound(c, u, p) = Put(u, c.to[p], Pixel(Read(u), p))
  BY DEF MoveRound, PutRound
<1> HIDE DEF Pixel, Read
<1>7. ASSUME NEW p \in 0..m - 1, NEW u \in Buffers(n)
      PROVE  IsWritten(MoveRound(c, u, p), u, n, c.to[p], e, Pixel(Read(u), p), 0)
  <2>1. Pixel(Read(u), p) \in Buffers(e)
    BY <1>4, <1>5
  <2> QED
    BY <1>1, <1>3, <1>6, <2>1, PutWrites
<1>8. ASSUME NEW p \in 0..m - 1, NEW u \in Buffers(n), Untouched(u, s, written, n, p)
      PROVE  Pixel(Read(u), p) = Pixel(d, p)
  <2>1. CASE ~c.inPlace
    BY <2>1 DEF Read
  <2>2. CASE c.inPlace
    <3>1. ASSUME NEW i \in 1..b PROVE u[c.from[p] + i] = s[c.from[p] + i]
      <4> DEFINE k == c.from[p] + i
      <4>1. k \in 1..n
        BY <1>1, <1>2, <1>3, <2>2
      <4>2. ASSUME NEW j \in 0..p - 1 PROVE k \notin written[j]
        <5>1. j \in 0..m - 1 /\ c.to[j] + e <= c.from[p] /\ c.to[j] \in Nat
          BY <2>2 DEF PutsInside
        <5> QED
          BY <1>1, <1>3, <5>1
      <4> HIDE DEF k, written
      <4>3. u[k] = s[k]
        BY <1>8, <4>1, <4>2 DEF Untouched
      <4> QED
        BY <4>3 DEF k
    <3>2. Piece(u, c.from[p], b) = Piece(s, c.from[p], b)
      BY <3>1 DEF Piece
    <3> QED
      BY <2>2, <3>2 DEF Pixel, Read
  <2> QED
    BY <2>1, <2>2
<1>9. ASSUME NEW p \in 0..m - 1, NEW u \in Buffers(n)
      PROVE  RoundWrites(MoveRound(c, u, p), u, s, written, value, n, p)
  <2> DEFINE v == MoveRound(c, u, p)
             q == Pixel(Read(u), p)
             a == c.to[p]
  <2>1. IsWritten(v, u, n, a, e, q, 0) /\ a \in Nat
    BY <1>3, <1>7
  <2>2. Untouched(u, s, written, n, p) => q = Pixel(d, p)
    BY <1>8
  <2>3. written[p] = a + 1..a + e /\ \A k \in 1..n : value[p][k] = Pixel(d, p)[k - a]
    OBVIOUS
  <2> HIDE DEF v, q, a, written, value
  <2>4. /\ v \in Buffers(n)
        /\ \A k \in 1..n : v[k] = IF k \in a + 1..a + e THEN q[k - a] ELSE u[k]
    <3>1. \A k \in 1..n : 0 + (k - a) = k - a
      BY <2>1
    <3> QED
      BY <2>1, <3>1 DEF IsWritten
  <2>5. Untouched(u, s, written, n, p) => Writes(v, u, written, value, n, p)
    BY <2>2, <2>3, <2>4 DEF Writes
  <2>6. RoundWrites(v, u, s, written, value, n, p)
    BY <2>4, <2>5 DEF RoundWrites
  <2> QED
    BY <2>6 DEF v
<1>10. Apart(written, m)
  <2> SUFFICES ASSUME NEW p \in 0..m - 1, NEW q \in 0..m - 1, p < q, NEW k,
                      k \in Place(p), k \in Place(q)
               PROVE  FALSE
    BY DEF Apart
  <2>1. c.to[p] \in Nat /\ c.to[q] \in Nat /\ (c.to[p] + e <= c.to[q] \/ c.to[q] + e <= c.to[p])
    BY <1>3 DEF PutsInside
  <2> QED
    BY <1>1, <2>1
<1>11. IsDrawing(MoveLoop(c, m, s), s, written, value, n, m)
  <2> HIDE DEF written, value
  <2> QED
    BY <1>9, <1>10, MoveRuns
<1> DEFINE t == MoveLoop(c, m, s)
<1> HIDE DEF t
<1>12. t \in Buffers(n) /\ Wrote(t, s, written, value, n, m)
  BY <1>11 DEF IsDrawing, t
<1>13. ASSUME NEW p \in 0..m - 1, NEW k \in 1..e PROVE t[c.to[p] + k] = Pixel(d, p)[k]
  <2> DEFINE a == c.to[p]
             i == a + k
  <2>3. i \in 1..n /\ i \in Place(p) /\ i - a = k
    BY <1>1, <1>3
  <2>4. i \in written[p]
    BY <2>3
  <2>5. value[p][i] = Pixel(d, p)[i - a]
    <3> HIDE DEF Pixel, i
    <3> QED
      BY <2>3
  <2>1. i \in 1..n /\ i \in written[p] /\ value[p][i] = Pixel(d, p)[i - a] /\ i - a = k
    BY <2>3, <2>4, <2>5
  <2> HIDE DEF a, i, written, value
  <2>2. t[i] = value[p][i]
    BY <1>12, <2>1 DEF Wrote
  <2> QED
    BY <2>1, <2>2 DEF i, a
<1>14. ASSUME NEW k \in 1..n, \A p \in 0..m - 1 : k \notin Place(p) PROVE t[k] = s[k]
  <2>1. \A p \in 0..m - 1 : k \notin written[p]
    BY <1>14
  <2> HIDE DEF written, value
  <2> QED
    BY <1>12, <2>1 DEF Wrote
<1> QED
  BY <1>12, <1>13, <1>14 DEF IsPut, Pixel, t

\* The pairs of places that rounds exchange lie in each other, from the ends
\* of a row or of an image to its middle.
SwapsInside(c, m, n, b) ==
    /\ \A p \in 0..m - 1 : /\ c.to[p] \in Nat /\ c.from[p] \in Nat
                           /\ c.to[p] + b <= c.from[p] /\ c.from[p] + b <= n
    /\ \A p, q \in 0..m - 1 : p < q => c.to[p] + b <= c.to[q] /\ c.from[q] + b <= c.from[p]

IsSwapped(t, s, c, m, n, b) ==
    /\ t \in Buffers(n)
    /\ \A p \in 0..m - 1, k \in 1..b :
          t[c.to[p] + k] = s[c.from[p] + k] /\ t[c.from[p] + k] = s[c.to[p] + k]
    /\ \A k \in 1..n : (\A p \in 0..m - 1 : /\ k \notin c.to[p] + 1..c.to[p] + b
                                            /\ k \notin c.from[p] + 1..c.from[p] + b)
                         => t[k] = s[k]

\* v is u with the b bytes after the first i and the first j exchanged.
IsExchange(v, u, n, i, j, b) ==
    /\ v \in Buffers(n)
    /\ \A k \in 1..n : v[k] = IF k \in i + 1..i + b THEN u[j + (k - i)]
                              ELSE IF k \in j + 1..j + b THEN u[i + (k - j)]
                              ELSE u[k]

LEMMA SwapWrites ==
    ASSUME NEW n \in Nat, NEW u \in Buffers(n), NEW i \in Nat, NEW j \in Nat, NEW b \in Nat,
           i + b <= j, j + b <= n
    PROVE  IsExchange(SwapBytes(u, i, j, b), u, n, i, j, b)
<1> DEFINE v == SwapBytes(u, i, j, b)
           w == CopyBytes(u, i, u, j, b)
<1>1. HasPiece(u, i, b) /\ HasPiece(u, j, b)
  <2>1. \A c \in 1..b : i + c \in 1..n /\ j + c \in 1..n
    OBVIOUS
  <2> QED
    BY <2>1 DEF HasPiece, Buffers
<1>2. IsWritten(w, u, n, i, b, u, j)
  BY <1>1, CopyBytesWrites
<1>3. v = CopyBytes(w, j, u, i, b)
  BY DEF SwapBytes
<1> HIDE DEF v, w
<1>4. IsWritten(v, w, n, j, b, u, i)
  <2>1. w \in Buffers(n)
    BY <1>2 DEF IsWritten
  <2>2. IsWritten(CopyBytes(w, j, u, i, b), w, n, j, b, u, i)
    BY <1>1, <2>1, CopyBytesWrites
  <2> QED
    BY <1>3, <2>2
<1>5. \A k \in 1..n : k \in i + 1..i + b => k \notin j + 1..j + b
  OBVIOUS
<1>6. IsExchange(v, u, n, i, j, b)
  BY <1>2, <1>4, <1>5 DEF IsWritten, IsExchange
<1> QED
  BY <1>6 DEF v

LEMMA SwapDraws ==
    ASSUME NEW c, c.swap = TRUE, NEW m \in Nat, NEW n \in Nat, NEW s \in Buffers(n),
           NEW b \in Nat, b = c.bytes, SwapsInside(c, m, n, b)
    PROVE  IsSwapped(MoveLoop(c, m, s), s, c, m, n, b)
<1> DEFINE Low(p) == c.to[p] + 1..c.to[p] + b
           High(p) == c.from[p] + 1..c.from[p] + b
           New(u, p, k) == IF k \in Low(p) THEN u[c.from[p] + (k - c.to[p])]
                           ELSE u[c.to[p] + (k - c.from[p])]
           written == [p \in 0..m - 1 |-> Low(p) \union High(p)]
           value == [p \in 0..m - 1 |-> [k \in 1..n |-> New(s, p, k)]]
<1>1. ASSUME NEW p \in 0..m - 1
      PROVE  /\ c.to[p] \in Nat /\ c.from[p] \in Nat
             /\ c.to[p] + b <= c.from[p] /\ c.from[p] + b <= n
  BY DEF SwapsInside
<1>2. Apart(written, m)
  <2> SUFFICES ASSUME NEW p \in 0..m - 1, NEW q \in 0..m - 1, p < q, NEW k,
                      k \in Low(p) \union High(p), k \in Low(q) \union High(q)
               PROVE  FALSE
    BY DEF Apart
  <2>1. c.to[p] + b <= c.to[q] /\ c.from[q] + b <= c.from[p]
    BY DEF SwapsInside
  <2>2. /\ c.to[p] \in Nat /\ c.from[p] \in Nat /\ c.to[q] \in Nat /\ c.from[q] \in Nat
        /\ c.to[q] + b <= c.from[q]
    BY <1>1
  <2> QED
    BY <2>1, <2>2
<1>3. ASSUME NEW p \in 0..m - 1, NEW u \in Buffers(n), Untouched(u, s, written, n, p),
             NEW k \in Low(p) \union High(p)
      PROVE  u[k] = s[k]
  <2>1. k \in 1..n
    BY <1>1
  <2>2. ASSUME NEW j \in 0..p - 1 PROVE k \notin written[j]
    <3>1. j \in 0..m - 1 /\ p # j
      OBVIOUS
    <3>2. k \in written[p]
      OBVIOUS
    <3> HIDE DEF written
    <3> QED
      BY <1>2, <3>1, <3>2 DEF Apart
  <2> HIDE DEF written
  <2> QED
    BY <1>3, <2>1, <2>2 DEF Untouched
<1>4. ASSUME NEW p \in 0..m - 1, NEW u \in Buffers(n)
      PROVE  RoundWrites(MoveRound(c, u, p), u, s, written, value, n, p)
  <2> DEFINE v == MoveRound(c, u, p)
             i == c.to[p]
             j == c.from[p]
  <2>1. v = SwapBytes(u, i, j, b)
    BY DEF MoveRound, SwapRound
  <2>2. i \in Nat /\ j \in Nat /\ i + b <= j /\ j + b <= n
    BY <1>1
  <2>3. ASSUME Untouched(u, s, written, n, p)
        PROVE  \A k \in i + 1..i + b \union j + 1..j + b : u[k] = s[k]
    BY <1>3, <2>3
  <2>4. /\ written[p] = i + 1..i + b \union j + 1..j + b
        /\ \A k \in 1..n : value[p][k] = IF k \in i + 1..i + b THEN s[j + (k - i)]
                                         ELSE s[i + (k - j)]
    OBVIOUS
  <2> HIDE DEF v, i, j, written, value
  <2>5. /\ v \in Buffers(n)
        /\ \A k \in 1..n : v[k] = IF k \in i + 1..i + b THEN u[j + (k - i)]
                                  ELSE IF k \in j + 1..j + b THEN u[i + (k - j)]
                                  ELSE u[k]
    <3>1. IsExchange(SwapBytes(u, i, j, b), u, n, i, j, b)
      BY <2>2, SwapWrites
    <3> QED
      BY <2>1, <3>1 DEF IsExchange
  <2>6. ASSUME Untouched(u, s, written, n, p) PROVE Writes(v, u, written, value, n, p)
    <3>1. \A k \in 1..n : k \in i + 1..i + b => u[j + (k - i)] = s[j + (k - i)]
      <4>1. \A k \in 1..n : k \in i + 1..i + b => j + (k - i) \in j + 1..j + b
        BY <2>2
      <4> QED
        BY <2>3, <2>6, <4>1
    <3>2. \A k \in 1..n : k \in j + 1..j + b => u[i + (k - j)] = s[i + (k - j)]
      <4>1. \A k \in 1..n : k \in j + 1..j + b => i + (k - j) \in i + 1..i + b
        BY <2>2
      <4> QED
        BY <2>3, <2>6, <4>1
    <3> QED
      BY <2>4, <2>5, <3>1, <3>2 DEF Writes
  <2>7. RoundWrites(v, u, s, written, value, n, p)
    BY <2>5, <2>6 DEF RoundWrites
  <2> QED
    BY <2>7 DEF v
<1> DEFINE t == MoveLoop(c, m, s)
<1> HIDE DEF t
<1>5. t \in Buffers(n) /\ Wrote(t, s, written, value, n, m)
  <2>1. IsDrawing(MoveLoop(c, m, s), s, written, value, n, m)
    <3> HIDE DEF written, value
    <3> QED
      BY <1>2, <1>4, MoveRuns
  <2> QED
    BY <2>1 DEF IsDrawing, t
<1>6. ASSUME NEW p \in 0..m - 1, NEW k \in Low(p) \union High(p) PROVE t[k] = New(s, p, k)
  <2>2. k \in 1..n
    BY <1>1
  <2>3. k \in written[p]
    OBVIOUS
  <2>4. value[p][k] = New(s, p, k)
    <3> HIDE DEF New
    <3> QED
      BY <2>2
  <2>1. k \in 1..n /\ k \in written[p] /\ value[p][k] = New(s, p, k)
    BY <2>2, <2>3, <2>4
  <2> HIDE DEF written, value
  <2> QED
    BY <1>5, <2>1 DEF Wrote
<1>7. ASSUME NEW p \in 0..m - 1, NEW k \in 1..b
      PROVE  t[c.to[p] + k] = s[c.from[p] + k] /\ t[c.from[p] + k] = s[c.to[p] + k]
  <2> DEFINE i == c.to[p] + k
             j == c.from[p] + k
  <2>1. /\ i \in Low(p) /\ j \in High(p) /\ j \notin Low(p)
        /\ c.from[p] + (i - c.to[p]) = j /\ c.to[p] + (j - c.from[p]) = i
    BY <1>1
  <2>2. New(s, p, i) = s[j] /\ New(s, p, j) = s[i]
    BY <2>1
  <2> HIDE DEF i, j, New
  <2>3. t[i] = s[j] /\ t[j] = s[i]
    BY <1>6, <2>1, <2>2
  <2> QED
    BY <2>3 DEF i, j
<1>8. ASSUME NEW k \in 1..n, \A p \in 0..m - 1 : k \notin Low(p) /\ k \notin High(p)
      PROVE  t[k] = s[k]
  <2>1. \A p \in 0..m - 1 : k \notin written[p]
    BY <1>8
  <2> HIDE DEF written, value
  <2> QED
    BY <1>5, <2>1 DEF Wrote
<1> QED
  BY <1>5, <1>7, <1>8 DEF IsSwapped, t

-----------------------------------------------------------------------------
(* Turning                                                                 *)

\* To copy bytes is to put a piece.
LEMMA PutOfPiece ==
    ASSUME NEW s, NEW k \in Nat, NEW t, NEW j \in Nat, NEW b \in Nat
    PROVE  Put(s, k, Piece(t, j, b)) = CopyBytes(s, k, t, j, b)
<1>1. Len(Piece(t, j, b)) = b
  BY DEF Piece
<1>2. ASSUME NEW i \in 1..Len(s), i - 1 - k \in 0..b - 1
      PROVE  At(Piece(t, j, b), i - 1 - k + 0) = At(t, i - 1 - k + j)
  <2>1. i - 1 - k + 0 + 1 \in 1..b /\ j + (i - 1 - k + 0 + 1) = i - 1 - k + j + 1
    BY <1>2
  <2> QED
    BY <2>1 DEF At, Piece
<1> QED
  BY <1>1, <1>2 DEF Put, CopyBytes

CopyCall(to, data, from, bytes) ==
    [swap |-> FALSE, colour |-> "none", inPlace |-> FALSE, data |-> data,
     to |-> to, from |-> from, bytes |-> bytes]

LEMMA CopyCallRound ==
    ASSUME NEW to, NEW from, NEW data, NEW b \in Nat, NEW p, to[p] \in Nat, from[p] \in Nat, NEW s
    PROVE  MoveRound(CopyCall(to, data, from, b), s, p) = CopyBytes(s, to[p], data, from[p], b)
<1> DEFINE c == CopyCall(to, data, from, b)
<1>1. /\ c.swap = FALSE /\ c.colour = "none" /\ c.inPlace = FALSE /\ c.data = data
      /\ c.to = to /\ c.from = from /\ c.bytes = b
  BY DEF CopyCall
<1> HIDE DEF c
<1>2. MoveRound(c, s, p) = Put(s, to[p], Piece(data, from[p], b))
  BY <1>1 DEF MoveRound, PutRound, Painted
<1> QED
  BY <1>2, PutOfPiece DEF c

TurnCall(src, angle) ==
    LET w == src.width
        h == src.height
        b == src.depth
    IN  CopyCall([p \in 0..w * h - 1 |-> Target(angle, p % w, p \div w, w, h) * b],
                 src.data, [p \in 0..w * h - 1 |-> p * b], b)

\* The image that the loops of rotate.cpp write into.
TurnSpace(src, dst, angle) ==
    IF angle = "180" THEN Create(dst, src.width, src.height, src.depth, 1)
    ELSE Create(dst, src.height, src.width, src.depth, 1)

LEMMA TurnLoops ==
    ASSUME NEW src, IsDrawn(src), NEW dst, NEW angle \in Angles, src.depth # 4
    PROVE  RotateInto(src, dst, angle)
             = [TurnSpace(src, dst, angle) EXCEPT !.data =
                   MoveLoop(TurnCall(src, angle), src.width * src.height, @)]
<1> DEFINE w == src.width
           h == src.height
           b == src.depth
           m == w * h
           bytes == IF src.depth = 1 THEN 1 ELSE 3
           to == [p \in 0..m - 1 |-> Target(angle, p % w, p \div w, w, h) * b]
           from == [p \in 0..m - 1 |-> p * b]
           new == TurnSpace(src, dst, angle)
           Move(s, p) == CopyBytes(s, Target(angle, p % w, p \div w, w, h) * bytes,
                                   src.data, p * bytes, bytes)
<1>1. RotateInto(src, dst, angle) = [new EXCEPT !.data = Loop(m, new.data, Move)]
  BY DEF RotateInto, TurnSpace
<1> HIDE DEF new
<1>2. w \in Nat \ {0} /\ h \in Nat /\ b \in Nat /\ m \in Nat /\ bytes = b
  BY DrawnSizes
<1>3. to \in [0..m - 1 -> Nat] /\ from \in [0..m - 1 -> Nat]
  <2>1. ASSUME NEW p \in 0..m - 1 PROVE Target(angle, p % w, p \div w, w, h) \in Nat
    <3>1. p % w \in 0..w - 1 /\ p \div w \in 0..h - 1
      BY <1>2, PixelOfNumber
    <3>2. Target(angle, p % w, p \div w, w, h) \in 0..w * h - 1
      BY <1>2, <3>1, TargetInside
    <3> QED
      BY <3>2
  <2>2. ASSUME NEW p \in 0..m - 1
        PROVE  Target(angle, p % w, p \div w, w, h) * b \in Nat /\ p * b \in Nat
    <3> DEFINE k == Target(angle, p % w, p \div w, w, h)
    <3>1. k \in Nat
      BY <2>1
    <3> HIDE DEF k, w, h, b, m
    <3>2. k * b \in Nat /\ p * b \in Nat
      BY <1>2, <3>1
    <3> QED
      BY <3>2 DEF k
  <2> HIDE DEF w, h, b, m
  <2> QED
    BY <2>2
<1>4. ASSUME NEW s, NEW p \in 0..m - 1 PROVE Move(s, p) = MoveRound(TurnCall(src, angle), s, p)
  <2>1. TurnCall(src, angle) = CopyCall(to, src.data, from, b)
    BY DEF TurnCall
  <2>2. Move(s, p) = CopyBytes(s, to[p], src.data, from[p], b)
    BY <1>2
  <2> HIDE DEF to, from, b, m, Move
  <2>3. MoveRound(CopyCall(to, src.data, from, b), s, p) = CopyBytes(s, to[p], src.data, from[p], b)
    <3>1. to[p] \in Nat /\ from[p] \in Nat /\ b \in Nat
      BY <1>2, <1>3
    <3> HIDE DEF to, from, b
    <3> QED
      BY <3>1, CopyCallRound
  <2> QED
    BY <2>1, <2>2, <2>3
<1> DEFINE call == TurnCall(src, angle)
           first == new.data
<1> HIDE DEF call, first, w, h, b, m, bytes
<1>5. Loop(m, first, Move) = MoveLoop(call, m, first)
  <2>1. \A s, p : p \in 0..m - 1 => Move(s, p) = MoveRound(call, s, p)
    BY <1>4 DEF call
  <2> DEFINE One(g) == [i \in 0..m |-> IF i = 0 THEN first ELSE Move(g[i - 1], i - 1)]
             Other(g) == [i \in 0..m |-> IF i = 0 THEN first ELSE MoveRound(call, g[i - 1], i - 1)]
  <2>2. /\ Loop(m, first, Move) = Holding(first, (CHOOSE g : g = One(g))[m])
        /\ MoveLoop(call, m, first) = Holding(first, (CHOOSE g : g = Other(g))[m])
    BY DEF Loop, MoveLoop
  <2>3. ASSUME NEW g PROVE One(g) = Other(g)
    <3>1. \A i \in 0..m : i # 0 => i - 1 \in 0..m - 1
      BY <1>2
    <3>2. \A i \in 0..m : i # 0 => Move(g[i - 1], i - 1) = MoveRound(call, g[i - 1], i - 1)
      BY <2>1, <3>1
    <3> HIDE DEF Move
    <3> QED
      BY <3>2
  <2> HIDE DEF One, Other, Move
  <2>4. (CHOOSE g : g = One(g)) = (CHOOSE g : g = Other(g))
    BY <2>3
  <2> QED
    BY <2>2, <2>4
<1> QED
  BY <1>1, <1>5 DEF m, new, call, first, w, h, b

\* The image i with other bytes.
IsRefilled(r, i, d) ==
    /\ IsDrawn(r) /\ HasBytes(r) /\ r.data = d
    /\ r.width = i.width /\ r.height = i.height /\ r.depth = i.depth /\ r.align = i.align

LEMMA Refilled ==
    ASSUME NEW i, IsDrawn(i), HasBytes(i), NEW d \in Buffers(Len(i.data))
    PROVE  IsRefilled([i EXCEPT !.data = d], i, d)
<1> DEFINE r == [i EXCEPT !.data = d]
<1>1. i = [f \in Fields |-> i[f]] /\ Len(i.data) \in Nat
  BY DEF IsDrawn, IsImage, IsSized, Covers
<1>2. /\ r.data = d /\ r.keep = i.keep
      /\ r.width = i.width /\ r.height = i.height /\ r.depth = i.depth /\ r.align = i.align
  BY <1>1 DEF Fields
<1>3. Len(d) = Len(i.data)
  BY <1>1, BufferLength
<1>4. IsDrawn(r)
  BY <1>3, SameLength DEF IsDrawn
<1> HIDE DEF r
<1>5. HasBytes(r)
  BY <1>2, <1>3 DEF HasBytes
<1>6. IsRefilled(r, i, d)
  BY <1>2, <1>4, <1>5 DEF IsRefilled
<1> QED
  BY <1>6 DEF r

LEMMA PutPixel ==
    ASSUME NEW t, NEW s, NEW d, NEW c, NEW m, NEW n, NEW b, NEW e,
           IsPut(t, s, d, c, m, n, b, e), NEW p \in 0..m - 1, NEW k, NEW q \in Buffers(e),
           k = c.to[p], q = Painted(c.colour, Piece(d, c.from[p], b))
    PROVE  Piece(t, k, e) = q
<1>1. \A i \in 1..e : t[k + i] = q[i]
  BY DEF IsPut
<1>2. q = [i \in 1..e |-> q[i]]
  BY DEF Buffers
<1>3. Piece(t, k, e) = [i \in 1..e |-> t[k + i]]
  BY DEF Piece
<1> QED
  BY <1>1, <1>2, <1>3

\* The sizes of a packed image in pixels.
LEMMA PackedSizes ==
    ASSUME NEW i, IsDrawn(i), Packed(i)
    PROVE  i.width * i.height \in Nat /\ (i.width * i.height) * i.depth <= Len(i.data)
<1>1. /\ i.width \in Nat /\ i.height \in Nat /\ i.depth \in Nat /\ Len(i.data) \in Nat
      /\ i.height * (i.width * i.depth) <= Len(i.data)
  BY DrawnSizes
<1>2. i.height * (i.width * i.depth) = (i.width * i.height) * i.depth /\ i.width * i.height \in Nat
  BY <1>1, Shuffle
<1> QED
  BY <1>1, <1>2

LEMMA PackedPixel ==
    ASSUME NEW i, IsDrawn(i), Packed(i), NEW x \in Nat, NEW y \in Nat
    PROVE  PixelAt(i, x, y) = Piece(i.data, (y * i.width + x) * i.depth, i.depth)
<1> DEFINE w == i.width
           d == i.depth
<1>1. w \in Nat /\ d \in Nat /\ AlignedScanline(i) = w * d
  BY DrawnSizes
<1>2. y * AlignedScanline(i) + x * d = y * (w * d) + x * d
  BY <1>1
<1> HIDE DEF w, d
<1>3. y * (w * d) = (w * y) * d
  BY <1>1, Shuffle
<1>4. (y * w + x) * d = (w * y) * d + x * d
  BY <1>1
<1>5. y * AlignedScanline(i) + x * d = (y * w + x) * d
  BY <1>2, <1>3, <1>4
<1> QED
  BY <1>5 DEF PixelAt, w, d

\* Numbered places of one size follow each other.
LEMMA NumberedPlaces ==
    ASSUME NEW p \in Nat, NEW q \in Nat, NEW b \in Nat
    PROVE  /\ p * b \in Nat /\ q * b \in Nat
           /\ p < q => p * b + b <= q * b
<1>1. ASSUME p < q PROVE (p + 1) * b <= q * b
  BY <1>1, Products
<1>2. (p + 1) * b = p * b + b /\ p * b \in Nat /\ q * b \in Nat
  OBVIOUS
<1> QED
  BY <1>1, <1>2

LEMMA NumberedInside ==
    ASSUME NEW m \in Nat, NEW p \in 0..m - 1, NEW b \in Nat, NEW n \in Nat, m * b <= n
    PROVE  p * b \in Nat /\ p * b + b <= n
<1>1. p \in Nat /\ p < m
  OBVIOUS
<1>2. p * b + b <= m * b /\ p * b \in Nat /\ m * b \in Nat
  BY <1>1, NumberedPlaces
<1> DEFINE k == p * b
           l == m * b
<1>3. k \in Nat /\ l \in Nat /\ k + b <= l /\ l <= n
  BY <1>2
<1> HIDE DEF k, l
<1>4. k + b <= n
  BY <1>3
<1> QED
  BY <1>3, <1>4 DEF k

(***************************************************************************)
(* The loops of rotate.cpp take every pixel to its target.  Two pixels     *)
(* never meet there (TargetsDiffer), so none is overwritten.               *)
(***************************************************************************)
IsTurnedBuffer(t, src, angle, n) ==
    /\ t \in Buffers(n)
    /\ \A x \in Columns(src), y \in Rows(src) :
          Piece(t, Target(angle, x, y, src.width, src.height) * src.depth, src.depth)
            = PixelAt(src, x, y)

LEMMA TurnDraws ==
    ASSUME NEW src, IsDrawn(src), HasBytes(src), Packed(src), NEW angle \in Angles,
           NEW n \in Nat, (src.width * src.height) * src.depth <= n, NEW s \in Buffers(n)
    PROVE  IsTurnedBuffer(MoveLoop(TurnCall(src, angle), src.width * src.height, s), src, angle, n)
<1> DEFINE w == src.width
           h == src.height
           b == src.depth
           m == w * h
           d == src.data
           l == Len(d)
           c == TurnCall(src, angle)
           To(p) == Target(angle, p % w, p \div w, w, h)
           t == MoveLoop(c, m, s)
<1>1. /\ w \in Nat \ {0} /\ h \in Nat \ {0} /\ b \in Nat \ {0} /\ m \in Nat
      /\ l \in Nat /\ m * b <= n /\ m * b <= l /\ d \in Buffers(l)
  BY DrawnSizes, PackedSizes DEF HasBytes
<1>2. \A p \in 0..m - 1 : /\ p % w \in 0..w - 1 /\ p \div w \in 0..h - 1
                          /\ p = (p \div w) * w + (p % w)
  BY <1>1, PixelOfNumber
<1>3. \A p \in 0..m - 1 : To(p) \in 0..m - 1
  BY <1>1, <1>2, TargetInside
<1>4. \A p, q \in 0..m - 1 : To(p) = To(q) => p = q
  <2> SUFFICES ASSUME NEW p \in 0..m - 1, NEW q \in 0..m - 1, To(p) = To(q) PROVE p = q
    OBVIOUS
  <2> DEFINE x == p % w
             y == p \div w
             u == q % w
             v == q \div w
  <2>2. /\ x \in 0..w - 1 /\ y \in 0..h - 1 /\ u \in 0..w - 1 /\ v \in 0..h - 1
        /\ Target(angle, x, y, w, h) = Target(angle, u, v, w, h)
        /\ w \in Nat /\ h \in Nat
    BY <1>1, <1>2
  <2> HIDE DEF x, y, u, v
  <2>3. x = u /\ y = v
    BY <2>2, TargetsDiffer
  <2>1. p % w = q % w /\ p \div w = q \div w
    BY <2>3 DEF x, y, u, v
  <2> QED
    BY <1>2, <2>1
<1>5. /\ c.swap = FALSE /\ c.colour = "none" /\ c.inPlace = FALSE /\ c.data = d /\ c.bytes = b
      /\ \A p \in 0..m - 1 : c.to[p] = To(p) * b /\ c.from[p] = p * b
  BY DEF TurnCall, CopyCall
<1> HIDE DEF w, h, b, m, d, l, c, To, t
<1>6. PutsInside(c, m, n, l, b, b)
  <2>1. ASSUME NEW p \in 0..m - 1
        PROVE  /\ c.to[p] \in Nat /\ c.to[p] + b <= n /\ c.from[p] \in Nat /\ c.from[p] + b <= l
    <3>1. To(p) \in 0..m - 1 /\ b \in Nat
      BY <1>1, <1>3
    <3>2. To(p) * b \in Nat /\ To(p) * b + b <= n
      BY <1>1, <3>1, NumberedInside
    <3>3. p * b \in Nat /\ p * b + b <= l
      BY <1>1, NumberedInside
    <3> QED
      BY <1>5, <3>2, <3>3
  <2>2. ASSUME NEW p \in 0..m - 1, NEW q \in 0..m - 1, p < q
        PROVE  c.to[p] + b <= c.to[q] \/ c.to[q] + b <= c.to[p]
    <3>1. To(p) \in Nat /\ To(q) \in Nat /\ b \in Nat /\ (To(p) < To(q) \/ To(q) < To(p))
      <4>1. To(p) # To(q)
        BY <1>4, <2>2
      <4> QED
        BY <1>1, <1>3, <4>1
    <3>2. To(p) * b + b <= To(q) * b \/ To(q) * b + b <= To(p) * b
      BY <3>1, NumberedPlaces
    <3> QED
      BY <1>5, <3>2
  <2> QED
    BY <1>5, <2>1, <2>2 DEF PutsInside
<1>7. IsPut(t, s, d, c, m, n, b, b)
  <2>1. IsColouring(c.colour, b, b)
    BY <1>1, <1>5 DEF IsColouring
  <2> QED
    BY <1>1, <1>5, <1>6, <2>1, PutDraws DEF t
<1>8. ASSUME NEW x \in 0..w - 1, NEW y \in 0..h - 1
      PROVE  Piece(t, Target(angle, x, y, w, h) * b, b) = PixelAt(src, x, y)
  <2> DEFINE p == y * w + x
             q == Piece(d, p * b, b)
  <2>1. p = y * w + x
    OBVIOUS
  <2>2. PixelAt(src, x, y) = q
    BY PackedPixel DEF d, b, w
  <2> HIDE DEF p
  <2>3. p \in 0..m - 1 /\ To(p) = Target(angle, x, y, w, h)
    <3>1. IsNumberOf(p, x, y, w, h)
      BY <1>1, <2>1, NumberOfPixel
    <3> QED
      BY <3>1 DEF IsNumberOf, m, To
  <2>4. q \in Buffers(b)
    <3>1. p * b \in Nat /\ p * b + b <= l
      BY <1>1, <2>3, NumberedInside
    <3> QED
      BY <1>1, <3>1, PieceBuffer
  <2> DEFINE k == To(p) * b
  <2>5. k = c.to[p] /\ q = Painted(c.colour, Piece(d, c.from[p], b))
    BY <1>5, <2>3 DEF Painted
  <2> HIDE DEF k, q
  <2>6. Piece(t, k, b) = q
    BY <1>7, <2>3, <2>4, <2>5, PutPixel
  <2> QED
    BY <2>2, <2>3, <2>6 DEF k
<1>9. t \in Buffers(n)
  BY <1>7 DEF IsPut
<1> QED
  BY <1>8, <1>9 DEF IsTurnedBuffer, Columns, Rows, t, c, m, w, h, b

\* A picture and the bytes it is drawn with.
IsResult(r, picture) == IsDrawn(r) /\ HasBytes(r) /\ Picture(r) = picture

LEMMA Result ==
    ASSUME NEW r, IsDrawn(r), HasBytes(r), NEW w, NEW h, r.width = w, r.height = h, NEW pixel,
           \A x \in 0..w - 1, y \in 0..h - 1 : PixelAt(r, x, y) = pixel[<<x, y>>],
           pixel = [p \in (0..w - 1) \X (0..h - 1) |-> pixel[p]]
    PROVE  IsResult(r, [width |-> w, height |-> h, pixel |-> pixel])
<1>1. \A p \in (0..w - 1) \X (0..h - 1) : PixelAt(r, p[1], p[2]) = pixel[p]
  <2> SUFFICES ASSUME NEW x \in 0..w - 1, NEW y \in 0..h - 1
               PROVE  PixelAt(r, x, y) = pixel[<<x, y>>]
    OBVIOUS
  <2> QED
    OBVIOUS
<1>2. [p \in (0..r.width - 1) \X (0..r.height - 1) |-> PixelAt(r, p[1], p[2])] = pixel
  BY <1>1
<1> QED
  BY <1>2 DEF Picture, IsResult

LEMMA TurnedDraws ==
    ASSUME NEW src, IsDrawn(src), NEW angle \in Angles, NEW r, IsDrawn(r), HasBytes(r), Packed(r),
           r.depth = src.depth,
           r.width = IF angle = "180" THEN src.width ELSE src.height,
           r.height = IF angle = "180" THEN src.height ELSE src.width,
           NEW n, IsTurnedBuffer(r.data, src, angle, n)
    PROVE  IsResult(r, Drawing!Turned(Picture(src), angle))
<1> DEFINE w == src.width
           h == src.height
           b == src.depth
           shown == Picture(src).pixel
<1>1. w \in Nat \ {0} /\ h \in Nat \ {0} /\ b \in Nat \ {0}
  BY DrawnSizes
<1>2. \A x \in 0..w - 1, y \in 0..h - 1 : shown[<<x, y>>] = PixelAt(src, x, y)
  BY PictureFields DEF Columns, Rows
<1>3. Picture(src).width = w /\ Picture(src).height = h
  BY PictureFields
<1>4. \A x \in 0..w - 1, y \in 0..h - 1 :
         Piece(r.data, Target(angle, x, y, w, h) * b, b) = shown[<<x, y>>]
  BY <1>2 DEF IsTurnedBuffer, Columns, Rows
<1>5. \A x \in Nat, y \in Nat : PixelAt(r, x, y) = Piece(r.data, (y * r.width + x) * b, b)
  BY PackedPixel
<1> HIDE DEF w, h, b, shown
<1>6. CASE angle = "90"
  <2> DEFINE pixel == [p \in (0..h - 1) \X (0..w - 1) |-> shown[<<p[2], h - 1 - p[1]>>]]
  <2>1. ASSUME NEW x \in 0..h - 1, NEW y \in 0..w - 1 PROVE PixelAt(r, x, y) = pixel[<<x, y>>]
    <3> DEFINE v == h - 1 - x
    <3>1. v \in 0..h - 1 /\ y * h \in Nat /\ x \in Nat /\ y \in Nat
      BY <1>1
    <3>2. Target(angle, y, v, w, h) = y * h + x
      BY <1>1, <1>6, <3>1 DEF Target
    <3>3. PixelAt(r, x, y) = Piece(r.data, (y * h + x) * b, b)
      BY <1>5, <1>6, <3>1 DEF h
    <3>4. PixelAt(r, x, y) = shown[<<y, v>>]
      <4> HIDE DEF v
      <4> QED
        BY <1>4, <3>1, <3>2, <3>3
    <3> QED
      BY <3>4
  <2>2. IsResult(r, [width |-> h, height |-> w, pixel |-> pixel])
    <3>1. r.width = h /\ r.height = w /\ pixel = [p \in (0..h - 1) \X (0..w - 1) |-> pixel[p]]
      BY <1>6 DEF w, h
    <3> HIDE DEF pixel
    <3> QED
      BY <2>1, <3>1, Result
  <2> QED
    BY <1>3, <1>6, <2>2 DEF Drawing!Turned, Drawing!Drawn, shown
<1>7. CASE angle = "180"
  <2> DEFINE pixel == [p \in (0..w - 1) \X (0..h - 1) |-> shown[<<w - 1 - p[1], h - 1 - p[2]>>]]
  <2>1. ASSUME NEW x \in 0..w - 1, NEW y \in 0..h - 1 PROVE PixelAt(r, x, y) = pixel[<<x, y>>]
    <3> DEFINE u == w - 1 - x
               v == h - 1 - y
    <3>1. u \in 0..w - 1 /\ v \in 0..h - 1 /\ y * w \in Nat /\ x \in Nat /\ y \in Nat
      BY <1>1
    <3>2. Target(angle, u, v, w, h) = y * w + x
      <4>1. Target(angle, u, v, w, h) = (w - 1 - u) + (h - 1 - v) * w
        BY <1>7 DEF Target
      <4>2. w - 1 - u = x /\ h - 1 - v = y
        BY <1>1
      <4> HIDE DEF u, v
      <4> QED
        BY <3>1, <4>1, <4>2
    <3>3. PixelAt(r, x, y) = Piece(r.data, (y * w + x) * b, b)
      BY <1>5, <1>7, <3>1 DEF w
    <3>4. PixelAt(r, x, y) = shown[<<u, v>>]
      <4> HIDE DEF u, v
      <4> QED
        BY <1>4, <3>1, <3>2, <3>3
    <3> QED
      BY <3>4
  <2>2. IsResult(r, [width |-> w, height |-> h, pixel |-> pixel])
    <3>1. r.width = w /\ r.height = h /\ pixel = [p \in (0..w - 1) \X (0..h - 1) |-> pixel[p]]
      BY <1>7 DEF w, h
    <3> HIDE DEF pixel
    <3> QED
      BY <2>1, <3>1, Result
  <2> QED
    BY <1>3, <1>7, <2>2 DEF Drawing!Turned, Drawing!Drawn, shown
<1>8. CASE angle = "270"
  <2> DEFINE pixel == [p \in (0..h - 1) \X (0..w - 1) |-> shown[<<w - 1 - p[2], p[1]>>]]
  <2>1. ASSUME NEW x \in 0..h - 1, NEW y \in 0..w - 1 PROVE PixelAt(r, x, y) = pixel[<<x, y>>]
    <3> DEFINE u == w - 1 - y
    <3>1. u \in 0..w - 1 /\ y * h \in Nat /\ x \in Nat /\ y \in Nat
      BY <1>1
    <3>2. Target(angle, u, x, w, h) = y * h + x
      <4>1. Target(angle, u, x, w, h) = x + (w - 1 - u) * h
        BY <1>8 DEF Target
      <4>2. w - 1 - u = y
        BY <1>1
      <4> HIDE DEF u
      <4> QED
        BY <3>1, <4>1, <4>2
    <3>3. PixelAt(r, x, y) = Piece(r.data, (y * h + x) * b, b)
      BY <1>5, <1>8, <3>1 DEF h
    <3>4. PixelAt(r, x, y) = shown[<<u, x>>]
      <4> HIDE DEF u
      <4> QED
        BY <1>4, <3>1, <3>2, <3>3
    <3> QED
      BY <3>4
  <2>2. IsResult(r, [width |-> h, height |-> w, pixel |-> pixel])
    <3>1. r.width = h /\ r.height = w /\ pixel = [p \in (0..h - 1) \X (0..w - 1) |-> pixel[p]]
      BY <1>8 DEF w, h
    <3> HIDE DEF pixel
    <3> QED
      BY <2>1, <3>1, Result
  <2> QED
    BY <1>3, <1>8, <2>2 DEF Drawing!Turned, Drawing!Drawn, shown
<1> QED
  BY <1>6, <1>7, <1>8 DEF Angles

LEMMA RotateIntoDraws ==
    ASSUME NEW src, IsDrawn(src), HasBytes(src), Packed(src), src.depth # 4,
           NEW dst, IsImage(dst), HasBytes(dst), NEW angle \in Angles
    PROVE  IsResult(RotateInto(src, dst, angle), Drawing!Turned(Picture(src), angle))
<1> DEFINE w == IF angle = "180" THEN src.width ELSE src.height
           h == IF angle = "180" THEN src.height ELSE src.width
           b == src.depth
           one == 1
           new == TurnSpace(src, dst, angle)
           n == Len(new.data)
           t == MoveLoop(TurnCall(src, angle), src.width * src.height, new.data)
           r == RotateInto(src, dst, angle)
<1>1. /\ w \in Nat \ {0} /\ h \in Nat \ {0} /\ b \in {1, 3, 4} /\ one \in Nat \ {0} /\ one = 1
      /\ h * w = src.width * src.height
  BY DrawnSizes
<1>2. new = Create(dst, w, h, b, one)
  BY DEF TurnSpace
<1>3. r = [new EXCEPT !.data = t]
  BY TurnLoops
<1> HIDE DEF new, r, w, h, b, one
<1>4. IsMade(Create(dst, w, h, b, one), w, h, b, one)
  BY <1>1, CreateMakes
<1>5. /\ IsDrawn(new) /\ HasBytes(new) /\ Packed(new)
      /\ new.width = w /\ new.height = h /\ new.depth = b
  BY <1>1, <1>2, <1>4 DEF IsMade, Packed
<1>6. n \in Nat /\ new.data \in Buffers(n) /\ (src.width * src.height) * src.depth <= n
  <2>1. (new.width * new.height) * new.depth <= n
    BY <1>5, PackedSizes
  <2>2. w * h = h * w
    BY <1>1
  <2> QED
    BY <1>1, <1>5, <2>1, <2>2, DrawnSizes DEF HasBytes, b
<1> HIDE DEF t
<1>7. IsTurnedBuffer(t, src, angle, n)
  <2> HIDE DEF n
  <2> QED
    BY <1>6, TurnDraws DEF t
<1>8. IsRefilled([new EXCEPT !.data = t], new, t)
  BY <1>5, <1>7, Refilled DEF IsTurnedBuffer
<1>9. /\ IsDrawn(r) /\ HasBytes(r) /\ Packed(r) /\ r.data = t
      /\ r.width = w /\ r.height = h /\ r.depth = src.depth
  BY <1>3, <1>5, <1>8 DEF IsRefilled, Packed, b
<1>10. IsResult(r, Drawing!Turned(Picture(src), angle))
  BY <1>7, <1>9, TurnedDraws DEF w, h
<1> QED
  BY <1>10 DEF r

LEMMA NoImageBytes ==
    ASSUME NEW keep \in BOOLEAN
    PROVE  IsImage(NoImage(keep)) /\ HasBytes(NoImage(keep))
<1>1. NoImage(keep).data = <<>> /\ NoImage(keep).keep = keep
  BY DEF NoImage
<1>2. <<>> \in [1..0 -> Channels] /\ Len(<<>>) = 0
  OBVIOUS
<1> QED
  BY <1>1, <1>2, NoImageTyped DEF HasBytes, Buffers

\* A copy of an image that has a picture has it too.
LEMMA CopiedResult ==
    ASSUME NEW src, NEW picture, IsResult(src, picture), NEW dst, IsImage(dst), HasBytes(dst)
    PROVE  IsResult(Copied(src, dst), picture)
<1> DEFINE r == Copied(src, dst)
<1>1. IsDrawn(src) /\ HasBytes(src) /\ Picture(src) = picture
  BY DEF IsResult
<1>2. r = Copied(src, dst)
  OBVIOUS
<1> HIDE DEF r
<1>3. IsDrawn(r) /\ HasBytes(r) /\ Picture(r) = Picture(src)
  BY <1>1, <1>2, CopiedDraws
<1> QED
  BY <1>1, <1>2, <1>3 DEF IsResult

LEMMA RotatedDraws ==
    ASSUME NEW src, IsDrawn(src), HasBytes(src), Packed(src), src.depth # 4,
           NEW dst, IsImage(dst), HasBytes(dst), NEW same, NEW angle \in Angles
    PROVE  IsResult(Rotated(src, dst, same, angle), Drawing!Turned(Picture(src), angle))
<1>1. IsImage(NoImage(FALSE)) /\ HasBytes(NoImage(FALSE))
  BY NoImageBytes
<1>2. /\ IsResult(RotateInto(src, dst, angle), Drawing!Turned(Picture(src), angle))
      /\ IsResult(RotateInto(src, NoImage(FALSE), angle), Drawing!Turned(Picture(src), angle))
  BY <1>1, RotateIntoDraws
<1>3. IsResult(Copied(RotateInto(src, NoImage(FALSE), angle), dst), Drawing!Turned(Picture(src), angle))
  BY <1>2, CopiedResult
<1> QED
  BY <1>2, <1>3 DEF Rotated

-----------------------------------------------------------------------------
(* Mirroring upside down: the rows of an image change places.              *)

\* Row y of the buffer t, of size bytes, is the row of d that mirrors it.
AreRowsMirrored(t, d, height, line, size, n) ==
    /\ t \in Buffers(n)
    /\ \A y \in 0..height - 1, k \in 1..size : t[y * line + k] = d[(height - 1 - y) * line + k]

SwapCall(to, from, bytes) ==
    [swap |-> TRUE, colour |-> "none", inPlace |-> TRUE, data |-> <<>>,
     to |-> to, from |-> from, bytes |-> bytes]

SwapRowsCall(i) ==
    SwapCall([h \in 0..i.height \div 2 - 1 |-> h * AlignedScanline(i)],
             [h \in 0..i.height \div 2 - 1 |-> (i.height - 1 - h) * AlignedScanline(i)],
             Scanline(i))

LEMMA SwapRowsLoops ==
    ASSUME NEW i, IsDrawn(i)
    PROVE  MirrorSame(i, "UpsideDown")
             = [i EXCEPT !.data = MoveLoop(SwapRowsCall(i), i.height \div 2, @)]
<1> DEFINE line == AlignedScanline(i)
           height == i.height
           size == Scanline(i)
           m == i.height \div 2
           first == i.data
           call == SwapRowsCall(i)
           Move(s, h) == SwapBytes(s, h * line, (height - 1 - h) * line, size)
<1>1. MirrorSame(i, "UpsideDown") = [i EXCEPT !.data = Loop(m, first, Move)]
  BY DEF MirrorSame
<1>2. m \in Nat
  BY DrawnSizes
<1>3. ASSUME NEW s, NEW h \in 0..m - 1 PROVE Move(s, h) = MoveRound(call, s, h)
  BY DEF SwapRowsCall, SwapCall, MoveRound, SwapRound
<1> HIDE DEF line, height, size, m, first, call
<1>4. Loop(m, first, Move) = MoveLoop(call, m, first)
  <2>1. \A s, p : p \in 0..m - 1 => Move(s, p) = MoveRound(call, s, p)
    BY <1>3
  <2> DEFINE One(g) == [p \in 0..m |-> IF p = 0 THEN first ELSE Move(g[p - 1], p - 1)]
             Other(g) == [p \in 0..m |-> IF p = 0 THEN first ELSE MoveRound(call, g[p - 1], p - 1)]
  <2>2. /\ Loop(m, first, Move) = Holding(first, (CHOOSE g : g = One(g))[m])
        /\ MoveLoop(call, m, first) = Holding(first, (CHOOSE g : g = Other(g))[m])
    BY DEF Loop, MoveLoop
  <2>3. ASSUME NEW g PROVE One(g) = Other(g)
    <3>1. \A p \in 0..m : p # 0 => p - 1 \in 0..m - 1
      BY <1>2
    <3>2. \A p \in 0..m : p # 0 => Move(g[p - 1], p - 1) = MoveRound(call, g[p - 1], p - 1)
      BY <2>1, <3>1
    <3> HIDE DEF Move
    <3> QED
      BY <3>2
  <2> HIDE DEF One, Other, Move
  <2>4. (CHOOSE g : g = One(g)) = (CHOOSE g : g = Other(g))
    BY <2>3
  <2> QED
    BY <2>2, <2>4
<1> QED
  BY <1>1, <1>4 DEF m, first, call

(***************************************************************************)
(* Places of a stride, count of them after start, whose first size bytes   *)
(* are exchanged in pairs or are put in the opposite order: rows of an     *)
(* image, and pixels of a row.                                             *)
(***************************************************************************)
AreMirrored(t, s, d, start, count, stride, size, n) ==
    /\ t \in Buffers(n)
    /\ \A q \in 0..count - 1, k \in 1..size :
          t[start + q * stride + k] = d[start + (count - 1 - q) * stride + k]
    /\ \A k \in 1..n : k \notin start + 1..start + count * stride => t[k] = s[k]

LEMMA MirrorPlaces ==
    ASSUME NEW start \in Nat, NEW count \in Nat, NEW stride \in Nat, NEW size \in Nat, size <= stride,
           NEW y \in 0..count - 1
    PROVE  /\ start + y * stride \in Nat
           /\ start + y * stride + size <= start + count * stride
           /\ \A z \in 0..count - 1 : y < z => start + y * stride + size <= start + z * stride
<1>1. y * stride \in Nat /\ count * stride \in Nat /\ y * stride + stride <= count * stride
  BY NumberedPlaces
<1>2. ASSUME NEW z \in 0..count - 1, y < z
      PROVE  start + y * stride + size <= start + z * stride
  <2>1. z * stride \in Nat /\ y * stride + stride <= z * stride
    BY <1>2, NumberedPlaces
  <2> QED
    BY <1>1, <2>1
<1> QED
  BY <1>1, <1>2

LEMMA SwapsMirror ==
    ASSUME NEW start \in Nat, NEW count \in Nat, NEW stride \in Nat, NEW size \in Nat, size <= stride,
           NEW n \in Nat, start + count * stride <= n, NEW s \in Buffers(n),
           NEW c, c.swap = TRUE, c.bytes = size,
           \A q \in 0..count \div 2 - 1 : /\ c.to[q] = start + q * stride
                                          /\ c.from[q] = start + (count - 1 - q) * stride
    PROVE  AreMirrored(MoveLoop(c, count \div 2, s), s, s, start, count, stride, size, n)
<1> DEFINE m == count \div 2
           t == MoveLoop(c, m, s)
           Begins(q) == start + q * stride
<1>1. m \in Nat /\ 2 * m <= count /\ count <= 2 * m + 1
  OBVIOUS
<1>2. \A q \in 0..m - 1 : c.to[q] = Begins(q) /\ c.from[q] = Begins(count - 1 - q)
  OBVIOUS
<1> DEFINE end == start + count * stride
<1>3. end \in Nat /\ end <= n /\ \A q \in 0..count - 1 : Begins(q) \in Nat /\ Begins(q) + size <= end /\ start <= Begins(q)
  <2>1. end \in Nat
    OBVIOUS
  <2>2. ASSUME NEW q \in 0..count - 1 PROVE Begins(q) \in Nat /\ Begins(q) + size <= end /\ start <= Begins(q)
    <3>1. q * stride \in Nat
      OBVIOUS
    <3> QED
      BY <3>1, MirrorPlaces
  <2> QED
    BY <2>1, <2>2
<1>4. \A y, z \in 0..count - 1 : y < z => Begins(y) + size <= Begins(z)
  BY MirrorPlaces
<1> HIDE DEF m, t, Begins, end
<1>5. SwapsInside(c, m, n, size)
  <2>1. ASSUME NEW h \in 0..m - 1
        PROVE  /\ c.to[h] \in Nat /\ c.from[h] \in Nat
               /\ c.to[h] + size <= c.from[h] /\ c.from[h] + size <= n
    <3> DEFINE z == count - 1 - h
    <3>1. h \in 0..count - 1 /\ z \in 0..count - 1 /\ h < z
      BY <1>1
    <3>2. c.to[h] = Begins(h) /\ c.from[h] = Begins(z)
      BY <1>2
    <3> HIDE DEF z
    <3> QED
      BY <1>3, <1>4, <3>1, <3>2
  <2>2. ASSUME NEW g \in 0..m - 1, NEW h \in 0..m - 1, g < h
        PROVE  c.to[g] + size <= c.to[h] /\ c.from[h] + size <= c.from[g]
    <3> DEFINE y == count - 1 - g
               z == count - 1 - h
    <3>1. g \in 0..count - 1 /\ h \in 0..count - 1 /\ y \in 0..count - 1 /\ z \in 0..count - 1 /\ z < y
      BY <1>1, <2>2
    <3>2. c.to[g] = Begins(g) /\ c.from[g] = Begins(y) /\ c.to[h] = Begins(h) /\ c.from[h] = Begins(z)
      BY <1>2
    <3> HIDE DEF y, z
    <3> QED
      BY <1>4, <2>2, <3>1, <3>2
  <2> QED
    BY <2>1, <2>2 DEF SwapsInside
<1>6. IsSwapped(t, s, c, m, n, size)
  BY <1>1, <1>5, SwapDraws DEF t
<1>7. ASSUME NEW y \in 0..count - 1, NEW k \in 1..size
      PROVE  t[Begins(y) + k] = s[Begins(count - 1 - y) + k]
  <2>1. CASE y < m
    <3>1. y \in 0..m - 1
      BY <1>1, <2>1
    <3>2. t[c.to[y] + k] = s[c.from[y] + k]
      BY <1>6, <3>1 DEF IsSwapped
    <3> QED
      BY <1>2, <3>1, <3>2
  <2>2. CASE count - 1 - y < m
    <3> DEFINE h == count - 1 - y
    <3>1. h \in 0..m - 1 /\ count - 1 - h = y
      BY <1>1, <2>2
    <3> HIDE DEF h
    <3>2. t[c.from[h] + k] = s[c.to[h] + k]
      BY <1>6, <3>1 DEF IsSwapped
    <3>3. c.from[h] = Begins(y) /\ c.to[h] = Begins(h)
      BY <1>2, <3>1
    <3>4. t[Begins(y) + k] = s[Begins(h) + k]
      BY <3>2, <3>3
    <3> QED
      BY <3>4 DEF h
  <2>3. CASE m <= y /\ m <= count - 1 - y
    <3>1. y = count - 1 - y
      BY <1>1, <2>3
    <3> DEFINE j == Begins(y) + k
    <3>2. j \in 1..n
      BY <1>3
    <3>3. ASSUME NEW h \in 0..m - 1
          PROVE  j \notin c.to[h] + 1..c.to[h] + size /\ j \notin c.from[h] + 1..c.from[h] + size
      <4> DEFINE z == count - 1 - h
      <4>1. h \in 0..count - 1 /\ z \in 0..count - 1 /\ h < y /\ y < z
        BY <1>1, <2>3
      <4>2. c.to[h] = Begins(h) /\ c.from[h] = Begins(z)
        BY <1>2
      <4> HIDE DEF z
      <4>3. /\ Begins(h) + size <= Begins(y) /\ Begins(y) + size <= Begins(z)
            /\ Begins(h) \in Nat /\ Begins(y) \in Nat /\ Begins(z) \in Nat
        BY <1>3, <1>4, <4>1
      <4> QED
        BY <4>2, <4>3
    <3> HIDE DEF j
    <3>4. t[j] = s[j]
      BY <1>6, <3>2, <3>3 DEF IsSwapped
    <3> QED
      BY <3>1, <3>4 DEF j
  <2> QED
    BY <1>1, <2>1, <2>2, <2>3
<1>8. ASSUME NEW k \in 1..n, k \notin start + 1..end PROVE t[k] = s[k]
  <2>1. ASSUME NEW h \in 0..m - 1
        PROVE  k \notin c.to[h] + 1..c.to[h] + size /\ k \notin c.from[h] + 1..c.from[h] + size
    <3> DEFINE z == count - 1 - h
    <3>1. h \in 0..count - 1 /\ z \in 0..count - 1 /\ c.to[h] = Begins(h) /\ c.from[h] = Begins(z)
      BY <1>1, <1>2
    <3> HIDE DEF z
    <3>2. /\ Begins(h) \in Nat /\ Begins(h) + size <= end /\ start <= Begins(h)
          /\ Begins(z) \in Nat /\ Begins(z) + size <= end /\ start <= Begins(z)
      BY <1>3, <3>1
    <3> QED
      BY <1>3, <1>8, <3>1, <3>2
  <2> QED
    BY <1>6, <2>1 DEF IsSwapped
<1>9. t \in Buffers(n)
  BY <1>6 DEF IsSwapped
<1> QED
  BY <1>7, <1>8, <1>9 DEF AreMirrored, Begins, t, m, end

LEMMA PutsMirror ==
    ASSUME NEW start \in Nat, NEW count \in Nat, NEW stride \in Nat, NEW size \in Nat, size <= stride,
           NEW n \in Nat, start + count * stride <= n, NEW s \in Buffers(n),
           NEW l \in Nat, start + count * stride <= l, NEW d \in Buffers(l),
           NEW c, c.swap = FALSE, c.bytes = size, c.colour = "none", c.inPlace = FALSE, c.data = d,
           \A q \in 0..count - 1 : /\ c.to[q] = start + (count - 1 - q) * stride
                                   /\ c.from[q] = start + q * stride
    PROVE  AreMirrored(MoveLoop(c, count, s), s, d, start, count, stride, size, n)
<1> DEFINE t == MoveLoop(c, count, s)
           Begins(q) == start + q * stride
           end == start + count * stride
<1>1. \A q \in 0..count - 1 : c.to[q] = Begins(count - 1 - q) /\ c.from[q] = Begins(q)
  OBVIOUS
<1>2. /\ end \in Nat /\ end <= n /\ end <= l
      /\ \A q \in 0..count - 1 : Begins(q) \in Nat /\ Begins(q) + size <= end /\ start <= Begins(q)
  <2>1. end \in Nat
    OBVIOUS
  <2>2. ASSUME NEW q \in 0..count - 1 PROVE Begins(q) \in Nat /\ Begins(q) + size <= end /\ start <= Begins(q)
    <3>1. q * stride \in Nat
      OBVIOUS
    <3> QED
      BY <3>1, MirrorPlaces
  <2> QED
    BY <2>1, <2>2
<1>3. \A y, z \in 0..count - 1 : y < z => Begins(y) + size <= Begins(z)
  BY MirrorPlaces
<1> HIDE DEF t, Begins, end
<1>4. PutsInside(c, count, n, l, size, size)
  <2>1. ASSUME NEW h \in 0..count - 1
        PROVE  /\ c.to[h] \in Nat /\ c.to[h] + size <= n
               /\ c.from[h] \in Nat /\ c.from[h] + size <= l
    <3> DEFINE z == count - 1 - h
    <3>1. z \in 0..count - 1 /\ c.to[h] = Begins(z) /\ c.from[h] = Begins(h)
      BY <1>1
    <3> HIDE DEF z
    <3> QED
      BY <1>2, <3>1
  <2>2. ASSUME NEW g \in 0..count - 1, NEW h \in 0..count - 1, g < h
        PROVE  c.to[h] + size <= c.to[g]
    <3> DEFINE y == count - 1 - g
               z == count - 1 - h
    <3>1. y \in 0..count - 1 /\ z \in 0..count - 1 /\ z < y /\ c.to[g] = Begins(y) /\ c.to[h] = Begins(z)
      BY <1>1, <2>2
    <3> HIDE DEF y, z
    <3> QED
      BY <1>3, <3>1
  <2> QED
    BY <2>1, <2>2 DEF PutsInside
<1>5. IsPut(t, s, d, c, count, n, size, size)
  <2>1. IsColouring(c.colour, size, size)
    BY DEF IsColouring
  <2> QED
    BY <1>4, <2>1, PutDraws DEF t
<1>6. ASSUME NEW y \in 0..count - 1, NEW k \in 1..size
      PROVE  t[Begins(y) + k] = d[Begins(count - 1 - y) + k]
  <2> DEFINE h == count - 1 - y
  <2>1. h \in 0..count - 1 /\ count - 1 - h = y
    OBVIOUS
  <2> HIDE DEF h
  <2>2. t[c.to[h] + k] = Painted(c.colour, Piece(d, c.from[h], size))[k]
    BY <1>5, <2>1 DEF IsPut
  <2>3. c.to[h] = Begins(y) /\ c.from[h] = Begins(h)
    BY <1>1, <2>1
  <2>4. Painted(c.colour, Piece(d, c.from[h], size))[k] = d[Begins(h) + k]
    BY <2>3 DEF Painted, Piece
  <2>5. t[Begins(y) + k] = d[Begins(h) + k]
    BY <2>2, <2>3, <2>4
  <2> QED
    BY <2>5 DEF h
<1>7. ASSUME NEW k \in 1..n, k \notin start + 1..end PROVE t[k] = s[k]
  <2>1. ASSUME NEW h \in 0..count - 1 PROVE k \notin c.to[h] + 1..c.to[h] + size
    <3> DEFINE z == count - 1 - h
    <3>1. z \in 0..count - 1 /\ c.to[h] = Begins(z)
      BY <1>1
    <3> HIDE DEF z
    <3>2. Begins(z) \in Nat /\ Begins(z) + size <= end /\ start <= Begins(z)
      BY <1>2, <3>1
    <3> QED
      BY <1>2, <1>7, <3>1, <3>2
  <2> QED
    BY <1>5, <2>1 DEF IsPut
<1>8. t \in Buffers(n)
  BY <1>5 DEF IsPut
<1> QED
  BY <1>6, <1>7, <1>8 DEF AreMirrored, Begins, t, end

LEMMA SwapRowsDraws ==
    ASSUME NEW i, IsDrawn(i), HasBytes(i)
    PROVE  AreRowsMirrored(MoveLoop(SwapRowsCall(i), i.height \div 2, i.data), i.data,
                           i.height, AlignedScanline(i), Scanline(i), Len(i.data))
<1> DEFINE line == AlignedScanline(i)
           height == i.height
           size == Scanline(i)
           s == i.data
           n == Len(i.data)
           c == SwapRowsCall(i)
           zero == 0
<1>1. /\ line \in Nat /\ height \in Nat /\ size \in Nat /\ size <= line
      /\ n \in Nat /\ s \in Buffers(n) /\ height * line <= n /\ height * line \in Nat
  BY DrawnSizes DEF Scanline, HasBytes
<1>2. /\ c.swap = TRUE /\ c.bytes = size
      /\ \A h \in 0..height \div 2 - 1 : c.to[h] = h * line /\ c.from[h] = (height - 1 - h) * line
  BY DEF SwapRowsCall, SwapCall
<1>3. zero \in Nat /\ \A k \in Int : zero + k = k
  OBVIOUS
<1> HIDE DEF line, height, size, s, n, c, zero
<1>4. /\ zero + height * line <= n
      /\ \A h \in 0..height \div 2 - 1 : /\ c.to[h] = zero + h * line
                                         /\ c.from[h] = zero + (height - 1 - h) * line
  <2>1. \A h \in 0..height \div 2 - 1 : h * line \in Int /\ (height - 1 - h) * line \in Int
    BY <1>1
  <2> QED
    BY <1>1, <1>2, <1>3, <2>1
<1>5. AreMirrored(MoveLoop(c, height \div 2, s), s, s, zero, height, line, size, n)
  BY <1>1, <1>2, <1>3, <1>4, SwapsMirror
<1>6. \A y \in 0..height - 1 : y * line \in Int /\ (height - 1 - y) * line \in Int
  BY <1>1
<1> QED
  BY <1>3, <1>5, <1>6 DEF AreMirrored, AreRowsMirrored, c, s, n, line, height, size

\* To another image.
PutRowsCall(src) ==
    CopyCall([h \in 0..src.height - 1 |-> (src.height - 1 - h) * AlignedScanline(src)],
             src.data, [h \in 0..src.height - 1 |-> h * AlignedScanline(src)], Scanline(src))

LEMMA PutRowsLoops ==
    ASSUME NEW src, IsDrawn(src), NEW dst
    PROVE  MirrorToOther(src, dst, "UpsideDown")
             = [CreateSame(dst, src) EXCEPT !.data = MoveLoop(PutRowsCall(src), src.height, @)]
<1> DEFINE line == AlignedScanline(src)
           height == src.height
           size == Scanline(src)
           data == src.data
           new == CreateSame(dst, src)
           first == new.data
           call == PutRowsCall(src)
           to == [h \in 0..height - 1 |-> (height - 1 - h) * line]
           from == [h \in 0..height - 1 |-> h * line]
           Move(s, h) == CopyBytes(s, (height - 1 - h) * line, data, h * line, size)
<1>1. MirrorToOther(src, dst, "UpsideDown") = [new EXCEPT !.data = Loop(height, first, Move)]
  BY DEF MirrorToOther
<1>2. height \in Nat /\ line \in Nat /\ size \in Nat /\ call = CopyCall(to, data, from, size)
  BY DrawnSizes DEF PutRowsCall, Scanline
<1> HIDE DEF line, height, size, data, new, first, call
<1>3. ASSUME NEW s, NEW h \in 0..height - 1 PROVE Move(s, h) = MoveRound(call, s, h)
  <2>1. to[h] = (height - 1 - h) * line /\ from[h] = h * line /\ height - 1 - h \in Nat /\ h \in Nat
    BY <1>2
  <2>2. to[h] \in Nat /\ from[h] \in Nat
    BY <1>2, <2>1
  <2>3. Move(s, h) = CopyBytes(s, to[h], data, from[h], size)
    BY <2>1
  <2> HIDE DEF to, from, Move
  <2> QED
    BY <1>2, <2>2, <2>3, CopyCallRound
<1>4. Loop(height, first, Move) = MoveLoop(call, height, first)
  <2>1. \A s, p : p \in 0..height - 1 => Move(s, p) = MoveRound(call, s, p)
    BY <1>3
  <2> DEFINE One(g) == [p \in 0..height |-> IF p = 0 THEN first ELSE Move(g[p - 1], p - 1)]
             Other(g) == [p \in 0..height |-> IF p = 0 THEN first ELSE MoveRound(call, g[p - 1], p - 1)]
  <2>2. /\ Loop(height, first, Move) = Holding(first, (CHOOSE g : g = One(g))[height])
        /\ MoveLoop(call, height, first) = Holding(first, (CHOOSE g : g = Other(g))[height])
    BY DEF Loop, MoveLoop
  <2>3. ASSUME NEW g PROVE One(g) = Other(g)
    <3>1. \A p \in 0..height : p # 0 => p - 1 \in 0..height - 1
      BY <1>2
    <3>2. \A p \in 0..height : p # 0 => Move(g[p - 1], p - 1) = MoveRound(call, g[p - 1], p - 1)
      BY <2>1, <3>1
    <3> HIDE DEF Move
    <3> QED
      BY <3>2
  <2> HIDE DEF One, Other, Move
  <2>4. (CHOOSE g : g = One(g)) = (CHOOSE g : g = Other(g))
    BY <2>3
  <2> QED
    BY <2>2, <2>4
<1> QED
  BY <1>1, <1>4 DEF height, first, call, new

LEMMA PutRowsDraws ==
    ASSUME NEW src, IsDrawn(src), HasBytes(src),
           NEW n \in Nat, src.height * AlignedScanline(src) <= n, NEW s \in Buffers(n)
    PROVE  AreRowsMirrored(MoveLoop(PutRowsCall(src), src.height, s), src.data,
                           src.height, AlignedScanline(src), Scanline(src), n)
<1> DEFINE line == AlignedScanline(src)
           height == src.height
           size == Scanline(src)
           d == src.data
           l == Len(src.data)
           c == PutRowsCall(src)
           zero == 0
<1>1. /\ line \in Nat /\ height \in Nat /\ size \in Nat /\ size <= line
      /\ l \in Nat /\ d \in Buffers(l) /\ height * line <= l /\ height * line <= n
      /\ height * line \in Nat
  BY DrawnSizes DEF Scanline, HasBytes
<1>2. /\ c.swap = FALSE /\ c.bytes = size /\ c.colour = "none" /\ c.inPlace = FALSE /\ c.data = d
      /\ \A h \in 0..height - 1 : c.to[h] = (height - 1 - h) * line /\ c.from[h] = h * line
  BY DEF PutRowsCall, CopyCall
<1>3. zero \in Nat /\ \A k \in Int : zero + k = k
  OBVIOUS
<1> HIDE DEF line, height, size, d, l, c, zero
<1>4. /\ zero + height * line <= n /\ zero + height * line <= l
      /\ \A h \in 0..height - 1 : /\ c.to[h] = zero + (height - 1 - h) * line
                                  /\ c.from[h] = zero + h * line
  <2>1. \A h \in 0..height - 1 : h * line \in Int /\ (height - 1 - h) * line \in Int
    BY <1>1
  <2> QED
    BY <1>1, <1>2, <1>3, <2>1
<1>5. AreMirrored(MoveLoop(c, height, s), s, d, zero, height, line, size, n)
  BY <1>1, <1>2, <1>3, <1>4, PutsMirror
<1>6. \A y \in 0..height - 1 : y * line \in Int /\ (height - 1 - y) * line \in Int
  BY <1>1
<1> QED
  BY <1>3, <1>5, <1>6 DEF AreMirrored, AreRowsMirrored, c, d, line, height, size

-----------------------------------------------------------------------------
(* Mirroring left to right: the pixels of every row change places.         *)

\* Row h of v is row h of d mirrored, and the rest of v is that of u.
IsRowMirrored(v, u, d, h, line, w, b, n) ==
    /\ v \in Buffers(n)
    /\ \A x \in 0..w - 1, k \in 1..b : v[h * line + x * b + k] = d[h * line + (w - 1 - x) * b + k]
    /\ \A k \in 1..n : k \notin h * line + 1..h * line + w * b => v[k] = u[k]

AreAllMirrored(t, d, height, line, w, b, n) ==
    /\ t \in Buffers(n)
    /\ \A h \in 0..height - 1, x \in 0..w - 1, k \in 1..b :
          t[h * line + x * b + k] = d[h * line + (w - 1 - x) * b + k]

\* A byte of a row is a byte of a pixel.
InPixel(j, start, w, b) == \E x \in 0..w - 1, k \in 1..b : j = start + x * b + k

LEMMA ByteOfRow ==
    ASSUME NEW w \in Nat, NEW b \in Nat \ {0}, NEW start \in Nat, NEW j \in start + 1..start + w * b
    PROVE  InPixel(j, start, w, b)
<1> DEFINE p == j - start - 1
           wb == w * b
<1>1. wb \in Nat
  OBVIOUS
<1> HIDE DEF wb
<1>2. p \in 0..wb - 1 /\ j = start + p + 1
  BY <1>1 DEF wb
<1>3. b * w = wb
  BY DEF wb
<1>4. p \in 0..b * w - 1
  BY <1>2, <1>3
<1> HIDE DEF p
<1>5. p % b \in 0..b - 1 /\ p \div b \in 0..w - 1 /\ p = (p \div b) * b + (p % b)
  BY <1>4, PixelOfNumber
<1> DEFINE x == p \div b
           k == (p % b) + 1
<1>6. x \in 0..w - 1 /\ k \in 1..b /\ p = x * b + (k - 1)
  BY <1>5
<1> HIDE DEF x, k
<1>7. x * b \in Int
  BY <1>6
<1>8. j = start + x * b + k
  BY <1>2, <1>6, <1>7
<1> QED
  BY <1>6, <1>8 DEF InPixel

\* Loops over the rows, in place or from another buffer.
LEMMA MirroredRows ==
    ASSUME NEW c, NEW inPlace \in BOOLEAN, NEW height \in Nat, NEW line \in Nat, NEW w \in Nat \ {0},
           NEW b \in Nat \ {0}, w * b <= line, NEW n \in Nat, height * line <= n,
           NEW s \in Buffers(n), NEW other,
           \A h \in 0..height - 1 : \A u \in Buffers(n) :
              IsRowMirrored(RowsRound(c, u, h), u, IF inPlace THEN u ELSE other, h, line, w, b, n)
    PROVE  AreAllMirrored(RowsLoop(c, height, s), IF inPlace THEN s ELSE other,
                          height, line, w, b, n)
<1> DEFINE size == w * b
           Row(h) == h * line + 1..h * line + size
           written == [h \in 0..height - 1 |-> Row(h)]
           value == [h \in 0..height - 1 |-> RowsRound(c, s, h)]
           Data(u) == IF inPlace THEN u ELSE other
           t == RowsLoop(c, height, s)
<1>1. size \in Nat /\ size <= line
  OBVIOUS
<1>2. ASSUME NEW h \in 0..height - 1
      PROVE  h * line \in Nat /\ h * line + size <= n
  <2>1. h * line \in Nat /\ h * line + line <= n
    BY NumberedInside
  <2> HIDE DEF size
  <2> QED
    BY <1>1, <2>1
<1>3. Apart(written, height)
  <2> SUFFICES ASSUME NEW g \in 0..height - 1, NEW h \in 0..height - 1, g < h, NEW k,
                      k \in Row(g), k \in Row(h)
               PROVE  FALSE
    BY DEF Apart
  <2> HIDE DEF size
  <2>1. g \in Nat /\ h \in Nat
    OBVIOUS
  <2>2. g * line + line <= h * line /\ g * line \in Nat /\ h * line \in Nat
    BY <2>1, NumberedPlaces
  <2> QED
    BY <1>1, <2>2
<1>4. ASSUME NEW h \in 0..height - 1, NEW u \in Buffers(n), NEW x \in 0..w - 1, NEW k \in 1..b
      PROVE  RowsRound(c, u, h)[h * line + x * b + k] = Data(u)[h * line + (w - 1 - x) * b + k]
  BY DEF IsRowMirrored
<1>5. ASSUME NEW h \in 0..height - 1, NEW x \in 0..w - 1, NEW k \in 1..b
      PROVE  h * line + x * b + k \in 1..n /\ h * line + x * b + k \in Row(h)
  <2>1. x * b \in Nat /\ x * b + b <= size
    <3>1. w \in Nat /\ b \in Nat /\ w * b <= size /\ size \in Nat
      BY <1>1
    <3> HIDE DEF size
    <3> QED
      BY <3>1, NumberedInside
  <2> HIDE DEF size
  <2> QED
    BY <1>1, <1>2, <2>1
<1>6. ASSUME NEW h \in 0..height - 1, NEW u \in Buffers(n), Untouched(u, s, written, n, h),
             NEW j \in Row(h)
      PROVE  u[j] = s[j]
  <2>1. j \in 1..n
    <3> HIDE DEF size
    <3> QED
      BY <1>1, <1>2
  <2>2. ASSUME NEW g \in 0..h - 1 PROVE j \notin written[g]
    <3>1. g \in 0..height - 1 /\ g # h /\ j \in written[h]
      OBVIOUS
    <3> HIDE DEF written
    <3> QED
      BY <1>3, <3>1 DEF Apart
  <2> HIDE DEF written
  <2> QED
    BY <1>6, <2>1, <2>2 DEF Untouched
<1>7. ASSUME NEW h \in 0..height - 1, NEW u \in Buffers(n)
      PROVE  RoundWrites(RowsRound(c, u, h), u, s, written, value, n, h)
  <2> DEFINE v == RowsRound(c, u, h)
  <2>1. v \in Buffers(n) /\ \A k \in 1..n : k \notin Row(h) => v[k] = u[k]
    BY DEF IsRowMirrored
  <2>2. ASSUME Untouched(u, s, written, n, h), NEW j \in Row(h)
        PROVE  v[j] = RowsRound(c, s, h)[j]
    <3>1. PICK x \in 0..w - 1, k \in 1..b : j = h * line + x * b + k
      <4> DEFINE start == h * line
      <4>1. w \in Nat /\ b \in Nat \ {0} /\ start \in Nat /\ j \in start + 1..start + w * b
        BY <1>2, <2>2
      <4> HIDE DEF start
      <4>2. InPixel(j, start, w, b)
        BY <4>1, ByteOfRow
      <4> QED
        BY <4>2 DEF start, InPixel
    <3> DEFINE z == w - 1 - x
               i == h * line + z * b + k
    <3>2. z \in 0..w - 1
      OBVIOUS
    <3> HIDE DEF z
    <3>3. i \in Row(h)
      BY <1>5, <3>2
    <3>4. u[i] = s[i]
      <4> HIDE DEF i, Row, written
      <4> QED
        BY <1>6, <2>2, <3>3
    <3>5. v[j] = Data(u)[i] /\ RowsRound(c, s, h)[j] = Data(s)[i]
      BY <1>4, <3>1 DEF z
    <3> HIDE DEF i, v
    <3> QED
      BY <3>4, <3>5
  <2>3. written[h] = Row(h) /\ value[h] = RowsRound(c, s, h)
    OBVIOUS
  <2> HIDE DEF v, Row, written, value
  <2>4. Untouched(u, s, written, n, h) => Writes(v, u, written, value, n, h)
    BY <2>1, <2>2, <2>3 DEF Writes
  <2>5. RoundWrites(v, u, s, written, value, n, h)
    BY <2>1, <2>4 DEF RoundWrites
  <2> QED
    BY <2>5 DEF v
<1>8. t \in Buffers(n) /\ Wrote(t, s, written, value, n, height)
  <2>1. IsDrawing(RowsLoop(c, height, s), s, written, value, n, height)
    <3> HIDE DEF written, value
    <3> QED
      BY <1>3, <1>7, RowsRun
  <2> QED
    BY <2>1 DEF IsDrawing
<1> HIDE DEF t
<1>9. ASSUME NEW h \in 0..height - 1, NEW x \in 0..w - 1, NEW k \in 1..b
      PROVE  t[h * line + x * b + k] = Data(s)[h * line + (w - 1 - x) * b + k]
  <2> DEFINE j == h * line + x * b + k
  <2>1. j \in 1..n /\ j \in written[h] /\ value[h] = RowsRound(c, s, h)
    BY <1>5
  <2>2. RowsRound(c, s, h)[j] = Data(s)[h * line + (w - 1 - x) * b + k]
    BY <1>4
  <2>3. t[j] = value[h][j]
    <3> HIDE DEF j, written, value
    <3> QED
      BY <1>8, <2>1 DEF Wrote
  <2> QED
    BY <2>1, <2>2, <2>3
<1> QED
  BY <1>8, <1>9 DEF AreAllMirrored, t

SwapPixelsCall(i) ==
    LET line == AlignedScanline(i)
    IN  [count |-> i.width \div 2,
         row |-> [h \in 0..i.height - 1 |->
                    SwapCall([x \in 0..i.width \div 2 - 1 |-> h * line + x * i.depth],
                             [x \in 0..i.width \div 2 - 1 |-> h * line + (i.width - 1 - x) * i.depth],
                             i.depth)]]

LEMMA SwapPixelsLoops ==
    ASSUME NEW i, IsDrawn(i)
    PROVE  MirrorSame(i, "LeftToRight")
             = [i EXCEPT !.data = RowsLoop(SwapPixelsCall(i), i.height, @)]
<1> DEFINE line == AlignedScanline(i)
           w == i.width
           height == i.height
           b == i.depth
           m == w \div 2
           first == i.data
           call == SwapPixelsCall(i)
           Pixels(h, s, x) == SwapBytes(s, h * line + x * b, h * line + (w - 1 - x) * b, b)
           Line(s, h) == Loop(m, s, LAMBDA t, x : Pixels(h, t, x))
<1>1. MirrorSame(i, "LeftToRight") = [i EXCEPT !.data = Loop(height, first, Line)]
  BY DEF MirrorSame
<1>2. m \in Nat /\ height \in Nat
  BY DrawnSizes
<1>3. /\ call.count = m
      /\ \A h \in 0..height - 1 :
            call.row[h] = SwapCall([x \in 0..m - 1 |-> h * line + x * b],
                                   [x \in 0..m - 1 |-> h * line + (w - 1 - x) * b], b)
  BY DEF SwapPixelsCall
<1> HIDE DEF line, w, height, b, m, first, call
<1>4. ASSUME NEW h \in 0..height - 1, NEW s, NEW x \in 0..m - 1
      PROVE  Pixels(h, s, x) = MoveRound(call.row[h], s, x)
  <2> DEFINE row == call.row[h]
  <2>1. /\ row.swap = TRUE /\ row.bytes = b
        /\ row.to[x] = h * line + x * b /\ row.from[x] = h * line + (w - 1 - x) * b
    <3> DEFINE to == [q \in 0..m - 1 |-> h * line + q * b]
               from == [q \in 0..m - 1 |-> h * line + (w - 1 - q) * b]
    <3>1. row = SwapCall(to, from, b)
      BY <1>3
    <3> HIDE DEF row
    <3>2. row.swap = TRUE /\ row.bytes = b /\ row.to = to /\ row.from = from
      BY <3>1 DEF SwapCall
    <3> QED
      BY <3>2
  <2> HIDE DEF row
  <2>2. Pixels(h, s, x) = MoveRound(row, s, x)
    BY <2>1 DEF MoveRound, SwapRound
  <2> QED
    BY <2>2 DEF row
<1>5. ASSUME NEW h \in 0..height - 1, NEW s PROVE Line(s, h) = RowsRound(call, s, h)
  <2> DEFINE row == call.row[h]
             One(g) == [p \in 0..m |-> IF p = 0 THEN s ELSE Pixels(h, g[p - 1], p - 1)]
             Other(g) == [p \in 0..m |-> IF p = 0 THEN s ELSE MoveRound(row, g[p - 1], p - 1)]
  <2>1. RowsRound(call, s, h) = MoveLoop(row, m, s)
    BY <1>3 DEF RowsRound
  <2>2. \A t, x : x \in 0..m - 1 => Pixels(h, t, x) = MoveRound(row, t, x)
    BY <1>4
  <2> HIDE DEF row
  <2>3. /\ Line(s, h) = Holding(s, (CHOOSE g : g = One(g))[m])
        /\ MoveLoop(row, m, s) = Holding(s, (CHOOSE g : g = Other(g))[m])
    BY DEF Loop, MoveLoop
  <2>4. ASSUME NEW g PROVE One(g) = Other(g)
    <3>1. \A p \in 0..m : p # 0 => p - 1 \in 0..m - 1
      BY <1>2
    <3>2. \A p \in 0..m : p # 0 => Pixels(h, g[p - 1], p - 1) = MoveRound(row, g[p - 1], p - 1)
      BY <2>2, <3>1
    <3> HIDE DEF Pixels
    <3> QED
      BY <3>2
  <2> HIDE DEF One, Other, Line
  <2>5. (CHOOSE g : g = One(g)) = (CHOOSE g : g = Other(g))
    BY <2>4
  <2> QED
    BY <2>1, <2>3, <2>5
<1>6. Loop(height, first, Line) = RowsLoop(call, height, first)
  <2>1. \A s, p : p \in 0..height - 1 => Line(s, p) = RowsRound(call, s, p)
    BY <1>5
  <2> DEFINE One(g) == [p \in 0..height |-> IF p = 0 THEN first ELSE Line(g[p - 1], p - 1)]
             Other(g) == [p \in 0..height |-> IF p = 0 THEN first ELSE RowsRound(call, g[p - 1], p - 1)]
  <2>2. /\ Loop(height, first, Line) = Holding(first, (CHOOSE g : g = One(g))[height])
        /\ RowsLoop(call, height, first) = Holding(first, (CHOOSE g : g = Other(g))[height])
    BY DEF Loop, RowsLoop
  <2>3. ASSUME NEW g PROVE One(g) = Other(g)
    <3>1. \A p \in 0..height : p # 0 => p - 1 \in 0..height - 1
      BY <1>2
    <3> HIDE DEF Line
    <3>2. \A p \in 0..height : p # 0 => Line(g[p - 1], p - 1) = RowsRound(call, g[p - 1], p - 1)
      BY <2>1, <3>1
    <3> QED
      BY <3>2
  <2> HIDE DEF One, Other, Line
  <2>4. (CHOOSE g : g = One(g)) = (CHOOSE g : g = Other(g))
    BY <2>3
  <2> QED
    BY <2>2, <2>4
<1> QED
  BY <1>1, <1>6 DEF height, first, call

\* Of a row, too, the pixels are places of a stride.
LEMMA MirroredRow ==
    ASSUME NEW v, NEW u, NEW d, NEW h, NEW line, NEW w, NEW b, NEW n,
           AreMirrored(v, u, d, h * line, w, b, b, n)
    PROVE  IsRowMirrored(v, u, d, h, line, w, b, n)
  BY DEF AreMirrored, IsRowMirrored

LEMMA SwapPixelsDraws ==
    ASSUME NEW i, IsDrawn(i), HasBytes(i)
    PROVE  AreAllMirrored(RowsLoop(SwapPixelsCall(i), i.height, i.data), i.data,
                          i.height, AlignedScanline(i), i.width, i.depth, Len(i.data))
<1> DEFINE line == AlignedScanline(i)
           height == i.height
           w == i.width
           b == i.depth
           s == i.data
           n == Len(i.data)
           c == SwapPixelsCall(i)
           inPlace == TRUE
<1>1. /\ line \in Nat /\ height \in Nat /\ w \in Nat \ {0} /\ b \in Nat \ {0} /\ w * b <= line
      /\ n \in Nat /\ s \in Buffers(n) /\ height * line <= n /\ w * b \in Nat
  BY DrawnSizes DEF HasBytes
<1>2. /\ c.count = w \div 2
      /\ \A h \in 0..height - 1 :
            c.row[h] = SwapCall([x \in 0..w \div 2 - 1 |-> h * line + x * b],
                                [x \in 0..w \div 2 - 1 |-> h * line + (w - 1 - x) * b], b)
  BY DEF SwapPixelsCall
<1>3. inPlace \in BOOLEAN /\ inPlace
  OBVIOUS
<1> HIDE DEF line, height, w, b, s, n, c, inPlace
<1>4. ASSUME NEW h \in 0..height - 1, NEW u \in Buffers(n)
      PROVE  IsRowMirrored(RowsRound(c, u, h), u, IF inPlace THEN u ELSE s, h, line, w, b, n)
  <2> DEFINE row == c.row[h]
             start == h * line
             to == [x \in 0..w \div 2 - 1 |-> h * line + x * b]
             from == [x \in 0..w \div 2 - 1 |-> h * line + (w - 1 - x) * b]
  <2>1. row = SwapCall(to, from, b)
    BY <1>2
  <2>2. RowsRound(c, u, h) = MoveLoop(row, w \div 2, u)
    BY <1>2 DEF RowsRound
  <2> HIDE DEF row
  <2>3. row.swap = TRUE /\ row.bytes = b /\ row.to = to /\ row.from = from
    BY <2>1 DEF SwapCall
  <2>4. \A x \in 0..w \div 2 - 1 : /\ row.to[x] = start + x * b
                                   /\ row.from[x] = start + (w - 1 - x) * b
    BY <2>3
  <2>5. start \in Nat /\ start + w * b <= n
    <3>1. start \in Nat /\ start + line <= n
      BY <1>1, NumberedInside
    <3> HIDE DEF start
    <3> QED
      BY <1>1, <3>1
  <2> HIDE DEF start, to, from
  <2>6. AreMirrored(MoveLoop(row, w \div 2, u), u, u, start, w, b, b, n)
    <3>1. b \in Nat /\ b <= b /\ w \in Nat
      BY <1>1
    <3> QED
      BY <1>1, <2>3, <2>4, <2>5, <3>1, SwapsMirror
  <2>7. IsRowMirrored(MoveLoop(row, w \div 2, u), u, u, h, line, w, b, n)
    BY <2>6, MirroredRow DEF start
  <2> QED
    BY <1>3, <2>2, <2>7
<1>5. AreAllMirrored(RowsLoop(c, height, s), IF inPlace THEN s ELSE s, height, line, w, b, n)
  BY <1>1, <1>3, <1>4, MirroredRows
<1> QED
  BY <1>5 DEF line, height, w, b, s, n, c

\* To another image.
PutPixelsCall(src) ==
    LET line == AlignedScanline(src)
    IN  [count |-> src.width,
         row |-> [h \in 0..src.height - 1 |->
                    CopyCall([x \in 0..src.width - 1 |-> h * line + (src.width - 1 - x) * src.depth],
                             src.data, [x \in 0..src.width - 1 |-> h * line + x * src.depth],
                             src.depth)]]

LEMMA PutPixelsLoops ==
    ASSUME NEW src, IsDrawn(src), NEW dst
    PROVE  MirrorToOther(src, dst, "LeftToRight")
             = [CreateSame(dst, src) EXCEPT !.data = RowsLoop(PutPixelsCall(src), src.height, @)]
<1> DEFINE line == AlignedScanline(src)
           w == src.width
           height == src.height
           b == src.depth
           data == src.data
           new == CreateSame(dst, src)
           first == new.data
           call == PutPixelsCall(src)
           Pixels(h, s, x) == CopyBytes(s, h * line + (w - 1 - x) * b, data, h * line + x * b, b)
           Line(s, h) == Loop(w, s, LAMBDA t, x : Pixels(h, t, x))
<1>1. MirrorToOther(src, dst, "LeftToRight") = [new EXCEPT !.data = Loop(height, first, Line)]
  BY DEF MirrorToOther
<1>2. w \in Nat /\ height \in Nat /\ line \in Nat /\ b \in Nat
  BY DrawnSizes
<1>3. /\ call.count = w
      /\ \A h \in 0..height - 1 :
            call.row[h] = CopyCall([x \in 0..w - 1 |-> h * line + (w - 1 - x) * b], data,
                                   [x \in 0..w - 1 |-> h * line + x * b], b)
  BY DEF PutPixelsCall
<1> HIDE DEF line, w, height, b, data, new, first, call
<1>4. ASSUME NEW h \in 0..height - 1, NEW s, NEW x \in 0..w - 1
      PROVE  Pixels(h, s, x) = MoveRound(call.row[h], s, x)
  <2> DEFINE to == [q \in 0..w - 1 |-> h * line + (w - 1 - q) * b]
             from == [q \in 0..w - 1 |-> h * line + q * b]
  <2>1. call.row[h] = CopyCall(to, data, from, b)
    BY <1>3
  <2>2. to[x] \in Nat /\ from[x] \in Nat
    <3>1. h * line \in Nat /\ (w - 1 - x) * b \in Nat /\ x * b \in Nat
      <4>1. h \in Nat /\ w - 1 - x \in Nat /\ x \in Nat
        BY <1>2
      <4> QED
        BY <1>2, <4>1
    <3> QED
      BY <3>1
  <2>3. Pixels(h, s, x) = CopyBytes(s, to[x], data, from[x], b)
    OBVIOUS
  <2> HIDE DEF to, from, Pixels
  <2>4. MoveRound(CopyCall(to, data, from, b), s, x) = CopyBytes(s, to[x], data, from[x], b)
    BY <1>2, <2>2, CopyCallRound
  <2> QED
    BY <2>1, <2>3, <2>4
<1>5. ASSUME NEW h \in 0..height - 1, NEW s PROVE Line(s, h) = RowsRound(call, s, h)
  <2> DEFINE row == call.row[h]
             One(g) == [p \in 0..w |-> IF p = 0 THEN s ELSE Pixels(h, g[p - 1], p - 1)]
             Other(g) == [p \in 0..w |-> IF p = 0 THEN s ELSE MoveRound(row, g[p - 1], p - 1)]
  <2>1. RowsRound(call, s, h) = MoveLoop(row, w, s)
    BY <1>3 DEF RowsRound
  <2>2. \A t, x : x \in 0..w - 1 => Pixels(h, t, x) = MoveRound(row, t, x)
    BY <1>4
  <2> HIDE DEF row
  <2>3. /\ Line(s, h) = Holding(s, (CHOOSE g : g = One(g))[w])
        /\ MoveLoop(row, w, s) = Holding(s, (CHOOSE g : g = Other(g))[w])
    BY DEF Loop, MoveLoop
  <2>4. ASSUME NEW g PROVE One(g) = Other(g)
    <3>1. \A p \in 0..w : p # 0 => p - 1 \in 0..w - 1
      BY <1>2
    <3>2. \A p \in 0..w : p # 0 => Pixels(h, g[p - 1], p - 1) = MoveRound(row, g[p - 1], p - 1)
      BY <2>2, <3>1
    <3> HIDE DEF Pixels
    <3> QED
      BY <3>2
  <2> HIDE DEF One, Other, Line
  <2>5. (CHOOSE g : g = One(g)) = (CHOOSE g : g = Other(g))
    BY <2>4
  <2> QED
    BY <2>1, <2>3, <2>5
<1>6. Loop(height, first, Line) = RowsLoop(call, height, first)
  <2>1. \A s, p : p \in 0..height - 1 => Line(s, p) = RowsRound(call, s, p)
    BY <1>5
  <2> DEFINE One(g) == [p \in 0..height |-> IF p = 0 THEN first ELSE Line(g[p - 1], p - 1)]
             Other(g) == [p \in 0..height |-> IF p = 0 THEN first ELSE RowsRound(call, g[p - 1], p - 1)]
  <2>2. /\ Loop(height, first, Line) = Holding(first, (CHOOSE g : g = One(g))[height])
        /\ RowsLoop(call, height, first) = Holding(first, (CHOOSE g : g = Other(g))[height])
    BY DEF Loop, RowsLoop
  <2>3. ASSUME NEW g PROVE One(g) = Other(g)
    <3>1. \A p \in 0..height : p # 0 => p - 1 \in 0..height - 1
      BY <1>2
    <3> HIDE DEF Line
    <3>2. \A p \in 0..height : p # 0 => Line(g[p - 1], p - 1) = RowsRound(call, g[p - 1], p - 1)
      BY <2>1, <3>1
    <3> QED
      BY <3>2
  <2> HIDE DEF One, Other, Line
  <2>4. (CHOOSE g : g = One(g)) = (CHOOSE g : g = Other(g))
    BY <2>3
  <2> QED
    BY <2>2, <2>4
<1> QED
  BY <1>1, <1>6 DEF height, first, call, new

LEMMA PutPixelsDraws ==
    ASSUME NEW src, IsDrawn(src), HasBytes(src),
           NEW n \in Nat, src.height * AlignedScanline(src) <= n, NEW s \in Buffers(n)
    PROVE  AreAllMirrored(RowsLoop(PutPixelsCall(src), src.height, s), src.data,
                          src.height, AlignedScanline(src), src.width, src.depth, n)
<1> DEFINE line == AlignedScanline(src)
           height == src.height
           w == src.width
           b == src.depth
           d == src.data
           l == Len(src.data)
           c == PutPixelsCall(src)
           inPlace == FALSE
<1>1. /\ line \in Nat /\ height \in Nat /\ w \in Nat \ {0} /\ b \in Nat \ {0} /\ w * b <= line
      /\ l \in Nat /\ d \in Buffers(l) /\ height * line <= l /\ height * line <= n /\ w * b \in Nat
  BY DrawnSizes DEF HasBytes
<1>2. /\ c.count = w
      /\ \A h \in 0..height - 1 :
            c.row[h] = CopyCall([x \in 0..w - 1 |-> h * line + (w - 1 - x) * b], d,
                                [x \in 0..w - 1 |-> h * line + x * b], b)
  BY DEF PutPixelsCall
<1>3. inPlace \in BOOLEAN /\ ~inPlace
  OBVIOUS
<1> HIDE DEF line, height, w, b, d, l, c, inPlace
<1>4. ASSUME NEW h \in 0..height - 1, NEW u \in Buffers(n)
      PROVE  IsRowMirrored(RowsRound(c, u, h), u, IF inPlace THEN u ELSE d, h, line, w, b, n)
  <2> DEFINE row == c.row[h]
             start == h * line
             to == [x \in 0..w - 1 |-> h * line + (w - 1 - x) * b]
             from == [x \in 0..w - 1 |-> h * line + x * b]
  <2>1. row = CopyCall(to, d, from, b)
    BY <1>2
  <2>2. RowsRound(c, u, h) = MoveLoop(row, w, u)
    BY <1>2 DEF RowsRound
  <2> HIDE DEF row
  <2>3. /\ row.swap = FALSE /\ row.bytes = b /\ row.colour = "none" /\ row.inPlace = FALSE
        /\ row.data = d /\ row.to = to /\ row.from = from
    BY <2>1 DEF CopyCall
  <2>4. \A x \in 0..w - 1 : /\ row.to[x] = start + (w - 1 - x) * b
                            /\ row.from[x] = start + x * b
    BY <2>3
  <2>5. start \in Nat /\ start + w * b <= n /\ start + w * b <= l
    <3>1. start \in Nat /\ start + line <= n /\ start + line <= l
      BY <1>1, NumberedInside
    <3> HIDE DEF start
    <3> QED
      BY <1>1, <3>1
  <2> HIDE DEF start, to, from
  <2>6. AreMirrored(MoveLoop(row, w, u), u, d, start, w, b, b, n)
    <3>1. b \in Nat /\ b <= b /\ w \in Nat
      BY <1>1
    <3> QED
      BY <1>1, <2>3, <2>4, <2>5, <3>1, PutsMirror
  <2>7. IsRowMirrored(MoveLoop(row, w, u), u, d, h, line, w, b, n)
    BY <2>6, MirroredRow DEF start
  <2> QED
    BY <1>3, <2>2, <2>7
<1>5. AreAllMirrored(RowsLoop(c, height, s), IF inPlace THEN s ELSE d, height, line, w, b, n)
  BY <1>1, <1>3, <1>4, MirroredRows
<1> QED
  BY <1>3, <1>5 DEF line, height, w, b, d, c

LEMMA RowsPicture ==
    ASSUME NEW src, IsDrawn(src), NEW r, IsDrawn(r), HasBytes(r),
           r.width = src.width, r.height = src.height, r.depth = src.depth, r.align = src.align,
           NEW n, AreRowsMirrored(r.data, src.data, src.height, AlignedScanline(src),
                                  Scanline(src), n)
    PROVE  IsResult(r, Drawing!Mirrored(Picture(src), "UpsideDown"))
<1> DEFINE w == src.width
           h == src.height
           b == src.depth
           line == AlignedScanline(src)
           d == src.data
           shown == Picture(src).pixel
           pixel == [p \in (0..w - 1) \X (0..h - 1) |-> shown[<<p[1], h - 1 - p[2]>>]]
<1>1. w \in Nat \ {0} /\ h \in Nat \ {0} /\ b \in Nat \ {0} /\ line \in Nat
  BY DrawnSizes
<1>2. \A x \in 0..w - 1, y \in 0..h - 1 : shown[<<x, y>>] = Piece(d, y * line + x * b, b)
  BY PictureFields DEF Columns, Rows, PixelAt
<1>3. \A x, y : PixelAt(r, x, y) = Piece(r.data, y * line + x * b, b)
  BY DEF PixelAt, AlignedScanline, Scanline
<1>4. \A x \in 0..w - 1, y \in 0..h - 1, k \in 1..b :
         x * b \in Nat /\ x * b + k \in 1..w * b /\ y * line \in Nat
  BY SpotInside DEF Columns, Rows, Bytes
<1>5. \A y \in 0..h - 1, k \in 1..w * b : r.data[y * line + k] = d[(h - 1 - y) * line + k]
  BY DEF AreRowsMirrored, Scanline
<1>6. Picture(src).width = w /\ Picture(src).height = h
  BY PictureFields
<1> HIDE DEF w, h, b, line, d, shown
<1>7. ASSUME NEW x \in 0..w - 1, NEW y \in 0..h - 1
      PROVE  PixelAt(r, x, y) = pixel[<<x, y>>]
  <2> DEFINE z == h - 1 - y
  <2>1. z \in 0..h - 1
    BY <1>1
  <2>2. pixel[<<x, y>>] = shown[<<x, z>>]
    OBVIOUS
  <2>3. ASSUME NEW k \in 1..b
        PROVE  r.data[y * line + x * b + k] = d[z * line + x * b + k]
    <3> DEFINE j == x * b + k
    <3>1. j \in 1..w * b /\ y * line \in Nat /\ x * b \in Nat
      BY <1>4
    <3>2. z * line \in Nat
      BY <1>1, <2>1
    <3>3. y * line + x * b + k = y * line + j /\ z * line + x * b + k = z * line + j
      BY <3>1, <3>2
    <3> HIDE DEF j
    <3>4. r.data[y * line + j] = d[z * line + j]
      BY <1>5, <3>1
    <3> QED
      BY <3>3, <3>4
  <2> HIDE DEF z, pixel
  <2>4. Piece(r.data, y * line + x * b, b) = Piece(d, z * line + x * b, b)
    BY <2>3 DEF Piece
  <2> QED
    BY <1>2, <1>3, <2>1, <2>2, <2>4
<1>8. IsResult(r, [width |-> w, height |-> h, pixel |-> pixel])
  <2>1. r.width = w /\ r.height = h /\ pixel = [p \in (0..w - 1) \X (0..h - 1) |-> pixel[p]]
    BY DEF w, h
  <2> HIDE DEF pixel
  <2> QED
    BY <1>7, <2>1, Result
<1> QED
  BY <1>6, <1>8 DEF Drawing!Mirrored, Drawing!Drawn, shown

LEMMA PixelsPicture ==
    ASSUME NEW src, IsDrawn(src), NEW r, IsDrawn(r), HasBytes(r),
           r.width = src.width, r.height = src.height, r.depth = src.depth, r.align = src.align,
           NEW n, AreAllMirrored(r.data, src.data, src.height, AlignedScanline(src),
                                 src.width, src.depth, n)
    PROVE  IsResult(r, Drawing!Mirrored(Picture(src), "LeftToRight"))
<1> DEFINE w == src.width
           h == src.height
           b == src.depth
           line == AlignedScanline(src)
           d == src.data
           shown == Picture(src).pixel
           pixel == [p \in (0..w - 1) \X (0..h - 1) |-> shown[<<w - 1 - p[1], p[2]>>]]
<1>1. w \in Nat \ {0} /\ h \in Nat \ {0}
  BY DrawnSizes
<1>2. \A x \in 0..w - 1, y \in 0..h - 1 : shown[<<x, y>>] = Piece(d, y * line + x * b, b)
  BY PictureFields DEF Columns, Rows, PixelAt
<1>3. \A x, y : PixelAt(r, x, y) = Piece(r.data, y * line + x * b, b)
  BY DEF PixelAt, AlignedScanline, Scanline
<1>4. \A y \in 0..h - 1, x \in 0..w - 1, k \in 1..b :
         r.data[y * line + x * b + k] = d[y * line + (w - 1 - x) * b + k]
  BY DEF AreAllMirrored
<1>5. Picture(src).width = w /\ Picture(src).height = h
  BY PictureFields
<1> HIDE DEF w, h, b, line, d, shown
<1>6. ASSUME NEW x \in 0..w - 1, NEW y \in 0..h - 1
      PROVE  PixelAt(r, x, y) = pixel[<<x, y>>]
  <2> DEFINE z == w - 1 - x
  <2>1. z \in 0..w - 1
    BY <1>1
  <2>2. pixel[<<x, y>>] = shown[<<z, y>>]
    OBVIOUS
  <2>3. \A k \in 1..b : r.data[y * line + x * b + k] = d[y * line + z * b + k]
    BY <1>4
  <2> HIDE DEF z, pixel
  <2>4. Piece(r.data, y * line + x * b, b) = Piece(d, y * line + z * b, b)
    BY <2>3 DEF Piece
  <2> QED
    BY <1>2, <1>3, <2>1, <2>2, <2>4
<1>7. IsResult(r, [width |-> w, height |-> h, pixel |-> pixel])
  <2>1. r.width = w /\ r.height = h /\ pixel = [p \in (0..w - 1) \X (0..h - 1) |-> pixel[p]]
    BY DEF w, h
  <2> HIDE DEF pixel
  <2> QED
    BY <1>6, <2>1, Result
<1> QED
  BY <1>5, <1>7 DEF Drawing!Mirrored, Drawing!Drawn, shown

LEMMA CreateSameMakes ==
    ASSUME NEW src, IsDrawn(src), NEW dst, IsImage(dst), HasBytes(dst)
    PROVE  IsMade(CreateSame(dst, src), src.width, src.height, src.depth, src.align)
<1> DEFINE w == src.width
           h == src.height
           d == src.depth
           a == src.align
<1>1. w \in Nat \ {0} /\ h \in Nat \ {0} /\ d \in {1, 3, 4} /\ a \in Nat \ {0}
  BY DrawnSizes
<1> HIDE DEF w, h, d, a
<1>2. IsMade(Create(dst, w, h, d, a), w, h, d, a)
  BY <1>1, CreateMakes
<1> QED
  BY <1>2 DEF CreateSame, w, h, d, a

LEMMA MirroredDraws ==
    ASSUME NEW src, IsDrawn(src), HasBytes(src), NEW dst, IsImage(dst), HasBytes(dst),
           NEW same, NEW type \in {"UpsideDown", "LeftToRight"}
    PROVE  IsResult(Mirrored(src, dst, same, type), Drawing!Mirrored(Picture(src), type))
<1> DEFINE new == CreateSame(dst, src)
           n == Len(new.data)
<1>1. /\ IsDrawn(new) /\ HasBytes(new)
      /\ new.width = src.width /\ new.height = src.height /\ new.depth = src.depth
      /\ new.align = src.align
  BY CreateSameMakes DEF IsMade
<1>2. n \in Nat /\ new.data \in Buffers(n) /\ src.height * AlignedScanline(src) <= n
  <2>1. AlignedScanline(new) = AlignedScanline(src)
    BY <1>1 DEF AlignedScanline, Scanline
  <2> HIDE DEF new
  <2> QED
    BY <1>1, <2>1, DrawnSizes DEF HasBytes
<1> HIDE DEF new
<1>3. CASE type = "UpsideDown"
  <2>1. IsResult(MirrorSame(src, type), Drawing!Mirrored(Picture(src), type))
    <3> DEFINE t == MoveLoop(SwapRowsCall(src), src.height \div 2, src.data)
               r == [src EXCEPT !.data = t]
    <3>1. MirrorSame(src, type) = r
      BY <1>3, SwapRowsLoops
    <3>2. AreRowsMirrored(t, src.data, src.height, AlignedScanline(src), Scanline(src), Len(src.data))
      BY SwapRowsDraws
    <3> HIDE DEF t
    <3>3. IsRefilled(r, src, t)
      BY <3>2, Refilled DEF AreRowsMirrored
    <3> HIDE DEF r
    <3>4. IsResult(r, Drawing!Mirrored(Picture(src), "UpsideDown"))
      BY <3>2, <3>3, RowsPicture DEF IsRefilled
    <3> QED
      BY <1>3, <3>1, <3>4
  <2>2. IsResult(MirrorToOther(src, dst, type), Drawing!Mirrored(Picture(src), type))
    <3> DEFINE t == MoveLoop(PutRowsCall(src), src.height, new.data)
               r == [new EXCEPT !.data = t]
    <3>1. MirrorToOther(src, dst, type) = r
      BY <1>3, PutRowsLoops DEF new
    <3>2. AreRowsMirrored(t, src.data, src.height, AlignedScanline(src), Scanline(src), n)
      <4> HIDE DEF n
      <4> QED
        BY <1>2, PutRowsDraws
    <3> HIDE DEF t
    <3>3. IsRefilled(r, new, t)
      BY <1>1, <3>2, Refilled DEF AreRowsMirrored
    <3> HIDE DEF r, n
    <3>4. IsResult(r, Drawing!Mirrored(Picture(src), "UpsideDown"))
      BY <1>1, <3>2, <3>3, RowsPicture DEF IsRefilled
    <3> QED
      BY <1>3, <3>1, <3>4
  <2> QED
    BY <2>1, <2>2 DEF Mirrored
<1>4. CASE type = "LeftToRight"
  <2>1. IsResult(MirrorSame(src, type), Drawing!Mirrored(Picture(src), type))
    <3> DEFINE t == RowsLoop(SwapPixelsCall(src), src.height, src.data)
               r == [src EXCEPT !.data = t]
    <3>1. MirrorSame(src, type) = r
      BY <1>4, SwapPixelsLoops
    <3>2. AreAllMirrored(t, src.data, src.height, AlignedScanline(src), src.width, src.depth, Len(src.data))
      BY SwapPixelsDraws
    <3> HIDE DEF t
    <3>3. IsRefilled(r, src, t)
      BY <3>2, Refilled DEF AreAllMirrored
    <3> HIDE DEF r
    <3>4. IsResult(r, Drawing!Mirrored(Picture(src), "LeftToRight"))
      BY <3>2, <3>3, PixelsPicture DEF IsRefilled
    <3> QED
      BY <1>4, <3>1, <3>4
  <2>2. IsResult(MirrorToOther(src, dst, type), Drawing!Mirrored(Picture(src), type))
    <3> DEFINE t == RowsLoop(PutPixelsCall(src), src.height, new.data)
               r == [new EXCEPT !.data = t]
    <3>1. MirrorToOther(src, dst, type) = r
      BY <1>4, PutPixelsLoops DEF new
    <3>2. AreAllMirrored(t, src.data, src.height, AlignedScanline(src), src.width, src.depth, n)
      <4> HIDE DEF n
      <4> QED
        BY <1>2, PutPixelsDraws
    <3> HIDE DEF t
    <3>3. IsRefilled(r, new, t)
      BY <1>1, <3>2, Refilled DEF AreAllMirrored
    <3> HIDE DEF r, n
    <3>4. IsResult(r, Drawing!Mirrored(Picture(src), "LeftToRight"))
      BY <1>1, <3>2, <3>3, PixelsPicture DEF IsRefilled
    <3> QED
      BY <1>4, <3>1, <3>4
  <2> QED
    BY <2>1, <2>2 DEF Mirrored
<1> QED
  BY <1>3, <1>4

-----------------------------------------------------------------------------
(* Scaling                                                                 *)

\* A number that is rounded down.
IsQuotient(q, a, n) == q \in Nat /\ q * n <= a /\ a < q * n + n

LEMMA Quotient ==
    ASSUME NEW a \in Nat, NEW n \in Nat \ {0}, NEW q, q = a \div n
    PROVE  IsQuotient(q, a, n)
<1>1. a = (a \div n) * n + (a % n) /\ a % n \in 0..n - 1 /\ a \div n \in Nat
  OBVIOUS
<1> QED
  BY <1>1 DEF IsQuotient

LEMMA StrictProducts ==
    ASSUME NEW a \in Int, NEW b \in Int, NEW c \in Nat \ {0}
    PROVE  a * c < b * c <=> a < b
  OBVIOUS

(***************************************************************************)
(* Positions of 16 bits behind the point take no place from outside the    *)
(* image and, up to 65536 places, none that is further off than one.       *)
(***************************************************************************)
Fits(n) == n \in Nat \ {0} /\ n <= 65536

IsNearest(f, k, old, new) ==
    f \in 0..old - 1 /\ (Fits(new) => Drawing!Near(k, f, old, new))

LEMMA NearestIsNear ==
    ASSUME NEW old \in Nat \ {0}, NEW new \in Nat \ {0}, NEW k \in 0..new - 1
    PROVE  IsNearest(Nearest(k, old, new), k, old, new)
<1> DEFINE b == 65536
           q == (old * b) \div new
           f == (k * q) \div b
<1>1. b \in Nat \ {0} /\ new \in Nat \ {0} /\ k \in Nat /\ k < new /\ old \in Nat
  OBVIOUS
<1>2. f = Nearest(k, old, new)
  BY DEF Nearest
<1>3. q \in Nat /\ q * new <= old * b /\ old * b < q * new + new
  <2> DEFINE a == old * b
  <2>1. a \in Nat /\ q = a \div new /\ new \in Nat \ {0}
    BY <1>1
  <2> HIDE DEF a, q
  <2>2. IsQuotient(q, a, new)
    BY <2>1, Quotient
  <2>3. q \in Nat /\ q * new <= a /\ a < q * new + new
    BY <2>2 DEF IsQuotient
  <2> QED
    BY <2>3 DEF a
<1>4. f \in Nat /\ f * b <= k * q /\ k * q < f * b + b
  <2> HIDE DEF q, b
  <2> DEFINE a == k * q
  <2>1. a \in Nat /\ f = a \div b
    BY <1>1, <1>3
  <2> HIDE DEF a, f
  <2>2. IsQuotient(f, a, b)
    BY <1>1, <2>1, Quotient
  <2>3. f \in Nat /\ f * b <= a /\ a < f * b + b
    BY <2>2 DEF IsQuotient
  <2> QED
    BY <2>3 DEF a
<1> HIDE DEF q, f, b
<1>5. f * new <= k * old
  <2>1. (f * b) * new <= (k * q) * new
    <3> DEFINE y == f * b
               z == k * q
    <3>1. y \in Nat /\ z \in Nat /\ y <= z
      BY <1>1, <1>3, <1>4
    <3> HIDE DEF y, z
    <3>2. y * new <= z * new
      BY <1>1, <3>1, Products
    <3> QED
      BY <3>2 DEF y, z
  <2>2. (q * new) * k <= (old * b) * k
    <3> DEFINE y == q * new
               z == old * b
    <3>1. y \in Nat /\ z \in Nat /\ y <= z
      BY <1>1, <1>3
    <3> HIDE DEF y, z
    <3>2. y * k <= z * k
      BY <1>1, <3>1, Products
    <3> QED
      BY <3>2 DEF y, z
  <2>3. (k * q) * new = (q * new) * k /\ (f * b) * new = (f * new) * b /\ (old * b) * k = (k * old) * b
    BY <1>1, <1>3, <1>4
  <2>4. (f * new) * b <= (k * old) * b
    <3>1. (f * new) * b \in Nat /\ (k * q) * new \in Nat /\ (k * old) * b \in Nat
      BY <1>1, <1>3, <1>4
    <3> QED
      BY <2>1, <2>2, <2>3, <3>1
  <2> DEFINE y == f * new
             z == k * old
  <2>5. y \in Nat /\ z \in Nat /\ y * b <= z * b
    BY <1>1, <1>4, <2>4
  <2> HIDE DEF y, z
  <2>6. ~(z < y)
    <3>1. z < y => z * b < y * b
      BY <1>1, <2>5, StrictProducts
    <3>2. y * b \in Nat /\ z * b \in Nat
      BY <1>1, <2>5
    <3> QED
      BY <2>5, <3>1, <3>2
  <2>7. y <= z
    BY <2>5, <2>6
  <2> QED
    BY <2>7 DEF y, z
<1>6. ASSUME new <= b PROVE k * old < (f + 2) * new
  <2> DEFINE y == k * old
             g == f * new
  <2>1. (old * b) * k <= (q * new + new) * k
    <3> DEFINE u == old * b
               v == q * new + new
    <3>1. u \in Nat /\ v \in Nat /\ u <= v
      BY <1>1, <1>3
    <3> HIDE DEF u, v
    <3>2. u * k <= v * k
      BY <1>1, <3>1, Products
    <3> QED
      BY <3>2 DEF u, v
  <2>2. (q * new + new) * k = (k * q) * new + k * new
    BY <1>1, <1>3
  <2>3. (k * q) * new < (f * b + b) * new
    <3> DEFINE u == k * q
               v == f * b + b
    <3>1. u \in Int /\ v \in Int /\ u < v
      BY <1>1, <1>3, <1>4
    <3> HIDE DEF u, v
    <3>2. u * new < v * new
      BY <1>1, <3>1, StrictProducts
    <3> QED
      BY <3>2 DEF u, v
  <2>4. k * new <= b * new
    <3>1. k <= b
      BY <1>1, <1>6
    <3> QED
      BY <1>1, <3>1, Products
  <2>5. (old * b) * k = y * b /\ (f * b + b) * new + b * new = (g + 2 * new) * b
    <3>1. (old * b) * k = (k * old) * b
      BY <1>1
    <3>2. (f * b + b) * new + b * new = (f * new + 2 * new) * b
      BY <1>1, <1>4
    <3> QED
      BY <3>1, <3>2
  <2>6. y \in Nat /\ g \in Nat /\ 2 * new \in Nat
    BY <1>1, <1>4
  <2>7. y * b < (g + 2 * new) * b
    <3>1. /\ (old * b) * k \in Nat /\ (q * new + new) * k \in Nat /\ (k * q) * new \in Nat
          /\ k * new \in Nat /\ (f * b + b) * new \in Nat /\ b * new \in Nat
      BY <1>1, <1>3, <1>4
    <3> QED
      BY <2>1, <2>2, <2>3, <2>4, <2>5, <3>1
  <2> DEFINE z == g + 2 * new
  <2>8. z \in Nat /\ z = (f + 2) * new
    BY <1>1, <1>4, <2>6
  <2> HIDE DEF y, z
  <2>9. y < z
    <3>1. y * b < z * b
      BY <2>7 DEF z
    <3> QED
      BY <1>1, <2>6, <2>8, <3>1, StrictProducts
  <2> QED
    BY <2>8, <2>9 DEF y
<1>7. f < old
  <2>1. k * old < new * old
    BY <1>1, StrictProducts
  <2>2. f * new < old * new
    <3>1. f * new \in Nat /\ k * old \in Nat /\ new * old = old * new /\ old * new \in Nat
      BY <1>1, <1>4
    <3> QED
      BY <1>5, <2>1, <3>1
  <2> QED
    BY <1>1, <1>4, <2>2, StrictProducts
<1> QED
  BY <1>1, <1>2, <1>4, <1>5, <1>6, <1>7 DEF IsNearest, Drawing!Near, Fits, b

PickCall(src, w, h) ==
    CopyCall([p \in 0..w * h - 1 |-> p * src.depth], src.data,
             [p \in 0..w * h - 1 |->
                (Nearest(p \div w, src.height, h) * src.width + Nearest(p % w, src.width, w))
                  * src.depth],
             src.depth)

LEMMA PickedInside ==
    ASSUME NEW src, IsDrawn(src), Packed(src), NEW w \in Nat \ {0}, NEW h \in Nat \ {0},
           NEW x \in 0..w - 1, NEW y \in 0..h - 1
    PROVE  /\ Nearest(x, src.width, w) \in Columns(src) /\ Nearest(y, src.height, h) \in Rows(src)
           /\ Nearest(y, src.height, h) * src.width + Nearest(x, src.width, w)
                \in 0..src.width * src.height - 1
<1> DEFINE u == Nearest(x, src.width, w)
           v == Nearest(y, src.height, h)
           a == src.width
           c == src.height
<1>1. a \in Nat \ {0} /\ c \in Nat \ {0} /\ w \in Nat /\ h \in Nat
  BY DrawnSizes
<1>2. IsNearest(u, x, a, w) /\ IsNearest(v, y, c, h)
  <2> HIDE DEF a, c
  <2>1. IsNearest(Nearest(x, a, w), x, a, w) /\ IsNearest(Nearest(y, c, h), y, c, h)
    BY <1>1, NearestIsNear
  <2> QED
    BY <2>1 DEF a, c
<1>3. u \in 0..a - 1 /\ v \in 0..c - 1
  BY <1>2 DEF IsNearest
<1> HIDE DEF u, v, a, c
<1>4. v * a + u \in 0..a * c - 1
  <2>1. v * a + u \in 0..c * a - 1
    BY <1>1, <1>3, PlaceInside
  <2>2. a * c = c * a
    BY <1>1
  <2> QED
    BY <2>1, <2>2
<1> QED
  BY <1>3, <1>4 DEF u, v, a, c, Columns, Rows

LEMMA PickLoops ==
    ASSUME NEW src, IsDrawn(src), Packed(src), NEW dst, NEW w \in Nat \ {0}, NEW h \in Nat \ {0}
    PROVE  ResampleNearest(src, dst, w, h)
             = [Create(dst, w, h, src.depth, 1) EXCEPT !.data =
                   MoveLoop(PickCall(src, w, h), w * h, @)]
<1> DEFINE b == src.depth
           m == w * h
           From(p) == Nearest(p \div w, src.height, h) * src.width + Nearest(p % w, src.width, w)
           to == [p \in 0..m - 1 |-> p * b]
           from == [p \in 0..m - 1 |-> From(p) * b]
           new == Create(dst, w, h, src.depth, 1)
           Move(s, p) ==
              LET x == Nearest(p % w, src.width, w)
                  y == Nearest(p \div w, src.height, h)
              IN  CopyBytes(s, p * src.depth, src.data, (y * src.width + x) * src.depth, src.depth)
<1>1. ResampleNearest(src, dst, w, h) = [new EXCEPT !.data = Loop(m, @, Move)]
  BY DEF ResampleNearest
<1> HIDE DEF new
<1>2. w \in Nat \ {0} /\ h \in Nat /\ b \in Nat /\ m \in Nat
  BY DrawnSizes
<1>3. to \in [0..m - 1 -> Nat] /\ from \in [0..m - 1 -> Nat]
  <2>1. ASSUME NEW p \in 0..m - 1 PROVE From(p) \in Nat
    <3> DEFINE x == p % w
               y == p \div w
    <3>1. x \in 0..w - 1 /\ y \in 0..h - 1
      BY <1>2, PixelOfNumber
    <3> HIDE DEF x, y
    <3>2. Nearest(y, src.height, h) * src.width + Nearest(x, src.width, w)
             \in 0..src.width * src.height - 1
      BY <3>1, PickedInside
    <3> QED
      BY <3>2 DEF x, y
  <2>2. ASSUME NEW p \in 0..m - 1
        PROVE  From(p) * b \in Nat /\ p * b \in Nat
    <3> DEFINE k == From(p)
    <3>1. k \in Nat
      BY <2>1
    <3> HIDE DEF k, b, m
    <3>2. k * b \in Nat /\ p * b \in Nat
      BY <1>2, <3>1
    <3> QED
      BY <3>2 DEF k
  <2> HIDE DEF b, m, From
  <2> QED
    BY <2>2
<1>4. ASSUME NEW s, NEW p \in 0..m - 1 PROVE Move(s, p) = MoveRound(PickCall(src, w, h), s, p)
  <2>1. PickCall(src, w, h) = CopyCall(to, src.data, from, b)
    BY DEF PickCall
  <2>2. Move(s, p) = CopyBytes(s, to[p], src.data, from[p], b)
    BY <1>2
  <2> HIDE DEF to, from, b, m, Move
  <2>3. MoveRound(CopyCall(to, src.data, from, b), s, p) = CopyBytes(s, to[p], src.data, from[p], b)
    <3>1. to[p] \in Nat /\ from[p] \in Nat /\ b \in Nat
      BY <1>2, <1>3
    <3> HIDE DEF to, from, b
    <3> QED
      BY <3>1, CopyCallRound
  <2> QED
    BY <2>1, <2>2, <2>3
<1> DEFINE call == PickCall(src, w, h)
           first == new.data
<1> HIDE DEF call, first, b, m
<1>5. Loop(m, first, Move) = MoveLoop(call, m, first)
  <2>1. \A s, p : p \in 0..m - 1 => Move(s, p) = MoveRound(call, s, p)
    BY <1>4 DEF call
  <2> DEFINE One(g) == [i \in 0..m |-> IF i = 0 THEN first ELSE Move(g[i - 1], i - 1)]
             Other(g) == [i \in 0..m |-> IF i = 0 THEN first ELSE MoveRound(call, g[i - 1], i - 1)]
  <2>2. /\ Loop(m, first, Move) = Holding(first, (CHOOSE g : g = One(g))[m])
        /\ MoveLoop(call, m, first) = Holding(first, (CHOOSE g : g = Other(g))[m])
    BY DEF Loop, MoveLoop
  <2>3. ASSUME NEW g PROVE One(g) = Other(g)
    <3>1. \A i \in 0..m : i # 0 => i - 1 \in 0..m - 1
      BY <1>2
    <3>2. \A i \in 0..m : i # 0 => Move(g[i - 1], i - 1) = MoveRound(call, g[i - 1], i - 1)
      BY <2>1, <3>1
    <3> HIDE DEF Move
    <3> QED
      BY <3>2
  <2> HIDE DEF One, Other, Move
  <2>4. (CHOOSE g : g = One(g)) = (CHOOSE g : g = Other(g))
    BY <2>3
  <2> QED
    BY <2>2, <2>4
<1> QED
  BY <1>1, <1>5 DEF m, new, call, first

\* Every place of the buffer t holds the nearest pixel of src.
IsScaledBuffer(t, src, w, h, n) ==
    /\ t \in Buffers(n)
    /\ \A x \in 0..w - 1, y \in 0..h - 1 :
          Piece(t, (y * w + x) * src.depth, src.depth)
            = PixelAt(src, Nearest(x, src.width, w), Nearest(y, src.height, h))

LEMMA PickDraws ==
    ASSUME NEW src, IsDrawn(src), HasBytes(src), Packed(src),
           NEW w \in Nat \ {0}, NEW h \in Nat \ {0},
           NEW n \in Nat, (w * h) * src.depth <= n, NEW s \in Buffers(n)
    PROVE  IsScaledBuffer(MoveLoop(PickCall(src, w, h), w * h, s), src, w, h, n)
<1> DEFINE b == src.depth
           m == w * h
           d == src.data
           l == Len(d)
           c == PickCall(src, w, h)
           From(p) == Nearest(p \div w, src.height, h) * src.width + Nearest(p % w, src.width, w)
           size == src.width * src.height
           t == MoveLoop(c, m, s)
<1>1. /\ w \in Nat \ {0} /\ h \in Nat \ {0} /\ b \in Nat \ {0} /\ m \in Nat /\ size \in Nat
      /\ l \in Nat /\ m * b <= n /\ size * b <= l /\ d \in Buffers(l)
  BY DrawnSizes, PackedSizes DEF HasBytes
<1>2. \A p \in 0..m - 1 : p % w \in 0..w - 1 /\ p \div w \in 0..h - 1
  BY <1>1, PixelOfNumber
<1>3. \A p \in 0..m - 1 : From(p) \in 0..size - 1
  <2> SUFFICES ASSUME NEW p \in 0..m - 1 PROVE From(p) \in 0..size - 1
    OBVIOUS
  <2> DEFINE x == p % w
             y == p \div w
  <2>1. x \in 0..w - 1 /\ y \in 0..h - 1
    BY <1>2
  <2> HIDE DEF x, y
  <2>2. Nearest(y, src.height, h) * src.width + Nearest(x, src.width, w)
           \in 0..src.width * src.height - 1
    BY <2>1, PickedInside
  <2> QED
    BY <2>2 DEF x, y
<1>5. /\ c.swap = FALSE /\ c.colour = "none" /\ c.inPlace = FALSE /\ c.data = d /\ c.bytes = b
      /\ \A p \in 0..m - 1 : c.to[p] = p * b /\ c.from[p] = From(p) * b
  BY DEF PickCall, CopyCall
<1> HIDE DEF b, m, d, l, c, From, t, size
<1>6. PutsInside(c, m, n, l, b, b)
  <2>1. ASSUME NEW p \in 0..m - 1
        PROVE  /\ c.to[p] \in Nat /\ c.to[p] + b <= n /\ c.from[p] \in Nat /\ c.from[p] + b <= l
    <3>1. From(p) \in 0..size - 1 /\ b \in Nat
      BY <1>1, <1>3
    <3>2. From(p) * b \in Nat /\ From(p) * b + b <= l
      BY <1>1, <3>1, NumberedInside
    <3>3. p * b \in Nat /\ p * b + b <= n
      BY <1>1, NumberedInside
    <3> QED
      BY <1>5, <3>2, <3>3
  <2>2. ASSUME NEW p \in 0..m - 1, NEW q \in 0..m - 1, p < q
        PROVE  c.to[p] + b <= c.to[q]
    <3>1. p * b + b <= q * b
      BY <1>1, <2>2, NumberedPlaces
    <3> QED
      BY <1>5, <3>1
  <2> QED
    BY <1>5, <2>1, <2>2 DEF PutsInside
<1>7. IsPut(t, s, d, c, m, n, b, b)
  <2>1. IsColouring(c.colour, b, b)
    BY <1>1, <1>5 DEF IsColouring
  <2> QED
    BY <1>1, <1>5, <1>6, <2>1, PutDraws DEF t
<1>8. ASSUME NEW x \in 0..w - 1, NEW y \in 0..h - 1
      PROVE  Piece(t, (y * w + x) * b, b)
               = PixelAt(src, Nearest(x, src.width, w), Nearest(y, src.height, h))
  <2> DEFINE p == y * w + x
             u == Nearest(x, src.width, w)
             v == Nearest(y, src.height, h)
             q == Piece(d, (v * src.width + u) * b, b)
  <2>1. p = y * w + x /\ u \in Nat /\ v \in Nat
    <3>1. u \in Columns(src) /\ v \in Rows(src)
      BY <1>1, PickedInside
    <3>2. src.width \in Nat /\ src.height \in Nat
      BY DrawnSizes
    <3> HIDE DEF u, v
    <3> QED
      BY <3>1, <3>2 DEF Columns, Rows
  <2> HIDE DEF u, v
  <2>2. PixelAt(src, u, v) = q
    BY <2>1, PackedPixel DEF d, b
  <2> HIDE DEF p
  <2>3. p \in 0..m - 1 /\ From(p) = v * src.width + u
    <3>1. IsNumberOf(p, x, y, w, h)
      BY <1>1, <2>1, NumberOfPixel
    <3> QED
      BY <3>1 DEF IsNumberOf, m, From, u, v
  <2>4. q \in Buffers(b)
    <3>1. From(p) \in 0..size - 1
      BY <1>3, <2>3
    <3>2. From(p) * b \in Nat /\ From(p) * b + b <= l
      BY <1>1, <3>1, NumberedInside
    <3>3. Piece(d, From(p) * b, b) \in Buffers(b)
      BY <1>1, <3>2, PieceBuffer
    <3> QED
      BY <2>3, <3>3
  <2> DEFINE k == p * b
  <2>5. k = c.to[p] /\ q = Painted(c.colour, Piece(d, c.from[p], b))
    BY <1>5, <2>3 DEF Painted
  <2> HIDE DEF k, q
  <2>6. Piece(t, k, b) = q
    BY <1>7, <2>3, <2>4, <2>5, PutPixel
  <2> QED
    BY <2>1, <2>2, <2>6 DEF k, u, v
<1>9. t \in Buffers(n)
  BY <1>7 DEF IsPut
<1> QED
  BY <1>8, <1>9 DEF IsScaledBuffer, t, c, m, b

IsScaledImage(r, src, w, h) ==
    /\ IsDrawn(r) /\ HasBytes(r) /\ r.width = w /\ r.height = h
    /\ Fits(w) /\ Fits(h) => Drawing!IsScaled(Picture(r), Picture(src), w, h)

LEMMA ScaledPicture ==
    ASSUME NEW src, IsDrawn(src), Packed(src), NEW w \in Nat \ {0}, NEW h \in Nat \ {0},
           NEW r, IsDrawn(r), HasBytes(r), Packed(r), r.width = w, r.height = h,
           r.depth = src.depth, NEW n, IsScaledBuffer(r.data, src, w, h, n)
    PROVE  IsScaledImage(r, src, w, h)
<1> DEFINE p == Picture(src)
           q == Picture(r)
<1>1. /\ q.width = w /\ q.height = h /\ w \in Nat \ {0} /\ h \in Nat \ {0}
      /\ p.width = src.width /\ p.height = src.height
      /\ src.width \in Nat \ {0} /\ src.height \in Nat \ {0}
  <2>1. w \in Nat \ {0} /\ h \in Nat \ {0}
    OBVIOUS
  <2>2. q.width = w /\ q.height = h /\ p.width = src.width /\ p.height = src.height
    BY PictureFields
  <2>3. src.width \in Nat \ {0} /\ src.height \in Nat \ {0}
    BY DrawnSizes
  <2> QED
    BY <2>1, <2>2, <2>3
<1>2. \A x \in Columns(src), y \in Rows(src) : p.pixel[<<x, y>>] = PixelAt(src, x, y)
  BY PictureFields
<1>3. DOMAIN p.pixel = Columns(src) \X Rows(src)
  BY DEF Picture, Columns, Rows
<1>4. \A x \in Columns(r), y \in Rows(r) : q.pixel[<<x, y>>] = PixelAt(r, x, y)
  BY PictureFields
<1> HIDE DEF p, q
<1>5. ASSUME Fits(w), Fits(h), NEW x \in 0..w - 1, NEW y \in 0..h - 1
      PROVE  \E s \in DOMAIN p.pixel :
                /\ Drawing!Near(x, s[1], p.width, w) /\ Drawing!Near(y, s[2], p.height, h)
                /\ q.pixel[<<x, y>>] = p.pixel[s]
  <2> DEFINE u == Nearest(x, src.width, w)
             v == Nearest(y, src.height, h)
             s == <<u, v>>
  <2>1. IsNearest(u, x, src.width, w) /\ IsNearest(v, y, src.height, h)
    <3> DEFINE a == src.width
               c == src.height
    <3>1. a \in Nat \ {0} /\ c \in Nat \ {0}
      BY <1>1
    <3> HIDE DEF a, c
    <3>2. IsNearest(Nearest(x, a, w), x, a, w) /\ IsNearest(Nearest(y, c, h), y, c, h)
      BY <3>1, NearestIsNear
    <3> QED
      BY <3>2 DEF a, c
  <2>2. q.pixel[<<x, y>>] = PixelAt(src, u, v)
    <3>1. q.pixel[<<x, y>>] = PixelAt(r, x, y)
      BY <1>4 DEF Columns, Rows
    <3>2. x \in Nat /\ y \in Nat
      BY <1>1
    <3>3. PixelAt(r, x, y) = Piece(r.data, (y * r.width + x) * r.depth, r.depth)
      BY <3>2, PackedPixel
    <3>4. Piece(r.data, (y * w + x) * src.depth, src.depth) = PixelAt(src, u, v)
      BY DEF IsScaledBuffer
    <3> QED
      BY <3>1, <3>3, <3>4
  <2> HIDE DEF u, v
  <2>3. /\ u \in Columns(src) /\ v \in Rows(src)
        /\ Drawing!Near(x, u, src.width, w) /\ Drawing!Near(y, v, src.height, h)
    BY <1>5, <2>1 DEF IsNearest, Columns, Rows
  <2>4. s \in DOMAIN p.pixel /\ s[1] = u /\ s[2] = v /\ p.pixel[s] = PixelAt(src, u, v)
    BY <1>2, <1>3, <2>3
  <2> QED
    BY <1>1, <2>2, <2>3, <2>4
<1>6. Fits(w) /\ Fits(h) => Drawing!IsScaled(q, p, w, h)
  BY <1>1, <1>5 DEF Drawing!IsScaled
<1> QED
  BY <1>6 DEF IsScaledImage, p, q

LEMMA ResampleDraws ==
    ASSUME NEW src, IsDrawn(src), HasBytes(src), Packed(src),
           NEW dst, IsImage(dst), HasBytes(dst), NEW w \in Nat \ {0}, NEW h \in Nat \ {0}
    PROVE  IsScaledImage(ResampleNearest(src, dst, w, h), src, w, h)
<1> DEFINE b == src.depth
           one == 1
           new == Create(dst, w, h, b, one)
           n == Len(new.data)
           t == MoveLoop(PickCall(src, w, h), w * h, new.data)
           r == ResampleNearest(src, dst, w, h)
<1>1. w \in Nat \ {0} /\ h \in Nat \ {0} /\ b \in {1, 3, 4} /\ one \in Nat \ {0} /\ one = 1
  BY DrawnSizes
<1>2. r = [new EXCEPT !.data = t]
  BY PickLoops
<1> HIDE DEF r, b, one
<1>3. IsMade(Create(dst, w, h, b, one), w, h, b, one)
  BY <1>1, CreateMakes
<1> HIDE DEF new
<1>4. /\ IsDrawn(new) /\ HasBytes(new) /\ Packed(new)
      /\ new.width = w /\ new.height = h /\ new.depth = b
  BY <1>1, <1>3 DEF IsMade, Packed, new
<1>5. n \in Nat /\ new.data \in Buffers(n) /\ (w * h) * src.depth <= n
  <2>1. (new.width * new.height) * new.depth <= n
    BY <1>4, PackedSizes
  <2> QED
    BY <1>4, <2>1, DrawnSizes DEF HasBytes, b
<1> HIDE DEF t
<1>6. IsScaledBuffer(t, src, w, h, n)
  <2> HIDE DEF n
  <2> QED
    BY <1>5, PickDraws DEF t
<1>7. IsRefilled([new EXCEPT !.data = t], new, t)
  BY <1>4, <1>6, Refilled DEF IsScaledBuffer
<1>8. /\ IsDrawn(r) /\ HasBytes(r) /\ Packed(r) /\ r.data = t
      /\ r.width = w /\ r.height = h /\ r.depth = src.depth
  BY <1>2, <1>4, <1>7 DEF IsRefilled, Packed, b
<1>9. IsScaledImage(r, src, w, h)
  BY <1>6, <1>8, ScaledPicture
<1> QED
  BY <1>9 DEF r

\* Scaled in place or into another image, to the promised picture for sizes
\* up to 65536.
LEMMA ScaledDraws ==
    ASSUME NEW src, IsDrawn(src), HasBytes(src), Packed(src),
           NEW dst, IsImage(dst), HasBytes(dst), NEW same, NEW w \in Nat \ {0}, NEW h \in Nat \ {0}
    PROVE  IsScaledImage(Scaled(src, dst, same, w, h), src, w, h)
<1> DEFINE made == ResampleNearest(src, NoImage(FALSE), w, h)
<1>1. IsImage(NoImage(FALSE)) /\ HasBytes(NoImage(FALSE))
  BY NoImageBytes
<1>2. /\ IsScaledImage(ResampleNearest(src, dst, w, h), src, w, h)
      /\ IsScaledImage(made, src, w, h)
  BY <1>1, ResampleDraws
<1> HIDE DEF made
<1>3. IsResult(made, Picture(made))
  BY <1>2 DEF IsScaledImage, IsResult
<1>4. IsResult(Copied(made, dst), Picture(made))
  BY <1>3, CopiedResult
<1>5. IsScaledImage(Copied(made, dst), src, w, h)
  <2> DEFINE copy == Copied(made, dst)
  <2>1. IsDrawn(copy) /\ HasBytes(copy) /\ Picture(copy) = Picture(made)
    BY <1>4 DEF IsResult
  <2> HIDE DEF copy
  <2>2. Picture(copy).width = copy.width /\ Picture(copy).height = copy.height
    BY PictureFields
  <2>3. Picture(made).width = made.width /\ Picture(made).height = made.height
    BY PictureFields
  <2>4. IsScaledImage(copy, src, w, h)
    BY <1>2, <2>1, <2>2, <2>3 DEF IsScaledImage
  <2> QED
    BY <2>4 DEF copy
<1> QED
  BY <1>2, <1>5 DEF Scaled, made

-----------------------------------------------------------------------------
(* Cutting out                                                             *)

\* A rectangle of an image, after it was restricted to it.
IsRect(rect, i) ==
    /\ rect[1] \in Nat /\ rect[2] \in Nat /\ rect[3] \in Nat \ {0} /\ rect[4] \in Nat \ {0}
    /\ rect[1] + rect[3] <= i.width /\ rect[2] + rect[4] <= i.height

\* Row k of the rectangle lies in the image, and not before the place it is
\* moved to.
IsRowOfCut(f, k, w, h, b, width) ==
    f * b \in Nat /\ f * b + width * b <= (w * h) * b /\ k * (width * b) <= f * b

LEMMA RowOfCut ==
    ASSUME NEW w \in Nat, NEW h \in Nat, NEW b \in Nat, NEW x \in Nat, NEW y \in Nat,
           NEW width \in Nat \ {0}, NEW height \in Nat \ {0}, x + width <= w, y + height <= h,
           NEW k \in 0..height - 1, NEW f, f = (y + k) * w + x
    PROVE  IsRowOfCut(f, k, w, h, b, width)
<1> DEFINE j == y + k
<1>1. j \in Nat /\ j + 1 <= h /\ k \in Nat /\ k <= j /\ width <= w /\ f = j * w + x
  OBVIOUS
<1> HIDE DEF j
<1>2. f \in Nat /\ f + width <= w * h
  <2>1. (j + 1) * w <= h * w
    BY <1>1, Products
  <2>2. (j + 1) * w = j * w + w /\ h * w = w * h /\ j * w \in Nat /\ w * h \in Nat
    BY <1>1
  <2> QED
    BY <1>1, <2>1, <2>2
<1>3. width * k <= f
  <2>1. width * k <= w * k
    BY <1>1, Products
  <2>2. k * w <= j * w
    BY <1>1, Products
  <2>3. k * w = w * k /\ j * w \in Nat /\ w * k \in Nat /\ width * k \in Nat
    BY <1>1
  <2> QED
    BY <1>1, <2>1, <2>2, <2>3
<1> DEFINE size == w * h
           g == width * k
<1>4. size \in Nat /\ g \in Nat /\ f \in Nat /\ f + width <= size /\ g <= f
  BY <1>1, <1>2, <1>3
<1>5. k * (width * b) = g * b
  BY <1>1, Shuffle
<1> HIDE DEF size, g
<1>6. (f + width) * b <= size * b /\ g * b <= f * b
  BY <1>4, Products
<1>7. (f + width) * b = f * b + width * b /\ f * b \in Nat
  BY <1>4
<1> QED
  BY <1>5, <1>6, <1>7 DEF IsRowOfCut, size

CutCall(src, same, rect) ==
    [swap |-> FALSE, colour |-> "none", inPlace |-> same, data |-> src.data,
     to |-> [k \in 0..rect[4] - 1 |-> k * (rect[3] * src.depth)],
     from |-> [k \in 0..rect[4] - 1 |-> ((rect[2] + k) * src.width + rect[1]) * src.depth],
     bytes |-> rect[3] * src.depth]

LEMMA CutPlaces ==
    ASSUME NEW src, IsDrawn(src), NEW rect, IsRect(rect, src), NEW k \in 0..rect[4] - 1
    PROVE  LET f == (rect[2] + k) * src.width + rect[1]
           IN  IsRowOfCut(f, k, src.width, src.height, src.depth, rect[3])
<1> DEFINE w == src.width
           h == src.height
           b == src.depth
           x == rect[1]
           y == rect[2]
           width == rect[3]
           height == rect[4]
           f == (rect[2] + k) * src.width + rect[1]
<1>1. /\ w \in Nat /\ h \in Nat /\ b \in Nat /\ x \in Nat /\ y \in Nat
      /\ width \in Nat \ {0} /\ height \in Nat \ {0} /\ x + width <= w /\ y + height <= h
      /\ k \in 0..height - 1 /\ f = (y + k) * w + x
  BY DrawnSizes DEF IsRect
<1> HIDE DEF w, h, b, x, y, width, height, f
<1>2. IsRowOfCut(f, k, w, h, b, width)
  BY <1>1, RowOfCut
<1> QED
  BY <1>2 DEF f, w, h, b, width

\* The image that a rectangle is written into.
CutSpace(src, dst, same, rect) ==
    IF same THEN dst ELSE Create(dst, rect[3], rect[4], src.depth, 1)

CutMade(src, dst, same, rect) ==
    LET new == CutSpace(src, dst, same, rect)
    IN  [new EXCEPT !.width = rect[3], !.height = rect[4],
                    !.data = MoveLoop(CutCall(src, same, rect), rect[4], new.data)]

LEMMA CutLoops ==
    ASSUME NEW src, IsDrawn(src), NEW dst, NEW same, NEW rect, IsRect(rect, src)
    PROVE  RectCopied(src, dst, same, rect) = CutMade(src, dst, same, rect)
<1> DEFINE new == CutSpace(src, dst, same, rect)
           m == rect[4]
           line == rect[3] * src.depth
           From(k) == ((rect[2] + k) * src.width + rect[1]) * src.depth
           call == CutCall(src, same, rect)
           Move(s, k) ==
              CopyBytes(s, k * line, IF same THEN s ELSE src.data,
                        ((rect[2] + k) * src.width + rect[1]) * src.depth, line)
           first == new.data
<1>1. RectCopied(src, dst, same, rect)
        = [new EXCEPT !.width = rect[3], !.height = rect[4], !.data = Loop(m, first, Move)]
  BY DEF RectCopied, CutSpace
<1> HIDE DEF new
<1>2. m \in Nat /\ line \in Nat
  <2>1. rect[3] \in Nat /\ m \in Nat
    BY DEF IsRect
  <2>2. src.depth \in Nat
    BY DrawnSizes
  <2> QED
    BY <2>1, <2>2
<1>3. ASSUME NEW s, NEW k \in 0..m - 1 PROVE Move(s, k) = MoveRound(call, s, k)
  <2> DEFINE t == IF same THEN s ELSE src.data
             from == From(k)
             to == k * line
  <2>1. Move(s, k) = CopyBytes(s, to, t, from, line)
    OBVIOUS
  <2>2. from \in Nat /\ to \in Nat
    <3>1. from \in Nat
      BY CutPlaces DEF IsRowOfCut
    <3> HIDE DEF line
    <3>2. to \in Nat
      BY <1>2
    <3> QED
      BY <3>1, <3>2
  <2>3. /\ call.swap = FALSE /\ call.colour = "none" /\ call.inPlace = same
        /\ call.data = src.data /\ call.to[k] = to /\ call.from[k] = from /\ call.bytes = line
    BY DEF CutCall
  <2> HIDE DEF call, from, to, line, Move
  <2>4. MoveRound(call, s, k) = Put(s, to, Piece(t, from, line))
    BY <2>3 DEF MoveRound, PutRound, Painted
  <2> HIDE DEF t
  <2>5. Put(s, to, Piece(t, from, line)) = CopyBytes(s, to, t, from, line)
    BY <1>2, <2>2, PutOfPiece
  <2> QED
    BY <2>1, <2>4, <2>5
<1> HIDE DEF call, first, m
<1>4. Loop(m, first, Move) = MoveLoop(call, m, first)
  <2>1. \A s, p : p \in 0..m - 1 => Move(s, p) = MoveRound(call, s, p)
    BY <1>3
  <2> DEFINE One(g) == [i \in 0..m |-> IF i = 0 THEN first ELSE Move(g[i - 1], i - 1)]
             Other(g) == [i \in 0..m |-> IF i = 0 THEN first ELSE MoveRound(call, g[i - 1], i - 1)]
  <2>2. /\ Loop(m, first, Move) = Holding(first, (CHOOSE g : g = One(g))[m])
        /\ MoveLoop(call, m, first) = Holding(first, (CHOOSE g : g = Other(g))[m])
    BY DEF Loop, MoveLoop
  <2>3. ASSUME NEW g PROVE One(g) = Other(g)
    <3>1. \A i \in 0..m : i # 0 => i - 1 \in 0..m - 1
      BY <1>2
    <3>2. \A i \in 0..m : i # 0 => Move(g[i - 1], i - 1) = MoveRound(call, g[i - 1], i - 1)
      BY <2>1, <3>1
    <3> HIDE DEF Move
    <3> QED
      BY <3>2
  <2> HIDE DEF One, Other, Move
  <2>4. (CHOOSE g : g = One(g)) = (CHOOSE g : g = Other(g))
    BY <2>3
  <2> QED
    BY <2>2, <2>4
<1> QED
  BY <1>1, <1>4 DEF m, first, call, new, CutMade

\* Every place of the buffer t holds the pixel of src that the rectangle has
\* there.
IsCutBuffer(t, src, rect, n) ==
    /\ t \in Buffers(n)
    /\ \A x \in 0..rect[3] - 1, y \in 0..rect[4] - 1 :
          Piece(t, (y * rect[3] + x) * src.depth, src.depth)
            = PixelAt(src, rect[1] + x, rect[2] + y)

\* Row y of the pixels of t, and pixel x of it, are those from pixel f of d.
IsRowFrom(t, y, width, d, f, b) ==
    Piece(t, y * (width * b), width * b) = Piece(d, f * b, width * b)
IsPixelFrom(t, x, y, width, d, f, b) ==
    Piece(t, (y * width + x) * b, b) = Piece(d, (f + x) * b, b)

LEMMA PixelOfRow ==
    ASSUME NEW t, NEW d, NEW b \in Nat, NEW width \in Nat, NEW f \in Nat,
           NEW y \in Nat, NEW x \in 0..width - 1, IsRowFrom(t, y, width, d, f, b)
    PROVE  IsPixelFrom(t, x, y, width, d, f, b)
<1> DEFINE line == width * b
           to == y * line
           from == f * b
           i == x * b
<1>1. line \in Nat /\ to \in Nat /\ from \in Nat /\ i \in Nat
  <2>1. line \in Nat /\ from \in Nat /\ i \in Nat
    OBVIOUS
  <2> HIDE DEF line
  <2> QED
    BY <2>1
<1>2. (y * width + x) * b = to + i
  <2>1. y * (width * b) = (width * y) * b
    BY Shuffle
  <2>2. (y * width + x) * b = (width * y) * b + x * b
    OBVIOUS
  <2> QED
    BY <2>1, <2>2
<1>3. (f + x) * b = from + i
  OBVIOUS
<1>4. ASSUME NEW c \in 1..b PROVE t[(to + i) + c] = d[(from + i) + c]
  <2>1. x * b + (c - 1) \in 0..width * b - 1
    BY PlaceInRow
  <2> DEFINE j == i + c
  <2>2. j \in 1..line
    <3>1. i + (c - 1) \in 0..line - 1
      BY <2>1
    <3> HIDE DEF i, line
    <3> QED
      BY <1>1, <3>1
  <2> HIDE DEF line, to, from, j
  <2>3. Piece(t, to, line)[j] = Piece(d, from, line)[j]
    BY DEF line, to, from, IsRowFrom
  <2>4. t[to + j] = d[from + j]
    BY <2>2, <2>3 DEF Piece
  <2>5. to + j = (to + i) + c /\ from + j = (from + i) + c
    <3> HIDE DEF i
    <3> QED
      BY <1>1 DEF j
  <2> QED
    BY <2>4, <2>5
<1> HIDE DEF to, from, i
<1>5. Piece(t, to + i, b) = Piece(d, from + i, b)
  BY <1>4 DEF Piece
<1> QED
  BY <1>2, <1>3, <1>5 DEF IsPixelFrom

LEMMA CutDraws ==
    ASSUME NEW src, IsDrawn(src), HasBytes(src), Packed(src), NEW same \in BOOLEAN,
           NEW rect, IsRect(rect, src),
           NEW n \in Nat, (rect[3] * rect[4]) * src.depth <= n, NEW s \in Buffers(n),
           same => s = src.data
    PROVE  IsCutBuffer(MoveLoop(CutCall(src, same, rect), rect[4], s), src, rect, n)
<1> DEFINE w == src.width
           h == src.height
           b == src.depth
           width == rect[3]
           m == rect[4]
           line == width * b
           From(k) == (rect[2] + k) * src.width + rect[1]
           d == src.data
           l == Len(d)
           c == CutCall(src, same, rect)
           t == MoveLoop(c, m, s)
           size == w * h
<1>1. /\ w \in Nat /\ h \in Nat /\ b \in Nat /\ width \in Nat /\ m \in Nat /\ line \in Nat
      /\ l \in Nat /\ d \in Buffers(l) /\ size \in Nat /\ size * b <= l
  <2>1. w \in Nat /\ h \in Nat /\ b \in Nat /\ l \in Nat
    BY DrawnSizes
  <2>2. size \in Nat /\ size * b <= l
    BY PackedSizes
  <2>3. d \in Buffers(l)
    BY DEF HasBytes
  <2>4. width \in Nat /\ m \in Nat
    BY DEF IsRect
  <2>5. line \in Nat
    BY <2>1, <2>4
  <2> QED
    BY <2>1, <2>2, <2>3, <2>4, <2>5
<1>2. m * line <= n
  <2>1. m * (width * b) = (width * m) * b
    BY <1>1, Shuffle
  <2> QED
    BY <2>1
<1>3. /\ c.swap = FALSE /\ c.colour = "none" /\ c.inPlace = same /\ c.data = d /\ c.bytes = line
      /\ \A k \in 0..m - 1 : c.to[k] = k * line /\ c.from[k] = From(k) * b
  BY DEF CutCall
<1>4. \A k \in 0..m - 1 : IsRowOfCut(From(k), k, w, h, b, width)
  BY CutPlaces
<1>5. \A k \in 0..m - 1 : From(k) \in Nat
  <2> SUFFICES ASSUME NEW k \in 0..m - 1 PROVE From(k) \in Nat
    OBVIOUS
  <2> DEFINE x == rect[1]
             y == rect[2] + k
  <2>1. x \in Nat /\ y \in Nat /\ w \in Nat
    <3>1. x \in Nat /\ rect[2] \in Nat /\ m \in Nat
      BY DEF IsRect
    <3>2. w \in Nat
      BY <1>1
    <3> HIDE DEF x, w, m
    <3> QED
      BY <3>1, <3>2
  <2>2. From(k) = y * w + x
    OBVIOUS
  <2> HIDE DEF x, y, w, From
  <2> QED
    BY <2>1, <2>2
<1>6. \A k \in 0..m - 1 : From(k) * b \in Nat /\ From(k) * b + line <= l /\ k * line <= From(k) * b
  <2> SUFFICES ASSUME NEW k \in 0..m - 1
               PROVE  From(k) * b \in Nat /\ From(k) * b + line <= l /\ k * line <= From(k) * b
    OBVIOUS
  <2>1. From(k) * b \in Nat /\ From(k) * b + line <= size * b /\ k * line <= From(k) * b
    BY <1>4 DEF IsRowOfCut
  <2> DEFINE f == From(k) * b
             z == size * b
  <2>2. f \in Nat /\ f + line <= z /\ z <= l
    BY <1>1, <2>1
  <2>4. z \in Nat
    <3>1. size \in Nat /\ b \in Nat
      BY <1>1
    <3> HIDE DEF size, b
    <3> QED
      BY <3>1
  <2> HIDE DEF f, z
  <2>3. f + line <= l
    BY <1>1, <2>2, <2>4
  <2> QED
    BY <2>1, <2>3 DEF f
<1> HIDE DEF w, h, b, width, m, line, From, d, l, c, t, size
<1>7. PutsInside(c, m, n, l, line, line)
  <2>1. ASSUME NEW k \in 0..m - 1
        PROVE  /\ c.to[k] \in Nat /\ c.to[k] + line <= n
               /\ c.from[k] \in Nat /\ c.from[k] + line <= l
    <3>1. k * line \in Nat /\ k * line + line <= n
      BY <1>1, <1>2, NumberedInside
    <3> QED
      BY <1>3, <1>6, <3>1
  <2>2. ASSUME NEW p \in 0..m - 1, NEW q \in 0..m - 1, p < q
        PROVE  c.to[p] + line <= c.to[q] /\ c.to[p] + line <= c.from[q]
    <3>1. p * line + line <= q * line /\ p * line \in Nat /\ q * line \in Nat
      BY <1>1, <2>2, NumberedPlaces
    <3> DEFINE x == p * line
               y == q * line
               z == From(q) * b
    <3>2. x + line <= y /\ y <= z /\ x \in Nat /\ y \in Nat /\ z \in Nat
      BY <1>6, <3>1
    <3>3. c.to[p] = x /\ c.to[q] = y /\ c.from[q] = z
      BY <1>3
    <3> HIDE DEF x, y, z
    <3> QED
      BY <1>1, <3>2, <3>3
  <2> QED
    BY <2>1, <2>2 DEF PutsInside
<1>8. IsPut(t, s, d, c, m, n, line, line)
  <2>1. IsColouring(c.colour, line, line)
    BY <1>1, <1>3 DEF IsColouring
  <2>2. d = IF c.inPlace THEN s ELSE c.data
    BY <1>3 DEF d
  <2> QED
    BY <1>1, <1>3, <1>7, <2>1, <2>2, PutDraws DEF t
<1>9. ASSUME NEW x \in 0..width - 1, NEW y \in 0..m - 1
      PROVE  Piece(t, (y * width + x) * b, b) = PixelAt(src, rect[1] + x, rect[2] + y)
  <2> DEFINE f == From(y)
             q == Piece(d, f * b, line)
             to == y * line
  <2>1. q \in Buffers(line)
    <3> DEFINE j == f * b
    <3>1. j \in Nat /\ j + line <= l
      BY <1>6
    <3> HIDE DEF j
    <3>2. Piece(d, j, line) \in Buffers(line)
      BY <1>1, <3>1, PieceBuffer
    <3> QED
      BY <3>2 DEF j
  <2>2. to = c.to[y] /\ q = Painted(c.colour, Piece(d, c.from[y], line))
    BY <1>3 DEF Painted
  <2> HIDE DEF to, q
  <2>3. Piece(t, to, line) = q
    BY <1>8, <2>1, <2>2, PutPixel
  <2>4. f \in Nat /\ y \in Nat
    BY <1>1, <1>5
  <2>5. f = (rect[2] + y) * src.width + rect[1]
    BY DEF From
  <2> HIDE DEF f
  <2>6. IsRowFrom(t, y, width, d, f, b)
    BY <2>3 DEF to, q, line, IsRowFrom
  <2>7. Piece(t, (y * width + x) * b, b) = Piece(d, (f + x) * b, b)
    <3>1. b \in Nat /\ width \in Nat
      BY <1>1
    <3>2. IsPixelFrom(t, x, y, width, d, f, b)
      BY <2>4, <2>6, <3>1, PixelOfRow
    <3> QED
      BY <3>2 DEF IsPixelFrom
  <2> DEFINE u == rect[1] + x
             v == rect[2] + y
  <2>8. u \in Nat /\ v \in Nat /\ x \in Nat /\ rect[1] \in Nat
    BY <1>1, <2>4 DEF IsRect
  <2>9. f + x = v * src.width + u
    <3> DEFINE g == v * w
    <3>1. g \in Nat
      <4> HIDE DEF v
      <4> QED
        BY <1>1, <2>8
    <3>2. f = g + rect[1]
      BY <2>5 DEF w
    <3>3. v * src.width = g
      BY DEF w
    <3> HIDE DEF g
    <3> QED
      BY <2>8, <3>1, <3>2, <3>3
  <2> HIDE DEF u, v
  <2>10. PixelAt(src, u, v) = Piece(d, (v * src.width + u) * b, b)
    BY <2>8, PackedPixel DEF d, b
  <2> QED
    BY <2>7, <2>9, <2>10 DEF u, v
<1>10. t \in Buffers(n)
  BY <1>8 DEF IsPut
<1> QED
  BY <1>9, <1>10 DEF IsCutBuffer, t, c, m, b, width

LEMMA SameCardinality ==
    ASSUME NEW S
    PROVE  Drawing!Cardinality(S) = Cardinality(S)
  BY DEF Drawing!Cardinality, Cardinality

\* A side of a rectangle, a long n, restricted to size places: it begins at x
\* and is len long.
IsSide(x, len, a, n, size) ==
    /\ x \in Nat /\ len \in Nat /\ x + len <= size
    /\ Drawing!Within(a, n, size) = x..x + len - 1

LEMMA SideRestricted ==
    ASSUME NEW a \in Int, NEW n \in Nat, NEW size \in Nat, NEW x, x = Larger(a, 0),
           NEW len, len = Larger(0, Smaller(a + n, size) - x), len > 0
    PROVE  IsSide(x, len, a, n, size)
<1>1. x = IF a > 0 THEN a ELSE 0
  BY DEF Larger
<1>2. len = IF a + n < size THEN a + n - x ELSE size - x
  <2> DEFINE end == Smaller(a + n, size)
  <2>1. end = IF a + n < size THEN a + n ELSE size
    BY DEF Smaller
  <2>2. end \in Int /\ len = IF 0 > end - x THEN 0 ELSE end - x
    BY <1>1, <2>1 DEF Larger
  <2> HIDE DEF end
  <2>3. len = end - x
    BY <1>1, <2>2
  <2> QED
    BY <2>1, <2>3
<1>3. x \in Nat /\ len \in Nat /\ x + len <= size
  BY <1>1, <1>2
<1>4. ASSUME NEW k \in Int
      PROVE  k \in 0..size - 1 /\ k >= a /\ k < a + n <=> k \in x..x + len - 1
  BY <1>1, <1>2, <1>3
<1>5. Drawing!Within(a, n, size) = x..x + len - 1
  <2>1. ASSUME NEW k PROVE k \in Drawing!Within(a, n, size) <=> k \in x..x + len - 1
    <3>1. k \in Drawing!Within(a, n, size) <=> k \in 0..size - 1 /\ k >= a /\ k < a + n
      BY DEF Drawing!Within
    <3>2. k \in x..x + len - 1 => k \in Int
      BY <1>3
    <3>3. k \in 0..size - 1 => k \in Int
      OBVIOUS
    <3> QED
      BY <1>4, <3>1, <3>2, <3>3
  <2> QED
    BY <2>1
<1> QED
  BY <1>3, <1>5 DEF IsSide

LEMMA SideOfPlaces ==
    ASSUME NEW x \in Nat, NEW len \in Nat \ {0}
    PROVE  /\ Drawing!Least(x..x + len - 1) = x
           /\ Drawing!Cardinality(x..x + len - 1) = len
           /\ x..x + len - 1 # {}
<1> DEFINE S == x..x + len - 1
<1>1. x \in S /\ \A k \in S : x <= k
  OBVIOUS
<1>2. \A y \in S : (\A k \in S : y <= k) => y = x
  BY <1>1
<1>3. Drawing!Least(S) = x
  BY <1>1, <1>2 DEF Drawing!Least
<1>4. Cardinality(S) = len
  <2> DEFINE last == x + len - 1
  <2>1. last \in Int /\ ~(x > last) /\ last - x + 1 = len /\ x \in Int
    OBVIOUS
  <2> HIDE DEF last
  <2>2. Cardinality(x..last) = last - x + 1
    BY <2>1, FS_Interval
  <2> QED
    BY <2>1, <2>2 DEF last
<1> QED
  BY <1>1, <1>3, <1>4, SameCardinality

\* The picture that a rectangle of an image cuts out.
IsCutOut(rect, r, i) ==
    /\ IsRect(rect, i)
    /\ IsSide(rect[1], rect[3], r[1], r[3], i.width)
    /\ IsSide(rect[2], rect[4], r[2], r[4], i.height)

LEMMA Restricted ==
    ASSUME NEW i, i.width \in Nat, i.height \in Nat, NEW r \in Int \X Int \X Nat \X Nat,
           RestrictBy(r, i)[3] > 0, RestrictBy(r, i)[4] > 0
    PROVE  IsCutOut(RestrictBy(r, i), r, i)
<1> DEFINE rect == RestrictBy(r, i)
<1>1. /\ rect[1] = Larger(r[1], 0) /\ rect[2] = Larger(r[2], 0)
      /\ rect[3] = Larger(0, Smaller(r[1] + r[3], i.width) - rect[1])
      /\ rect[4] = Larger(0, Smaller(r[2] + r[4], i.height) - rect[2])
  BY DEF RestrictBy
<1>2. r[1] \in Int /\ r[2] \in Int /\ r[3] \in Nat /\ r[4] \in Nat
  OBVIOUS
<1>3. rect[3] > 0 /\ rect[4] > 0
  OBVIOUS
<1> HIDE DEF rect
<1>4. IsSide(rect[1], rect[3], r[1], r[3], i.width)
  BY <1>1, <1>2, <1>3, SideRestricted
<1>5. IsSide(rect[2], rect[4], r[2], r[4], i.height)
  BY <1>1, <1>2, <1>3, SideRestricted
<1>6. IsRect(rect, i)
  <2>1. rect[1] \in Nat /\ rect[3] \in Nat /\ rect[1] + rect[3] <= i.width
    BY <1>4 DEF IsSide
  <2>2. rect[2] \in Nat /\ rect[4] \in Nat /\ rect[2] + rect[4] <= i.height
    BY <1>5 DEF IsSide
  <2>3. rect[3] \in Nat \ {0} /\ rect[4] \in Nat \ {0}
    BY <1>3, <2>1, <2>2
  <2> QED
    BY <2>1, <2>2, <2>3 DEF IsRect
<1>7. IsCutOut(rect, r, i)
  BY <1>4, <1>5, <1>6 DEF IsCutOut
<1> QED
  BY <1>7 DEF rect

LEMMA CutPicture ==
    ASSUME NEW src, IsDrawn(src), Packed(src), NEW rect, NEW r, IsCutOut(rect, r, src),
           NEW new, IsDrawn(new), HasBytes(new), Packed(new),
           new.width = rect[3], new.height = rect[4], new.depth = src.depth,
           NEW n, IsCutBuffer(new.data, src, rect, n)
    PROVE  Drawing!Meets(Picture(src), r) /\ IsResult(new, Drawing!Cut(Picture(src), r))
<1> DEFINE p == Picture(src)
           shown == p.pixel
           x0 == rect[1]
           y0 == rect[2]
           w == rect[3]
           h == rect[4]
           columns == Drawing!Within(r[1], r[3], p.width)
           rows == Drawing!Within(r[2], r[4], p.height)
           pixel == [z \in (0..w - 1) \X (0..h - 1) |-> shown[<<z[1] + x0, z[2] + y0>>]]
<1>1. p.width = src.width /\ p.height = src.height
  BY PictureFields
<1>2. \A x \in Columns(src), y \in Rows(src) : shown[<<x, y>>] = PixelAt(src, x, y)
  BY PictureFields
<1> HIDE DEF p
<1>3. /\ x0 \in Nat /\ y0 \in Nat /\ w \in Nat \ {0} /\ h \in Nat \ {0}
      /\ x0 + w <= src.width /\ y0 + h <= src.height
      /\ src.width \in Nat /\ src.height \in Nat
  BY DrawnSizes DEF IsCutOut, IsRect
<1>4. columns = x0..x0 + w - 1 /\ rows = y0..y0 + h - 1
  BY <1>1 DEF IsCutOut, IsSide
<1>5. /\ columns # {} /\ Drawing!Least(columns) = x0 /\ Drawing!Cardinality(columns) = w
      /\ rows # {} /\ Drawing!Least(rows) = y0 /\ Drawing!Cardinality(rows) = h
  <2> HIDE DEF columns, rows, x0, y0, w, h
  <2> QED
    BY <1>3, <1>4, SideOfPlaces
<1>6. Drawing!Meets(p, r)
  BY <1>5 DEF Drawing!Meets
<1>7. Drawing!Cut(p, r) = [width |-> w, height |-> h, pixel |-> pixel]
  <2> HIDE DEF w, h, x0, y0
  <2> QED
    BY <1>5 DEF Drawing!Cut, Drawing!Drawn
<1>8. ASSUME NEW x \in 0..w - 1, NEW y \in 0..h - 1 PROVE PixelAt(new, x, y) = pixel[<<x, y>>]
  <2>1. x \in Nat /\ y \in Nat /\ x0 + x \in Columns(src) /\ y0 + y \in Rows(src)
    BY <1>3 DEF Columns, Rows
  <2>2. PixelAt(new, x, y) = Piece(new.data, (y * new.width + x) * new.depth, new.depth)
    BY <2>1, PackedPixel
  <2>3. PixelAt(new, x, y) = PixelAt(src, x0 + x, y0 + y)
    BY <2>2 DEF IsCutBuffer
  <2>4. shown[<<x0 + x, y0 + y>>] = PixelAt(src, x0 + x, y0 + y)
    BY <1>2, <2>1
  <2>5. x0 + x = x + x0 /\ y0 + y = y + y0
    BY <1>3, <2>1
  <2>6. pixel[<<x, y>>] = shown[<<x + x0, y + y0>>]
    OBVIOUS
  <2> QED
    BY <2>3, <2>4, <2>5, <2>6
<1>9. IsResult(new, [width |-> w, height |-> h, pixel |-> pixel])
  <2>1. new.width = w /\ new.height = h /\ pixel = [z \in (0..w - 1) \X (0..h - 1) |-> pixel[z]]
    OBVIOUS
  <2> HIDE DEF pixel, w, h
  <2> QED
    BY <1>8, <2>1, Result
<1> QED
  BY <1>6, <1>7, <1>9 DEF p

IsCutResult(new, src, r) ==
    Drawing!Meets(Picture(src), r) /\ IsResult(new, Drawing!Cut(Picture(src), r))

IsCutSpace(new, src, same, rect) ==
    /\ IsDrawn(new) /\ HasBytes(new) /\ Packed(new) /\ new.depth = src.depth
    /\ rect[3] <= new.width /\ rect[4] <= new.height
    /\ same => new = src
    /\ (rect[3] * rect[4]) * src.depth <= Len(new.data)

LEMMA CutSpaceMade ==
    ASSUME NEW src, IsDrawn(src), HasBytes(src), Packed(src),
           NEW dst, IsImage(dst), HasBytes(dst), NEW same \in BOOLEAN, same => dst = src,
           NEW rect, IsRect(rect, src)
    PROVE  IsCutSpace(CutSpace(src, dst, same, rect), src, same, rect)
<1> DEFINE w == rect[3]
           h == rect[4]
           b == src.depth
           one == 1
           new == CutSpace(src, dst, same, rect)
<1>1. /\ w \in Nat \ {0} /\ h \in Nat \ {0} /\ b \in {1, 3, 4} /\ b \in Nat
      /\ one \in Nat \ {0} /\ one = 1
      /\ w <= src.width /\ h <= src.height /\ src.width \in Nat /\ src.height \in Nat
  <2>1. /\ rect[1] \in Nat /\ rect[2] \in Nat /\ w \in Nat \ {0} /\ h \in Nat \ {0}
        /\ rect[1] + w <= src.width /\ rect[2] + h <= src.height
    BY DEF IsRect
  <2>2. src.width \in Nat /\ src.height \in Nat /\ b \in {1, 3, 4}
    BY DrawnSizes
  <2>3. w <= src.width /\ h <= src.height
    <3> HIDE DEF w, h
    <3> QED
      BY <2>1, <2>2
  <2> QED
    BY <2>1, <2>2, <2>3
<1>2. CASE same
  <2>1. new = src
    BY <1>2 DEF CutSpace
  <2>2. (src.width * src.height) * b <= Len(src.data) /\ Len(src.data) \in Nat
    BY PackedSizes, DrawnSizes
  <2>3. (w * h) * b <= (src.width * src.height) * b /\ (w * h) * b \in Nat
    <3> DEFINE u == src.width
               v == src.height
    <3>1. u \in Nat /\ v \in Nat /\ w <= u /\ h <= v /\ w \in Nat /\ h \in Nat /\ b \in Nat
      BY <1>1
    <3> HIDE DEF u, v, w, h, b
    <3>2. w * h <= u * h /\ h * u <= v * u
      BY <3>1, Products
    <3>3. w * h \in Nat /\ u * v \in Nat /\ w * h <= u * v
      BY <3>1, <3>2
    <3> DEFINE x == w * h
               y == u * v
    <3>4. x \in Nat /\ y \in Nat /\ x <= y
      BY <3>3
    <3> HIDE DEF x, y
    <3>5. x * b <= y * b /\ x * b \in Nat
      BY <3>1, <3>4, Products
    <3> QED
      BY <3>5 DEF x, y, u, v
  <2>4. (w * h) * b <= Len(src.data)
    <3> DEFINE x == (w * h) * b
               y == (src.width * src.height) * b
               z == Len(src.data)
    <3>1. y \in Nat
      <4>1. src.width * src.height \in Nat
        BY PackedSizes
      <4> DEFINE g == src.width * src.height
      <4> HIDE DEF g, b
      <4> QED
        BY <1>1, <4>1 DEF g
    <3>2. x <= y /\ x \in Nat /\ y <= z /\ z \in Nat
      BY <2>2, <2>3
    <3> HIDE DEF x, y, z
    <3>3. x <= z
      BY <3>1, <3>2
    <3> QED
      BY <3>3 DEF x, z
  <2> HIDE DEF new
  <2> QED
    BY <1>1, <2>1, <2>4 DEF IsCutSpace, new
<1>3. CASE ~same
  <2>1. new = Create(dst, w, h, b, one)
    BY <1>3 DEF CutSpace
  <2> HIDE DEF w, h, b, one, new
  <2>2. IsMade(Create(dst, w, h, b, one), w, h, b, one)
    BY <1>1, CreateMakes
  <2>3. /\ IsDrawn(new) /\ HasBytes(new) /\ Packed(new)
        /\ new.width = w /\ new.height = h /\ new.depth = b
    BY <1>1, <2>1, <2>2 DEF IsMade, Packed
  <2>4. (new.width * new.height) * new.depth <= Len(new.data)
    BY <2>3, PackedSizes
  <2>5. w <= w /\ h <= h
    BY <1>1
  <2>6. IsCutSpace(new, src, same, rect)
    BY <1>3, <2>3, <2>4, <2>5 DEF IsCutSpace, w, h, b
  <2> QED
    BY <2>6 DEF new
<1> QED
  BY <1>2, <1>3

\* The image i with sizes set and other bytes.
IsCropped(r, i, w, h, d) ==
    /\ HasBytes(r) /\ r.data = d /\ r.width = w /\ r.height = h
    /\ r.depth = i.depth /\ r.align = i.align

LEMMA Cropped ==
    ASSUME NEW i, IsDrawn(i), HasBytes(i), NEW w, NEW h, NEW d \in Buffers(Len(i.data))
    PROVE  IsCropped([i EXCEPT !.width = w, !.height = h, !.data = d], i, w, h, d)
<1> DEFINE r == [i EXCEPT !.width = w, !.height = h, !.data = d]
<1>1. i = [f \in Fields |-> i[f]] /\ Len(i.data) \in Nat
  BY DEF IsDrawn, IsImage, IsSized, Covers
<1>2. /\ r.data = d /\ r.keep = i.keep /\ r.width = w /\ r.height = h
      /\ r.depth = i.depth /\ r.align = i.align
  BY <1>1 DEF Fields
<1>3. Len(d) = Len(i.data)
  BY <1>1, BufferLength
<1> QED
  BY <1>2, <1>3 DEF HasBytes, IsCropped

\* Cut out in place or into another image.
LEMMA RectCopiedDraws ==
    ASSUME NEW src, IsDrawn(src), HasBytes(src), Packed(src),
           NEW dst, IsImage(dst), HasBytes(dst), NEW same \in BOOLEAN, same => dst = src,
           NEW rect, NEW r, IsCutOut(rect, r, src)
    PROVE  IsCutResult(RectCopied(src, dst, same, rect), src, r)
<1> DEFINE w == rect[3]
           h == rect[4]
           new == CutSpace(src, dst, same, rect)
           n == Len(new.data)
           t == MoveLoop(CutCall(src, same, rect), rect[4], new.data)
           made == RectCopied(src, dst, same, rect)
<1>1. IsRect(rect, src)
  BY DEF IsCutOut
<1>2. IsCutSpace(new, src, same, rect)
  BY <1>1, CutSpaceMade
<1>3. made = [new EXCEPT !.width = w, !.height = h, !.data = t]
  <2>1. made = CutMade(src, dst, same, rect)
    BY <1>1, CutLoops
  <2> HIDE DEF made
  <2> QED
    BY <2>1 DEF CutMade
<1> HIDE DEF new, t, made
<1>4. /\ IsDrawn(new) /\ HasBytes(new) /\ Packed(new) /\ new.depth = src.depth
      /\ same => new = src
      /\ (rect[3] * rect[4]) * src.depth <= n
  BY <1>2 DEF IsCutSpace
<1>5. n \in Nat /\ new.data \in Buffers(n)
  BY <1>4, DrawnSizes DEF HasBytes
<1>6. IsCutBuffer(t, src, rect, n)
  <2> DEFINE s == new.data
  <2>1. s \in Buffers(n) /\ (same => s = src.data)
    BY <1>4, <1>5
  <2> HIDE DEF n, s
  <2>2. IsCutBuffer(MoveLoop(CutCall(src, same, rect), rect[4], s), src, rect, n)
    BY <1>1, <1>4, <1>5, <2>1, CutDraws
  <2> QED
    BY <2>2 DEF t, s
<1>7. t \in Buffers(Len(new.data))
  BY <1>6 DEF IsCutBuffer
<1>8. /\ HasBytes(made) /\ made.data = t /\ made.width = w /\ made.height = h
      /\ made.depth = new.depth /\ made.align = new.align
  <2>1. IsCropped([new EXCEPT !.width = w, !.height = h, !.data = t], new, w, h, t)
    BY <1>4, <1>7, Cropped
  <2> QED
    BY <1>3, <2>1 DEF IsCropped
<1>9. IsDrawn(made)
  <2>1. /\ rect[3] \in Nat \ {0} /\ rect[4] \in Nat \ {0}
        /\ rect[3] <= src.width /\ rect[4] <= src.height
    <3>1. /\ rect[3] \in Nat \ {0} /\ rect[4] \in Nat \ {0} /\ rect[1] \in Nat /\ rect[2] \in Nat
          /\ rect[1] + rect[3] <= src.width /\ rect[2] + rect[4] <= src.height
      BY <1>1 DEF IsRect
    <3> QED
      BY <3>1, DrawnSizes
  <2> QED
    BY <2>1, RectCopiedTyped DEF made
<1>10. Packed(made) /\ made.depth = src.depth
  BY <1>4, <1>8 DEF Packed
<1>11. Drawing!Meets(Picture(src), r) /\ IsResult(made, Drawing!Cut(Picture(src), r))
  BY <1>6, <1>8, <1>9, <1>10, CutPicture
<1> QED
  BY <1>11 DEF IsCutResult, made

-----------------------------------------------------------------------------
(* Colours                                                                 *)

\* Where pixel p of an image begins, with its column and row.
IsPlace(k, i, x, y) == k \in Nat /\ k = y * AlignedScanline(i) + x * i.depth

LEMMA PlaceOfPixel ==
    ASSUME NEW i, IsDrawn(i), NEW p \in 0..i.width * i.height - 1
    PROVE  /\ p % i.width \in Columns(i) /\ p \div i.width \in Rows(i)
           /\ IsPlace(PlaceOf(i, p), i, p % i.width, p \div i.width)
<1> DEFINE w == i.width
           h == i.height
           x == p % w
           y == p \div w
           line == AlignedScanline(i)
           d == i.depth
<1>1. w \in Nat \ {0} /\ h \in Nat /\ line \in Nat /\ d \in Nat
  BY DrawnSizes
<1>2. x \in 0..w - 1 /\ y \in 0..h - 1
  BY <1>1, PixelOfNumber
<1>3. PlaceOf(i, p) = y * line + x * d
  BY DEF PlaceOf
<1> HIDE DEF x, y, line, d, w, h
<1>4. y * line + x * d \in Nat
  <2>1. x \in Nat /\ y \in Nat
    BY <1>1, <1>2
  <2> QED
    BY <1>1, <2>1
<1> QED
  BY <1>2, <1>3, <1>4 DEF IsPlace, Columns, Rows, x, y, w, h, line, d

\* The place after a pixel is not after the next pixel, nor after the rows.
LEMMA PlacesFollow ==
    ASSUME NEW w \in Nat, NEW d \in Nat, NEW line \in Nat, w * d <= line,
           NEW x \in 0..w - 1, NEW y \in Nat, NEW u \in Nat, NEW v \in Nat,
           y < v \/ (y = v /\ x < u)
    PROVE  (y * line + x * d) + d <= v * line + u * d
<1>1. x * d + d <= w * d /\ x * d \in Nat /\ w * d \in Nat
  BY NumberedPlaces
<1>2. CASE y < v
  <2>1. y * line + line <= v * line /\ y * line \in Nat /\ v * line \in Nat
    BY <1>2, NumberedPlaces
  <2>2. u * d \in Nat
    OBVIOUS
  <2> DEFINE a == y * line
             b == v * line
             c == x * d
             e == w * d
             f == u * d
  <2>3. /\ a \in Nat /\ b \in Nat /\ c \in Nat /\ e \in Nat /\ f \in Nat
        /\ a + line <= b /\ c + d <= e /\ e <= line
    BY <1>1, <2>1, <2>2
  <2> HIDE DEF a, b, c, e, f
  <2>4. (a + c) + d <= b + f
    BY <2>3
  <2> QED
    BY <2>4 DEF a, b, c, f
<1>3. CASE y = v /\ x < u
  <2>1. x * d + d <= u * d /\ x * d \in Nat /\ u * d \in Nat
    BY <1>3, NumberedPlaces
  <2> DEFINE a == y * line
             c == x * d
             f == u * d
  <2>2. a \in Nat /\ c \in Nat /\ f \in Nat /\ c + d <= f
    BY <2>1
  <2> HIDE DEF a, c, f
  <2>3. (a + c) + d <= a + f
    BY <2>2
  <2> QED
    BY <1>3, <2>3 DEF a, c, f
<1> QED
  BY <1>2, <1>3

\* Pixels that are numbered in a row are in the order of their places.
LEMMA PixelsFollow ==
    ASSUME NEW w \in Nat \ {0}, NEW h \in Nat, NEW p \in 0..w * h - 1, NEW q \in 0..w * h - 1, p < q
    PROVE  p \div w < q \div w \/ (p \div w = q \div w /\ p % w < q % w)
<1> DEFINE x == p % w
           y == p \div w
           u == q % w
           v == q \div w
<1>1. /\ x \in 0..w - 1 /\ y \in 0..h - 1 /\ p = y * w + x
      /\ u \in 0..w - 1 /\ v \in 0..h - 1 /\ q = v * w + u
  BY PixelOfNumber
<1>2. x \in Nat /\ y \in Nat /\ u \in Nat /\ v \in Nat /\ u < w
  BY <1>1
<1> HIDE DEF x, y, u, v
<1>3. ASSUME v < y PROVE FALSE
  <2>1. v * w + w <= y * w /\ v * w \in Nat /\ y * w \in Nat
    BY <1>2, <1>3, NumberedPlaces
  <2> DEFINE a == v * w
             b == y * w
  <2>2. a + w <= b /\ a \in Nat /\ b \in Nat /\ p = b + x /\ q = a + u
    BY <1>1, <2>1
  <2> HIDE DEF a, b
  <2> QED
    BY <1>2, <2>2
<1>4. ASSUME y = v PROVE x < u
  <2> DEFINE a == v * w
  <2>1. a \in Nat /\ p = a + x /\ q = a + u
    BY <1>1, <1>2, <1>4
  <2> HIDE DEF a
  <2> QED
    BY <1>2, <2>1
<1>5. y < v \/ (y = v /\ x < u)
  BY <1>2, <1>3, <1>4
<1> QED
  BY <1>5 DEF x, y, u, v

\* The places of the pixels of an image, in order.
ArePlaces(i, p, q) ==
    /\ PlaceOf(i, p) \in Nat
    /\ PlaceOf(i, p) + i.depth <= i.height * AlignedScanline(i)
    /\ p < q => PlaceOf(i, p) + i.depth <= PlaceOf(i, q)

LEMMA PlacesInOrder ==
    ASSUME NEW i, IsDrawn(i), NEW p \in 0..i.width * i.height - 1,
           NEW q \in 0..i.width * i.height - 1
    PROVE  ArePlaces(i, p, q)
<1> DEFINE w == i.width
           h == i.height
           d == i.depth
           line == AlignedScanline(i)
           x == p % w
           y == p \div w
           u == q % w
           v == q \div w
           k == PlaceOf(i, p)
           l == PlaceOf(i, q)
<1>1. w \in Nat \ {0} /\ h \in Nat /\ d \in Nat /\ line \in Nat /\ w * d <= line
  BY DrawnSizes
<1>2. /\ x \in 0..w - 1 /\ y \in 0..h - 1 /\ u \in 0..w - 1 /\ v \in 0..h - 1
      /\ IsPlace(k, i, x, y) /\ IsPlace(l, i, u, v)
  BY PlaceOfPixel DEF Columns, Rows
<1>3. k \in Nat /\ k = y * line + x * d /\ l = v * line + u * d
  BY <1>2 DEF IsPlace
<1>4. p < q => y < v \/ (y = v /\ x < u)
  BY <1>1, PixelsFollow
<1> HIDE DEF w, h, d, line, x, y, u, v, k, l
<1>5. x \in Nat /\ y \in Nat /\ u \in Nat /\ v \in Nat /\ y < h
  BY <1>1, <1>2
<1>6. p < q => k + d <= l
  <2> SUFFICES ASSUME p < q PROVE k + d <= l
    OBVIOUS
  <2>1. (y * line + x * d) + d <= v * line + u * d
    BY <1>1, <1>2, <1>4, <1>5, PlacesFollow
  <2> QED
    BY <1>3, <2>1
<1>7. k + d <= h * line
  <2> DEFINE zero == 0
  <2>1. zero \in Nat /\ zero = 0
    OBVIOUS
  <2> HIDE DEF zero
  <2>2. (y * line + x * d) + d <= h * line + zero * d
    BY <1>1, <1>2, <1>5, <2>1, PlacesFollow
  <2>3. h * line + zero * d = h * line
    <3>1. zero * d = 0 /\ h * line \in Nat
      BY <1>1, <2>1
    <3> QED
      BY <3>1
  <2> QED
    BY <1>3, <2>2, <2>3
<1> QED
  BY <1>3, <1>6, <1>7 DEF ArePlaces, k, l, d, h, line

\* The length of a row is the next one that is a multiple of the alignment.
IsAligned(k, n, align) ==
    k \in Nat /\ n <= k /\ k < n + align /\ \E q \in Nat : k = q * align

LEMMA ScanlineAligned ==
    ASSUME NEW n \in Nat, NEW align \in Nat \ {0}, NEW k, k = ScanlineToAlign(n, align)
    PROVE  IsAligned(k, n, align)
<1> DEFINE q == n \div align
           r == n % align
<1>1. q \in Nat /\ r \in 0..align - 1 /\ n = q * align + r
  OBVIOUS
<1>2. k = IF r # 0 THEN (q + 1) * align ELSE n
  BY DEF ScanlineToAlign
<1> HIDE DEF q, r
<1>3. (q + 1) * align = q * align + align /\ q * align \in Nat
  BY <1>1
<1>4. CASE r = 0
  <2>1. k = q * align
    BY <1>1, <1>2, <1>3, <1>4
  <2> QED
    BY <1>1, <1>2, <1>4, <2>1 DEF IsAligned
<1>5. CASE r # 0
  <2>1. k = (q + 1) * align /\ q + 1 \in Nat
    BY <1>1, <1>2, <1>5
  <2> DEFINE a == q * align
  <2>2. k = a + align /\ a \in Nat /\ n = a + r
    BY <1>1, <1>3, <2>1
  <2> HIDE DEF a
  <2>3. k \in Nat /\ n <= k /\ k < n + align
    BY <1>1, <1>5, <2>2
  <2> QED
    BY <2>1, <2>3 DEF IsAligned
<1> QED
  BY <1>4, <1>5

LEMMA ScanlinesInOrder ==
    ASSUME NEW n \in Nat, NEW m \in Nat, n <= m, NEW align \in Nat \ {0}
    PROVE  ScanlineToAlign(n, align) <= ScanlineToAlign(m, align)
<1> DEFINE k == ScanlineToAlign(n, align)
           l == ScanlineToAlign(m, align)
<1>1. IsAligned(k, n, align) /\ IsAligned(l, m, align)
  BY ScanlineAligned
<1> HIDE DEF k, l
<1>2. PICK q \in Nat : k = q * align
  BY <1>1 DEF IsAligned
<1>3. PICK p \in Nat : l = p * align
  BY <1>1 DEF IsAligned
<1>4. k \in Nat /\ k < n + align /\ l \in Nat /\ m <= l
  BY <1>1 DEF IsAligned
<1>5. ASSUME p < q PROVE FALSE
  <2>1. p * align + align <= q * align
    BY <1>5, NumberedPlaces
  <2>2. l + align <= k
    BY <1>2, <1>3, <2>1
  <2> QED
    BY <1>4, <2>2
<1>6. k <= l
  <2>1. q <= p
    BY <1>5
  <2>2. q * align <= p * align
    BY <2>1, Products
  <2> QED
    BY <1>2, <1>3, <2>2
<1> QED
  BY <1>6 DEF k, l

\* An image of the sizes of i with e bytes for a pixel.
IsRepainted(new, i, e) ==
    /\ IsDrawn(new) /\ new.depth = e
    /\ new.width = i.width /\ new.height = i.height /\ new.align = i.align

\* With smaller pixels, no pixel is further from the beginning.
LEMMA PlacesShrink ==
    ASSUME NEW i, IsDrawn(i), NEW e, NEW new, IsRepainted(new, i, e), e <= i.depth,
           NEW p \in 0..i.width * i.height - 1
    PROVE  PlaceOf(new, p) <= PlaceOf(i, p)
<1> DEFINE w == i.width
           h == i.height
           x == p % w
           y == p \div w
           k == PlaceOf(new, p)
           l == PlaceOf(i, p)
           d == i.depth
           long == AlignedScanline(i)
           short == AlignedScanline(new)
<1>1. w \in Nat /\ h \in Nat /\ d \in Nat /\ e \in Nat /\ e <= d /\ long \in Nat /\ short \in Nat
  BY DrawnSizes DEF IsRepainted
<1>2. x \in 0..w - 1 /\ y \in 0..h - 1 /\ IsPlace(l, i, x, y) /\ IsPlace(k, new, x, y)
  BY PlaceOfPixel DEF Columns, Rows, IsRepainted
<1>3. k = y * short + x * e /\ l = y * long + x * d
  BY <1>2 DEF IsPlace, IsRepainted
<1>4. short <= long
  <2> DEFINE n == w * e
             m == w * d
  <2>1. n \in Nat /\ m \in Nat /\ n <= m
    <3> HIDE DEF w, d
    <3>1. e * w <= d * w
      BY <1>1, Products
    <3> QED
      BY <1>1, <3>1
  <2>2. short = ScanlineToAlign(n, i.align) /\ long = ScanlineToAlign(m, i.align)
    BY DEF AlignedScanline, Scanline, IsRepainted
  <2>3. i.align \in Nat \ {0}
    BY DrawnSizes
  <2> HIDE DEF n, m
  <2> QED
    BY <2>1, <2>2, <2>3, ScanlinesInOrder
<1> HIDE DEF w, h, x, y, k, l, d, long, short
<1>5. x \in Nat /\ y \in Nat
  BY <1>1, <1>2
<1>6. short * y <= long * y /\ e * x <= d * x
  BY <1>1, <1>4, <1>5, Products
<1>7. /\ short * y = y * short /\ long * y = y * long /\ e * x = x * e /\ d * x = x * d
      /\ y * short \in Nat /\ y * long \in Nat /\ x * e \in Nat /\ x * d \in Nat
  BY <1>1, <1>5
<1> DEFINE a == y * short
           b == y * long
           f == x * e
           g == x * d
<1>8. a \in Nat /\ b \in Nat /\ f \in Nat /\ g \in Nat /\ a <= b /\ f <= g
  BY <1>6, <1>7
<1> HIDE DEF a, b, f, g
<1>9. a + f <= b + g
  BY <1>8
<1> QED
  BY <1>3, <1>9 DEF a, b, f, g, k, l

\* A loop over the pixels of src that puts each, in a colour made of its first
\* bytes, where it is in new.
PaintCall(colour, src, new, same, bytes) ==
    LET numbers == 0..src.width * src.height - 1
    IN  [swap |-> FALSE, colour |-> colour, inPlace |-> same, data |-> src.data,
         to |-> [p \in numbers |-> PlaceOf(new, p)],
         from |-> [p \in numbers |-> PlaceOf(src, p)], bytes |-> bytes]

IsPaintedBuffer(t, new, src, colour, b, n) ==
    /\ t \in Buffers(n)
    /\ \A x \in Columns(src), y \in Rows(src) :
          Piece(t, y * AlignedScanline(new) + x * new.depth, new.depth)
            = Painted(colour, Piece(src.data, y * AlignedScanline(src) + x * src.depth, b))

LEMMA PaintPlaces ==
    ASSUME NEW src, IsDrawn(src), NEW e, NEW new, IsRepainted(new, src, e),
           NEW c, NEW colour, NEW same, same => e <= src.depth, NEW b \in Nat, b <= src.depth,
           c = PaintCall(colour, src, new, same, b),
           NEW n \in Nat, new.height * AlignedScanline(new) <= n, NEW m, m = src.width * src.height
    PROVE  PutsInside(c, m, n, Len(src.data), b, e)
<1> DEFINE l == Len(src.data)
           To(p) == PlaceOf(new, p)
           From(p) == PlaceOf(src, p)
           room == new.height * AlignedScanline(new)
           size == src.height * AlignedScanline(src)
           d == src.depth
<1>1. /\ l \in Nat /\ e \in Nat /\ d \in Nat /\ size \in Nat /\ room \in Nat
      /\ size <= l /\ room <= n /\ new.depth = e
  BY DrawnSizes DEF IsRepainted
<1>2. \A p, q \in 0..m - 1 : ArePlaces(new, p, q) /\ ArePlaces(src, p, q)
  BY PlacesInOrder DEF IsRepainted
<1>3. /\ \A p \in 0..m - 1 : c.to[p] = To(p) /\ c.from[p] = From(p)
      /\ c.inPlace = same
  BY DEF PaintCall
<1>4. e <= d => \A p \in 0..m - 1 : To(p) <= From(p)
  BY PlacesShrink
<1>5. \A p, q \in 0..m - 1 :
         /\ To(p) \in Nat /\ To(p) + e <= room /\ From(p) \in Nat /\ From(p) + d <= size
         /\ p < q => To(p) + e <= To(q)
  BY <1>1, <1>2 DEF ArePlaces
<1> HIDE DEF l, To, From, room, size, d
<1>6. \A p \in 0..m - 1 : To(p) + e <= n /\ From(p) + b <= l
  <2> SUFFICES ASSUME NEW p \in 0..m - 1 PROVE To(p) + e <= n /\ From(p) + b <= l
    OBVIOUS
  <2>1. To(p) \in Nat /\ To(p) + e <= room /\ From(p) \in Nat /\ From(p) + d <= size
    BY <1>5
  <2>2. b <= d
    BY DEF d
  <2> QED
    BY <1>1, <2>1, <2>2
<1>7. \A p, q \in 0..m - 1 : p < q => To(p) + e <= To(q)
  BY <1>5
<1>8. same => \A p, q \in 0..m - 1 : p < q => To(p) + e <= From(q)
  <2> SUFFICES ASSUME same, NEW p \in 0..m - 1, NEW q \in 0..m - 1, p < q
               PROVE  To(p) + e <= From(q)
    OBVIOUS
  <2>1. To(p) + e <= To(q) /\ To(q) <= From(q)
    BY <1>4, <1>7 DEF d
  <2>2. To(p) \in Nat /\ To(q) \in Nat /\ From(q) \in Nat
    BY <1>5
  <2> QED
    BY <1>1, <2>1, <2>2
<1>9. \A p \in 0..m - 1 : /\ c.to[p] \in Nat /\ c.to[p] + e <= n
                          /\ c.from[p] \in Nat /\ c.from[p] + b <= l
  BY <1>3, <1>5, <1>6
<1>10. \A p, q \in 0..m - 1 : p < q => c.to[p] + e <= c.to[q]
  BY <1>3, <1>7
<1>11. c.inPlace => \A p, q \in 0..m - 1 : p < q => c.to[p] + e <= c.from[q]
  BY <1>3, <1>8
<1> QED
  BY <1>9, <1>10, <1>11 DEF PutsInside, l

LEMMA PaintDraws ==
    ASSUME NEW src, IsDrawn(src), HasBytes(src), NEW e, NEW new, IsRepainted(new, src, e),
           NEW colour, NEW same \in BOOLEAN, same => e <= src.depth,
           NEW b \in Nat, b <= src.depth, IsColouring(colour, b, e),
           NEW n \in Nat, new.height * AlignedScanline(new) <= n,
           NEW s \in Buffers(n), same => s = src.data
    PROVE  IsPaintedBuffer(MoveLoop(PaintCall(colour, src, new, same, b),
                                    src.width * src.height, s), new, src, colour, b, n)
<1> DEFINE w == src.width
           h == src.height
           m == w * h
           d == src.data
           l == Len(d)
           c == PaintCall(colour, src, new, same, b)
           t == MoveLoop(c, m, s)
<1>1. /\ w \in Nat \ {0} /\ h \in Nat \ {0} /\ m \in Nat /\ l \in Nat /\ d \in Buffers(l)
      /\ new.width = w /\ new.height = h /\ new.depth = e
  BY DrawnSizes DEF HasBytes, IsRepainted
<1>2. /\ c.swap = FALSE /\ c.colour = colour /\ c.inPlace = same /\ c.data = d /\ c.bytes = b
      /\ \A p \in 0..m - 1 : c.to[p] = PlaceOf(new, p) /\ c.from[p] = PlaceOf(src, p)
  BY DEF PaintCall
<1>3. c = PaintCall(colour, src, new, same, b) /\ m = src.width * src.height
  OBVIOUS
<1> HIDE DEF m, c, t
<1>4. PutsInside(c, m, n, l, b, e)
  BY <1>3, PaintPlaces
<1> HIDE DEF w, h, d, l
<1>5. IsPut(t, s, d, c, m, n, b, e)
  <2>1. d = IF c.inPlace THEN s ELSE c.data
    BY <1>2 DEF d
  <2> QED
    BY <1>1, <1>2, <1>4, <2>1, PutDraws DEF t
<1>6. ASSUME NEW x \in Columns(src), NEW y \in Rows(src)
      PROVE  Piece(t, y * AlignedScanline(new) + x * new.depth, new.depth)
               = Painted(colour, Piece(d, y * AlignedScanline(src) + x * src.depth, b))
  <2> DEFINE p == y * w + x
             k == PlaceOf(new, p)
             j == PlaceOf(src, p)
             q == Painted(colour, Piece(d, j, b))
  <2>1. p = y * w + x /\ x \in 0..w - 1 /\ y \in 0..h - 1
    BY DEF Columns, Rows, w, h
  <2> HIDE DEF p
  <2>2. IsNumberOf(p, x, y, w, h)
    BY <1>1, <2>1, NumberOfPixel
  <2>3. p \in 0..m - 1 /\ p % w = x /\ p \div w = y
    BY <2>2 DEF IsNumberOf, m
  <2>4. k = y * AlignedScanline(new) + x * new.depth
    BY <1>1, <2>3 DEF PlaceOf
  <2>5. j = y * AlignedScanline(src) + x * src.depth
    BY <2>3 DEF PlaceOf, w
  <2>6. q \in Buffers(e)
    <3> DEFINE piece == Piece(d, j, b)
    <3>1. j \in Nat /\ j + b <= l
      BY <1>2, <1>4, <2>3 DEF PutsInside
    <3> HIDE DEF j
    <3>2. piece \in Buffers(b)
      BY <1>1, <3>1, PieceBuffer
    <3> HIDE DEF piece
    <3>3. Painted(colour, piece) \in Buffers(e)
      BY <3>2, PaintedTyped
    <3> QED
      BY <3>3 DEF piece
  <2>7. k = c.to[p] /\ q = Painted(c.colour, Piece(d, c.from[p], b))
    BY <1>2, <2>3
  <2> HIDE DEF k, q
  <2>8. Piece(t, k, e) = q
    BY <1>5, <2>3, <2>6, <2>7, PutPixel
  <2> QED
    BY <1>1, <2>4, <2>5, <2>8 DEF q
<1>7. t \in Buffers(n)
  BY <1>5 DEF IsPut
<1> QED
  BY <1>6, <1>7 DEF IsPaintedBuffer, t, c, m, w, h, d

\* The picture p in another colour.
Repainted(p, colour) ==
    [width |-> p.width, height |-> p.height,
     pixel |-> [z \in (0..p.width - 1) \X (0..p.height - 1) |->
                  Painted(colour, p.pixel[<<z[1], z[2]>>])]]

LEMMA ColouredPictures ==
    ASSUME NEW p
    PROVE  /\ Drawing!Coloured(p, Gray) = Repainted(p, "gray")
           /\ Drawing!Coloured(p, Bgr) = Repainted(p, "bgr")
           /\ Drawing!Coloured(p, Rgb) = Repainted(p, "rgb")
           /\ Drawing!Coloured(p, Rgba) = Repainted(p, "rgba")
  BY DEF Drawing!Coloured, Drawing!Drawn, Repainted, Painted

IsPaintedImage(r, src, colour) ==
    /\ IsDrawn(r) /\ HasBytes(r) /\ r.width = src.width /\ r.height = src.height
    /\ \A x \in Columns(src), y \in Rows(src) :
          PixelAt(r, x, y) = Painted(colour, PixelAt(src, x, y))

LEMMA PaintedPicture ==
    ASSUME NEW src, IsDrawn(src), NEW r, NEW colour, IsPaintedImage(r, src, colour)
    PROVE  IsResult(r, Repainted(Picture(src), colour))
<1> DEFINE p == Picture(src)
           w == src.width
           h == src.height
           pixel == [z \in (0..w - 1) \X (0..h - 1) |-> Painted(colour, p.pixel[<<z[1], z[2]>>])]
<1>1. p.width = w /\ p.height = h
  BY PictureFields
<1>2. \A x \in 0..w - 1, y \in 0..h - 1 : p.pixel[<<x, y>>] = PixelAt(src, x, y)
  BY PictureFields DEF Columns, Rows
<1> HIDE DEF p
<1>3. \A x \in 0..w - 1, y \in 0..h - 1 : PixelAt(r, x, y) = pixel[<<x, y>>]
  BY <1>2 DEF IsPaintedImage, Columns, Rows
<1>4. IsResult(r, [width |-> w, height |-> h, pixel |-> pixel])
  <2>1. /\ IsDrawn(r) /\ HasBytes(r) /\ r.width = w /\ r.height = h
        /\ pixel = [z \in (0..w - 1) \X (0..h - 1) |-> pixel[z]]
    BY DEF IsPaintedImage
  <2> HIDE DEF pixel, w, h
  <2> QED
    BY <1>3, <2>1, Result
<1> QED
  BY <1>1, <1>4 DEF Repainted, p

LEMMA BgrLoops ==
    ASSUME NEW src, IsDrawn(src), NEW new, NEW same, NEW memory
    PROVE  ColourPixels(memory, src, new, same, Bgr)
             = MoveLoop(PaintCall("bgr", src, new, same, src.depth),
                        src.width * src.height, memory)
<1> DEFINE m == src.width * src.height
           call == PaintCall("bgr", src, new, same, src.depth)
           Move(s, p) == Put(s, PlaceOf(new, p),
               Bgr(Piece(IF same THEN s ELSE src.data, PlaceOf(src, p), src.depth)))
<1>1. ColourPixels(memory, src, new, same, Bgr) = Loop(m, memory, Move)
  BY DEF ColourPixels
<1>2. m \in Nat
  BY DrawnSizes
<1>3. \A s, p : p \in 0..m - 1 => Move(s, p) = MoveRound(call, s, p)
  BY DEF PaintCall, MoveRound, PutRound, Painted
<1> HIDE DEF call, m
<1>4. Loop(m, memory, Move) = MoveLoop(call, m, memory)
  <2> DEFINE One(g) == [i \in 0..m |-> IF i = 0 THEN memory ELSE Move(g[i - 1], i - 1)]
             Other(g) == [i \in 0..m |-> IF i = 0 THEN memory ELSE MoveRound(call, g[i - 1], i - 1)]
  <2>1. /\ Loop(m, memory, Move) = Holding(memory, (CHOOSE g : g = One(g))[m])
        /\ MoveLoop(call, m, memory) = Holding(memory, (CHOOSE g : g = Other(g))[m])
    BY DEF Loop, MoveLoop
  <2>2. ASSUME NEW g PROVE One(g) = Other(g)
    <3>1. \A i \in 0..m : i # 0 => i - 1 \in 0..m - 1
      BY <1>2
    <3>2. \A i \in 0..m : i # 0 => Move(g[i - 1], i - 1) = MoveRound(call, g[i - 1], i - 1)
      BY <1>3, <3>1
    <3> HIDE DEF Move
    <3> QED
      BY <3>2
  <2> HIDE DEF One, Other, Move
  <2>3. (CHOOSE g : g = One(g)) = (CHOOSE g : g = Other(g))
    BY <2>2
  <2> QED
    BY <2>1, <2>3
<1> QED
  BY <1>1, <1>4 DEF m, call

LEMMA RgbLoops ==
    ASSUME NEW src, IsDrawn(src), NEW new, NEW same, NEW memory
    PROVE  ColourPixels(memory, src, new, same, Rgb)
             = MoveLoop(PaintCall("rgb", src, new, same, src.depth),
                        src.width * src.height, memory)
<1> DEFINE m == src.width * src.height
           call == PaintCall("rgb", src, new, same, src.depth)
           Move(s, p) == Put(s, PlaceOf(new, p),
               Rgb(Piece(IF same THEN s ELSE src.data, PlaceOf(src, p), src.depth)))
<1>1. ColourPixels(memory, src, new, same, Rgb) = Loop(m, memory, Move)
  BY DEF ColourPixels
<1>2. m \in Nat
  BY DrawnSizes
<1>3. \A s, p : p \in 0..m - 1 => Move(s, p) = MoveRound(call, s, p)
  BY DEF PaintCall, MoveRound, PutRound, Painted
<1> HIDE DEF call, m
<1>4. Loop(m, memory, Move) = MoveLoop(call, m, memory)
  <2> DEFINE One(g) == [i \in 0..m |-> IF i = 0 THEN memory ELSE Move(g[i - 1], i - 1)]
             Other(g) == [i \in 0..m |-> IF i = 0 THEN memory ELSE MoveRound(call, g[i - 1], i - 1)]
  <2>1. /\ Loop(m, memory, Move) = Holding(memory, (CHOOSE g : g = One(g))[m])
        /\ MoveLoop(call, m, memory) = Holding(memory, (CHOOSE g : g = Other(g))[m])
    BY DEF Loop, MoveLoop
  <2>2. ASSUME NEW g PROVE One(g) = Other(g)
    <3>1. \A i \in 0..m : i # 0 => i - 1 \in 0..m - 1
      BY <1>2
    <3>2. \A i \in 0..m : i # 0 => Move(g[i - 1], i - 1) = MoveRound(call, g[i - 1], i - 1)
      BY <1>3, <3>1
    <3> HIDE DEF Move
    <3> QED
      BY <3>2
  <2> HIDE DEF One, Other, Move
  <2>3. (CHOOSE g : g = One(g)) = (CHOOSE g : g = Other(g))
    BY <2>2
  <2> QED
    BY <2>1, <2>3
<1> QED
  BY <1>1, <1>4 DEF m, call

LEMMA RgbaLoops ==
    ASSUME NEW src, IsDrawn(src), NEW new, NEW same, NEW memory
    PROVE  ColourPixels(memory, src, new, same, Rgba)
             = MoveLoop(PaintCall("rgba", src, new, same, src.depth),
                        src.width * src.height, memory)
<1> DEFINE m == src.width * src.height
           call == PaintCall("rgba", src, new, same, src.depth)
           Move(s, p) == Put(s, PlaceOf(new, p),
               Rgba(Piece(IF same THEN s ELSE src.data, PlaceOf(src, p), src.depth)))
<1>1. ColourPixels(memory, src, new, same, Rgba) = Loop(m, memory, Move)
  BY DEF ColourPixels
<1>2. m \in Nat
  BY DrawnSizes
<1>3. \A s, p : p \in 0..m - 1 => Move(s, p) = MoveRound(call, s, p)
  BY DEF PaintCall, MoveRound, PutRound, Painted
<1> HIDE DEF call, m
<1>4. Loop(m, memory, Move) = MoveLoop(call, m, memory)
  <2> DEFINE One(g) == [i \in 0..m |-> IF i = 0 THEN memory ELSE Move(g[i - 1], i - 1)]
             Other(g) == [i \in 0..m |-> IF i = 0 THEN memory ELSE MoveRound(call, g[i - 1], i - 1)]
  <2>1. /\ Loop(m, memory, Move) = Holding(memory, (CHOOSE g : g = One(g))[m])
        /\ MoveLoop(call, m, memory) = Holding(memory, (CHOOSE g : g = Other(g))[m])
    BY DEF Loop, MoveLoop
  <2>2. ASSUME NEW g PROVE One(g) = Other(g)
    <3>1. \A i \in 0..m : i # 0 => i - 1 \in 0..m - 1
      BY <1>2
    <3>2. \A i \in 0..m : i # 0 => Move(g[i - 1], i - 1) = MoveRound(call, g[i - 1], i - 1)
      BY <1>3, <3>1
    <3> HIDE DEF Move
    <3> QED
      BY <3>2
  <2> HIDE DEF One, Other, Move
  <2>3. (CHOOSE g : g = One(g)) = (CHOOSE g : g = Other(g))
    BY <2>2
  <2> QED
    BY <2>1, <2>3
<1> QED
  BY <1>1, <1>4 DEF m, call

\* An image whose first bytes are those of a painted buffer.
LEMMA PaintedImage ==
    ASSUME NEW src, IsDrawn(src), NEW e, NEW r, IsRepainted(r, src, e), HasBytes(r),
           NEW new, IsRepainted(new, src, e), NEW t, NEW colour, NEW b, NEW n,
           IsPaintedBuffer(t, new, src, colour, b, n),
           b = src.depth \/ (colour = "gray" /\ b = 3 /\ src.depth \in {3, 4}),
           \A k \in 1..Len(r.data) : r.data[k] = t[k]
    PROVE  IsPaintedImage(r, src, colour)
<1>1. /\ IsDrawn(r) /\ r.width = src.width /\ r.height = src.height /\ r.depth = e
      /\ new.depth = e /\ AlignedScanline(r) = AlignedScanline(new)
      /\ Columns(r) = Columns(src) /\ Rows(r) = Rows(src)
  BY DEF IsRepainted, AlignedScanline, Scanline, Columns, Rows
<1>2. ASSUME NEW x \in Columns(src), NEW y \in Rows(src)
      PROVE  PixelAt(r, x, y) = Painted(colour, PixelAt(src, x, y))
  <2> DEFINE k == y * AlignedScanline(r) + x * r.depth
             j == y * AlignedScanline(src) + x * src.depth
             d == src.data
  <2>1. \A c \in 1..e : r.data[k + c] = t[k + c]
    <3> SUFFICES ASSUME NEW c \in 1..e PROVE r.data[k + c] = t[k + c]
      OBVIOUS
    <3>1. x \in Columns(r) /\ y \in Rows(r) /\ c \in Bytes(r)
      BY <1>1 DEF Bytes
    <3>2. Spot(r, x, y, c) \in 1..Len(r.data)
      BY <1>1, <3>1, SpotInside
    <3> QED
      BY <3>2 DEF Spot
  <2>2. PixelAt(r, x, y) = Piece(t, k, e)
    <3> HIDE DEF k
    <3>1. Piece(r.data, k, e) = Piece(t, k, e)
      BY <2>1 DEF Piece
    <3>2. PixelAt(r, x, y) = Piece(r.data, k, e)
      BY <1>1 DEF PixelAt, k
    <3> QED
      BY <3>1, <3>2
  <2>3. Piece(t, k, e) = Painted(colour, Piece(d, j, b))
    BY <1>1 DEF IsPaintedBuffer
  <2>4. PixelAt(src, x, y) = Piece(d, j, src.depth)
    BY DEF PixelAt
  <2> HIDE DEF j, k, d
  <2>5. Painted(colour, Piece(d, j, b)) = Painted(colour, Piece(d, j, src.depth))
    <3>1. CASE b = src.depth
      BY <3>1
    <3>2. CASE colour = "gray" /\ b = 3 /\ src.depth \in {3, 4}
      <4>1. \A c \in {1, 2, 3} : Piece(d, j, b)[c] = Piece(d, j, src.depth)[c]
        BY <3>2 DEF Piece
      <4> QED
        BY <3>2, <4>1 DEF Painted, Gray, Red, Green, Blue
    <3> QED
      BY <3>1, <3>2
  <2> QED
    BY <2>2, <2>3, <2>4, <2>5
<1> QED
  BY <1>1, <1>2 DEF IsPaintedImage

LEMMA BgrDraws ==
    ASSUME NEW src, IsDrawn(src), HasBytes(src), src.depth # 1
    PROVE  IsResult(BgrMade(src), Drawing!Coloured(Picture(src), Bgr))
<1> DEFINE b == src.depth
           n == Len(src.data)
           same == TRUE
           m == src.width * src.height
           t == MoveLoop(PaintCall("bgr", src, src, same, b), m, src.data)
           r == BgrMade(src)
<1>1. /\ b \in {3, 4} /\ b \in Nat /\ b <= b /\ n \in Nat /\ src.data \in Buffers(n)
      /\ src.height * AlignedScanline(src) <= n /\ same \in BOOLEAN
  BY DrawnSizes DEF HasBytes
<1>2. IsRepainted(src, src, b)
  BY DEF IsRepainted
<1>3. r = [src EXCEPT !.data = t]
  BY BgrLoops DEF BgrMade
<1>4. IsPaintedBuffer(t, src, src, "bgr", b, n)
  <2> DEFINE colour == "bgr"
             s == src.data
  <2>1. /\ IsColouring(colour, b, b) /\ s \in Buffers(n) /\ (same => s = src.data)
        /\ b <= src.depth /\ (same => b <= src.depth)
    BY <1>1 DEF IsColouring
  <2> HIDE DEF b, n, same, colour, s
  <2>2. IsPaintedBuffer(MoveLoop(PaintCall(colour, src, src, same, b), src.width * src.height, s),
                        src, src, colour, b, n)
    BY <1>1, <1>2, <2>1, PaintDraws
  <2> QED
    BY <2>2 DEF s, colour
<1> HIDE DEF b, n, t, r
<1>5. IsRefilled([src EXCEPT !.data = t], src, t)
  <2>1. t \in Buffers(Len(src.data))
    BY <1>4 DEF IsPaintedBuffer, n
  <2> QED
    BY <2>1, Refilled
<1>6. IsRepainted(r, src, b) /\ HasBytes(r) /\ r.data = t
  BY <1>3, <1>5 DEF IsRefilled, IsRepainted, b
<1>7. IsPaintedImage(r, src, "bgr")
  <2> DEFINE colour == "bgr"
  <2>1. IsPaintedBuffer(t, src, src, colour, b, n)
    BY <1>4
  <2>2. b = src.depth /\ \A k \in 1..Len(r.data) : r.data[k] = t[k]
    BY <1>6 DEF b
  <2> HIDE DEF colour
  <2>3. IsPaintedImage(r, src, colour)
    BY <1>2, <1>6, <2>1, <2>2, PaintedImage
  <2> QED
    BY <2>3 DEF colour
<1>8. IsResult(r, Repainted(Picture(src), "bgr"))
  BY <1>7, PaintedPicture
<1> QED
  BY <1>8, ColouredPictures DEF r

\* In place, the buffer does not grow for smaller pixels.
LEMMA CreateNotLonger ==
    ASSUME NEW src, IsDrawn(src), HasBytes(src), NEW e \in {1, 3, 4}, e <= src.depth
    PROVE  Len(Create(src, src.width, src.height, e, src.align).data) <= Len(src.data)
<1> DEFINE w == src.width
           h == src.height
           a == src.align
           n == Len(src.data)
           made == Create(src, w, h, e, a)
           new == [src EXCEPT !.width = w, !.height = h, !.depth = e, !.align = a]
           size == DataSize(new)
           long == AlignedScanline(src)
           short == ScanlineToAlign(w * e, a)
<1>1. /\ w \in Nat \ {0} /\ h \in Nat \ {0} /\ a \in Nat \ {0} /\ n \in Nat /\ src.depth \in Nat
      /\ long \in Nat /\ h * long <= n /\ e \in Nat
      /\ src = [f \in Fields |-> src[f]]
  BY DrawnSizes DEF IsDrawn, IsImage, IsSized
<1>2. /\ new.data = src.data /\ new.keep = src.keep /\ new.width = w /\ new.height = h
      /\ new.depth = e /\ new.align = a
  BY <1>1 DEF Fields
<1>3. size = h * short
  BY <1>2 DEF DataSize, AlignedScanline, Scanline
<1>4. made.data = IF ~src.keep \/ size > n THEN Resized(src.data, size) ELSE src.data
  <2>1. made = [new EXCEPT !.data = IF ~src.keep \/ size > n THEN Resized(src.data, size) ELSE src.data]
    BY <1>2 DEF Create
  <2>2. new = [f \in Fields |-> new[f]]
    BY <1>1 DEF Fields
  <2> HIDE DEF new, size, n, made
  <2> QED
    BY <2>1, <2>2 DEF Fields
<1>5. size \in Nat /\ size <= n
  <2>1. short <= long /\ short \in Nat
    <3> DEFINE x == w * e
               y == w * src.depth
    <3>1. x \in Nat /\ y \in Nat /\ x <= y
      <4> DEFINE d == src.depth
      <4>1. e * w <= d * w /\ d \in Nat
        BY <1>1, Products
      <4> HIDE DEF d, w
      <4> QED
        BY <1>1, <4>1 DEF d
    <3>2. long = ScanlineToAlign(y, a)
      BY DEF AlignedScanline, Scanline
    <3> HIDE DEF x, y, a
    <3>3. ScanlineToAlign(x, a) <= ScanlineToAlign(y, a) /\ ScanlineToAlign(x, a) \in Nat
      BY <1>1, <3>1, ScanlinesInOrder, ScanlineNat
    <3> QED
      BY <3>2, <3>3 DEF x
  <2> HIDE DEF short, long, h, n
  <2>2. short * h <= long * h
    BY <1>1, <2>1, Products
  <2>3. short * h = h * short /\ long * h = h * long /\ h * short \in Nat /\ h * long \in Nat
    BY <1>1, <2>1
  <2> QED
    BY <1>1, <1>3, <2>2, <2>3
<1>6. Len(Resized(src.data, size)) = size
  <2> HIDE DEF size
  <2> QED
    BY <1>5 DEF Resized
<1> HIDE DEF made, size, n
<1>7. Len(made.data) <= n
  <2>1. CASE made.data = src.data
    BY <1>1, <2>1 DEF n
  <2>2. CASE made.data = Resized(src.data, size)
    BY <1>5, <1>6, <2>2
  <2> QED
    BY <1>4, <2>1, <2>2
<1> QED
  BY <1>7 DEF made, n

\* The images that Recoloured makes.
Repaint(src, dst, same, e, colour) ==
    LET new    == Create(dst, src.width, src.height, e, src.align)
        memory == IF same THEN src.data ELSE new.data
    IN  [new EXCEPT !.data = Piece(MoveLoop(PaintCall(colour, src, new, same, src.depth),
                                            src.width * src.height, memory), 0, Len(new.data))]

LEMMA RepaintDraws ==
    ASSUME NEW src, IsDrawn(src), HasBytes(src), NEW dst, IsImage(dst), HasBytes(dst),
           NEW same \in BOOLEAN, NEW e \in {3, 4}, same => dst = src /\ e <= src.depth,
           NEW colour, IsColouring(colour, src.depth, e)
    PROVE  IsPaintedImage(Repaint(src, dst, same, e, colour), src, colour)
<1> DEFINE w == src.width
           h == src.height
           a == src.align
           b == src.depth
           new == Create(dst, w, h, e, a)
           memory == IF same THEN src.data ELSE new.data
           n == Len(memory)
           l == Len(new.data)
           t == MoveLoop(PaintCall(colour, src, new, same, b), w * h, memory)
           d == Piece(t, 0, l)
           r == Repaint(src, dst, same, e, colour)
<1>1. /\ w \in Nat \ {0} /\ h \in Nat \ {0} /\ a \in Nat \ {0} /\ e \in {1, 3, 4}
      /\ b \in Nat /\ b <= src.depth
  BY DrawnSizes
<1>2. IsMade(new, w, h, e, a)
  <2> HIDE DEF w, h, a
  <2> QED
    BY <1>1, CreateMakes
<1>3. r = [new EXCEPT !.data = d]
  BY DEF Repaint
<1>4. same => l <= Len(src.data)
  BY CreateNotLonger
<1> HIDE DEF new, r
<1>5. /\ IsDrawn(new) /\ HasBytes(new) /\ IsRepainted(new, src, e)
  BY <1>2 DEF IsMade, IsRepainted
<1>6. l \in Nat /\ new.data \in Buffers(l) /\ new.height * AlignedScanline(new) <= l
  BY <1>5, DrawnSizes DEF HasBytes
<1>7. n \in Nat /\ memory \in Buffers(n) /\ l <= n /\ (same => memory = src.data)
  <2>1. Len(src.data) \in Nat /\ src.data \in Buffers(Len(src.data))
    BY DrawnSizes DEF HasBytes
  <2> QED
    BY <1>4, <1>6, <2>1
<1>8. new.height * AlignedScanline(new) <= n
  <2>1. new.height * AlignedScanline(new) \in Nat
    BY <1>5, DrawnSizes
  <2> DEFINE k == new.height * AlignedScanline(new)
  <2>2. k \in Nat /\ k <= l
    BY <1>6, <2>1
  <2> HIDE DEF k, l, n
  <2>3. k <= n
    BY <1>6, <1>7, <2>2
  <2> QED
    BY <2>3 DEF k
<1>9. IsPaintedBuffer(t, new, src, colour, b, n)
  <2>1. IsColouring(colour, b, e) /\ (same => e <= src.depth)
    OBVIOUS
  <2> HIDE DEF b, n, memory
  <2>2. IsPaintedBuffer(MoveLoop(PaintCall(colour, src, new, same, b), src.width * src.height, memory),
                        new, src, colour, b, n)
    BY <1>1, <1>5, <1>7, <1>8, <2>1, PaintDraws
  <2> QED
    BY <2>2
<1>10. d \in Buffers(l) /\ \A k \in 1..l : d[k] = t[k]
  <2> DEFINE zero == 0
  <2>1. t \in Buffers(n) /\ zero \in Nat /\ zero + l <= n
    BY <1>6, <1>7, <1>9 DEF IsPaintedBuffer
  <2> HIDE DEF t, n, l, zero
  <2>2. Piece(t, zero, l) \in Buffers(l)
    BY <1>6, <1>7, <2>1, PieceBuffer
  <2>3. \A k \in 1..l : Piece(t, 0, l)[k] = t[k]
    BY <1>6 DEF Piece
  <2> QED
    BY <2>2, <2>3 DEF zero
<1> HIDE DEF d, t, n, memory, w, h, a
<1>11. IsRefilled([new EXCEPT !.data = d], new, d)
  BY <1>5, <1>10, Refilled
<1>12. IsRepainted(r, src, e) /\ HasBytes(r) /\ r.data = d
  BY <1>3, <1>5, <1>11 DEF IsRefilled, IsRepainted
<1>13. \A k \in 1..Len(r.data) : r.data[k] = t[k]
  <2>1. Len(d) = l
    BY <1>6, <1>10, BufferLength
  <2> QED
    BY <1>10, <1>12, <2>1
<1>14. b = src.depth
  OBVIOUS
<1> HIDE DEF b
<1>15. IsPaintedImage(r, src, colour)
  BY <1>5, <1>9, <1>12, <1>13, <1>14, PaintedImage
<1> QED
  BY <1>15 DEF r

LEMMA RgbDraws ==
    ASSUME NEW src, IsDrawn(src), HasBytes(src), src.depth = 4,
           NEW dst, IsImage(dst), HasBytes(dst), NEW same \in BOOLEAN, same => dst = src
    PROVE  IsResult(Recoloured(src, dst, same, 3, Rgb), Drawing!Coloured(Picture(src), Rgb))
<1> DEFINE colour == "rgb"
           e == 3
           r == Repaint(src, dst, same, e, colour)
<1>1. Recoloured(src, dst, same, 3, Rgb) = r
  BY RgbLoops DEF Recoloured, Repaint
<1>2. /\ e \in {3, 4} /\ (same => dst = src /\ e <= src.depth)
      /\ IsColouring(colour, src.depth, e)
  BY DEF IsColouring
<1> HIDE DEF colour, e, r
<1>3. IsPaintedImage(r, src, colour)
  BY <1>2, RepaintDraws DEF r
<1>4. IsResult(r, Repainted(Picture(src), colour))
  BY <1>3, PaintedPicture
<1> QED
  BY <1>1, <1>4, ColouredPictures DEF colour

LEMMA RgbaDraws ==
    ASSUME NEW src, IsDrawn(src), HasBytes(src), src.depth \in {1, 3},
           NEW dst, IsImage(dst), HasBytes(dst)
    PROVE  IsResult(Recoloured(src, dst, FALSE, 4, Rgba), Drawing!Coloured(Picture(src), Rgba))
<1> DEFINE colour == "rgba"
           e == 4
           same == FALSE
           r == Repaint(src, dst, same, e, colour)
<1>1. Recoloured(src, dst, FALSE, 4, Rgba) = r
  BY RgbaLoops DEF Recoloured, Repaint
<1>2. /\ e \in {3, 4} /\ (same => dst = src /\ e <= src.depth) /\ same \in BOOLEAN
      /\ IsColouring(colour, src.depth, e)
  BY DEF IsColouring
<1> HIDE DEF colour, e, r, same
<1>3. IsPaintedImage(r, src, colour)
  BY <1>2, RepaintDraws DEF r
<1>4. IsResult(r, Repainted(Picture(src), colour))
  BY <1>3, PaintedPicture
<1> QED
  BY <1>1, <1>4, ColouredPictures DEF colour

LEMMA PackedPlace ==
    ASSUME NEW i, IsDrawn(i), Packed(i), NEW p \in 0..i.width * i.height - 1
    PROVE  PlaceOf(i, p) = p * i.depth
<1> DEFINE w == i.width
           h == i.height
           d == i.depth
           x == p % w
           y == p \div w
<1>1. w \in Nat \ {0} /\ h \in Nat /\ d \in Nat /\ AlignedScanline(i) = w * d
  BY DrawnSizes
<1>2. x \in 0..w - 1 /\ y \in 0..h - 1 /\ p = y * w + x
  BY <1>1, PixelOfNumber
<1>3. PlaceOf(i, p) = y * (w * d) + x * d
  BY <1>1 DEF PlaceOf
<1> HIDE DEF w, h, d, x, y
<1>4. x \in Nat /\ y \in Nat
  BY <1>1, <1>2
<1>5. y * (w * d) = (w * y) * d
  BY <1>1, <1>4, Shuffle
<1>6. (y * w + x) * d = (w * y) * d + x * d
  BY <1>1, <1>4
<1> QED
  BY <1>2, <1>3, <1>5, <1>6 DEF d

\* The image that grey pixels are written into.
GraySpace(src, dst, same) ==
    IF same THEN dst ELSE Create(dst, src.width, src.height, 1, 1)

GreyMade(src, dst, same, call) ==
    LET new == GraySpace(src, dst, same)
    IN  [new EXCEPT !.depth = 1, !.data = MoveLoop(call, src.width * src.height, new.data)]

LEMMA GrayLoops ==
    ASSUME NEW src, IsDrawn(src), Packed(src), NEW dst, NEW same,
           NEW new, IsRepainted(new, src, 1), Packed(new), NEW call,
           call = PaintCall("gray", src, new, same, 3)
    PROVE  GrayMade(src, dst, same) = GreyMade(src, dst, same, call)
<1> DEFINE m == src.width * src.height
           space == GraySpace(src, dst, same)
           first == space.data
           Move(s, p) == Put(s, p, Gray(Piece(IF same THEN s ELSE src.data, p * src.depth, 3)))
<1>1. GrayMade(src, dst, same) = [space EXCEPT !.depth = 1, !.data = Loop(m, first, Move)]
  BY DEF GrayMade, GraySpace
<1> HIDE DEF space
<1>2. m \in Nat
  BY DrawnSizes
<1>3. \A p \in 0..m - 1 : PlaceOf(src, p) = p * src.depth /\ PlaceOf(new, p) = p
  <2> SUFFICES ASSUME NEW p \in 0..m - 1
               PROVE  PlaceOf(src, p) = p * src.depth /\ PlaceOf(new, p) = p
    OBVIOUS
  <2>1. PlaceOf(src, p) = p * src.depth
    BY PackedPlace
  <2>2. PlaceOf(new, p) = p * new.depth /\ new.depth = 1
    BY PackedPlace DEF IsRepainted
  <2>3. p * new.depth = p
    BY <2>2
  <2> QED
    BY <2>1, <2>2, <2>3
<1>4. \A s, p : p \in 0..m - 1 => Move(s, p) = MoveRound(call, s, p)
  <2> SUFFICES ASSUME NEW s, NEW p \in 0..m - 1 PROVE Move(s, p) = MoveRound(call, s, p)
    OBVIOUS
  <2>1. /\ call.swap = FALSE /\ call.colour = "gray" /\ call.inPlace = same /\ call.bytes = 3
        /\ call.data = src.data /\ call.to[p] = PlaceOf(new, p) /\ call.from[p] = PlaceOf(src, p)
    BY DEF PaintCall
  <2>2. call.to[p] = p /\ call.from[p] = p * src.depth
    BY <1>3, <2>1
  <2> HIDE DEF m
  <2>3. MoveRound(call, s, p)
          = Put(s, call.to[p], Gray(Piece(IF same THEN s ELSE src.data, call.from[p], 3)))
    BY <2>1 DEF MoveRound, PutRound, Painted
  <2> QED
    BY <2>2, <2>3
<1> HIDE DEF m, first
<1>5. Loop(m, first, Move) = MoveLoop(call, m, first)
  <2> DEFINE One(g) == [i \in 0..m |-> IF i = 0 THEN first ELSE Move(g[i - 1], i - 1)]
             Other(g) == [i \in 0..m |-> IF i = 0 THEN first ELSE MoveRound(call, g[i - 1], i - 1)]
  <2>1. /\ Loop(m, first, Move) = Holding(first, (CHOOSE g : g = One(g))[m])
        /\ MoveLoop(call, m, first) = Holding(first, (CHOOSE g : g = Other(g))[m])
    BY DEF Loop, MoveLoop
  <2>2. ASSUME NEW g PROVE One(g) = Other(g)
    <3>1. \A i \in 0..m : i # 0 => i - 1 \in 0..m - 1
      BY <1>2
    <3>2. \A i \in 0..m : i # 0 => Move(g[i - 1], i - 1) = MoveRound(call, g[i - 1], i - 1)
      BY <1>4, <3>1
    <3> HIDE DEF Move
    <3> QED
      BY <3>2
  <2> HIDE DEF One, Other, Move
  <2>3. (CHOOSE g : g = One(g)) = (CHOOSE g : g = Other(g))
    BY <2>2
  <2> QED
    BY <2>1, <2>3
<1> QED
  BY <1>1, <1>5 DEF m, first, space, GreyMade

\* Grey pixels are made of the first three bytes of coloured ones.
LEMMA GrayDraws ==
    ASSUME NEW src, IsDrawn(src), HasBytes(src), Packed(src), src.depth # 1,
           NEW dst, IsImage(dst), HasBytes(dst), NEW same \in BOOLEAN, same => dst = src
    PROVE  IsResult(GrayMade(src, dst, same), Drawing!Coloured(Picture(src), Gray))
<1> DEFINE w == src.width
           h == src.height
           one == 1
           three == 3
           colour == "gray"
           space == GraySpace(src, dst, same)
           shape == [space EXCEPT !.depth = 1, !.data = space.data]
           n == Len(space.data)
           call == PaintCall(colour, src, shape, same, three)
           t == MoveLoop(call, w * h, space.data)
           r == GrayMade(src, dst, same)
<1>1. /\ w \in Nat \ {0} /\ h \in Nat \ {0} /\ one \in {1, 3, 4} /\ one \in Nat \ {0} /\ one = 1
      /\ src.depth \in {3, 4} /\ three \in Nat /\ three = 3 /\ three <= src.depth
      /\ (same => one <= src.depth)
  BY DrawnSizes
<1>2. /\ IsDrawn(space) /\ HasBytes(space) /\ Packed(space)
      /\ space.width = w /\ space.height = h /\ (same => space = src)
  <2>1. CASE same
    BY <2>1 DEF GraySpace
  <2>2. CASE ~same
    <3>1. space = Create(dst, w, h, one, one)
      BY <2>2 DEF GraySpace
    <3> HIDE DEF w, h, one, space
    <3>2. IsMade(Create(dst, w, h, one, one), w, h, one, one)
      BY <1>1, CreateMakes
    <3> QED
      BY <1>1, <2>2, <3>1, <3>2 DEF IsMade, Packed
  <2> QED
    BY <2>1, <2>2
<1> HIDE DEF space, r
<1>3. IsDrawn(shape)
  <2> DEFINE d == space.data
  <2>1. Len(d) = Len(space.data)
    OBVIOUS
  <2> HIDE DEF d
  <2>2. IsDrawn([space EXCEPT !.depth = 1, !.data = d])
    BY <1>2, <2>1, GreyInPlace
  <2> QED
    BY <2>2 DEF d
<1>4. /\ shape.width = w /\ shape.height = h /\ shape.depth = 1 /\ shape.align = 1
      /\ shape.data = space.data /\ src.align = 1
  BY <1>2 DEF IsDrawn, IsImage, IsSized, Fields, Packed
<1> HIDE DEF shape
<1>5. IsRepainted(shape, src, one) /\ Packed(shape)
  BY <1>3, <1>4 DEF IsRepainted, Packed
<1>6. n \in Nat /\ space.data \in Buffers(n) /\ shape.height * AlignedScanline(shape) <= n
  BY <1>2, <1>3, <1>4, DrawnSizes DEF HasBytes
<1>7. r = [space EXCEPT !.depth = 1, !.data = t]
  <2>1. r = GreyMade(src, dst, same, call)
    <3>1. IsRepainted(shape, src, 1) /\ call = PaintCall("gray", src, shape, same, 3)
      BY <1>5
    <3> HIDE DEF call
    <3> QED
      BY <1>5, <3>1, GrayLoops DEF r
  <2> HIDE DEF r, call
  <2> QED
    BY <2>1 DEF GreyMade, space
<1>8. IsPaintedBuffer(t, shape, src, colour, three, n)
  <2> DEFINE s == space.data
  <2>1. IsColouring(colour, three, one) /\ s \in Buffers(n) /\ (same => s = src.data)
    BY <1>2, <1>6 DEF IsColouring
  <2> HIDE DEF colour, three, one, n, s
  <2>2. IsPaintedBuffer(MoveLoop(PaintCall(colour, src, shape, same, three),
                                 src.width * src.height, s), shape, src, colour, three, n)
    BY <1>1, <1>5, <1>6, <2>1, PaintDraws DEF s
  <2> QED
    BY <2>2 DEF s
<1> HIDE DEF t, n
<1>9. t \in Buffers(n) /\ Len(t) = n
  BY <1>6, <1>8, BufferLength DEF IsPaintedBuffer
<1>10. /\ r.width = w /\ r.height = h /\ r.depth = 1 /\ r.align = 1 /\ r.data = t
       /\ r.keep = space.keep
  BY <1>2, <1>7 DEF IsDrawn, IsImage, IsSized, Fields, Packed
<1>11. IsDrawn(r)
  BY <1>2, <1>7, <1>9, GreyInPlace DEF n
<1>12. IsRepainted(r, src, one) /\ HasBytes(r)
  BY <1>2, <1>4, <1>9, <1>10, <1>11 DEF IsRepainted, HasBytes
<1>13. /\ three = src.depth \/ (colour = "gray" /\ three = 3 /\ src.depth \in {3, 4})
       /\ \A k \in 1..Len(r.data) : r.data[k] = t[k]
  BY <1>1, <1>10
<1> HIDE DEF one, three, colour
<1>14. IsPaintedImage(r, src, colour)
  BY <1>5, <1>8, <1>12, <1>13, PaintedImage
<1>15. IsResult(r, Repainted(Picture(src), colour))
  BY <1>14, PaintedPicture
<1> QED
  BY <1>15, ColouredPictures DEF r, colour

-----------------------------------------------------------------------------
(* The bytes a decoder writes.                                             *)

LEMMA SpotCovered ==
    ASSUME NEW i, IsDrawn(i), NEW x \in Columns(i), NEW y \in Rows(i), NEW c \in Bytes(i)
    PROVE  Spot(i, x, y, c) \in 1..DataSize(i)
<1>1. /\ y * AlignedScanline(i) \in Nat /\ x * i.depth + c \in 1..i.width * i.depth
      /\ Spot(i, x, y, c) = y * AlignedScanline(i) + (x * i.depth + c)
  BY SpotInside
<1> DEFINE line == AlignedScanline(i)
           h == i.height
           wd == i.width * i.depth
           e == x * i.depth + c
           k == e - 1
<1>2. /\ line \in Nat /\ h \in Nat /\ wd \in Nat /\ wd <= line /\ e \in 1..wd
      /\ y \in Nat /\ y < h /\ y * line \in Nat
      /\ Spot(i, x, y, c) = y * line + e /\ DataSize(i) = h * line
  BY <1>1, DrawnSizes DEF Rows, DataSize
<1> HIDE DEF line, h, wd, e
<1>3. k \in Nat /\ k < line /\ Spot(i, x, y, c) = y * line + k + 1
  BY <1>2
<1> HIDE DEF k
<1>4. y * line + k \in 0..h * line - 1 /\ h * line \in Nat
  BY <1>2, <1>3, PlaceInside
<1> QED
  BY <1>2, <1>3, <1>4

Loaded(i, p) ==
    LET new == Create(i, p.width, p.height, p.depth, p.align)
    IN  [new EXCEPT !.data = Put(@, 0, p.data)]

LEMMA LoadedDraws ==
    ASSUME NEW i, IsImage(i), HasBytes(i), NEW p \in Pages
    PROVE  IsResult(Loaded(i, p), Picture(p))
<1> DEFINE w == p.width
           h == p.height
           b == p.depth
           a == p.align
           new == Create(i, w, h, b, a)
           n == Len(new.data)
           size == Len(p.data)
           zero == 0
           t == Put(new.data, zero, p.data)
           r == Loaded(i, p)
<1>1. /\ w \in Nat \ {0} /\ h \in Nat \ {0} /\ b \in {1, 3, 4} /\ a \in Nat \ {0}
      /\ p.data \in Seq(Channels) /\ size = DataSize(p)
  BY PagesAssumption, PageBytesAssumption
<1>2. size \in Nat /\ p.data \in Buffers(size)
  BY <1>1 DEF Buffers
<1>3. IsMade(new, w, h, b, a)
  <2> HIDE DEF w, h, b, a
  <2> QED
    BY <1>1, CreateMakes
<1>4. r = [new EXCEPT !.data = t]
  BY DEF Loaded
<1> HIDE DEF new, r
<1>5. /\ IsDrawn(new) /\ HasBytes(new) /\ n \in Nat /\ new.data \in Buffers(n)
      /\ new.width = w /\ new.height = h /\ new.depth = b /\ new.align = a
      /\ new.height * AlignedScanline(new) <= n
  BY <1>3, DrawnSizes DEF IsMade, HasBytes
<1>6. size = DataSize(new) /\ size <= n
  BY <1>1, <1>5 DEF DataSize, AlignedScanline, Scanline
<1>7. IsWritten(t, new.data, n, zero, size, p.data, 0)
  <2> DEFINE q == p.data
  <2>1. zero \in Nat /\ zero + size <= n /\ q \in Buffers(size)
    BY <1>2, <1>5, <1>6
  <2> HIDE DEF zero, size, n, q
  <2>2. IsWritten(Put(new.data, zero, q), new.data, n, zero, size, q, 0)
    BY <1>2, <1>5, <2>1, PutWrites
  <2> QED
    BY <2>2 DEF q
<1>8. t \in Buffers(n) /\ \A k \in 1..size : t[k] = p.data[k]
  <2>1. t \in Buffers(n)
    BY <1>7 DEF IsWritten
  <2>2. ASSUME NEW k \in 1..size PROVE t[k] = p.data[k]
    <3>1. k \in 1..n /\ k \in zero + 1..zero + size /\ 0 + (k - zero) = k
      BY <1>2, <1>5, <1>6
    <3> HIDE DEF zero, size, n
    <3> QED
      BY <1>7, <3>1 DEF IsWritten
  <2> QED
    BY <2>1, <2>2
<1> HIDE DEF t, n, size
<1>9. IsRefilled([new EXCEPT !.data = t], new, t)
  BY <1>5, <1>8, Refilled DEF n
<1>10. /\ IsDrawn(r) /\ HasBytes(r) /\ r.data = t
       /\ r.width = w /\ r.height = h /\ r.depth = b /\ r.align = a
  BY <1>4, <1>5, <1>9 DEF IsRefilled
<1>11. DataSize(r) = size /\ AlignedScanline(r) = AlignedScanline(p)
  BY <1>1, <1>10 DEF DataSize, AlignedScanline, Scanline
<1>12. ASSUME NEW x \in Columns(r), NEW y \in Rows(r) PROVE PixelAt(r, x, y) = PixelAt(p, x, y)
  <2>1. ASSUME NEW c \in Bytes(r) PROVE r.data[Spot(r, x, y, c)] = p.data[Spot(p, x, y, c)]
    <3>1. Spot(r, x, y, c) \in 1..size
      BY <1>10, <1>11, SpotCovered
    <3>2. Spot(r, x, y, c) = Spot(p, x, y, c)
      BY <1>10, <1>11 DEF Spot
    <3> QED
      BY <1>8, <1>10, <3>1, <3>2
  <2>2. SamePixel(r, x, y, p, x, y)
    BY <1>10, <2>1 DEF SamePixel
  <2> QED
    BY <2>2, SamePixelAt
<1>13. Picture(r) = Picture(p)
  BY <1>10, <1>12 DEF Picture, Columns, Rows
<1> QED
  BY <1>10, <1>13 DEF IsResult, r

-----------------------------------------------------------------------------
(* All calls                                                               *)

(***************************************************************************)
(* The sizes and the bytes of every image are those of a picture.          *)
(***************************************************************************)
BytesInv ==
    /\ IInv /\ answer \in BOOLEAN
    /\ \A i \in Names : HasBytes(image[i])

\* Images of at most 65536 columns and rows.
SizesFit == \A i \in Names : image[i].width <= 65536 /\ image[i].height <= 65536

Shows == [i \in Names |-> Picture(image[i])]

\* What a call that succeeds does to the pictures.
IsShown(b, p) == Drawing!Becomes(b, p) /\ BytesInv'

LEMMA BecomesShown ==
    ASSUME BytesInv, IInv', NEW b \in Names, NEW new, HasBytes(new), Becomes(b, new)
    PROVE  IsShown(b, Picture(new))
<1>1. image = [i \in Names |-> image[i]]
  BY DEF BytesInv, IInv
<1>2. image' = [image EXCEPT ![b] = new] /\ answer' = TRUE
  BY DEF Becomes
<1>3. \A i \in Names : image'[i] = IF i = b THEN new ELSE image[i]
  BY <1>1, <1>2
<1>4. \A i \in Names : HasBytes(image'[i])
  BY <1>3 DEF BytesInv
<1>5. BytesInv'
  BY <1>2, <1>4 DEF BytesInv
<1>6. [i \in Names |-> Picture(image'[i])]
        = [[i \in Names |-> Picture(image[i])] EXCEPT ![b] = Picture(new)]
  BY <1>3
<1>7. Drawing!Becomes(b, Picture(new))
  BY <1>2, <1>6 DEF Drawing!Becomes, Drawing!Answer
<1> QED
  BY <1>5, <1>7 DEF IsShown

LEMMA ResultShown ==
    ASSUME BytesInv, IInv', NEW b \in Names, NEW new, Becomes(b, new), NEW p, IsResult(new, p)
    PROVE  IsShown(b, p)
<1>1. HasBytes(new) /\ Picture(new) = p
  BY DEF IsResult
<1>2. IsShown(b, Picture(new))
  BY <1>1, BecomesShown
<1> QED
  BY <1>1, <1>2

LEMMA RefuseShown ==
    ASSUME BytesInv, Refuse
    PROVE  Drawing!Refuse /\ BytesInv'
<1>1. answer' = FALSE /\ image' = image
  BY DEF Refuse
<1>2. Drawing!Refuse
  BY <1>1 DEF Drawing!Refuse, Drawing!Answer
<1>3. IInv'
  BY <1>1 DEF BytesInv, IInv
<1> QED
  BY <1>1, <1>2, <1>3 DEF BytesInv

\* An image with bytes is drawn, and its picture is one of its depth.
HasPicture(i) ==
    /\ IsDrawn(i) /\ IsImage(i) /\ HasBytes(i)
    /\ Picture(i) # Drawing!NoPicture /\ Drawing!Depth(Picture(i)) = i.depth
    /\ Picture(i).width = i.width /\ Picture(i).height = i.height

LEMMA DrawnHasPicture ==
    ASSUME NEW i, IsDrawn(i), HasBytes(i)
    PROVE  HasPicture(i)
<1> DEFINE p == Picture(i)
<1>1. p.width = i.width /\ p.height = i.height
  BY PictureFields
<1>2. \A x \in Columns(i), y \in Rows(i) : p.pixel[<<x, y>>] = PixelAt(i, x, y)
  BY PictureFields
<1>3. i.width \in Nat \ {0} /\ i.height \in Nat \ {0} /\ i.depth \in Nat
  BY DrawnSizes
<1> HIDE DEF p
<1>4. 0 \in Columns(i) /\ 0 \in Rows(i)
  BY <1>3 DEF Columns, Rows
<1>5. p.pixel[<<0, 0>>] = PixelAt(i, 0, 0)
  BY <1>2, <1>4
<1>6. Len(PixelAt(i, 0, 0)) = i.depth
  BY <1>3 DEF PixelAt, Piece
<1>7. p # Drawing!NoPicture
  BY <1>1, <1>3 DEF Drawing!NoPicture
<1>8. Drawing!Depth(p) = i.depth
  BY <1>5, <1>6 DEF Drawing!Depth
<1> QED
  BY <1>1, <1>7, <1>8 DEF HasPicture, p, IsDrawn

LEMMA NotEmpty ==
    ASSUME BytesInv, NEW a \in Names, ~Empty(image[a])
    PROVE  HasPicture(image[a]) /\ Shows[a] = Picture(image[a])
<1>1. IsDrawn(image[a]) /\ HasBytes(image[a])
  BY DEF BytesInv, IInv
<1> QED
  BY <1>1, DrawnHasPicture DEF Shows

LEMMA ImagesOfInv ==
    ASSUME BytesInv
    PROVE  \A i \in Names : IsImage(image[i]) /\ HasBytes(image[i])
  BY DEF BytesInv, IInv

-----------------------------------------------------------------------------
(* Each call is one that Pictures promises, or refuses.                    *)

\* The pictures of the images and the answer stay what the code calls valid.
IsPromised(a, step) == Shows[a] # Drawing!NoPicture /\ step /\ BytesInv'

LEMMA LoadShown ==
    ASSUME BytesInv, IInv', NEW i \in Names, Load(i)
    PROVE  Drawing!Load(i) /\ BytesInv'
<1>1. PICK p \in Pages : Becomes(i, Loaded(image[i], p))
  BY DEF Load, Loaded
<1>2. IsResult(Loaded(image[i], p), Picture(p))
  BY ImagesOfInv, LoadedDraws
<1>3. IsShown(i, Picture(p))
  BY <1>1, <1>2, ResultShown
<1> QED
  BY <1>3 DEF IsShown, Drawing!Load

LEMMA AssignShown ==
    ASSUME BytesInv, IInv', NEW a \in Names, NEW b \in Names, Assign(a, b)
    PROVE  Drawing!Assign(a, b) /\ BytesInv'
<1>1. IsShown(b, Picture(image[a]))
  BY ImagesOfInv, BecomesShown DEF Assign
<1>2. Shows[a] = Picture(image[a])
  BY DEF Shows
<1> QED
  BY <1>1, <1>2 DEF IsShown, Drawing!Assign, Shows

LEMMA SwapShown ==
    ASSUME BytesInv, IInv', NEW a \in Names, NEW b \in Names, Swap(a, b)
    PROVE  Drawing!Swap(a, b) /\ BytesInv'
<1>1. image = [i \in Names |-> image[i]]
  BY DEF BytesInv, IInv
<1>2. image' = [image EXCEPT ![a] = image[b], ![b] = image[a]] /\ answer' = TRUE
  BY DEF Swap
<1>3. \A i \in Names : image'[i] = IF i = b THEN image[a] ELSE IF i = a THEN image[b] ELSE image[i]
  BY <1>1, <1>2
<1>4. \A i \in Names : HasBytes(image'[i])
  BY <1>3, ImagesOfInv
<1>5. BytesInv'
  BY <1>2, <1>4 DEF BytesInv
<1>6. [i \in Names |-> Picture(image'[i])]
        = [[i \in Names |-> Picture(image[i])]
             EXCEPT ![a] = Picture(image[b]), ![b] = Picture(image[a])]
  BY <1>3
<1>7. Drawing!Swap(a, b)
  BY <1>2, <1>6 DEF Drawing!Swap, Drawing!Answer
<1> QED
  BY <1>5, <1>7

LEMMA CopyShown ==
    ASSUME BytesInv, IInv', NEW a \in Names, NEW b \in Names, Copy(a, b)
    PROVE  Drawing!Assign(a, b) /\ BytesInv'
<1>1. HasPicture(image[a]) /\ Shows[a] = Picture(image[a])
  BY NotEmpty DEF Copy
<1>2. IsResult(image[a], Picture(image[a]))
  BY <1>1 DEF HasPicture, IsResult
<1>3. IsResult(Copied(image[a], image[b]), Picture(image[a]))
  BY <1>2, ImagesOfInv, CopiedResult
<1>4. IsShown(b, Picture(image[a]))
  BY <1>3, ResultShown DEF Copy
<1> QED
  BY <1>1, <1>4 DEF IsShown, Drawing!Assign, Shows

LEMMA RotateShown ==
    ASSUME BytesInv, IInv', NEW a \in Names, NEW b \in Names, Rotate(a, b)
    PROVE  IsPromised(a, Drawing!Rotate(a, b))
<1> DEFINE src == image[a]
           dst == image[b]
           same == a = b
<1>1. HasPicture(src) /\ Shows[a] = Picture(src) /\ Packed(src) /\ src.depth # 4
  BY NotEmpty DEF Rotate
<1>2. PICK angle \in Angles : Becomes(b, Rotated(src, dst, same, angle))
  BY DEF Rotate
<1>3. IsImage(dst) /\ HasBytes(dst)
  BY ImagesOfInv
<1> HIDE DEF src, dst, same
<1>4. IsResult(Rotated(src, dst, same, angle), Drawing!Turned(Picture(src), angle))
  BY <1>1, <1>3, RotatedDraws DEF HasPicture
<1>5. IsShown(b, Drawing!Turned(Shows[a], angle))
  BY <1>1, <1>2, <1>4, ResultShown
<1>6. Drawing!Rotate(a, b)
  BY <1>5 DEF IsShown, Drawing!Rotate, Shows, Angles
<1> QED
  BY <1>1, <1>5, <1>6 DEF IsShown, IsPromised, HasPicture

LEMMA MirrorShown ==
    ASSUME BytesInv, IInv', NEW a \in Names, NEW b \in Names, Mirror(a, b)
    PROVE  IsPromised(a, Drawing!Mirror(a, b))
<1> DEFINE src == image[a]
           dst == image[b]
           same == a = b
<1>1. HasPicture(src) /\ Shows[a] = Picture(src)
  BY NotEmpty DEF Mirror
<1>2. PICK type \in {"UpsideDown", "LeftToRight"} : Becomes(b, Mirrored(src, dst, same, type))
  BY DEF Mirror
<1>3. IsImage(dst) /\ HasBytes(dst)
  BY ImagesOfInv
<1> HIDE DEF src, dst, same
<1>4. IsResult(Mirrored(src, dst, same, type), Drawing!Mirrored(Picture(src), type))
  BY <1>1, <1>3, MirroredDraws DEF HasPicture
<1>5. IsShown(b, Drawing!Mirrored(Shows[a], type))
  BY <1>1, <1>2, <1>4, ResultShown
<1>6. Drawing!Mirror(a, b)
  BY <1>5 DEF IsShown, Drawing!Mirror, Shows
<1> QED
  BY <1>1, <1>5, <1>6 DEF IsShown, IsPromised, HasPicture

\* The size that scaling gives a picture, as Pictures says it.
WidthOf(p, s)  == IF s[1] = 0 THEN (s[2] * p.width) \div p.height ELSE s[1]
HeightOf(p, s) == IF s[2] = 0 THEN (s[1] * p.height) \div p.width ELSE s[2]

IsSizeOf(w, h, p, s) ==
    w = WidthOf(p, s) /\ h = HeightOf(p, s) /\ w \in Nat \ {0} /\ h \in Nat \ {0}

LEMMA SizeFollows ==
    ASSUME NEW src, src.width \in Nat \ {0}, src.height \in Nat \ {0},
           NEW p, p.width = src.width, p.height = src.height, NEW s \in Nat \X Nat,
           ProportionalSize(src, s)[1] > 0, ProportionalSize(src, s)[2] > 0
    PROVE  IsSizeOf(ProportionalSize(src, s)[1], ProportionalSize(src, s)[2], p, s)
<1> DEFINE u == s[1]
           v == s[2]
           x == src.width
           y == src.height
           w == ProportionalSize(src, s)[1]
           h == ProportionalSize(src, s)[2]
<1>1. u \in Nat /\ v \in Nat /\ x \in Nat \ {0} /\ y \in Nat \ {0} /\ w > 0 /\ h > 0
  OBVIOUS
<1>2. CASE v = 0
  <2>1. w = u /\ h = (u * y) \div x
    BY <1>2 DEF ProportionalSize
  <2>2. HeightOf(p, s) = (u * y) \div x
    BY <1>2 DEF HeightOf
  <2> HIDE DEF w, h
  <2>3. u # 0
    BY <1>1, <2>1
  <2>4. WidthOf(p, s) = u
    BY <2>3 DEF WidthOf
  <2> HIDE DEF u, v, x, y
  <2>5. u * y \in Nat
    BY <1>1
  <2>6. h \in Nat
    BY <1>1, <2>1, <2>5
  <2>7. IsSizeOf(w, h, p, s)
    BY <1>1, <2>1, <2>2, <2>4, <2>6 DEF IsSizeOf
  <2> QED
    BY <2>7 DEF w, h
<1>3. CASE v # 0 /\ u = 0
  <2>1. w = (v * x) \div y /\ h = v
    BY <1>3 DEF ProportionalSize
  <2>2. WidthOf(p, s) = (v * x) \div y /\ HeightOf(p, s) = v
    BY <1>3 DEF HeightOf, WidthOf
  <2> HIDE DEF w, h, u, v, x, y
  <2>5. v * x \in Nat
    BY <1>1
  <2>6. w \in Nat
    BY <1>1, <2>1, <2>5
  <2>7. IsSizeOf(w, h, p, s)
    BY <1>1, <2>1, <2>2, <2>6 DEF IsSizeOf
  <2> QED
    BY <2>7 DEF w, h
<1>4. CASE v # 0 /\ u # 0
  <2>1. w = u /\ h = v
    BY <1>4 DEF ProportionalSize
  <2>2. WidthOf(p, s) = u /\ HeightOf(p, s) = v
    BY <1>4 DEF HeightOf, WidthOf
  <2> HIDE DEF w, h, u, v, x, y
  <2>3. IsSizeOf(w, h, p, s)
    BY <1>1, <2>1, <2>2 DEF IsSizeOf
  <2> QED
    BY <2>3 DEF w, h
<1> QED
  BY <1>2, <1>3, <1>4

\* Scaling draws what Pictures promises when the size fits in 16 bits.
LEMMA ScaleShown ==
    ASSUME BytesInv, IInv', NEW a \in Names, NEW b \in Names, Scale(a, b)
    PROVE  IsPromised(a, SizesFit' => Drawing!Scale(a, b))
<1> DEFINE src == image[a]
           dst == image[b]
           same == a = b
           p == Shows[a]
<1>1. HasPicture(src) /\ p = Picture(src) /\ Packed(src)
  BY NotEmpty DEF Scale
<1>2. PICK s \in Sizes :
          /\ ProportionalSize(src, s)[1] > 0 /\ ProportionalSize(src, s)[2] > 0
          /\ Becomes(b, Scaled(src, dst, same, ProportionalSize(src, s)[1],
                               ProportionalSize(src, s)[2]))
  BY DEF Scale
<1>3. IsImage(dst) /\ HasBytes(dst)
  BY ImagesOfInv
<1>4. s \in Nat \X Nat
  BY SizesAssumption
<1> HIDE DEF src, dst, same, p
<1>5. src.width \in Nat \ {0} /\ src.height \in Nat \ {0}
  BY <1>1, DrawnSizes DEF HasPicture
<1>6. p.width = src.width /\ p.height = src.height
  BY <1>1 DEF HasPicture
<1> DEFINE w == ProportionalSize(src, s)[1]
           h == ProportionalSize(src, s)[2]
           new == Scaled(src, dst, same, w, h)
<1>7. IsSizeOf(w, h, p, s)
  BY <1>2, <1>4, <1>5, <1>6, SizeFollows
<1>8. Becomes(b, new)
  BY <1>2
<1> HIDE DEF w, h
<1>9. w \in Nat \ {0} /\ h \in Nat \ {0} /\ w = WidthOf(p, s) /\ h = HeightOf(p, s)
  BY <1>7 DEF IsSizeOf
<1>10. IsScaledImage(new, src, w, h)
  BY <1>1, <1>3, <1>9, ScaledDraws DEF HasPicture
<1> HIDE DEF new
<1>11. HasBytes(new) /\ new.width = w /\ new.height = h
  BY <1>10 DEF IsScaledImage
<1>12. IsShown(b, Picture(new))
  BY <1>8, <1>11, BecomesShown
<1>13. image'[b] = new
  BY <1>8 DEF Becomes, BytesInv, IInv
<1>14. ASSUME SizesFit' PROVE Drawing!Scale(a, b)
  <2>1. w <= 65536 /\ h <= 65536
    BY <1>11, <1>13, <1>14 DEF SizesFit
  <2>2. Fits(w) /\ Fits(h)
    BY <1>9, <2>1 DEF Fits
  <2>3. Drawing!IsScaled(Picture(new), p, w, h)
    BY <1>1, <1>10, <2>2 DEF IsScaledImage
  <2>4. /\ answer' = TRUE /\ Shows'[b] = Picture(new)
        /\ \A i \in Names \ {b} : Shows'[i] = Shows[i]
    BY <1>12, <1>13 DEF IsShown, Drawing!Becomes, Drawing!Answer, Shows
  <2>5. Drawing!IsScaled(Shows'[b], p, WidthOf(p, s), HeightOf(p, s))
    BY <1>9, <2>3, <2>4
  <2> QED
    BY <2>4, <2>5 DEF Drawing!Scale, Drawing!Answer, Shows, WidthOf, HeightOf, p
<1> QED
  BY <1>1, <1>12, <1>14 DEF IsShown, IsPromised, HasPicture, p

LEMMA CopyRectShown ==
    ASSUME BytesInv, IInv', NEW a \in Names, NEW b \in Names, CopyRect(a, b)
    PROVE  IsPromised(a, Drawing!Crop(a, b)) \/ (Drawing!Refuse /\ BytesInv')
<1> DEFINE src == image[a]
           dst == image[b]
           same == a = b
<1>1. PICK r \in Rects :
          \/ Refuse
          \/ /\ ~(RestrictBy(r, src)[3] <= 0) /\ ~(RestrictBy(r, src)[4] <= 0)
             /\ Becomes(b, RectCopied(src, dst, same, RestrictBy(r, src)))
  BY DEF CopyRect
<1>2. CASE Refuse
  BY <1>2, RefuseShown
<1>3. CASE ~Refuse
  <2> DEFINE rect == RestrictBy(r, src)
  <2>1. /\ ~(rect[3] <= 0) /\ ~(rect[4] <= 0)
        /\ Becomes(b, RectCopied(src, dst, same, rect))
    BY <1>1, <1>3
  <2>2. /\ Packed(src) /\ IsImage(src) /\ IsImage(dst) /\ HasBytes(src) /\ HasBytes(dst)
        /\ (same => dst = src) /\ Shows[a] = Picture(src) /\ same \in BOOLEAN
    BY ImagesOfInv DEF CopyRect, Shows
  <2>3. IsDrawn(src) \/ src.width = 0
    BY DEF BytesInv, IInv
  <2> HIDE DEF src, dst, same
  <2>4. src.width \in Nat /\ src.height \in Nat
    BY <2>2 DEF IsImage, IsSized
  <2>5. r \in Int \X Int \X Nat \X Nat
    BY RectsAssumption
  <2>6. rect[3] \in Int /\ rect[4] \in Int /\ rect[3] <= src.width
    BY <2>4, <2>5 DEF RestrictBy, Larger, Smaller
  <2>7. RestrictBy(r, src)[3] > 0 /\ RestrictBy(r, src)[4] > 0
    BY <2>1, <2>6
  <2>8. IsDrawn(src)
    BY <2>3, <2>4, <2>6, <2>7
  <2>9. IsCutOut(rect, r, src)
    BY <2>4, <2>5, <2>7, Restricted
  <2> HIDE DEF rect
  <2>10. IsCutResult(RectCopied(src, dst, same, rect), src, r)
    BY <2>2, <2>8, <2>9, RectCopiedDraws
  <2>11. /\ Drawing!Meets(Shows[a], r)
         /\ IsResult(RectCopied(src, dst, same, rect), Drawing!Cut(Shows[a], r))
    BY <2>2, <2>10 DEF IsCutResult
  <2>12. IsShown(b, Drawing!Cut(Shows[a], r))
    BY <2>1, <2>11, ResultShown
  <2>13. Drawing!Crop(a, b)
    BY <2>11, <2>12 DEF IsShown, Drawing!Crop, Shows
  <2>14. HasPicture(src)
    BY <2>2, <2>8, DrawnHasPicture
  <2> QED
    BY <2>2, <2>12, <2>13, <2>14 DEF IsShown, IsPromised, HasPicture
<1> QED
  BY <1>2, <1>3

\* The colours of Pictures are those of the code.
LEMMA SameColours ==
    ASSUME NEW p
    PROVE  /\ Drawing!Coloured(p, Drawing!Gray) = Drawing!Coloured(p, Gray)
           /\ Drawing!Coloured(p, Drawing!Bgr) = Drawing!Coloured(p, Bgr)
           /\ Drawing!Coloured(p, Drawing!Rgb) = Drawing!Coloured(p, Rgb)
           /\ Drawing!Coloured(p, Drawing!Rgba) = Drawing!Coloured(p, Rgba)
  BY DEF Drawing!Coloured, Drawing!Drawn, Drawing!Gray, Gray, Drawing!Bgr, Bgr, Drawing!Rgb, Rgb,
         Drawing!Rgba, Rgba, Drawing!Red, Red, Drawing!Green, Green, Drawing!Blue, Blue,
         Drawing!NotTransparent, NotTransparent

LEMMA ToGrayShown ==
    ASSUME BytesInv, IInv', NEW a \in Names, NEW b \in Names, ToGray(a, b)
    PROVE  IsPromised(a, Drawing!ToGray(a, b)) \/ (Drawing!Refuse /\ BytesInv')
<1> DEFINE src == image[a]
           dst == image[b]
           same == a = b
<1>1. CASE Refuse
  BY <1>1, RefuseShown
<1>2. CASE ~Refuse
  <2>1. /\ Packed(src) /\ src.depth # 1 /\ same \in BOOLEAN /\ (same => dst = src)
        /\ Becomes(b, GrayMade(src, dst, same))
    BY <1>2 DEF ToGray
  <2>2. HasPicture(src) /\ Shows[a] = Picture(src)
    BY <1>2, NotEmpty DEF ToGray
  <2>3. IsImage(dst) /\ HasBytes(dst)
    BY ImagesOfInv
  <2> HIDE DEF src, dst, same
  <2>4. IsResult(GrayMade(src, dst, same), Drawing!Coloured(Picture(src), Gray))
    BY <2>1, <2>2, <2>3, GrayDraws DEF HasPicture
  <2>5. IsShown(b, Drawing!Coloured(Shows[a], Gray))
    BY <2>1, <2>2, <2>4, ResultShown
  <2>6. Drawing!Depth(Shows[a]) \in {3, 4}
    BY <2>1, <2>2, DrawnSizes DEF HasPicture
  <2>7. Drawing!ToGray(a, b)
    BY <2>5, <2>6, SameColours DEF IsShown, Drawing!ToGray, Shows
  <2> QED
    BY <2>2, <2>5, <2>7 DEF IsShown, IsPromised, HasPicture
<1> QED
  BY <1>1, <1>2

LEMMA ToBgrShown ==
    ASSUME BytesInv, IInv', NEW a \in Names, NEW b \in Names, ToBgr(a, b)
    PROVE  IsPromised(a, Drawing!ToBgr(a, b)) \/ (Drawing!Refuse /\ BytesInv')
<1> DEFINE src == image[a]
<1>1. CASE Refuse
  BY <1>1, RefuseShown
<1>2. CASE ~Refuse
  <2>1. src.depth # 1 /\ Becomes(b, BgrMade(src))
    BY <1>2 DEF ToBgr
  <2>2. HasPicture(src) /\ Shows[a] = Picture(src)
    BY <1>2, NotEmpty DEF ToBgr
  <2> HIDE DEF src
  <2>4. IsResult(BgrMade(src), Drawing!Coloured(Picture(src), Bgr))
    BY <2>1, <2>2, BgrDraws DEF HasPicture
  <2>5. IsShown(b, Drawing!Coloured(Shows[a], Bgr))
    BY <2>1, <2>2, <2>4, ResultShown
  <2>6. Drawing!Depth(Shows[a]) \in {3, 4}
    BY <2>1, <2>2, DrawnSizes DEF HasPicture
  <2>7. Drawing!ToBgr(a, b)
    BY <2>5, <2>6, SameColours DEF IsShown, Drawing!ToBgr, Shows
  <2> QED
    BY <2>2, <2>5, <2>7 DEF IsShown, IsPromised, HasPicture
<1> QED
  BY <1>1, <1>2

LEMMA RgbShown ==
    ASSUME BytesInv, IInv', NEW a \in Names, NEW b \in Names, Rgba2Rgb(a, b)
    PROVE  IsPromised(a, Drawing!Rgba2Rgb(a, b)) \/ (Drawing!Refuse /\ BytesInv')
<1> DEFINE src == image[a]
           dst == image[b]
           same == a = b
<1>1. CASE Refuse
  BY <1>1, RefuseShown
<1>2. CASE ~Refuse
  <2>1. /\ src.depth = 4 /\ same \in BOOLEAN /\ (same => dst = src)
        /\ Becomes(b, Recoloured(src, dst, same, 3, Rgb))
    BY <1>2 DEF Rgba2Rgb
  <2>2. HasPicture(src) /\ Shows[a] = Picture(src)
    BY <1>2, NotEmpty DEF Rgba2Rgb
  <2>3. IsImage(dst) /\ HasBytes(dst)
    BY ImagesOfInv
  <2> HIDE DEF src, dst, same
  <2>4. IsResult(Recoloured(src, dst, same, 3, Rgb), Drawing!Coloured(Picture(src), Rgb))
    BY <2>1, <2>2, <2>3, RgbDraws DEF HasPicture
  <2>5. IsShown(b, Drawing!Coloured(Shows[a], Rgb))
    BY <2>1, <2>2, <2>4, ResultShown
  <2>6. Drawing!Depth(Shows[a]) = 4
    BY <2>1, <2>2 DEF HasPicture
  <2>7. Drawing!Rgba2Rgb(a, b)
    BY <2>5, <2>6, SameColours DEF IsShown, Drawing!Rgba2Rgb, Shows
  <2> QED
    BY <2>2, <2>5, <2>7 DEF IsShown, IsPromised, HasPicture
<1> QED
  BY <1>1, <1>2

LEMMA RgbaShown ==
    ASSUME BytesInv, IInv', NEW a \in Names, NEW b \in Names, NEW depth \in {1, 3},
           IntoRgba(a, b, depth)
    PROVE  IsPromised(a, Drawing!IntoRgba(a, b)) \/ (Drawing!Refuse /\ BytesInv')
<1> DEFINE src == image[a]
           dst == image[b]
<1>1. CASE Refuse
  BY <1>1, RefuseShown
<1>2. CASE ~Refuse
  <2>1. src.depth = depth /\ Becomes(b, Recoloured(src, dst, FALSE, 4, Rgba))
    BY <1>2 DEF IntoRgba
  <2>2. HasPicture(src) /\ Shows[a] = Picture(src)
    BY <1>2, NotEmpty DEF IntoRgba
  <2>3. IsImage(dst) /\ HasBytes(dst)
    BY ImagesOfInv
  <2> HIDE DEF src, dst
  <2>4. IsResult(Recoloured(src, dst, FALSE, 4, Rgba), Drawing!Coloured(Picture(src), Rgba))
    BY <2>1, <2>2, <2>3, RgbaDraws DEF HasPicture
  <2>5. IsShown(b, Drawing!Coloured(Shows[a], Rgba))
    BY <2>1, <2>2, <2>4, ResultShown
  <2>6. Drawing!Depth(Shows[a]) \in {1, 3}
    BY <2>1, <2>2 DEF HasPicture
  <2>7. Drawing!IntoRgba(a, b)
    BY <2>5, <2>6, SameColours DEF IsShown, Drawing!IntoRgba, Shows
  <2> QED
    BY <2>2, <2>5, <2>7 DEF IsShown, IsPromised, HasPicture
<1> QED
  BY <1>1, <1>2

LEMMA NoImageShows ==
    ASSUME NEW keep
    PROVE  Picture(NoImage(keep)) = Drawing!NoPicture
<1> DEFINE i == NoImage(keep)
           f == Picture(i).pixel
<1>1. i.width = 0 /\ i.height = 0
  BY DEF NoImage
<1>2. Picture(i) = [width |-> i.width, height |-> i.height, pixel |-> f]
  BY PictureFields
<1>3. f = [p \in (0..i.width - 1) \X (0..i.height - 1) |-> PixelAt(i, p[1], p[2])]
  BY DEF Picture
<1> HIDE DEF i
<1>4. (0..i.width - 1) \X (0..i.height - 1) = {}
  BY <1>1
<1> HIDE DEF f
<1>5. f = [p \in {} |-> PixelAt(i, p[1], p[2])]
  BY <1>3, <1>4
<1>6. <<>> = [p \in {} |-> PixelAt(i, p[1], p[2])]
  OBVIOUS
<1> QED
  BY <1>1, <1>2, <1>5, <1>6 DEF Drawing!NoPicture, i

LEMMA InitShown == Init => BytesInv /\ Drawing!Init
<1> SUFFICES ASSUME Init PROVE BytesInv /\ Drawing!Init
  OBVIOUS
<1>1. image = [i \in Names |-> NoImage(i \in Keeps)] /\ answer = TRUE
  BY DEF Init
<1>2. \A i \in Names : HasBytes(image[i]) /\ Picture(image[i]) = Drawing!NoPicture
  <2> TAKE i \in Names
  <2> DEFINE keep == i \in Keeps
  <2>1. keep \in BOOLEAN /\ image[i] = NoImage(keep)
    BY <1>1
  <2> HIDE DEF keep
  <2> QED
    BY <2>1, NoImageBytes, NoImageShows
<1>3. IInv
  BY InitTyped
<1>4. BytesInv
  BY <1>1, <1>2, <1>3 DEF BytesInv
<1>5. Drawing!Init
  BY <1>1, <1>2 DEF Drawing!Init
<1> QED
  BY <1>4, <1>5

\* A call keeps the bytes valid, and is one that Pictures promises if what it
\* leaves is not larger than scaling can count.
StepShown == BytesInv' /\ (SizesFit' => [Drawing!Next]_<<Shows, answer>>)

LEMMA PromisedSteps ==
    ASSUME NEW a \in Names, NEW b \in Names
    PROVE  /\ IsPromised(a, Drawing!Rotate(a, b)) => StepShown
           /\ IsPromised(a, Drawing!Mirror(a, b)) => StepShown
           /\ IsPromised(a, SizesFit' => Drawing!Scale(a, b)) => StepShown
           /\ IsPromised(a, Drawing!Crop(a, b)) => StepShown
           /\ IsPromised(a, Drawing!ToGray(a, b)) => StepShown
           /\ IsPromised(a, Drawing!ToBgr(a, b)) => StepShown
           /\ IsPromised(a, Drawing!Rgba2Rgb(a, b)) => StepShown
           /\ IsPromised(a, Drawing!IntoRgba(a, b)) => StepShown
  BY DEF IsPromised, StepShown, Drawing!Next, Shows

LEMMA OtherSteps ==
    /\ \A i \in Names : Drawing!Load(i) /\ BytesInv' => StepShown
    /\ Drawing!Refuse /\ BytesInv' => StepShown
    /\ \A a, b \in Names : Drawing!Assign(a, b) /\ BytesInv' => StepShown
    /\ \A a, b \in Names : Drawing!Swap(a, b) /\ BytesInv' => StepShown
  BY DEF StepShown, Drawing!Next, Shows

LEMMA StepIsShown ==
    ASSUME BytesInv, [Next]_vars
    PROVE  StepShown
<1>1. IInv'
  BY NextTyped DEF BytesInv
<1>2. CASE UNCHANGED vars
  <2>1. image' = image /\ answer' = answer
    BY <1>2 DEF vars
  <2>2. BytesInv'
    BY <1>1, <2>1 DEF BytesInv
  <2>3. Shows' = Shows
    BY <2>1 DEF Shows
  <2> QED
    BY <2>1, <2>2, <2>3 DEF StepShown
<1>3. ASSUME NEW i \in Names, Load(i) PROVE StepShown
  BY <1>1, <1>3, LoadShown, OtherSteps
<1>4. ASSUME NEW a \in Names, NEW b \in Names, Assign(a, b) PROVE StepShown
  BY <1>1, <1>4, AssignShown, OtherSteps
<1>5. ASSUME NEW a \in Names, NEW b \in Names, Swap(a, b) PROVE StepShown
  BY <1>1, <1>5, SwapShown, OtherSteps
<1>6. ASSUME NEW a \in Names, NEW b \in Names, Copy(a, b) PROVE StepShown
  BY <1>1, <1>6, CopyShown, OtherSteps
<1>7. ASSUME NEW a \in Names, NEW b \in Names, Rotate(a, b) PROVE StepShown
  BY <1>1, <1>7, RotateShown, PromisedSteps
<1>8. ASSUME NEW a \in Names, NEW b \in Names, Mirror(a, b) PROVE StepShown
  BY <1>1, <1>8, MirrorShown, PromisedSteps
<1>9. ASSUME NEW a \in Names, NEW b \in Names, Scale(a, b) PROVE StepShown
  BY <1>1, <1>9, ScaleShown, PromisedSteps
<1>10. ASSUME NEW a \in Names, NEW b \in Names, CopyRect(a, b) PROVE StepShown
  BY <1>1, <1>10, CopyRectShown, PromisedSteps, OtherSteps
<1>11. ASSUME NEW a \in Names, NEW b \in Names, ToGray(a, b) PROVE StepShown
  BY <1>1, <1>11, ToGrayShown, PromisedSteps, OtherSteps
<1>12. ASSUME NEW a \in Names, NEW b \in Names, ToBgr(a, b) PROVE StepShown
  BY <1>1, <1>12, ToBgrShown, PromisedSteps, OtherSteps
<1>13. ASSUME NEW a \in Names, NEW b \in Names, Rgba2Rgb(a, b) PROVE StepShown
  BY <1>1, <1>13, RgbShown, PromisedSteps, OtherSteps
<1>14. ASSUME NEW a \in Names, NEW b \in Names, NEW depth \in {1, 3}, IntoRgba(a, b, depth)
       PROVE  StepShown
  BY <1>1, <1>14, RgbaShown, PromisedSteps, OtherSteps
<1> QED
  BY <1>2, <1>3, <1>4, <1>5, <1>6, <1>7, <1>8, <1>9, <1>10, <1>11, <1>12, <1>13, <1>14 DEF Next

(***************************************************************************)
(* The sizes, depths and flags of images are valid and every byte of every *)
(* buffer is one, after any calls on decoded pictures of every size.       *)
(***************************************************************************)
THEOREM ImagesTypeCorrect == Spec => []TypeOK
<1>1. BytesInv /\ [Next]_vars => BytesInv'
  BY StepIsShown DEF StepShown
<1>2. ASSUME BytesInv PROVE TypeOK
  <2>1. ASSUME NEW i \in Names
        PROVE  /\ image[i].width \in Nat /\ image[i].height \in Nat
               /\ image[i].depth \in {0, 1, 3, 4} /\ image[i].align \in Nat \ {0}
               /\ image[i].keep \in BOOLEAN
               /\ \A k \in 1..Len(image[i].data) : image[i].data[k] \in Channels
    <3>1. IsImage(image[i]) /\ HasBytes(image[i])
      BY ImagesOfInv, <1>2
    <3>2. image[i].data \in Seq(Channels)
      BY <3>1 DEF HasBytes, Buffers
    <3>3. \A k \in 1..Len(image[i].data) : image[i].data[k] \in Channels
      BY <3>2
    <3> QED
      BY <3>1, <3>3 DEF IsImage, IsSized, HasBytes
  <2> QED
    BY <1>2, <2>1 DEF TypeOK, BytesInv
<1> QED
  BY InitShown, <1>1, <1>2, PTL DEF Spec

(***************************************************************************)
(* The loops over bytes draw the pictures that Pictures.tla promises, from *)
(* image to image and in place, whatever the buffers held before and       *)
(* however long they are, for decoded pictures, rectangles and scales of   *)
(* every size: turned, mirrored, scaled, cut out, grey and recoloured      *)
(* (rotate.cpp, mirror.cpp, scale.cpp, image.cpp), and a call that answers *)
(* false changes no picture.  Images have at most 65536 columns and rows:  *)
(* scale.cpp:131-132 rounds the step from place to place down to 16 bits   *)
(* behind the point, and in a wider picture the error adds up to more than *)
(* the place that Pictures.Near allows.                                    *)
(***************************************************************************)
THEOREM ImagesImplement == Spec /\ []SizesFit => ImplementsPictures
<1>1. BytesInv /\ [Next]_vars => BytesInv'
  BY StepIsShown DEF StepShown
<1>2. BytesInv /\ [Next]_vars /\ SizesFit'
        => [Drawing!Next]_<<[i \in Names |-> Picture(image[i])], answer>>
  BY StepIsShown DEF StepShown, Shows
<1> QED
  BY InitShown, <1>1, <1>2, PTL DEF Spec, ImplementsPictures, Drawing!Spec
=============================================================================
