------------------------------ MODULE Pictures ------------------------------
(***************************************************************************)
(* What the functions of namespace img promise of a picture, which is a    *)
(* size and a pixel at every place of it.  How the pixels lie in memory,   *)
(* in place or from one buffer to another, is the matter of Images.tla,    *)
(* which implements this.                                                  *)
(***************************************************************************)
EXTENDS Colours, FiniteSets

CONSTANTS Names,  \* the variables of type Image
          Shown,  \* the pictures that can be decoded
          Rects,  \* the rectangles that are cut out, <<x, y, width, height>>
          Sizes   \* the sizes to scale to, <<width, height>>

VARIABLES picture, answer

NoPicture == [width |-> 0, height |-> 0, pixel |-> <<>>]

\* The picture of a size that has Pixel(x, y) at x, y.
Drawn(w, h, Pixel(_, _)) ==
    [width |-> w, height |-> h,
     pixel |-> [p \in (0..w - 1) \X (0..h - 1) |-> Pixel(p[1], p[2])]]

Turned(p, angle) ==
    LET At(x, y) == p.pixel[<<x, y>>]
        w == p.width
        h == p.height
        Quarter(x, y)       == At(y, h - 1 - x)
        Half(x, y)          == At(w - 1 - x, h - 1 - y)
        ThreeQuarters(x, y) == At(w - 1 - y, x)
    IN  CASE angle = "90"  -> Drawn(h, w, Quarter)
          [] angle = "180" -> Drawn(w, h, Half)
          [] angle = "270" -> Drawn(h, w, ThreeQuarters)

Mirrored(p, type) ==
    LET Upside(x, y) == p.pixel[<<x, p.height - 1 - y>>]
        Sides(x, y)  == p.pixel[<<p.width - 1 - x, y>>]
    IN  IF type = "UpsideDown" THEN Drawn(p.width, p.height, Upside)
        ELSE Drawn(p.width, p.height, Sides)

Coloured(p, Colour(_)) ==
    LET Pixel(x, y) == Colour(p.pixel[<<x, y>>]) IN Drawn(p.width, p.height, Pixel)

\* The columns (or rows) of a picture of that many which lie in a rectangle.
Within(first, count, size) == {k \in 0..size - 1 : k >= first /\ k < first + count}

Least(S) == CHOOSE k \in S : \A other \in S : k <= other

\* The part of p in r; there is none when they do not meet.
Meets(p, r) == Within(r[1], r[3], p.width) # {} /\ Within(r[2], r[4], p.height) # {}
Cut(p, r) ==
    LET columns == Within(r[1], r[3], p.width)
        rows    == Within(r[2], r[4], p.height)
        Pixel(x, y) == p.pixel[<<x + Least(columns), y + Least(rows)>>]
    IN  Drawn(Cardinality(columns), Cardinality(rows), Pixel)

\* Place k of new comes from place from of old: from \div old is k \div new,
\* or one place before, as the step from one to the next is rounded down.
Near(k, from, old, new) == from * new <= k * old /\ k * old < (from + 2) * new

IsScaled(q, p, w, h) ==
    /\ q.width = w /\ q.height = h
    /\ \A x \in 0..w - 1, y \in 0..h - 1 :
          \E s \in DOMAIN p.pixel :
             Near(x, s[1], p.width, w) /\ Near(y, s[2], p.height, h)
             /\ q.pixel[<<x, y>>] = p.pixel[s]

Depth(p) == Len(p.pixel[<<0, 0>>])

-----------------------------------------------------------------------------
Answer(ok) == answer' = ok

Becomes(i, p) == picture' = [picture EXCEPT ![i] = p] /\ Answer(TRUE)

Init == /\ picture = [i \in Names |-> NoPicture]
        /\ answer = TRUE

Load(i) == \E p \in Shown : Becomes(i, p)

Assign(a, b) == Becomes(b, picture[a])

Swap(a, b) ==
    picture' = [picture EXCEPT ![a] = picture[b], ![b] = picture[a]] /\ Answer(TRUE)

Rotate(a, b) == \E angle \in {"90", "180", "270"} : Becomes(b, Turned(picture[a], angle))

Mirror(a, b) ==
    \E type \in {"UpsideDown", "LeftToRight"} : Becomes(b, Mirrored(picture[a], type))

Scale(a, b) ==
    \E s \in Sizes :
        LET w == IF s[1] = 0 THEN (s[2] * picture[a].width) \div picture[a].height ELSE s[1]
            h == IF s[2] = 0 THEN (s[1] * picture[a].height) \div picture[a].width ELSE s[2]
        IN  /\ IsScaled(picture'[b], picture[a], w, h)
            /\ \A i \in Names \ {b} : picture'[i] = picture[i]
            /\ Answer(TRUE)

Crop(a, b) ==
    \E r \in Rects : Meets(picture[a], r) /\ Becomes(b, Cut(picture[a], r))

ToGray(a, b)   == Depth(picture[a]) \in {3, 4} /\ Becomes(b, Coloured(picture[a], Gray))
ToBgr(a, b)    == Depth(picture[a]) \in {3, 4} /\ Becomes(b, Coloured(picture[a], Bgr))
Rgba2Rgb(a, b) == Depth(picture[a]) = 4 /\ Becomes(b, Coloured(picture[a], Rgb))
IntoRgba(a, b) == Depth(picture[a]) \in {1, 3} /\ Becomes(b, Coloured(picture[a], Rgba))

\* A call that answers false changes nothing.
Refuse == Answer(FALSE) /\ UNCHANGED picture

Next ==
    \/ \E i \in Names : Load(i)
    \/ Refuse
    \/ \E a, b \in Names :
         \/ Assign(a, b) \/ Swap(a, b)
         \/ /\ picture[a] # NoPicture
            /\ \/ Rotate(a, b) \/ Mirror(a, b) \/ Scale(a, b) \/ Crop(a, b)
               \/ ToGray(a, b) \/ ToBgr(a, b) \/ Rgba2Rgb(a, b) \/ IntoRgba(a, b)

Spec == Init /\ [][Next]_<<picture, answer>>
=============================================================================
