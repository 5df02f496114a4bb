------------------------------ MODULE Colours ------------------------------
(***************************************************************************)
(* color.h: a pixel is the sequence of its channels, one for grey, three   *)
(* for red, green and blue, a fourth for the transparency.                 *)
(***************************************************************************)
EXTENDS Integers, Sequences

Channels == 0..255
NotTransparent == 255

Red(p)   == p[1]
Green(p) == p[2]
Blue(p)  == p[3]

\* Mutant: the three coefficients are more than 1 together.
GrayTooBright(p) == <<(6968 * Red(p) + 23434 * Green(p) + 9334 * Blue(p)) \div 32768>>

Gray(p) == <<(6968 * Red(p) + 23434 * Green(p) + 2366 * Blue(p)) \div 32768>>

Bgr(p) == [p EXCEPT ![1] = Blue(p), ![3] = Red(p)]

Rgb(p) == <<Red(p), Green(p), Blue(p)>>

Rgba(p) == IF Len(p) = 1 THEN <<p[1], p[1], p[1], NotTransparent>>
           ELSE Rgb(p) \o <<NotTransparent>>
=============================================================================
