------------------------------- MODULE BmpRle -------------------------------
(***************************************************************************)
(* The run length decoders of BMP files (RLE8 and RLE4 of bmpDecoder.cpp). *)
(* A program that makes such files writes a picture command by command;    *)
(* the file may be cut short on its way; then RLEBase::load reads it, one  *)
(* step for each turn of its loop, into an image that is new or holds      *)
(* another picture.                                                        *)
(*                                                                         *)
(* One cell of the destination stands for one pixel: every iterator moves  *)
(* by whole pixels, and the rows of the image are packed. Pixels are       *)
(* indexes into the palette, which has them all.                           *)
(***************************************************************************)
EXTENDS Integers, Sequences

CONSTANTS Width, Height,
          Colours,     \* indexes into the palette, for 4 and for 8 bits
          EncodedLengths,
          AbsoluteRuns, \* sequences of colours, for 4 and for 8 bits
          Skips,       \* <<x, y>> of deltas, by whether the file is upside down
          MaxCommands, \* bound on the commands of a file
          MaxCut       \* bound on the bytes that it may lose: a file that loses more
                       \* reads like one with fewer commands

ASSUME PictureHasPixels == Width \in Nat \ {0} /\ Height \in Nat \ {0}
ASSUME ColoursAreIndexes == Colours[4] \subseteq 0..15 /\ Colours[8] \subseteq 0..255

\* A run is of up to 255 pixels, an absolute one of at least three.
ASSUME FilesAreBytes ==
    /\ EncodedLengths \subseteq 1..255
    /\ \A b \in {4, 8} :
          \A run \in AbsoluteRuns[b] : run \in Seq(Colours[b]) /\ Len(run) \in 3..255
    /\ \A r \in BOOLEAN : Skips[r] \subseteq (0..255) \X (0..255)

(***************************************************************************)
(* What the decoders read right: runs of 4-bit pixels that are odd, no     *)
(* delta to the right in a file that is upside down, and no delta over     *)
(* more bytes than an unsigned int counts. An even run gets one pixel more *)
(* than it has (bmpDecoder.cpp:766), such a delta goes to the left         *)
(* (decoderCommon.h:61), and the offset of one that is too long wraps      *)
(* (decoderCommon.h:62; a pixel takes up to four bytes).                   *)
(***************************************************************************)
ReadsRight ==
    /\ \A run \in AbsoluteRuns[4] : Len(run) % 2 = 1
    /\ \A s \in Skips[TRUE] : s[1] = 0
    /\ \A r \in BOOLEAN : \A s \in Skips[r] : s[2] * Width + s[1] < 2^30

\* The value of bytes of 0, and of the picture that a used image held: no indexes.
Black == 256
Stale == 257

Places == 0..(Width * Height - 1)

VARIABLES bits,       \* 8 or 4 bits for a pixel
          reversed,   \* the height is negative: the first row is the upper one
          phase,      \* "write", "read", and then what decode answers: "true", "false";
                      \* or "outside": a pixel was written outside of the destination
          bytes,      \* the file
          picture,    \* what has been drawn, by row and column from the first row on
          pen,        \* where the next command draws
          ended,      \* the file has its last command
          intact,     \* every run of it fits its line, and no byte was lost
          beyond,     \* it draws past the last row
          commands,   \* how many were written, for the bound
          pixels,     \* the destination
          before,     \* what the destination held
          source,     \* bytes read
          line_begin, \* destination_line_begin_ and
          it          \* destination_iterator_, as distances from destination_begin_

written == <<bits, reversed, bytes, picture, pen, ended, intact, beyond, commands, before>>
rleVars == <<written, phase, pixels, source, line_begin, it>>

RleInit == /\ bits \in {4, 8}
           /\ reversed \in BOOLEAN
           /\ phase = "write"
           /\ bytes = <<>>
           /\ pen = [x |-> 0, y |-> 0]
           /\ ended = FALSE
           /\ intact = TRUE
           /\ beyond = FALSE
           /\ commands = 0
           /\ before \in {Black, Stale}
           /\ picture = [p \in Places |-> before]
           /\ pixels = [p \in Places |-> before]
           /\ source = 0
           /\ line_begin = IF reversed THEN (Height - 1) * Width ELSE 0
           /\ it = line_begin

-----------------------------------------------------------------------------
(* The program that writes the file                                        *)

Write(command) == /\ phase = "write"
                  /\ ~ended
                  /\ commands < MaxCommands
                  /\ commands' = commands + 1
                  /\ bytes' = bytes \o command
                  /\ UNCHANGED <<phase, bits, reversed, before, pixels, source, line_begin, it>>

\* A delta may have left the line.
PenPlace == pen.y * Width + (IF pen.x < Width THEN pen.x ELSE Width)

\* Past the last row there is nothing to draw on.
Draw(run) == /\ pen.x + Len(run) <= Width
             /\ picture' = [p \in Places |->
                               LET i == p - PenPlace + 1
                               IN  IF i \in DOMAIN run THEN run[i] ELSE picture[p]]
             /\ pen' = [pen EXCEPT !.x = @ + Len(run)]
             /\ beyond' = (beyond \/ pen.y >= Height)
             /\ UNCHANGED <<ended, intact>>

\* A run that does not fit its line, as when the end of the line before was forgotten.
DrawTooMuch(run) == /\ pen.x + Len(run) > Width
                    /\ intact' = FALSE
                    /\ UNCHANGED <<picture, pen, ended, beyond>>

DrawRun(run) == Draw(run) \/ DrawTooMuch(run)

WriteEncoded(n, even, odd) ==
    /\ bits = 8 => even = odd
    /\ DrawRun([i \in 1..n |-> IF i % 2 = 1 THEN even ELSE odd])
    /\ Write(<<n, IF bits = 8 THEN even ELSE 16 * even + odd>>)

\* A run of 4-bit pixels fills its last byte with a 0, any run its last word.
Packed(run) == IF bits = 8 THEN run
               ELSE [i \in 1..((Len(run) + 1) \div 2) |->
                        16 * run[2 * i - 1] + (IF 2 * i <= Len(run) THEN run[2 * i] ELSE 0)]

Padded(s) == IF Len(s) % 2 = 0 THEN s ELSE s \o <<0>>

WriteAbsolute(run) == /\ DrawRun(run)
                      /\ Write(<<0, Len(run)>> \o Padded(Packed(run)))

Blackened(places) == [p \in Places |-> IF p \in places THEN Black ELSE picture[p]]

AfterPen == {p \in Places : p >= PenPlace}

WriteEndOfLine == /\ Write(<<0, 0>>)
                  /\ picture' = Blackened({p \in AfterPen : p < (pen.y + 1) * Width})
                  /\ pen' = [x |-> 0, y |-> pen.y + 1]
                  /\ beyond' = (beyond \/ (pen.y >= Height /\ pen.x < Width))
                  /\ UNCHANGED <<ended, intact>>

(***************************************************************************)
(* The decoder leaves the lines that follow as they are if its iterator is *)
(* not in the image any more: a delta has left the line, or the file is    *)
(* upside down and its first line is full. Then that line has its own end. *)
(***************************************************************************)
WriteEndOfBitmap == /\ phase = "write"
                    /\ ~ended
                    /\ \/ pen.x < Width
                       \/ pen.x = Width /\ (reversed => pen.y > 0)
                       \/ pen.y >= Height - 1
                    /\ bytes' = bytes \o <<0, 1>>
                    /\ picture' = Blackened(AfterPen)
                    /\ ended' = TRUE
                    /\ UNCHANGED <<phase, bits, reversed, before, pen, intact, beyond, commands,
                                   pixels, source, line_begin, it>>

WriteDelta(x, y) == /\ Write(<<0, 2, x, y>>)
                    /\ pen' = [x |-> pen.x + x, y |-> pen.y + y]
                    /\ UNCHANGED <<picture, ended, intact, beyond>>

\* The first n bytes of the file arrive.
Arrive(n) == /\ phase = "write"
             /\ n >= Len(bytes) - MaxCut
             /\ phase' = "read"
             /\ bytes' = SubSeq(bytes, 1, n)
             /\ intact' = (intact /\ n = Len(bytes))
             /\ UNCHANGED <<bits, reversed, before, picture, pen, ended, beyond, commands,
                            pixels, source, line_begin, it>>

-----------------------------------------------------------------------------
(* DestinationIterator and SourceIterator                                  *)

IsEnd == source >= Len(bytes)

\* The byte that many after the next one.
Byte(n) == bytes[source + n + 1]

LineEnd == line_begin + Width

\* Mutant: a run that ends at the end of the line is outside.
IsPixelStrictlyInsideLine(n) == it + n >= line_begin /\ it + n < LineEnd

IsPixelInsideLine(n) == it + n >= line_begin /\ it + n <= LineEnd

\* isPixelInside is strict: a byte must follow.
IsPixelInside(source_, n) == source_ + n < Len(bytes)

ToNextRow == IF reversed THEN line_begin - Width ELSE line_begin + Width

\* Mutant: one pixel more.
CheckIteratorLate(i) == line_begin <= i /\ i <= Width * Height

\* It compares with the beginning of the line, and with the end of the destination.
CheckIterator(i) == line_begin <= i /\ i < Width * Height

Following(n) == it..(it + n - 1)

\* Those of the next n pixels that are written: DestinationIsFull ends it.
Passed(n) == {i \in Following(n) : \A j \in it..i : CheckIterator(j)}

LeftInLine == LineEnd - it

\* Mutant: only the line is completed.
LeftInLineOnly == {p \in Places : it <= p /\ p < LineEnd}

\* finish: the line and all of the rows that follow, if the iterator is in the image.
LeftInImage ==
    IF it \notin Places \/ Passed(LeftInLine) # Following(LeftInLine) THEN {}
    ELSE {p \in Places : \/ it <= p /\ p < LineEnd
                         \/ IF reversed THEN p < line_begin ELSE p >= LineEnd}

-----------------------------------------------------------------------------
(* RLEBase::load                                                           *)

Reads(first) == phase = "read" /\ source + 1 < Len(bytes) /\ first

Answer(answer) == phase' = answer /\ UNCHANGED <<written, pixels, source, line_begin, it>>

GoOn(n) == /\ source' = source + n
           /\ UNCHANGED <<written, phase>>

\* The loop ends, after a whole command or in the middle of one.
EndOfData == /\ phase = "read"
             /\ source + 1 >= Len(bytes)
             /\ Answer(IF IsEnd THEN "true" ELSE "false")

(***************************************************************************)
(* The run is written from the iterator on, and the loop goes on with      *)
(* next, unless the destination is full, which decode accepts              *)
(* (bmpDecoder.cpp:973). A pixel that CheckIterator passes and that is not *)
(* in the destination is the end: nothing is known of what follows.        *)
(***************************************************************************)
Put(run, next) ==
    LET passed == Passed(Len(run))
    IN  \/ ~(passed \subseteq Places) /\ Answer("outside")
        \/ /\ passed \subseteq Places
           /\ pixels' = [p \in Places |-> IF p \in passed THEN run[p - it + 1] ELSE pixels[p]]
           /\ \/ passed = Following(Len(run)) /\ next
              \/ /\ passed # Following(Len(run))
                 /\ phase' = "true"
                 /\ UNCHANGED <<written, source, line_begin, it>>

Encoded ==
    LET n == Byte(0)
        run == [i \in 1..n |-> IF bits = 8 THEN Byte(1)
                               ELSE IF i % 2 = 1 THEN Byte(1) \div 16 ELSE Byte(1) % 16]
    IN  /\ Reads(Byte(0) > 0)
        /\ \/ /\ IsPixelInsideLine(n)
              /\ Put(run, it' = it + n /\ GoOn(2) /\ UNCHANGED line_begin)
           \/ ~IsPixelInsideLine(n) /\ Answer("false")

\* Mutant: an odd run is not followed by a byte of padding.
Absolute8Unpadded(n) == [run |-> [i \in 1..n |-> Byte(1 + i)], read |-> n]

Absolute8(n) == [run |-> [i \in 1..n |-> Byte(1 + i)], read |-> n + (n % 2)]

\* Pairs while one is left to come, and always one pixel more.
Absolute4(n) ==
    LET pairs == n \div 2
        size == (n + 1) \div 2
    IN  [run |-> [i \in 1..(2 * pairs + 1) |-> IF i % 2 = 1 THEN Byte(1 + (i + 1) \div 2) \div 16
                                               ELSE Byte(1 + i \div 2) % 16],
         read |-> pairs + 1 + (size % 2)]

Absolute ==
    LET n == Byte(1)
        a == IF bits = 8 THEN Absolute8(n) ELSE Absolute4(n)
        fits == IsPixelInsideLine(n)
                  /\ IsPixelInside(source + 2, IF bits = 8 THEN n ELSE (n + 1) \div 2)
    IN  /\ Reads(Byte(0) = 0 /\ Byte(1) > 2)
        /\ \/ /\ fits
              /\ Put(a.run, it' = it + Len(a.run) /\ GoOn(2 + a.read) /\ UNCHANGED line_begin)
           \/ ~fits /\ Answer("false")

\* nextLine: completeLine, iterateLine
EndOfLine == /\ Reads(Byte(0) = 0 /\ Byte(1) = 0)
             /\ Put([i \in 1..LeftInLine |-> Black],
                    it' = ToNextRow /\ line_begin' = ToNextRow /\ GoOn(2))

EndOfBitmap ==
    /\ Reads(Byte(0) = 0 /\ Byte(1) = 1)
    /\ pixels' = [p \in Places |-> IF p \in LeftInImage THEN Black ELSE pixels[p]]
    /\ phase' = IF source + 2 = Len(bytes)
                     \/ (it \in Places /\ Passed(LeftInLine) # Following(LeftInLine))
                THEN "true" ELSE "false"
    /\ source' = source + 2
    /\ UNCHANGED <<written, line_begin, it>>

\* skip: upside down, the columns are counted the wrong way too.
Skip(x, y) ==
    IF reversed THEN it' = it - y * Width - x /\ line_begin' = line_begin - y * Width
    ELSE it' = it + y * Width + x /\ line_begin' = line_begin + y * Width

Delta == /\ Reads(Byte(0) = 0 /\ Byte(1) = 2)
         /\ \/ /\ IsPixelInside(source + 2, 2)
               /\ Skip(Byte(2), Byte(3))
               /\ GoOn(4)
               /\ UNCHANGED pixels
            \/ ~IsPixelInside(source + 2, 2) /\ Answer("false")

Writing == \/ \E n \in EncodedLengths, c, d \in Colours[bits] : WriteEncoded(n, c, d)
           \/ \E run \in AbsoluteRuns[bits] : WriteAbsolute(run)
           \/ WriteEndOfLine
           \/ WriteEndOfBitmap
           \/ \E s \in Skips[reversed] : WriteDelta(s[1], s[2])

Reading == EndOfData \/ Encoded \/ Absolute \/ EndOfLine \/ EndOfBitmap \/ Delta

RleNext == Writing \/ (\E n \in DOMAIN bytes : Arrive(n)) \/ Reading

RleSpec == RleInit /\ [][RleNext]_rleVars

-----------------------------------------------------------------------------

\* The pixel of the picture that belongs at a place of the destination.
PlaceInPicture(p) == IF reversed THEN (Height - 1 - p \div Width) * Width + (p % Width) ELSE p

Drawn(p) == picture[PlaceInPicture(p)]

(***************************************************************************)
(* A file that has arrived whole is read and never refused                 *)
(* (bmpDecoder.cpp:669-704): the decoder comes to each command where it    *)
(* begins, every run of the picture is inside its line, and a file that    *)
(* goes on past the last row is accepted (testBmp.cpp:616).                *)
(***************************************************************************)
WholeFilesAreRead == ended /\ intact => phase # "false"

(***************************************************************************)
(* The image of a whole file is the picture that was drawn: black where    *)
(* the lines end early, as it was before where deltas skip pixels, and     *)
(* without what is drawn past the last row (testBmp.cpp:316-355 and 616    *)
(* compare such images with their pictures).                               *)
(***************************************************************************)
DecodesPicture ==
    ended /\ intact /\ phase = "true" => \A p \in Places : pixels[p] = Drawn(p)

(***************************************************************************)
(* Of a file that was cut anywhere, or that has a run too long for its     *)
(* line, no pixel of the image is drawn where the picture does not have    *)
(* it, whatever decode answers: such a run is refused                      *)
(* (testBmp.cpp:513-546).                                                  *)
(***************************************************************************)
BadFilesDrawNothingElse ==
    \A p \in Places : pixels[p] \in {Drawn(p), before}

(***************************************************************************)
(* Runs, ends of line and deltas may lead past the last row. The line      *)
(* after it is at the end of the destination, where CheckIterator refuses  *)
(* every pixel (decoderCommon.h:32-91). Upside down it is before the       *)
(* destination, where CheckIterator refuses none. So a pixel is written    *)
(* outside of the destination only for a file that is upside down and      *)
(* draws past its last row; runs that are too long, deltas out of their    *)
(* line and files that were cut do not lead there.                         *)
(***************************************************************************)
OutsideOnlyUpsideDown == phase = "outside" => reversed /\ beyond
=============================================================================
