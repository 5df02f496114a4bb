---------------------------- MODULE CacheScaler ----------------------------
(***************************************************************************)
(* manga::CacheScaler, the cache a slot of the book has in the PocketBook  *)
(* program: the last page it could convert, scaled and turned so that it   *)
(* is as high as the screen, and the frame of it that is shown.  A frame   *)
(* is as wide as the screen; bounds.x says where in the page it begins.    *)
(*                                                                         *)
(* disk.pixels gives the size and the depth of every image.  Pixels of     *)
(* depth 1 are grey, and toBgr converts those of depth 3 and 4 only.       *)
(***************************************************************************)
EXTENDS ExplorerOps

CONSTANT UIntRange  \* 2^32: utils::Rect::SizeType is unsigned

ASSUME UIntRangeAssumption == UIntRange \in Nat /\ UIntRange = 2 * (UIntRange \div 2)

\* unsigned - unsigned, and its conversion to int.
Minus(a, b) == IF a >= b THEN a - b ELSE UIntRange + a - b
ToInt(u)    == IF u < UIntRange \div 2 THEN u ELSE u - UIntRange

\* "thrown": onLoaded has ended with an exception that nobody catches.
NewCacheScaler(screen) ==
    [screen |-> screen, page |-> NoPathToFile, width |-> 0, x |-> 0, thrown |-> FALSE]

IsColour(disk, page) == disk.pixels[page].depth \in {3, 4}

\* A page that is not wider than high is turned by a right angle.
ScaledWidth(screen, pixels) ==
    IF pixels.width <= pixels.height
    THEN (screen.height * pixels.height) \div pixels.width
    ELSE (screen.height * pixels.width) \div pixels.height

ShowFromBeginning(disk, cache, page) ==
    [cache EXCEPT !.page = page, !.x = 0,
                  !.width = ScaledWidth(cache.screen, disk.pixels[page])]

\* Mutant: the frame of the page that was shown before is kept.
OnLoadedAtOldFrame(disk, cache, page) ==
    IF IsColour(disk, page)
    THEN [ShowFromBeginning(disk, cache, page) EXCEPT !.x = cache.x]
    ELSE IF cache.page = NoPathToFile THEN [cache EXCEPT !.thrown = TRUE]
    ELSE [cache EXCEPT !.x = 0]

(***************************************************************************)
(* A grey page is not converted: orig_ keeps the page from before, which   *)
(* is scaled and shown once more.  If there is none, img::copy asks for an *)
(* image of depth 0, and create throws.                                    *)
(***************************************************************************)
ScalerOnLoaded(disk, cache, page) ==
    IF IsColour(disk, page) THEN ShowFromBeginning(disk, cache, page)
    ELSE IF cache.page = NoPathToFile THEN [cache EXCEPT !.thrown = TRUE]
    ELSE [cache EXCEPT !.x = 0]

-----------------------------------------------------------------------------
(* nextBounds and previousBounds.  Before a page has been loaded the       *)
(* bounds and the image are empty, and both answer false.                  *)

SecondFrame(cache) == ToInt(Minus(cache.width, cache.screen.width) \div 2)
ThirdFrame(cache)  == ToInt(Minus(cache.width, cache.screen.width))

Moved(cache, x) == [ok |-> TRUE, cache |-> [cache EXCEPT !.x = x]]
Stays(cache)    == [ok |-> FALSE, cache |-> cache]

\* Mutant: the third frame begins where the page ends.
NextBoundsPastTheEnd(cache) ==
    IF cache.page = NoPathToFile THEN Stays(cache)
    ELSE IF cache.x < SecondFrame(cache) THEN Moved(cache, SecondFrame(cache))
    ELSE IF cache.x < cache.width THEN Moved(cache, cache.width)
    ELSE Stays(cache)

NextBounds(cache) ==
    IF cache.page = NoPathToFile THEN Stays(cache)
    ELSE IF cache.x < SecondFrame(cache) THEN Moved(cache, SecondFrame(cache))
    ELSE IF cache.x < ThirdFrame(cache) THEN Moved(cache, ThirdFrame(cache))
    ELSE Stays(cache)

\* Mutant: the second frame is passed over.
PreviousBoundsToBeginning(cache) ==
    IF cache.page = NoPathToFile \/ cache.x <= 0 THEN Stays(cache) ELSE Moved(cache, 0)

PreviousBounds(cache) ==
    IF cache.page = NoPathToFile THEN Stays(cache)
    ELSE IF cache.x > SecondFrame(cache) THEN Moved(cache, SecondFrame(cache))
    ELSE IF cache.x > 0 THEN Moved(cache, 0)
    ELSE Stays(cache)
=============================================================================
