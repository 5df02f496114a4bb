---------------------------- MODULE PictureView ----------------------------
(***************************************************************************)
(* pocket::PictureView, the reader of the PocketBook program: keys step    *)
(* through the frames of the current page, which are kept in the cache of  *)
(* its slot, and turn the page at either end of it.  Reader has the page   *)
(* turns alone; this module is shown to implement it.                      *)
(***************************************************************************)
EXTENDS BookOps, CacheScaler

CONSTANTS Disks, Roots,
          Names,    \* the entries of paths
          Screens   \* records of a width and a height

Paths == Path(Names)

Sizes == [width : Nat \ {0}, height : Nat \ {0}]

\* Nothing in the program turns the screen of the device, which is upright.
ASSUME ScreensUpright == \A s \in Screens : s \in Sizes /\ s.width <= s.height

\* When a root is opened, what is listed is there; no archive names an entry twice.
ASSUME DisksAssumption ==
    \A d \in Disks : /\ DiskOK(Paths, d)
                     /\ NamesAreUnique(d)
                     /\ Roots \subseteq DOMAIN d.files
                     /\ NoPathToFile \notin d.images
                     /\ d.images \intersect (d.damaged \union d.empty) = {}
                     /\ \A root \in Roots : \A i \in 1..Len(d.files[root]) :
                           d.files[root][i].isFile => d.files[root][i] \in d.present
                     /\ d.pixels \in [d.images -> [width : Nat \ {0}, height : Nat \ {0},
                                                  depth : Nat]]

ASSUME RootsAssumption == Roots \subseteq {p \in Paths : ~p.isFile /\ p # NoPath}

\* The pages scaled to a screen are not too wide for an unsigned.
ASSUME PagesFit ==
    \A d \in Disks, s \in Screens : \A page \in d.images :
        ScaledWidth(s, d.pixels[page]) < UIntRange

VARIABLES disk,
          screen,    \* the size of the screen
          book,
          drawn,     \* the frame last drawn: its page and where it begins
          answered,  \* what the last page turn answered
          undo       \* the frame that the last step, if it was next(), left

vars == <<disk, screen, book, drawn, answered, undo>>

Frame(cache) == [page |-> cache.page, x |-> cache.x]

NoFrame == [page |-> NoPathToFile, x |-> 0]

Slots(b) == {b.previous, b.current, b.next}

\* A file of 0 bytes or an exception has ended the program.
Ended(b) == b.crashed \/ \E slot \in Slots(b) : b.cached /\ slot.cache.thrown

Init == /\ disk \in Disks
        /\ screen \in Screens
        /\ book = NewBook
        /\ drawn = NoFrame
        /\ answered = TRUE
        /\ undo = NoFrame

Opened == book.explorer.root # NoPath

-----------------------------------------------------------------------------

\* The program ends in the middle of a call of the book.
EndsIn(r) == /\ Ended(r.book)
             /\ book' = r.book
             /\ UNCHANGED drawn

\* Mutant: the neighbours are not loaded.
DrawOnly(r) == /\ ~Ended(r.book)
               /\ r.ok
               /\ book' = r.book
               /\ drawn' = Frame(r.book.current.cache)

DrawAndPreload(r) == /\ ~Ended(r.book)
                     /\ r.ok
                     /\ book' = PreloadAll(r.book, disk)
                     /\ drawn' = Frame(r.book.current.cache)

Refused(r) == /\ ~Ended(r.book)
              /\ ~r.ok
              /\ book' = r.book
              /\ UNCHANGED drawn

\* BookList::onOpen makes the book and hands it to setBook.
SetBook(root) ==
    LET ex == SetRootPath(NewExplorer, disk, root).ex
        b  == WithCaches([NewBook EXCEPT !.explorer = ex], NewCacheScaler(screen))
        r  == ToFirst(b, disk)
    IN  /\ ~Opened
        /\ EndsIn(r) \/ DrawAndPreload(r) \/ Refused(r)
        /\ UNCHANGED answered
        /\ undo' = NoFrame
        /\ UNCHANGED <<disk, screen>>

\* The frame of the current page changes, or else the page.
StepTo(bounds, r) ==
    \/ /\ bounds.ok
       /\ book' = [book EXCEPT !.current.cache = bounds.cache]
       /\ drawn' = Frame(bounds.cache)
       /\ UNCHANGED answered
    \/ /\ ~bounds.ok
       /\ EndsIn(r) \/ DrawAndPreload(r) \/ Refused(r)
       /\ answered' = r.ok

\* Mutant: the page is turned whether or not there is a frame left.
NextAtOnce ==
    /\ Opened
    /\ ~Ended(book)
    /\ StepTo(Stays(book.current.cache), Increment(book, disk))
    /\ undo' = IF drawn' # drawn THEN drawn ELSE NoFrame
    /\ UNCHANGED <<disk, screen>>

NextKey ==
    /\ Opened
    /\ ~Ended(book)
    /\ StepTo(NextBounds(book.current.cache), Increment(book, disk))
    /\ undo' = IF drawn' # drawn THEN drawn ELSE NoFrame
    /\ UNCHANGED <<disk, screen>>

PreviousKey ==
    /\ Opened
    /\ ~Ended(book)
    /\ StepTo(PreviousBounds(book.current.cache), Decrement(book, disk))
    /\ undo' = NoFrame
    /\ UNCHANGED <<disk, screen>>

Next == \/ \E r \in Roots : SetBook(r)
        \/ NextKey
        \/ PreviousKey

Spec == Init /\ [][Next]_vars

-----------------------------------------------------------------------------

(***************************************************************************)
(* On an upright screen, every frame that a cache stands at lies inside    *)
(* its page (cacheScaler.cpp:34-66): the unsigned differences do not wrap, *)
(* and manDrawBitmap copies rows that the image has.                       *)
(***************************************************************************)
FrameInside(cache) ==
    cache.page # NoPathToFile => cache.x >= 0 /\ cache.x + cache.screen.width <= cache.width

FramesInsidePages == book.cached => \A slot \in Slots(book) : FrameInside(slot.cache)

(***************************************************************************)
(* On a page of at most three screens, next() leaves out no part of it: a  *)
(* frame begins where the one before it has not ended, a page is left when *)
(* its end has been seen, and the page turned to begins at its beginning,  *)
(* though its cache may have shown other frames before                     *)
(* (pictureview.cpp:63-81, cacheScaler.cpp:34-48).                         *)
(***************************************************************************)
FitsThreeFrames(cache) == cache.width <= 3 * cache.screen.width

NothingSkipped(cache) ==
    IF book'.current.image = book.current.image
    THEN drawn'.x > cache.x /\ drawn'.x <= cache.x + screen.width
    ELSE drawn'.x = 0 /\ cache.x + screen.width = cache.width

NextSkipsNothing ==
    [][NextKey /\ ~IsEmptySlot(book.current) /\ ~Ended(book') /\ drawn' # drawn
          /\ FitsThreeFrames(book.current.cache) => NothingSkipped(book.current.cache)]_vars

(***************************************************************************)
(* previous() straight after next() shows again what next() had left, also *)
(* from the first frame of a page to the last one of the page before it,   *)
(* and though grey pages show another page in their place                  *)
(* (pictureview.cpp:83-101, book.cpp:551-559).                             *)
(***************************************************************************)
PreviousUndoesNext ==
    [][PreviousKey /\ undo # NoFrame /\ ~Ended(book') => drawn' = undo]_vars

(***************************************************************************)
(* A page in colours is shown when it is the current page, whatever pages  *)
(* its cache had been told of or had failed to convert                     *)
(* (cacheScaler.cpp:70-72, book.cpp:639-646).                              *)
(***************************************************************************)
ColourPagesAreShown ==
    ~IsEmptySlot(book.current) /\ ~Ended(book) /\ IsColour(disk, book.current.image)
        => drawn = Frame(book.current.cache) /\ drawn.page = book.current.image

(***************************************************************************)
(* "All about current image" (book.h:142) are currentImage and             *)
(* currentCache: the current cache shows the current image.                *)
(***************************************************************************)
CacheShowsCurrentImage ==
    ~IsEmptySlot(book.current) /\ ~Ended(book) => book.current.cache.page = book.current.image

(***************************************************************************)
(* Without its frames, PictureView is the "pocket" program of Reader: each *)
(* step is one of Reader's or changes nothing of it, until an exception    *)
(* ends the program (pictureview.cpp:45-101).                              *)
(***************************************************************************)
PagesOnly(slot) == [slot EXCEPT !.cache = IF book.cached THEN @.page ELSE @]

ConvertedPage(d, cache, page) == IF IsColour(d, page) THEN page ELSE cache

PageTurns ==
    INSTANCE Reader WITH
        FrontEnds <- {"pocket"}, frontEnd <- "pocket", OnLoaded <- ConvertedPage,
        book <- [book EXCEPT !.previous = PagesOnly(@), !.current = PagesOnly(@),
                             !.next = PagesOnly(@)],
        screen <- drawn.page

ImplementsReader ==
    /\ book = NewBook /\ drawn.page = NoPathToFile /\ answered = TRUE
    /\ [][Ended(book') \/ PageTurns!Next]_(PageTurns!vars)
=============================================================================
