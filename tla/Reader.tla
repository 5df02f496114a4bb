------------------------------- MODULE Reader -------------------------------
(***************************************************************************)
(* The programs that show a book: a manga::Book and the event handlers of  *)
(* its front end, while somebody else may delete files.                    *)
(*                                                                         *)
(*   "linux"  : pocketmanga_linux.cpp turns pages with incrementPosition   *)
(*              and decrementPosition and has no caches.                   *)
(*   "pocket" : PictureView installs caches and preloads the neighbours    *)
(*              after every page it draws.  The frames of a page are left  *)
(*              out: next() and previous() here are those that find no     *)
(*              frame to move to and turn the page.  OnLoaded says which   *)
(*              pages a cache takes over; at the others it keeps the page  *)
(*              it had, or throws if it had none.                          *)
(***************************************************************************)
EXTENDS BookOps

CONSTANTS Disks, Roots, FrontEnds,
          Names   \* the entries of paths

Paths == Path(Names)

DiskFields == {"files", "archives", "present", "images", "damaged", "empty"}

\* When a root is opened, what is listed is there; no archive names an entry twice.
ASSUME DisksAssumption ==
    \A d \in Disks : /\ DiskFields \subseteq DOMAIN d
                     /\ DiskOK(Paths, d)
                     /\ NamesAreUnique(d)
                     /\ Roots \subseteq DOMAIN d.files
                     /\ NoPathToFile \notin d.images
                     /\ d.images \intersect (d.damaged \union d.empty) = {}
                     /\ \A root \in Roots : \A i \in 1..Len(d.files[root]) :
                           d.files[root][i].isFile => d.files[root][i] \in d.present

ASSUME RootsAssumption == Roots \subseteq {p \in Paths : ~p.isFile /\ p # NoPath}

VARIABLES disk,
          frontEnd,   \* which program runs
          book,
          screen,     \* the page last drawn
          answered    \* what the last page turn answered

vars == <<disk, frontEnd, book, screen, answered>>

Init == /\ disk \in Disks
        /\ frontEnd \in FrontEnds
        /\ book = NewBook
        /\ screen = NoPathToFile
        /\ answered = TRUE

Root == book.explorer.root

Opened == Root # NoPath

(***************************************************************************)
(* A cache that has had no page yet throws if it cannot take over the      *)
(* first one that it is told of.  The step in which that happens goes on   *)
(* to its end here, and is the last one; PictureView cuts it short.        *)
(***************************************************************************)
CacheThrew ==
    /\ book.cached
    /\ \E slot \in {book.previous, book.current, book.next} :
          slot.image \in disk.images /\ slot.cache = NoPathToFile

\* Neither a file of 0 bytes nor an exception has ended the program.
Running == ~book.crashed /\ ~CacheThrew

-----------------------------------------------------------------------------

\* UpdateCurrentImage draws the image.
DrawImage(b) == screen' = b.current.image

\* draw(scaler_): scaler_ is the cache of current_.
DrawCache(b) == screen' = b.current.cache

\* BookExplorer::setRoot of a book that has just been made.
SetRootOf(b, root) == [b EXCEPT !.explorer = SetRootPath(@, disk, root).ex]

\* main: setRoot, incrementPosition, UpdateCurrentImage.
OpenLinux(root) ==
    LET r == Increment(SetRootOf(NewBook, root), disk)
    IN  /\ frontEnd = "linux"
        /\ ~Opened
        /\ book' = r.book
        /\ DrawImage(r.book)
        /\ UNCHANGED <<disk, frontEnd, answered>>

\* BookList::onOpen and PictureView::setBook.
OpenPocket(root) ==
    LET r == ToFirst(WithCaches(SetRootOf(NewBook, root), NoPathToFile), disk)
    IN  /\ frontEnd = "pocket"
        /\ ~Opened
        /\ IF r.ok THEN book' = PreloadAll(r.book, disk) /\ DrawCache(r.book)
           ELSE book' = r.book /\ UNCHANGED screen
        /\ UNCHANGED <<disk, frontEnd, answered>>

\* processEvent redraws whatever the key's page turn answered.
TurnLinux(r) ==
    /\ frontEnd = "linux"
    /\ Opened
    /\ Running
    /\ book' = r.book
    /\ answered' = r.ok
    /\ DrawImage(r.book)
    /\ UNCHANGED <<disk, frontEnd>>

\* Mutant: the page is drawn before it is turned.
TurnPocketDrawnFirst(r) ==
    /\ frontEnd = "pocket"
    /\ Opened
    /\ Running
    /\ answered' = r.ok
    /\ IF r.ok THEN book' = PreloadAll(r.book, disk) /\ DrawCache(book)
       ELSE book' = r.book /\ UNCHANGED screen
    /\ UNCHANGED <<disk, frontEnd>>

\* PictureView draws and preloads only after a page has been turned.
TurnPocket(r) ==
    /\ frontEnd = "pocket"
    /\ Opened
    /\ Running
    /\ answered' = r.ok
    /\ IF r.ok THEN book' = PreloadAll(r.book, disk) /\ DrawCache(r.book)
       ELSE book' = r.book /\ UNCHANGED screen
    /\ UNCHANGED <<disk, frontEnd>>

KeyRight     == TurnLinux(Increment(book, disk))
KeyLeft      == TurnLinux(Decrement(book, disk))
NextPage     == TurnPocket(Increment(book, disk))
PreviousPage == TurnPocket(Decrement(book, disk))

Forward  == KeyRight \/ NextPage
Backward == KeyLeft \/ PreviousPage

\* Somebody deletes a file below the open directory.
DeleteFile(f) ==
    /\ Opened
    /\ disk' = [disk EXCEPT !.present = @ \ {f}]
    /\ UNCHANGED <<frontEnd, book, screen, answered>>

Next == \/ \E r \in Roots : OpenLinux(r) \/ OpenPocket(r)
        \/ Forward
        \/ Backward
        \/ \E f \in disk.present : DeleteFile(f)

Spec == Init /\ [][Next]_vars

-----------------------------------------------------------------------------

Promised == INSTANCE PageReader WITH root <- Root, page <- book.current.image

\* On files that are not damaged, a reader sees pages in order and none is skipped (book.h:135-138).
ImplementsPageReader == Promised!ReaderSpec

(***************************************************************************)
(* While a page is shown, previous_ and next_ hold its neighbours or       *)
(* nothing, however the explorer was moved to load them (book.cpp:571-673).*)
(***************************************************************************)
SlotsInOrder ==
    ~IsEmptySlot(book.current) =>
        /\ ~IsEmptySlot(book.previous) =>
              Promised!Adjacent(disk, Root, book.previous.image, book.current.image)
        /\ ~IsEmptySlot(book.next) =>
              Promised!Adjacent(disk, Root, book.current.image, book.next.image)

\* A cache takes the page over whatever page it had, as CacheScaler does with all but grey ones.
TakenOver(d, page) ==
    \A cache \in d.images \union {NoPathToFile} : OnLoaded(d, cache, page) = page

(***************************************************************************)
(* What a slot's cache holds is the slot's own image, if it is one that    *)
(* caches take over, through all the swapping of incrementPosition and     *)
(* decrementPosition (book.cpp:551-559).                                   *)
(***************************************************************************)
CachesFollowImages ==
    book.cached =>
        \A slot \in {book.previous, book.current, book.next} :
            slot.image \in disk.images /\ TakenOver(disk, slot.image) => slot.cache = slot.image

(***************************************************************************)
(* What is on the screen is the current page (pictureview.cpp:45-101), but *)
(* for "pocket" only if it is a page that caches take over: at a grey page *)
(* the screen keeps another page (cacheScaler.cpp:70-82).                  *)
(***************************************************************************)
ScreenShowsCurrent ==
    /\ ~IsEmptySlot(book.current)
    /\ frontEnd = "pocket" => TakenOver(disk, book.current.image)
    => screen = book.current.image

(***************************************************************************)
(* A page turn is refused only at the end of the book, or when the archive *)
(* that holds the current page has been deleted (book.cpp:576 and 597), as *)
(* long as no file of 0 bytes and no exception ends the program.           *)
(***************************************************************************)
PagesLeft(after) ==
    \E s \in Promised!ImagePlaces(disk, Root) :
        LET p == Promised!PageAt(disk, Root, s)
        IN  /\ Promised!OnDisk(disk, p)
            /\ \E t \in Promised!ImagePlaces(disk, Root) :
                  /\ Promised!PageAt(disk, Root, t) = book.current.image
                  /\ IF after THEN Before(t, s) ELSE Before(s, t)

RefusesOnlyAtTheEnds ==
    [][~IsEmptySlot(book.current) /\ Promised!OnDisk(disk, book.current.image) /\ Running' =>
          /\ Forward /\ ~answered' => ~PagesLeft(TRUE)
          /\ Backward /\ ~answered' => ~PagesLeft(FALSE)]_vars

(***************************************************************************)
(* "find first suitable file" (book.cpp:623): what the program meets on    *)
(* its way to the next image, an empty file too, is stepped over.          *)
(***************************************************************************)
StepsOverUnsuitableFiles == ~book.crashed
=============================================================================
