------------------------------ MODULE BookOps ------------------------------
(***************************************************************************)
(* What each operation of manga::Book does, as functions from the book's   *)
(* fields and the disk to the answer and the new fields.                   *)
(*                                                                         *)
(* A slot (Book::ImageData) holds an image, named here by the page whose   *)
(* bytes it was decoded from, the bookmark of that page, and an IBookCache. *)
(* NoPathToFile stands for an empty image, for no bookmark and for no      *)
(* cache.  Of the disk, disk.empty are the files of 0 bytes.               *)
(***************************************************************************)
EXTENDS ExplorerOps

CONSTANT OnLoaded(_, _, _)  \* a cache, as a function of the disk, of what
                            \* it held and of the page it is told of

(***************************************************************************)
(* IBookCache::onLoaded of a cache that takes over every page it is told   *)
(* of.  CacheScaler (CacheScaler.tla) does so with pages of 3 or 4 bytes a *)
(* pixel; at a grey one it keeps the page before or throws.                *)
(***************************************************************************)
Told(disk, cache, page) == page

EmptySlot == [image |-> NoPathToFile, bookmark |-> NoPathToFile, cache |-> NoPathToFile]

IsEmptySlot(slot) == slot.image = NoPathToFile

\* clear() leaves the cache alone.
ClearSlot(slot) == [slot EXCEPT !.image = NoPathToFile, !.bookmark = NoPathToFile]

\* "cached" says whether the three slots have a cache: all do or none does.
NewBook == [explorer |-> NewExplorer, cached |-> FALSE, crashed |-> FALSE,
            previous |-> EmptySlot, current |-> EmptySlot, next |-> EmptySlot]

BookOk(b)   == [ok |-> TRUE, book |-> b]
BookFail(b) == [ok |-> FALSE, book |-> b]

(***************************************************************************)
(* Reading a file of 0 bytes asks a null ByteArray for a buffer of that    *)
(* length and dereferences a null pointer: the process ends.               *)
(***************************************************************************)
Crashed(b) == BookFail([b EXCEPT !.crashed = TRUE])

-----------------------------------------------------------------------------
(* loadFromExplorerInto                                                    *)

\* The file at the position is read and is one of these pages.
Holds(pages, ex, disk) == Readable(ex, disk) /\ GetCurrentPos(ex) \in pages

StopsHolding(pages, S, ex, disk) == {s \in S : Holds(pages, StopAt(ex, disk, s), disk)}

Loaded(b, disk, slot) ==
    LET page == GetCurrentPos(b.explorer)
    IN  [image |-> page, bookmark |-> page,
         cache |-> IF b.cached THEN OnLoaded(disk, slot.cache, page) ELSE slot.cache]

LoadPrevious(b, disk) == [b EXCEPT !.previous = Loaded(b, disk, @)]
LoadCurrent(b, disk)  == [b EXCEPT !.current = Loaded(b, disk, @)]
LoadNext(b, disk)     == [b EXCEPT !.next = Loaded(b, disk, @)]

\* Mutant: the bookmark is set before the image is known to load.
SpoiltWithBookmark(slot, ex) ==
    [slot EXCEPT !.image = GetCurrentPos(ex), !.bookmark = GetCurrentPos(ex)]

\* A decoder that fails has already created the image: the slot keeps it.
Spoilt(slot, ex) == [slot EXCEPT !.image = GetCurrentPos(ex)]

\* Mutant: findAndLoadNext tries one file only.
LoadNextFile(b, disk) ==
    LET r == NextFile(b.explorer, disk)
        there == [b EXCEPT !.explorer = r.ex]
    IN  IF r.ok /\ Holds(disk.images, r.ex, disk) THEN BookOk(LoadNext(there, disk))
        ELSE BookFail(there)

(***************************************************************************)
(* findAndLoadNext and findAndLoadPrevious step over the files that do not *)
(* load, up to the end the explorer's loop runs into; what the last        *)
(* damaged one left in the slot stays unless an image is found.  A file of *)
(* 0 bytes on the way ends the process.                                    *)
(***************************************************************************)
FindAndLoadNext(b, disk) ==
    LET S == StopsAfter(b.explorer, disk)
        images == StopsHolding(disk.images, S, b.explorer, disk)
        damaged == StopsHolding(disk.damaged, S, b.explorer, disk)
        empty == StopsHolding(disk.empty, S, b.explorer, disk)
        atEnd == [b EXCEPT !.explorer = AtLastIndex(@)]
        to(s) == StopAt(b.explorer, disk, s)
    IN  IF \E e \in empty : \A i \in images : Before(e, i) THEN Crashed(b)
        ELSE IF images # {}
        THEN BookOk(LoadNext([b EXCEPT !.explorer = to(Nearest(images))], disk))
        ELSE IF damaged # {}
        THEN BookFail([atEnd EXCEPT !.next = Spoilt(@, to(Farthest(damaged)))])
        ELSE BookFail(atEnd)

FindAndLoadPrevious(b, disk) ==
    LET S == StopsBefore(b.explorer, disk)
        images == StopsHolding(disk.images, S, b.explorer, disk)
        damaged == StopsHolding(disk.damaged, S, b.explorer, disk)
        empty == StopsHolding(disk.empty, S, b.explorer, disk)
        atEnd == [b EXCEPT !.explorer = AtFirstIndex(@)]
        to(s) == StopAt(b.explorer, disk, s)
    IN  IF b.explorer.files = <<>> THEN BookFail(b)
        ELSE IF \E e \in empty : \A i \in images : Before(i, e) THEN Crashed(b)
        ELSE IF images # {}
        THEN BookOk(LoadPrevious([b EXCEPT !.explorer = to(Farthest(images))], disk))
        ELSE IF damaged # {}
        THEN BookFail([atEnd EXCEPT !.previous = Spoilt(@, to(Nearest(damaged)))])
        ELSE BookFail(atEnd)

\* An image that is not the first file is loaded into next_, not current_.
ToFirst(b, disk) ==
    LET r == FirstFile(b.explorer, disk)
        there == [b EXCEPT !.explorer = r.ex]
    IN  IF ~r.ok THEN BookFail(there)
        ELSE IF Holds(disk.empty, r.ex, disk) THEN Crashed(there)
        ELSE IF Holds(disk.images, r.ex, disk) THEN BookOk(LoadCurrent(there, disk))
        ELSE IF Holds(disk.damaged, r.ex, disk)
        THEN FindAndLoadNext([there EXCEPT !.current = Spoilt(@, r.ex)], disk)
        ELSE FindAndLoadNext(there, disk)

\* The last image is loaded into previous_, whether it is the last file or not.
ToLast(b, disk) ==
    LET r == LastFile(b.explorer, disk)
        there == [b EXCEPT !.explorer = r.ex]
    IN  IF ~r.ok THEN BookFail(there)
        ELSE IF Holds(disk.empty, r.ex, disk) THEN Crashed(there)
        ELSE IF Holds(disk.images, r.ex, disk) THEN BookOk(LoadPrevious(there, disk))
        ELSE IF Holds(disk.damaged, r.ex, disk)
        THEN FindAndLoadPrevious([there EXCEPT !.previous = Spoilt(@, r.ex)], disk)
        ELSE FindAndLoadPrevious(there, disk)

-----------------------------------------------------------------------------
(* The slots move with their caches: ImageData::swap exchanges the images, *)
(* the bookmarks and what the caches hold.                                 *)

\* Mutant: the caches stay where they are.
ShiftForwardBesideCaches(b) ==
    [b EXCEPT !.previous = [b.current EXCEPT !.cache = b.previous.cache],
              !.current = [b.next EXCEPT !.cache = b.current.cache],
              !.next = ClearSlot(b.next)]

\* Mutant: next_ is not cleared.
ShiftForwardUncleared(b) == [b EXCEPT !.previous = b.current, !.current = b.next,
                                      !.next = b.previous]

ShiftForward(b) == [b EXCEPT !.previous = b.current, !.current = b.next,
                             !.next = ClearSlot(b.previous)]

\* Mutant: the caches stay where they are.
ShiftBackwardBesideCaches(b) ==
    [b EXCEPT !.next = [b.current EXCEPT !.cache = b.next.cache],
              !.current = [b.previous EXCEPT !.cache = b.current.cache],
              !.previous = ClearSlot(b.previous)]

ShiftBackward(b) == [b EXCEPT !.next = b.current, !.current = b.previous,
                              !.previous = ClearSlot(b.next)]

\* enter(current_.bookmark.currentFile)
EnterCurrent(b, disk) ==
    LET r == EnterPath(b.explorer, disk, b.current.bookmark)
    IN  [ok |-> r.ok, book |-> [b EXCEPT !.explorer = r.ex]]

\* Mutant: the search starts where the explorer was left.
LoadAheadFromHere(b, disk) == FindAndLoadNext(b, disk)

LoadAhead(b, disk) ==
    LET r == EnterCurrent(b, disk)
    IN  IF r.ok THEN FindAndLoadNext(r.book, disk) ELSE r

LoadBehind(b, disk) ==
    LET r == EnterCurrent(b, disk)
    IN  IF r.ok THEN FindAndLoadPrevious(r.book, disk) ELSE r

Increment(b, disk) ==
    LET r == IF IsEmptySlot(b.next) THEN LoadAhead(b, disk) ELSE BookOk(b)
    IN  IF IsEmptySlot(b.current) THEN ToFirst(b, disk)
        ELSE IF r.ok THEN BookOk(ShiftForward(r.book)) ELSE r

Decrement(b, disk) ==
    LET r == IF IsEmptySlot(b.previous) THEN LoadBehind(b, disk) ELSE BookOk(b)
    IN  IF IsEmptySlot(b.current) THEN ToLast(b, disk)
        ELSE IF r.ok THEN BookOk(ShiftBackward(r.book)) ELSE r

\* preload: previous_ first, then next_; it answers nothing.
PreloadAll(b, disk) ==
    LET b1 == IF IsEmptySlot(b.current) THEN ToFirst(b, disk).book ELSE b
        b2 == IF IsEmptySlot(b1.previous) THEN LoadBehind(b1, disk).book ELSE b1
        b3 == IF IsEmptySlot(b2.next) THEN LoadAhead(b2, disk).book ELSE b2
    IN  IF IsEmptySlot(b1.current) THEN b1 ELSE b3

\* setCachePrototype: the prototype for current_ and clones of it for the others.
WithCaches(b, prototype) ==
    [b EXCEPT !.cached = TRUE, !.previous.cache = prototype,
              !.current.cache = prototype, !.next.cache = prototype]

\* goToBookmark: only the explorer moves.
BookmarkOf(b) == [currentFile |-> b.current.bookmark, rootDir |-> NoPath]

GoTo(b, disk, mark) ==
    LET r == SetRootPath(b.explorer, disk, mark.rootDir)
        e == EnterPath(r.ex, disk, mark.currentFile)
        a == IF r.ok THEN e ELSE r
    IN  [ok |-> a.ok, book |-> [b EXCEPT !.explorer = a.ex]]
=============================================================================
