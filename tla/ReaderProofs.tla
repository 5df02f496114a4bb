---------------------------- MODULE ReaderProofs ----------------------------
(***************************************************************************)
(* The programs that show a book, proved for every disk, whatever its      *)
(* directories and archives are and whichever files are deleted meanwhile. *)
(* A deletion changes neither the list the explorer holds nor the list of  *)
(* an open archive, so a page keeps its place; what may change between two *)
(* steps is which places can still be read.                                *)
(***************************************************************************)
EXTENDS Reader, OpsProofs

AnyRoot == Roots \union {NoPath}

\* What deletions may leave of a disk.
Left(d) == {d} \union {[d EXCEPT !.present = P] : P \in SUBSET d.present}

(***************************************************************************)
(* A cache that is told of a page takes it over or keeps the page it had,  *)
(* whatever else has been deleted.  The one that takes every page over     *)
(* (Told) does so, and CacheScaler without its frames (ConvertedPage of    *)
(* PictureView).                                                           *)
(***************************************************************************)
KeepOrTakeOver ==
    \A x \in Disks : \A d \in Left(x) : \A cache, page :
        /\ OnLoaded(d, cache, page) \in {cache, page}
        /\ OnLoaded(d, cache, page) = OnLoaded(x, cache, page)

\* What a slot or its cache can hold, and the slots whose cache holds their own
\* image if it is one that caches take over.
Pages(d) == d.images \union d.damaged \union {NoPathToFile}

CachedPages(d) == d.images \union {NoPathToFile}

FollowingSlots(d) ==
    {s \in [image : Pages(d), bookmark : Pages(d), cache : CachedPages(d)] :
        s.image \in d.images /\ TakenOver(d, s.image) => s.cache = s.image}

\* What deletions leave true of a disk.
DiskFits(d) == /\ DiskFields \subseteq DOMAIN d
               /\ DiskOK(Paths, d)
               /\ NamesAreUnique(d)
               /\ Roots \subseteq DOMAIN d.files
               /\ NoPathToFile \notin d.images
               /\ d.images \intersect (d.damaged \union d.empty) = {}
               /\ \E x \in Disks : d \in Left(x)

BookFits(d, b) == BookOK(AnyRoot, Paths, d, FollowingSlots(d), b)

\* A book opened at a root: the list is the root's, and "pocket" has caches.
OpenedAt(d, b, root, front) == /\ root \in Roots
                               /\ b.explorer.root = root
                               /\ b.explorer.files = d.files[root]
                               /\ front = "pocket" => b.cached

\* The inductive invariant that needs no undamaged files.
IInv == /\ DiskFits(disk)
        /\ BookFits(disk, book)
        /\ ~Opened => book = NewBook /\ disk \in Disks /\ screen = NoPathToFile
        /\ Opened => OpenedAt(disk, book, Root, frontEnd)

LEMMA DisksFit == ASSUME NEW d \in Disks PROVE DiskFits(d)
BY DisksAssumption DEF DiskFits, Left

\* The caches of a disk are those of what is left of it.
LEMMA SameCaches ==
    ASSUME KeepOrTakeOver, NEW x \in Disks, NEW d \in Left(x)
    PROVE  /\ d.images = x.images
           /\ \A page : TakenOver(d, page) <=> TakenOver(x, page)
<1>1. d.images = x.images
  BY DisksAssumption DEF Left, DiskFields
<1>2. \A cache, page : OnLoaded(d, cache, page) = OnLoaded(x, cache, page)
  BY DEF KeepOrTakeOver
<1> QED
  BY <1>1, <1>2 DEF TakenOver

LEMMA LeftAgain ==
    ASSUME NEW x \in Disks, NEW d \in Left(x), NEW f
    PROVE  [d EXCEPT !.present = @ \ {f}] \in Left(x)
<1>1. "present" \in DOMAIN x
  BY DisksAssumption DEF DiskFields
<1>2. CASE d = x
  <2>1. x.present \ {f} \in SUBSET x.present
    OBVIOUS
  <2> QED
    BY <1>2, <2>1 DEF Left
<1>3. CASE \E P \in SUBSET x.present : d = [x EXCEPT !.present = P]
  <2>1. PICK P \in SUBSET x.present : d = [x EXCEPT !.present = P]
    BY <1>3
  <2>2. [d EXCEPT !.present = @ \ {f}] = [x EXCEPT !.present = P \ {f}]
    BY <1>1, <2>1
  <2>3. P \ {f} \in SUBSET x.present
    OBVIOUS
  <2> QED
    BY <2>2, <2>3 DEF Left
<1> QED
  BY <1>2, <1>3 DEF Left

LEMMA FollowingSlotsClosed ==
    ASSUME KeepOrTakeOver, NEW d, DiskFits(d)
    PROVE  SlotsClosed(d, FollowingSlots(d)) /\ EmptySlot \in FollowingSlots(d)
<1>1. ASSUME NEW slot \in FollowingSlots(d)
      PROVE  slot = [image |-> slot.image, bookmark |-> slot.bookmark, cache |-> slot.cache]
             /\ slot.image \in Pages(d) /\ slot.bookmark \in Pages(d)
             /\ slot.cache \in CachedPages(d)
  BY DEF FollowingSlots
<1>2. ASSUME NEW slot \in FollowingSlots(d), NEW page \in d.images
      PROVE  [image |-> page, bookmark |-> page, cache |-> OnLoaded(d, slot.cache, page)]
                \in FollowingSlots(d)
  <2>1. page \in Pages(d)
    BY DEF Pages
  <2> DEFINE cache == OnLoaded(d, slot.cache, page)
  <2>2. slot.cache \in CachedPages(d) /\ page \in CachedPages(d)
    BY <1>1, <1>2 DEF CachedPages
  <2>3. cache \in {slot.cache, page}
    BY DEF DiskFits, KeepOrTakeOver
  <2>4. TakenOver(d, page) => cache = page
    BY <2>2 DEF TakenOver, CachedPages
  <2> HIDE DEF cache
  <2>5. [image |-> page, bookmark |-> page, cache |-> cache] \in FollowingSlots(d)
    BY <2>1, <2>2, <2>3, <2>4 DEF FollowingSlots
  <2> QED
    BY <2>5 DEF cache
<1>3. ASSUME NEW slot \in FollowingSlots(d) PROVE ClearSlot(slot) \in FollowingSlots(d)
  BY <1>1, <1>3 DEF ClearSlot, FollowingSlots, Pages, CachedPages, DiskFits
<1>4. ASSUME NEW slot \in FollowingSlots(d), NEW page \in d.damaged
      PROVE  [slot EXCEPT !.image = page] \in FollowingSlots(d)
  BY <1>1, <1>4 DEF FollowingSlots, Pages, DiskFits
<1>5. EmptySlot \in FollowingSlots(d)
  BY DEF EmptySlot, FollowingSlots, Pages, CachedPages, DiskFits
<1> QED
  BY <1>2, <1>3, <1>4, <1>5 DEF SlotsClosed

-----------------------------------------------------------------------------
(* Opening                                                                 *)

\* A book set to a root: nothing is loaded, and its list is the root's.
JustSet(d, b, root) == /\ BookFits(d, b)
                       /\ b.explorer.root = root /\ b.explorer.files = d.files[root]
                       /\ IsEmptySlot(b.previous) /\ IsEmptySlot(b.current)
                       /\ IsEmptySlot(b.next)

LEMMA SetRootFits ==
    ASSUME KeepOrTakeOver, DiskFits(disk), NEW root \in Roots
    PROVE  /\ JustSet(disk, SetRootOf(NewBook, root), root)
           /\ JustSet(disk, WithCaches(SetRootOf(NewBook, root), NoPathToFile), root)
           /\ WithCaches(SetRootOf(NewBook, root), NoPathToFile).cached
<1> DEFINE G == FollowingSlots(disk)
           new == WithRoot(NewExplorer, disk, root)
           r == SetRootPath(NewExplorer, disk, root)
           b == WithExplorer(NewBook, r.ex)
           c == WithCaches(b, NoPathToFile)
<1>1. DiskOK(Paths, disk) /\ root \in AnyRoot /\ NoPath \in AnyRoot /\ root \in DOMAIN disk.files
  BY DEF DiskFits, AnyRoot
<1>2. ExplorerOK(AnyRoot, Paths, disk, r.ex) /\ r.ex.root = root /\ r.ex.files = disk.files[root]
  <2>1. MovesWithin(AnyRoot, Paths, disk, new, r)
    BY <1>1, FirstRootOK
  <2>2. new.root = root /\ new.files = disk.files[root]
    BY <1>1 DEF WithRoot, NewExplorer, ListFiles
  <2> QED
    BY <2>1, <2>2 DEF MovesWithin
<1>3. /\ BookShape(NewBook) /\ NewBook.explorer = NewExplorer /\ ~NewBook.cached
      /\ NewBook.previous = EmptySlot /\ NewBook.current = EmptySlot
      /\ NewBook.next = EmptySlot
  BY <1>1, NewBookOK
<1>4. SetRootOf(NewBook, root) = b
  BY <1>3 DEF SetRootOf, WithExplorer
<1> HIDE DEF r
<1>5. /\ BookShape(b) /\ b.explorer = r.ex /\ ~b.cached
      /\ b.previous = EmptySlot /\ b.current = EmptySlot /\ b.next = EmptySlot
  BY <1>3, SetExplorer
<1>6. SlotShape(EmptySlot) /\ EmptySlot.bookmark = NoPathToFile /\ EmptySlot.image = NoPathToFile
  BY DEF EmptySlot, SlotShape
<1> HIDE DEF b
<1>7. BookFits(disk, b)
  BY <1>2, <1>5, <1>6 DEF BookFits, BookOK, SlotsIn, SlotFits, Marks
<1>8. BookFits(disk, c) /\ c.explorer = r.ex
  <2>1. EmptySlotWith(NoPathToFile) = EmptySlot
    BY DEF EmptySlotWith, EmptySlot
  <2> QED
    BY <1>2, <1>5, <2>1, FollowingSlotsClosed, WithCachesOK DEF BookFits
<1>9. /\ c.cached /\ c.previous.image = NoPathToFile /\ c.current.image = NoPathToFile
      /\ c.next.image = NoPathToFile
  BY <1>5 DEF WithCaches, BookShape, EmptySlot
<1> HIDE DEF c
<1> QED
  BY <1>2, <1>4, <1>5, <1>6, <1>7, <1>8, <1>9 DEF JustSet, IsEmptySlot, c

-----------------------------------------------------------------------------
(* The invariant, one action at a time.  Opening a book and turning a page *)
(* end alike: the book's answer r, and what the front end makes of it.     *)

Shows(r) == /\ \/ /\ frontEnd = "linux"
                  /\ book' = r.book /\ screen' = r.book.current.image
               \/ /\ frontEnd = "pocket" /\ r.ok
                  /\ book' = PreloadAll(r.book, disk) /\ screen' = r.book.current.cache
               \/ /\ frontEnd = "pocket" /\ ~r.ok
                  /\ book' = r.book /\ screen' = screen
            /\ disk' = disk /\ frontEnd' = frontEnd

Moves(d, b, c) == BookMoves(AnyRoot, Paths, d, FollowingSlots(d), b, c)

\* The book b that was open, or has just been set to a root, gives answer r.
Answers(b, r) == /\ OpenedAt(disk, b, book'.explorer.root, frontEnd)
                 /\ BookFits(disk, b)
                 /\ Moves(disk, b, r.book)
                 /\ Shows(r)

LEMMA AnswersIInv ==
    ASSUME KeepOrTakeOver, DiskFits(disk), NEW b, NEW r, Answers(b, r)
    PROVE  IInv' /\ Opened' /\ Moves(disk, b, book')
<1> DEFINE G == FollowingSlots(disk)
<1>1. DiskOK(Paths, disk) /\ SlotsClosed(disk, G)
  BY FollowingSlotsClosed DEF DiskFits
<1>2. BookMoves(AnyRoot, Paths, disk, G, b, book')
  <2>1. CASE book' = r.book
    BY <2>1 DEF Answers, Moves
  <2>2. CASE book' = PreloadAll(r.book, disk)
    <3>1. BookMoves(AnyRoot, Paths, disk, G, r.book, book')
      BY <1>1, <2>2, PreloadAllOK DEF Answers, Moves, BookMoves
    <3> QED
      BY <3>1, ThenBookMoves DEF Answers, Moves
  <2> QED
    BY <2>1, <2>2 DEF Answers, Shows
<1> DEFINE root == book'.explorer.root
<1>3. disk' = disk /\ frontEnd' = frontEnd /\ OpenedAt(disk, b, root, frontEnd)
  BY DEF Answers, Shows
<1>4. BookFits(disk, book') /\ OpenedAt(disk, book', root, frontEnd)
  BY <1>2, <1>3 DEF BookMoves, OpenedAt, BookFits
<1>5. root # NoPath
  BY <1>3, RootsAssumption DEF OpenedAt
<1>6. DiskFits(disk') /\ BookFits(disk', book') /\ OpenedAt(disk', book', Root', frontEnd')
  BY <1>3, <1>4 DEF Root
<1> QED
  BY <1>2, <1>5, <1>6 DEF IInv, Opened, Root, Moves

\* An opened book answers toFirstFile.
LEMMA OpeningAnswers ==
    ASSUME KeepOrTakeOver, IInv, NEW root \in Roots, OpenLinux(root) \/ OpenPocket(root)
    PROVE  /\ ~Opened /\ answered' = answered
           /\ \E b : JustSet(disk, b, root) /\ Answers(b, ToFirst(b, disk))
<1> DEFINE G == FollowingSlots(disk)
           b1 == SetRootOf(NewBook, root)
           b2 == WithCaches(b1, NoPathToFile)
<1>1. DiskOK(Paths, disk) /\ SlotsClosed(disk, G) /\ DiskFits(disk)
  BY FollowingSlotsClosed DEF DiskFits, IInv
<1>2. JustSet(disk, b1, root) /\ JustSet(disk, b2, root) /\ b2.cached
  BY <1>1, SetRootFits
<1> HIDE DEF b1, b2
<1>3. ASSUME NEW b, JustSet(disk, b, root), frontEnd = "pocket" => b.cached,
             Shows(ToFirst(b, disk))
      PROVE  Answers(b, ToFirst(b, disk))
  <2> DEFINE r == ToFirst(b, disk)
  <2>1. Moves(disk, b, r.book)
    BY <1>1, <1>3, ToFirstOK DEF JustSet, BookFits, Moves
  <2> HIDE DEF r
  <2>2. Moves(disk, b, book')
    <3>1. CASE book' = r.book
      BY <2>1, <3>1
    <3>2. CASE book' = PreloadAll(r.book, disk)
      <4>1. BookMoves(AnyRoot, Paths, disk, G, r.book, book')
        BY <1>1, <2>1, <3>2, PreloadAllOK DEF Moves, BookMoves
      <4> QED
        BY <2>1, <4>1, ThenBookMoves DEF Moves
    <3> QED
      BY <1>3, <3>1, <3>2 DEF Shows, r
  <2>3. book'.explorer.root = root
    BY <1>3, <2>2 DEF Moves, BookMoves, JustSet
  <2> QED
    BY <1>3, <2>1, <2>3 DEF Answers, OpenedAt, JustSet, r
<1>4. CASE OpenLinux(root)
  <2>1. Increment(b1, disk) = ToFirst(b1, disk)
    BY <1>2 DEF JustSet, Increment
  <2>2. Shows(ToFirst(b1, disk)) /\ frontEnd = "linux" /\ ~Opened /\ answered' = answered
    BY <1>4, <2>1 DEF OpenLinux, DrawImage, Shows, b1
  <2> QED
    BY <1>2, <1>3, <2>2
<1>5. CASE OpenPocket(root)
  <2>1. Shows(ToFirst(b2, disk)) /\ ~Opened /\ answered' = answered
    BY <1>5 DEF OpenPocket, DrawCache, Shows, b1, b2
  <2> QED
    BY <1>2, <1>3, <2>1
<1> QED
  BY <1>4, <1>5

\* A turned page is the book's answer to incrementPosition or decrementPosition.
LEMMA TurningAnswers ==
    ASSUME KeepOrTakeOver, IInv, NEW r,
           r \in {Increment(book, disk), Decrement(book, disk)},
           TurnLinux(r) \/ TurnPocket(r)
    PROVE  Opened /\ Answers(book, r) /\ answered' = r.ok
<1> DEFINE G == FollowingSlots(disk)
<1>1. DiskOK(Paths, disk) /\ SlotsClosed(disk, G) /\ DiskFits(disk) /\ BookFits(disk, book)
  BY FollowingSlotsClosed DEF DiskFits, IInv
<1>2. Moves(disk, book, r.book)
  BY <1>1, TurnsOK DEF BookFits, Moves
<1>3. Opened /\ Shows(r) /\ answered' = r.ok
  BY DEF TurnLinux, TurnPocket, Shows, DrawImage, DrawCache
<1>4. Moves(disk, book, book')
  <2>1. CASE book' = r.book
    BY <1>2, <2>1
  <2>2. CASE book' = PreloadAll(r.book, disk)
    <3>1. BookMoves(AnyRoot, Paths, disk, G, r.book, book')
      BY <1>1, <1>2, <2>2, PreloadAllOK DEF Moves, BookMoves
    <3> QED
      BY <1>2, <3>1, ThenBookMoves DEF Moves
  <2> QED
    BY <1>3, <2>1, <2>2 DEF Shows
<1>5. OpenedAt(disk, book, book'.explorer.root, frontEnd)
  BY <1>3, <1>4 DEF IInv, Moves, BookMoves, Root
<1> QED
  BY <1>1, <1>2, <1>3, <1>5 DEF Answers

\* What a deletion leaves of a disk.
LEMMA DeletionFits ==
    ASSUME KeepOrTakeOver, NEW d, DiskFits(d), NEW f, NEW e, e = [d EXCEPT !.present = @ \ {f}]
    PROVE  /\ e.files = d.files /\ e.archives = d.archives /\ e.images = d.images
           /\ e.damaged = d.damaged /\ e.empty = d.empty /\ e.present = d.present \ {f}
           /\ DiskFits(e) /\ FollowingSlots(e) = FollowingSlots(d)
           /\ \A page : TakenOver(e, page) <=> TakenOver(d, page)
<1>1. /\ e.files = d.files /\ e.archives = d.archives /\ e.images = d.images
      /\ e.damaged = d.damaged /\ e.empty = d.empty /\ e.present = d.present \ {f}
      /\ DOMAIN e = DOMAIN d
  BY DEF DiskFits, DiskFields
<1>2. DiskOK(Paths, e) /\ NamesAreUnique(e)
  BY <1>1 DEF DiskFits, DiskOK, NamesAreUnique, NothingBelowArchives
<1>3. PICK x \in Disks : d \in Left(x)
  BY DEF DiskFits
<1>4. e \in Left(x)
  BY <1>3, LeftAgain
<1>5. \A page : TakenOver(e, page) <=> TakenOver(d, page)
  <2>1. \A page : TakenOver(e, page) <=> TakenOver(x, page)
    BY <1>4, SameCaches
  <2>2. \A page : TakenOver(d, page) <=> TakenOver(x, page)
    BY <1>3, SameCaches
  <2> QED
    BY <2>1, <2>2
<1>6. FollowingSlots(e) = FollowingSlots(d)
  BY <1>1, <1>5 DEF FollowingSlots, Pages, CachedPages
<1> QED
  BY <1>1, <1>2, <1>4, <1>5, <1>6 DEF DiskFits

LEMMA DeletionIInv ==
    ASSUME KeepOrTakeOver, IInv, NEW f, DeleteFile(f)
    PROVE  IInv'
<1>1. /\ disk'.files = disk.files /\ disk'.archives = disk.archives
      /\ disk'.images = disk.images /\ disk'.damaged = disk.damaged
      /\ DiskFits(disk') /\ FollowingSlots(disk') = FollowingSlots(disk)
  BY DeletionFits DEF IInv, DeleteFile
<1>2. book' = book /\ frontEnd' = frontEnd /\ screen' = screen /\ Opened
  BY DEF DeleteFile
<1>3. Places(disk', book.explorer.files) = Places(disk, book.explorer.files)
  BY <1>1 DEF Places
<1>4. Marks(disk', book.explorer.files) = Marks(disk, book.explorer.files)
  BY <1>1, <1>3 DEF Marks, PosAt
<1>5. BookFits(disk', book)
  BY <1>1, <1>4
     DEF IInv, BookFits, BookOK, SlotsIn, SlotFits, ExplorerOK, ArchiveMatches,
         IsArchiveFile, NothingBelowArchives
<1> QED
  BY <1>1, <1>2, <1>5 DEF IInv, OpenedAt, Opened, Root

LEMMA InitIInv == Init => IInv
<1> SUFFICES ASSUME Init PROVE IInv
  OBVIOUS
<1>1. BookFits(disk, book) /\ book.explorer = NewExplorer
  BY NewBookOK DEF Init, AnyRoot, BookFits
<1> QED
  BY <1>1, DisksFit DEF Init, IInv, Opened, Root, NewExplorer

LEMMA NextIInv ==
    ASSUME KeepOrTakeOver, IInv, [Next]_vars
    PROVE  IInv'
<1>1. DiskFits(disk)
  BY DEF IInv
<1>2. ASSUME NEW root \in Roots, OpenLinux(root) \/ OpenPocket(root) PROVE IInv'
  BY <1>1, <1>2, OpeningAnswers, AnswersIInv
<1>3. CASE Forward \/ Backward
  <2>1. PICK r \in {Increment(book, disk), Decrement(book, disk)} : TurnLinux(r) \/ TurnPocket(r)
    BY <1>3 DEF Forward, Backward, KeyRight, NextPage, KeyLeft, PreviousPage
  <2> QED
    BY <1>1, <2>1, TurningAnswers, AnswersIInv
<1>4. ASSUME NEW f \in disk.present, DeleteFile(f) PROVE IInv'
  BY <1>4, DeletionIInv
<1>5. CASE UNCHANGED vars
  BY <1>5 DEF vars, IInv, Opened, Root
<1> QED
  BY <1>2, <1>3, <1>4, <1>5 DEF Next

\* The inductive invariant holds of both programs, whatever is deleted.
THEOREM ReaderInvariance ==
    ASSUME KeepOrTakeOver
    PROVE  Spec => []IInv
<1>1. IInv /\ [Next]_vars => IInv'
  BY NextIInv
<1> QED
  BY <1>1, InitIInv, PTL DEF Spec

\* What a slot's cache holds is the slot's own image, if it is one that caches take
\* over (book.cpp:551-559), while pages are turned and files disappear.
THEOREM ReaderCachesFollowImages ==
    ASSUME KeepOrTakeOver
    PROVE  Spec => []CachesFollowImages
<1>1. IInv => CachesFollowImages
  BY DEF IInv, CachesFollowImages, BookFits, BookOK, SlotsIn, SlotFits, FollowingSlots
<1> QED
  BY <1>1, ReaderInvariance, PTL

-----------------------------------------------------------------------------
(* Where no file is damaged: the pages that the slots hold.                *)

NothingDamaged == \A d \in Disks : d.damaged = {}

\* The invariant of the pages.
PagesInv == /\ IInv
            /\ disk.damaged = {}
            /\ Opened => PagesHeld(disk, book)
            /\ ScreenShowsCurrent

\* A disk and an open book on it.
IsOpen(d, b) == /\ DiskFits(d) /\ d.damaged = {} /\ BookFits(d, b)
                /\ \E root, front : OpenedAt(d, b, root, front)

OpensBook(d, b) == OpenBook(AnyRoot, Names, d, FollowingSlots(d), b)

LEMMA BookReadsPages ==
    ASSUME NEW d, NEW b, IsOpen(d, b)
    PROVE  /\ OpensBook(d, b) /\ b.explorer.files \in Seq(Paths)
           /\ b.explorer.files # <<>> =>
                 ReadsPages(AnyRoot, Names, d, FollowingSlots(d), b)
<1>1. PICK root, front : OpenedAt(d, b, root, front)
  BY DEF IsOpen
<1>2. root \in DOMAIN d.files /\ ~IsEmptyPath(root)
  <2>1. root \in Path(Names) /\ ~root.isFile /\ root # NoPath
    BY <1>1, RootsAssumption DEF OpenedAt, Paths
  <2> QED
    BY <1>1, <2>1 DEF IsOpen, DiskFits, OpenedAt, Path, IsEmptyPath, NoPath
<1>3. b.explorer.root = root /\ b.explorer.files = d.files[root]
  BY <1>1 DEF OpenedAt
<1>4. FilesAreLeaves(b.explorer.files) /\ DiskOK(Paths, d) /\ BookFits(d, b)
  BY <1>2, <1>3 DEF IsOpen, DiskFits, NamesAreUnique
<1>5. b.explorer.files \in Seq(Paths)
  BY <1>4, OKFields DEF BookFits, BookOK
<1>6. OpensBook(d, b)
  BY <1>2, <1>3, <1>4 DEF OpensBook, OpenBook, IsOpen, DiskFits, BookFits, Paths
<1> QED
  BY <1>5, <1>6 DEF ReadsPages, OpensBook

\* What a program asks of its open book.
LEMMA PagesTurn ==
    ASSUME KeepOrTakeOver, NEW d, NEW b, NEW r, IsOpen(d, b), PagesHeld(d, b),
           r \in {Increment(b, d), Decrement(b, d)}
    PROVE  /\ PagesHeld(d, r.book) /\ TurnedPage(d, b, r.book)
           /\ ~r.ok => r.book.current = b.current
<1>1. SlotsClosed(d, FollowingSlots(d)) /\ OpenBook(AnyRoot, Names, d, FollowingSlots(d), b)
  BY FollowingSlotsClosed, BookReadsPages DEF IsOpen, OpensBook
<1> QED
  BY <1>1, TurnsFit

LEMMA PagesPreload ==
    ASSUME KeepOrTakeOver, NEW d, NEW b, IsOpen(d, b), PagesHeld(d, b)
    PROVE  PagesHeld(d, PreloadAll(b, d)) /\ PreloadAll(b, d).current = b.current
<1>1. SlotsClosed(d, FollowingSlots(d)) /\ OpenBook(AnyRoot, Names, d, FollowingSlots(d), b)
  BY FollowingSlotsClosed, BookReadsPages DEF IsOpen, OpensBook
<1> QED
  BY <1>1, PreloadFits

\* toFirstFile as the book is opened.
LEMMA PagesStart ==
    ASSUME KeepOrTakeOver, NEW d \in Disks, d.damaged = {}, NEW root \in Roots, NEW b,
           JustSet(d, b, root), NEW r, r = ToFirst(b, d)
    PROVE  PagesHeld(d, r.book) /\ (~r.ok => r.book.current = b.current)
<1> DEFINE files == b.explorer.files
<1>1. IsOpen(d, b)
  <2>1. OpenedAt(d, b, root, "linux")
    BY DEF JustSet, OpenedAt
  <2> QED
    BY <2>1, DisksFit DEF IsOpen, JustSet
<1>2. SlotsClosed(d, FollowingSlots(d)) /\ OpenBook(AnyRoot, Names, d, FollowingSlots(d), b)
  BY <1>1, FollowingSlotsClosed, BookReadsPages DEF IsOpen, OpensBook
<1>3. d.images \intersect d.empty = {}
  BY <1>1 DEF IsOpen, DiskFits
<1>4. \A i \in 1..Len(files) : files[i].isFile => files[i] \in d.present
  BY DisksAssumption DEF JustSet
<1> QED
  BY <1>2, <1>3, <1>4, FirstFits DEF JustSet

\* The screen shows the current page of b, if it is one that caches take over.
ShowsBook(b) ==
    /\ ~IsEmptySlot(b.current)
    /\ frontEnd = "pocket" => TakenOver(disk, b.current.image)
    => screen = b.current.image

\* How a front end answers keeps the pages, and draws the current one.
LEMMA AnswersPages ==
    ASSUME KeepOrTakeOver, DiskFits(disk), disk.damaged = {}, ScreenShowsCurrent,
           NEW b, NEW r, Answers(b, r), PagesHeld(disk, r.book),
           ~r.ok => r.book.current = b.current,
           ShowsBook(b)
    PROVE  PagesInv' /\ book'.current = r.book.current
<1>1. IInv' /\ Opened'
  BY AnswersIInv
<1>2. disk' = disk /\ OpenedAt(disk, b, book'.explorer.root, frontEnd) /\ BookFits(disk, b)
      /\ Moves(disk, b, r.book) /\ Shows(r)
  BY DEF Answers, Shows
<1>3. IsOpen(disk, r.book) /\ BookFits(disk, r.book) /\ r.book.cached = b.cached
  BY <1>2 DEF Moves, BookMoves, IsOpen, OpenedAt, BookFits
<1>4. /\ PagesHeld(disk, PreloadAll(r.book, disk))
      /\ PreloadAll(r.book, disk).current = r.book.current
  BY <1>3, PagesPreload
<1>5. PagesHeld(disk, book') /\ book'.current = r.book.current
  BY <1>2, <1>4 DEF Shows
<1>6. ASSUME ~IsEmptySlot(book'.current),
             frontEnd = "pocket" => TakenOver(disk, book'.current.image)
      PROVE  screen' = book'.current.image
  <2>1. CASE frontEnd = "linux"
    BY <1>2, <1>5, <2>1 DEF Shows
  <2>2. CASE frontEnd = "pocket" /\ ~r.ok
    BY <1>2, <1>5, <1>6, <2>2 DEF Shows, ShowsBook
  <2>3. CASE frontEnd = "pocket" /\ r.ok
    <3>1. b.cached /\ screen' = r.book.current.cache
      BY <1>2, <2>3 DEF OpenedAt, Shows
    <3>2. /\ r.book.current \in FollowingSlots(disk)
          /\ SlotFits(disk, FollowingSlots(disk), r.book, r.book.current)
      BY <1>3, <3>1 DEF BookFits, BookOK, SlotsIn, SlotFits
    <3>3. r.book.explorer.files # <<>>
      BY <1>5, <1>6 DEF PagesHeld
    <3>4. r.book.current.image \in disk.images
      BY <1>5, <1>6, <3>2, <3>3 DEF SlotFits, Marks, IsEmptySlot
    <3>5. TakenOver(disk, r.book.current.image)
      BY <1>5, <1>6, <2>3
    <3> QED
      BY <1>5, <3>1, <3>2, <3>4, <3>5 DEF FollowingSlots
  <2> QED
    BY <1>2, <2>1, <2>2, <2>3 DEF Shows
<1>7. frontEnd' = frontEnd /\ \A page : TakenOver(disk', page) <=> TakenOver(disk, page)
  BY <1>2 DEF Shows
<1>8. ScreenShowsCurrent'
  BY <1>6, <1>7 DEF ScreenShowsCurrent
<1> QED
  BY <1>1, <1>2, <1>5, <1>8 DEF PagesInv

\* Pages keep their order when files are deleted.
LEMMA DeletionPages ==
    ASSUME KeepOrTakeOver, PagesInv, NEW f, DeleteFile(f)
    PROVE  PagesInv'
<1> DEFINE files == book.explorer.files
<1>1. /\ disk'.files = disk.files /\ disk'.archives = disk.archives
      /\ disk'.images = disk.images /\ disk'.damaged = disk.damaged
      /\ disk'.present = disk.present \ {f}
  BY DeletionFits DEF PagesInv, IInv, DeleteFile
<1>2. /\ IInv' /\ book' = book /\ screen' = screen /\ frontEnd' = frontEnd /\ Opened
      /\ \A page : TakenOver(disk', page) <=> TakenOver(disk, page)
  <2>1. IInv' /\ book' = book /\ screen' = screen /\ frontEnd' = frontEnd /\ Opened
    BY DeletionIInv DEF PagesInv, DeleteFile
  <2>2. DiskFits(disk) /\ disk' = [disk EXCEPT !.present = @ \ {f}]
    BY DEF PagesInv, IInv, DeleteFile
  <2>3. \A page : TakenOver(disk', page) <=> TakenOver(disk, page)
    BY <2>2, DeletionFits
  <2> QED
    BY <2>1, <2>3
<1>3. Places(disk', files) = Places(disk, files)
  BY <1>1 DEF Places
<1>4. \A s : PosAt(disk', files, s) = PosAt(disk, files, s)
  BY <1>1 DEF PosAt
<1>5. Shown(disk', files) = Shown(disk, files)
  BY <1>1, <1>3, <1>4 DEF Shown
<1>6. FirstShows(disk', files) <=> FirstShows(disk, files)
  BY <1>3, <1>5 DEF FirstShows
<1>7. ASSUME NEW p, NEW q, Adjoining(disk, files, p, q) PROVE Adjoining(disk', files, p, q)
  <2>1. PICK s \in Shown(disk, files), t \in Shown(disk, files) :
            /\ PosAt(disk, files, s) = p /\ PosAt(disk, files, t) = q
            /\ Before(s, t) /\ NoneBetween(disk, files, s, t)
    BY <1>7 DEF Adjoining
  <2>2. NoneBetween(disk', files, s, t)
    BY <1>1, <1>5, <2>1 DEF NoneBetween
  <2> QED
    BY <1>4, <1>5, <2>1, <2>2 DEF Adjoining
<1>8. PagesHeld(disk', book)
  BY <1>2, <1>6, <1>7 DEF PagesInv, PagesHeld, InOrder
<1> QED
  BY <1>1, <1>2, <1>8 DEF PagesInv, ScreenShowsCurrent

\* The page is that of a book being opened, or of an open one.
Opens(root) == ~Opened /\ Opened' /\ Root' = root /\ disk' = disk

Turns(r) == /\ Opened /\ Opened' /\ Root' = Root /\ disk' = disk
            /\ Answers(book, r) /\ answered' = r.ok
            /\ book'.current = r.book.current /\ TurnedPage(disk, book, book')

\* An opened book, and a turned page.
LEMMA OpeningPages ==
    ASSUME KeepOrTakeOver, NothingDamaged, PagesInv, NEW root \in Roots,
           OpenLinux(root) \/ OpenPocket(root)
    PROVE  PagesInv' /\ Opens(root)
<1>1. IInv /\ DiskFits(disk) /\ disk.damaged = {} /\ ScreenShowsCurrent
  BY DEF PagesInv, IInv
<1>2. PICK b : JustSet(disk, b, root) /\ Answers(b, ToFirst(b, disk))
  BY <1>1, OpeningAnswers
<1>3. ~Opened /\ disk \in Disks
  BY <1>1, OpeningAnswers DEF IInv
<1> DEFINE r == ToFirst(b, disk)
<1>4. PagesHeld(disk, r.book) /\ (~r.ok => r.book.current = b.current)
  BY <1>1, <1>2, <1>3, PagesStart
<1>6. r = ToFirst(b, disk) /\ Answers(b, r) /\ IsEmptySlot(b.current)
  BY <1>2 DEF JustSet
<1>7. Root' = root /\ Opened' /\ disk' = disk
  <2>1. Moves(disk, b, book') /\ Opened'
    BY <1>1, <1>2, AnswersIInv
  <2> QED
    BY <1>2, <2>1 DEF Moves, BookMoves, JustSet, Root, Answers, Shows
<1> HIDE DEF r
<1>8. PagesInv'
  BY <1>1, <1>4, <1>6, AnswersPages DEF ShowsBook
<1> QED
  BY <1>3, <1>7, <1>8 DEF Opens

LEMMA TurningPages ==
    ASSUME KeepOrTakeOver, PagesInv, NEW r,
           r \in {Increment(book, disk), Decrement(book, disk)},
           TurnLinux(r) \/ TurnPocket(r)
    PROVE  PagesInv' /\ Turns(r)
<1>1. IInv /\ DiskFits(disk) /\ disk.damaged = {} /\ ScreenShowsCurrent
  BY DEF PagesInv, IInv
<1>2. Opened /\ Answers(book, r) /\ answered' = r.ok /\ PagesHeld(disk, book)
  BY <1>1, TurningAnswers DEF PagesInv
<1>3. IsOpen(disk, book)
  BY <1>1, <1>2 DEF IsOpen, Answers
<1>4. /\ PagesHeld(disk, r.book) /\ TurnedPage(disk, book, r.book)
      /\ ~r.ok => r.book.current = book.current
  BY <1>2, <1>3, PagesTurn
<1>5. PagesInv' /\ book'.current = r.book.current
  BY <1>1, <1>2, <1>4, AnswersPages DEF ScreenShowsCurrent, ShowsBook
<1>6. Opened' /\ Root' = Root /\ disk' = disk
  <2>1. Moves(disk, book, book') /\ Opened'
    BY <1>1, <1>2, AnswersIInv
  <2> QED
    BY <1>2, <2>1 DEF Moves, BookMoves, Root, Answers, Shows
<1> QED
  BY <1>2, <1>4, <1>5, <1>6 DEF Turns, TurnedPage

LEMMA InitPages == NothingDamaged /\ Init => PagesInv
<1> SUFFICES ASSUME NothingDamaged, Init PROVE PagesInv
  OBVIOUS
<1>1. ~Opened /\ IsEmptySlot(book.current)
  BY DEF Init, Opened, Root, NewBook, NewExplorer, IsEmptySlot, EmptySlot
<1> QED
  BY <1>1, InitIInv DEF Init, NothingDamaged, PagesInv, ScreenShowsCurrent

\* Every step opens a book, turns a page or deletes a file, or changes nothing.
LEMMA NextPages ==
    ASSUME KeepOrTakeOver, NothingDamaged, PagesInv, [Next]_vars
    PROVE  /\ PagesInv'
           /\ \/ \E root \in Roots : Opens(root)
              \/ \E r : Turns(r)
              \/ \E f \in disk.present : DeleteFile(f)
              \/ UNCHANGED vars
<1>1. CASE \E root \in Roots : OpenLinux(root) \/ OpenPocket(root)
  BY <1>1, OpeningPages
<1>2. CASE Forward \/ Backward
  <2>1. PICK r \in {Increment(book, disk), Decrement(book, disk)} : TurnLinux(r) \/ TurnPocket(r)
    BY <1>2 DEF Forward, Backward, KeyRight, NextPage, KeyLeft, PreviousPage
  <2> QED
    BY <2>1, TurningPages
<1>3. CASE \E f \in disk.present : DeleteFile(f)
  BY <1>3, DeletionPages
<1>4. CASE UNCHANGED vars
  BY <1>4 DEF vars, PagesInv, IInv, Opened, Root, ScreenShowsCurrent
<1> QED
  BY <1>1, <1>2, <1>3, <1>4 DEF Next

\* The invariant of the pages.
THEOREM PagesInvariance ==
    ASSUME KeepOrTakeOver, NothingDamaged
    PROVE  Spec => []PagesInv
<1>1. PagesInv /\ [Next]_vars => PagesInv'
  BY NextPages
<1>2. Init => PagesInv
  BY InitPages
<1> QED
  BY <1>1, <1>2, PTL DEF Spec

\* What is on the screen is the current page (pictureview.cpp:45-101): always for
\* "linux", and for "pocket" if it is a page that caches take over.
THEOREM ReaderScreenShowsCurrent ==
    ASSUME KeepOrTakeOver, NothingDamaged
    PROVE  Spec => []ScreenShowsCurrent
<1>1. PagesInv => ScreenShowsCurrent
  BY DEF PagesInv
<1> QED
  BY <1>1, PagesInvariance, PTL

-----------------------------------------------------------------------------
(* The pages of PageReader are the places of the explorer's list.          *)

LEMMA PromisedPlaces ==
    ASSUME NEW d, NEW r, NEW files, files = d.files[r]
    PROVE  /\ Promised!Places(d, r) = Places(d, files)
           /\ \A s : Promised!PageAt(d, r, s) = PosAt(d, files, s)
           /\ Promised!ImagePlaces(d, r) = Shown(d, files)
<1>1. ASSUME NEW s PROVE s \in Promised!Places(d, r) <=> s \in Places(d, files)
  <2> DEFINE entries(f) == IF files[f] \in DOMAIN d.archives
                           THEN FileEntries(d.archives[files[f]]) ELSE {0}
  <2>1. s \in Promised!Places(d, r) <=>
           \E f \in 1..Len(files) : files[f].isFile /\ \E a \in entries(f) : s = <<f, a>>
    BY DEF Promised!Places, Promised!FileEntries, FileEntries
  <2>2. \A f : entries(f) \subseteq Nat
    BY DEF FileEntries
  <2>3. s \in Places(d, files) <=>
           /\ s \in (1..Len(files)) \X Nat /\ files[s[1]].isFile /\ s[2] \in entries(s[1])
    BY DEF Places
  <2> HIDE DEF entries
  <2> QED
    BY <2>1, <2>2, <2>3
<1>2. \A s : Promised!PageAt(d, r, s) = PosAt(d, files, s)
  BY DEF Promised!PageAt, PosAt, Promised!PathToFile, PathToFile, Promised!NoPath, NoPath
<1>3. Promised!Places(d, r) = Places(d, files)
  <2>1. Promised!Places(d, r) \subseteq Places(d, files) /\ Places(d, files) \subseteq Promised!Places(d, r)
    BY <1>1
  <2> QED
    BY <2>1
<1> QED
  BY <1>2, <1>3 DEF Promised!ImagePlaces, Shown

LEMMA PromisedAdjacent ==
    ASSUME NEW d, NEW r, NEW files, files = d.files[r], NEW p, NEW q
    PROVE  Adjoining(d, files, p, q) <=> Promised!Adjacent(d, r, p, q)
<1>1. /\ \A s : Promised!PageAt(d, r, s) = PosAt(d, files, s)
      /\ Promised!ImagePlaces(d, r) = Shown(d, files)
  BY PromisedPlaces
<1>2. \A s : Promised!OnDisk(d, PosAt(d, files, s)) <=> files[s[1]] \in d.present
  BY DEF Promised!OnDisk, PosAt, PathToFile
<1> QED
  BY <1>1, <1>2 DEF Adjoining, NoneBetween, Promised!Adjacent, Promised!Before, Before

\* While a page is shown, previous_ and next_ hold its neighbours or nothing
\* (book.cpp:571-673), where no file is damaged.
THEOREM ReaderSlotsInOrder ==
    ASSUME KeepOrTakeOver, NothingDamaged
    PROVE  Spec => []SlotsInOrder
<1>1. PagesInv => SlotsInOrder
  <2> SUFFICES ASSUME PagesInv, ~IsEmptySlot(book.current) PROVE SlotsInOrder
    BY DEF SlotsInOrder
  <2>1. Opened
    BY DEF PagesInv, IInv, NewBook, IsEmptySlot, EmptySlot
  <2>2. book.explorer.files = disk.files[Root] /\ InOrder(disk, book)
    BY <2>1 DEF PagesInv, PagesHeld, IInv, OpenedAt
  <2> QED
    BY <2>2, PromisedAdjacent DEF InOrder, SlotsInOrder
<1> QED
  BY <1>1, PagesInvariance, PTL

\* The page of an open book is at a place, or there is none.
LEMMA PageIsPlaced ==
    ASSUME PagesInv, Opened, ~IsEmptySlot(book.current)
    PROVE  \E s \in Shown(disk, book.explorer.files) :
              book.current.image = PosAt(disk, book.explorer.files, s)
<1>1. IsOpen(disk, book) /\ book.explorer.files # <<>>
  BY DEF PagesInv, PagesHeld, IInv, IsOpen
<1> QED
  BY <1>1, BookReadsPages, ShownIsPlaced

\* A step of the programs is one of the reader's, or changes nothing it sees.
LEMMA NextImplements ==
    ASSUME KeepOrTakeOver, NothingDamaged, PagesInv, [Next]_vars
    PROVE  [Promised!ReaderNext]_(Promised!readerVars)
<1> DEFINE files == book.explorer.files
<1>1. PagesInv'
  BY NextPages
<1>2. ASSUME NEW root \in Roots, Opens(root) PROVE Promised!OpenAt(root)
  <2>1. /\ Root = NoPath /\ Root' = root /\ disk' = disk
        /\ book'.explorer.files = disk.files[root]
    BY <1>1, <1>2 DEF Opens, Opened, PagesInv, IInv, OpenedAt
  <2> DEFINE list == book'.explorer.files
  <2>2. ~IsEmptySlot(book'.current) =>
           \E s \in Shown(disk, list) : book'.current.image = PosAt(disk, list, s)
    <3>1. ~IsEmptySlot(book'.current) =>
             \E s \in Shown(disk', list) : book'.current.image = PosAt(disk', list, s)
      <4>1. PagesInv' /\ Opened'
        BY <1>1, <1>2 DEF Opens
      <4>2. IsOpen(disk', book') /\ PagesHeld(disk', book')
        BY <4>1 DEF PagesInv, IInv, IsOpen
      <4> QED
        BY <4>2, BookReadsPages, ShownIsPlaced DEF PagesHeld
    <3> QED
      BY <2>1, <3>1
  <2>3. book'.current.image \in
          {Promised!PageAt(disk, root, s) : s \in Promised!ImagePlaces(disk, root)}
            \union {NoPathToFile}
    <3>1. CASE IsEmptySlot(book'.current)
      BY <3>1 DEF IsEmptySlot
    <3>2. CASE ~IsEmptySlot(book'.current)
      BY <2>1, <2>2, <3>2, PromisedPlaces
    <3> QED
      BY <3>1, <3>2
  <2>4. Promised!NoPath = NoPath /\ Promised!NoPathToFile = NoPathToFile
    BY DEF Promised!NoPathToFile, NoPathToFile, Promised!NoPath, NoPath,
           Promised!PathToFile, PathToFile
  <2> QED
    BY <2>1, <2>3, <2>4 DEF Promised!OpenAt
<1>3. ASSUME NEW r, Turns(r)
      PROVE  \/ Root # NoPath /\ (Promised!TurnForward \/ Promised!TurnBackward)
             \/ UNCHANGED Promised!readerVars
  <2>1. /\ Root # NoPath /\ Root' = Root /\ disk' = disk
        /\ TurnedPage(disk, book, book') /\ files = disk.files[Root]
    BY <1>3 DEF Turns, Opened, PagesInv, IInv, OpenedAt
  <2>2. CASE book'.current = book.current
    BY <2>1, <2>2 DEF Promised!readerVars
  <2>3. CASE Adjoining(disk, files, book.current.image, book'.current.image)
    <3>1. Promised!Adjacent(disk, Root, book.current.image, book'.current.image)
      BY <2>1, <2>3, PromisedAdjacent
    <3> QED
      BY <2>1, <3>1 DEF Promised!TurnForward
  <2>4. CASE Adjoining(disk, files, book'.current.image, book.current.image)
    <3>1. Promised!Adjacent(disk, Root, book'.current.image, book.current.image)
      BY <2>1, <2>4, PromisedAdjacent
    <3> QED
      BY <2>1, <3>1 DEF Promised!TurnBackward
  <2> QED
    BY <2>1, <2>2, <2>3, <2>4 DEF TurnedPage
<1>4. ASSUME NEW f \in disk.present, DeleteFile(f) PROVE Promised!Delete(f)
  BY <1>4 DEF DeleteFile, Promised!Delete, Root
<1>5. CASE UNCHANGED vars
  BY <1>5 DEF vars, Promised!readerVars, Root
<1>6. Promised!NoPath = NoPath
  BY DEF Promised!NoPath, NoPath
<1> QED
  BY <1>2, <1>3, <1>4, <1>5, <1>6, NextPages DEF Promised!ReaderNext

LEMMA InitImplements == Init => Promised!ReaderInit
<1> SUFFICES ASSUME Init PROVE Promised!ReaderInit
  OBVIOUS
<1>1. Root = NoPath /\ book.current.image = NoPathToFile /\ disk \in Disks
  BY DEF Init, Root, NewBook, NewExplorer, EmptySlot
<1>2. Promised!NoPath = NoPath /\ Promised!NoPathToFile = NoPathToFile
  BY DEF Promised!NoPathToFile, NoPathToFile, Promised!NoPath, NoPath,
         Promised!PathToFile, PathToFile
<1> QED
  BY <1>1, <1>2 DEF Promised!ReaderInit

\* Whoever reads a book on files that are not damaged sees its pages in order,
\* and none that is still on the disk is skipped (book.h:135-138).
THEOREM ReaderImplements ==
    ASSUME KeepOrTakeOver, NothingDamaged
    PROVE  Spec => ImplementsPageReader
<1>1. PagesInv /\ [Next]_vars => [Promised!ReaderNext]_(Promised!readerVars)
  BY NextImplements
<1>2. Init => Promised!ReaderInit
  BY InitImplements
<1> QED
  BY <1>1, <1>2, PagesInvariance, PTL DEF Spec, ImplementsPageReader, Promised!ReaderSpec

-----------------------------------------------------------------------------
(* Where a page turn is refused.                                           *)

\* The place of the page shown, and what is left after it and before it.
LEMMA NoPagesLeft ==
    ASSUME PagesInv, Opened, NEW s \in Shown(disk, book.explorer.files),
           book.current.image = PosAt(disk, book.explorer.files, s)
    PROVE  /\ NoneAfter(disk, book.explorer.files, s) => ~PagesLeft(TRUE)
           /\ NoneBefore(disk, book.explorer.files, s) => ~PagesLeft(FALSE)
<1> DEFINE files == book.explorer.files
<1>1. IsOpen(disk, book) /\ files = disk.files[Root]
  BY DEF PagesInv, IInv, IsOpen, OpenedAt
<1>2. DiskOK(Path(Names), disk) /\ NamesAreUnique(disk) /\ files \in Seq(Path(Names))
      /\ FilesAreLeaves(files)
  BY <1>1, BookReadsPages DEF OpensBook, OpenBook, Paths
<1>3. /\ Promised!ImagePlaces(disk, Root) = Shown(disk, files)
      /\ \A u : Promised!PageAt(disk, Root, u) = PosAt(disk, files, u)
  BY <1>1, PromisedPlaces
<1>4. \A t \in Shown(disk, files) : PosAt(disk, files, t) = book.current.image => t = s
  BY <1>2, OnePlace DEF Shown
<1>5. \A u : Promised!OnDisk(disk, PosAt(disk, files, u)) <=> files[u[1]] \in disk.present
  BY DEF Promised!OnDisk, PosAt, PathToFile
<1> HIDE DEF files
<1>6. ASSUME NoneAfter(disk, files, s), PagesLeft(TRUE) PROVE FALSE
  <2>1. \E u \in Shown(disk, files) : files[u[1]] \in disk.present /\ Before(s, u)
    BY <1>3, <1>4, <1>5, <1>6 DEF PagesLeft
  <2> QED
    BY <1>6, <2>1 DEF NoneAfter
<1>7. ASSUME NoneBefore(disk, files, s), PagesLeft(FALSE) PROVE FALSE
  <2>1. \E u \in Shown(disk, files) : files[u[1]] \in disk.present /\ Before(u, s)
    BY <1>3, <1>4, <1>5, <1>7 DEF PagesLeft
  <2> QED
    BY <1>7, <2>1 DEF NoneBefore
<1> QED
  BY <1>6, <1>7 DEF files

\* A page turn that is refused while the page is on the disk.
LEMMA RefusedAtEnd ==
    ASSUME KeepOrTakeOver, PagesInv, NEW r, NEW after \in BOOLEAN,
           r = IF after THEN Increment(book, disk) ELSE Decrement(book, disk),
           TurnLinux(r) \/ TurnPocket(r),
           ~IsEmptySlot(book.current), Promised!OnDisk(disk, book.current.image),
           Running', ~answered'
    PROVE  ~PagesLeft(after)
<1> DEFINE files == book.explorer.files
           G == FollowingSlots(disk)
<1>1. r \in {Increment(book, disk), Decrement(book, disk)} /\ IInv
  BY DEF PagesInv
<1>2. Opened /\ ~r.ok /\ ~r.book.crashed
  BY <1>1, TurningAnswers DEF Answers, Shows, Running
<1>3. IsOpen(disk, book) /\ InOrder(disk, book)
  BY <1>2 DEF PagesInv, PagesHeld, IInv, IsOpen
<1>4. files # <<>> /\ SlotsClosed(disk, G)
  BY <1>2, <1>3, FollowingSlotsClosed DEF PagesInv, PagesHeld, IsOpen
<1>5. ReadsPages(AnyRoot, Names, disk, G, book)
  BY <1>3, <1>4, BookReadsPages
<1>6. PICK s \in Shown(disk, files) : book.current.image = PosAt(disk, files, s)
  BY <1>2, PageIsPlaced
<1>7. files[s[1]] \in disk.present
  BY <1>6 DEF Promised!OnDisk, PosAt, PathToFile
<1>8. CASE after
  <2>1. r = Increment(book, disk)
    BY <1>8
  <2>2. TurnedForward(disk, book, s, r)
    BY <1>3, <1>4, <1>5, <1>6, <2>1, TurnsForward
  <2>3. NoneAfter(disk, files, s)
    BY <1>2, <1>7, <2>2 DEF TurnedForward
  <2>4. ~PagesLeft(TRUE)
    BY <1>2, <1>6, <2>3, NoPagesLeft
  <2> QED
    BY <1>8, <2>4
<1>9. CASE ~after
  <2>1. r = Decrement(book, disk)
    BY <1>9
  <2>2. TurnedBackward(disk, book, s, r)
    BY <1>3, <1>4, <1>5, <1>6, <2>1, TurnsBackward
  <2>3. NoneBefore(disk, files, s)
    BY <1>2, <1>7, <2>2 DEF TurnedBackward
  <2>4. ~PagesLeft(FALSE)
    BY <1>2, <1>6, <2>3, NoPagesLeft
  <2> QED
    BY <1>9, <2>4
<1> QED
  BY <1>8, <1>9

\* A page turn is refused only where no page is left that way, or when the file
\* of the current page has been deleted (book.cpp:576 and 597), as long as no
\* file of 0 bytes and no exception ends the program.
THEOREM ReaderRefusesOnlyAtTheEnds ==
    ASSUME KeepOrTakeOver, NothingDamaged
    PROVE  Spec => RefusesOnlyAtTheEnds
<1> DEFINE A == ~IsEmptySlot(book.current) /\ Promised!OnDisk(disk, book.current.image)
                /\ Running' =>
                    /\ Forward /\ ~answered' => ~PagesLeft(TRUE)
                    /\ Backward /\ ~answered' => ~PagesLeft(FALSE)
<1>1. PagesInv /\ [Next]_vars => [A]_vars
  <2> SUFFICES ASSUME PagesInv, ~IsEmptySlot(book.current),
                      Promised!OnDisk(disk, book.current.image), Running', ~answered'
               PROVE  /\ Forward => ~PagesLeft(TRUE)
                      /\ Backward => ~PagesLeft(FALSE)
    OBVIOUS
  <2>1. ASSUME Forward PROVE ~PagesLeft(TRUE)
    <3> DEFINE r == Increment(book, disk)
    <3>1. TurnLinux(r) \/ TurnPocket(r)
      BY <2>1 DEF Forward, KeyRight, NextPage
    <3> HIDE DEF r
    <3>2. r = IF TRUE THEN Increment(book, disk) ELSE Decrement(book, disk)
      BY DEF r
    <3> QED
      BY <3>1, <3>2, RefusedAtEnd
  <2>2. ASSUME Backward PROVE ~PagesLeft(FALSE)
    <3> DEFINE r == Decrement(book, disk)
    <3>1. TurnLinux(r) \/ TurnPocket(r)
      BY <2>2 DEF Backward, KeyLeft, PreviousPage
    <3> HIDE DEF r
    <3>2. r = IF FALSE THEN Increment(book, disk) ELSE Decrement(book, disk)
      BY DEF r
    <3> QED
      BY <3>1, <3>2, RefusedAtEnd
  <2> QED
    BY <2>1, <2>2
<1> QED
  BY <1>1, PagesInvariance, PTL DEF Spec, RefusesOnlyAtTheEnds
=============================================================================
