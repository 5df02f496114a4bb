----------------------------- MODULE BookProofs -----------------------------
(***************************************************************************)
(* No order of calls of Book on one root runs into an assert, the caches   *)
(* follow the images, and the bookmarks name images: for every disk,       *)
(* whatever archives, damaged files and files of 0 bytes are on it.        *)
(***************************************************************************)
EXTENDS Book, OpsProofs

AnyRoot == Roots \union {NoPath}

\* The slots whose cache holds their own image.
FollowingSlots(d) ==
    {s \in [image : Pages(d), bookmark : Pages(d), cache : Pages(d)] :
        s.image \in d.images => s.cache = s.image}

ListOfRoot(d, ex) == ex.files = ListFiles(d, ex.root)

(***************************************************************************)
(* The inductive invariant.  That a cache follows its image is kept by a   *)
(* load only if no damaged file is an image, and by a swap only if it      *)
(* holds of all three slots, the cleared ones too.  That a bookmark names  *)
(* an image (SlotFits in BookOK) outlives its loading only because the     *)
(* explorer keeps the list of its root.                                    *)
(***************************************************************************)
IInv == /\ disk \in Disks
        /\ aborted = FALSE
        /\ BookOK(AnyRoot, Paths, disk, FollowingSlots(disk), book)
        /\ ListOfRoot(disk, book.explorer)

LEMMA FollowingSlotsClosed ==
    ASSUME NEW d \in Disks
    PROVE  SlotsClosed(d, FollowingSlots(d)) /\ EmptySlot \in FollowingSlots(d)
<1>1. ASSUME NEW slot \in FollowingSlots(d)
      PROVE  slot = [image |-> slot.image, bookmark |-> slot.bookmark, cache |-> slot.cache]
             /\ slot.image \in Pages(d) /\ slot.bookmark \in Pages(d) /\ slot.cache \in Pages(d)
  BY DEF FollowingSlots
<1>2. ASSUME NEW slot \in FollowingSlots(d), NEW page \in d.images
      PROVE  [image |-> page, bookmark |-> page, cache |-> OnLoaded(d, slot.cache, page)]
                \in FollowingSlots(d)
  <2>1. slot.cache \in Pages(d) /\ page \in Pages(d)
    BY <1>1, <1>2 DEF Pages
  <2>2. OnLoaded(d, slot.cache, page) = page
    BY <2>1, CacheAssumption DEF Told
  <2> QED
    BY <2>1, <2>2 DEF FollowingSlots
<1>3. ASSUME NEW slot \in FollowingSlots(d) PROVE ClearSlot(slot) \in FollowingSlots(d)
  BY <1>1, <1>3, DisksAssumption DEF ClearSlot, FollowingSlots, Pages
<1>4. ASSUME NEW slot \in FollowingSlots(d), NEW page \in d.damaged
      PROVE  [slot EXCEPT !.image = page] \in FollowingSlots(d)
  BY <1>1, <1>4, DisksAssumption DEF FollowingSlots, Pages
<1>5. EmptySlot \in FollowingSlots(d)
  BY DisksAssumption DEF EmptySlot, FollowingSlots, Pages
<1> QED
  BY <1>2, <1>3, <1>4, <1>5 DEF SlotsClosed

LEMMA InitIInv == Init => IInv
<1> SUFFICES ASSUME Init PROVE IInv
  OBVIOUS
<1>1. BookOK(AnyRoot, Paths, disk, FollowingSlots(disk), book) /\ book.explorer = NewExplorer
  BY NewBookOK DEF Init, AnyRoot
<1>2. ListOfRoot(disk, NewExplorer)
  BY DisksAssumption DEF Init, ListOfRoot, NewExplorer, ListFiles
<1> QED
  BY <1>1, <1>2 DEF Init, IInv

\* A step that returns a good book keeps the invariant.
LEMMA ReturnsIInv ==
    ASSUME IInv, NEW op, NEW r, Returns(op, r),
           BookOK(AnyRoot, Paths, disk, FollowingSlots(disk), r.book),
           ListOfRoot(disk, r.book.explorer)
    PROVE  IInv'
BY DEF IInv, Returns

LEMMA SetRootIInv ==
    ASSUME IInv, book.explorer = NewExplorer, NothingLoaded,
           NEW root \in Roots, SetRoot(root)
    PROVE  IInv'
<1> DEFINE new == WithRoot(NewExplorer, disk, root)
           r == SetRootPath(NewExplorer, disk, root)
           set == [ok |-> r.ok, book |-> WithExplorer(book, r.ex)]
<1>1. DiskOK(Paths, disk) /\ root \in AnyRoot
  BY DisksAssumption DEF IInv, AnyRoot
<1>2. /\ ExplorerOK(AnyRoot, Paths, disk, new)
      /\ MovesWithin(AnyRoot, Paths, disk, new, r)
  BY <1>1, FirstRootOK
<1>3. /\ AssertsHold(new) /\ ExplorerOK(AnyRoot, Paths, disk, r.ex)
      /\ ListOfRoot(disk, r.ex)
  <2>1. ListOfRoot(disk, new)
    BY DEF WithRoot, NewExplorer, ListOfRoot
  <2> QED
    BY <1>2, <2>1 DEF ExplorerOK, MovesWithin, ListOfRoot
<1>4. Returns("setRoot", set)
  BY <1>3 DEF SetRoot, WithExplorer
<1> HIDE DEF r
<1>5. /\ BookOK(AnyRoot, Paths, disk, FollowingSlots(disk), WithExplorer(book, r.ex))
      /\ WithExplorer(book, r.ex).explorer = r.ex
  <2>1. BookShape(book) /\ SlotsIn(disk, FollowingSlots(disk), book)
    BY DEF IInv, BookOK
  <2>2. EmptySlot.bookmark = NoPathToFile /\ EmptySlot.image = NoPathToFile
    BY DEF EmptySlot
  <2> QED
    BY <1>3, <2>1, <2>2, SetExplorer DEF BookOK, SlotsIn, SlotFits, Marks, NothingLoaded
<1> QED
  BY <1>3, <1>4, <1>5, ReturnsIInv

LEMMA NextIInv == IInv /\ [Next]_vars => IInv'
<1> SUFFICES ASSUME IInv, [Next]_vars PROVE IInv'
  OBVIOUS
<1> DEFINE G == FollowingSlots(disk)
<1>1. /\ disk \in Disks /\ DiskOK(Paths, disk) /\ NoPath \notin DOMAIN disk.files
      /\ SlotsClosed(disk, G)
      /\ BookOK(AnyRoot, Paths, disk, G, book)
      /\ AssertsHold(book.explorer)
      /\ ListOfRoot(disk, book.explorer)
  BY DisksAssumption, FollowingSlotsClosed DEF IInv, BookOK, ExplorerOK
<1> HIDE DEF G
<1>2. ASSUME NEW op, NEW r, BookMoves(AnyRoot, Paths, disk, G, book, r.book), Returns(op, r)
      PROVE  IInv'
  BY <1>1, <1>2, ReturnsIInv DEF BookMoves, ListOfRoot, G
<1>3. CASE SetCachePrototype
  <2> DEFINE cached == WithCaches(book, NoPathToFile)
  <2>1. BookOK(AnyRoot, Paths, disk, G, cached) /\ cached.explorer = book.explorer
    <3>1. EmptySlotWith(NoPathToFile) = EmptySlot
      BY DEF EmptySlotWith, EmptySlot
    <3>2. /\ book.previous = EmptySlot /\ book.current = EmptySlot /\ book.next = EmptySlot
          /\ BookShape(book) /\ ExplorerOK(AnyRoot, Paths, disk, book.explorer)
      BY <1>1, <1>3 DEF SetCachePrototype, NothingLoaded, BookOK
    <3> QED
      BY <1>1, <3>1, <3>2, FollowingSlotsClosed, WithCachesOK DEF G
  <2>2. Returns("setCachePrototype", BookOk(cached))
    BY <1>3 DEF SetCachePrototype
  <2> HIDE DEF cached
  <2> QED
    BY <1>1, <2>1, <2>2, ReturnsIInv DEF BookOk, G
<1>4. CASE ToFirstFile
  BY <1>1, <1>2, <1>4, ToFirstOK DEF ToFirstFile
<1>5. CASE ToLastFile
  BY <1>1, <1>2, <1>5, ToLastOK DEF ToLastFile
<1>6. CASE IncrementPosition
  BY <1>1, <1>2, <1>6, TurnsOK DEF IncrementPosition, Guarded
<1>7. CASE DecrementPosition
  BY <1>1, <1>2, <1>7, TurnsOK DEF DecrementPosition, Guarded
<1>8. CASE Preload
  <2>1. BookMoves(AnyRoot, Paths, disk, G, book, BookOk(PreloadAll(book, disk)).book)
    BY <1>1, PreloadAllOK DEF BookOk
  <2> QED
    BY <1>1, <1>2, <1>8, <2>1 DEF Preload, Guarded
<1>9. CASE GoToBookmark
  <2> DEFINE gone == GoTo(book, disk, BookmarkOf(book))
  <2>1. /\ BookOK(AnyRoot, Paths, disk, G, gone.book)
        /\ gone.book.explorer.root = NoPath /\ gone.book.explorer.files = <<>>
    BY <1>1, GoToOK DEF AnyRoot
  <2>2. ListOfRoot(disk, gone.book.explorer)
    BY <1>1, <2>1 DEF ListOfRoot, ListFiles
  <2>3. Returns("goToBookmark", gone)
    BY <1>9 DEF GoToBookmark
  <2> HIDE DEF gone
  <2> QED
    BY <2>1, <2>2, <2>3, ReturnsIInv DEF G
<1>10. ASSUME book.explorer = NewExplorer, NothingLoaded, NEW root \in Roots, SetRoot(root) PROVE IInv'
  BY <1>10, SetRootIInv
<1>11. CASE UNCHANGED vars
  BY <1>11 DEF vars, IInv
<1> QED
  BY <1>3, <1>4, <1>5, <1>6, <1>7, <1>8, <1>9, <1>10, <1>11 DEF Next, Calls

\* The inductive invariant holds after any calls on one root.
THEOREM BookInvariance == Spec => []IInv
BY InitIInv, NextIInv, PTL DEF Spec

-----------------------------------------------------------------------------

\* No order of calls on one root runs into an assert of getCurrentPos
\* (book.cpp:477 and 482).
THEOREM BookNeverAborts == Spec => []NeverAborts
<1>1. IInv => NeverAborts
  BY DEF IInv, NeverAborts, BookOK, ExplorerOK
<1> QED
  BY <1>1, BookInvariance, PTL

\* What a slot's cache holds is the slot's own image (book.cpp:551-569, 632-651).
THEOREM BookCachesFollowImages == Spec => []CachesFollowImages
<1>1. IInv => CachesFollowImages
  BY DEF IInv, CachesFollowImages, BookOK, SlotsIn, SlotFits, FollowingSlots
<1> QED
  BY <1>1, BookInvariance, PTL

\* The page of a place of the root's list that is an image: enter ends there,
\* and reads it.
LEMMA EnterFindsImage ==
    ASSUME IInv, book.explorer.files # <<>>,
           NEW s \in Places(disk, book.explorer.files),
           NEW page \in disk.images, page = PosAt(disk, book.explorer.files, s)
    PROVE  LET r == EnterPath(book.explorer, disk, page)
           IN  r.ok /\ Holds(disk.images, r.ex, disk) /\ GetCurrentPos(r.ex) = page
<1> DEFINE ex == book.explorer
           files == ex.files
           there == ExplorerAt(disk, ex.root, files, s)
<1>1. /\ DiskOK(Paths, disk) /\ NamesAreUnique(disk)
      /\ ExplorerOK(AnyRoot, Paths, disk, ex)
      /\ ex.root \in DOMAIN disk.files /\ files = disk.files[ex.root]
      /\ \A i \in 1..Len(files) : files[i].isFile => files[i] \in disk.present
  BY DisksAssumption, FilesAssumption DEF IInv, BookOK, ListOfRoot, ListFiles
<1>2. ~IsEmptyPath(ex.root)
  <2>1. ex.root \in AnyRoot /\ ex.root # NoPath
    BY <1>1, DisksAssumption, OKFields DEF IInv, Explorers
  <2>2. ex.root \in Paths /\ ~ex.root.isFile
    BY <2>1, RootsAssumption DEF AnyRoot
  <2> QED
    BY <2>1, <2>2 DEF Paths, Path, IsEmptyPath, NoPath
<1>3. FilesAreLeaves(files) /\ ArchivePresent(disk, ex)
  <2>1. ex.arc.open => IsArchiveFile(disk, files[ex.cur]) /\ ex.cur \in 1..Len(files)
    BY <1>1, OKFields
  <2> QED
    BY <1>1, <2>1 DEF NamesAreUnique, ArchivePresent, Recognized, IsArchiveFile
<1>4. s \in Stops(disk, files)
  BY <1>1, PlacesAreStops
<1>5. /\ EnterPath(ex, disk, PosAt(disk, files, s)) = Ok(there)
      /\ GetCurrentPos(there) = PosAt(disk, files, s)
  BY <1>1, <1>2, <1>3, <1>4, EnterFindsStop, PosAtStop DEF Paths
<1>6. Readable(there, disk)
  <2>1. /\ s[1] \in 1..Len(files) /\ files[s[1]].isFile /\ files[s[1]] \in disk.present
        /\ s[2] # 0 => s[2] \in FileEntries(disk.archives[files[s[1]]])
    BY <1>1, <1>4, StopFields
  <2>2. CASE s[2] = 0
    BY <2>1, <2>2 DEF there, ExplorerAt, Readable, ClosedArchive
  <2>3. CASE s[2] # 0
    BY <2>1, <2>3 DEF there, ExplorerAt, Readable, InArchive, FileEntries
  <2> QED
    BY <2>2, <2>3
<1> HIDE DEF there
<1> QED
  BY <1>5, <1>6 DEF Holds, Ok

\* A bookmark names an image: entering it, the explorer stands exactly there
\* and reads a file that decodes (book.cpp:632-651).
THEOREM BookmarksName == Spec => []BookmarksNameImages
<1>1. IInv => BookmarksNameImages
  <2> SUFFICES ASSUME IInv, book.explorer.files # <<>>,
                      NEW slot \in {book.previous, book.current, book.next},
                      slot.bookmark # NoPathToFile
               PROVE  LET r == EnterPath(book.explorer, disk, slot.bookmark)
                      IN  /\ r.ok /\ Holds(disk.images, r.ex, disk)
                          /\ GetCurrentPos(r.ex) = slot.bookmark
    BY DEF BookmarksNameImages
  <2>1. slot.bookmark \in Marks(disk, book.explorer.files)
    BY DEF IInv, BookOK, SlotsIn, SlotFits
  <2>2. PICK s \in Places(disk, book.explorer.files) :
            slot.bookmark = PosAt(disk, book.explorer.files, s)
    BY <2>1 DEF Marks
  <2>3. slot.bookmark \in disk.images
    BY <2>1 DEF Marks
  <2> QED
    BY <2>2, <2>3, EnterFindsImage
<1> QED
  BY <1>1, BookInvariance, PTL
=============================================================================
