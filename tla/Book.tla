------------------------------- MODULE Book -------------------------------
(***************************************************************************)
(* manga::Book under every order of calls of its public operations.  The   *)
(* files do not change here; Reader has the calls the programs make, and   *)
(* deletions.                                                              *)
(***************************************************************************)
EXTENDS BookOps

CONSTANTS Disks, Roots,
          Names   \* the entries of paths

Paths == Path(Names)

\* The pages a slot or its cache can hold.
Pages(d) == d.images \union d.damaged \union {NoPathToFile}

ASSUME DisksAssumption ==
    \A d \in Disks : /\ DiskOK(Paths, d)
                     /\ NoPath \notin DOMAIN d.files
                     /\ NoPathToFile \notin d.images
                     /\ d.images \intersect d.damaged = {}

\* What was listed is there, and no archive names an entry twice.
ASSUME FilesAssumption ==
    \A d \in Disks : /\ NamesAreUnique(d)
                     /\ \A root \in DOMAIN d.files : \A i \in 1..Len(d.files[root]) :
                           d.files[root][i].isFile => d.files[root][i] \in d.present

ASSUME RootsAssumption == Roots \subseteq {p \in Paths : ~p.isFile /\ p # NoPath}

\* The caches only remember the page they were told of.
ASSUME CacheAssumption ==
    \A d \in Disks : \A cache, page \in Pages(d) : OnLoaded(d, cache, page) = Told(d, cache, page)

VARIABLES disk, book, aborted, returned

vars == <<disk, book, aborted, returned>>

Init == /\ disk \in Disks
        /\ book = NewBook
        /\ aborted = FALSE
        /\ returned = [op |-> "none", ok |-> TRUE]

-----------------------------------------------------------------------------

Returns(op, r) == /\ book' = r.book
                  /\ returned' = [op |-> op, ok |-> r.ok]
                  /\ UNCHANGED <<disk, aborted>>

\* An assert of getCurrentPos ends the process.
Aborts == /\ aborted' = TRUE
          /\ UNCHANGED <<disk, book, returned>>

Running == ~aborted /\ ~book.crashed

\* Operations reach getCurrentPos with the explorer's list and indexes.
Guarded(op, r) == /\ Running
                  /\ IF AssertsHold(book.explorer) THEN Returns(op, r) ELSE Aborts

SetRoot(root) ==
    LET r == SetRootPath(book.explorer, disk, root)
    IN  /\ Running
        /\ IF AssertsHold(WithRoot(book.explorer, disk, root))
           THEN Returns("setRoot", [ok |-> r.ok, book |-> [book EXCEPT !.explorer = r.ex]])
           ELSE Aborts

ToFirstFile       == Running /\ Returns("toFirstFile", ToFirst(book, disk))
ToLastFile        == Running /\ Returns("toLastFile", ToLast(book, disk))
IncrementPosition == Guarded("incrementPosition", Increment(book, disk))
DecrementPosition == Guarded("decrementPosition", Decrement(book, disk))
Preload           == Guarded("preload", BookOk(PreloadAll(book, disk)))

NothingLoaded ==
    book.previous = EmptySlot /\ book.current = EmptySlot /\ book.next = EmptySlot

\* setCachePrototype of a book that has loaded nothing, as PictureView calls it.
SetCachePrototype ==
    /\ Running
    /\ ~book.cached
    /\ NothingLoaded
    /\ Returns("setCachePrototype", BookOk(WithCaches(book, NoPathToFile)))

\* The bookmark given back is the one bookmark() gave.
GoToBookmark ==
    /\ Running
    /\ Returns("goToBookmark", GoTo(book, disk, BookmarkOf(book)))

Calls == \/ SetCachePrototype
         \/ ToFirstFile
         \/ ToLastFile
         \/ IncrementPosition
         \/ DecrementPosition
         \/ Preload

\* Every caller in src/ makes a new Book for each root.
Next == \/ Calls
        \/ GoToBookmark
        \/ book.explorer = NewExplorer /\ NothingLoaded /\ \E r \in Roots : SetRoot(r)

Spec == Init /\ [][Next]_vars

-----------------------------------------------------------------------------

(***************************************************************************)
(* No order of calls on one root runs into an assert of getCurrentPos      *)
(* (book.cpp:477, 482), not even after a goToBookmark that empties the     *)
(* list of files under the index.                                          *)
(***************************************************************************)
NeverAborts == ~aborted /\ AssertsHold(book.explorer)

(***************************************************************************)
(* What a slot's cache holds is the slot's own image, whatever has been    *)
(* loaded, swapped and cleared (book.cpp:551-569, 632-651).                *)
(***************************************************************************)
CachesFollowImages ==
    book.cached =>
        \A slot \in {book.previous, book.current, book.next} :
            slot.image \in disk.images => slot.cache = slot.image

(***************************************************************************)
(* A bookmark names an image: entering it, the explorer stands exactly     *)
(* there and reads a file that decodes (book.cpp:632-651), while a root is *)
(* set and whatever damaged files have been tried.                         *)
(***************************************************************************)
BookmarksNameImages ==
    book.explorer.files # <<>> =>
        \A slot \in {book.previous, book.current, book.next} :
            slot.bookmark # NoPathToFile =>
                LET r == EnterPath(book.explorer, disk, slot.bookmark)
                IN  r.ok /\ Holds(disk.images, r.ex, disk) /\ GetCurrentPos(r.ex) = slot.bookmark
=============================================================================
