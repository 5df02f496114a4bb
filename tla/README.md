# A TLA+ verification of pocketmg

pocketmg is a reader of comic books (manga) for PocketBook devices, with test
programs for Linux and Windows. A *book* is a directory: the images in it, in
its subdirectories and in the archives among its files are its pages, and the
program shows them one after another, preloading the neighbours of the page on
the screen. There are no threads. What is hard is order and position: which
file comes next across directories, archives, files that are not images and
files that have been deleted; what three preloaded slots hold after any
sequence of turns, rewinds and failed loads; and which of the explorer's two
indexes is valid when.

## Inventory

Paths are below `src/src/`.

| Component | State | Operations | Interacts with | What makes it correct |
|---|---|---|---|---|
| `BookExplorer` (`common/book.cpp:165-507`) | root, list of files and index, open archive with its list and index | `setRoot`, `enter`, `back`, `toNextFile`, `toPreviousFile`, `toFirstFile`, `toLastFile`, `fileList`, `readCurrentFile` | file manager, archives; called by `Book` | indexes in range (two asserts), the open archive is the current file, steps undo each other, a position can be gone back to |
| `FixUpFileTree` (`common/book.cpp:101-157`) | a list in the making | sort, find missing directories, merge | called on a root's list and an archive's list | every directory once, before its contents, everything in order |
| `Book` (`common/book.cpp:512-694`) | three slots (image, bookmark, cache), an explorer | `setRoot`, `toFirstFile`, `toLastFile`, `incrementPosition`, `decrementPosition`, `preload`, `goToBookmark`, `setCachePrototype` | explorer, `Image::load`, `IBookCache` | slots are neighbours in order, caches and bookmarks belong to their images, no image is skipped |
| Linux program (`app/pocketmanga_linux.cpp`) | a `Book` | a key press, redrawing | `Book` | what is drawn is the current page |
| `PictureView` (`pocket/pictureview.cpp`) | a `Book`, its cache | `setBook`, `next`, `previous`, `draw` | `Book`, `CacheScaler` | the same, with preloading after each turn; frames of a page |
| `CacheScaler` (`common/cacheScaler.cpp`) | a scaled page and the bounds of the visible frame | `onLoaded`, `swap`, `nextBounds`, `previousBounds` | `Book`, `PictureView`, scaling | frames cover the page and stay inside it |
| `FilePath` (`common/filepath.cpp`) | entries, is-a-file flag, first level | comparisons, prefixes, copies | everywhere | prefix and copy agree |
| Comparators (`common/filemanager.cpp`) | none | `WordNumberOrder`, `NumberOrder` | `std::sort`, `std::merge` | a strict weak order |
| File managers (`common/filemanager*.cpp`) | none | `getFileList`, `readFile` | the disk | everything is listed |
| Archives (`common/iArchive.cpp`, `archives/`) | registry of archivers, open handle | `recognize`, `getFileList`, `getFile` | explorer | the entry read is the one asked for |
| `ByteArray` (`common/byteArray.cpp`), `Image` (`common/image.cpp`) | shared buffers with reference counts | copy on write | everywhere | copies are values |
| Decoders (`common/decoders/`) | registry of decoders | `decode` | `Image::load` | a failed decoder leaves nothing; run length decoding draws the picture and nothing else |
| `DirSelector` (`pocket/directoryselect.cpp`) | current directory, entries listed, the pointer's last position | open, select, back, exit | InkView, file manager, cards that come and go | `..` never leads out of the roots, and back to what was left |
| `BookList`, `Config` (`pocket/booklist.cpp`, `app/pocketmanga.cpp`) | list of books in a file | show, open, add | `DirSelector`, `PictureView`, the device's configuration library | every book added is listed, once |
| Scaling, rotation, colours (`common/scale.cpp`, `rotate.cpp`, `mirror.cpp`, `image.cpp`) | none | pixel arithmetic | caches | every pixel goes to its place, inside the buffer, in place too |

Behaviours that are hard: a search that fails has already moved the explorer;
archives are opened at one end or the other; an explorer is shared by two
searches of `preload`; three slots and their caches change places; a decoder
fails half way; files are deleted after they were listed; names that compare
equal; empty lists; the device is switched off between two writes; a file is cut
short, has a run too long for its line or goes on past its last row. Nothing is
persisted except the list of books, and nothing runs concurrently except other
programs that change the disk. The list of hazards with their lines is in
`PROJECT.json`.

## Modules

    FilePath <- ExplorerOps <- BookExplorer <- MCBookExplorer  (with SmallShelves)
       |             |              ^ refines
       |             |          FileWalk <- MCFileWalk          (with SmallShelves)
       |             |
       |             +- BookOps <- Book <- MCBook               (with SmallLibraries)
       |             |      |  \- Reader <- MCReader            (with SmallLibraries)
       |             |      |         | refines   ^ refines
       |             +------|--- PageReader       |
       |             |      |                     |
       |             +- CacheScaler <- PictureView <- MCPictureView  (with SmallLibraries)
       +- FileTree <- MCFileTree

    ByteOps <- ByteArray <- MCByteArray       Colours <- Images <- MCImages
          \        | refines                       \        | refines
           +-- ByteValues                           +-- Pictures

    BookShelf <- MCBookShelf                  BmpRle <- MCBmpRle

    theorems:  OpsProofs (about ExplorerOps and BookOps)
                 <- BookExplorerProofs, BookProofs, ReaderProofs, PictureViewProofs
               BookShelfProofs, BytesProofs, ImagesProofs
               (BookExplorerProofs is also about FileTree, BytesProofs about BmpRle)

* **FilePath**: `fs::FilePath` as a sequence of entries and a flag, and the
  searches of `book.cpp` in a list of paths. Lists begin at 1; 0 is "not found".
* **FileTree**: `FixUpFileTree` and `fileList`. One action sorts (any sorted
  permutation: `std::sort` is not stable), one looks at the next path and appends
  the directories that are missing, `MergeFile` and `MergeExtra` are the turns of
  `std::merge`, `SwapFiles` ends it. `fileList` begins with `CallFileList` at any
  position, looks at one path in `ListNextFile` and ends in `AnswerFileList`. A
  name is known to the order by its rank. `filesOnly` is `files_only`: `Book`
  makes its explorers so, `DirSelector` and the default make them of both kinds;
  then `FixUpFileTree` sorts and does no more.
* **ExplorerOps**: each operation of `BookExplorer` as a function from the
  fields and the disk to the answer and the new fields. A disk gives the sorted
  list of a root (what FileTree makes), the lists of the archives, which files
  are still there and, for `Book`, which decode, which fail in the decoder.
  The loops of `toNextFile` and `toPreviousFile` are in closed form: the
  nearest *stop*, a file that is not an archive or an entry of one.
* **BookExplorer**: the state machine of an explorer, one action per public
  operation. `aborted` is set when a false assert is evaluated.
  `Next` is what every caller in the repository does: `setRoot` first and once.
* **FileWalk**: the same loops one iteration per step, with `pc` for the loop. It
  extends BookExplorer, whose variables are what the caller sees, by `walker`,
  the explorer that the loop is moving. It refines `BookExplorer`, where the
  operation happens when the loop answers. This is what justifies the closed form.
* **BookOps**: each operation of `Book` on top of ExplorerOps. An image is
  named by the page it was decoded from. What a cache does with a page is the
  constant operator `OnLoaded`: `Told` takes every page over, `ScalerOnLoaded` is
  CacheScaler's. A read of a file of 0 bytes sets `crashed`.
* **Book**: every order of calls of a `Book`'s public operations, on one root.
* **CacheScaler**: `manga::CacheScaler`, one record for `orig_` and `scaled_`
  together: the page, the width it is scaled to, where the frame begins. Its
  unsigned differences wrap at `UIntRange`. An exception sets `thrown`.
* **PictureView**: the keys of the PocketBook program, on BookOps with
  CacheScaler's caches; `drawn` is the frame last drawn. Refines Reader with
  everything but the page taken out of the caches.
* **BookShelf**: `pocketmanga.cpp`, `BookList` and `DirSelector` with the
  configuration file. The two writes of `addBook` are two steps (`SelectEntry`,
  `WriteBook`), closing the file a third; `PowerOff` between any of them keeps
  one of `Survivors`. `PlugIn` and `Unplug` move cards at any time.
* **BmpRle**: a program that writes a picture as RLE commands (external: from
  the format the decoder reads and the files of `testBmp.cpp`, those with a run
  too long for its line and those that go on past the last row among them), a file
  that may be cut, and `RLEBase::load`, one step for each turn of its loop. A
  pixel for which `CheckIterator` throws ends it (`Put`); one that it passes and
  that is outside of the destination sets `phase` to "outside".
* **PageReader**: the abstract specification, what a reader is promised: one
  page at a time, in order, no image that is still on the disk skipped.
* **Reader**: the two programs, with deletions by somebody else; refines
  PageReader with `root` and `page` read from the book. `TakenOver` are the pages
  that a cache takes over whatever page it had; at the others it keeps that one,
  or throws if it had none (`CacheThrew`), as CacheScaler does with grey pages.
* **ByteValues**: the abstract specification of `tools::ByteArray`, arrays as
  values: an edit of one changes no other.
* **ByteArray**: the implementation. `shared_data` is the pointer of each array,
  `cell` the heap: at each address a reference count and a buffer, or `Free`.
  `changeTo` and `acquire` are `ChangeTo` and the choice in `Edit`; one action
  per public operation that changes an array; refines ByteValues.
* **ByteOps**: what the two share, the parameters and the edits of a sequence
  of bytes.
* **Pictures**: the abstract specification of `namespace img`: a picture is a
  size and a pixel at every place; turning, mirroring, cutting and the rest say
  which pixel comes from where (rotations as in `test/testRotate.cpp`).
* **Images**: `img::Image` with `rotate.cpp`, `mirror.cpp`, the nearest pixels
  of `scale.cpp` and the functions of `image.cpp`, as loops over bytes. `image`
  has the fields of every image, its buffer among them; `Loop(n, s, Body)` is a
  `for` loop, and a loop in place reads what its earlier rounds have written.
  `answer` is what the call answered. Refines Pictures.
* **Colours**: the channels of a pixel and the conversions of `color.h`.
* **SmallShelves**, **SmallLibraries**: the disks for BookExplorer and FileWalk,
  and for Book, Reader and PictureView.

Constants get their values only in the `.cfg` files and MC modules. Every
definition that stands for code is listed with its lines under "map" in
`PROJECT.json`; operators under a comment `Mutant:` are faulty variants of the
definition that follows and are used by nothing: each shows that one property
would notice that fault.

## Runs

| Run | Question | Bounds | Result |
|---|---|---|---|
| `explorer` | indexes, open archive, undoing steps, bookmarks, under any calls on one root | every root of up to 3 entries (directory, file, archive of up to 2 entries), listed with and without directories, and one nested tree; two roots | holds |
| `walk` | do the loops end and compute the closed form? | the same | holds |
| `tree` | is the list complete, ordered and searched correctly? | every listing of up to 3 paths of up to 3 levels over two names (a third for directories), with and without their directories, or of files only; names `2` and `02` equal in the order, where that does no harm | holds |
| `book` | asserts, caches, bookmarks under any calls | roots of up to 3 entries: image, other file, damaged image, archive of up to 1 entry | holds |
| `reader` | order, nothing skipped, refusals, screen, with deletions | roots of up to 3 entries: image, other file, archive of up to 2; any deletions; both programs; the pages of the third file are grey | holds |
| `bytes` | are shared buffers counted right, and copies values? | 3 arrays, 4 addresses, lengths up to 3, 2 bytes; counts up to 7, the largest `SizeType` | holds |
| `images` | do the loops draw the pictures they should, in place and into kept buffers? | 2 images, one of which keeps its buffer; 5 pages of up to 3 by 2 pixels, depths 1, 3 and 4, rows aligned to 1 or 2; 3 rectangles, 2 scales; 4 calls | holds |
| `frames` | frames inside pages, none skipped, back undoes forth, caches right after swaps; is PictureView the page turns of Reader? | up to 5 entries: images of four shapes (upright; just three screens wide or one pixel wider than one; longer than three screens; grey), files of 0 bytes, empty archives; two screens, one twice as high as wide and more; unsigned numbers below 256 | holds |
| `shelf` | the list of books and the selector, with power failures and cards | two roots, three directories on two levels, a hidden directory, files; 3 additions | holds |
| `rle` | are pictures decoded, and bad files refused or drawn in part only? which files lead out of the destination? | 5 by 3 pixels, two colours, 4 or 8 bits, both ways up, new and used images; up to 4 commands and an end, among them runs too long for their line and commands past the last row; up to 3 bytes lost | holds |
| `grey_page` | does the current cache show the current image? | up to 4 colour and grey pages | violated |
| `empty_file` | is a file of 0 bytes stepped over? | 2 entries | violated |

Why the bounds are enough: an operation of the explorer looks at the current
entry and the one it stops at, and what lies between is skipped alike, so three
entries have a first, a middle and a last, each of every kind; archives of two
entries have a beginning and an end that differ, and empty archives are among
them. Book has three slots, so three pages fill them, and in `reader`, whose
archives have two pages, a fourth moves one out. Missing directories depend on
two neighbouring paths of the list and the levels they share. Three arrays take
a count through 1, 2 and 3 and back; four addresses are one more than three
arrays can hold, so an edit can always copy. `MaxSize` is larger than any index
plus any length, so that `npos` and sums that would wrap are among the counts of
`remove` and `copy`. The run uses symmetry of arrays and of addresses; its
properties name none of them. Four calls on images, their loads among them, load
both and transform twice, or load one and transform three times, into a buffer
that is longer or shorter than what it is to hold; pages are wider than high and
higher than wide, with an odd and an even number of rows and columns, and all
bytes of a page differ, so a pixel that goes to a wrong place shows. Five pages
make three slots move twice. The widest scaled page has 20 columns, so that a
difference that wraps below 256 is far outside. Three additions put one with a
failure before and one after another. Four commands are two lines of a run and
an end of line each, or two deltas past the last row and a run there, and a
fifth, the end of the bitmap, is not counted; a file that loses more than three
bytes reads like a shorter file, as no command is longer than four with its
padding, except absolute runs, whose bytes are read alike. Three rows have one
between the first and the last; five columns have room for odd absolute runs
with and without padding and for a run beside them that fits or does not.

Violations. Each is a disagreement between the code and a line of its comments,
quoted in `PROJECT.json` "findings":

1. `grey_page`: a grey image (of depth 1, as a grey JPEG gives) is not converted
   by `toBgr`. A cache that was used before shows the page it held then; a fresh
   one asks `Image::create` for depth 0, which throws, and nobody catches it.
   ImplementsReader therefore says "until an exception ends the program".
   Reader therefore says of "pocket" only that pages which the caches take over
   are on the screen, and PictureView (`ColourPagesAreShown`) which these are.
2. `empty_file`: a file of 0 bytes, alone or in an archive, ends the program when
   it is read (`byteArray.cpp:185-189`). `book` and `frames` have such files.

## Observations

What the code does, mostly at places that the runs leave out, found while
modelling:

* A second `setRoot` on one explorer keeps the index and the open archive of the
  first root, and `enter` runs into the assert at `book.cpp:477`. Every caller
  makes a new explorer.
* `WordNumberOrder` is not a strict weak order: `1` and `01` are equal, `01` and
  `01a` are, and `1` is less than `1a`, which is less than `001`. What
  `std::sort` does with such names is undefined. Directories `2` and `02` compare
  equal, their contents are interleaved, and `fileList` of either stops at the
  first path of the other; `FixUpFileTree` may add one of them that is listed.
  `NamesDiffer` leaves such listings out: no two directories of one directory, and
  no two files, are equal in the order.
* `toFirstFile` answers true with no current image when the first file is not an
  image: the image found is in `next_`. The next turn finds no current image and
  calls `toFirstFile` again, which does the same; going backward, `toLastFile`
  loads the last image into `previous_`. So such a book never shows a page, as
  long as its first file is there. `reader` has such books, but no property
  notices: `SlotsInOrder` and the refinement of PageReader are about the pages that
  are shown.
* `toFirstFile` and `toLastFile` keep the neighbours of the page left; the next
  turn would show them. No program calls either with a page on the screen.
* A decoder that fails after `Image::create` leaves a slot that counts as
  loaded, perhaps without a bookmark, and the turn after the failed search shows
  it. `reader` and `frames` run on libraries without damaged images, `book` on
  libraries with them.
* BMP files, what `ReadsRight` leaves out: an absolute run of 4-bit pixels of even
  length writes one pixel more than it has and reads one byte more; upside down, a
  delta to the right goes to the left; the offset of a delta is an unsigned int,
  which wraps in a picture of more than about 2^30 pixels between its lines.
* A BMP file may go on past its last row, and is meant to be stopped there:
  "Destionation is full, it's no such critical error" (`bmpDecoder.cpp:974`).
  `CheckIterator` compares with the beginning of the line and with the end of the
  destination (`decoderCommon.h:87-91`). Upside down, the line after the last one
  is before the destination, and no pixel of it is refused. `rle` reaches this
  (`phase` is "outside" then), and `OutsideOnlyUpsideDown` says that no other file
  leads there.
* BMP files, what the guard of `WriteEndOfBitmap` leaves out: the end of the bitmap
  does not fill the lines that follow when the iterator has left the image, after a
  delta out of the line, or upside down straight after a full first line.
* A delta in a BMP file that is read into an image that was used before leaves the
  older picture's pixels, which `DecodesPicture` allows.
* The directory selector keeps the last position of the pointer: after a tap in
  the column of marks, an entry chosen with a key is selected, not opened.
* `Comparator` of paths with a first level above 0, as the selector sorts the
  entries of several roots, takes every entry for a directory, so files and
  directories are mixed in that list.
* `getFile` of the 7z archiver has no return statement (`7zArchive.cpp:524`).

## Fairness

Only FileWalk has a liveness property: every call of an explorer answers. It
assumes `WF_vars(Iterate)`: the loop that has been entered keeps running, as
there is one thread and the loop waits for nothing. Nothing is assumed about
whether the user turns pages.

## Proofs

Every theorem is for all values of the constants, under the named assumptions
of the modules (which TLC evaluates in the runs) and the hypotheses that the
theorem itself states.

**The explorer** (`BookExplorerProofs`, for all disks, roots and names):

* `TypeCorrect`, `AlwaysInRange` (no call evaluates a false assert),
  `ArchiveIsCurrentFile`: `TypeOK`, `PositionInRange`, `OpenArchiveIsCurrentFile`
* `StepsUndo`: `Spec => []StepsUndoEachOther`
* `EnterReturns`: `Spec => []EnterReturnsToAnyFile`
* `WalkTypeCorrect`, `WalkImplements`: `WalkSpec => []WalkTypeOK` and
  `WalkSpec => ImplementsExplorer` (the loops compute the closed form)

Assumptions: `DisksAssumption`, of which the proofs need that lists hold paths and
that nothing in a root's list lies below an archive (`NothingBelowArchives`: a file
is not a directory); `NamesAssumption`, that no list names a file twice. The code
does not remove duplicates from an archive's list, so the second of two entries
of one name cannot be entered; `EnterReturns` is about archives without them.
`RootsAssumption`: a root is a directory and not the empty path. `Next` itself
assumes that `setRoot` is called once; the theorems are false without it (see the
observations).

The argument. `PositionInRange` alone is not inductive: whether the index into
the archive is in range depends on which archive is open, and closing, opening
and stepping keep that only if the archive belongs to the current file. The
inductive invariant `IInv` has `TypeOK`, `PositionInRange` and
`OpenArchiveIsCurrentFile` together, stated for the explorer's fields as
`ExplorerOK`; that an open archive is one the archivers recognize; and that an
explorer without a root is new. `OpsProofs` has one lemma per operation
(`EnterPathOK`, `GoBackOK`, `NextFileOK`, `PreviousFileOK`, `FirstFileOK`,
`LastFileOK`, `FirstRootOK`): from an explorer that is OK it leads to one that
is. `enter` of a directory needs `NothingBelowArchives`, because a directory is
found by its prefix and must not be found at an archive that is then still open.
For the steps, the first lemmas prove that a set of stops has a nearest and a
farthest element (by the least number of a non-empty set of naturals), so that
`CHOOSE` in `Nearest` and `Farthest` picks one of the stops and the new position
is a stop's. That steps undo each other (`NextThenPrevious`, `PreviousThenNext`)
is that nothing lies between a stop and the nearest one after it, seen from
either side. FileWalk extends BookExplorer: the explorer's variables are what the
caller sees between calls, `walker` is the explorer a loop is moving. Its
invariant `WInv` says of every iteration that the walker still follows the
explorer (`Follows`: the same root and list, a legal position) and that the
closed form, applied to the walker, still gives the answer that was promised to the caller
(`Remains`); an iteration that goes on keeps this (`LoopGoesOn`), one that
answers delivers it (`LoopAnswers`).

**The list of files** (`BookExplorerProofs`, second part, for any names, any order
of them by ranks and any finite listings):

* `FileListsAreTyped`: `ListSpec => []ListTypeOK`
* `FixUpGivesTheSortedTree`: `ListSpec => []ListIsTheSortedTree`, with and without
  `filesOnly`
* `FileListAnswersTheDirectory`: `ListSpec => []FileListIsTheDirectory`
* `EveryPathIsFound`: `ListSpec => []SearchFindsEveryPath`

Assumptions: `RankAssumption` and `ListingsAssumption` (what is listed is below its
root, a path is a file or a directory, nothing is below a file, and a listing of
files only has no directory). Hypothesis of all
but the first: `NamesDiffer`, without which they are false (see the observations);
`MCFileTree` assumes it of the listings that `tree` takes.

The argument. `Less`, as the code computes it, looks for the first level on
which two paths differ in kind or rank; in a *tidy* set of paths (`Tidy`:
consistent, and names told apart) that is `Comes` (`LessIsComes`), a strict
total order (`ComesTotal`, `ComesOneWay`, `ComesThrough`) in which a directory
comes before what is below it (`AboveComes`), between the two there is nothing
else (`BetweenIsBelow`), and the files of a directory come last
(`FilesComeLast`). `Tree` is tidy if the listing is (`TreeIsTidy`). Then one
invariant per loop. *Missing directories* (`MissingSoFar`): what was collected
after k paths is, in order, the root and the directories above these paths that
are not listed. The loop compares a path with its predecessor only; that this
suffices is that a directory above a path is either deeper than what the path
shares with its predecessor, and then new and not listed (`NewDirectories`: it
would stand between them), or is the predecessor or above it (`OldDirectories`).
*Merging* (`MergedTo`): the result is in order, has what was taken from both
lists, and comes before what was not. *`fileList`* (`ListedTo`): the answer has
one directory for each path of that level among those passed, in their order;
what the loop skips is below one that was answered just before (`HeldFrom`). The
walk begins at the first path with the same directory as the position, so all
that the directory holds lies ahead when the position is a directory, and all
its files when it is a file (`HeldFromDirectory`, `HeldFromFile`). `TreeInv`
joins them, phase by phase. That `enter` finds a path (`FindsInOrder`) is that
nothing before it in the list begins with it.

**Book** (`BookProofs`): `BookNeverAborts`, `BookCachesFollowImages` and
`BookmarksName`: `NeverAborts`, `CachesFollowImages` and `BookmarksNameImages`
under any calls. Assumptions: `DisksAssumption` (no image and no list is at the
empty path, an image does not also fail to decode), `FilesAssumption` (what was
listed is there, names are unique), `RootsAssumption`, `CacheAssumption` (caches
remember the page they were told of). `NeverAborts` needs an explorer that is OK
inside every call; `OpsProofs` lifts the explorer's lemmas to the book's
operations. About the slots it is written once for the three state machines: a
set `G` of slots is *closed* (`SlotsClosed`) when loading an image into one of
them, clearing one and spoiling one give slots of `G`, and every operation keeps
all three slots in `G`. BookProofs and ReaderProofs take the slots whose cache
holds their own image, PictureViewProofs those whose cache has its frame inside
its page. `Marks` says that a bookmark is the path of a place of the root's
list, and `EnterFindsImage` that `enter` ends there; it outlives its image only
because the explorer keeps the list of its root.

**What the operations of Book do to the pages** (`OpsProofs`, later parts). A *place* is a
pair of indexes, of a file and of an entry in it, `PosAt` the page there.
`FindsNext` and `FindsPrevious` say that the search of `preload` and of a turn
ends at the nearest place after (before) the explorer's that is an image still on
the disk, or nowhere when there is none; it skips files that are not images, have
gone, or fail to decode. `PagesHeld` is the invariant: the current slot is a
place, its neighbours hold the adjoining places or nothing. `TurnsForward`,
`TurnsBackward`, `PreloadsInOrder` and `FirstFileIs` show that a turn, preloading
and opening keep it, and which page they end at.

**The programs that read a book** (`ReaderProofs`, for all disks and all
deletions at any time):

* `ReaderImplements`: `Spec => ImplementsPageReader`
* `ReaderSlotsInOrder`, `ReaderScreenShowsCurrent`, `ReaderRefusesOnlyAtTheEnds`:
  `SlotsInOrder`, `ScreenShowsCurrent`, `RefusesOnlyAtTheEnds`
* `ReaderCachesFollowImages`: `Spec => []CachesFollowImages`

Hypotheses: `KeepOrTakeOver`, a cache that is told of a page takes it over or
keeps the one it had, and which of them does not depend on what has been
deleted: so do `Told`, the caches of `reader`, and CacheScaler with everything
but its pages taken out. And, except for the last theorem, `NothingDamaged`: no
file fails in its decoder after `Image::create`. With such a file the theorems
are false, as its slot counts as loaded (see the observations).
`ReaderScreenShowsCurrent` is about every page of the Linux program, and in the
PocketBook program about those that the caches take over; at a grey page the
screen is another one's, as `grey_page` shows. A deletion changes neither the
list the explorer holds nor the list of an open archive, so a page keeps its
place (`HeldBeyond`); what changes is which places can still be read, and an
open archive may be one that is gone. The invariant `PagesInv` is `PagesHeld`
and `ScreenShowsCurrent`. What a deletion leaves of a disk (`Left`) has the same
caches (`SameCaches`), so a slot that follows its image goes on doing so.
`Running` ends Reader's turns where a cache has thrown.

**The keys of the PocketBook program** (`PictureViewProofs`, for all pages,
screens and books):

* `FramesStayInside`: `Spec => []FramesInsidePages`
* `PictureViewShowsColours`, `PictureViewSkipsNothing`, `PictureViewStepsBack`:
  `ColourPagesAreShown`, `NextSkipsNothing`, `PreviousUndoesNext`
* `PictureViewImplements`: `Spec => ImplementsReader`

Hypotheses: `Scales`, the caches are CacheScaler's (the value `frames` gives);
`NothingDamaged` for all but the first; for `PictureViewSkipsNothing` also
`PagesFitInt`, a scaled page is narrower than the largest `int`, since the third
frame's place is an unsigned difference that is cast to `int`. Assumptions:
`ScreensUpright`, `DisksAssumption`, `RootsAssumption`, `PagesFit` (a scaled
page's width is an unsigned number), `UIntRangeAssumption`. That a screen is not
wider than high is what makes the first difference not wrap: `QuotientAtLeast`
and `ScaledPageCovers` show that a page turned and scaled to the screen's height
is at least as wide as the screen. The inductive invariant says of each slot's
cache that it has the screen's size, its width is that of its page and its frame
is inside, at one of the three places; `BoundsInside` shows it of a key,
`LoadedInside` of a load. `PagesInv` adds `PagesHeld` and what the last key left
to be undone (`UndoFits`): when the page was turned, the previous slot's cache
still stands at the frame that was left. `FramesAdjoin` is the arithmetic of the
three frames. For the refinement, `View` maps a book of CacheScalers to Reader's
book of pages; every operation commutes with it (`ViewTurns`, `ViewPreloads`,
`ViewOpens`, ...), a step from frame to frame is a stutter, and a step that ends
the program with an exception is excepted, as in the property. While the program
runs no cache has thrown, in Reader's view either (`NoneThrew`).

**The list of books and the selector** (`BookShelfProofs`, for any directories,
files and roots none of which is inside another):

* `ListShows`: `Spec => []ListShowsAddedBooks`, whenever the device is switched off
* `BooksStayDirectories`: `Spec => []BooksAreDirectories`
* `SelectorStaysBelowRoots`: `Spec => []StaysBelowRoots`
* `BackShows`: `Spec => BackShowsWhereOneWas`

Assumptions: `PathsAreNames`, `RootsApart`, `TreesBelowRoots`, `TreesAreWhole`
(what holds a directory is one), `MaxCountAssumption`. The selector's invariant
is stated for every screen, as the selector keeps its state while others are
shown; `ParentBelowRoot` is the step up: the directory above one below a root is
that root, which shows the roots, or below it. The list's invariant follows what
the file says when it was last closed and what the addition still has to write:
`LoadBooks` of either is the books added. The loop of `LoadBooks` is a recursive
function on 0..MaxCount, and what it computes is shown by induction over a *set*
of naturals (`SetInduction`, from the least element of its complement), since the
induction theorems of the library cannot be used (see below).

**Shared buffers** (`BytesProofs`, for any finite set of arrays, any
addresses, bytes, texts and sizes):

* `TypeCorrect`: `Spec => []TypeOK`
* `CountsHolders`: `Spec => []RefCounts`
* `SharingIsInvisible`: `Spec => ImplementsValues` (the refinement)

Assumptions: `BytesAssumption` (0 is a byte), `TextsAssumption`,
`SizesAssumption` (a length fits the size type), `AddressesAssumption` (the null
pointer is no address, the arrays are finitely many). The inductive invariant is
`TypeOK` and `RefCounts`. The refinement needs `RefCounts`: an edit in place is
invisible only if a count of 1 means that no other array holds the cell
(`SoleHolder`), and a new cell is free only if nobody points to an address with
count 0. Every operation is shown to *set* one array, that is to give one array a
new value, leave the others theirs and keep the invariant: `TakeNewSets`,
`ClearSets`, `AssignSets` and `EditSets` show it of the four ways in which an
array changes (`HoldersMove` counts the holders before and after), and one lemma
per operation (`InsertStep`, `RemoveStep`, ...) shows that the value set is the
one the action of ByteValues sets. `RemoveStep` and `CopyPartStep` are where the
comparisons that avoid overflow are needed.

**The run length decoders** (`BytesProofs`, second part, for pictures of any size
and any number of commands):

* `WholeFilesAreNotRefused`, `WholeFilesShowThePicture`:
  `RleSpec => []WholeFilesAreRead`, `RleSpec => []DecodesPicture`
* `CutFilesShowNothingElse`: `RleSpec => []BadFilesDrawNothingElse`
* `OutsideUpsideDownOnly`: `RleSpec => []OutsideOnlyUpsideDown`

Assumptions: `PictureHasPixels` (a picture has at least one), `ColoursAreIndexes` (a
pixel of b bits is less than 2^b), `FilesAreBytes` (the numbers in a file are bytes,
an absolute run is of three pixels at least). Hypothesis: `ReadsRight`, which leaves out the
kinds of command that the decoders misread (see the observations); with any of them
the theorems are false. `MCBmpRle` assumes it of the values that `rle` takes.

The argument. What the writer and the decoder have in common is a file as a chain
of *spots*: a spot is a byte of the file where a command begins and the pixel at
which it draws, in the picture or past its last row. `Command(..., t, u)` says
that the command at spot `t` leads to spot `u`, and what the picture
holds between the two. While a file is written the
invariant (`FileWritten`) is that there is such a `Chain` from the beginning to the pen,
that nothing beyond the pen is drawn, where the first run is that is too long for its
line (`RunAt`), and whether the chain has drawn past the last row; each action of the
writer adds one spot. Cutting a file keeps the chain up to
the cut (`FileOf`). While it is read the invariant (`ReadSoFar`) is that the decoder
stands at a spot of that chain: `source` is its byte, `it` and `line_begin` are its
pixel, counted from the other end in a file that is upside down, the pixels before
it are those of the picture and those behind it what the image held. One lemma
per kind of command shows that a turn of the loop goes from a spot to the next or
answers. At a run that is too long it answers "false": that is what
`CutFilesShowNothingElse` rests on, as after such a run the file and the picture have
nothing to do with one another. Past the last row `CheckIterator` refuses every pixel
of a file that is not upside down, so that the loop ends there with the picture
complete (`WholeFilesShowThePicture`); upside down it passes them, and
`OutsideUpsideDownOnly` says that this is the one way out of the destination.

**Images** (`ImagesProofs`, for decoded pages, rectangles and scales of any size):

* `TargetInside`: a turned pixel's place is inside the turned picture
* `TargetsDiffer`: no two pixels are turned to one place
* `AssertsHold`: `Spec => []RotationAsserts`
* `BuffersCover`: `Spec => []BuffersCoverPictures`
* `ImagesTypeCorrect`: `Spec => []TypeOK`
* `ImagesImplement`: `Spec /\ []SizesFit => ImplementsPictures` (the refinement)

Assumptions: `PagesAssumption` (decoders make pictures with rows and columns),
`PageBytesAssumption` (and fill their rows with bytes), `RectsAssumption`,
`SizesAssumption`. The first two theorems are about row-major numbers:
`PlaceInside` and `PlacesDiffer` say that `a * c + k` with `k < c` numbers rows
and places without gaps or clashes. The next two need every image to have natural
sizes at all times, a non-empty one positive sizes, because `scale` divides by
them, and a buffer that covers it: the inductive invariant `IInv`. One lemma per
function shows that it makes such an image of one (`RotatedTyped`,
`RectCopiedTyped`, ...); a loop keeps the length of the buffer it writes
(`Holding`), and what it writes does not matter for that.

For the last two it does. Every loop is brought into one form, `MoveLoop`: a round
puts the pixel at one place, perhaps recoloured, at another place of the same or
of another buffer (`PutRound`), or exchanges two pixels or rows (`SwapRound`);
`RowsLoop` is a loop of such loops. `LoopWrites` is the induction over the rounds:
if no two rounds write the same bytes, and a round that reads bytes still as the
loop found them writes certain values, then the loop has written those values and
nothing else. `PutDraws` and `SwapDraws` say when that is so. From image to image
nothing that is read is written; in place it is the order that matters, and what is
shown of each call is that a round reads nothing that an earlier round has written:
`copyRect` and `toGray` move pixels towards the beginning, front to back
(`CutPlaces`, `PaintPlaces`, for `rgba2rgb` row by row with aligned rows), and
mirroring exchanges the two places of a pair once, which is why its loops end at
the middle. Then one lemma per function says which picture is drawn, read back
pixel by pixel through the alignment and the depth of the new image:
`RotatedDraws`, `MirroredDraws`, `ScaledDraws`, `RectCopiedDraws`, `GrayDraws`,
`BgrDraws`, `RgbDraws`, `RgbaDraws`, `CopiedDraws`, `LoadedDraws`. `BytesInv` adds
to `IInv` that every buffer holds bytes.

`SizesFit` (no image has more than 65536 columns or rows) is needed by scaling
alone: `scale.cpp:131-132` rounds the step from place to place down to 16 bits
behind the point, and in a wider picture the error adds up to more than the one
place `Pictures.Near` allows. That the places read are inside the picture is shown
without it (`NearestIsNear`), and so is everything else. Where a `long` has 32 bits
`old_width << 16` overflows already from 32768 on, which is not modelled.

Only model-checked: `EveryCallAnswers`, as liveness under fairness is outside
the prover's reach; the order of names, which is a constant. Induction over data
is out of reach as a theorem about every predicate; `SetInduction` replaces it
where the predicate can be written as a set of naturals.

## Not modelled

Decoding, except the run length decoders: headers, palettes and pixel formats of
BMP are conversions of data, JPEG and PNG are calls into libraries, and what
matters to a book (an image, a failure before or after `Image::create`) is part
of the disk. The bilinear and bicubic kernels (floating point), painting and
fonts, the Windows test program, vendored code (p7zip, minizip, most of the
repository's lines), the parsing of path strings, the character loop of
`compareLevel` (not an order, see the observations), the registries of decoders
and archivers, which are filled before `main` and not changed. Of `ByteArray`:
the queries (`compare`, `find`, `byteArray2string`), writes through a pointer
that was kept after the call that gave it (`begin`, `askBuffer`), which would
reach every array that shares the buffer by then, `append` of an array to
itself, and `askBuffer(0)` on an array without a buffer, which is modelled where
it is called, as `Crashed` of BookOps. Of images: `setPixel`, `loadFrom`, sizes
for which `create` throws or divides by zero, and calls that no program makes
and that go wrong: turning an image of depth 4 (the loop for depth 3 is used) or
with aligned rows (rotation, scaling, `toGray` and `copyRect` take rows to be
packed; `DecoderFactory` sets the alignment 1), `toGray` of a grey image into
another, which leaves a picture of old bytes, `copyRect` in place where rows
overlap, `rgb2rgba` and `grey2rgba` in place, where the buffer moves. Of
bookmarks: `Bookmark::rootDir` is never set by the code, so the bookmark of a
page cannot be gone to from another book; `GoToBookmark` has that behaviour.
What an archiver or a decoder does inside is external; which answer it gives is
part of the disk.

## What is left

The components listed above are modelled as far as TLC reaches. Worth adding:

1. The rank of names as a function of their characters, for names that
   `compareLevel` orders.

