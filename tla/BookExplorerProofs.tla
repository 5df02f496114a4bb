------------------------- MODULE BookExplorerProofs -------------------------
(***************************************************************************)
(* Under the calls the programs make, one root per explorer, no sequence   *)
(* of operations runs an index of BookExplorer out of its list, and an     *)
(* open archive is always that of the current file: for every directory    *)
(* tree and every content of its archives.  The second part is about the   *)
(* list that the explorer walks: FixUpFileTree completes and sorts every   *)
(* listing, enter finds every path of it, and fileList reads directories   *)
(* off it.                                                                 *)
(***************************************************************************)
EXTENDS FileWalk, FileTree, OpsProofs, FiniteSetTheorems

AnyRoot == Roots \union {NoPath}

OpenIsRecognized(ex) == ex.files # <<>> /\ Recognized(disk, ex.files[ex.cur])

(***************************************************************************)
(* The inductive invariant.  The properties alone are not inductive: that  *)
(* enter opens the right archive needs the listing to have nothing below a *)
(* file, setRoot needs the explorer it is called on to be new, and walks   *)
(* need an open archive to be that of the current file.                    *)
(***************************************************************************)
IInv ==
    /\ DiskOK(Paths, disk) /\ NamesAreUnique(disk)
    /\ aborted = FALSE
    /\ returned \in [op : Operations, ok : BOOLEAN]
    /\ ExplorerOK(AnyRoot, Paths, disk, explorer)
    /\ explorer.arc.open => OpenIsRecognized(explorer)
    /\ FilesAreLeaves(explorer.files)
    /\ explorer.root \in AnyRoot
    /\ Fresh => explorer = NewExplorer

LEMMA NewExplorerOK ==
    ASSUME NEW P, NEW d
    PROVE  ExplorerOK(AnyRoot, P, d, NewExplorer)
<1>1. NewExplorer \in Explorers(AnyRoot, P)
  BY ClosedArchiveTyped DEF NewExplorer, Explorers, Archives, AnyRoot
<1>2. NewExplorer.files = <<>> /\ NewExplorer.arc = ClosedArchive
  BY DEF NewExplorer
<1> QED
  BY <1>1, <1>2, ClosedArchiveTyped
     DEF ExplorerOK, AssertsHold, InArchive, ArchiveMatches, NothingBelowArchives

LEMMA InitIInv == Init => IInv
<1> SUFFICES ASSUME Init PROVE IInv
  OBVIOUS
<1>1. DiskOK(Paths, disk) /\ NamesAreUnique(disk)
  BY DisksAssumption, NamesAssumption DEF Init
<1>2. returned \in [op : Operations, ok : BOOLEAN]
  BY DEF Init, Operations
<1>3. ~explorer.arc.open
  BY ClosedArchiveTyped DEF Init, NewExplorer
<1>4. FilesAreLeaves(NewExplorer.files) /\ NewExplorer.root \in AnyRoot
  BY DEF NewExplorer, FilesAreLeaves, AnyRoot
<1> QED
  BY <1>1, <1>2, <1>3, <1>4, NewExplorerOK DEF IInv, Init

\* A step that moves an explorer whose root is set keeps the invariant.
LEMMA ReturnsIInv ==
    ASSUME IInv, ~Fresh, NEW op \in Operations, NEW r,
           MovesWithin(AnyRoot, Paths, disk, explorer, r), Returns(op, r)
    PROVE  IInv'
<1>1. explorer' = r.ex /\ disk' = disk /\ aborted' = aborted
  BY DEF Returns
<1>2. returned' \in [op : Operations, ok : BOOLEAN]
  BY DEF Returns, MovesWithin
<1>3. ExplorerOK(AnyRoot, Paths, disk, r.ex) /\ r.ex.root = explorer.root
      /\ r.ex.files = explorer.files
      /\ (r.ex.arc.open => OpenIsRecognized(r.ex))
  BY DEF MovesWithin, IInv, OpenIsRecognized
<1>4. ~(explorer'.root = NoPath)
  BY <1>1, <1>3 DEF Fresh
<1> QED
  BY <1>1, <1>2, <1>3, <1>4 DEF IInv, Fresh, AnyRoot, OpenIsRecognized

LEMMA SetRootIInv ==
    ASSUME IInv, Fresh, NEW top \in Roots, SetRoot(top)
    PROVE  IInv'
<1> DEFINE new == WithRoot(NewExplorer, disk, top)
           r == SetRootPath(NewExplorer, disk, top)
<1>1. explorer = NewExplorer /\ top \in AnyRoot /\ DiskOK(Paths, disk)
  BY DEF IInv, AnyRoot
<1>2. ExplorerOK(AnyRoot, Paths, disk, new) /\ MovesWithin(AnyRoot, Paths, disk, new, r)
  BY <1>1, FirstRootOK
<1>3. Returns("setRoot", r)
  BY <1>1, <1>2 DEF SetRoot, ExplorerOK
<1>4. new.root = top /\ new.arc = ClosedArchive /\ new.files = ListFiles(disk, top)
  BY DEF WithRoot, NewExplorer
<1>9. FilesAreLeaves(ListFiles(disk, top))
  BY DEF IInv, NamesAreUnique, ListFiles, FilesAreLeaves
<1> HIDE DEF new, r
<1>5. explorer' = r.ex /\ disk' = disk /\ aborted' = FALSE
      /\ returned' \in [op : Operations, ok : BOOLEAN]
  BY <1>2, <1>3 DEF Returns, MovesWithin, IInv, Operations
<1>6. ExplorerOK(AnyRoot, Paths, disk, r.ex) /\ r.ex.root = top
      /\ r.ex.files = new.files
      /\ (r.ex.arc.open => OpenIsRecognized(r.ex))
  BY <1>2, <1>4, ClosedArchiveTyped DEF MovesWithin, OpenIsRecognized
<1>7. top # NoPath
  BY RootsAssumption
<1>8. ~Fresh'
  BY <1>5, <1>6, <1>7 DEF Fresh
<1> QED
  BY <1>1, <1>4, <1>5, <1>6, <1>8, <1>9 DEF IInv, AnyRoot, OpenIsRecognized

LEMMA NextIInv == IInv /\ [Next]_vars => IInv'
<1> SUFFICES ASSUME IInv, [Next]_vars PROVE IInv'
  OBVIOUS
<1>1. DiskOK(Paths, disk) /\ ExplorerOK(AnyRoot, Paths, disk, explorer)
      /\ AssertsHold(explorer)
  BY DEF IInv, ExplorerOK
<1>2. ASSUME Fresh, NEW top \in Roots, SetRoot(top) PROVE IInv'
  BY <1>2, SetRootIInv
<1>3. ASSUME ~Fresh, NEW path \in KnownPaths, Enter(path) PROVE IInv'
  <2>1. Returns("enter", EnterPath(explorer, disk, path))
    BY <1>1, <1>3 DEF Enter
  <2> QED
    BY <1>1, <1>3, <2>1, EnterPathOK, ReturnsIInv DEF Operations
<1>4. ASSUME ~Fresh, Back PROVE IInv'
  <2>1. Returns("back", GoBack(explorer, disk))
    BY <1>1, <1>4 DEF Back
  <2> QED
    BY <1>1, <1>4, <2>1, GoBackOK, ReturnsIInv DEF Operations
<1>5. ASSUME ~Fresh, ToNextFile PROVE IInv'
  BY <1>1, <1>5, NextFileOK, ReturnsIInv DEF ToNextFile, Operations
<1>6. ASSUME ~Fresh, ToPreviousFile PROVE IInv'
  BY <1>1, <1>6, PreviousFileOK, ReturnsIInv DEF ToPreviousFile, Operations
<1>7. ASSUME ~Fresh, ToFirstFile PROVE IInv'
  BY <1>1, <1>7, FirstFileOK, ReturnsIInv DEF ToFirstFile, Operations
<1>8. ASSUME ~Fresh, ToLastFile PROVE IInv'
  BY <1>1, <1>8, LastFileOK, ReturnsIInv DEF ToLastFile, Operations
<1>9. CASE UNCHANGED vars
  BY <1>9 DEF vars, IInv, Fresh, AnyRoot, OpenIsRecognized
<1> QED
  BY <1>2, <1>3, <1>4, <1>5, <1>6, <1>7, <1>8, <1>9 DEF Next, Moves

\* The inductive invariant holds in every state a program can reach.
THEOREM Invariance == Spec => []IInv
BY InitIInv, NextIInv, PTL DEF Spec

-----------------------------------------------------------------------------

\* The fields of an explorer hold paths and indexes (book.h:95-115).
THEOREM TypeCorrect == Spec => []TypeOK
<1>1. IInv => TypeOK
  BY DEF IInv, TypeOK, ExplorerOK, AnyRoot
<1> QED
  BY <1>1, Invariance, PTL

\* No sequence of calls on one root runs into an assert of getCurrentPos
\* (book.cpp:477 and 482).
THEOREM AlwaysInRange == Spec => []PositionInRange
<1>1. IInv => PositionInRange
  BY DEF IInv, PositionInRange, ExplorerOK
<1> QED
  BY <1>1, Invariance, PTL

\* The archive read from is always the one the current path names
\* (book.cpp:473-507).
THEOREM ArchiveIsCurrentFile == Spec => []OpenArchiveIsCurrentFile
<1>1. IInv => OpenArchiveIsCurrentFile
  <2> SUFFICES ASSUME IInv, explorer.arc.open PROVE OpenArchiveIsCurrentFile
    BY DEF OpenArchiveIsCurrentFile
  <2> QED
    BY OKFields DEF IInv, OpenArchiveIsCurrentFile, OpenIsRecognized
<1> QED
  BY <1>1, Invariance, PTL

(***************************************************************************)
(* Going forward and back again, or back and forward, returns to the very  *)
(* same entry, wherever the explorer stands in whatever tree               *)
(* (book.cpp:338-434).                                                     *)
(***************************************************************************)
THEOREM StepsUndo == Spec => []StepsUndoEachOther
<1>1. IInv => StepsUndoEachOther
  <2> SUFFICES ASSUME IInv, AtStop(explorer) PROVE StepsUndoEachOther
    BY DEF StepsUndoEachOther
  <2>1. /\ DiskOK(Paths, disk)
        /\ ExplorerOK(AnyRoot, Paths, disk, explorer)
        /\ ArchivePresent(disk, explorer)
        /\ StandsAtStop(disk, explorer)
    BY DEF IInv, OpenIsRecognized, ArchivePresent, AtStop, StandsAtStop
  <2> QED
    BY <2>1, NextThenPrevious, PreviousThenNext DEF StepsUndoEachOther
<1> QED
  BY <1>1, Invariance, PTL

(***************************************************************************)
(* A bookmark of any file leads back to it from wherever the explorer is   *)
(* (book.cpp:257-325), in any tree whose archives name no entry twice.     *)
(***************************************************************************)
THEOREM EnterReturns == Spec => []EnterReturnsToAnyFile
<1>1. IInv => EnterReturnsToAnyFile
  <2> SUFFICES ASSUME IInv, NEW s \in AllStops(explorer)
               PROVE  LET there == StopAt(CloseArchive(explorer), disk, s)
                      IN  EnterPath(explorer, disk, GetCurrentPos(there)) = Ok(there)
    BY DEF EnterReturnsToAnyFile
  <2> DEFINE closed == CloseArchive(explorer)
             there == StopAt(closed, disk, s)
  <2>1. s \in Stops(disk, explorer.files)
    BY DEF AllStops, Stops
  <2>2. /\ DiskOK(Path(Names), disk) /\ ExplorerOK(AnyRoot, Path(Names), disk, explorer)
        /\ ArchivePresent(disk, explorer)
        /\ FilesAreLeaves(explorer.files) /\ NamesAreUnique(disk)
    BY DEF IInv, OpenIsRecognized, ArchivePresent, Paths
  <2>3. explorer.files # <<>>
    BY <2>1, <2>2, StopFields, OKFields
  <2>4. ~IsEmptyPath(explorer.root)
    <3>1. explorer.root \in Roots
      BY <2>3 DEF IInv, Fresh, NewExplorer, AnyRoot
    <3>2. explorer.root \in Paths /\ ~explorer.root.isFile /\ explorer.root # NoPath
      BY <3>1, RootsAssumption
    <3> QED
      BY <3>2 DEF Paths, Path, NoPath, IsEmptyPath
  <2>5. /\ ExplorerOK(AnyRoot, Path(Names), disk, closed)
        /\ closed.root = explorer.root /\ closed.files = explorer.files
        /\ ArchivePresent(disk, closed)
    <3>1. MovesWithin(AnyRoot, Path(Names), disk, explorer,
                      [ok |-> TRUE, ex |-> WithArc(explorer, ClosedArchive)])
      BY <2>2, CloseHereOK
    <3>2. closed = WithArc(explorer, ClosedArchive)
      BY DEF CloseArchive, WithArc
    <3>3. closed.arc = ClosedArchive
      BY <2>2, <3>2, OKFields, SetArc, ClosedArchiveTyped
    <3> QED
      BY <3>1, <3>2, <3>3, ClosedArchiveTyped DEF MovesWithin, ArchivePresent
  <2> HIDE DEF closed
  <2>6. there = ExplorerAt(disk, explorer.root, explorer.files, s)
    BY <2>1, <2>2, <2>5, StandingThere
  <2> HIDE DEF there
  <2>7. GetCurrentPos(there) = PosAt(disk, explorer.files, s)
    BY <2>1, <2>2, <2>3, <2>6, PosAtStop
  <2>8. EnterPath(explorer, disk, GetCurrentPos(there)) = Ok(there)
    <3>1. EnterPath(explorer, disk, PosAt(disk, explorer.files, s))
             = Ok(ExplorerAt(disk, explorer.root, explorer.files, s))
      BY <2>1, <2>2, <2>4, EnterFindsStop
    <3> QED
      BY <2>6, <2>7, <3>1
  <2> QED
    BY <2>8 DEF there, closed
<1> QED
  BY <1>1, Invariance, PTL

-----------------------------------------------------------------------------
(* The loops of FileWalk implement the operations of BookExplorer          *)

\* What operation op answers and leaves, called where the caller sees the
\* explorer.
Promises(op, r) ==
    \/ op = "toNextFile" /\ r = NextFile(explorer, disk)
    \/ op = "toPreviousFile" /\ r = PreviousFile(explorer, disk)
    \/ op = "toFirstFile" /\ r = FirstFile(explorer, disk)
    \/ op = "toLastFile" /\ r = LastFile(explorer, disk)

\* A loop that has come to ex still finds what op promised.
Remains(loop, op, ex) ==
    \/ loop = "next" /\ Promises(op, NextFile(ex, disk))
    \/ loop = "previous" /\ ex.files # <<>> /\ Promises(op, PreviousFile(ex, disk))

(***************************************************************************)
(* The inductive invariant of the loops: what the loop would find from     *)
(* where it is now is what the operation finds from where it was called.   *)
(***************************************************************************)
WInv ==
    /\ IInv
    /\ pc \in {"idle", "next", "previous"}
    /\ pc = "idle" => walker = explorer /\ called = "none"
    /\ pc # "idle" => /\ ~Fresh
                      /\ Follows(AnyRoot, Paths, disk, explorer, walker)
                      /\ Remains(pc, called, walker)

LEMMA InitWInv == WalkInit => WInv
BY InitIInv DEF WalkInit, WInv

\* A step that stays in a loop is no step for the caller.
LEMMA LoopGoesOn ==
    ASSUME WInv, ~Fresh, NEW loop \in {"next", "previous"}, NEW op, NEW ex,
           Loop(loop, op, ex), Follows(AnyRoot, Paths, disk, explorer, ex),
           Remains(loop, op, ex)
    PROVE  WInv' /\ [Next]_vars
<1>1. UNCHANGED vars /\ walker' = ex /\ pc' = loop /\ called' = op
  BY DEF Loop
<1>2. IInv'
  BY <1>1, NextIInv DEF WInv
<1>3. disk' = disk /\ explorer' = explorer
  BY <1>1 DEF vars
<1>4. ~Fresh' /\ Follows(AnyRoot, Paths, disk', explorer', walker') /\ Remains(pc, called, walker)'
  BY <1>1, <1>3 DEF Fresh, Remains, Promises
<1> QED
  BY <1>1, <1>2, <1>3, <1>4 DEF WInv

\* A step that answers is the operation that was called.
LEMMA LoopAnswers ==
    ASSUME WInv, ~Fresh, NEW op, NEW ok, NEW ex, Answer(op, ok, ex),
           Promises(op, [ok |-> ok, ex |-> ex])
    PROVE  WInv' /\ [Next]_vars
<1> DEFINE r == [ok |-> ok, ex |-> ex]
<1>1. Returns(op, r) /\ walker' = ex /\ pc' = "idle" /\ called' = "none"
  BY DEF Answer
<1>2. explorer' = ex
  BY <1>1 DEF Returns
<1>3. ~aborted
  BY DEF WInv, IInv
<1> HIDE DEF r
<1>4. Promises(op, r)
  BY DEF r
<1>5. Moves
  <2>1. CASE op = "toNextFile" /\ r = NextFile(explorer, disk)
    BY <1>1, <1>3, <2>1 DEF Moves, ToNextFile
  <2>2. CASE op = "toPreviousFile" /\ r = PreviousFile(explorer, disk)
    BY <1>1, <1>3, <2>2 DEF Moves, ToPreviousFile
  <2>3. CASE op = "toFirstFile" /\ r = FirstFile(explorer, disk)
    BY <1>1, <1>3, <2>3 DEF Moves, ToFirstFile
  <2>4. CASE op = "toLastFile" /\ r = LastFile(explorer, disk)
    BY <1>1, <1>3, <2>4 DEF Moves, ToLastFile
  <2> QED
    BY <1>4, <2>1, <2>2, <2>3, <2>4 DEF Promises
<1>6. Next
  BY <1>5 DEF Next
<1>7. IInv'
  BY <1>6, NextIInv DEF WInv
<1> QED
  BY <1>1, <1>2, <1>6, <1>7 DEF WInv

\* What a step of a loop starts from.
LEMMA InLoop ==
    ASSUME WInv, pc # "idle"
    PROVE  /\ ~Fresh /\ DiskOK(Paths, disk)
           /\ ExplorerOK(AnyRoot, Paths, disk, walker) /\ ArchivePresent(disk, walker)
           /\ walker \in Explorers(AnyRoot, Paths)
           /\ pc = "next" => Promises(called, NextFile(walker, disk))
           /\ pc = "previous" => /\ walker.files # <<>>
                                 /\ Promises(called, PreviousFile(walker, disk))
           /\ \A v : Follows(AnyRoot, Paths, disk, walker, v) =>
                     Follows(AnyRoot, Paths, disk, explorer, v) /\ v.files = walker.files
BY DEF WInv, IInv, Follows, Remains, ExplorerOK

LEMMA NextInArchiveImplements ==
    ASSUME WInv, NextInArchive
    PROVE  WInv' /\ [Next]_vars
<1> DEFINE a == walker.arc.cur + 1
           moved == AtEntry(walker, a)
<1>1. pc = "next" /\ walker.arc.open
  BY DEF NextInArchive
<1>2. /\ ~Fresh /\ DiskOK(Paths, disk)
      /\ ExplorerOK(AnyRoot, Paths, disk, walker) /\ ArchivePresent(disk, walker)
      /\ Promises(called, NextFile(walker, disk))
      /\ \A v : Follows(AnyRoot, Paths, disk, walker, v) =>
                Follows(AnyRoot, Paths, disk, explorer, v)
  BY <1>1, InLoop
<1>3. CASE walker.arc.list = <<>> \/ a > Len(walker.arc.list)
  <2>1. Loop("next", called, CloseArchive(walker))
    BY <1>1, <1>3 DEF NextInArchive, Continue
  <2>2. /\ Follows(AnyRoot, Paths, disk, walker, CloseArchive(walker))
        /\ NextFile(CloseArchive(walker), disk) = NextFile(walker, disk)
    BY <1>1, <1>2, <1>3, LeaveArchive
  <2>3. Remains("next", called, CloseArchive(walker))
    BY <1>2, <2>2 DEF Remains
  <2> QED
    BY <1>2, <2>1, <2>2, <2>3, LoopGoesOn
<1>4. CASE ~(walker.arc.list = <<>> \/ a > Len(walker.arc.list))
  <2>1. a \in 1..Len(walker.arc.list)
    BY <1>1, <1>2, <1>4, OKFields
  <2>2. moved = [walker EXCEPT !.arc.cur = a]
    BY DEF AtEntry
  <2> HIDE DEF moved
  <2>3. IF moved.arc.list[a].isFile THEN Answer(called, TRUE, moved)
        ELSE Loop("next", called, moved)
    BY <1>1, <1>4, <2>2 DEF NextInArchive, Continue
  <2>4. /\ Follows(AnyRoot, Paths, disk, walker, moved) /\ moved.arc.list = walker.arc.list
        /\ walker.arc.list[a].isFile => NextFile(walker, disk) = Ok(moved)
        /\ ~walker.arc.list[a].isFile => NextFile(moved, disk) = NextFile(walker, disk)
    BY <1>1, <1>2, <2>1, NextEntry DEF moved
  <2>5. CASE walker.arc.list[a].isFile
    <3>1. Promises(called, [ok |-> TRUE, ex |-> moved])
      BY <1>2, <2>4, <2>5 DEF Ok
    <3> QED
      BY <1>2, <2>3, <2>4, <2>5, <3>1, LoopAnswers
  <2>6. CASE ~walker.arc.list[a].isFile
    <3>1. Remains("next", called, moved)
      BY <1>2, <2>4, <2>6 DEF Remains
    <3> QED
      BY <1>2, <2>3, <2>4, <2>6, <3>1, LoopGoesOn
  <2> QED
    BY <2>5, <2>6
<1> QED
  BY <1>3, <1>4

LEMMA NextInFilesImplements ==
    ASSUME WInv, NextInFiles
    PROVE  WInv' /\ [Next]_vars
<1> DEFINE n == walker.cur + 1
           moved == WithCur(walker, n)
           file == walker.files[n]
           archive == OpenedArchive(disk, file, TRUE)
           opened == WithArc(moved, archive)
<1>1. pc = "next" /\ ~walker.arc.open
  BY DEF NextInFiles
<1>2. /\ ~Fresh /\ DiskOK(Paths, disk)
      /\ ExplorerOK(AnyRoot, Paths, disk, walker)
      /\ walker \in Explorers(AnyRoot, Paths)
      /\ Promises(called, NextFile(walker, disk))
      /\ \A v : Follows(AnyRoot, Paths, disk, walker, v) =>
                Follows(AnyRoot, Paths, disk, explorer, v) /\ v.files = walker.files
  BY <1>1, InLoop
<1>3. CASE walker.cur >= Len(walker.files)
  <2>1. Answer(called, FALSE, walker)
    BY <1>1, <1>3 DEF NextInFiles
  <2>2. NextFile(walker, disk) = [ok |-> FALSE, ex |-> walker]
    BY <1>1, <1>2, <1>3, NextAtEnd DEF Fail
  <2> QED
    BY <1>2, <2>1, <2>2, LoopAnswers
<1>4. CASE ~(walker.cur >= Len(walker.files))
  <2>1. n \in 1..Len(walker.files) /\ n \in Nat \ {0}
    BY <1>2, <1>4, OKFields
  <2>2. /\ [walker EXCEPT !.cur = @ + 1] = moved
        /\ moved.files = walker.files /\ moved.cur = n
    <3>1. moved.files = walker.files /\ moved.cur = n
      BY <1>2, <2>1, SetCur
    <3> QED
      BY <3>1 DEF WithCur
  <2>3. Opened(moved, TRUE) = opened
    BY <2>2 DEF Opened, WithArc
  <2>4. Recognized(disk, file) => OpensAt(Paths, disk, file, archive, 1)
    BY <1>2, OpenedAtEnd
  <2> HIDE DEF moved, archive
  <2>5. IF ~file.isFile THEN Loop("next", called, moved)
        ELSE IF ~Recognized(disk, file) THEN Answer(called, TRUE, moved)
        ELSE IF opened.arc.cur \in FileEntries(opened.arc.list)
             THEN Answer(called, TRUE, opened)
        ELSE Loop("next", called, opened)
    BY <1>1, <1>4, <2>2, <2>3 DEF NextInFiles, Continue, IsCurrentInArchiveFile, FileEntries
  <2> HIDE DEF n, opened
  <2>6. /\ ~file.isFile => /\ Follows(AnyRoot, Paths, disk, walker, moved)
                           /\ NextFile(moved, disk) = NextFile(walker, disk)
        /\ file.isFile /\ ~Recognized(disk, file) => NextFile(walker, disk) = Ok(moved)
        /\ Recognized(disk, file) =>
              /\ Follows(AnyRoot, Paths, disk, walker, opened)
              /\ opened.arc.cur \in FileEntries(opened.arc.list) =>
                    NextFile(walker, disk) = Ok(opened)
              /\ opened.arc.cur \notin FileEntries(opened.arc.list) =>
                    NextFile(opened, disk) = NextFile(walker, disk)
    <3>1. /\ n = walker.cur + 1 /\ moved = WithCur(walker, n)
          /\ opened = WithArc(moved, archive)
      BY DEF n, moved, opened
    <3>2. Recognized(disk, walker.files[n]) =>
             OpensAt(Paths, disk, walker.files[n], archive, 1)
      BY <2>4
    <3> QED
      BY <1>1, <1>2, <2>1, <3>1, <3>2, NextInList
  <2>7. CASE ~file.isFile
    <3>1. Remains("next", called, moved)
      BY <1>2, <2>6, <2>7 DEF Remains
    <3> QED
      BY <1>2, <2>5, <2>6, <2>7, <3>1, LoopGoesOn
  <2>8. CASE file.isFile /\ ~Recognized(disk, file)
    BY <1>2, <2>5, <2>6, <2>8, LoopAnswers DEF Ok
  <2>9. CASE /\ Recognized(disk, file) /\ file.isFile
             /\ opened.arc.cur \in FileEntries(opened.arc.list)
    BY <1>2, <2>5, <2>6, <2>9, LoopAnswers DEF Ok
  <2>10. CASE /\ Recognized(disk, file) /\ file.isFile
              /\ opened.arc.cur \notin FileEntries(opened.arc.list)
    <3>1. Remains("next", called, opened)
      BY <1>2, <2>6, <2>10 DEF Remains
    <3> QED
      BY <1>2, <2>5, <2>6, <2>10, <3>1, LoopGoesOn
  <2> QED
    BY <2>7, <2>8, <2>9, <2>10
<1> QED
  BY <1>3, <1>4

LEMMA PreviousInArchiveImplements ==
    ASSUME WInv, PreviousInArchive
    PROVE  WInv' /\ [Next]_vars
<1> DEFINE a == walker.arc.cur - 1
           moved == AtEntry(walker, a)
<1>1. pc = "previous" /\ walker.arc.open
  BY DEF PreviousInArchive
<1>2. /\ ~Fresh /\ DiskOK(Paths, disk)
      /\ ExplorerOK(AnyRoot, Paths, disk, walker) /\ ArchivePresent(disk, walker)
      /\ walker.files # <<>> /\ Promises(called, PreviousFile(walker, disk))
      /\ \A v : Follows(AnyRoot, Paths, disk, walker, v) =>
                Follows(AnyRoot, Paths, disk, explorer, v) /\ v.files = walker.files
  BY <1>1, InLoop
<1>3. CASE walker.arc.list = <<>> \/ walker.arc.cur = 1
  <2>1. Loop("previous", called, CloseArchive(walker))
    BY <1>1, <1>3 DEF PreviousInArchive, Continue
  <2>2. /\ Follows(AnyRoot, Paths, disk, walker, CloseArchive(walker))
        /\ PreviousFile(CloseArchive(walker), disk) = PreviousFile(walker, disk)
    BY <1>1, <1>2, <1>3, LeaveArchive
  <2>3. Remains("previous", called, CloseArchive(walker))
    BY <1>2, <2>2 DEF Remains
  <2> QED
    BY <1>2, <2>1, <2>2, <2>3, LoopGoesOn
<1>4. CASE ~(walker.arc.list = <<>> \/ walker.arc.cur = 1)
  <2>1. a \in 1..Len(walker.arc.list)
    BY <1>1, <1>2, <1>4, OKFields
  <2>2. moved = [walker EXCEPT !.arc.cur = a]
    BY DEF AtEntry
  <2> HIDE DEF moved
  <2>3. IF moved.arc.list[a].isFile THEN Answer(called, TRUE, moved)
        ELSE Loop("previous", called, moved)
    BY <1>1, <1>4, <2>2 DEF PreviousInArchive, Continue
  <2>4. /\ Follows(AnyRoot, Paths, disk, walker, moved) /\ moved.arc.list = walker.arc.list
        /\ walker.arc.list[a].isFile => PreviousFile(walker, disk) = Ok(moved)
        /\ ~walker.arc.list[a].isFile => PreviousFile(moved, disk) = PreviousFile(walker, disk)
    BY <1>1, <1>2, <2>1, PreviousEntry DEF moved
  <2>5. CASE walker.arc.list[a].isFile
    <3>1. Promises(called, [ok |-> TRUE, ex |-> moved])
      BY <1>2, <2>4, <2>5 DEF Ok
    <3> QED
      BY <1>2, <2>3, <2>4, <2>5, <3>1, LoopAnswers
  <2>6. CASE ~walker.arc.list[a].isFile
    <3>1. Remains("previous", called, moved)
      BY <1>2, <2>4, <2>6 DEF Remains
    <3> QED
      BY <1>2, <2>3, <2>4, <2>6, <3>1, LoopGoesOn
  <2> QED
    BY <2>5, <2>6
<1> QED
  BY <1>3, <1>4

LEMMA PreviousInFilesImplements ==
    ASSUME WInv, PreviousInFiles
    PROVE  WInv' /\ [Next]_vars
<1> DEFINE n == walker.cur - 1
           moved == WithCur(walker, n)
           file == walker.files[n]
           archive == OpenedArchive(disk, file, FALSE)
           opened == WithArc(moved, archive)
<1>1. pc = "previous" /\ ~walker.arc.open
  BY DEF PreviousInFiles
<1>2. /\ ~Fresh /\ DiskOK(Paths, disk)
      /\ ExplorerOK(AnyRoot, Paths, disk, walker)
      /\ walker \in Explorers(AnyRoot, Paths)
      /\ walker.files # <<>>
      /\ Promises(called, PreviousFile(walker, disk))
      /\ \A v : Follows(AnyRoot, Paths, disk, walker, v) =>
                Follows(AnyRoot, Paths, disk, explorer, v) /\ v.files = walker.files
  BY <1>1, InLoop
<1>3. CASE walker.cur = 1
  <2>1. Answer(called, FALSE, walker)
    BY <1>1, <1>3 DEF PreviousInFiles
  <2>2. PreviousFile(walker, disk) = [ok |-> FALSE, ex |-> walker]
    BY <1>1, <1>2, <1>3, PreviousAtEnd DEF Fail
  <2> QED
    BY <1>2, <2>1, <2>2, LoopAnswers
<1>4. CASE ~(walker.cur = 1)
  <2>1. n \in 1..Len(walker.files) /\ n \in Nat \ {0}
    BY <1>2, <1>4, OKFields
  <2>2. /\ [walker EXCEPT !.cur = @ - 1] = moved
        /\ moved.files = walker.files /\ moved.cur = n
    <3>1. moved.files = walker.files /\ moved.cur = n
      BY <1>2, <2>1, SetCur
    <3> QED
      BY <3>1 DEF WithCur
  <2>3. Opened(moved, FALSE) = opened
    BY <2>2 DEF Opened, WithArc
  <2>4. Recognized(disk, file) => OpensAt(Paths, disk, file, archive, Len(disk.archives[file]))
    BY <1>2, OpenedAtEnd
  <2> HIDE DEF moved, archive
  <2>5. IF ~file.isFile THEN Loop("previous", called, moved)
        ELSE IF ~Recognized(disk, file) THEN Answer(called, TRUE, moved)
        ELSE IF opened.arc.cur \in FileEntries(opened.arc.list)
             THEN Answer(called, TRUE, opened)
        ELSE Loop("previous", called, opened)
    BY <1>1, <1>4, <2>2, <2>3 DEF PreviousInFiles, Continue, IsCurrentInArchiveFile, FileEntries
  <2> HIDE DEF n, opened
  <2>6. /\ ~file.isFile => /\ Follows(AnyRoot, Paths, disk, walker, moved)
                           /\ PreviousFile(moved, disk) = PreviousFile(walker, disk)
        /\ file.isFile /\ ~Recognized(disk, file) => PreviousFile(walker, disk) = Ok(moved)
        /\ Recognized(disk, file) =>
              /\ Follows(AnyRoot, Paths, disk, walker, opened)
              /\ opened.arc.cur \in FileEntries(opened.arc.list) =>
                    PreviousFile(walker, disk) = Ok(opened)
              /\ opened.arc.cur \notin FileEntries(opened.arc.list) =>
                    PreviousFile(opened, disk) = PreviousFile(walker, disk)
    <3>1. /\ n = walker.cur - 1 /\ moved = WithCur(walker, n)
          /\ opened = WithArc(moved, archive)
      BY DEF n, moved, opened
    <3>2. Recognized(disk, walker.files[n]) =>
             OpensAt(Paths, disk, walker.files[n], archive, Len(disk.archives[walker.files[n]]))
      BY <2>4
    <3> QED
      BY <1>1, <1>2, <2>1, <3>1, <3>2, PreviousInList
  <2>7. CASE ~file.isFile
    <3>1. Remains("previous", called, moved)
      BY <1>2, <2>6, <2>7 DEF Remains
    <3> QED
      BY <1>2, <2>5, <2>6, <2>7, <3>1, LoopGoesOn
  <2>8. CASE file.isFile /\ ~Recognized(disk, file)
    BY <1>2, <2>5, <2>6, <2>8, LoopAnswers DEF Ok
  <2>9. CASE /\ Recognized(disk, file) /\ file.isFile
             /\ opened.arc.cur \in FileEntries(opened.arc.list)
    BY <1>2, <2>5, <2>6, <2>9, LoopAnswers DEF Ok
  <2>10. CASE /\ Recognized(disk, file) /\ file.isFile
              /\ opened.arc.cur \notin FileEntries(opened.arc.list)
    <3>1. Remains("previous", called, opened)
      BY <1>2, <2>6, <2>10 DEF Remains
    <3> QED
      BY <1>2, <2>5, <2>6, <2>10, <3>1, LoopGoesOn
  <2> QED
    BY <2>7, <2>8, <2>9, <2>10
<1> QED
  BY <1>3, <1>4

LEMMA FirstFileStartsLoop ==
    ASSUME WInv, CallToFirstFile
    PROVE  WInv' /\ [Next]_vars
<1> DEFINE n == 1
           start == WithArc(WithCur(walker, n), ClosedArchive)
           file == walker.files[n]
           archive == OpenedArchive(disk, file, ("next" = "next"))
           opened == WithArc(start, archive)
           op == "toFirstFile"
<1>1. /\ walker = explorer /\ ~Fresh /\ DiskOK(Paths, disk)
      /\ ExplorerOK(AnyRoot, Paths, disk, explorer)
  BY DEF CallToFirstFile, Ready, WInv, IInv
<1>2. explorer \in Explorers(AnyRoot, Paths)
  BY <1>1 DEF ExplorerOK
<1>3. CASE explorer.files = <<>>
  <2>1. Answer(op, FALSE, [CloseArchive(walker) EXCEPT !.cur = 1])
    BY <1>1, <1>3 DEF CallToFirstFile
  <2>2. FirstFile(explorer, disk) = [ok |-> FALSE, ex |-> CloseArchive([explorer EXCEPT !.cur = 1])]
    BY <1>3 DEF FirstFile, Fail
  <2>3. CloseArchive([explorer EXCEPT !.cur = 1]) = [CloseArchive(walker) EXCEPT !.cur = 1]
    BY <1>1, <1>2 DEF CloseArchive, Explorers
  <2>4. Promises(op, [ok |-> FALSE, ex |-> CloseArchive([explorer EXCEPT !.cur = 1])])
    BY <2>2 DEF Promises
  <2>5. Answer(op, FALSE, CloseArchive([explorer EXCEPT !.cur = 1]))
    BY <2>1, <2>3
  <2> QED
    BY <1>1, <2>4, <2>5, LoopAnswers
<1>4. CASE explorer.files # <<>>
  <2>1. StartAt(start, "next", op)
    <3>1. [CloseArchive(walker) EXCEPT !.cur = 1] = start
      BY <1>1, <1>2 DEF CloseArchive, WithArc, WithCur, Explorers
    <3> QED
      BY <1>1, <1>4, <3>1 DEF CallToFirstFile
  <2>2. n \in 1..Len(explorer.files) /\ n \in Nat \ {0}
    BY <1>1, <1>4, OKFields
  <2>3. start.files = explorer.files /\ start.cur = n
    BY <1>1, <1>2, <2>2, SetCur, SetArc, ClosedArchiveTyped
  <2>4. Recognized(disk, file) => OpensAt(Paths, disk, file, archive, 1)
    BY <1>1, OpenedAtEnd DEF OpenedArchive
  <2>5. Opened(start, ("next" = "next")) = opened
    BY <1>1, <2>3 DEF Opened, WithArc
  <2> HIDE DEF start, archive
  <2>6. IF ~file.isFile THEN Loop("next", op, start)
        ELSE IF ~Recognized(disk, file) THEN Answer(op, TRUE, start)
        ELSE IF opened.arc.cur \in FileEntries(opened.arc.list)
             THEN Answer(op, TRUE, opened)
        ELSE Loop("next", op, opened)
    BY <1>1, <2>1, <2>3, <2>5 DEF StartAt, IsCurrentInArchiveFile, FileEntries
  <2> HIDE DEF n, opened
  <2>7. /\ Follows(AnyRoot, Paths, disk, explorer, start)
        /\ ~file.isFile => FirstFile(explorer, disk) = NextFile(start, disk)
        /\ file.isFile /\ ~Recognized(disk, file) => FirstFile(explorer, disk) = Ok(start)
        /\ Recognized(disk, file) =>
              /\ Follows(AnyRoot, Paths, disk, explorer, opened)
              /\ opened.arc.cur \in FileEntries(opened.arc.list) =>
                    FirstFile(explorer, disk) = Ok(opened)
              /\ opened.arc.cur \notin FileEntries(opened.arc.list) =>
                    FirstFile(explorer, disk) = NextFile(opened, disk)
    <3>1. /\ n = 1 /\ start = WithArc(WithCur(walker, n), ClosedArchive)
          /\ opened = WithArc(start, archive)
      BY DEF n, start, opened
    <3>2. /\ ExplorerOK(AnyRoot, Paths, disk, walker) /\ walker.files # <<>>
          /\ Recognized(disk, walker.files[n]) =>
                OpensAt(Paths, disk, walker.files[n], archive, 1)
      BY <1>1, <1>4, <2>4
    <3> QED
      BY <1>1, <3>1, <3>2, FirstFileStarts
  <2>8. /\ start.files # <<>>
        /\ Recognized(disk, file) => opened.files # <<>>
    BY <1>4, <2>7 DEF Follows
  <2>9. CASE ~file.isFile
    <3>1. Remains("next", op, start)
      BY <2>7, <2>8, <2>9 DEF Remains, Promises
    <3> QED
      BY <1>1, <2>6, <2>7, <2>9, <3>1, LoopGoesOn
  <2>10. CASE file.isFile /\ ~Recognized(disk, file)
    <3>1. Promises(op, [ok |-> TRUE, ex |-> start])
      BY <2>7, <2>10 DEF Promises, Ok
    <3> QED
      BY <1>1, <2>6, <2>10, <3>1, LoopAnswers
  <2>11. CASE /\ Recognized(disk, file) /\ file.isFile
              /\ opened.arc.cur \in FileEntries(opened.arc.list)
    <3>1. Promises(op, [ok |-> TRUE, ex |-> opened])
      BY <2>7, <2>11 DEF Promises, Ok
    <3> QED
      BY <1>1, <2>6, <2>11, <3>1, LoopAnswers
  <2>12. CASE /\ Recognized(disk, file) /\ file.isFile
              /\ opened.arc.cur \notin FileEntries(opened.arc.list)
    <3>1. Remains("next", op, opened)
      BY <2>7, <2>8, <2>12 DEF Remains, Promises
    <3> QED
      BY <1>1, <2>6, <2>7, <2>12, <3>1, LoopGoesOn
  <2> QED
    BY <2>9, <2>10, <2>11, <2>12
<1> QED
  BY <1>3, <1>4

LEMMA LastFileStartsLoop ==
    ASSUME WInv, CallToLastFile
    PROVE  WInv' /\ [Next]_vars
<1> DEFINE n == Len(walker.files)
           start == WithArc(WithCur(walker, n), ClosedArchive)
           file == walker.files[n]
           archive == OpenedArchive(disk, file, ("previous" = "next"))
           opened == WithArc(start, archive)
           op == "toLastFile"
<1>1. /\ walker = explorer /\ ~Fresh /\ DiskOK(Paths, disk)
      /\ ExplorerOK(AnyRoot, Paths, disk, explorer)
  BY DEF CallToLastFile, Ready, WInv, IInv
<1>2. explorer \in Explorers(AnyRoot, Paths)
  BY <1>1 DEF ExplorerOK
<1>3. CASE explorer.files = <<>>
  <2>1. Answer(op, FALSE, CloseArchive(walker))
    BY <1>1, <1>3 DEF CallToLastFile
  <2>2. LastFile(explorer, disk) = [ok |-> FALSE, ex |-> CloseArchive(explorer)]
    BY <1>3 DEF LastFile, Fail
  <2>3. CloseArchive(explorer) = CloseArchive(walker)
    BY <1>1, <1>2 DEF CloseArchive, Explorers
  <2>4. Promises(op, [ok |-> FALSE, ex |-> CloseArchive(explorer)])
    BY <2>2 DEF Promises
  <2>5. Answer(op, FALSE, CloseArchive(explorer))
    BY <2>1, <2>3
  <2> QED
    BY <1>1, <2>4, <2>5, LoopAnswers
<1>4. CASE explorer.files # <<>>
  <2>1. StartAt(start, "previous", op)
    <3>1. [CloseArchive(walker) EXCEPT !.cur = Len(walker.files)] = start
      BY <1>1, <1>2 DEF CloseArchive, WithArc, WithCur, Explorers
    <3> QED
      BY <1>1, <1>4, <3>1 DEF CallToLastFile
  <2>2. n \in 1..Len(explorer.files) /\ n \in Nat \ {0}
    BY <1>1, <1>4, OKFields
  <2>3. start.files = explorer.files /\ start.cur = n
    BY <1>1, <1>2, <2>2, SetCur, SetArc, ClosedArchiveTyped
  <2>4. Recognized(disk, file) => OpensAt(Paths, disk, file, archive, Len(disk.archives[file]))
    BY <1>1, OpenedAtEnd DEF OpenedArchive
  <2>5. Opened(start, ("previous" = "next")) = opened
    BY <1>1, <2>3 DEF Opened, WithArc
  <2> HIDE DEF start, archive
  <2>6. IF ~file.isFile THEN Loop("previous", op, start)
        ELSE IF ~Recognized(disk, file) THEN Answer(op, TRUE, start)
        ELSE IF opened.arc.cur \in FileEntries(opened.arc.list)
             THEN Answer(op, TRUE, opened)
        ELSE Loop("previous", op, opened)
    BY <1>1, <2>1, <2>3, <2>5 DEF StartAt, IsCurrentInArchiveFile, FileEntries
  <2> HIDE DEF n, opened
  <2>7. /\ Follows(AnyRoot, Paths, disk, explorer, start)
        /\ ~file.isFile => LastFile(explorer, disk) = PreviousFile(start, disk)
        /\ file.isFile /\ ~Recognized(disk, file) => LastFile(explorer, disk) = Ok(start)
        /\ Recognized(disk, file) =>
              /\ Follows(AnyRoot, Paths, disk, explorer, opened)
              /\ opened.arc.cur \in FileEntries(opened.arc.list) =>
                    LastFile(explorer, disk) = Ok(opened)
              /\ opened.arc.cur \notin FileEntries(opened.arc.list) =>
                    LastFile(explorer, disk) = PreviousFile(opened, disk)
    <3>1. /\ n = Len(walker.files) /\ start = WithArc(WithCur(walker, n), ClosedArchive)
          /\ opened = WithArc(start, archive)
      BY DEF n, start, opened
    <3>2. /\ ExplorerOK(AnyRoot, Paths, disk, walker) /\ walker.files # <<>>
          /\ Recognized(disk, walker.files[n]) =>
                OpensAt(Paths, disk, walker.files[n], archive, Len(disk.archives[walker.files[n]]))
      BY <1>1, <1>4, <2>4
    <3> QED
      BY <1>1, <3>1, <3>2, LastFileStarts
  <2>8. /\ start.files # <<>>
        /\ Recognized(disk, file) => opened.files # <<>>
    BY <1>4, <2>7 DEF Follows
  <2>9. CASE ~file.isFile
    <3>1. Remains("previous", op, start)
      BY <2>7, <2>8, <2>9 DEF Remains, Promises
    <3> QED
      BY <1>1, <2>6, <2>7, <2>9, <3>1, LoopGoesOn
  <2>10. CASE file.isFile /\ ~Recognized(disk, file)
    <3>1. Promises(op, [ok |-> TRUE, ex |-> start])
      BY <2>7, <2>10 DEF Promises, Ok
    <3> QED
      BY <1>1, <2>6, <2>10, <3>1, LoopAnswers
  <2>11. CASE /\ Recognized(disk, file) /\ file.isFile
              /\ opened.arc.cur \in FileEntries(opened.arc.list)
    <3>1. Promises(op, [ok |-> TRUE, ex |-> opened])
      BY <2>7, <2>11 DEF Promises, Ok
    <3> QED
      BY <1>1, <2>6, <2>11, <3>1, LoopAnswers
  <2>12. CASE /\ Recognized(disk, file) /\ file.isFile
              /\ opened.arc.cur \notin FileEntries(opened.arc.list)
    <3>1. Remains("previous", op, opened)
      BY <2>7, <2>8, <2>12 DEF Remains, Promises
    <3> QED
      BY <1>1, <2>6, <2>7, <2>12, <3>1, LoopGoesOn
  <2> QED
    BY <2>9, <2>10, <2>11, <2>12
<1> QED
  BY <1>3, <1>4

LEMMA WalkStep == WInv /\ [WalkNext]_walkVars => WInv' /\ [Next]_vars
<1> SUFFICES ASSUME WInv, [WalkNext]_walkVars PROVE WInv' /\ [Next]_vars
  OBVIOUS
<1>1. CASE UNCHANGED walkVars
  <2>1. UNCHANGED vars /\ walker' = walker /\ pc' = pc /\ called' = called
    BY <1>1 DEF walkVars
  <2>2. IInv'
    BY <2>1, NextIInv DEF WInv
  <2>3. disk' = disk /\ explorer' = explorer
    BY <2>1 DEF vars
  <2>4. Fresh' = Fresh /\ Remains(pc, called, walker)' = Remains(pc, called, walker)
    BY <2>1, <2>3 DEF Fresh, Remains, Promises
  <2> QED
    BY <2>1, <2>2, <2>3, <2>4 DEF WInv
<1>2. CASE CallAtOnce
  <2>1. pc = "idle" /\ walker' = explorer' /\ pc' = pc /\ called' = called
    BY <1>2 DEF CallAtOnce
  <2>2. Next
    BY <1>2 DEF CallAtOnce, Next, Moves
  <2>3. IInv'
    BY <2>2, NextIInv DEF WInv
  <2> QED
    BY <2>1, <2>2, <2>3 DEF WInv
<1>3. CASE CallToNextFile
  <2>1. walker = explorer /\ ~Fresh /\ Loop("next", "toNextFile", walker)
    BY <1>3 DEF CallToNextFile, Ready, WInv
  <2>2. Follows(AnyRoot, Paths, disk, explorer, walker) /\ Remains("next", "toNextFile", walker)
    BY <2>1 DEF Follows, Remains, Promises, WInv, IInv, OpenIsRecognized, ArchivePresent
  <2> QED
    BY <2>1, <2>2, LoopGoesOn
<1>4. CASE CallToPreviousFile
  <2>1. walker = explorer /\ ~Fresh
    BY <1>4 DEF CallToPreviousFile, Ready, WInv
  <2>2. CASE explorer.files = <<>>
    <3>1. Answer("toPreviousFile", FALSE, explorer)
      BY <1>4, <2>1, <2>2 DEF CallToPreviousFile
    <3>2. PreviousFile(explorer, disk) = [ok |-> FALSE, ex |-> explorer]
      BY <2>2 DEF PreviousFile, Fail
    <3> QED
      BY <2>1, <3>1, <3>2, LoopAnswers DEF Promises
  <2>3. CASE explorer.files # <<>>
    <3>1. Loop("previous", "toPreviousFile", explorer)
      BY <1>4, <2>1, <2>3 DEF CallToPreviousFile
    <3>2. /\ Follows(AnyRoot, Paths, disk, explorer, explorer)
          /\ Remains("previous", "toPreviousFile", explorer)
      BY <2>3 DEF Follows, Remains, Promises, WInv, IInv, OpenIsRecognized, ArchivePresent
    <3> QED
      BY <2>1, <3>1, <3>2, LoopGoesOn
  <2> QED
    BY <2>2, <2>3
<1> QED
  BY <1>1, <1>2, <1>3, <1>4, FirstFileStartsLoop, LastFileStartsLoop,
     NextInArchiveImplements, NextInFilesImplements,
     PreviousInArchiveImplements, PreviousInFilesImplements
     DEF WalkNext, Iterate

THEOREM WalkInvariance == WalkSpec => []WInv
BY InitWInv, WalkStep, PTL DEF WalkSpec

\* The fields' types, and the names of the loops and operations (book.cpp:338-471).
THEOREM WalkTypeCorrect == WalkSpec => []WalkTypeOK
<1>1. WInv => WalkTypeOK
  <2> SUFFICES ASSUME WInv PROVE WalkTypeOK
    OBVIOUS
  <2>1. CASE pc = "idle"
    BY <2>1 DEF WInv, IInv, ExplorerOK, AnyRoot, WalkTypeOK
  <2>2. CASE pc # "idle"
    BY <2>2 DEF WInv, Follows, ExplorerOK, AnyRoot, Remains, Promises, WalkTypeOK
  <2> QED
    BY <2>1, <2>2
<1> QED
  BY <1>1, WalkInvariance, PTL

(***************************************************************************)
(* The loops of toNextFile, toPreviousFile, toFirstFile and toLastFile     *)
(* (book.cpp:338-471), taken one iteration at a time, compute what         *)
(* BookExplorer says of them in one step.                                  *)
(***************************************************************************)
THEOREM WalkImplements == WalkSpec => ImplementsExplorer
<1>1. WalkInit => Init
  BY DEF WalkInit
<1> QED
  BY <1>1, WalkInvariance, WalkStep, PTL DEF WalkSpec, ImplementsExplorer, Spec

-----------------------------------------------------------------------------
(* The order of paths.                                                     *)

AllPaths == Path(EntryNames)

\* Paths that can stand in one tree.
Tidy(U) == U \subseteq AllPaths /\ Consistent(U) /\ ToldApart(U)

LEMMA PathFacts ==
    ASSUME NEW p \in AllPaths
    PROVE  /\ p = [entries |-> p.entries, isFile |-> p.isFile]
           /\ p.entries \in Seq(EntryNames) /\ p.isFile \in BOOLEAN
           /\ Level(p) \in Nat /\ Level(p) = Len(p.entries)
           /\ DOMAIN p.entries = 1..Level(p)
           /\ \A n \in 1..Level(p) : p.entries[n] \in EntryNames /\ Rank[p.entries[n]] \in Nat
           /\ \A n : IsDirectoryAt(p, n) \in BOOLEAN
<1>1. /\ p = [entries |-> p.entries, isFile |-> p.isFile]
      /\ p.entries \in Seq(EntryNames) /\ p.isFile \in BOOLEAN
  BY DEF AllPaths, Path
<1>2. Level(p) \in Nat /\ Level(p) = Len(p.entries) /\ DOMAIN p.entries = 1..Level(p)
  BY <1>1 DEF Level
<1>3. \A n \in 1..Level(p) : p.entries[n] \in EntryNames
  BY <1>1, <1>2
<1>4. \A n \in 1..Level(p) : Rank[p.entries[n]] \in Nat
  BY <1>3, RankAssumption
<1>5. \A n : IsDirectoryAt(p, n) \in BOOLEAN
  BY DEF IsDirectoryAt
<1> QED
  BY <1>1, <1>2, <1>3, <1>4, <1>5

\* Two paths with the same entries and flag are one.
LEMMA SamePaths ==
    ASSUME NEW p \in AllPaths, NEW q \in AllPaths, Level(p) = Level(q),
           StartsWith(p, q, Level(p))
    PROVE  p.entries = q.entries /\ (p.isFile = q.isFile => p = q)
<1>1. /\ p = [entries |-> p.entries, isFile |-> p.isFile] /\ p.entries \in Seq(EntryNames)
      /\ q = [entries |-> q.entries, isFile |-> q.isFile] /\ q.entries \in Seq(EntryNames)
      /\ Len(p.entries) = Len(q.entries) /\ Len(p.entries) = Level(p)
  BY PathFacts
<1>2. \A i \in 1..Len(p.entries) : p.entries[i] = q.entries[i]
  BY <1>1 DEF StartsWith
<1>3. p.entries = q.entries
  <2> DEFINE s == p.entries
             t == q.entries
  <2>1. s \in Seq(EntryNames) /\ t \in Seq(EntryNames) /\ Len(s) = Len(t)
        /\ \A i \in 1..Len(s) : s[i] = t[i]
    BY <1>1, <1>2
  <2> HIDE DEF s, t
  <2>2. s \in [1..Len(s) -> EntryNames] /\ t \in [1..Len(s) -> EntryNames]
    BY <2>1
  <2>3. s = t
    BY <2>1, <2>2
  <2> QED
    BY <2>3 DEF s, t
<1> QED
  BY <1>1, <1>3

\* A file is the only path that starts with it.
LEMMA FileAlone ==
    ASSUME NEW U, Tidy(U), NEW p \in U, NEW q \in U, p.isFile, StartsWith(q, p, Level(p))
    PROVE  p = q
BY DEF Tidy, Consistent

LEMMA StartsBack ==
    ASSUME NEW p, NEW q, NEW n, StartsWith(p, q, n)
    PROVE  StartsWith(q, p, n)
BY DEF StartsWith

LEMMA StartsThrough ==
    ASSUME NEW p, NEW q, NEW r, NEW m \in Nat, NEW n \in Nat, m <= n,
           StartsWith(p, q, m), StartsWith(q, r, n), Level(r) \in Nat
    PROVE  StartsWith(p, r, m)
BY DEF StartsWith

\* Names differ on a level, with directories before files.
Differ(p, q, n) == \/ IsDirectoryAt(p, n) # IsDirectoryAt(q, n)
                   \/ Rank[p.entries[n]] # Rank[q.entries[n]]

LevelLess(p, q, n) == IF IsDirectoryAt(p, n) # IsDirectoryAt(q, n) THEN IsDirectoryAt(p, n)
                      ELSE Rank[p.entries[n]] < Rank[q.entries[n]]

\* What Less comes to in a tree: p comes before what is below it, and before
\* what is greater on the first level on which they are not the same.
ComesAt(p, q, n) == /\ StartsWith(p, q, n)
                    /\ \/ n = Level(p) /\ n < Level(q)
                       \/ n < Level(p) /\ n < Level(q) /\ LevelLess(p, q, n + 1)

Comes(p, q) == \E n \in Nat : ComesAt(p, q, n)

Differences(p, q) == {n \in 1..Level(p) : n <= Level(q) /\ Differ(p, q, n)}

LEMMA FirstDifferenceIs ==
    ASSUME NEW p \in AllPaths, NEW q \in AllPaths
    PROVE  /\ FirstDifference(p, q) = FirstIndex(Differences(p, q))
           /\ Differences(p, q) = Differences(q, p)
           /\ Differences(p, q) \subseteq Nat
           /\ FirstDifference(p, q) \in Nat
           /\ FirstDifference(p, q) = 0 => Differences(p, q) = {}
           /\ FirstDifference(p, q) # 0 =>
                 /\ FirstDifference(p, q) \in Differences(p, q)
                 /\ \A m \in Differences(p, q) : FirstDifference(p, q) <= m
<1>1. FirstDifference(p, q) = FirstIndex(Differences(p, q))
  BY DEF FirstDifference, Differences, Differ
<1>2. Level(p) \in Nat /\ Level(q) \in Nat
  BY PathFacts
<1>3. \A n : Differ(p, q, n) <=> Differ(q, p, n)
  BY DEF Differ
<1>4. Differences(p, q) = Differences(q, p)
  BY <1>2, <1>3 DEF Differences
<1>5. Differences(p, q) \subseteq Nat /\ 0 \notin Differences(p, q)
  BY <1>2 DEF Differences
<1> DEFINE D == Differences(p, q)
<1> HIDE DEF D
<1>6. CASE D = {}
  BY <1>1, <1>4, <1>5, <1>6 DEF D, FirstIndex
<1>7. CASE D # {}
  <2>1. D \in SUBSET Nat /\ 0 \notin D
    BY <1>5 DEF D
  <2>2. \E m \in D : \A k \in D : m <= k
    BY <1>7, <2>1, LeastExists
  <2>3. FirstIndex(D) = CHOOSE m \in D : \A k \in D : m <= k
    BY <1>7 DEF FirstIndex
  <2>4. FirstIndex(D) \in D /\ \A k \in D : FirstIndex(D) <= k
    BY <2>2, <2>3
  <2> QED
    BY <1>1, <1>4, <2>1, <2>4 DEF D
<1> QED
  BY <1>6, <1>7

\* Paths between which the order sees no difference are the same so far.
LEMMA NoneDiffers ==
    ASSUME NEW U, Tidy(U), NEW p \in U, NEW q \in U,
           NEW n \in Nat, n <= Level(p), n <= Level(q), \A m \in 1..n : ~Differ(p, q, m)
    PROVE  StartsWith(p, q, n)
<1>1. /\ Level(p) \in Nat /\ Level(q) \in Nat
      /\ \A m : IsDirectoryAt(p, m) \in BOOLEAN /\ IsDirectoryAt(q, m) \in BOOLEAN
  BY PathFacts DEF Tidy
<1> DEFINE D == {m \in 1..n : p.entries[m] # q.entries[m]}
<1>2. D = {}
  <2>1. SUFFICES ASSUME D # {} PROVE FALSE
    OBVIOUS
  <2>2. D \in SUBSET Nat
    OBVIOUS
  <2> HIDE DEF D
  <2>3. PICK m \in D : \A k \in D : m <= k
    BY <2>1, <2>2, LeastExists
  <2>4. m \in 1..n /\ p.entries[m] # q.entries[m]
    BY <2>3 DEF D
  <2>5. \A k \in 1..(m - 1) : p.entries[k] = q.entries[k]
    <3>1. TAKE k \in 1..(m - 1)
    <3>2. k \in 1..n /\ ~(m <= k)
      BY <2>4, <3>1
    <3>3. k \notin D
      BY <2>3, <3>2
    <3> QED
      BY <3>2, <3>3 DEF D
  <2>6. m \in 1..Level(p) /\ m <= Level(q) /\ m - 1 <= Level(p) /\ m - 1 <= Level(q)
    BY <1>1, <2>4
  <2>7. StartsWith(p, q, m - 1)
    BY <2>5, <2>6 DEF StartsWith
  <2>8. /\ IsDirectoryAt(p, m) = IsDirectoryAt(q, m)
        /\ Rank[p.entries[m]] = Rank[q.entries[m]]
    BY <2>4 DEF Differ
  <2> QED
    BY <2>4, <2>6, <2>7, <2>8 DEF Tidy, ToldApart
<1> QED
  BY <1>2 DEF StartsWith

LEMMA LevelLessDiffers ==
    ASSUME NEW p \in AllPaths, NEW q \in AllPaths, NEW n \in Nat, n < Level(p), n < Level(q),
           LevelLess(p, q, n + 1)
    PROVE  Differ(p, q, n + 1)
<1>1. n + 1 \in 1..Level(p) /\ n + 1 \in 1..Level(q)
  BY PathFacts
<1>2. Rank[p.entries[n + 1]] \in Nat /\ Rank[q.entries[n + 1]] \in Nat
  BY <1>1, PathFacts
<1> QED
  BY <1>2 DEF LevelLess, Differ

\* On the levels above its last one everything is a directory.
LEMMA AboveIsDirectory ==
    ASSUME NEW p, NEW n, n < Level(p) PROVE IsDirectoryAt(p, n)
BY DEF IsDirectoryAt

LEMMA NoDifference ==
    ASSUME NEW p, NEW q, NEW m \in Nat, NEW n \in 1..m, StartsWith(p, q, m),
           IsDirectoryAt(p, n), IsDirectoryAt(q, n)
    PROVE  ~Differ(p, q, n)
BY DEF StartsWith, Differ

LEMMA LessIsComes ==
    ASSUME NEW U, Tidy(U), NEW p \in U, NEW q \in U
    PROVE  Less(p, q) <=> Comes(p, q)
<1>1. /\ p \in AllPaths /\ q \in AllPaths
      /\ Level(p) \in Nat /\ Level(q) \in Nat /\ p.isFile \in BOOLEAN /\ q.isFile \in BOOLEAN
      /\ \A n : IsDirectoryAt(p, n) \in BOOLEAN /\ IsDirectoryAt(q, n) \in BOOLEAN
  BY PathFacts DEF Tidy
<1> DEFINE D == Differences(p, q)
           f == FirstDifference(p, q)
<1>2. /\ D \subseteq Nat /\ f \in Nat
      /\ f = 0 => D = {}
      /\ f # 0 => f \in D /\ \A m \in D : f <= m
  BY <1>1, FirstDifferenceIs
<1>3. \A n : n \in D <=> n \in 1..Level(p) /\ n <= Level(q) /\ Differ(p, q, n)
  BY DEF Differences
<1>4. Less(p, q) <=> IF f = 0
                     THEN \/ Level(p) < Level(q)
                          \/ Level(p) = Level(q) /\ ~p.isFile /\ q.isFile
                     ELSE LevelLess(p, q, f)
  BY DEF Less, LevelLess
<1> HIDE DEF D, f
<1>5. ASSUME NEW n \in Nat, n <= Level(p), n <= Level(q),
             \A m \in 1..n : m \notin D
      PROVE  StartsWith(p, q, n)
  <2>1. \A m \in 1..n : ~Differ(p, q, m)
    BY <1>1, <1>3, <1>5
  <2> QED
    BY <1>5, <2>1, NoneDiffers
<1>6. ASSUME Less(p, q) PROVE Comes(p, q)
  <2>1. CASE f = 0
    <3>1. D = {}
      BY <1>2, <2>1
    <3>2. CASE Level(p) < Level(q)
      <4>1. StartsWith(p, q, Level(p))
        BY <1>1, <1>5, <3>1, <3>2
      <4> QED
        BY <1>1, <3>2, <4>1 DEF Comes, ComesAt
    <3>3. CASE Level(p) = Level(q) /\ ~p.isFile /\ q.isFile
      <4>1. StartsWith(p, q, Level(p))
        BY <1>1, <1>5, <3>1, <3>3
      <4>2. p.entries = q.entries
        BY <1>1, <3>3, <4>1, SamePaths
      <4>3. p = q
        BY <4>2 DEF Tidy, Consistent
      <4> QED
        BY <3>3, <4>3
    <3> QED
      BY <1>4, <1>6, <2>1, <3>2, <3>3
  <2>2. CASE f # 0
    <3>1. f \in D /\ \A m \in D : f <= m
      BY <1>2, <2>2
    <3>2. f \in 1..Level(p) /\ f <= Level(q) /\ f - 1 \in Nat /\ f - 1 < Level(p) /\ f - 1 < Level(q)
      BY <1>1, <1>2, <1>3, <3>1
    <3>3. \A m \in 1..f - 1 : m \notin D
      BY <1>2, <3>1
    <3>4. StartsWith(p, q, f - 1)
      BY <1>1, <1>5, <3>2, <3>3
    <3>5. LevelLess(p, q, (f - 1) + 1)
      BY <1>2, <1>4, <1>6, <2>2
    <3> QED
      BY <3>2, <3>4, <3>5 DEF Comes, ComesAt
  <2> QED
    BY <2>1, <2>2
<1>7. ASSUME Comes(p, q) PROVE Less(p, q)
  <2>1. PICK n \in Nat : ComesAt(p, q, n)
    BY <1>7 DEF Comes
  <2>2. StartsWith(p, q, n) /\ n <= Level(p) /\ n <= Level(q)
    BY <2>1 DEF ComesAt, StartsWith
  <2>3. CASE n = Level(p) /\ n < Level(q)
    <3>1. ~p.isFile
      <4>1. SUFFICES ASSUME p.isFile PROVE FALSE
        OBVIOUS
      <4>2. p = q
        BY <2>2, <2>3, <4>1, FileAlone, StartsBack
      <4> QED
        BY <1>1, <2>3, <4>2
    <3>2. \A m \in 1..n : ~Differ(p, q, m)
      <4>1. TAKE m \in 1..n
      <4>2. IsDirectoryAt(p, m) /\ IsDirectoryAt(q, m)
        BY <1>1, <2>3, <3>1 DEF IsDirectoryAt
      <4> QED
        BY <2>2, <4>2, NoDifference
    <3>3. D = {}
      BY <1>3, <2>3, <3>2
    <3>4. f = 0
      BY <1>2, <3>3
    <3> QED
      BY <1>4, <2>3, <3>4
  <2>4. CASE n < Level(p) /\ n < Level(q) /\ LevelLess(p, q, n + 1)
    <3>1. \A m \in 1..n : ~Differ(p, q, m)
      <4>1. TAKE m \in 1..n
      <4>2. IsDirectoryAt(p, m) /\ IsDirectoryAt(q, m)
        BY <1>1, <2>4 DEF IsDirectoryAt
      <4> QED
        BY <2>2, <4>2, NoDifference
    <3>2. Differ(p, q, n + 1)
      BY <1>1, <2>4, LevelLessDiffers
    <3>3. n + 1 \in D
      BY <1>1, <1>3, <2>4, <3>2
    <3>4. \A m \in D : ~(m <= n)
      BY <1>1, <1>3, <3>1
    <3>5. f = n + 1
      BY <1>2, <3>3, <3>4
    <3> QED
      BY <1>4, <2>4, <3>5
  <2> QED
    BY <2>1, <2>3, <2>4 DEF ComesAt
<1> QED
  BY <1>6, <1>7

LEMMA TidyFacts ==
    ASSUME NEW U, Tidy(U), NEW p \in U
    PROVE  /\ p \in AllPaths /\ Level(p) \in Nat /\ p.isFile \in BOOLEAN
           /\ \A n : IsDirectoryAt(p, n) \in BOOLEAN
           /\ \A n \in 1..Level(p) : Rank[p.entries[n]] \in Nat
BY PathFacts DEF Tidy

\* Of two paths of a tree one comes before the other.
LEMMA ComesTotal ==
    ASSUME NEW U, Tidy(U), NEW p \in U, NEW q \in U
    PROVE  Comes(p, q) \/ Comes(q, p) \/ p = q
<1>1. /\ p \in AllPaths /\ q \in AllPaths
      /\ Level(p) \in Nat /\ Level(q) \in Nat
      /\ \A n : IsDirectoryAt(p, n) \in BOOLEAN /\ IsDirectoryAt(q, n) \in BOOLEAN
  BY TidyFacts
<1>2. /\ FirstDifference(q, p) = FirstDifference(p, q)
      /\ FirstDifference(p, q) \in Nat
      /\ FirstDifference(p, q) = 0 => Differences(p, q) = {}
      /\ FirstDifference(p, q) # 0 => FirstDifference(p, q) \in Differences(p, q)
  <2>1. FirstDifference(q, p) = FirstIndex(Differences(p, q))
    BY <1>1, FirstDifferenceIs
  <2> QED
    BY <1>1, <2>1, FirstDifferenceIs
<1> DEFINE f == FirstDifference(p, q)
<1>3. (Less(p, q) <=> Comes(p, q)) /\ (Less(q, p) <=> Comes(q, p))
  BY LessIsComes
<1>4. CASE f = 0
  <2>1. CASE Level(p) # Level(q)
    BY <1>1, <1>2, <1>3, <1>4, <2>1 DEF Less
  <2>2. CASE Level(p) = Level(q)
    <3>1. \A m \in 1..Level(p) : ~Differ(p, q, m)
      BY <1>1, <1>2, <1>4, <2>2 DEF Differences
    <3>2. StartsWith(p, q, Level(p))
      BY <1>1, <2>2, <3>1, NoneDiffers
    <3>3. p.entries = q.entries
      BY <1>1, <2>2, <3>2, SamePaths
    <3> QED
      BY <3>3 DEF Tidy, Consistent
  <2> QED
    BY <2>1, <2>2
<1>5. CASE f # 0
  <2>1. f \in 1..Level(p) /\ f <= Level(q) /\ Differ(p, q, f) /\ f \in 1..Level(q)
    BY <1>1, <1>2, <1>5 DEF Differences
  <2>2. Rank[p.entries[f]] \in Nat /\ Rank[q.entries[f]] \in Nat
    BY <2>1, TidyFacts
  <2> DEFINE a == Rank[p.entries[f]]
             b == Rank[q.entries[f]]
             x == IsDirectoryAt(p, f)
             y == IsDirectoryAt(q, f)
  <2>3. /\ Less(p, q) <=> IF x # y THEN x ELSE a < b
        /\ Less(q, p) <=> IF y # x THEN y ELSE b < a
    BY <1>2, <1>5 DEF Less
  <2>4. a \in Nat /\ b \in Nat /\ x \in BOOLEAN /\ y \in BOOLEAN /\ (x # y \/ a # b)
    BY <1>1, <2>1, <2>2 DEF Differ
  <2> HIDE DEF a, b, x, y, f
  <2>5. Less(p, q) \/ Less(q, p)
    BY <2>3, <2>4
  <2> QED
    BY <1>3, <2>5
<1> QED
  BY <1>4, <1>5

LEMMA ComesOneWay ==
    ASSUME NEW U, Tidy(U), NEW p \in U, NEW q \in U, Comes(p, q)
    PROVE  ~Comes(q, p) /\ p # q
<1>1. /\ p \in AllPaths /\ q \in AllPaths
      /\ Level(p) \in Nat /\ Level(q) \in Nat
      /\ \A n : IsDirectoryAt(p, n) \in BOOLEAN /\ IsDirectoryAt(q, n) \in BOOLEAN
  BY TidyFacts
<1> DEFINE f == FirstDifference(p, q)
<1>2. /\ FirstDifference(q, p) = f /\ f \in Nat
      /\ f # 0 => f \in Differences(p, q)
  <2>1. FirstDifference(q, p) = FirstIndex(Differences(p, q))
    BY <1>1, FirstDifferenceIs
  <2> QED
    BY <1>1, <2>1, FirstDifferenceIs
<1>3. (Less(p, q) <=> Comes(p, q)) /\ (Less(q, p) <=> Comes(q, p))
  BY LessIsComes
<1>4. ~Less(q, p)
  <2>1. CASE f = 0
    BY <1>1, <1>2, <1>3, <2>1 DEF Less
  <2>2. CASE f # 0
    <3>1. f \in 1..Level(p) /\ f \in 1..Level(q)
      BY <1>1, <1>2, <2>2 DEF Differences
    <3>2. Rank[p.entries[f]] \in Nat /\ Rank[q.entries[f]] \in Nat
      BY <3>1, TidyFacts
    <3> DEFINE a == Rank[p.entries[f]]
               b == Rank[q.entries[f]]
               x == IsDirectoryAt(p, f)
               y == IsDirectoryAt(q, f)
    <3>3. /\ Less(p, q) <=> IF x # y THEN x ELSE a < b
          /\ Less(q, p) <=> IF y # x THEN y ELSE b < a
      BY <1>2, <2>2 DEF Less
    <3>4. a \in Nat /\ b \in Nat /\ x \in BOOLEAN /\ y \in BOOLEAN
      BY <1>1, <3>2
    <3> HIDE DEF a, b, x, y, f
    <3> QED
      BY <1>3, <3>3, <3>4
  <2> QED
    BY <2>1, <2>2
<1> QED
  BY <1>3, <1>4

\* A directory comes before everything below it, and only a directory has
\* anything below it.
LEMMA AboveComes ==
    ASSUME NEW U, Tidy(U), NEW d \in U, NEW p \in U,
           StartsWith(p, d, Level(d)), Level(d) < Level(p)
    PROVE  Comes(d, p) /\ ~d.isFile
<1>1. Level(d) \in Nat
  BY TidyFacts
<1>2. Comes(d, p)
  BY <1>1, StartsBack DEF Comes, ComesAt
<1>3. ~d.isFile
  <2>1. SUFFICES ASSUME d.isFile PROVE FALSE
    OBVIOUS
  <2>2. d = p
    BY <2>1, FileAlone
  <2> QED
    BY <1>1, <2>2
<1> QED
  BY <1>2, <1>3

\* Paths that agree on a level, with something below it, are less alike.
LEMMA LevelLessMoves ==
    ASSUME NEW p, NEW q, NEW r, NEW s, NEW n, LevelLess(p, q, n),
           IsDirectoryAt(p, n) = IsDirectoryAt(r, n), p.entries[n] = r.entries[n],
           IsDirectoryAt(q, n) = IsDirectoryAt(s, n), q.entries[n] = s.entries[n]
    PROVE  LevelLess(r, s, n)
BY DEF LevelLess

\* On a level that both have, a path agrees with one that it begins.
LEMMA SameOnLevel ==
    ASSUME NEW U, Tidy(U), NEW p \in U, NEW q \in U, NEW m \in Nat,
           StartsWith(p, q, m), NEW n \in 1..m,
           n < Level(p) \/ Level(p) < Level(q), n < Level(q) \/ Level(q) < Level(p)
    PROVE  IsDirectoryAt(p, n) /\ IsDirectoryAt(q, n) /\ p.entries[n] = q.entries[n]
<1>1. Level(p) \in Nat /\ Level(q) \in Nat /\ m <= Level(p) /\ m <= Level(q)
  BY TidyFacts DEF StartsWith
<1>2. p.entries[n] = q.entries[n]
  BY DEF StartsWith
<1>3. IsDirectoryAt(p, n)
  <2>1. CASE n < Level(p)
    BY <2>1 DEF IsDirectoryAt
  <2>2. CASE ~(n < Level(p))
    <3>1. Level(p) = m /\ Level(p) < Level(q)
      BY <1>1, <2>2
    <3>2. ~p.isFile
      BY <3>1, AboveComes, StartsBack
    <3> QED
      BY <3>2 DEF IsDirectoryAt
  <2> QED
    BY <2>1, <2>2
<1>4. IsDirectoryAt(q, n)
  <2>1. CASE n < Level(q)
    BY <2>1 DEF IsDirectoryAt
  <2>2. CASE ~(n < Level(q))
    <3>1. Level(q) = m /\ Level(q) < Level(p)
      BY <1>1, <2>2
    <3>2. ~q.isFile
      BY <3>1, AboveComes
    <3> QED
      BY <3>2 DEF IsDirectoryAt
  <2> QED
    BY <2>1, <2>2
<1> QED
  BY <1>2, <1>3, <1>4

LEMMA ComesThrough ==
    ASSUME NEW U, Tidy(U), NEW p \in U, NEW q \in U, NEW r \in U, Comes(p, q), Comes(q, r)
    PROVE  Comes(p, r)
<1>1. Level(p) \in Nat /\ Level(q) \in Nat /\ Level(r) \in Nat
  BY TidyFacts
<1>2. PICK m \in Nat : ComesAt(p, q, m)
  BY DEF Comes
<1>3. PICK n \in Nat : ComesAt(q, r, n)
  BY DEF Comes
<1>4. /\ StartsWith(p, q, m) /\ StartsWith(q, r, n)
      /\ m <= Level(p) /\ m < Level(q) /\ n <= Level(q) /\ n < Level(r)
      /\ m = Level(p) \/ (m < Level(p) /\ LevelLess(p, q, m + 1))
      /\ n = Level(q) \/ (n < Level(q) /\ LevelLess(q, r, n + 1))
  <2>1. /\ StartsWith(p, q, m) /\ m <= Level(p)
        /\ \/ m = Level(p) /\ m < Level(q)
           \/ m < Level(p) /\ m < Level(q) /\ LevelLess(p, q, m + 1)
    BY <1>2 DEF ComesAt, StartsWith
  <2>2. /\ StartsWith(q, r, n) /\ n <= Level(q)
        /\ \/ n = Level(q) /\ n < Level(r)
           \/ n < Level(q) /\ n < Level(r) /\ LevelLess(q, r, n + 1)
    BY <1>3 DEF ComesAt, StartsWith
  <2> QED
    BY <2>1, <2>2
<1>5. CASE m < n
  <2>1. StartsWith(p, r, m)
    BY <1>1, <1>4, <1>5, StartsThrough
  <2>2. CASE m = Level(p)
    BY <1>1, <1>4, <1>5, <2>1, <2>2 DEF Comes, ComesAt
  <2>3. CASE m < Level(p) /\ LevelLess(p, q, m + 1)
    <3>1. m + 1 \in 1..n /\ m < Level(r) /\ m + 1 < Level(r)
          /\ (m + 1 < Level(q) \/ Level(q) < Level(r))
      BY <1>1, <1>4, <1>5
    <3>2. IsDirectoryAt(q, m + 1) /\ IsDirectoryAt(r, m + 1) /\ q.entries[m + 1] = r.entries[m + 1]
      BY <1>4, <3>1, SameOnLevel
    <3>3. LevelLess(p, r, m + 1)
      BY <2>3, <3>2, LevelLessMoves
    <3> QED
      BY <2>1, <2>3, <3>1, <3>3 DEF Comes, ComesAt
  <2> QED
    BY <1>4, <2>2, <2>3
<1>6. CASE n < m
  <2>1. StartsWith(p, r, n)
    <3>1. StartsWith(p, q, n)
      BY <1>1, <1>4, <1>6 DEF StartsWith
    <3> QED
      BY <1>1, <1>4, <3>1, StartsThrough
  <2>2. n < Level(q) /\ LevelLess(q, r, n + 1) /\ n < Level(p)
    BY <1>1, <1>4, <1>6
  <2>3. /\ n + 1 \in 1..m /\ n + 1 < Level(q)
        /\ n + 1 < Level(p) \/ Level(p) < Level(q)
    BY <1>1, <1>4, <1>6
  <2>4. IsDirectoryAt(q, n + 1) /\ IsDirectoryAt(p, n + 1) /\ p.entries[n + 1] = q.entries[n + 1]
    BY <1>4, <2>3, SameOnLevel
  <2>5. LevelLess(p, r, n + 1)
    BY <2>2, <2>4, LevelLessMoves
  <2> QED
    BY <1>4, <2>1, <2>2, <2>5 DEF Comes, ComesAt
<1>7. CASE m = n
  <2>1. StartsWith(p, r, n)
    BY <1>1, <1>4, <1>7, StartsThrough
  <2>2. n < Level(q) /\ LevelLess(q, r, n + 1)
    BY <1>4, <1>7
  <2>3. CASE n = Level(p)
    BY <1>4, <2>1, <2>3 DEF Comes, ComesAt
  <2>4. CASE n < Level(p) /\ LevelLess(p, q, n + 1)
    <3>1. LevelLess(p, r, n + 1)
      <4> DEFINE a == Rank[p.entries[n + 1]]
                 b == Rank[q.entries[n + 1]]
                 c == Rank[r.entries[n + 1]]
                 x == IsDirectoryAt(p, n + 1)
                 y == IsDirectoryAt(q, n + 1)
                 z == IsDirectoryAt(r, n + 1)
      <4>1. n + 1 \in 1..Level(p) /\ n + 1 \in 1..Level(q) /\ n + 1 \in 1..Level(r)
        BY <1>1, <1>4, <2>2, <2>4
      <4>2. /\ a \in Nat /\ b \in Nat /\ c \in Nat
            /\ x \in BOOLEAN /\ y \in BOOLEAN /\ z \in BOOLEAN
        BY <4>1, TidyFacts
      <4>3. (IF x # y THEN x ELSE a < b) /\ (IF y # z THEN y ELSE b < c)
        BY <2>2, <2>4 DEF LevelLess
      <4>4. (IF x # z THEN x ELSE a < c) => LevelLess(p, r, n + 1)
        BY DEF LevelLess
      <4> HIDE DEF a, b, c, x, y, z
      <4> QED
        BY <4>2, <4>3, <4>4
    <3> QED
      BY <1>4, <2>1, <2>4, <3>1 DEF Comes, ComesAt
  <2> QED
    BY <1>4, <1>7, <2>3, <2>4
<1> QED
  BY <1>5, <1>6, <1>7

\* What is below a directory comes before everything that comes after the
\* directory and is not below it.
LEMMA BelowStaysTogether ==
    ASSUME NEW U, Tidy(U), NEW d \in U, NEW p \in U, NEW x \in U,
           StartsWith(p, d, Level(d)), Level(d) < Level(p),
           Comes(d, x), ~StartsWith(x, d, Level(d))
    PROVE  Comes(p, x)
<1>1. Level(d) \in Nat /\ Level(p) \in Nat /\ Level(x) \in Nat
  BY TidyFacts
<1>2. PICK n \in Nat : ComesAt(d, x, n)
  BY DEF Comes
<1>3. /\ StartsWith(d, x, n) /\ n <= Level(d) /\ n # Level(d)
      /\ n < Level(d) /\ n < Level(x) /\ LevelLess(d, x, n + 1)
  BY <1>1, <1>2, StartsBack DEF ComesAt, StartsWith
<1>4. StartsWith(p, x, n)
  BY <1>1, <1>3, StartsThrough DEF StartsWith
<1>5. n + 1 \in 1..Level(d) /\ n + 1 < Level(p)
  BY <1>1, <1>3
<1>6. IsDirectoryAt(p, n + 1) /\ IsDirectoryAt(d, n + 1) /\ p.entries[n + 1] = d.entries[n + 1]
  BY <1>1, <1>5, SameOnLevel
<1>7. LevelLess(p, x, n + 1)
  BY <1>3, <1>6, LevelLessMoves
<1> QED
  BY <1>1, <1>3, <1>4, <1>7 DEF Comes, ComesAt

\* So between a directory and what is below it there is only what is below it.
LEMMA BetweenIsBelow ==
    ASSUME NEW U, Tidy(U), NEW d \in U, NEW p \in U, NEW x \in U,
           StartsWith(p, d, Level(d)), Level(d) < Level(p), Comes(d, x), Comes(x, p)
    PROVE  StartsWith(x, d, Level(d))
BY BelowStaysTogether, ComesOneWay

\* In a directory, only files come after a file.
LEMMA FilesComeLast ==
    ASSUME NEW U, Tidy(U), NEW p \in U, NEW q \in U, p.isFile, Level(p) # 0,
           StartsWith(q, p, Level(p) - 1), Comes(p, q)
    PROVE  q.isFile /\ Level(q) = Level(p)
<1>1. Level(p) \in Nat /\ Level(q) \in Nat /\ q.isFile \in BOOLEAN
  BY TidyFacts
<1>2. PICK n \in Nat : ComesAt(p, q, n)
  BY DEF Comes
<1>3. n # Level(p)
  <2>1. SUFFICES ASSUME n = Level(p) PROVE FALSE
    OBVIOUS
  <2>2. StartsWith(q, p, Level(p)) /\ Level(p) < Level(q)
    BY <1>1, <1>2, <2>1, StartsBack DEF ComesAt
  <2> QED
    BY <2>2, AboveComes
<1>4. n < Level(p) /\ n < Level(q) /\ LevelLess(p, q, n + 1)
  BY <1>2, <1>3 DEF ComesAt
<1>5. ~(n < Level(p) - 1)
  <2>1. SUFFICES ASSUME n < Level(p) - 1 PROVE FALSE
    OBVIOUS
  <2>2. Level(p) - 1 \in Nat /\ n + 1 \in 1..(Level(p) - 1) /\ n + 1 < Level(p)
    BY <1>1, <2>1
  <2>3. p.entries[n + 1] = q.entries[n + 1] /\ Level(p) - 1 <= Level(q)
    BY <2>2 DEF StartsWith
  <2>4. (IsDirectoryAt(p, n + 1) /\ IsDirectoryAt(q, n + 1)) \/ Level(q) = n + 1
    BY <1>1, <1>4, <2>2 DEF IsDirectoryAt
  <2>5. Level(q) # n + 1 \/ ~q.isFile
    <3>1. CASE Level(q) = n + 1 /\ q.isFile
      <4>1. Level(q) = Level(p) - 1 /\ Level(q) < Level(p)
        BY <1>1, <2>2, <2>3, <3>1
      <4>2. StartsWith(p, q, Level(q))
        BY <4>1, StartsBack
      <4> QED
        BY <3>1, <4>1, <4>2, AboveComes
    <3> QED
      BY <1>1, <3>1
  <2>6. IsDirectoryAt(p, n + 1) /\ IsDirectoryAt(q, n + 1)
    BY <2>2, <2>4, <2>5 DEF IsDirectoryAt
  <2>7. Rank[p.entries[n + 1]] \in Nat
    BY <1>1, <2>2, TidyFacts
  <2>8. ~LevelLess(p, q, n + 1)
    <3> DEFINE a == Rank[p.entries[n + 1]]
               b == Rank[q.entries[n + 1]]
    <3>1. a = b /\ a \in Nat
      BY <2>3, <2>7
    <3>2. LevelLess(p, q, n + 1) => a < b
      BY <2>6 DEF LevelLess
    <3> HIDE DEF a, b
    <3> QED
      BY <3>1, <3>2
  <2> QED
    BY <1>4, <2>8
<1>6. n + 1 = Level(p)
  BY <1>1, <1>4, <1>5
<1>7. ~IsDirectoryAt(p, n + 1)
  BY <1>1, <1>6 DEF IsDirectoryAt
<1>8. ~IsDirectoryAt(q, n + 1)
  BY <1>4, <1>7 DEF LevelLess, IsDirectoryAt
<1> QED
  BY <1>1, <1>4, <1>6, <1>8 DEF IsDirectoryAt

-----------------------------------------------------------------------------
(* The tree of what was listed.                                            *)

\* The directory on level n of the way to p.
Ancestor(p, n) == Dir(SubSeq(p.entries, 1, n))

LEMMA AncestorIs ==
    ASSUME NEW p \in AllPaths, NEW n \in Nat, n <= Level(p)
    PROVE  /\ Ancestor(p, n) \in AllPaths
           /\ ~Ancestor(p, n).isFile
           /\ Level(Ancestor(p, n)) = n
           /\ \A i \in 1..n : Ancestor(p, n).entries[i] = p.entries[i]
           /\ StartsWith(p, Ancestor(p, n), n)
<1>1. p.entries \in Seq(EntryNames) /\ Level(p) = Len(p.entries) /\ Level(p) \in Nat
  BY PathFacts
<1> DEFINE s == p.entries
           t == SubSeq(s, 1, n)
<1>2. t \in Seq(EntryNames) /\ Len(t) = n /\ \A i \in 1..n : t[i] = s[i]
  <2>1. s \in Seq(EntryNames) /\ n <= Len(s) /\ Len(s) \in Nat
    BY <1>1
  <2> HIDE DEF s
  <2> QED
    BY <2>1
<1>3. Ancestor(p, n) = [entries |-> t, isFile |-> FALSE]
  BY DEF Ancestor, Dir
<1> HIDE DEF t
<1>4. Ancestor(p, n) \in AllPaths /\ ~Ancestor(p, n).isFile /\ Level(Ancestor(p, n)) = n
  BY <1>2, <1>3 DEF AllPaths, Path, Level
<1> QED
  BY <1>2, <1>3, <1>4 DEF StartsWith

\* A directory that p starts with is the one of its level on the way to p.
LEMMA AncestorOnly ==
    ASSUME NEW p \in AllPaths, NEW q \in AllPaths, ~q.isFile,
           StartsWith(p, q, Level(q))
    PROVE  q = Ancestor(p, Level(q))
<1>1. Level(q) \in Nat /\ Level(q) <= Level(p) /\ q.isFile \in BOOLEAN
  BY PathFacts DEF StartsWith
<1> DEFINE a == Ancestor(p, Level(q))
<1>2. a \in AllPaths /\ ~a.isFile /\ Level(a) = Level(q) /\ StartsWith(p, a, Level(q))
  BY <1>1, AncestorIs
<1> HIDE DEF a
<1>3. StartsWith(q, a, Level(q))
  BY <1>1, <1>2, StartsBack, StartsThrough
<1>4. a.isFile \in BOOLEAN
  BY <1>2, PathFacts
<1>5. q = a
  BY <1>1, <1>2, <1>3, <1>4, SamePaths
<1> QED
  BY <1>5 DEF a

IsListing(r, S) ==
    /\ r \in AllPaths /\ ~r.isFile
    /\ S \subseteq AllPaths /\ IsFiniteSet(S)
    /\ \A p \in S : StartsWith(p, r, Level(r))
    /\ Consistent(S \union {r})

Given == IsListing(root, listed) /\ ToldApart(listed)

LEMMA GivenAtFirst ==
    ASSUME ListInit
    PROVE  /\ IsListing(root, listed) /\ (NamesDiffer => Given)
           /\ filesOnly \in BOOLEAN /\ (filesOnly => \A p \in listed : p.isFile)
<1>1. PICK l \in Listings : root = l.root /\ listed = l.paths /\ filesOnly = l.filesOnly
  BY DEF ListInit
<1>2. /\ l.root \in Path(EntryNames) /\ ~l.root.isFile
      /\ l.paths \subseteq Path(EntryNames) /\ IsFiniteSet(l.paths)
      /\ \A p \in l.paths : StartsWith(p, l.root, Level(l.root))
      /\ Consistent(l.paths \union {l.root})
      /\ l.filesOnly \in BOOLEAN /\ (l.filesOnly => \A p \in l.paths : p.isFile)
  BY ListingsAssumption
<1> QED
  BY <1>1, <1>2 DEF Given, IsListing, AllPaths, NamesDiffer

LEMMA GivenFacts ==
    ASSUME Given
    PROVE  /\ root \in AllPaths /\ ~root.isFile /\ Level(root) \in Nat
           /\ \A p \in listed : /\ p \in AllPaths /\ Level(p) \in Nat /\ p.isFile \in BOOLEAN
                                /\ StartsWith(p, root, Level(root)) /\ Level(root) <= Level(p)
           /\ Tidy(listed \union {root})
<1>1. Tidy(listed \union {root})
  <2>1. SUFFICES ToldApart(listed \union {root})
    BY DEF Given, IsListing, Tidy
  <2>2. SUFFICES ASSUME NEW p \in listed \union {root}, NEW q \in listed \union {root},
                        NEW n \in 1..Level(p), n <= Level(q), p = root \/ q = root
                 PROVE  p.entries[n] = q.entries[n]
    BY DEF ToldApart, Given
  <2>3. /\ \A x \in listed : StartsWith(x, root, Level(root))
        /\ StartsWith(root, root, Level(root)) /\ Level(root) \in Nat
    BY PathFacts DEF Given, IsListing, StartsWith
  <2>4. StartsWith(p, root, Level(root)) /\ StartsWith(q, root, Level(root))
    BY <2>3
  <2>5. n \in 1..Level(root)
    BY <2>2, <2>3
  <2> QED
    BY <2>4, <2>5 DEF StartsWith
<1> QED
  BY <1>1, PathFacts DEF Given, IsListing, StartsWith

\* The directories from the root to a path, without it.
Above(p) == {Ancestor(p, n) : n \in Level(root)..(Level(p) - 1)}

LEMMA TreeIs == Tree = listed \union UNION {Above(p) : p \in listed}
BY DEF Tree, Above, Ancestor

LEMMA InTree ==
    ASSUME NEW q \in Tree, q \notin listed
    PROVE  \E p \in listed : \E n \in Level(root)..(Level(p) - 1) : q = Ancestor(p, n)
BY TreeIs DEF Above

LEMMA AncestorFacts ==
    ASSUME Given, NEW p \in listed, NEW n \in Level(root)..(Level(p) - 1)
    PROVE  /\ Ancestor(p, n) \in Tree
           /\ n \in Nat /\ n < Level(p)
           /\ Ancestor(p, n) \in AllPaths /\ ~Ancestor(p, n).isFile
           /\ Level(Ancestor(p, n)) = n /\ StartsWith(p, Ancestor(p, n), n)
<1>1. n \in Nat /\ n < Level(p) /\ n <= Level(p)
  BY GivenFacts
<1>2. Ancestor(p, n) \in Tree
  BY TreeIs DEF Above
<1> QED
  BY <1>1, <1>2, AncestorIs, GivenFacts

LEMMA RootInTree == ASSUME Given, listed # {} PROVE root \in Tree
<1>1. PICK p \in listed : TRUE
  OBVIOUS
<1>2. /\ root \in AllPaths /\ ~root.isFile /\ Level(root) \in Nat
      /\ p \in AllPaths /\ Level(p) \in Nat
      /\ StartsWith(p, root, Level(root)) /\ Level(root) <= Level(p)
      /\ Tidy(listed \union {root})
  BY GivenFacts
<1>3. CASE Level(root) < Level(p)
  <2>1. Level(root) \in Level(root)..(Level(p) - 1)
    BY <1>2, <1>3
  <2>2. Ancestor(p, Level(root)) \in Tree
    BY <2>1, AncestorFacts
  <2> QED
    BY <1>2, <2>2, AncestorOnly
<1>4. CASE Level(root) = Level(p)
  <2>1. p.entries = root.entries
    BY <1>2, <1>4, SamePaths
  <2>2. p = root
    BY <1>2, <2>1 DEF Tidy, Consistent
  <2> QED
    BY <2>2, TreeIs
<1> QED
  BY <1>2, <1>3, <1>4

LEMMA TreePathFacts ==
    ASSUME Given, NEW q \in Tree
    PROVE  /\ q \in AllPaths /\ StartsWith(q, root, Level(root))
           /\ Level(q) \in Nat /\ Level(root) <= Level(q) /\ q.isFile \in BOOLEAN
           /\ q.isFile => q \in listed /\ Level(root) < Level(q)
           /\ \A n \in Level(root)..(Level(q) - 1) : Ancestor(q, n) \in Tree
<1>1. CASE q \in listed
  <2>1. /\ q \in AllPaths /\ StartsWith(q, root, Level(root)) /\ q.isFile \in BOOLEAN
        /\ Level(q) \in Nat /\ Level(root) <= Level(q) /\ Level(root) \in Nat
        /\ root \in AllPaths /\ ~root.isFile /\ Tidy(listed \union {root})
    BY <1>1, GivenFacts
  <2>2. ASSUME q.isFile PROVE Level(root) < Level(q)
    <3>1. CASE Level(root) = Level(q)
      <4>1. q.entries = root.entries
        BY <2>1, <3>1, SamePaths
      <4>2. q = root
        BY <1>1, <2>1, <4>1 DEF Tidy, Consistent
      <4> QED
        BY <2>1, <2>2, <4>2
    <3> QED
      BY <2>1, <3>1
  <2> QED
    BY <1>1, <2>1, <2>2, AncestorFacts
<1>2. CASE q \notin listed
  <2>1. PICK p \in listed : \E n \in Level(root)..(Level(p) - 1) : q = Ancestor(p, n)
    BY <1>2, InTree
  <2>6. PICK n \in Level(root)..(Level(p) - 1) : q = Ancestor(p, n)
    BY <2>1
  <2>2. /\ n \in Nat /\ n < Level(p) /\ q \in AllPaths /\ ~q.isFile
        /\ Level(q) = n /\ StartsWith(p, q, n) /\ n <= Level(p)
    <3>1. Level(p) \in Nat
      BY GivenFacts
    <3> QED
      BY <2>6, <3>1, AncestorFacts
  <2>3. /\ p \in AllPaths /\ Level(p) \in Nat /\ StartsWith(p, root, Level(root))
        /\ Level(root) \in Nat /\ Level(root) <= n
    BY GivenFacts
  <2>4. StartsWith(q, root, Level(root))
    <3>1. StartsWith(q, p, n)
      BY <2>2, StartsBack
    <3> QED
      BY <2>2, <2>3, <3>1 DEF StartsWith
  <2>5. ASSUME NEW m \in Level(root)..(n - 1) PROVE Ancestor(q, m) \in Tree
    <3>1. m \in Nat /\ m <= n /\ m \in Level(root)..(Level(p) - 1) /\ m <= Level(p)
      BY <2>2, <2>3
    <3> DEFINE a == Ancestor(q, m)
    <3>2. a \in AllPaths /\ ~a.isFile /\ Level(a) = m /\ StartsWith(q, a, m)
      BY <2>2, <3>1, AncestorIs
    <3>3. StartsWith(p, a, m)
      <4> HIDE DEF a
      <4> QED
        BY <2>2, <3>1, <3>2 DEF StartsWith
    <3>4. a = Ancestor(p, m)
      <4> HIDE DEF a
      <4> QED
        BY <2>3, <3>2, <3>3, AncestorOnly
    <3>5. Ancestor(p, m) \in Tree
      BY <3>1, AncestorFacts
    <3> QED
      BY <3>4, <3>5
  <2> QED
    BY <2>2, <2>3, <2>4, <2>5, PathFacts
<1> QED
  BY <1>1, <1>2

LEMMA TreeIsTidy == ASSUME Given PROVE Tidy(Tree) /\ Tidy(Tree \union {root})
<1> DEFINE U == Tree \union {root}
           L == listed \union {root}
<1>1. /\ root \in AllPaths /\ ~root.isFile /\ Level(root) \in Nat /\ root.isFile \in BOOLEAN
      /\ Tidy(L)
  BY GivenFacts, PathFacts
<1>2. \A q \in U : /\ q \in AllPaths /\ Level(q) \in Nat /\ q.isFile \in BOOLEAN
                   /\ q.isFile => q \in listed
  BY <1>1, TreePathFacts
<1>3. ASSUME NEW q \in U, q \notin L
      PROVE  \E p \in listed : /\ ~q.isFile /\ Level(q) < Level(p)
                               /\ StartsWith(p, q, Level(q))
  <2>1. PICK p \in listed : \E n \in Level(root)..(Level(p) - 1) : q = Ancestor(p, n)
    BY <1>3, InTree
  <2>2. PICK n \in Level(root)..(Level(p) - 1) : q = Ancestor(p, n)
    BY <2>1
  <2> QED
    BY <2>2, AncestorFacts
\* What is not listed is a directory, and a path with its entries is too.
<1>4. ASSUME NEW q \in U, q \notin L, NEW r \in U, q.entries = r.entries
      PROVE  q = r
  <2>1. ~q.isFile
    BY <1>3, <1>4
  <2>2. ~r.isFile
    <3>1. SUFFICES ASSUME r.isFile PROVE FALSE
      OBVIOUS
    <3>2. r \in L
      BY <1>2, <3>1
    <3>3. PICK p \in listed : Level(q) < Level(p) /\ StartsWith(p, q, Level(q))
      BY <1>3, <1>4
    <3>4. StartsWith(p, r, Level(r)) /\ Level(q) = Level(r)
      BY <1>4, <3>3 DEF StartsWith, Level
    <3>5. r = p
      BY <1>1, <3>1, <3>2, <3>4, FileAlone
    <3> QED
      BY <1>2, <3>3, <3>4, <3>5
  <2>3. q \in AllPaths /\ r \in AllPaths /\ q.isFile = r.isFile
    BY <1>2, <2>1, <2>2
  <2> QED
    BY <1>4, <2>3, PathFacts
<1>5. ASSUME NEW q \in U, NEW r \in U, q.entries = r.entries
      PROVE  q = r
  <2>1. CASE q \in L /\ r \in L
    BY <1>1, <1>5, <2>1 DEF Tidy, Consistent
  <2>2. CASE q \notin L
    BY <1>4, <1>5, <2>2
  <2>3. CASE r \notin L
    <3>1. r = q
      BY <1>4, <1>5, <2>3
    <3> QED
      BY <3>1
  <2> QED
    BY <2>1, <2>2, <2>3
<1>6. ASSUME NEW q \in U, NEW r \in U, q.isFile, StartsWith(r, q, Level(q))
      PROVE  q = r
  <2>1. q \in L
    BY <1>2, <1>6
  <2>2. CASE r \in L
    BY <1>1, <1>6, <2>1, <2>2, FileAlone
  <2>3. CASE r \notin L
    <3>1. PICK p \in listed : Level(r) < Level(p) /\ StartsWith(p, r, Level(r))
      BY <1>3, <2>3
    <3>2. Level(q) <= Level(r) /\ Level(q) \in Nat /\ Level(r) \in Nat /\ Level(p) \in Nat
      BY <1>2, <1>6, GivenFacts DEF StartsWith
    <3>3. StartsWith(p, q, Level(q))
      BY <1>6, <3>1, <3>2 DEF StartsWith
    <3>4. q = p
      BY <1>1, <1>6, <2>1, <3>3, FileAlone
    <3> QED
      BY <3>1, <3>2, <3>4
  <2> QED
    BY <2>2, <2>3
<1>7. Consistent(U)
  <2>1. \A p, q \in U : p.entries = q.entries => p = q
    BY <1>5
  <2>2. \A p, q \in U : p.isFile /\ StartsWith(q, p, Level(p)) => p = q
    BY <1>6
  <2> HIDE DEF U
  <2> QED
    BY <2>1, <2>2 DEF Consistent
<1>8. U \subseteq AllPaths
  BY <1>2
<1>9. Tree \subseteq U
  OBVIOUS
<1>12. ASSUME NEW u \in U
       PROVE  \E p \in L : /\ StartsWith(p, u, Level(u))
                            /\ \A n \in 1..Level(u) : IsDirectoryAt(p, n) = IsDirectoryAt(u, n)
  <2>1. CASE u \in L
    <3>1. StartsWith(u, u, Level(u))
      BY <1>2 DEF StartsWith
    <3> QED
      BY <2>1, <3>1
  <2>2. CASE u \notin L
    <3>1. PICK p \in listed : /\ ~u.isFile /\ Level(u) < Level(p)
                              /\ StartsWith(p, u, Level(u))
      BY <1>3, <2>2
    <3>2. Level(p) \in Nat /\ Level(u) \in Nat
      BY <1>2, GivenFacts
    <3>3. \A n \in 1..Level(u) : IsDirectoryAt(p, n) = TRUE /\ IsDirectoryAt(u, n) = TRUE
      BY <3>1, <3>2 DEF IsDirectoryAt
    <3> QED
      BY <3>1, <3>3
  <2> QED
    BY <2>1, <2>2
<1>13. ToldApart(U)
  <2>1. SUFFICES ASSUME NEW u \in U, NEW v \in U, NEW n \in 1..Level(u),
                        n <= Level(v), StartsWith(u, v, n - 1),
                        IsDirectoryAt(u, n) = IsDirectoryAt(v, n),
                        Rank[u.entries[n]] = Rank[v.entries[n]]
                 PROVE  u.entries[n] = v.entries[n]
    <3> HIDE DEF U
    <3> QED
      BY DEF ToldApart
  <2>2. PICK p \in L : /\ StartsWith(p, u, Level(u))
                       /\ \A m \in 1..Level(u) : IsDirectoryAt(p, m) = IsDirectoryAt(u, m)
    BY <1>12
  <2>3. PICK q \in L : /\ StartsWith(q, v, Level(v))
                       /\ \A m \in 1..Level(v) : IsDirectoryAt(q, m) = IsDirectoryAt(v, m)
    BY <1>12
  <2>4. /\ Level(u) \in Nat /\ Level(v) \in Nat /\ Level(p) \in Nat /\ Level(q) \in Nat
        /\ Level(u) <= Level(p) /\ Level(v) <= Level(q)
    BY <1>1, <1>2, <2>2, <2>3, PathFacts DEF Tidy, StartsWith
  <2>5. n \in 1..Level(v) /\ n \in 1..Level(p) /\ n <= Level(q)
    BY <2>1, <2>4
  <2>6. p.entries[n] = u.entries[n] /\ q.entries[n] = v.entries[n]
    BY <2>2, <2>3, <2>5 DEF StartsWith
  <2>7. StartsWith(p, q, n - 1)
    BY <2>1, <2>2, <2>3, <2>4, <2>5 DEF StartsWith
  <2>8. IsDirectoryAt(p, n) = IsDirectoryAt(q, n)
    BY <2>1, <2>2, <2>3, <2>5
  <2>9. p.entries[n] = q.entries[n]
    <3>1. Rank[p.entries[n]] = Rank[q.entries[n]]
      BY <2>1, <2>6
    <3>2. ToldApart(L)
      BY <1>1 DEF Tidy
    <3> HIDE DEF L
    <3> QED
      BY <2>5, <2>7, <2>8, <3>1, <3>2 DEF ToldApart
  <2> QED
    BY <2>6, <2>9
<1> HIDE DEF U
<1>10. Tidy(U)
  BY <1>7, <1>8, <1>13 DEF Tidy
<1>11. Tidy(Tree)
  BY <1>9, <1>10 DEF Tidy, Consistent, ToldApart
<1> QED
  BY <1>10, <1>11 DEF U

-----------------------------------------------------------------------------
(* Lists in order.                                                         *)

Ordered(s) == \A i, j \in 1..Len(s) : i < j => Comes(s[i], s[j])

LEMMA RangeIs ==
    ASSUME NEW S, NEW s \in Seq(S)
    PROVE  /\ Len(s) \in Nat /\ Range(s) \subseteq S
           /\ \A x : x \in Range(s) <=> \E i \in 1..Len(s) : x = s[i]
           /\ \A i \in 1..Len(s) : s[i] \in S /\ s[i] \in Range(s)
           /\ s = <<>> <=> Len(s) = 0
BY DEF Range

LEMMA SortsIs ==
    ASSUME NEW S, IsFiniteSet(S), NEW list \in Sorts(S)
    PROVE  list \in Seq(S) /\ Range(list) = S /\ IsSorted(list, NotAfter)
           /\ \A i, j \in 1..Len(list) : i # j => list[i] # list[j]
<1> DEFINE n == Cardinality(S)
<1>1. n \in Nat
  BY FS_CardinalityType
<1>2. /\ list \in [1..n -> S] /\ \A i, j \in 1..n : i # j => list[i] # list[j]
      /\ IsSorted(list, NotAfter)
  BY DEF Sorts, SetToSeqs
<1>3. list \in Injection(1..n, S)
  BY <1>2 DEF Injection, IsInjective
<1>4. n = Cardinality(1..n)
  <2>1. 1 \in Int /\ n \in Int /\ n >= 0
    BY <1>1
  <2> HIDE DEF n
  <2>2. Cardinality(1..n) = IF 1 > n THEN 0 ELSE n - 1 + 1
    BY <2>1, FS_Interval
  <2> QED
    BY <2>1, <2>2
<1>5. list \in Surjection(1..n, S)
  <2>1. Cardinality(1..n) = Cardinality(S)
    BY <1>4
  <2> HIDE DEF n
  <2> QED
    BY <1>3, <2>1, FS_Injection
<1>6. \A x \in S : \E i \in 1..n : list[i] = x
  BY <1>5 DEF Surjection
<1> HIDE DEF n
<1>7. list \in Seq(S) /\ Len(list) = n
  BY <1>1, <1>2
<1>8. Range(list) = S
  BY <1>2, <1>6 DEF Range
<1> QED
  BY <1>2, <1>7, <1>8

LEMMA SortedIsInOrder ==
    ASSUME NEW U, Tidy(U), NEW s \in Seq(U)
    PROVE  /\ IsSorted(s, Less) <=> Ordered(s)
           /\ IsSorted(s, NotAfter) /\ (\A i, j \in 1..Len(s) : i # j => s[i] # s[j])
                 => Ordered(s)
<1>1. \A i \in 1..Len(s) : s[i] \in U
  BY RangeIs
<1>2. IsSorted(s, Less) <=> \A i, j \in 1..Len(s) : i < j => Less(s[i], s[j])
  BY DEF IsSorted
<1>3. IsSorted(s, NotAfter) <=> \A i, j \in 1..Len(s) : i < j => ~Less(s[j], s[i])
  BY DEF IsSorted, NotAfter
<1>4. \A p, q \in U : Less(p, q) <=> Comes(p, q)
  BY LessIsComes
<1>5. IsSorted(s, Less) <=> Ordered(s)
  BY <1>1, <1>2, <1>4 DEF Ordered
<1>6. ASSUME IsSorted(s, NotAfter), \A i, j \in 1..Len(s) : i # j => s[i] # s[j]
      PROVE  Ordered(s)
  <2>1. SUFFICES ASSUME NEW i \in 1..Len(s), NEW j \in 1..Len(s), i < j
                 PROVE  Comes(s[i], s[j])
    BY DEF Ordered
  <2>2. s[i] \in U /\ s[j] \in U /\ s[i] # s[j] /\ ~Less(s[j], s[i])
    BY <1>1, <1>3, <1>6, <2>1
  <2> QED
    BY <1>4, <2>2, ComesTotal
<1> QED
  BY <1>5, <1>6

\* In a list in order, a path that comes earlier stands earlier.
LEMMA PlacesInOrder ==
    ASSUME NEW U, Tidy(U), NEW s \in Seq(U), Ordered(s),
           NEW i \in 1..Len(s), NEW j \in 1..Len(s)
    PROVE  /\ s[i] \in U /\ s[j] \in U
           /\ Comes(s[i], s[j]) <=> i < j
           /\ s[i] = s[j] <=> i = j
<1>1. s[i] \in U /\ s[j] \in U /\ i \in Nat /\ j \in Nat
  BY RangeIs
<1>2. i < j => Comes(s[i], s[j])
  BY DEF Ordered
<1>3. j < i => Comes(s[j], s[i])
  BY DEF Ordered
<1>4. /\ Comes(s[i], s[j]) => ~Comes(s[j], s[i]) /\ s[i] # s[j]
      /\ Comes(s[j], s[i]) => ~Comes(s[i], s[j]) /\ s[i] # s[j]
  BY <1>1, ComesOneWay
<1> QED
  BY <1>1, <1>2, <1>3, <1>4

\* Appending what comes after everything.
LEMMA AppendInOrder ==
    ASSUME NEW U, NEW s \in Seq(U), Ordered(s), NEW p \in U, \A x \in Range(s) : Comes(x, p)
    PROVE  /\ Append(s, p) \in Seq(U) /\ Ordered(Append(s, p))
           /\ Range(Append(s, p)) = Range(s) \union {p}
           /\ Len(Append(s, p)) = Len(s) + 1
<1> DEFINE t == Append(s, p)
<1>1. /\ t \in Seq(U) /\ Len(t) = Len(s) + 1 /\ Len(s) \in Nat
      /\ \A i \in 1..Len(s) : t[i] = s[i]
      /\ t[Len(s) + 1] = p
  OBVIOUS
<1> HIDE DEF t
<1>2. Ordered(t)
  <2>1. SUFFICES ASSUME NEW i \in 1..Len(t), NEW j \in 1..Len(t), i < j
                 PROVE  Comes(t[i], t[j])
    BY DEF Ordered
  <2>2. i \in 1..Len(s) /\ t[i] = s[i] /\ s[i] \in Range(s)
    BY <1>1, <2>1, RangeIs
  <2>3. CASE j \in 1..Len(s)
    BY <1>1, <2>1, <2>2, <2>3 DEF Ordered
  <2>4. CASE j = Len(s) + 1
    BY <1>1, <2>2, <2>4
  <2> QED
    BY <1>1, <2>1, <2>3, <2>4
<1>3. \A x : x \in Range(t) <=> \E i \in 1..Len(s) + 1 : x = t[i]
  BY <1>1, RangeIs
<1>4. \A x : x \in Range(s) <=> \E i \in 1..Len(s) : x = s[i]
  BY RangeIs
<1>5. Range(t) = Range(s) \union {p}
  BY <1>1, <1>3, <1>4
<1> QED
  BY <1>1, <1>2, <1>5 DEF t

\* Enter's search finds a path of a list in order at its place.
LEMMA FindsInOrder ==
    ASSUME NEW U, Tidy(U), NEW s \in Seq(U), Ordered(s), NEW i \in 1..Len(s)
    PROVE  FindEntryInList(s, s[i]) = i
<1> DEFINE p == s[i]
           S == Matching(s, p, Level(p))
<1>1. p \in U /\ Level(p) \in Nat /\ p.isFile \in BOOLEAN
  BY RangeIs, TidyFacts
<1>2. FindEntryInList(s, p) = FirstIndex(S)
  BY <1>1 DEF FindEntryInList, DirLevel
<1>3. i \in S
  BY <1>1 DEF Matching, StartsWith
<1>4. ASSUME NEW j \in S PROVE i <= j
  <2>1. j \in 1..Len(s) /\ s[j] \in U /\ StartsWith(s[j], p, Level(p)) /\ Level(s[j]) \in Nat
    BY RangeIs, TidyFacts DEF Matching
  <2>2. CASE Level(p) < Level(s[j])
    <3>1. Comes(p, s[j])
      BY <1>1, <2>1, <2>2, AboveComes
    <3>2. i < j
      BY <2>1, <3>1, PlacesInOrder
    <3> QED
      BY <2>1, <3>2
  <2>3. CASE ~(Level(p) < Level(s[j]))
    <3>1. Level(s[j]) = Level(p)
      BY <1>1, <2>1, <2>3 DEF StartsWith
    <3>2. p \in AllPaths /\ s[j] \in AllPaths
      BY <1>1, <2>1 DEF Tidy
    <3>3. s[j].entries = p.entries
      BY <2>1, <3>1, <3>2, SamePaths
    <3>4. s[j] = p
      BY <1>1, <2>1, <3>3 DEF Tidy, Consistent
    <3> QED
      BY <2>1, <3>4, PlacesInOrder
  <2> QED
    BY <2>2, <2>3
<1>5. S \subseteq Nat
  BY RangeIs DEF Matching
<1> HIDE DEF S
<1>6. FirstIndex(S) = i
  <2> DEFINE Least(k) == \A j \in S : k <= j
  <2>1. FirstIndex(S) = CHOOSE k \in S : Least(k)
    BY <1>3 DEF FirstIndex
  <2>2. i \in S /\ Least(i)
    BY <1>3, <1>4
  <2>3. ASSUME NEW k \in S, Least(k) PROVE k = i
    BY <1>3, <1>4, <1>5, <2>3
  <2> HIDE DEF Least
  <2> QED
    BY <2>1, <2>2, <2>3
<1> QED
  BY <1>2, <1>6

-----------------------------------------------------------------------------
(* Missing directories.                                                    *)

LEMMA CommonIs ==
    ASSUME NEW p \in AllPaths, NEW q \in AllPaths
    PROVE  /\ CommonLevel(p, q) \in Nat
           /\ StartsWith(p, q, CommonLevel(p, q))
           /\ \A n \in Nat : StartsWith(p, q, n) => n <= CommonLevel(p, q)
<1> DEFINE S == {n \in 1..Level(p) : StartsWith(p, q, n)}
<1>1. Level(p) \in Nat /\ Level(q) \in Nat
  BY PathFacts
<1>2. \A n \in S : \A m \in 1..n : m \in S
  BY <1>1 DEF StartsWith
<1>3. CommonLevel(p, q) = Cardinality(S)
  BY DEF CommonLevel
<1>4. StartsWith(p, q, 0)
  BY <1>1 DEF StartsWith
<1>5. \A n \in Nat : n # 0 => (n \in S <=> StartsWith(p, q, n))
  BY <1>1 DEF StartsWith
<1>6. S \subseteq 0..Level(p)
  BY <1>1
<1> HIDE DEF S
<1>7. CASE S = {}
  <2>1. Cardinality(S) = 0
    BY <1>7, FS_EmptySet
  <2> QED
    BY <1>3, <1>4, <1>5, <1>7, <2>1
<1>8. CASE S # {}
  <2>1. PICK c \in S : \A n \in S : n <= c
    BY <1>1, <1>6, <1>8, GreatestExists
  <2>2. c \in Nat /\ c # 0
    <3>1. 0 \notin S
      BY DEF S
    <3> QED
      BY <1>1, <1>6, <3>1
  <2>3. S = 1..c
    <3>1. S \subseteq 1..c
      BY <1>1, <1>6, <2>1, <2>2 DEF S
    <3> QED
      BY <1>2, <2>1, <3>1
  <2>4. Cardinality(1..c) = c
    <3>1. Cardinality(1..c) = IF 1 > c THEN 0 ELSE c - 1 + 1
      BY <2>2, FS_Interval
    <3> QED
      BY <2>2, <3>1
  <2>5. CommonLevel(p, q) = c
    BY <1>3, <2>3, <2>4
  <2> QED
    BY <1>5, <2>1, <2>2, <2>5
<1> QED
  BY <1>7, <1>8

LEMMA CopyDirectoryIs ==
    ASSUME NEW p \in AllPaths
    PROVE  CopyDirectory(p) \in AllPaths /\ CopyDirectory(p).entries = p.entries
<1> DEFINE s == p.entries
<1>1. s \in Seq(EntryNames) /\ Level(p) = Len(s) /\ Level(p) \in Nat /\ p.isFile \in BOOLEAN
  BY PathFacts
<1>2. CASE ~p.isFile
  BY <1>1, <1>2 DEF CopyDirectory, CopyPath, DirLevel
<1>3. CASE p.isFile
  <2>1. CopyDirectory(p) = [entries |-> SubSeq(s, 1, Level(p) - 1 + 1), isFile |-> FALSE]
    BY <1>1, <1>3 DEF CopyDirectory, CopyPath, DirLevel
  <2>2. SubSeq(s, 1, Len(s) - 1 + 1) = s
    <3>1. s \in Seq(EntryNames) /\ Len(s) \in Nat /\ Len(s) - 1 + 1 = Len(s)
      BY <1>1
    <3> HIDE DEF s
    <3>2. SubSeq(s, 1, Len(s)) = s
      BY <3>1
    <3> QED
      BY <3>1, <3>2
  <2>3. CopyDirectory(p) = [entries |-> s, isFile |-> FALSE]
    BY <1>1, <2>1, <2>2
  <2> QED
    BY <1>1, <2>3 DEF AllPaths, Path
<1> QED
  BY <1>1, <1>2, <1>3

\* The levels of dir between the common path and dir itself.
LEMMA MissingIs ==
    ASSUME NEW prev \in AllPaths, NEW dir \in AllPaths, NEW c, c = CommonLevel(prev, dir)
    PROVE  /\ Missing(prev, dir) \in Seq(AllPaths)
           /\ c \in Nat /\ c <= Level(dir)
           /\ \A i \in 1..Len(Missing(prev, dir)) :
                 /\ Missing(prev, dir)[i] = Ancestor(dir, c + i)
                 /\ c + i \in (c + 1)..(Level(dir) - 1)
           /\ \A n \in (c + 1)..(Level(dir) - 1) : n - c \in 1..Len(Missing(prev, dir))
<1>1. c \in Nat /\ Level(dir) \in Nat /\ c <= Level(dir)
  BY CommonIs, PathFacts DEF StartsWith
<1> DEFINE m == Level(dir) - 1 - c
           N == 1..m
           M == Missing(prev, dir)
<1>2. m \in Int /\ m >= 0 - 1
  BY <1>1
<1>3. M = [n \in N |-> CopyPath(dir, c + n - 1)]
  BY DEF Missing
<1>4. ASSUME NEW n \in N PROVE CopyPath(dir, c + n - 1) = Ancestor(dir, c + n)
  <2>1. c + n - 1 < Level(dir) /\ (c + n - 1) + 1 = c + n
    BY <1>1
  <2>2. ~(c + n - 1 >= Level(dir))
    BY <1>1, <2>1
  <2>3. CopyPath(dir, c + n - 1) = [entries |-> SubSeq(dir.entries, 1, (c + n - 1) + 1), isFile |-> FALSE]
    BY <2>2 DEF CopyPath
  <2> QED
    BY <2>1, <2>3 DEF Ancestor, Dir
<1>5. ASSUME NEW n \in N PROVE Ancestor(dir, c + n) \in AllPaths
  <2>1. c + n \in Nat /\ c + n <= Level(dir)
    BY <1>1
  <2> QED
    BY <2>1, AncestorIs
<1>6. M \in [N -> AllPaths] /\ \A n \in N : M[n] = Ancestor(dir, c + n)
  BY <1>3, <1>4, <1>5
<1>7. PICK k \in Nat : N = 1..k
  <2>1. CASE m >= 0
    BY <1>2, <2>1
  <2>2. CASE m = 0 - 1
    <3>1. N = 1..0
      BY <2>2
    <3> QED
      BY <3>1
  <2> QED
    BY <1>2, <2>1, <2>2
<1>8. N = {i \in Int : 1 <= i /\ i <= m}
  BY <1>2
<1> HIDE DEF M, N
<1>9. M \in Seq(AllPaths) /\ 1..Len(M) = N
  BY <1>6, <1>7
<1>10. ASSUME NEW i \in N PROVE c + i \in (c + 1)..(Level(dir) - 1)
  BY <1>1, <1>8
<1>11. ASSUME NEW n \in (c + 1)..(Level(dir) - 1) PROVE n - c \in N
  BY <1>1, <1>8
<1> QED
  BY <1>1, <1>6, <1>9, <1>10, <1>11 DEF M

\* dir is only passed over where nothing is missing.
LEMMA ConnectedMissesNothing ==
    ASSUME NEW prev \in AllPaths, NEW dir \in AllPaths, NEW p, Connected(prev, dir, p)
    PROVE  Missing(prev, dir) = <<>>
<1> DEFINE c == CommonLevel(prev, dir)
           M == Missing(prev, dir)
<1>1. Level(prev) \in Nat /\ Level(dir) \in Nat /\ c \in Nat
      /\ \A n \in Nat : StartsWith(prev, dir, n) => n <= c
  BY CommonIs, PathFacts
<1>2. Level(dir) - 1 <= c
  <2>1. CASE SamePath(prev, dir)
    <3>1. StartsWith(prev, dir, Level(dir))
      BY <1>1, <2>1 DEF SamePath, StartsWith, Level
    <3> QED
      BY <1>1, <3>1
  <2>2. CASE Level(dir) < Level(prev) /\ StartsWith(prev, dir, Level(dir))
    BY <1>1, <2>2
  <2>3. CASE Level(dir) = Level(prev) + 1 /\ StartsWith(dir, prev, Level(prev))
    BY <1>1, <2>3, StartsBack
  <2> QED
    BY <2>1, <2>2, <2>3 DEF Connected
<1>3. M \in Seq(AllPaths) /\ \A i \in 1..Len(M) : c + i \in (c + 1)..(Level(dir) - 1)
  BY MissingIs
<1> HIDE DEF c, M
<1>4. ~(1 \in 1..Len(M))
  BY <1>1, <1>2, <1>3
<1>5. M = <<>>
  BY <1>3, <1>4
<1> QED
  BY <1>5 DEF M

\* One list before another.
LEMMA ConcatOrdered ==
    ASSUME NEW U, NEW s \in Seq(U), NEW t \in Seq(U), Ordered(s), Ordered(t),
           \A x \in Range(s), y \in Range(t) : Comes(x, y)
    PROVE  s \o t \in Seq(U) /\ Ordered(s \o t) /\ Range(s \o t) = Range(s) \union Range(t)
<1> DEFINE u == s \o t
<1>1. /\ u \in Seq(U) /\ Len(u) = Len(s) + Len(t) /\ Len(s) \in Nat /\ Len(t) \in Nat
      /\ \A i \in 1..Len(u) : u[i] = IF i <= Len(s) THEN s[i] ELSE t[i - Len(s)]
  OBVIOUS
<1> HIDE DEF u
<1>2. ASSUME NEW i \in 1..Len(u)
      PROVE  \/ i \in 1..Len(s) /\ u[i] = s[i] /\ s[i] \in Range(s)
             \/ i - Len(s) \in 1..Len(t) /\ u[i] = t[i - Len(s)] /\ t[i - Len(s)] \in Range(t)
  <2>1. CASE i <= Len(s)
    BY <1>1, <2>1, RangeIs
  <2>2. CASE ~(i <= Len(s))
    <3>1. i - Len(s) \in 1..Len(t) /\ u[i] = t[i - Len(s)]
      BY <1>1, <2>2
    <3> QED
      BY <3>1, RangeIs
  <2> QED
    BY <2>1, <2>2
<1>3. Ordered(u)
  <2>1. SUFFICES ASSUME NEW i \in 1..Len(u), NEW j \in 1..Len(u), i < j
                 PROVE  Comes(u[i], u[j])
    BY DEF Ordered
  <2>2. CASE i \in 1..Len(s) /\ j \in 1..Len(s)
    BY <1>1, <2>1, <2>2 DEF Ordered
  <2>3. CASE i \in 1..Len(s) /\ j \notin 1..Len(s)
    BY <1>2, <2>3
  <2>4. CASE i \notin 1..Len(s)
    <3>1. /\ i - Len(s) \in 1..Len(t) /\ u[i] = t[i - Len(s)]
          /\ j - Len(s) \in 1..Len(t) /\ u[j] = t[j - Len(s)]
          /\ i - Len(s) < j - Len(s)
      <4>1. i - Len(s) \in 1..Len(t) /\ u[i] = t[i - Len(s)]
        BY <1>2, <2>4
      <4>2. j \notin 1..Len(s) /\ i - Len(s) < j - Len(s)
        BY <1>1, <2>1, <2>4
      <4> QED
        BY <1>2, <4>1, <4>2
    <3> QED
      BY <3>1 DEF Ordered
  <2> QED
    BY <2>2, <2>3, <2>4
<1>4. Range(u) \subseteq Range(s) \union Range(t)
  BY <1>1, <1>2, RangeIs
<1>5. Range(s) \subseteq Range(u)
  <2>1. \A i \in 1..Len(s) : i \in 1..Len(u) /\ u[i] = s[i]
    BY <1>1
  <2> QED
    BY <1>1, <2>1, RangeIs
<1>6. Range(t) \subseteq Range(u)
  <2>1. ASSUME NEW i \in 1..Len(t) PROVE t[i] \in Range(u)
    <3>1. Len(s) + i \in 1..Len(u) /\ ~(Len(s) + i <= Len(s)) /\ (Len(s) + i) - Len(s) = i
      BY <1>1
    <3>2. u[Len(s) + i] = t[i]
      BY <1>1, <3>1
    <3> QED
      BY <1>1, <3>1, <3>2, RangeIs
  <2> QED
    BY <2>1, RangeIs
<1>7. Range(u) = Range(s) \union Range(t)
  BY <1>4, <1>5, <1>6
<1> QED
  BY <1>1, <1>3, <1>7 DEF u

-----------------------------------------------------------------------------
(* Which directories are missing before the next path of the sorted list.  *)

LEMMA SequenceOver ==
    ASSUME NEW S, NEW T, S \subseteq T, NEW s \in Seq(S) PROVE s \in Seq(T)
<1>1. Len(s) \in Nat /\ s \in [1..Len(s) -> S]
  OBVIOUS
<1>2. s \in [1..Len(s) -> T]
  BY <1>1
<1> QED
  BY <1>1, <1>2

Previous(s, k) == IF k = 0 THEN root ELSE s[k]

IsSortedList(s) == s \in Seq(listed) /\ Range(s) = listed /\ Ordered(s)

LEMMA NextPathFacts ==
    ASSUME Given, NEW s, IsSortedList(s), NEW k \in Nat, k < Len(s),
           NEW prev, prev = Previous(s, k), NEW p, p = s[k + 1],
           NEW c, c = CommonLevel(prev, p)
    PROVE  /\ k + 1 \in 1..Len(s) /\ p \in listed /\ p \in Tree /\ p \in AllPaths
           /\ k # 0 => k \in 1..Len(s) /\ prev = s[k] /\ prev \in listed /\ Comes(prev, p)
           /\ k = 0 => prev = root
           /\ prev \in Tree /\ prev \in AllPaths
           /\ c \in Nat /\ StartsWith(prev, p, c)
           /\ \A n \in Nat : StartsWith(prev, p, n) => n <= c
           /\ Level(root) \in Nat /\ Level(root) <= c
           /\ Level(p) \in Nat /\ Level(prev) \in Nat /\ c <= Level(prev)
<1>1. s \in Seq(listed) /\ Len(s) \in Nat /\ Range(s) = listed
      /\ \A i \in 1..Len(s) : s[i] \in listed
  BY RangeIs DEF IsSortedList
<1>2. k + 1 \in 1..Len(s) /\ p \in listed /\ p \in Tree /\ (k # 0 => k \in 1..Len(s))
  BY <1>1, TreeIs
<1>3. k # 0 => prev = s[k] /\ prev \in listed /\ prev \in Tree /\ Comes(prev, p)
  <2>1. SUFFICES ASSUME k # 0 PROVE prev = s[k] /\ prev \in listed /\ prev \in Tree /\ Comes(prev, p)
    OBVIOUS
  <2>2. k \in 1..Len(s) /\ k < k + 1 /\ prev = s[k]
    BY <1>2, <2>1 DEF Previous
  <2>3. Comes(s[k], s[k + 1])
    BY <1>2, <2>2 DEF IsSortedList, Ordered
  <2> QED
    BY <1>1, <2>2, <2>3, TreeIs
<1>4. k = 0 => prev = root /\ prev \in Tree
  BY <1>2, RootInTree DEF Previous
<1>5. p \in AllPaths /\ prev \in AllPaths /\ Level(p) \in Nat /\ Level(prev) \in Nat
      /\ StartsWith(p, root, Level(root)) /\ StartsWith(prev, root, Level(root))
  BY <1>2, <1>3, <1>4, TreePathFacts
<1>6. /\ c \in Nat /\ StartsWith(prev, p, c)
      /\ \A n \in Nat : StartsWith(prev, p, n) => n <= c
  BY <1>5, CommonIs
<1>7. Level(root) \in Nat /\ root \in AllPaths
  BY GivenFacts
<1>8. StartsWith(prev, p, Level(root))
  BY <1>5, <1>7, StartsBack, StartsThrough
<1>9. c <= Level(prev)
  BY <1>6 DEF StartsWith
<1> QED
  BY <1>2, <1>3, <1>4, <1>5, <1>6, <1>7, <1>8, <1>9

\* Below the common path none is listed, and they stand between the two paths.
LEMMA NewDirectories ==
    ASSUME Given, NEW s, IsSortedList(s), NEW k \in Nat, k < Len(s),
           NEW prev, prev = Previous(s, k), NEW p, p = s[k + 1],
           NEW c, c = CommonLevel(prev, p),
           NEW n \in (c + 1)..(Level(p) - 1), NEW a, a = Ancestor(p, n)
    PROVE  /\ a \in Tree \ listed /\ a \in Above(p)
           /\ Level(a) = n /\ StartsWith(p, a, n)
           /\ Comes(a, p) /\ Comes(prev, a)
<1>1. /\ k + 1 \in 1..Len(s) /\ p \in listed /\ p \in Tree /\ p \in AllPaths
      /\ k # 0 => k \in 1..Len(s) /\ prev = s[k] /\ prev \in listed /\ Comes(prev, p)
      /\ k = 0 => prev = root
      /\ prev \in Tree /\ prev \in AllPaths
      /\ c \in Nat /\ StartsWith(prev, p, c)
      /\ \A m \in Nat : StartsWith(prev, p, m) => m <= c
      /\ Level(root) \in Nat /\ Level(root) <= c
      /\ Level(p) \in Nat /\ Level(prev) \in Nat /\ c <= Level(prev)
  BY NextPathFacts
<1>2. n \in Nat /\ c < n /\ n < Level(p) /\ n \in Level(root)..(Level(p) - 1) /\ ~(n <= c)
  BY <1>1
<1>3. /\ a \in Tree /\ a \in AllPaths /\ ~a.isFile /\ Level(a) = n /\ StartsWith(p, a, n)
      /\ a \in Above(p)
  BY <1>1, <1>2, AncestorFacts DEF Above
<1>4. Tidy(Tree)
  BY TreeIsTidy
<1>5. Comes(a, p)
  BY <1>1, <1>2, <1>3, <1>4, AboveComes
<1>6. ~StartsWith(prev, a, n)
  <2>1. SUFFICES ASSUME StartsWith(prev, a, n) PROVE FALSE
    OBVIOUS
  <2>2. StartsWith(prev, p, n)
    BY <1>1, <1>2, <1>3, <2>1, StartsBack, StartsThrough
  <2> QED
    BY <1>1, <1>2, <2>2
<1>7. prev # a
  BY <1>1, <1>3, <1>6 DEF StartsWith
<1>8. Comes(prev, a)
  <2>1. CASE k = 0
    <3>1. StartsWith(a, prev, Level(prev)) /\ Level(prev) < Level(a)
      BY <1>1, <1>2, <1>3, <2>1, TreePathFacts
    <3> QED
      BY <1>1, <1>3, <1>4, <3>1, AboveComes
  <2>2. CASE k # 0
    <3>1. ~Comes(a, prev)
      <4>1. SUFFICES ASSUME Comes(a, prev) PROVE FALSE
        OBVIOUS
      <4>2. Comes(prev, p) /\ StartsWith(p, a, Level(a)) /\ Level(a) < Level(p)
        BY <1>1, <1>2, <1>3, <2>2
      <4>3. StartsWith(prev, a, Level(a))
        BY <1>1, <1>3, <1>4, <4>1, <4>2, BetweenIsBelow
      <4> QED
        BY <1>3, <1>6, <4>3
    <3> QED
      BY <1>1, <1>3, <1>4, <1>7, <3>1, ComesTotal
  <2> QED
    BY <2>1, <2>2
<1>9. a \notin listed
  <2>1. SUFFICES ASSUME a \in listed PROVE FALSE
    OBVIOUS
  <2>2. s \in Seq(Tree) /\ Ordered(s) /\ Len(s) \in Nat /\ \E j \in 1..Len(s) : a = s[j]
    <3>1. s \in Seq(listed) /\ Range(s) = listed /\ Ordered(s)
      BY DEF IsSortedList
    <3>2. listed \subseteq Tree
      BY TreeIs
    <3>3. s \in Seq(Tree)
      BY <3>1, <3>2, SequenceOver
    <3>4. Len(s) \in Nat
      BY <3>3
    <3>5. a \in Range(s) /\ \A x : x \in Range(s) <=> \E j \in 1..Len(s) : x = s[j]
      BY <2>1, <3>1, RangeIs
    <3> QED
      BY <3>1, <3>3, <3>4, <3>5
  <2>3. PICK j \in 1..Len(s) : a = s[j]
    BY <2>2
  <2>4. j < k + 1
    BY <1>1, <1>4, <1>5, <2>2, <2>3, PlacesInOrder
  <2>5. k # 0 /\ k \in 1..Len(s) /\ prev = s[k]
    BY <1>1, <2>2, <2>4
  <2>6. k < j
    BY <1>4, <1>8, <2>2, <2>3, <2>5, PlacesInOrder
  <2> QED
    BY <2>2, <2>4, <2>6
<1> QED
  BY <1>3, <1>5, <1>8, <1>9

\* Down to the common path they are there already.
LEMMA OldDirectories ==
    ASSUME Given, NEW s, IsSortedList(s), NEW k \in Nat, k < Len(s),
           NEW prev, prev = Previous(s, k), NEW p, p = s[k + 1],
           NEW c, c = CommonLevel(prev, p),
           NEW n \in Level(root)..(Level(p) - 1), n <= c, NEW a, a = Ancestor(p, n)
    PROVE  a = prev \/ (k # 0 /\ a \in Above(prev))
<1>1. /\ p \in listed /\ p \in Tree /\ p \in AllPaths
      /\ k = 0 => prev = root
      /\ prev \in Tree /\ prev \in AllPaths
      /\ c \in Nat /\ StartsWith(prev, p, c)
      /\ Level(root) \in Nat /\ Level(root) <= c
      /\ Level(p) \in Nat /\ Level(prev) \in Nat /\ c <= Level(prev)
  BY NextPathFacts
<1>3. n \in Nat /\ n <= c /\ n < Level(p)
  BY <1>1
<1>4. /\ a \in Tree /\ a \in AllPaths /\ ~a.isFile /\ Level(a) = n /\ StartsWith(p, a, n)
  BY <1>1, AncestorFacts
<1>5. StartsWith(prev, a, n)
  BY <1>1, <1>3, <1>4 DEF StartsWith
<1>6. CASE n = Level(prev)
  <2>1. prev.entries = a.entries
    BY <1>1, <1>4, <1>5, <1>6, SamePaths
  <2>2. prev = a
    BY <1>1, <1>4, <2>1, TreeIsTidy DEF Tidy, Consistent
  <2> QED
    BY <2>2
<1>7. CASE n # Level(prev)
  <2>1. n \in Level(root)..(Level(prev) - 1) /\ n < Level(prev)
    BY <1>1, <1>3, <1>7
  <2>2. a = Ancestor(prev, n)
    BY <1>1, <1>4, <1>5, AncestorOnly
  <2>3. a \in Above(prev)
    BY <2>1, <2>2 DEF Above
  <2>4. k # 0
    BY <1>1, <1>3, <2>1
  <2> QED
    BY <2>3, <2>4
<1> QED
  BY <1>6, <1>7

Passed(s, k) == {root} \union UNION {Above(s[j]) : j \in 1..k}

(***************************************************************************)
(* What the loop has found after k paths of the sorted list s: of the root *)
(* and the directories above these paths exactly those that are not        *)
(* listed, in order, and all of them before the path looked at last.       *)
(***************************************************************************)
MissingSoFar(s, ex, k) ==
    /\ ex \in Seq(Tree) /\ Ordered(ex)
    /\ Range(ex) = Passed(s, k) \ listed
    /\ k # 0 => \A e \in Range(ex) : Comes(e, s[k])

LEMMA PassedNext ==
    ASSUME NEW s, NEW k \in Nat
    PROVE  Passed(s, k + 1) = Passed(s, k) \union Above(s[k + 1])
<1>1. \A j : j \in 1..(k + 1) <=> j \in 1..k \/ j = k + 1
  OBVIOUS
<1> QED
  BY <1>1 DEF Passed

\* Two paths of which the one is not listed and the other starts with it.
LEMMA RootComes ==
    ASSUME Given, NEW p \in Tree, root \in Tree, p # root
    PROVE  Comes(root, p)
<1>1. /\ p \in AllPaths /\ StartsWith(p, root, Level(root))
      /\ Level(p) \in Nat /\ Level(root) <= Level(p)
  BY TreePathFacts
<1>2. root \in AllPaths /\ Level(root) \in Nat /\ Tidy(Tree)
  BY GivenFacts, TreeIsTidy
<1>3. Level(root) # Level(p)
  <2>1. SUFFICES ASSUME Level(root) = Level(p) PROVE FALSE
    OBVIOUS
  <2>2. p.entries = root.entries
    BY <1>1, <1>2, <2>1, SamePaths
  <2>3. p = root
    BY <1>2, <2>2 DEF Tidy, Consistent
  <2> QED
    BY <2>3
<1> QED
  BY <1>1, <1>2, <1>3, AboveComes

LEMMA SingleOrdered ==
    ASSUME NEW U, NEW p \in U
    PROVE  /\ <<p>> \in Seq(U) /\ Ordered(<<p>>) /\ Range(<<p>>) = {p}
           /\ <<>> \in Seq(U) /\ Ordered(<<>>) /\ Range(<<>>) = {}
<1>1. /\ <<p>> \in Seq(U) /\ Ordered(<<p>>) /\ Range(<<p>>) = {p}
  BY DEF Ordered, Range
<1>2. <<>> \in Seq(U) /\ Ordered(<<>>) /\ Range(<<>>) = {}
  BY DEF Ordered, Range
<1> QED
  BY <1>1, <1>2

\* The root is missing unless it is the first of the list.
LEMMA RootMissing ==
    ASSUME Given, NEW s, IsSortedList(s), s # <<>>,
           NEW ex, ex = IF s # <<>> /\ ~SamePath(s[1], root) THEN <<root>> ELSE <<>>
    PROVE  MissingSoFar(s, ex, 0)
<1>1. /\ s \in Seq(listed) /\ Len(s) \in Nat /\ Range(s) = listed /\ 1 \in 1..Len(s)
      /\ s[1] \in listed /\ Ordered(s)
      /\ \A x : x \in Range(s) <=> \E i \in 1..Len(s) : x = s[i]
  BY RangeIs DEF IsSortedList
<1>2. root \in Tree /\ s[1] \in Tree /\ Tidy(Tree)
  BY <1>1, TreeIs, RootInTree, TreeIsTidy
<1>3. CASE SamePath(s[1], root)
  <2>1. s[1] = root
    BY <1>2, <1>3 DEF SamePath, Tidy, Consistent
  <2>2. Passed(s, 0) \ listed = {}
    BY <1>1, <2>1 DEF Passed
  <2> QED
    BY <1>2, <1>3, <2>2, SingleOrdered DEF MissingSoFar
<1>4. CASE ~SamePath(s[1], root)
  <2>1. s[1] # root
    BY <1>4 DEF SamePath
  <2>2. Comes(root, s[1])
    BY <1>2, <2>1, RootComes
  <2>3. root \notin listed
    <3>1. SUFFICES ASSUME root \in listed PROVE FALSE
      OBVIOUS
    <3>2. PICK i \in 1..Len(s) : root = s[i]
      BY <1>1, <3>1
    <3>3. 1 < i
      BY <1>1, <2>1, <3>2
    <3>4. Comes(s[1], root)
      BY <1>1, <3>2, <3>3 DEF Ordered
    <3> QED
      BY <1>2, <2>2, <3>4, ComesOneWay
  <2>4. Passed(s, 0) \ listed = {root}
    BY <2>3 DEF Passed
  <2> QED
    BY <1>2, <1>4, <2>4, SingleOrdered DEF MissingSoFar
<1> QED
  BY <1>3, <1>4

\* The loop sees the entries of a path and of the one before it.
LEMMA MissingOf ==
    ASSUME Given, NEW s, IsSortedList(s), NEW k \in Nat, k < Len(s),
           NEW prev, prev = Previous(s, k), NEW p, p = s[k + 1],
           NEW prevd \in AllPaths, prevd.entries = prev.entries,
           NEW dir \in AllPaths, dir.entries = p.entries,
           NEW M, M = Missing(prevd, dir), NEW c, c = CommonLevel(prev, p)
    PROVE  /\ M \in Seq(Tree) /\ Ordered(M)
           /\ \A x : x \in Range(M) <=> \E n \in (c + 1)..(Level(p) - 1) : x = Ancestor(p, n)
<1>1. c = CommonLevel(prevd, dir) /\ Level(dir) = Level(p) /\ \A n : Ancestor(dir, n) = Ancestor(p, n)
  BY DEF CommonLevel, StartsWith, Level, Ancestor
<1>2. /\ M \in Seq(AllPaths) /\ c \in Nat
      /\ \A i \in 1..Len(M) : M[i] = Ancestor(p, c + i) /\ c + i \in (c + 1)..(Level(p) - 1)
      /\ \A n \in (c + 1)..(Level(p) - 1) : n - c \in 1..Len(M)
  BY <1>1, MissingIs
<1>3. Level(p) \in Nat /\ p \in AllPaths /\ Tidy(Tree)
  BY NextPathFacts, TreeIsTidy
<1>4. \A x : x \in Range(M) <=> \E i \in 1..Len(M) : x = M[i]
  <2>1. M \in Seq(AllPaths)
    BY <1>2
  <2> QED
    BY <2>1, RangeIs
<1>5. \A x : x \in Range(M) <=> \E n \in (c + 1)..(Level(p) - 1) : x = Ancestor(p, n)
  <2>1. \A n \in (c + 1)..(Level(p) - 1) : n - c \in 1..Len(M) /\ c + (n - c) = n
    BY <1>2, <1>3
  <2>2. \A n \in (c + 1)..(Level(p) - 1) : Ancestor(p, n) = M[n - c]
    BY <1>2, <2>1
  <2>3. ASSUME NEW x \in Range(M) PROVE \E n \in (c + 1)..(Level(p) - 1) : x = Ancestor(p, n)
    <3>1. PICK i \in 1..Len(M) : x = M[i]
      BY <1>4
    <3> QED
      BY <1>2, <3>1
  <2>4. ASSUME NEW n \in (c + 1)..(Level(p) - 1) PROVE Ancestor(p, n) \in Range(M)
    BY <1>4, <2>1, <2>2
  <2> QED
    BY <2>3, <2>4
<1>6. \A n \in (c + 1)..(Level(p) - 1) :
         /\ Ancestor(p, n) \in Tree /\ Level(Ancestor(p, n)) = n
         /\ StartsWith(p, Ancestor(p, n), n) /\ n \in Nat
  BY <1>2, NewDirectories
<1>7. M \in Seq(Tree)
  <2>1. M \in [1..Len(M) -> Tree] /\ Len(M) \in Nat
    <3>1. M \in [1..Len(M) -> AllPaths] /\ Len(M) \in Nat
      BY <1>2
    <3>2. \A i \in 1..Len(M) : M[i] \in Tree
      BY <1>2, <1>6
    <3> QED
      BY <3>1, <3>2
  <2> QED
    BY <2>1
<1>8. Ordered(M)
  <2>1. SUFFICES ASSUME NEW i \in 1..Len(M), NEW j \in 1..Len(M), i < j
                 PROVE  Comes(M[i], M[j])
    BY DEF Ordered
  <2> DEFINE m == c + i
             n == c + j
  <2>2. /\ m \in (c + 1)..(Level(p) - 1) /\ n \in (c + 1)..(Level(p) - 1)
        /\ M[i] = Ancestor(p, m) /\ M[j] = Ancestor(p, n)
    BY <1>2, <2>1
  <2>5. i \in Nat /\ j \in Nat /\ m < n /\ m \in Nat /\ n \in Nat
    BY <1>2, <2>1
  <2> HIDE DEF m, n
  <2>3. /\ Ancestor(p, m) \in Tree /\ Level(Ancestor(p, m)) = m /\ StartsWith(p, Ancestor(p, m), m)
        /\ Ancestor(p, n) \in Tree /\ Level(Ancestor(p, n)) = n /\ StartsWith(p, Ancestor(p, n), n)
    BY <1>6, <2>2
  <2>4. StartsWith(Ancestor(p, n), Ancestor(p, m), m)
    BY <2>2, <2>3, <2>5 DEF StartsWith
  <2> QED
    BY <1>3, <2>2, <2>3, <2>4, <2>5, AboveComes
<1> QED
  BY <1>5, <1>7, <1>8

LEMMA MissingNext ==
    ASSUME Given, NEW s, IsSortedList(s), NEW k \in Nat, k < Len(s),
           NEW prev, prev = Previous(s, k), NEW p, p = s[k + 1],
           NEW prevd \in AllPaths, prevd.entries = prev.entries,
           NEW dir \in AllPaths, dir.entries = p.entries,
           NEW ex, MissingSoFar(s, ex, k), NEW M, M = Missing(prevd, dir)
    PROVE  MissingSoFar(s, ex \o M, k + 1)
<1> DEFINE c == CommonLevel(prev, p)
<1>16. c = CommonLevel(prev, p)
  OBVIOUS
<1> HIDE DEF c
<1>1. /\ p \in listed /\ p \in Tree
      /\ k # 0 => prev = s[k] /\ prev \in listed /\ Comes(prev, p)
      /\ k = 0 => prev = root
      /\ prev \in Tree /\ Tidy(Tree) /\ (k # 0 => k \in 1..k)
  BY NextPathFacts, TreeIsTidy
<1>2. /\ ex \in Seq(Tree) /\ Ordered(ex) /\ Range(ex) = Passed(s, k) \ listed
      /\ k # 0 => \A e \in Range(ex) : Comes(e, prev)
      /\ \A e \in Range(ex) : e \in Tree /\ e \notin listed
  BY <1>1, RangeIs DEF MissingSoFar
<1>3. /\ M \in Seq(Tree) /\ Ordered(M)
      /\ \A x : x \in Range(M) <=> \E n \in (c + 1)..(Level(p) - 1) : x = Ancestor(p, n)
  BY <1>16, MissingOf
<1>4. \A n \in (c + 1)..(Level(p) - 1) :
         /\ Ancestor(p, n) \in Tree \ listed /\ Ancestor(p, n) \in Above(p)
         /\ Comes(Ancestor(p, n), p) /\ Comes(prev, Ancestor(p, n))
  BY <1>16, NewDirectories
<1>5. \A a \in Above(p) : a \in Range(M) \/ a = prev \/ (k # 0 /\ a \in Above(prev))
  <2>1. SUFFICES ASSUME NEW a \in Above(p), a \notin Range(M)
                 PROVE  a = prev \/ (k # 0 /\ a \in Above(prev))
    OBVIOUS
  <2>2. PICK n \in Level(root)..(Level(p) - 1) : a = Ancestor(p, n)
    BY DEF Above
  <2>3. ~(n \in (c + 1)..(Level(p) - 1))
    BY <1>3, <2>1, <2>2
  <2>4. n <= c
    <3>1. c \in Nat /\ Level(root) \in Nat /\ Level(p) \in Nat
      BY <1>16, NextPathFacts
    <3> QED
      BY <2>2, <2>3, <3>1
  <2> QED
    BY <1>16, <2>2, <2>4, OldDirectories
<1>6. \A x \in Range(M) : /\ x \in Tree \ listed /\ x \in Above(p)
                          /\ Comes(x, p) /\ Comes(prev, x)
  BY <1>3, <1>4
<1>7. k = 0 => \A e \in Range(ex) : e = root
  BY <1>2 DEF Passed
<1>8. \A e \in Range(ex), x \in Range(M) : Comes(e, x)
  <2>1. TAKE e \in Range(ex), x \in Range(M)
  <2>2. CASE k = 0
    BY <1>1, <1>6, <1>7, <2>2
  <2>3. CASE k # 0
    BY <1>1, <1>2, <1>6, <2>3, ComesThrough
  <2> QED
    BY <2>2, <2>3
<1>9. \A e \in Range(ex) : Comes(e, p)
  <2>1. TAKE e \in Range(ex)
  <2>2. CASE k = 0
    <3>1. e = root /\ root \in Tree /\ p # root
      BY <1>1, <1>2, <1>7, <2>2
    <3> QED
      BY <1>1, <3>1, RootComes
  <2>3. CASE k # 0
    BY <1>1, <1>2, <2>3, ComesThrough
  <2> QED
    BY <2>2, <2>3
<1>10. /\ ex \o M \in Seq(Tree) /\ Ordered(ex \o M)
       /\ Range(ex \o M) = Range(ex) \union Range(M)
  BY <1>2, <1>3, <1>8, ConcatOrdered
<1>11. Passed(s, k + 1) = Passed(s, k) \union Above(p)
  BY PassedNext
<1>12. k # 0 => Above(prev) \subseteq Passed(s, k)
  BY <1>1 DEF Passed
<1>13. k = 0 => prev \in Passed(s, k)
  BY <1>1 DEF Passed
<1>14. Range(ex \o M) = Passed(s, k + 1) \ listed
  BY <1>1, <1>2, <1>5, <1>6, <1>10, <1>11, <1>12, <1>13
<1>15. \A e \in Range(ex \o M) : Comes(e, s[k + 1])
  BY <1>6, <1>9, <1>10
<1> QED
  BY <1>10, <1>14, <1>15 DEF MissingSoFar

-----------------------------------------------------------------------------
(* Merging.                                                                *)

LEMMA AllFound ==
    ASSUME Given, NEW s, IsSortedList(s), s # <<>>, NEW ex, MissingSoFar(s, ex, Len(s))
    PROVE  Range(ex) = Tree \ listed
<1>1. /\ s \in Seq(listed) /\ Len(s) \in Nat /\ s # <<>>
      /\ \A x : x \in listed <=> \E i \in 1..Len(s) : x = s[i]
  BY RangeIs DEF IsSortedList
<1>2. listed # {}
  BY <1>1, RangeIs
<1>3. root \in Tree
  BY <1>2, RootInTree
<1>4. UNION {Above(s[j]) : j \in 1..Len(s)} = UNION {Above(p) : p \in listed}
  BY <1>1
<1>5. Range(ex) = ({root} \union UNION {Above(p) : p \in listed}) \ listed
  BY <1>4 DEF MissingSoFar, Passed
<1> QED
  BY <1>3, <1>5, TreeIs

(***************************************************************************)
(* r holds the first i of f and the first j of e, all of them before the   *)
(* rest of f and the rest of e.                                            *)
(***************************************************************************)
MergedTo(f, e, i, j, r) ==
    /\ r \in Seq(Tree) /\ Ordered(r)
    /\ i \in 0..Len(f) /\ j \in 0..Len(e) /\ Len(r) = i + j
    /\ Range(r) = {f[a] : a \in 1..i} \union {e[b] : b \in 1..j}
    /\ \A x \in Range(r) : /\ \A a \in (i + 1)..Len(f) : Comes(x, f[a])
                           /\ \A b \in (j + 1)..Len(e) : Comes(x, e[b])

LEMMA MergedBoth ==
    ASSUME NEW f \in Seq(Tree), NEW e \in Seq(Tree), NEW i, NEW j, NEW r, MergedTo(f, e, i, j, r)
    PROVE  MergedTo(e, f, j, i, r)
<1>1. i + j = j + i
  BY DEF MergedTo
<1> QED
  BY <1>1 DEF MergedTo

LEMMA MergedNone ==
    ASSUME NEW f \in Seq(Tree), NEW e \in Seq(Tree)
    PROVE  MergedTo(f, e, 0, 0, <<>>)
BY DEF MergedTo, Ordered, Range

LEMMA MergedNext ==
    ASSUME Given, NEW f \in Seq(Tree), NEW e \in Seq(Tree), Ordered(f), Ordered(e),
           NEW i, NEW j, NEW r, MergedTo(f, e, i, j, r),
           i < Len(f), j < Len(e) => Comes(f[i + 1], e[j + 1])
    PROVE  MergedTo(f, e, i + 1, j, Append(r, f[i + 1]))
<1> DEFINE p == f[i + 1]
           q == Append(r, p)
<1>1. /\ r \in Seq(Tree) /\ Ordered(r)
      /\ i \in Nat /\ j \in Nat /\ j <= Len(e) /\ Len(r) = i + j
      /\ Len(f) \in Nat /\ Len(e) \in Nat
      /\ Range(r) = {f[a] : a \in 1..i} \union {e[b] : b \in 1..j}
      /\ \A x \in Range(r) : /\ \A a \in (i + 1)..Len(f) : Comes(x, f[a])
                             /\ \A b \in (j + 1)..Len(e) : Comes(x, e[b])
  BY RangeIs DEF MergedTo
<1>2. i + 1 \in 1..Len(f) /\ i + 1 \in (i + 1)..Len(f) /\ p \in Tree
  BY <1>1, RangeIs
<1>3. \A x \in Range(r) : Comes(x, p)
  BY <1>1, <1>2
<1> HIDE DEF p
<1>4. /\ q \in Seq(Tree) /\ Ordered(q) /\ Range(q) = Range(r) \union {p}
      /\ Len(q) = Len(r) + 1
  BY <1>1, <1>2, <1>3, AppendInOrder
<1>5. {f[a] : a \in 1..(i + 1)} = {f[a] : a \in 1..i} \union {p}
  <2>1. \A a : a \in 1..(i + 1) <=> a \in 1..i \/ a = i + 1
    BY <1>1
  <2> QED
    BY <2>1 DEF p
<1>6. Range(q) = {f[a] : a \in 1..(i + 1)} \union {e[b] : b \in 1..j}
  BY <1>1, <1>4, <1>5
<1>7. ASSUME NEW a \in (i + 2)..Len(f) PROVE Comes(p, f[a])
  <2>1. a \in 1..Len(f) /\ i + 1 < a
    BY <1>1
  <2> QED
    BY <1>2, <2>1 DEF p, Ordered
<1>8. ASSUME NEW b \in (j + 1)..Len(e) PROVE Comes(p, e[b])
  <2>1. b \in 1..Len(e) /\ j + 1 \in 1..Len(e) /\ j < Len(e) /\ (b = j + 1 \/ j + 1 < b)
    BY <1>1
  <2>2. Comes(p, e[j + 1]) /\ e[j + 1] \in Tree /\ e[b] \in Tree
    BY <2>1, RangeIs DEF p
  <2>3. b = j + 1 \/ Comes(e[j + 1], e[b])
    BY <2>1 DEF Ordered
  <2> QED
    BY <1>2, <2>2, <2>3, ComesThrough, TreeIsTidy
<1>9. \A x \in Range(q) : /\ \A a \in ((i + 1) + 1)..Len(f) : Comes(x, f[a])
                          /\ \A b \in (j + 1)..Len(e) : Comes(x, e[b])
  <2>1. (i + 1) + 1 = i + 2 /\ \A a \in (i + 2)..Len(f) : a \in (i + 1)..Len(f)
    BY <1>1
  <2> QED
    BY <1>1, <1>4, <1>7, <1>8, <2>1
<1>10. i + 1 \in 0..Len(f) /\ j \in 0..Len(e) /\ Len(q) = (i + 1) + j
  BY <1>1, <1>2, <1>4
<1> HIDE DEF q
<1>11. MergedTo(f, e, i + 1, j, q)
  BY <1>4, <1>6, <1>9, <1>10 DEF MergedTo
<1> QED
  BY <1>11 DEF q, p

\* Of a file and a missing directory one comes before the other.
LEMMA ListedOrMissing ==
    ASSUME Given, NEW s, IsSortedList(s), NEW k, NEW ex, MissingSoFar(s, ex, k),
           NEW i \in 1..Len(s), NEW j \in 1..Len(ex)
    PROVE  /\ Less(ex[j], s[i]) => Comes(ex[j], s[i])
           /\ ~Less(ex[j], s[i]) => Comes(s[i], ex[j])
<1>1. s[i] \in listed /\ ex[j] \in Tree /\ ex[j] \in Range(ex)
  BY RangeIs DEF IsSortedList, MissingSoFar
<1>2. s[i] \in Tree /\ ex[j] \notin listed /\ Tidy(Tree)
  BY <1>1, TreeIs, TreeIsTidy DEF MissingSoFar
<1> QED
  BY <1>1, <1>2, LessIsComes, ComesTotal

LEMMA ListsOverTree ==
    ASSUME NEW s, IsSortedList(s), NEW k, NEW ex, MissingSoFar(s, ex, k)
    PROVE  s \in Seq(Tree) /\ ex \in Seq(Tree) /\ Ordered(s) /\ Ordered(ex)
BY TreeIs, SequenceOver DEF IsSortedList, MissingSoFar

IsSortedTree(s) == s \in Seq(Tree) /\ Range(s) = Kept /\ Ordered(s)

LEMMA KeptAll == ASSUME ~filesOnly PROVE Kept = Tree
BY DEF Kept

LEMMA KeptFiles ==
    ASSUME filesOnly, \A p \in listed : p.isFile
    PROVE  Kept = listed
<1>1. Kept \subseteq listed
  <2> SUFFICES ASSUME NEW q \in Tree, q.isFile, q \notin listed PROVE FALSE
    BY DEF Kept
  <2>1. PICK p \in listed : q \in Above(p)
    BY TreeIs
  <2> QED
    BY <2>1 DEF Above, Ancestor, Dir
<1>2. listed \subseteq Kept
  BY TreeIs DEF Kept
<1> QED
  BY <1>1, <1>2

LEMMA MergedAll ==
    ASSUME Given, ~filesOnly, NEW s, IsSortedList(s), s # <<>>, NEW ex, MissingSoFar(s, ex, Len(s)),
           NEW r, MergedTo(s, ex, Len(s), Len(ex), r)
    PROVE  IsSortedTree(r)
<1>1. s \in Seq(Tree) /\ ex \in Seq(Tree)
  BY ListsOverTree
<1>2. Range(s) = listed /\ Range(ex) = Tree \ listed
  BY AllFound DEF IsSortedList
<1>3. Range(r) = {s[a] : a \in 1..Len(s)} \union {ex[b] : b \in 1..Len(ex)}
  BY DEF MergedTo
<1>4. Range(r) = Range(s) \union Range(ex)
  BY <1>1, <1>3, RangeIs
<1>5. Range(r) = Tree
  BY <1>2, <1>4, TreeIs
<1> QED
  BY <1>5, KeptAll DEF MergedTo, IsSortedTree

LEMMA NothingMissing ==
    ASSUME Given, ~filesOnly, NEW s, IsSortedList(s), s # <<>>, MissingSoFar(s, <<>>, Len(s))
    PROVE  IsSortedTree(s)
<1>1. Range(<<>>) = Tree \ listed
  BY AllFound
<1>2. Tree = listed
  <2>1. Range(<<>>) = {}
    BY DEF Range
  <2> QED
    BY <1>1, <2>1, TreeIs
<1> QED
  BY <1>2, KeptAll DEF IsSortedList, IsSortedTree

-----------------------------------------------------------------------------
(* Where fileList begins and what it passes.                               *)

LEMMA SortedTreeFacts ==
    ASSUME Given, NEW s, IsSortedTree(s)
    PROVE  /\ Len(s) \in Nat /\ s \in Seq(Tree) /\ Ordered(s) /\ Tidy(Tree)
           /\ \A q \in Kept : \E j \in 1..Len(s) : q = s[j]
           /\ \A j \in 1..Len(s) :
                 /\ s[j] \in Kept /\ s[j] \in Tree /\ s[j] \in AllPaths
                 /\ Level(s[j]) \in Nat /\ s[j].isFile \in BOOLEAN
           /\ \A i, j \in 1..Len(s) :
                 /\ Comes(s[i], s[j]) <=> i < j
                 /\ s[i] = s[j] <=> i = j
<1>1. s \in Seq(Tree) /\ Ordered(s) /\ Tidy(Tree) /\ Range(s) = Kept /\ Len(s) \in Nat
  BY TreeIsTidy DEF IsSortedTree
<1>2. \A q \in Kept : \E j \in 1..Len(s) : q = s[j]
  BY <1>1, RangeIs
<1>3. ASSUME NEW j \in 1..Len(s)
      PROVE  /\ s[j] \in Kept /\ s[j] \in Tree /\ s[j] \in AllPaths
             /\ Level(s[j]) \in Nat /\ s[j].isFile \in BOOLEAN
  BY <1>1, RangeIs, TreePathFacts
<1>4. ASSUME NEW i \in 1..Len(s), NEW j \in 1..Len(s)
      PROVE  /\ Comes(s[i], s[j]) <=> i < j
             /\ s[i] = s[j] <=> i = j
  BY <1>1, PlacesInOrder
<1> QED
  BY <1>1, <1>2, <1>3, <1>4

LEMMA FirstIs ==
    ASSUME NEW s, Len(s) \in Nat, NEW i \in 1..Len(s), NEW f, f = FindFirstFileFrom(s, i),
           HaveSameDirectory(s[i], s[i])
    PROVE  /\ f \in 1..i
           /\ \A j \in f..i : HaveSameDirectory(s[j], s[i])
           /\ f # 1 => f - 1 \in 1..i /\ ~HaveSameDirectory(s[f - 1], s[i])
<1> DEFINE S == {j \in 1..i : ~HaveSameDirectory(s[j], s[i])}
<1>1. f = IF S = {} THEN 1 ELSE 1 + (CHOOSE m \in S : \A j \in S : j <= m)
  BY DEF FindFirstFileFrom
<1>2. i \notin S /\ S \subseteq 0..i /\ i \in Nat /\ \A j \in 1..i : j \notin S => HaveSameDirectory(s[j], s[i])
  OBVIOUS
<1>3. \A j \in S : j \in 1..i /\ ~HaveSameDirectory(s[j], s[i])
  OBVIOUS
<1> HIDE DEF S
<1>4. CASE S = {}
  BY <1>1, <1>2, <1>4
<1>5. CASE S # {}
  <2>1. \E m \in S : \A j \in S : j <= m
    BY <1>2, <1>5, GreatestExists
  <2>2. PICK m \in S : m = f - 1 /\ (\A j \in S : j <= m) /\ f = 1 + m
    <3> DEFINE g == CHOOSE m \in S : \A j \in S : j <= m
    <3>1. g \in S /\ \A j \in S : j <= g
      BY <2>1
    <3>2. f = 1 + g
      BY <1>1, <1>5
    <3> HIDE DEF g
    <3>3. g \in Nat
      <4>1. g \in 0..i /\ i \in Nat
        BY <1>2, <3>1
      <4> QED
        BY <4>1
    <3> QED
      BY <3>1, <3>2, <3>3
  <2>3. m \in 1..i /\ m # i
    BY <1>2, <1>3
  <2>4. f \in 1..i /\ f - 1 \in 1..i /\ ~HaveSameDirectory(s[f - 1], s[i])
    BY <1>3, <2>2, <2>3
  <2>5. \A j \in f..i : j \in 1..i /\ j \notin S
    BY <2>2, <2>3
  <2> QED
    BY <1>2, <2>4, <2>5
<1> QED
  BY <1>4, <1>5

InDirectory(x, c) == StartsWith(x, c, DirLevel(c))

(***************************************************************************)
(* What fileList relies on, at c = s[i] and from place f on: the entries   *)
(* of c's directory stand together, those that it holds are among them,    *)
(* and what is below one that it holds stands behind that one.             *)
(***************************************************************************)
HeldFrom(s, c, f) ==
    /\ \A a, b \in f..Len(s) : a < b /\ InDirectory(s[b], c) => InDirectory(s[a], c)
    /\ \A q \in Held(c) : \E a \in f..Len(s) : q = s[a]
    /\ \A a \in f..Len(s) : InDirectory(s[a], c) /\ Level(s[a]) = DirLevel(c) + 1 => s[a] \in Held(c)
    /\ \A a \in f..Len(s) :
          InDirectory(s[a], c) /\ Level(s[a]) > DirLevel(c) + 1 =>
             \E h \in f..Len(s) : h < a /\ s[h] = Ancestor(s[a], DirLevel(c) + 1)

LEMMA HeldIs ==
    ASSUME NEW c, NEW q
    PROVE  q \in Held(c) <=> /\ q \in Tree /\ Level(q) = DirLevel(c) + 1
                             /\ InDirectory(q, c) /\ (c.isFile => q.isFile)
BY DEF Held, Contents, InDirectory

LEMMA HeldFromDirectory ==
    ASSUME Given, NEW s, IsSortedTree(s), NEW i \in 1..Len(s),
           NEW c, c = s[i], ~c.isFile, NEW f, f = FindFirstFileFrom(s, i)
    PROVE  f = i /\ DirLevel(c) \in Nat /\ HeldFrom(s, c, f)
<1>1. /\ Len(s) \in Nat /\ Tidy(Tree)
      /\ \A q \in Tree : \E j \in 1..Len(s) : q = s[j]
      /\ \A j \in 1..Len(s) :
            /\ s[j] \in Tree /\ s[j] \in AllPaths
            /\ Level(s[j]) \in Nat /\ s[j].isFile \in BOOLEAN
      /\ \A k, j \in 1..Len(s) :
            /\ Comes(s[k], s[j]) <=> k < j
            /\ s[k] = s[j] <=> k = j
  <2>1. c \in Kept
    BY SortedTreeFacts
  <2>2. Kept = Tree
    BY <2>1, KeptAll DEF Kept
  <2> QED
    BY <2>2, SortedTreeFacts
<1>2. c \in Tree /\ c \in AllPaths /\ Level(c) \in Nat /\ DirLevel(c) = Level(c)
  BY <1>1 DEF DirLevel
<1> DEFINE l == Level(c)
<1>3. \A x : InDirectory(x, c) <=> StartsWith(x, c, l)
  BY <1>2 DEF InDirectory
\* What is below c, and not c, stands behind c.
<1>4. ASSUME NEW j \in 1..Len(s), StartsWith(s[j], c, l)
      PROVE  j = i \/ (i < j /\ l < Level(s[j]))
  <2>1. CASE Level(s[j]) = l
    <3>1. s[j].entries = c.entries
      BY <1>1, <1>2, <1>4, <2>1, SamePaths
    <3>2. s[j] = c
      BY <1>1, <1>2, <3>1 DEF Tidy, Consistent
    <3> QED
      BY <1>1, <3>2
  <2>2. CASE Level(s[j]) # l
    <3>1. l < Level(s[j])
      BY <1>1, <1>2, <1>4, <2>2 DEF StartsWith
    <3>2. Comes(c, s[j])
      BY <1>1, <1>2, <1>4, <3>1, AboveComes
    <3> QED
      BY <1>1, <3>1, <3>2
  <2> QED
    BY <2>1, <2>2
<1>5. f = i
  <2>1. HaveSameDirectory(s[i], s[i])
    BY <1>2 DEF HaveSameDirectory, StartsWith, Level
  <2>2. f \in 1..i /\ \A j \in f..i : HaveSameDirectory(s[j], s[i])
    BY <1>1, <2>1, FirstIs
  <2>3. f \in f..i /\ f \in 1..Len(s) /\ i \in Nat
    BY <1>1, <2>2
  <2>4. HaveSameDirectory(s[f], c)
    BY <2>2, <2>3
  <2>5. StartsWith(s[f], c, l)
    BY <1>2, <2>4 DEF HaveSameDirectory
  <2>6. f = i \/ i < f
    BY <1>4, <2>3, <2>5
  <2> QED
    BY <2>2, <2>6
<1>6. StartsWith(c, c, l)
  BY <1>2 DEF StartsWith
<1>7. ASSUME NEW a \in i..Len(s), NEW b \in i..Len(s), a < b, StartsWith(s[b], c, l)
      PROVE  StartsWith(s[a], c, l)
  <2>1. a \in 1..Len(s) /\ b \in 1..Len(s) /\ i < b /\ (a = i \/ i < a)
    BY <1>1, <1>7
  <2>2. CASE a = i
    BY <1>6, <2>2
  <2>3. CASE i < a
    <3>1. Comes(c, s[a]) /\ Comes(s[a], s[b]) /\ s[a] \in Tree /\ s[b] \in Tree
      BY <1>1, <1>7, <2>1, <2>3
    <3>2. l < Level(s[b])
      BY <1>1, <1>4, <1>7, <2>1
    <3> QED
      BY <1>1, <1>2, <1>7, <3>1, <3>2, BetweenIsBelow
  <2> QED
    BY <2>1, <2>2, <2>3
<1>8. ASSUME NEW q \in Tree, Level(q) = l + 1, StartsWith(q, c, l)
      PROVE  \E a \in i..Len(s) : q = s[a]
  <2>1. PICK j \in 1..Len(s) : q = s[j]
    BY <1>1
  <2>2. j = i \/ i < j
    BY <1>4, <1>8, <2>1
  <2> QED
    BY <1>1, <2>1, <2>2
<1>9. ASSUME NEW a \in i..Len(s), StartsWith(s[a], c, l), Level(s[a]) > l + 1
      PROVE  \E h \in i..Len(s) : h < a /\ s[h] = Ancestor(s[a], l + 1)
  <2> DEFINE p == s[a]
             d == Ancestor(p, l + 1)
  <2>1. a \in 1..Len(s) /\ p \in Tree /\ p \in AllPaths /\ Level(p) \in Nat
    BY <1>1
  <2>2. Level(root) <= l /\ Level(root) \in Nat
    BY <1>2, TreePathFacts, GivenFacts
  <2>3. l + 1 \in Level(root)..(Level(p) - 1) /\ l + 1 \in Nat /\ l + 1 <= Level(p) /\ l + 1 < Level(p)
    BY <1>2, <1>9, <2>1, <2>2
  <2>4. d \in Tree /\ Level(d) = l + 1 /\ StartsWith(p, d, l + 1)
    BY <2>1, <2>3, TreePathFacts, AncestorIs
  <2>5. StartsWith(d, c, l)
    BY <1>2, <1>9, <2>4 DEF StartsWith
  <2>6. PICK h \in i..Len(s) : d = s[h]
    BY <1>8, <2>4, <2>5
  <2>7. Comes(d, p)
    BY <1>1, <2>1, <2>3, <2>4, AboveComes
  <2>8. h < a
    BY <1>1, <2>1, <2>6, <2>7
  <2> QED
    BY <2>6, <2>8
<1>10. HeldFrom(s, c, f)
  <2>1. \A q : q \in Held(c) <=> q \in Tree /\ Level(q) = l + 1 /\ StartsWith(q, c, l)
    BY <1>2, <1>3, HeldIs
  <2>2. \A a \in i..Len(s) : s[a] \in Tree
    BY <1>1
  <2>3. DirLevel(c) = l
    BY <1>2
  <2>4. \A a, b \in i..Len(s) : a < b /\ InDirectory(s[b], c) => InDirectory(s[a], c)
    BY <1>3, <1>7
  <2>5. \A q \in Held(c) : \E a \in i..Len(s) : q = s[a]
    BY <1>8, <2>1
  <2>6. \A a \in i..Len(s) : InDirectory(s[a], c) /\ Level(s[a]) = l + 1 => s[a] \in Held(c)
    BY <1>3, <2>1, <2>2
  <2>7. \A a \in i..Len(s) :
          InDirectory(s[a], c) /\ Level(s[a]) > l + 1 =>
             \E h \in i..Len(s) : h < a /\ s[h] = Ancestor(s[a], l + 1)
    BY <1>3, <1>9
  <2> HIDE DEF l
  <2> QED
    BY <1>5, <2>3, <2>4, <2>5, <2>6, <2>7 DEF HeldFrom
<1> QED
  BY <1>2, <1>5, <1>10

LEMMA HeldFromFile ==
    ASSUME Given, NEW s, IsSortedTree(s), NEW i \in 1..Len(s),
           NEW c, c = s[i], c.isFile, NEW f, f = FindFirstFileFrom(s, i)
    PROVE  f \in 1..i /\ DirLevel(c) \in Nat /\ HeldFrom(s, c, f)
<1>1. /\ Len(s) \in Nat /\ Tidy(Tree)
      /\ \A q \in Kept : \E j \in 1..Len(s) : q = s[j]
      /\ \A j \in 1..Len(s) :
            /\ s[j] \in Tree /\ s[j] \in AllPaths
            /\ Level(s[j]) \in Nat /\ s[j].isFile \in BOOLEAN
      /\ \A k, j \in 1..Len(s) :
            /\ Comes(s[k], s[j]) <=> k < j
            /\ s[k] = s[j] <=> k = j
  BY SortedTreeFacts
<1> DEFINE l == Level(c) - 1
           d == Ancestor(c, l)
<1>2. /\ c \in Tree /\ c \in AllPaths /\ Level(c) \in Nat /\ Level(c) # 0
      /\ DirLevel(c) = l /\ l \in Nat /\ l <= Level(c) /\ l < Level(c) /\ Level(c) = l + 1
      /\ l \in Level(root)..(Level(c) - 1)
  <2>1. c \in Tree /\ c \in AllPaths /\ Level(c) \in Nat
    BY <1>1
  <2>2. Level(root) < Level(c) /\ Level(root) \in Nat
    BY <2>1, TreePathFacts, GivenFacts
  <2> QED
    BY <2>1, <2>2 DEF DirLevel
<1>3. d \in Tree /\ Level(d) = l /\ StartsWith(c, d, l)
  BY <1>2, TreePathFacts, AncestorIs
<1> HIDE DEF d
<1>4. Comes(d, c)
  BY <1>1, <1>2, <1>3, AboveComes
<1>5. \A x : /\ InDirectory(x, c) <=> StartsWith(x, c, l)
             /\ InDirectory(x, c) <=> StartsWith(x, d, l)
  BY <1>2, <1>3 DEF InDirectory, StartsWith
<1>6. /\ f \in 1..i /\ \A j \in f..i : HaveSameDirectory(s[j], c)
      /\ f # 1 => f - 1 \in 1..i /\ ~HaveSameDirectory(s[f - 1], c)
  <2>1. HaveSameDirectory(s[i], s[i])
    BY <1>2 DEF HaveSameDirectory, StartsWith
  <2> QED
    BY <1>1, <2>1, FirstIs
<1>7. \A x : HaveSameDirectory(x, c) <=> DirLevel(x) = l /\ InDirectory(x, c)
  BY <1>2, <1>5 DEF HaveSameDirectory
<1>8. ASSUME NEW a \in f..Len(s) PROVE a \in 1..Len(s) /\ (a \in f..i \/ i < a)
  BY <1>1, <1>6
\* From f to i there is the directory itself or files of it, and behind i files.
<1>9. ASSUME NEW a \in f..Len(s), InDirectory(s[a], c)
      PROVE  Level(s[a]) <= l + 1 /\ (Level(s[a]) = l + 1 => s[a].isFile)
  <2>1. a \in 1..Len(s) /\ Level(s[a]) \in Nat
    BY <1>1, <1>8
  <2>2. CASE a \in f..i
    <3>1. DirLevel(s[a]) = l
      BY <1>6, <1>7, <2>2
    <3> QED
      BY <1>2, <2>1, <3>1 DEF DirLevel
  <2>3. CASE i < a
    <3>1. Comes(c, s[a]) /\ s[a] \in Tree
      BY <1>1, <2>1, <2>3
    <3>2. s[a].isFile /\ Level(s[a]) = Level(c)
      BY <1>1, <1>2, <1>5, <1>9, <3>1, FilesComeLast
    <3> QED
      BY <1>2, <3>2
  <2> QED
    BY <1>8, <2>2, <2>3
<1>10. ASSUME NEW a \in f..Len(s), NEW b \in f..Len(s), a < b, InDirectory(s[b], c)
       PROVE  InDirectory(s[a], c)
  <2>1. a \in 1..Len(s) /\ b \in 1..Len(s)
    BY <1>8
  <2>2. CASE a \in f..i
    BY <1>6, <1>7, <2>2
  <2>3. CASE i < a
    <3>1. Comes(c, s[a]) /\ Comes(s[a], s[b]) /\ s[a] \in Tree /\ s[b] \in Tree
      BY <1>1, <1>10, <2>1, <2>3
    <3>2. Comes(d, s[a])
      BY <1>1, <1>2, <1>3, <1>4, <3>1, ComesThrough
    <3>3. StartsWith(s[b], d, l)
      BY <1>5, <1>10
    <3>4. Level(s[b]) # l
      <4>1. SUFFICES ASSUME Level(s[b]) = l PROVE FALSE
        OBVIOUS
      <4>2. s[b].entries = d.entries
        BY <1>1, <1>3, <2>1, <3>3, <4>1, SamePaths, TreePathFacts
      <4>3. s[b] = d
        BY <1>1, <1>3, <3>1, <4>2 DEF Tidy, Consistent
      <4> QED
        BY <1>1, <1>3, <3>1, <3>2, <4>3, ComesOneWay
    <3>5. Level(d) < Level(s[b])
      BY <1>1, <1>2, <1>3, <2>1, <3>3, <3>4 DEF StartsWith
    <3> QED
      BY <1>1, <1>3, <1>5, <3>1, <3>2, <3>3, <3>5, BetweenIsBelow
  <2> QED
    BY <1>8, <2>2, <2>3
<1>11. ASSUME NEW q \in Tree, Level(q) = l + 1, InDirectory(q, c), q.isFile
       PROVE  \E a \in f..Len(s) : q = s[a]
  <2>1. PICK j \in 1..Len(s) : q = s[j]
    BY <1>1, <1>11 DEF Kept
  <2>2. HaveSameDirectory(q, c)
    BY <1>2, <1>7, <1>11 DEF DirLevel
  <2>3. ~(j < f)
    <3>1. SUFFICES ASSUME j < f PROVE FALSE
      OBVIOUS
    <3>2. f # 1 /\ f - 1 \in 1..Len(s) /\ f - 1 < i
      BY <1>1, <1>6, <3>1
    <3> DEFINE g == f - 1
               z == s[g]
    <3>3. g \in 1..Len(s) /\ ~HaveSameDirectory(z, c) /\ z \in Tree /\ j <= g
      BY <1>1, <1>6, <3>1, <3>2
    <3>4. j < g
      BY <2>1, <2>2, <3>3
    <3>5. Comes(q, z) /\ Comes(z, c)
      BY <1>1, <2>1, <3>2, <3>3, <3>4
    <3> HIDE DEF g, z
    <3>6. StartsWith(q, d, l) /\ Level(d) < Level(q)
      BY <1>2, <1>3, <1>5, <1>11
    <3>7. Comes(d, q)
      BY <1>1, <1>3, <3>6, AboveComes
    <3>8. Comes(d, z)
      BY <1>1, <1>3, <3>3, <3>5, <3>7, ComesThrough
    <3>9. StartsWith(z, d, l)
      BY <1>1, <1>2, <1>3, <3>3, <3>5, <3>8, BetweenIsBelow
    <3>10. StartsWith(z, q, Level(q) - 1) /\ Level(q) # 0
      BY <1>2, <1>3, <1>11, <3>6, <3>9 DEF StartsWith
    <3>11. z.isFile /\ Level(z) = Level(q)
      BY <1>1, <1>11, <3>3, <3>5, <3>10, FilesComeLast
    <3>12. DirLevel(z) = l
      BY <1>2, <1>11, <3>11 DEF DirLevel
    <3> QED
      BY <1>5, <1>7, <3>3, <3>9, <3>12
  <2> QED
    BY <1>1, <1>6, <2>1, <2>3
<1>12. HeldFrom(s, c, f)
  <2>1. \A q : q \in Held(c) <=> q \in Tree /\ Level(q) = l + 1 /\ InDirectory(q, c) /\ q.isFile
    BY <1>2, HeldIs
  <2>2. \A a \in f..Len(s) : s[a] \in Tree /\ Level(s[a]) \in Nat
    BY <1>1, <1>8
  <2>3. DirLevel(c) = l /\ l \in Nat
    BY <1>2
  <2>4. \A a, b \in f..Len(s) : a < b /\ InDirectory(s[b], c) => InDirectory(s[a], c)
    BY <1>10
  <2>5. \A q \in Held(c) : \E a \in f..Len(s) : q = s[a]
    BY <1>11, <2>1
  <2>6. \A a \in f..Len(s) : InDirectory(s[a], c) /\ Level(s[a]) = l + 1 => s[a] \in Held(c)
    BY <1>9, <2>1, <2>2
  <2>7. \A a \in f..Len(s) : ~(InDirectory(s[a], c) /\ Level(s[a]) > l + 1)
    BY <1>9, <2>2, <2>3
  <2> HIDE DEF l
  <2> QED
    BY <2>3, <2>4, <2>5, <2>6, <2>7 DEF HeldFrom
<1> QED
  BY <1>2, <1>6, <1>12

-----------------------------------------------------------------------------
(* What fileList has answered so far.                                      *)

(***************************************************************************)
(* The k paths up to k, from f on, are in c's directory; r has the entries *)
(* of those right below it, and w their places.                            *)
(***************************************************************************)
ListedBy(s, c, f, k, r, w) ==
    /\ \A a \in f..k : InDirectory(s[a], c)
    /\ r \in Seq(AllPaths) /\ w \in Seq(Nat) /\ Len(w) = Len(r)
    /\ \A m, n \in 1..Len(r) : m < n => w[m] < w[n]
    /\ \A n \in 1..Len(r) : /\ w[n] \in f..k /\ Level(s[w[n]]) = DirLevel(c) + 1
                            /\ r[n] = Dir(s[w[n]].entries)
    /\ \A a \in f..k : Level(s[a]) = DirLevel(c) + 1 => \E n \in 1..Len(r) : w[n] = a

ListedTo(s, c, f, k, r) == \E w : ListedBy(s, c, f, k, r, w)

LEMMA ListedNone ==
    ASSUME NEW s, NEW c, NEW f \in Nat
    PROVE  ListedTo(s, c, f, f - 1, <<>>)
<1>1. f..(f - 1) = {}
  OBVIOUS
<1>2. ListedBy(s, c, f, f - 1, <<>>, <<>>)
  BY <1>1 DEF ListedBy
<1> QED
  BY <1>2 DEF ListedTo

\* What the loop appends for p, if anything.
Answered1(p, c, r) ==
    IF Level(p) > DirLevel(c) /\ ~(r # <<>> /\ StartsWith(p, Last(r), Level(Last(r))))
    THEN Append(r, CopyPath(p, DirLevel(c))) ELSE r

LEMMA AppendedListed ==
    ASSUME NEW s, NEW c, NEW f \in Nat, NEW k \in Nat, NEW r, NEW w, ListedBy(s, c, f, k, r, w),
           f <= k + 1, InDirectory(s[k + 1], c), Level(s[k + 1]) = DirLevel(c) + 1,
           NEW q \in AllPaths, q = Dir(s[k + 1].entries)
    PROVE  ListedTo(s, c, f, k + 1, Append(r, q))
<1> DEFINE N == Len(r)
           t == Append(r, q)
           v == Append(w, k + 1)
<1>1. /\ r \in Seq(AllPaths) /\ w \in Seq(Nat) /\ Len(w) = N /\ N \in Nat
      /\ \A a \in f..k : InDirectory(s[a], c)
      /\ \A m, n \in 1..N : m < n => w[m] < w[n]
      /\ \A n \in 1..N : /\ w[n] \in f..k /\ Level(s[w[n]]) = DirLevel(c) + 1
                         /\ r[n] = Dir(s[w[n]].entries)
      /\ \A a \in f..k : Level(s[a]) = DirLevel(c) + 1 => \E n \in 1..N : w[n] = a
  BY RangeIs DEF ListedBy
<1>2. t \in Seq(AllPaths) /\ Len(t) = N + 1 /\ t[N + 1] = q /\ \A n \in 1..N : t[n] = r[n]
  BY <1>1
<1>3. v \in Seq(Nat) /\ Len(v) = N + 1 /\ v[N + 1] = k + 1 /\ \A n \in 1..N : v[n] = w[n]
  BY <1>1
<1> HIDE DEF N, t, v
<1>4. \A a : a \in f..(k + 1) <=> a \in f..k \/ a = k + 1
  OBVIOUS
<1>5. \A n : n \in 1..(N + 1) <=> n \in 1..N \/ n = N + 1
  BY <1>1
<1>6. \A a \in f..(k + 1) : InDirectory(s[a], c)
  BY <1>1, <1>4
<1>7. ASSUME NEW m \in 1..(N + 1), NEW n \in 1..(N + 1), m < n PROVE v[m] < v[n]
  <2>1. m \in 1..N
    BY <1>1, <1>7
  <2>2. CASE n \in 1..N
    BY <1>1, <1>3, <1>7, <2>1, <2>2
  <2>3. CASE n = N + 1
    BY <1>1, <1>3, <2>1, <2>3
  <2> QED
    BY <1>5, <2>2, <2>3
<1>8. \A n \in 1..(N + 1) : /\ v[n] \in f..(k + 1) /\ Level(s[v[n]]) = DirLevel(c) + 1
                            /\ t[n] = Dir(s[v[n]].entries)
  <2>1. TAKE n \in 1..(N + 1)
  <2>2. CASE n \in 1..N
    BY <1>1, <1>2, <1>3, <1>4, <2>2
  <2>3. CASE n = N + 1
    <3>1. k + 1 \in f..(k + 1)
      OBVIOUS
    <3> QED
      BY <1>2, <1>3, <2>3, <3>1
  <2> QED
    BY <1>5, <2>2, <2>3
<1>9. \A a \in f..(k + 1) : Level(s[a]) = DirLevel(c) + 1 => \E n \in 1..(N + 1) : v[n] = a
  <2>1. SUFFICES ASSUME NEW a \in f..(k + 1), Level(s[a]) = DirLevel(c) + 1
                 PROVE  \E n \in 1..(N + 1) : v[n] = a
    OBVIOUS
  <2>2. CASE a \in f..k
    BY <1>1, <1>3, <1>5, <2>1, <2>2
  <2>3. CASE a = k + 1
    BY <1>3, <1>5, <2>3
  <2> QED
    BY <1>4, <2>2, <2>3
<1>10. ListedBy(s, c, f, k + 1, t, v)
  BY <1>2, <1>3, <1>6, <1>7, <1>8, <1>9 DEF ListedBy
<1> QED
  BY <1>10 DEF ListedTo, t

LEMMA PassedListed ==
    ASSUME NEW s, NEW c, NEW f \in Nat, NEW k \in Nat, NEW r, NEW w, ListedBy(s, c, f, k, r, w),
           InDirectory(s[k + 1], c), Level(s[k + 1]) # DirLevel(c) + 1
    PROVE  ListedTo(s, c, f, k + 1, r)
<1>1. \A a : a \in f..(k + 1) <=> a \in f..k \/ (a = k + 1 /\ f <= k + 1)
  OBVIOUS
<1>2. ListedBy(s, c, f, k + 1, r, w)
  BY <1>1 DEF ListedBy
<1> QED
  BY <1>2 DEF ListedTo

\* A level more than the directory's, as a directory.
LEMMA CopiedIs ==
    ASSUME NEW p \in AllPaths, NEW l \in Nat, Level(p) = l + 1
    PROVE  CopyPath(p, l) = Dir(p.entries) /\ Dir(p.entries) \in AllPaths
           /\ Level(Dir(p.entries)) = l + 1
<1> DEFINE e == p.entries
<1>1. e \in Seq(EntryNames) /\ Len(e) = l + 1 /\ Level(p) = l + 1
  BY PathFacts
<1>2. CopyPath(p, l) = [entries |-> SubSeq(e, 1, l + 1), isFile |-> FALSE]
  BY <1>1 DEF CopyPath
<1> HIDE DEF e
<1>3. SubSeq(e, 1, Len(e)) = e
  BY <1>1
<1>4. CopyPath(p, l) = Dir(e)
  BY <1>1, <1>2, <1>3 DEF Dir
<1>5. Dir(e) \in AllPaths /\ Level(Dir(e)) = Len(e)
  BY <1>1 DEF Dir, AllPaths, Path, Level
<1> QED
  BY <1>1, <1>4, <1>5 DEF e

LEMMA ListedNext ==
    ASSUME Given, NEW s, IsSortedTree(s),
           NEW c \in Tree, DirLevel(c) \in Nat, NEW f \in Nat \ {0}, HeldFrom(s, c, f),
           NEW k \in Nat, k < Len(s), f <= k + 1, InDirectory(s[k + 1], c),
           NEW r, ListedTo(s, c, f, k, r)
    PROVE  ListedTo(s, c, f, k + 1, Answered1(s[k + 1], c, r))
<1> DEFINE l == DirLevel(c)
           p == s[k + 1]
<1>1. PICK w : ListedBy(s, c, f, k, r, w)
  BY DEF ListedTo
<1>2. /\ Len(s) \in Nat /\ Tidy(Tree)
      /\ \A j \in 1..Len(s) :
            /\ s[j] \in Tree /\ s[j] \in AllPaths
            /\ Level(s[j]) \in Nat /\ s[j].isFile \in BOOLEAN
      /\ \A i, j \in 1..Len(s) :
            /\ Comes(s[i], s[j]) <=> i < j
            /\ s[i] = s[j] <=> i = j
  BY SortedTreeFacts
<1>3. /\ k + 1 \in f..Len(s) /\ k + 1 \in 1..Len(s)
      /\ \A a \in f..k : a \in 1..Len(s) /\ a < k + 1
  BY <1>2
<1>4. p \in Tree /\ p \in AllPaths /\ Level(p) \in Nat
  BY <1>2, <1>3
\* The last answer.
<1>5. ASSUME r # <<>>
      PROVE  \E g \in f..k : /\ g \in 1..Len(s) /\ Level(s[g]) = l + 1
                             /\ Last(r) = Dir(s[g].entries) /\ Level(Last(r)) = l + 1
                             /\ \A a \in f..k : Level(s[a]) = l + 1 => a <= g
  <2> DEFINE N == Len(r)
             g == w[N]
  <2>1. /\ r \in Seq(AllPaths) /\ N \in Nat /\ w \in Seq(Nat) /\ Len(w) = N
        /\ \A m, n \in 1..N : m < n => w[m] < w[n]
        /\ \A n \in 1..N : /\ w[n] \in f..k /\ Level(s[w[n]]) = l + 1
                           /\ r[n] = Dir(s[w[n]].entries)
        /\ \A a \in f..k : Level(s[a]) = l + 1 => \E n \in 1..N : w[n] = a
    BY <1>1, RangeIs DEF ListedBy
  <2>2. N \in 1..N
    BY <1>5, <2>1, RangeIs
  <2>3. g \in f..k /\ Level(s[g]) = l + 1 /\ r[N] = Dir(s[g].entries) /\ g \in Nat
    BY <2>1, <2>2
  <2>4. g \in 1..Len(s) /\ Level(Dir(s[g].entries)) = l + 1
    BY <1>3, <2>3 DEF Level, Dir
  <2>5. Last(r) = r[N]
    BY DEF Last
  <2>6. ASSUME NEW a \in f..k, Level(s[a]) = l + 1 PROVE a <= g
    <3>1. PICK n \in 1..N : w[n] = a
      BY <2>1, <2>6
    <3>2. n = N \/ n < N
      BY <2>1
    <3>3. n < N => a < g
      BY <2>1, <2>2, <3>1
    <3> QED
      BY <2>3, <3>1, <3>2, <3>3
  <2> HIDE DEF g, N
  <2> QED
    BY <2>3, <2>4, <2>5, <2>6
<1>6. CASE Level(p) = l + 1
  <2>1. ASSUME r # <<>>, StartsWith(p, Last(r), Level(Last(r))) PROVE FALSE
    <3>1. PICK g \in f..k : /\ g \in 1..Len(s) /\ Level(s[g]) = l + 1
                            /\ Last(r) = Dir(s[g].entries) /\ Level(Last(r)) = l + 1
      BY <1>5, <2>1
    <3>2. StartsWith(p, s[g], l + 1)
      <4>1. StartsWith(p, Last(r), l + 1)
        BY <2>1, <3>1
      <4>2. Last(r).entries = s[g].entries
        BY <3>1 DEF Dir
      <4> HIDE DEF p
      <4> QED
        BY <4>1, <4>2 DEF StartsWith, Level
    <3>3. s[g] \in Tree /\ s[g] \in AllPaths
      BY <1>2, <3>1
    <3>4. p.entries = s[g].entries
      BY <1>4, <1>6, <3>1, <3>2, <3>3, SamePaths
    <3>5. p = s[g]
      BY <1>2, <1>4, <3>3, <3>4 DEF Tidy, Consistent
    <3>6. k + 1 = g /\ g < k + 1
      BY <1>2, <1>3, <3>1, <3>5
    <3> QED
      BY <3>6
  <2>2. Answered1(p, c, r) = Append(r, CopyPath(p, l))
    BY <1>6, <2>1 DEF Answered1
  <2>3. CopyPath(p, l) = Dir(p.entries) /\ Dir(p.entries) \in AllPaths
    BY <1>4, <1>6, CopiedIs
  <2> QED
    BY <1>1, <1>6, <2>2, <2>3, AppendedListed
<1>7. CASE Level(p) <= l
  <2>1. Answered1(p, c, r) = r
    BY <1>4, <1>7 DEF Answered1
  <2>2. Level(p) # l + 1
    BY <1>4, <1>7
  <2> QED
    BY <1>1, <2>1, <2>2, PassedListed
<1>8. CASE Level(p) > l + 1
  <2>1. PICK h \in f..Len(s) : h < k + 1 /\ s[h] = Ancestor(p, l + 1)
    BY <1>3, <1>8 DEF HeldFrom
  <2>2. h \in f..k /\ h \in 1..Len(s)
    BY <1>2, <1>3, <2>1
  <2>3. l + 1 \in Nat /\ l + 1 <= Level(p) /\ l + 1 < Level(p)
    BY <1>4, <1>8
  <2>4. Level(s[h]) = l + 1 /\ StartsWith(p, s[h], l + 1) /\ s[h] \in Tree
    BY <1>2, <1>4, <2>1, <2>2, <2>3, AncestorIs
  <2>5. r # <<>>
    <3>1. \E n \in 1..Len(r) : w[n] = h
      BY <1>1, <2>2, <2>4 DEF ListedBy
    <3> QED
      BY <3>1
  <2>6. PICK g \in f..k : /\ g \in 1..Len(s) /\ Level(s[g]) = l + 1
                          /\ Last(r) = Dir(s[g].entries) /\ Level(Last(r)) = l + 1
                          /\ h <= g
    BY <1>5, <2>2, <2>4, <2>5
  <2>7. g < k + 1 /\ s[g] \in Tree
    BY <1>2, <1>3, <2>6
  <2>8. StartsWith(p, s[g], l + 1)
    <3>1. CASE g = h
      BY <2>4, <3>1
    <3>2. CASE g # h
      <4>1. Comes(s[h], s[g]) /\ Comes(s[g], p)
        BY <1>2, <1>3, <2>2, <2>6, <2>7, <3>2
      <4>2. StartsWith(s[g], s[h], l + 1)
        BY <1>2, <1>4, <2>3, <2>4, <2>7, <4>1, BetweenIsBelow
      <4>3. StartsWith(s[h], s[g], l + 1)
        BY <4>2, StartsBack
      <4> QED
        BY <2>3, <2>4, <2>6, <4>3, StartsThrough
    <3> QED
      BY <3>1, <3>2
  <2>9. StartsWith(p, Last(r), Level(Last(r)))
    BY <2>6, <2>8 DEF StartsWith, Dir, Level
  <2>10. Answered1(p, c, r) = r
    BY <2>5, <2>9 DEF Answered1
  <2>11. Level(p) # l + 1
    BY <1>8, <2>3
  <2> QED
    BY <1>1, <2>10, <2>11, PassedListed
<1>9. Level(p) = l + 1 \/ Level(p) <= l \/ Level(p) > l + 1
  BY <1>4
<1> QED
  BY <1>6, <1>7, <1>8, <1>9

\* At the end everything that the directory holds has been passed.
LEMMA ListedAll ==
    ASSUME Given, NEW s, IsSortedTree(s),
           NEW c \in Tree, DirLevel(c) \in Nat, NEW f \in Nat \ {0}, HeldFrom(s, c, f),
           NEW k \in Nat, k <= Len(s), f <= k + 1, ~(k < Len(s) /\ InDirectory(s[k + 1], c)),
           NEW r, ListedTo(s, c, f, k, r)
    PROVE  /\ Range(r) = {Dir(q.entries) : q \in Held(c)}
           /\ \A a, b \in 1..Len(r) :
                 a < b => \E p, q \in Held(c) :
                             /\ Less(p, q)
                             /\ r[a] = Dir(p.entries) /\ r[b] = Dir(q.entries)
<1> DEFINE l == DirLevel(c)
<1>1. PICK w : ListedBy(s, c, f, k, r, w)
  BY DEF ListedTo
<1>2. /\ Len(s) \in Nat /\ Tidy(Tree)
      /\ \A j \in 1..Len(s) : s[j] \in Tree
      /\ \A i, j \in 1..Len(s) : Comes(s[i], s[j]) <=> i < j
  BY SortedTreeFacts
<1>3. /\ r \in Seq(AllPaths) /\ Len(r) \in Nat
      /\ \A a \in f..k : InDirectory(s[a], c)
      /\ \A m, n \in 1..Len(r) : m < n => w[m] < w[n]
      /\ \A n \in 1..Len(r) : /\ w[n] \in f..k /\ Level(s[w[n]]) = l + 1
                              /\ r[n] = Dir(s[w[n]].entries)
      /\ \A a \in f..k : Level(s[a]) = l + 1 => \E n \in 1..Len(r) : w[n] = a
      /\ \A x : x \in Range(r) <=> \E n \in 1..Len(r) : x = r[n]
  BY <1>1, RangeIs DEF ListedBy
<1>4. \A a \in f..k : a \in f..Len(s) /\ a \in 1..Len(s)
  BY <1>2
<1>5. \A n \in 1..Len(r) : s[w[n]] \in Held(c)
  BY <1>3, <1>4 DEF HeldFrom
<1>6. ASSUME NEW q \in Held(c) PROVE \E n \in 1..Len(r) : q = s[w[n]]
  <2>1. PICK a \in f..Len(s) : q = s[a]
    BY DEF HeldFrom
  <2>2. InDirectory(s[a], c) /\ Level(s[a]) = l + 1
    BY <2>1, HeldIs
  <2>3. a \in f..k
    <3>1. SUFFICES ASSUME k < a PROVE FALSE
      BY <1>2
    <3>2. k < Len(s) /\ k + 1 \in f..Len(s) /\ (k + 1 = a \/ k + 1 < a)
      BY <1>2, <3>1
    <3>3. InDirectory(s[k + 1], c)
      BY <2>2, <3>2 DEF HeldFrom
    <3> QED
      BY <3>2, <3>3
  <2> QED
    BY <1>3, <2>1, <2>2, <2>3
<1>7. Range(r) = {Dir(q.entries) : q \in Held(c)}
  <2>1. ASSUME NEW x \in Range(r) PROVE \E q \in Held(c) : x = Dir(q.entries)
    BY <1>3, <1>5
  <2>2. ASSUME NEW q \in Held(c) PROVE Dir(q.entries) \in Range(r)
    <3>1. PICK n \in 1..Len(r) : q = s[w[n]]
      BY <1>6
    <3>2. r[n] = Dir(q.entries)
      BY <1>3, <3>1
    <3> QED
      BY <1>3, <3>2
  <2> QED
    BY <2>1, <2>2
<1>8. ASSUME NEW a \in 1..Len(r), NEW b \in 1..Len(r), a < b
      PROVE  \E p, q \in Held(c) : /\ Less(p, q)
                                   /\ r[a] = Dir(p.entries) /\ r[b] = Dir(q.entries)
  <2> DEFINE p == s[w[a]]
             q == s[w[b]]
  <2>1. w[a] < w[b] /\ w[a] \in 1..Len(s) /\ w[b] \in 1..Len(s)
    BY <1>3, <1>4, <1>8
  <2>2. Comes(p, q) /\ p \in Tree /\ q \in Tree
    BY <1>2, <2>1
  <2>3. Less(p, q)
    BY <1>2, <2>2, LessIsComes
  <2>4. p \in Held(c) /\ q \in Held(c) /\ r[a] = Dir(p.entries) /\ r[b] = Dir(q.entries)
    BY <1>3, <1>5
  <2> QED
    BY <2>3, <2>4
<1> QED
  BY <1>7, <1>8

-----------------------------------------------------------------------------
(* The types of the fields, whatever the names.                            *)

ListTypeInv == /\ ListTypeOK /\ IsListing(root, listed)
               /\ filesOnly => \A p \in listed : p.isFile
               /\ at = "listed" => files = <<>>
               /\ at = "merging" => seen <= Len(result)
               /\ at \in {"listing", "answered"} => current \in 1..Len(files)

LEMMA ListTypeInit == ListInit => ListTypeInv
<1> SUFFICES ASSUME ListInit PROVE ListTypeInv
  OBVIOUS
<1>1. /\ IsListing(root, listed)
      /\ filesOnly \in BOOLEAN /\ (filesOnly => \A p \in listed : p.isFile)
  BY GivenAtFirst
<1>2. listed \subseteq AllPaths
  BY <1>1 DEF IsListing
<1>3. NoPath \in AllPaths
  BY DEF NoPath, AllPaths, Path
<1> QED
  BY <1>1, <1>2, <1>3 DEF ListInit, ListTypeInv, ListTypeOK, AllPaths

LEMMA CopyPathTyped ==
    ASSUME NEW p \in AllPaths, NEW n \in Int, n >= 0 - 1
    PROVE  CopyPath(p, n) \in AllPaths
<1> DEFINE e == p.entries
<1>1. e \in Seq(EntryNames) /\ Level(p) = Len(e) /\ Level(p) \in Nat
  BY PathFacts
<1>2. CASE n >= Level(p)
  BY <1>2 DEF CopyPath
<1>3. CASE ~(n >= Level(p))
  <2>1. CopyPath(p, n) = [entries |-> SubSeq(e, 1, n + 1), isFile |-> FALSE]
    BY <1>3 DEF CopyPath
  <2>2. n + 1 \in Nat /\ n + 1 <= Len(e)
    BY <1>1, <1>3
  <2> HIDE DEF e
  <2>3. SubSeq(e, 1, n + 1) \in Seq(EntryNames)
    BY <1>1, <2>2
  <2> QED
    BY <2>1, <2>3 DEF AllPaths, Path
<1> QED
  BY <1>2, <1>3

LEMMA FirstInList ==
    ASSUME NEW s, Len(s) \in Nat, NEW i \in 1..Len(s)
    PROVE  FindFirstFileFrom(s, i) - 1 \in 0..Len(s)
<1>1. CASE HaveSameDirectory(s[i], s[i])
  <2>1. FindFirstFileFrom(s, i) \in 1..i
    BY <1>1, FirstIs
  <2> QED
    BY <2>1
<1>2. CASE ~HaveSameDirectory(s[i], s[i])
  <2> DEFINE S == {j \in 1..i : ~HaveSameDirectory(s[j], s[i])}
  <2>1. FindFirstFileFrom(s, i) = IF S = {} THEN 1 ELSE 1 + (CHOOSE m \in S : \A j \in S : j <= m)
    BY DEF FindFirstFileFrom
  <2>2. S \subseteq 0..i /\ i \in S /\ i \in Nat
    BY <1>2
  <2> HIDE DEF S
  <2>3. \E m \in S : \A j \in S : j <= m
    BY <2>2, GreatestExists
  <2> DEFINE g == CHOOSE m \in S : \A j \in S : j <= m
  <2>4. g \in S
    BY <2>3
  <2>5. FindFirstFileFrom(s, i) = 1 + g
    BY <2>1, <2>2
  <2> HIDE DEF g
  <2>6. g \in 0..i
    BY <2>2, <2>4
  <2> QED
    BY <2>5, <2>6
<1> QED
  BY <1>1, <1>2

LEMMA DirLevelTyped ==
    ASSUME NEW p \in AllPaths
    PROVE  DirLevel(p) \in Int /\ DirLevel(p) >= 0 - 1 /\ DirLevel(p) <= Level(p)
BY PathFacts DEF DirLevel

LEMMA AppendTyped ==
    ASSUME NEW S, NEW s \in Seq(S), NEW x \in S
    PROVE  Append(s, x) \in Seq(S) /\ Len(Append(s, x)) = Len(s) + 1 /\ Len(s) \in Nat
OBVIOUS

LEMMA ListTypeFacts ==
    ASSUME ListTypeInv
    PROVE  /\ files \in Seq(AllPaths) /\ extras \in Seq(AllPaths) /\ result \in Seq(AllPaths)
           /\ Len(files) \in Nat /\ Len(extras) \in Nat /\ Len(result) \in Nat
           /\ seen \in Nat /\ seen <= Len(files) /\ current \in 0..Len(files)
           /\ prevDir \in AllPaths /\ IsListing(root, listed)
           /\ \A i \in 1..Len(files) : files[i] \in AllPaths
           /\ \A i \in 1..Len(extras) : extras[i] \in AllPaths
BY RangeIs DEF ListTypeInv, ListTypeOK, AllPaths

LEMMA ListTypeStep == ListTypeInv /\ [ListNext]_listVars => ListTypeInv'
<1> SUFFICES ASSUME ListTypeInv, [ListNext]_listVars PROVE ListTypeInv'
  OBVIOUS
<1>1. /\ files \in Seq(AllPaths) /\ extras \in Seq(AllPaths) /\ result \in Seq(AllPaths)
      /\ Len(files) \in Nat /\ Len(extras) \in Nat /\ Len(result) \in Nat
      /\ seen \in Nat /\ seen <= Len(files) /\ current \in 0..Len(files)
      /\ prevDir \in AllPaths /\ IsListing(root, listed)
      /\ \A i \in 1..Len(files) : files[i] \in AllPaths
      /\ \A i \in 1..Len(extras) : extras[i] \in AllPaths
  BY ListTypeFacts
<1>2. /\ listed \subseteq AllPaths /\ IsFiniteSet(listed) /\ root \in AllPaths
  BY <1>1 DEF IsListing
<1>3. root' = root /\ listed' = listed /\ filesOnly' = filesOnly
  BY DEF ListNext, Sort, LookAtFile, StartMerging, MergeFile, MergeExtra, SwapFiles,
         CallFileList, ListNextFile, AnswerFileList, listVars
<1>4. /\ IsListing(root, listed)'
      /\ filesOnly' \in BOOLEAN /\ (filesOnly' => \A p \in listed' : p.isFile)
  BY <1>1, <1>3 DEF IsListing, ListTypeInv, ListTypeOK
<1>5. SUFFICES /\ files' \in Seq(AllPaths) /\ seen' \in 0..Len(files')
               /\ prevDir' \in AllPaths /\ extras' \in Seq(AllPaths)
               /\ current' \in 0..Len(files') /\ result' \in Seq(AllPaths)
               /\ at' \in {"listed", "fixing", "merging", "done", "listing", "answered"}
               /\ at' = "listed" => files' = <<>>
               /\ at' = "merging" => seen' <= Len(result')
               /\ at' \in {"listing", "answered"} => current' \in 1..Len(files')
  BY <1>2, <1>3, <1>4 DEF ListTypeInv, ListTypeOK, AllPaths
<1>6. CASE UNCHANGED listVars
  BY <1>1, <1>6 DEF listVars, ListTypeInv, ListTypeOK
<1>7. CASE Sort
  <2>1. files' \in Seq(listed)
    BY <1>2, <1>7, SortsIs DEF Sort
  <2>2. files' \in Seq(AllPaths) /\ Len(files') \in Nat
    BY <1>2, <2>1, SequenceOver, RangeIs
  <2>3. files = <<>> /\ seen = 0 /\ current = 0
    BY <1>1, <1>7 DEF Sort, ListTypeInv
  <2>4. CopyDirectory(root) \in AllPaths /\ <<root>> \in Seq(AllPaths)
    BY <1>2, CopyDirectoryIs
  <2>5. prevDir' \in AllPaths /\ extras' \in Seq(AllPaths)
    <3>1. \/ prevDir' = prevDir /\ extras' = extras
          \/ prevDir' = CopyDirectory(root) /\ (extras' = <<>> \/ extras' = <<root>>)
      BY <1>7 DEF Sort
    <3>2. <<>> \in Seq(AllPaths)
      OBVIOUS
    <3> QED
      BY <1>1, <2>4, <3>1, <3>2
  <2>6. /\ seen' = seen /\ current' = current /\ result' = result
        /\ at' \in {"fixing", "done"}
    BY <1>7 DEF Sort
  <2> QED
    BY <1>1, <2>2, <2>3, <2>5, <2>6
<1>8. CASE LookAtFile
  <2> DEFINE dir == CopyDirectory(files[seen + 1])
  <2>1. seen + 1 \in 1..Len(files)
    BY <1>1, <1>8 DEF LookAtFile
  <2>2. dir \in AllPaths
    BY <1>1, <2>1, CopyDirectoryIs
  <2>3. Missing(prevDir, dir) \in Seq(AllPaths)
    BY <1>1, <2>2, MissingIs
  <2>4. extras \o Missing(prevDir, dir) \in Seq(AllPaths)
    <3> DEFINE M == Missing(prevDir, dir)
    <3> HIDE DEF M, dir
    <3> QED
      BY <1>1, <2>3 DEF M
  <2>5. extras' \in Seq(AllPaths) /\ prevDir' \in AllPaths
    BY <1>1, <1>8, <2>2, <2>4 DEF LookAtFile
  <2>6. seen' \in 0..Len(files)
    BY <1>1, <1>8, <2>1 DEF LookAtFile
  <2> QED
    BY <1>1, <1>8, <2>5, <2>6 DEF LookAtFile
<1>9. CASE StartMerging
  <2>1. seen' <= Len(result')
    BY <1>1, <1>9 DEF StartMerging
  <2> QED
    BY <1>1, <1>9, <2>1 DEF StartMerging
<1>10. CASE MergeFile
  <2>1. seen + 1 \in 1..Len(files) /\ seen + 1 \in 0..Len(files)
    BY <1>1, <1>10 DEF MergeFile
  <2>2. Append(result, files[seen + 1]) \in Seq(AllPaths)
    BY <1>1, <2>1, AppendTyped
  <2>3. Len(Append(result, files[seen + 1])) = Len(result) + 1
    BY <1>1, <2>1, AppendTyped
  <2>4. seen' <= Len(result')
    BY <1>1, <1>10, <2>3 DEF MergeFile, ListTypeInv
  <2> QED
    BY <1>1, <1>10, <2>1, <2>2, <2>4 DEF MergeFile
<1>11. CASE MergeExtra
  <2>1. Taken \in Int /\ Taken < Len(extras)
    BY <1>1, <1>11 DEF MergeExtra, Taken
  <2>2. Taken >= 0 /\ seen <= Len(result)
    BY <1>1, <1>11 DEF MergeExtra, Taken, ListTypeInv
  <2>3. Taken + 1 \in 1..Len(extras)
    BY <1>1, <2>1, <2>2
  <2>4. /\ Append(result, extras[Taken + 1]) \in Seq(AllPaths)
        /\ Len(Append(result, extras[Taken + 1])) = Len(result) + 1
    BY <1>1, <2>3, AppendTyped
  <2>5. seen' <= Len(result')
    BY <1>1, <1>11, <2>2, <2>4 DEF MergeExtra
  <2> QED
    BY <1>1, <1>11, <2>4, <2>5 DEF MergeExtra
<1>12. CASE SwapFiles
  BY <1>1, <1>12 DEF SwapFiles, Taken
<1>13. CASE \E i \in DOMAIN files : CallFileList(i)
  <2>1. PICK i \in 1..Len(files) : CallFileList(i)
    BY <1>1, <1>13
  <2>2. FindFirstFileFrom(files, i) - 1 \in 0..Len(files)
    BY <1>1, FirstInList
  <2> QED
    BY <1>1, <2>1, <2>2 DEF CallFileList
<1>14. CASE ListNextFile
  <2>1. seen + 1 \in 1..Len(files) /\ seen + 1 \in 0..Len(files)
    BY <1>1, <1>14 DEF ListNextFile, NextIsListed
  <2>2. current \in 1..Len(files)
    BY <1>14 DEF ListNextFile, ListTypeInv
  <2>3. files[current] \in AllPaths /\ files[seen + 1] \in AllPaths
    BY <1>1, <2>1, <2>2
  <2>4. ListLevel \in Int /\ ListLevel >= 0 - 1
    BY <2>3, DirLevelTyped DEF ListLevel
  <2>5. CopyPath(files[seen + 1], ListLevel) \in AllPaths
    BY <2>3, <2>4, CopyPathTyped
  <2>6. Append(result, CopyPath(files[seen + 1], ListLevel)) \in Seq(AllPaths)
    BY <1>1, <2>5, AppendTyped
  <2>7. result' \in Seq(AllPaths)
    BY <1>1, <1>14, <2>6 DEF ListNextFile
  <2> QED
    BY <1>1, <1>14, <2>1, <2>2, <2>7 DEF ListNextFile
<1>15. CASE AnswerFileList
  BY <1>1, <1>15 DEF AnswerFileList, ListTypeInv
<1> QED
  BY <1>6, <1>7, <1>8, <1>9, <1>10, <1>11, <1>12, <1>13, <1>14, <1>15 DEF ListNext

-----------------------------------------------------------------------------
(* What holds in every state, phase by phase.                              *)

Fixing(s, ex, k, d) ==
    /\ IsSortedList(s) /\ s # <<>>
    /\ d.entries = Previous(s, k).entries
    /\ MissingSoFar(s, ex, k)

Merging(s, ex, k, r) ==
    /\ IsSortedList(s) /\ s # <<>>
    /\ MissingSoFar(s, ex, Len(s))
    /\ MergedTo(s, ex, k, Len(r) - k, r)

Listing(s, c, k, r) ==
    /\ IsSortedTree(s) /\ c \in Tree /\ DirLevel(c) \in Nat
    /\ \E f \in 1..(k + 1) : HeldFrom(s, c, f) /\ ListedTo(s, c, f, k, r)

TreeInv ==
    /\ ListTypeInv /\ Given
    /\ at \in {"listed", "fixing", "done"} => result = <<>>
    /\ at \in {"fixing", "merging"} => ~filesOnly
    /\ at = "fixing" => Fixing(files, extras, seen, prevDir)
    /\ at = "merging" => Merging(files, extras, seen, result)
    /\ at = "done" => IsSortedTree(files)
    /\ at \in {"listing", "answered"} => Listing(files, files[current], seen, result)
    /\ at = "answered" => ~NextIsListed

LEMMA SameTree ==
    ASSUME root' = root, listed' = listed, filesOnly' = filesOnly
    PROVE  /\ Fixing(files, extras, seen, prevDir)' <=> Fixing(files', extras', seen', prevDir')
           /\ Merging(files, extras, seen, result)' <=> Merging(files', extras', seen', result')
           /\ IsSortedTree(files)' <=> IsSortedTree(files')
           /\ Listing(files, files[current], seen, result)'
                 <=> Listing(files', files'[current'], seen', result')
<1>1. Tree' = Tree /\ Kept' = Kept
  BY DEF Tree, Kept
<1>2. IsSortedTree(files)' <=> IsSortedTree(files')
  BY <1>1 DEF IsSortedTree
<1>3. IsSortedList(files)' <=> IsSortedList(files')
  BY DEF IsSortedList
<1>4. /\ MissingSoFar(files, extras, seen)' <=> MissingSoFar(files', extras', seen')
      /\ MissingSoFar(files, extras, Len(files))' <=> MissingSoFar(files', extras', Len(files'))
  BY <1>1 DEF MissingSoFar, Passed, Above
<1>5. MergedTo(files, extras, seen, Len(result) - seen, result)'
        <=> MergedTo(files', extras', seen', Len(result') - seen', result')
  BY <1>1 DEF MergedTo
<1>6. Previous(files, seen)' = Previous(files', seen')
  BY DEF Previous
<1>7. \A f : HeldFrom(files, files[current], f)' <=> HeldFrom(files', files'[current'], f)
  BY <1>1 DEF HeldFrom, Held, Contents
<1>8. \A f : ListedTo(files, files[current], f, seen, result)'
               <=> ListedTo(files', files'[current'], f, seen', result')
  BY DEF ListedTo, ListedBy
<1> QED
  BY <1>1, <1>2, <1>3, <1>4, <1>5, <1>6, <1>7, <1>8 DEF Fixing, Merging, Listing

LEMMA ListTreeKept ==
    ASSUME [ListNext]_listVars
    PROVE  root' = root /\ listed' = listed /\ filesOnly' = filesOnly
BY DEF ListNext, Sort, LookAtFile, StartMerging, MergeFile, MergeExtra, SwapFiles,
       CallFileList, ListNextFile, AnswerFileList, listVars

LEMMA TreeInit == ASSUME NamesDiffer, ListInit PROVE TreeInv
<1>1. ListTypeInv /\ Given
  BY ListTypeInit, GivenAtFirst
<1> QED
  BY <1>1 DEF TreeInv, ListInit

LEMMA SortedListIs ==
    ASSUME Given, NEW s \in Sorts(listed)
    PROVE  IsSortedList(s)
<1>1. listed \subseteq AllPaths /\ IsFiniteSet(listed)
  BY DEF Given, IsListing
<1>2. s \in Seq(listed) /\ Range(s) = listed /\ IsSorted(s, NotAfter)
      /\ \A i, j \in 1..Len(s) : i # j => s[i] # s[j]
  BY <1>1, SortsIs
<1>3. Tidy(Tree) /\ listed \subseteq Tree
  BY TreeIsTidy, TreeIs
<1>4. s \in Seq(Tree)
  BY <1>2, <1>3, SequenceOver
<1>5. Ordered(s)
  BY <1>2, <1>3, <1>4, SortedIsInOrder
<1> QED
  BY <1>2, <1>5 DEF IsSortedList

LEMMA NothingListed ==
    ASSUME listed = {}
    PROVE  IsSortedTree(<<>>)
<1>1. Tree = {}
  BY TreeIs
<1>2. <<>> \in Seq(Tree) /\ Len(<<>>) = 0 /\ Range(<<>>) = {}
  BY DEF Range
<1> QED
  BY <1>1, <1>2 DEF IsSortedTree, Ordered, Kept

LEMMA SortStep ==
    ASSUME TreeInv, Sort
    PROVE  /\ at' = "fixing" => Fixing(files', extras', seen', prevDir')
           /\ at' = "done" => IsSortedTree(files')
           /\ result' = <<>> /\ at' \in {"fixing", "done"}
           /\ at' = "fixing" => ~filesOnly'
<1>1. ListTypeInv /\ Given /\ result = <<>> /\ seen = 0
  <2>1. at = "listed" /\ files = <<>> /\ Len(files) = 0
    BY DEF TreeInv, ListTypeInv, Sort
  <2> QED
    BY <2>1 DEF TreeInv, ListTypeInv, ListTypeOK
<1>2. IsSortedList(files')
  BY <1>1, SortedListIs DEF Sort
<1>3. root \in AllPaths
  BY <1>1, GivenFacts
<1>4. CASE files' # <<>> /\ ~filesOnly
  <2>1. MissingSoFar(files', extras', 0)
    BY <1>1, <1>2, <1>4, RootMissing DEF Sort
  <2>2. prevDir'.entries = Previous(files', 0).entries
    BY <1>3, <1>4, CopyDirectoryIs DEF Sort, Previous
  <2>3. seen' = 0
    BY <1>1 DEF Sort
  <2>4. Fixing(files', extras', seen', prevDir')
    BY <1>2, <1>4, <2>1, <2>2, <2>3 DEF Fixing
  <2> QED
    BY <1>1, <1>4, <2>4 DEF Sort
<1>5. CASE files' = <<>>
  <2>1. listed = {}
    <3>1. Range(<<>>) = {}
      BY DEF Range
    <3> QED
      BY <1>2, <1>5, <3>1 DEF IsSortedList
  <2>2. IsSortedTree(files')
    BY <1>5, <2>1, NothingListed
  <2> QED
    BY <1>1, <1>5, <2>2 DEF Sort
<1>6. CASE filesOnly
  <2>1. Kept = listed
    BY <1>1, <1>6, KeptFiles DEF ListTypeInv
  <2>2. IsSortedTree(files')
    BY <1>2, <2>1, TreeIs, SequenceOver DEF IsSortedList, IsSortedTree
  <2> QED
    BY <1>1, <1>6, <2>2 DEF Sort
<1> QED
  BY <1>4, <1>5, <1>6

LEMMA LookStep ==
    ASSUME TreeInv, LookAtFile
    PROVE  /\ Fixing(files', extras', seen', prevDir') /\ at' = "fixing" /\ result' = <<>>
           /\ ~filesOnly'
<1>1. ListTypeInv /\ Given /\ result = <<>> /\ Fixing(files, extras, seen, prevDir)
  BY DEF TreeInv, ListTypeInv, LookAtFile
<1>2. /\ extras \in Seq(AllPaths) /\ seen \in Nat /\ prevDir \in AllPaths
      /\ \A i \in 1..Len(files) : files[i] \in AllPaths
      /\ Len(files) \in Nat
  BY <1>1, ListTypeFacts
<1> DEFINE p == files[seen + 1]
           dir == CopyDirectory(p)
           M == Missing(prevDir, dir)
<1>3. seen < Len(files) /\ seen + 1 \in 1..Len(files) /\ p \in AllPaths
  BY <1>2 DEF LookAtFile
<1>4. dir \in AllPaths /\ dir.entries = p.entries
  BY <1>3, CopyDirectoryIs
<1>5. extras' = extras \o M
  <2>1. CASE Connected(prevDir, dir, p)
    <3>1. M = <<>>
      BY <1>2, <1>4, <2>1, ConnectedMissesNothing
    <3>2. extras' = extras
      BY <2>1 DEF LookAtFile
    <3>3. extras \o <<>> = extras
      BY <1>2
    <3> QED
      BY <3>1, <3>2, <3>3
  <2>2. CASE ~Connected(prevDir, dir, p)
    BY <2>2 DEF LookAtFile
  <2> QED
    BY <2>1, <2>2
<1>6. MissingSoFar(files, extras \o M, seen + 1)
  <2> HIDE DEF p, dir, M
  <2>1. IsSortedList(files) /\ MissingSoFar(files, extras, seen)
        /\ prevDir.entries = Previous(files, seen).entries
    BY <1>1 DEF Fixing
  <2> QED
    BY <1>1, <1>2, <1>3, <1>4, <2>1, MissingNext DEF p, M
<1>7. files' = files /\ seen' = seen + 1 /\ prevDir' = dir
  BY DEF LookAtFile
<1>8. dir.entries = Previous(files, seen + 1).entries
  BY <1>2, <1>4 DEF Previous
<1> HIDE DEF p, dir, M
<1>9. Fixing(files', extras', seen', prevDir')
  BY <1>1, <1>5, <1>6, <1>7, <1>8 DEF Fixing
<1>10. ~filesOnly'
  BY DEF TreeInv, LookAtFile
<1> QED
  BY <1>1, <1>9, <1>10 DEF LookAtFile

LEMMA StartStep ==
    ASSUME TreeInv, StartMerging
    PROVE  /\ at' = "done" => IsSortedTree(files')
           /\ at' = "merging" => Merging(files', extras', seen', result')
           /\ result' = <<>> /\ at' \in {"done", "merging"} /\ ~filesOnly'
<1>1. /\ ListTypeInv /\ Given /\ result = <<>> /\ Fixing(files, extras, seen, prevDir)
      /\ ~filesOnly /\ ~filesOnly'
  BY DEF TreeInv, ListTypeInv, StartMerging
<1>2. IsSortedList(files) /\ files # <<>> /\ MissingSoFar(files, extras, Len(files))
  BY <1>1 DEF Fixing, StartMerging
<1>3. /\ files' = files /\ extras' = extras /\ seen' = 0 /\ result' = <<>>
      /\ at' = IF extras = <<>> THEN "done" ELSE "merging"
  BY <1>1 DEF StartMerging
<1>4. CASE extras = <<>>
  <2>1. IsSortedTree(files)
    BY <1>1, <1>2, <1>4, NothingMissing
  <2> QED
    BY <1>1, <1>3, <1>4, <2>1
<1>5. CASE extras # <<>>
  <2>1. files \in Seq(Tree) /\ extras \in Seq(Tree)
    BY <1>2, ListsOverTree
  <2>2. MergedTo(files, extras, 0, 0, <<>>)
    BY <2>1, MergedNone
  <2>3. Len(<<>>) - 0 = 0
    OBVIOUS
  <2>4. Merging(files, extras, 0, <<>>)
    BY <1>2, <2>2, <2>3 DEF Merging
  <2> QED
    BY <1>1, <1>3, <1>5, <2>4
<1> QED
  BY <1>4, <1>5

LEMMA MergeStep ==
    ASSUME TreeInv, MergeFile \/ MergeExtra
    PROVE  Merging(files', extras', seen', result') /\ at' = "merging" /\ ~filesOnly'
<1>1. /\ ListTypeInv /\ Given /\ Merging(files, extras, seen, result) /\ at = "merging"
      /\ ~filesOnly'
  BY DEF TreeInv, ListTypeInv, MergeFile, MergeExtra
<1>2. /\ IsSortedList(files) /\ files # <<>> /\ MissingSoFar(files, extras, Len(files))
      /\ MergedTo(files, extras, seen, Taken, result)
  BY <1>1 DEF Merging, Taken
<1>3. files \in Seq(Tree) /\ extras \in Seq(Tree) /\ Ordered(files) /\ Ordered(extras)
  BY <1>2, ListsOverTree
<1>4. /\ seen \in Nat /\ Len(files) \in Nat /\ Len(extras) \in Nat /\ Len(result) \in Nat
      /\ seen <= Len(result) /\ Taken \in Nat
  BY <1>1, ListTypeFacts DEF ListTypeInv, Taken
<1>5. result \in Seq(Tree)
  BY <1>2 DEF MergedTo
<1>6. CASE MergeFile
  <2>1. seen < Len(files) /\ seen + 1 \in 1..Len(files)
    BY <1>4, <1>6 DEF MergeFile
  <2>2. Taken < Len(extras) => Comes(files[seen + 1], extras[Taken + 1])
    <3> SUFFICES ASSUME Taken < Len(extras) PROVE Comes(files[seen + 1], extras[Taken + 1])
      OBVIOUS
    <3>1. Taken + 1 \in 1..Len(extras) /\ ~Less(extras[Taken + 1], files[seen + 1])
      BY <1>4, <1>6 DEF MergeFile
    <3> QED
      BY <1>1, <1>2, <2>1, <3>1, ListedOrMissing
  <2>3. MergedTo(files, extras, seen + 1, Taken, Append(result, files[seen + 1]))
    BY <1>1, <1>2, <1>3, <2>1, <2>2, MergedNext
  <2>4. files[seen + 1] \in Tree
    BY <1>3, <2>1
  <2>5. Len(Append(result, files[seen + 1])) = Len(result) + 1
    BY <1>5, <2>4, AppendTyped
  <2>6. /\ files' = files /\ extras' = extras /\ seen' = seen + 1 /\ at' = "merging"
        /\ result' = Append(result, files[seen + 1])
    BY <1>1, <1>6 DEF MergeFile
  <2>7. Len(result') - seen' = Taken
    BY <1>4, <2>5, <2>6 DEF Taken
  <2> QED
    BY <1>1, <1>2, <2>3, <2>6, <2>7 DEF Merging
<1>7. CASE MergeExtra
  <2>1. Taken < Len(extras) /\ Taken + 1 \in 1..Len(extras)
    BY <1>4, <1>7 DEF MergeExtra
  <2>2. seen < Len(files) => Comes(extras[Taken + 1], files[seen + 1])
    <3> SUFFICES ASSUME seen < Len(files) PROVE Comes(extras[Taken + 1], files[seen + 1])
      OBVIOUS
    <3>1. seen + 1 \in 1..Len(files) /\ Less(extras[Taken + 1], files[seen + 1])
      BY <1>4, <1>7 DEF MergeExtra
    <3> QED
      BY <1>1, <1>2, <2>1, <3>1, ListedOrMissing
  <2>3. MergedTo(extras, files, Taken, seen, result)
    BY <1>2, <1>3, MergedBoth
  <2>4. MergedTo(extras, files, Taken + 1, seen, Append(result, extras[Taken + 1]))
    BY <1>1, <1>3, <2>1, <2>2, <2>3, MergedNext
  <2>5. MergedTo(files, extras, seen, Taken + 1, Append(result, extras[Taken + 1]))
    BY <1>3, <2>4, MergedBoth
  <2>6. extras[Taken + 1] \in Tree
    BY <1>3, <2>1
  <2>7. Len(Append(result, extras[Taken + 1])) = Len(result) + 1
    BY <1>5, <2>6, AppendTyped
  <2>8. /\ files' = files /\ extras' = extras /\ seen' = seen /\ at' = "merging"
        /\ result' = Append(result, extras[Taken + 1])
    BY <1>1, <1>7 DEF MergeExtra
  <2>9. Len(result') - seen' = Taken + 1
    BY <1>4, <2>7, <2>8 DEF Taken
  <2> QED
    BY <1>1, <1>2, <2>5, <2>8, <2>9 DEF Merging
<1> QED
  BY <1>6, <1>7

LEMMA SwapStep ==
    ASSUME TreeInv, SwapFiles
    PROVE  IsSortedTree(files') /\ at' = "done" /\ result' = <<>>
<1>1. Given /\ ~filesOnly /\ Merging(files, extras, seen, result)
  BY DEF TreeInv, ListTypeInv, SwapFiles
<1>2. /\ IsSortedList(files) /\ files # <<>> /\ MissingSoFar(files, extras, Len(files))
      /\ MergedTo(files, extras, Len(files), Len(extras), result)
  BY <1>1 DEF Merging, Taken, SwapFiles
<1>3. IsSortedTree(result)
  BY <1>1, <1>2, MergedAll
<1> QED
  BY <1>3 DEF SwapFiles

LEMMA CallStep ==
    ASSUME TreeInv, NEW i \in 1..Len(files), CallFileList(i)
    PROVE  Listing(files', files'[current'], seen', result') /\ at' = "listing"
<1>1. Given /\ IsSortedTree(files) /\ result = <<>>
  BY DEF TreeInv, ListTypeInv, CallFileList
<1> DEFINE c == files[i]
           f == FindFirstFileFrom(files, i)
<1>2. c \in Tree
  BY <1>1, SortedTreeFacts
<1>3. f \in 1..i /\ i \in Nat /\ DirLevel(c) \in Nat /\ HeldFrom(files, c, f)
  <2>1. CASE c.isFile
    BY <1>1, <2>1, HeldFromFile
  <2>2. CASE ~c.isFile
    <3>1. f = i /\ DirLevel(c) \in Nat /\ HeldFrom(files, c, f)
      BY <1>1, <2>2, HeldFromDirectory
    <3> HIDE DEF f
    <3> QED
      BY <3>1
  <2> QED
    BY <2>1, <2>2
<1>4. /\ files' = files /\ current' = i /\ seen' = f - 1 /\ result' = <<>> /\ at' = "listing"
  BY <1>1 DEF CallFileList
<1> HIDE DEF c, f
<1>5. ListedTo(files, c, f, f - 1, <<>>)
  BY <1>3, ListedNone
<1>6. f \in 1..((f - 1) + 1)
  BY <1>3
<1>7. Listing(files, c, f - 1, <<>>)
  BY <1>1, <1>2, <1>3, <1>5, <1>6 DEF Listing
<1> QED
  BY <1>4, <1>7 DEF c

LEMMA NextFileStep ==
    ASSUME TreeInv, ListNextFile
    PROVE  Listing(files', files'[current'], seen', result') /\ at' = "listing"
<1>1. Given /\ Listing(files, files[current], seen, result) /\ at = "listing"
  BY DEF TreeInv, ListTypeInv, ListNextFile
<1>2. seen \in Nat
  BY ListTypeFacts DEF TreeInv
<1> DEFINE c == files[current]
<1>3. seen < Len(files) /\ InDirectory(files[seen + 1], c)
  BY DEF ListNextFile, NextIsListed, ListLevel, InDirectory
<1>4. result' = Answered1(files[seen + 1], c, result)
  BY DEF ListNextFile, ListLevel, Answered1
<1>5. /\ files' = files /\ current' = current /\ seen' = seen + 1 /\ at' = "listing"
  BY <1>1 DEF ListNextFile
<1> HIDE DEF c
<1>6. IsSortedTree(files) /\ c \in Tree /\ DirLevel(c) \in Nat
  BY <1>1 DEF Listing, c
<1>7. PICK f \in 1..(seen + 1) : HeldFrom(files, c, f) /\ ListedTo(files, c, f, seen, result)
  BY <1>1 DEF Listing, c
<1>8. f \in Nat \ {0} /\ f <= seen + 1 /\ f \in 1..((seen + 1) + 1)
  BY <1>2, <1>7
<1>9. ListedTo(files, c, f, seen + 1, Answered1(files[seen + 1], c, result))
  BY <1>1, <1>2, <1>3, <1>6, <1>7, <1>8, ListedNext
<1>10. Listing(files, c, seen + 1, Answered1(files[seen + 1], c, result))
  BY <1>6, <1>7, <1>8, <1>9 DEF Listing
<1> QED
  BY <1>4, <1>5, <1>10 DEF c

LEMMA TreeStep ==
    ASSUME TreeInv, [ListNext]_listVars
    PROVE  TreeInv'
<1>1. ListTypeInv' /\ Given'
  BY ListTypeStep, ListTreeKept DEF TreeInv, Given, IsListing
<1>2. SUFFICES /\ at' \in {"listed", "fixing", "done"} => result' = <<>>
               /\ at' \in {"fixing", "merging"} => ~filesOnly'
               /\ at' = "fixing" => Fixing(files', extras', seen', prevDir')
               /\ at' = "merging" => Merging(files', extras', seen', result')
               /\ at' = "done" => IsSortedTree(files')
               /\ at' \in {"listing", "answered"} =>
                     Listing(files', files'[current'], seen', result')
               /\ at' = "answered" => ~NextIsListed'
  BY <1>1, SameTree, ListTreeKept DEF TreeInv
<1>3. CASE UNCHANGED listVars
  BY <1>3 DEF listVars, TreeInv, NextIsListed, ListLevel
<1>4. CASE Sort
  BY <1>4, SortStep
<1>5. CASE LookAtFile
  BY <1>5, LookStep
<1>6. CASE StartMerging
  BY <1>6, StartStep
<1>7. CASE MergeFile \/ MergeExtra
  BY <1>7, MergeStep
<1>8. CASE SwapFiles
  BY <1>8, SwapStep
<1>9. CASE \E i \in DOMAIN files : CallFileList(i)
  <2>1. DOMAIN files = 1..Len(files)
    BY ListTypeFacts DEF TreeInv
  <2>2. PICK i \in 1..Len(files) : CallFileList(i)
    BY <1>9, <2>1
  <2> QED
    BY <2>2, CallStep
<1>10. CASE ListNextFile
  BY <1>10, NextFileStep
<1>11. CASE AnswerFileList
  BY <1>11 DEF AnswerFileList, TreeInv, NextIsListed, ListLevel
<1> QED
  BY <1>3, <1>4, <1>5, <1>6, <1>7, <1>8, <1>9, <1>10, <1>11 DEF ListNext

LEMMA TreeGives ==
    ASSUME TreeInv
    PROVE  ListIsTheSortedTree /\ SearchFindsEveryPath /\ FileListIsTheDirectory
<1>1. Given /\ ListTypeInv
  BY DEF TreeInv, ListTypeInv
<1>2. Tidy(Tree)
  BY <1>1, TreeIsTidy
<1>3. ASSUME at = "done"
      PROVE  /\ Range(files) = Kept /\ IsSorted(files, Less)
             /\ \A i \in 1..Len(files) : FindEntryInList(files, files[i]) = i
  <2>1. files \in Seq(Tree) /\ Range(files) = Kept /\ Ordered(files)
    BY <1>3 DEF TreeInv, IsSortedTree
  <2>2. IsSorted(files, Less)
    BY <1>2, <2>1, SortedIsInOrder
  <2>3. \A i \in 1..Len(files) : FindEntryInList(files, files[i]) = i
    BY <1>2, <2>1, FindsInOrder
  <2> QED
    BY <2>1, <2>2, <2>3
<1>4. FileListIsTheDirectory
  <2> SUFFICES ASSUME at = "answered" PROVE FileListIsTheDirectory
    BY DEF FileListIsTheDirectory
  <2> DEFINE c == files[current]
  <2>1. Listing(files, c, seen, result) /\ ~(seen < Len(files) /\ InDirectory(files[seen + 1], c))
    BY DEF TreeInv, NextIsListed, ListLevel, InDirectory
  <2>2. seen \in Nat /\ seen <= Len(files)
    BY <1>1, ListTypeFacts
  <2> HIDE DEF c
  <2>3. IsSortedTree(files) /\ c \in Tree /\ DirLevel(c) \in Nat
    BY <2>1 DEF Listing
  <2>4. PICK f \in 1..(seen + 1) : HeldFrom(files, c, f) /\ ListedTo(files, c, f, seen, result)
    BY <2>1 DEF Listing
  <2>5. f \in Nat \ {0} /\ f <= seen + 1
    BY <2>2, <2>4
  <2>6. /\ Range(result) = {Dir(q.entries) : q \in Held(c)}
        /\ \A a, b \in 1..Len(result) :
              a < b => \E p, q \in Held(c) :
                          /\ Less(p, q)
                          /\ result[a] = Dir(p.entries) /\ result[b] = Dir(q.entries)
    BY <1>1, <2>1, <2>2, <2>3, <2>4, <2>5, ListedAll
  <2> QED
    BY <2>6 DEF FileListIsTheDirectory, c
<1> QED
  BY <1>3, <1>4 DEF ListIsTheSortedTree, SearchFindsEveryPath

(***************************************************************************)
(* FixUpFileTree and fileList (book.cpp:101-210) keep the types of what    *)
(* they work on and their indexes in the list, whatever was listed and     *)
(* however its names are ordered.                                          *)
(***************************************************************************)
THEOREM FileListsAreTyped == ListSpec => []ListTypeOK
<1>1. ListTypeInv => ListTypeOK
  BY DEF ListTypeInv
<1> QED
  BY ListTypeInit, ListTypeStep, <1>1, PTL DEF ListSpec

(***************************************************************************)
(* FixUpFileTree (book.cpp:101-157) leaves of every listing every          *)
(* directory and file once, or every file if files are all that is wanted, *)
(* and everything in order, if the names in each directory are told apart  *)
(* by the order.                                                           *)
(***************************************************************************)
THEOREM FixUpGivesTheSortedTree ==
    ASSUME NamesDiffer PROVE ListSpec => []ListIsTheSortedTree
<1>1. ListInit => TreeInv
  BY TreeInit
<1>2. TreeInv /\ [ListNext]_listVars => TreeInv'
  BY TreeStep
<1>3. TreeInv => ListIsTheSortedTree
  BY TreeGives
<1> QED
  BY <1>1, <1>2, <1>3, PTL DEF ListSpec

(***************************************************************************)
(* From every position of such a list fileList (book.cpp:171-210) answers  *)
(* what the current directory holds, once and in order.                    *)
(***************************************************************************)
THEOREM FileListAnswersTheDirectory ==
    ASSUME NamesDiffer PROVE ListSpec => []FileListIsTheDirectory
<1>1. ListInit => TreeInv
  BY TreeInit
<1>2. TreeInv /\ [ListNext]_listVars => TreeInv'
  BY TreeStep
<1>3. TreeInv => FileListIsTheDirectory
  BY TreeGives
<1> QED
  BY <1>1, <1>2, <1>3, PTL DEF ListSpec

(***************************************************************************)
(* enter's search (book.cpp:42-70) finds every path of such a list at its  *)
(* own index.                                                              *)
(***************************************************************************)
THEOREM EveryPathIsFound ==
    ASSUME NamesDiffer PROVE ListSpec => []SearchFindsEveryPath
<1>1. ListInit => TreeInv
  BY TreeInit
<1>2. TreeInv /\ [ListNext]_listVars => TreeInv'
  BY TreeStep
<1>3. TreeInv => SearchFindsEveryPath
  BY TreeGives
<1> QED
  BY <1>1, <1>2, <1>3, PTL DEF ListSpec
=============================================================================
