---------------------------- MODULE ExplorerOps ----------------------------
(***************************************************************************)
(* What each operation of manga::BookExplorer does, as functions from the  *)
(* explorer's fields and the disk to the answer and the new fields.  The   *)
(* state machines BookExplorer, FileWalk, Book and Reader are built on     *)
(* these.                                                                  *)
(*                                                                         *)
(* A disk is a record                                                      *)
(*   files    : root |-> the sorted list FixUpFileTree makes of the tree;  *)
(*              a root is listed once, before anything in it is deleted    *)
(*   archives : path of an archive |-> the sorted list of its entries      *)
(*   present  : the file paths that have not been deleted                  *)
(* and, for the operations of Book, three sets of PathToFiles              *)
(*   images   : those whose bytes decode to an image                       *)
(*   damaged  : those a decoder recognizes and then fails on               *)
(*   empty    : those of 0 bytes                                           *)
(*                                                                         *)
(* The loops of toNextFile and toPreviousFile are given in closed form:    *)
(* they end at the nearest "stop", a file one can read.  FileWalk takes    *)
(* the same loops one iteration at a time and is checked against this.     *)
(***************************************************************************)
EXTENDS FilePath

PathToFile(f, a) == [filePath |-> f, pathInArchive |-> a]

NoPathToFile == PathToFile(NoPath, NoPath)

SamePlace(p, q) == /\ SamePath(p.filePath, q.filePath)
                   /\ SamePath(p.pathInArchive, q.pathInArchive)

\* A file is not a directory: nothing in the list lies below an archive.
NothingBelowArchives(disk, list) ==
    \A p \in DOMAIN disk.archives, i \in 1..Len(list) :
        StartsWith(list[i], p, Level(p)) => list[i] = p

\* The disks whose paths are in P.
DiskOK(P, disk) ==
    /\ disk.files \in [DOMAIN disk.files -> Seq(P)]
    /\ disk.archives \in [DOMAIN disk.archives -> Seq(P)]
    /\ DOMAIN disk.archives \subseteq P
    /\ disk.present \subseteq P
    /\ \A root \in DOMAIN disk.files : NothingBelowArchives(disk, disk.files[root])

\* A file has a name, is listed once and has nothing below it.
FilesAreLeaves(list) ==
    \A i, j \in 1..Len(list) :
        list[i].isFile => /\ ~IsEmptyPath(list[i])
                          /\ StartsWith(list[j], list[i], Level(list[i])) => i = j

\* The disks on which that is true of every list: no archive holds two
\* entries of the same name.
NamesAreUnique(disk) ==
    /\ \A root \in DOMAIN disk.files : FilesAreLeaves(disk.files[root])
    /\ \A p \in DOMAIN disk.archives : FilesAreLeaves(disk.archives[p])

\* getFileList of the root directory; there is nothing to list elsewhere.
ListFiles(disk, root) ==
    IF root \in DOMAIN disk.files THEN disk.files[root] ELSE <<>>

\* archive::recognize finds an archiver that can open the file.
Recognized(disk, p) == /\ p.isFile
                       /\ p \in disk.present
                       /\ p \in DOMAIN disk.archives

-----------------------------------------------------------------------------
(* The fields.  archive_.currentFile and files_in_archive_ are read only   *)
(* while current_archive_ is set, so what a failed openArchive leaves in   *)
(* them is not kept.                                                       *)

ClosedArchive == [open |-> FALSE, list |-> <<>>, cur |-> 1]

OpenedArchive(disk, p, toBeginning) ==
    LET list == disk.archives[p]
    IN  [open |-> TRUE, list |-> list, cur |-> IF toBeginning THEN 1 ELSE Len(list)]

\* The explorers whose root is in R and whose lists hold elements of P.
Explorers(R, P) == [root : R, files : Seq(P), cur : Nat \ {0},
                    arc : [open : BOOLEAN, list : Seq(P), cur : Nat]]

NewExplorer == [root |-> NoPath, files |-> <<>>, cur |-> 1, arc |-> ClosedArchive]

CloseArchive(ex) == [ex EXCEPT !.arc = ClosedArchive]

InArchive(ex) == ex.arc.open /\ ex.arc.list # <<>>

\* The asserts of getCurrentPos.
AssertsHold(ex) == /\ ex.files # <<>> => ex.cur \in 1..Len(ex.files)
                   /\ InArchive(ex) => ex.arc.cur \in 1..Len(ex.arc.list)

GetCurrentPos(ex) ==
    PathToFile(IF ex.files # <<>> THEN ex.files[ex.cur] ELSE NoPath,
               IF InArchive(ex) THEN ex.arc.list[ex.arc.cur] ELSE NoPath)

Ok(ex)   == [ok |-> TRUE, ex |-> ex]
Fail(ex) == [ok |-> FALSE, ex |-> ex]

-----------------------------------------------------------------------------
(* enter, setRoot, back                                                    *)

EnterEntry(ex, entry) ==
    LET a == FindEntryInList(ex.arc.list, entry)
    IN  IF a = 0 THEN Fail(ex) ELSE Ok([ex EXCEPT !.arc.cur = a])

\* Mutant: the archive that was open stays open.
EnterDirectoryBesideArchive(ex, dir) ==
    LET f == FindEntryInList(ex.files, dir)
    IN  IF f = 0 THEN Fail(ex) ELSE Ok([ex EXCEPT !.cur = f])

EnterDirectory(ex, dir) ==
    LET f == FindEntryInList(ex.files, dir)
    IN  IF f = 0 THEN Fail(ex) ELSE Ok(CloseArchive([ex EXCEPT !.cur = f]))

\* The index moves before the archive is opened, and stays moved if it fails.
EnterFile(ex, disk, path) ==
    LET f == FindEntryInList(ex.files, path.filePath)
        moved == [ex EXCEPT !.cur = f]
    IN  IF f = 0 THEN Fail(ex)
        ELSE IF Recognized(disk, path.filePath)
        THEN EnterEntry([moved EXCEPT !.arc = OpenedArchive(disk, path.filePath, TRUE)],
                        path.pathInArchive)
        ELSE [ok |-> IsEmptyPath(path.pathInArchive), ex |-> CloseArchive(moved)]

EnterPath(ex, disk, path) ==
    LET pos == GetCurrentPos(ex)
        sameFile == SamePath(pos.filePath, path.filePath)
    IN  IF IsEmptyPath(ex.root) \/ SamePlace(path, NoPathToFile) THEN Fail(ex)
        ELSE IF SamePlace(pos, path) THEN Ok(ex)
        ELSE IF ~path.filePath.isFile
        THEN IF sameFile THEN Fail(ex) ELSE EnterDirectory(ex, path.filePath)
        ELSE IF sameFile /\ ex.arc.open THEN EnterEntry(ex, path.pathInArchive)
        ELSE EnterFile(ex, disk, path)

\* The fields setRoot assigns before it enters the root directory.
WithRoot(ex, disk, root) ==
    [ex EXCEPT !.root = root, !.files = ListFiles(disk, root)]

SetRootPath(ex, disk, root) ==
    EnterPath(WithRoot(ex, disk, root), disk, PathToFile(root, NoPath))

GoBack(ex, disk) ==
    LET pos == GetCurrentPos(ex)
    IN  EnterPath(ex, disk,
            IF ~IsEmptyPath(pos.pathInArchive)
            THEN [pos EXCEPT !.pathInArchive = RemoveLastEntry(@)]
            ELSE [pos EXCEPT !.filePath = RemoveLastEntry(@)])

-----------------------------------------------------------------------------
(* toNextFile, toPreviousFile, toFirstFile, toLastFile                     *)
(*                                                                         *)
(* A stop is a pair <<f, a>>: entry a of the archive that is file f, or    *)
(* <<f, 0>> when file f is not an archive.                                 *)

\* The archive open at file f, or the one that would be opened there.
ArchiveAt(ex, disk, f) ==
    IF ex.arc.open /\ f = ex.cur THEN ex.arc
    ELSE IF Recognized(disk, ex.files[f]) THEN OpenedArchive(disk, ex.files[f], TRUE)
    ELSE ClosedArchive

FileEntries(list) == {a \in 1..Len(list) : list[a].isFile}

\* The stops a walk that is not inside an archive can reach at file f.
StopsAt(disk, files, f) ==
    IF ~files[f].isFile THEN {}
    ELSE IF Recognized(disk, files[f]) THEN FileEntries(disk.archives[files[f]])
    ELSE {0}

StopsAfter(ex, disk) ==
       (IF ex.arc.open
        THEN {<<ex.cur, a>> : a \in {b \in FileEntries(ex.arc.list) : b > ex.arc.cur}}
        ELSE {})
    \union UNION {{<<f, a>> : a \in StopsAt(disk, ex.files, f)} :
                    f \in (ex.cur + 1)..Len(ex.files)}

\* Mutant: walking back, archives are opened at their beginning.
StopsBeforeFromBeginning(ex, disk) ==
       (IF ex.arc.open
        THEN {<<ex.cur, a>> : a \in {b \in FileEntries(ex.arc.list) : b < ex.arc.cur}}
        ELSE {})
    \union UNION {{<<f, a>> : a \in StopsAt(disk, ex.files, f) \ (Nat \ {0, 1})} :
                    f \in {g \in 1..Len(ex.files) : g < ex.cur}}

StopsBefore(ex, disk) ==
       (IF ex.arc.open
        THEN {<<ex.cur, a>> : a \in {b \in FileEntries(ex.arc.list) : b < ex.arc.cur}}
        ELSE {})
    \union UNION {{<<f, a>> : a \in StopsAt(disk, ex.files, f)} :
                    f \in {g \in 1..Len(ex.files) : g < ex.cur}}

Before(s, t) == s[1] < t[1] \/ (s[1] = t[1] /\ s[2] < t[2])

Nearest(S)  == CHOOSE s \in S : \A t \in S \ {s} : Before(s, t)
Farthest(S) == CHOOSE s \in S : \A t \in S \ {s} : Before(t, s)

\* The explorer once its loop has stopped at s.
StopAt(ex, disk, s) ==
    [ex EXCEPT !.cur = s[1],
               !.arc = IF s[2] = 0 THEN ClosedArchive
                       ELSE [ArchiveAt(ex, disk, s[1]) EXCEPT !.cur = s[2]]]

\* Mutant: the loop of toNextFile moves before it looks for the end.
AfterLastIndex(ex) == CloseArchive([ex EXCEPT !.cur = Len(ex.files) + 1])

(***************************************************************************)
(* A loop that finds no file has closed the archive and leaves the index   *)
(* at the end it ran into: the position it started from is lost.           *)
(***************************************************************************)
AtLastIndex(ex)  == CloseArchive(IF ex.cur < Len(ex.files)
                                 THEN [ex EXCEPT !.cur = Len(ex.files)] ELSE ex)
AtFirstIndex(ex) == CloseArchive([ex EXCEPT !.cur = 1])

NextFile(ex, disk) ==
    LET S == StopsAfter(ex, disk)
    IN  IF S = {} THEN Fail(AtLastIndex(ex)) ELSE Ok(StopAt(ex, disk, Nearest(S)))

PreviousFile(ex, disk) ==
    LET S == StopsBefore(ex, disk)
    IN  IF ex.files = <<>> THEN Fail(ex)
        ELSE IF S = {} THEN Fail(AtFirstIndex(ex))
        ELSE Ok(StopAt(ex, disk, Farthest(S)))

FirstFile(ex, disk) ==
    LET start == CloseArchive([ex EXCEPT !.cur = 1])
        first == ex.files[1]
    IN  IF ex.files = <<>> THEN Fail(start)
        ELSE IF ~first.isFile THEN NextFile(start, disk)
        ELSE IF ~Recognized(disk, first) THEN Ok(start)
        ELSE LET opened == [start EXCEPT !.arc = OpenedArchive(disk, first, TRUE)]
             IN  IF InArchive(opened) /\ opened.arc.list[1].isFile
                 THEN Ok(opened) ELSE NextFile(opened, disk)

\* toLastFile in a list that has a last file.
StartAtLastFile(ex, disk) ==
    LET start == [CloseArchive(ex) EXCEPT !.cur = Len(ex.files)]
        last  == ex.files[Len(ex.files)]
    IN  IF ~last.isFile THEN PreviousFile(start, disk)
        ELSE IF ~Recognized(disk, last) THEN Ok(start)
        ELSE LET opened == [start EXCEPT !.arc = OpenedArchive(disk, last, FALSE)]
             IN  IF InArchive(opened) /\ opened.arc.list[opened.arc.cur].isFile
                 THEN Ok(opened) ELSE PreviousFile(opened, disk)

\* Mutant: the index is set before the list is known not to be empty.
LastFileUnchecked(ex, disk) ==
    IF ex.files = <<>> THEN Fail([CloseArchive(ex) EXCEPT !.cur = Len(ex.files)])
    ELSE StartAtLastFile(ex, disk)

LastFile(ex, disk) ==
    IF ex.files = <<>> THEN Fail(CloseArchive(ex)) ELSE StartAtLastFile(ex, disk)

(***************************************************************************)
(* readCurrentFile has bytes to give.  An open archive is read through its *)
(* handle, so an entry stays readable when the archive has been deleted.   *)
(***************************************************************************)
Readable(ex, disk) ==
    IF ex.arc.open
    THEN InArchive(ex) /\ ex.arc.list[ex.arc.cur].isFile
    ELSE /\ ex.files # <<>>
         /\ ex.files[ex.cur].isFile
         /\ ex.files[ex.cur] \in disk.present
=============================================================================
