--------------------------- MODULE BookExplorer ---------------------------
(***************************************************************************)
(* manga::BookExplorer: a position in the files below a root directory and *)
(* in the archives among them.  One action per public operation.           *)
(*                                                                         *)
(* "aborted" is set when an operation evaluates a false assert, and        *)
(* "returned" is the last operation and its answer.                        *)
(***************************************************************************)
EXTENDS ExplorerOps

CONSTANTS Disks,      \* the disk layouts a behaviour may start with
          Roots,      \* the directories setRoot is called with
          Names       \* the entries of paths

VARIABLES disk, explorer, aborted, returned

vars == <<disk, explorer, aborted, returned>>

Paths == Path(Names)

ASSUME DisksAssumption == \A d \in Disks : DiskOK(Paths, d)
ASSUME NamesAssumption == \A d \in Disks : NamesAreUnique(d)
ASSUME RootsAssumption == Roots \subseteq {p \in Paths : ~p.isFile /\ p # NoPath}

Operations == {"none", "setRoot", "enter", "back", "toNextFile",
               "toPreviousFile", "toFirstFile", "toLastFile"}

Init == /\ disk \in Disks
        /\ explorer = NewExplorer
        /\ aborted = FALSE
        /\ returned = [op |-> "none", ok |-> TRUE]

-----------------------------------------------------------------------------

Returns(op, result) ==
    /\ explorer' = result.ex
    /\ returned' = [op |-> op, ok |-> result.ok]
    /\ UNCHANGED <<disk, aborted>>

\* assert(false) ends the process.
Aborts == /\ aborted' = TRUE
          /\ UNCHANGED <<disk, explorer, returned>>

\* setRoot keeps the index and the open archive of the previous root.
SetRoot(root) ==
    LET assigned == WithRoot(explorer, disk, root)
    IN  /\ ~aborted
        /\ IF AssertsHold(assigned)
           THEN Returns("setRoot", SetRootPath(explorer, disk, root))
           ELSE Aborts

Enter(path) ==
    /\ ~aborted
    /\ IF AssertsHold(explorer)
       THEN Returns("enter", EnterPath(explorer, disk, path))
       ELSE Aborts

Back ==
    /\ ~aborted
    /\ IF AssertsHold(explorer)
       THEN Returns("back", GoBack(explorer, disk))
       ELSE Aborts

ToNextFile     == ~aborted /\ Returns("toNextFile", NextFile(explorer, disk))
ToPreviousFile == ~aborted /\ Returns("toPreviousFile", PreviousFile(explorer, disk))
ToFirstFile    == ~aborted /\ Returns("toFirstFile", FirstFile(explorer, disk))
ToLastFile     == ~aborted /\ Returns("toLastFile", LastFile(explorer, disk))

\* What a caller can name: a file or directory of the root, and an entry.
KnownPaths ==
    LET inside(list) == {list[i] : i \in 1..Len(list)}
    IN  {PathToFile(f, NoPath) : f \in UNION {inside(disk.files[r]) : r \in Roots} \union Roots}
        \union UNION {{PathToFile(p, e) : e \in inside(disk.archives[p])} :
                      p \in DOMAIN disk.archives}

Moves == \/ \E p \in KnownPaths : Enter(p)
         \/ Back
         \/ ToNextFile
         \/ ToPreviousFile
         \/ ToFirstFile
         \/ ToLastFile

(***************************************************************************)
(* The callers in src/ make a new explorer for every root: setRoot is the  *)
(* first call and is not repeated.  Nothing in the class enforces it, and  *)
(* a second setRoot to a shorter list runs into the assert of its index.   *)
(***************************************************************************)
Fresh == explorer.root = NoPath

Next == (Fresh /\ \E r \in Roots : SetRoot(r)) \/ (~Fresh /\ Moves)

Spec == Init /\ [][Next]_vars

-----------------------------------------------------------------------------
(* Properties                                                              *)

\* The fields of an explorer hold paths and indexes (book.h:95-115).
TypeOK ==
    /\ DiskOK(Paths, disk)
    /\ explorer \in Explorers(Roots \union {NoPath}, Paths)
    /\ aborted \in BOOLEAN
    /\ returned \in [op : Operations, ok : BOOLEAN]

(***************************************************************************)
(* The asserts of getCurrentPos (book.cpp:477 and 482) hold whenever an    *)
(* operation can evaluate them: no sequence of calls leaves an index       *)
(* outside its list.                                                       *)
(***************************************************************************)
PositionInRange == ~aborted /\ AssertsHold(explorer)

(***************************************************************************)
(* readCurrentFile reads the entry from current_archive_ while the path    *)
(* shown is that of files_[fs_.currentFile] (book.cpp:473-507): the two    *)
(* must be the same archive.                                               *)
(***************************************************************************)
OpenArchiveIsCurrentFile ==
    explorer.arc.open =>
        /\ explorer.cur \in 1..Len(explorer.files)
        /\ Recognized(disk, explorer.files[explorer.cur])
        /\ explorer.arc.list = disk.archives[explorer.files[explorer.cur]]

AtStop(ex) ==
    IF ex.arc.open THEN InArchive(ex) /\ ex.arc.list[ex.arc.cur].isFile
    ELSE /\ ex.files # <<>>
         /\ ex.files[ex.cur].isFile
         /\ ~Recognized(disk, ex.files[ex.cur])

(***************************************************************************)
(* toNextFile and toPreviousFile (book.cpp:338-434) undo each other, across *)
(* directories, empty archives and the ends of archives: what the reader   *)
(* of a book sees going back is what it saw going forward.                 *)
(***************************************************************************)
StepsUndoEachOther ==
    AtStop(explorer) =>
        LET n == NextFile(explorer, disk)
            p == PreviousFile(explorer, disk)
        IN  /\ n.ok => PreviousFile(n.ex, disk) = Ok(explorer)
            /\ p.ok => NextFile(p.ex, disk) = Ok(explorer)

\* Every stop of the root, wherever the explorer is.
AllStops(ex) == UNION {{<<f, a>> : a \in StopsAt(disk, ex.files, f)} : f \in 1..Len(ex.files)}

(***************************************************************************)
(* A file's position, kept as a bookmark, leads back to that file: enter   *)
(* (book.cpp:257-325) called with it from any reachable state answers true *)
(* and ends exactly there.                                                 *)
(***************************************************************************)
EnterReturnsToAnyFile ==
    \A s \in AllStops(explorer) :
        LET there == StopAt(CloseArchive(explorer), disk, s)
        IN  EnterPath(explorer, disk, GetCurrentPos(there)) = Ok(there)
=============================================================================
