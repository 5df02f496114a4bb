------------------------------ MODULE FilePath ------------------------------
(***************************************************************************)
(* Paths as fs::FilePath keeps them: the sequence of their entries and the *)
(* is_file_ flag.  A name is any value.  The first_level_ offset of        *)
(* FilePath is 0 for every path a BookExplorer sees, so levels are lengths.*)
(*                                                                         *)
(* C++ indexes lists from 0; here, as usual in TLA+, from 1, and 0 stands  *)
(* for "not found".                                                        *)
(***************************************************************************)
EXTENDS Naturals, Sequences

Path(Names) == [entries : Seq(Names), isFile : BOOLEAN]

\* A default constructed FilePath: no entries, and not a file.
NoPath == [entries |-> <<>>, isFile |-> FALSE]

IsEmptyPath(p) == p.entries = <<>>

Level(p) == Len(p.entries)

DirLevel(p) == Level(p) - (IF p.isFile THEN 1 ELSE 0)

\* operator ==: the entries decide, is_file_ does not.
SamePath(p, q) == p.entries = q.entries

\* startsWith(other, level, _): the two directions of the comparison agree.
StartsWith(p, q, n) ==
    /\ n <= Level(p)
    /\ n <= Level(q)
    /\ \A i \in 1..n : p.entries[i] = q.entries[i]

HaveSameDirectory(p, q) ==
    /\ DirLevel(p) = DirLevel(q)
    /\ StartsWith(p, q, DirLevel(p))

\* copy(level) keeps level + 1 entries and forgets is_file_.
CopyPath(p, n) ==
    IF n >= Level(p) THEN p
    ELSE [entries |-> SubSeq(p.entries, 1, n + 1), isFile |-> FALSE]

RemoveLastEntry(p) ==
    [entries |-> IF p.entries = <<>> THEN <<>>
                 ELSE SubSeq(p.entries, 1, Len(p.entries) - 1),
     isFile  |-> FALSE]

-----------------------------------------------------------------------------
(* What book.cpp looks up in a sorted list of paths.                       *)

\* The least element of a set of indexes, 0 for the empty set.
FirstIndex(S) == IF S = {} THEN 0
                 ELSE CHOOSE i \in S : \A j \in S : i <= j

\* The list's entries that agree with p on its first n entries.
Matching(list, p, n) == {i \in 1..Len(list) : StartsWith(list[i], p, n)}

\* Mutant: files are looked up by their directory alone.
FindDirectoryInList(list, p) == FirstIndex(Matching(list, p, DirLevel(p)))

(***************************************************************************)
(* A directory is found at its first entry, a file at the first path that  *)
(* agrees with all of it: the files of its directory that come first in    *)
(* the code's search are a superset of those.                              *)
(***************************************************************************)
FindEntryInList(list, p) ==
    FirstIndex(Matching(list, p, IF p.isFile THEN Level(p) ELSE DirLevel(p)))

\* Mutant: the directory is taken to begin at the current path.
FirstFileIsCurrent(list, current) == current

(***************************************************************************)
(* The index after the last entry before current_file that lies in another *)
(* directory; the loop does not look at index 0 unless it gets that far.   *)
(***************************************************************************)
FindFirstFileFrom(list, current) ==
    LET others == {i \in 1..current : ~HaveSameDirectory(list[i], list[current])}
    IN  IF others = {} THEN 1
        ELSE 1 + (CHOOSE i \in others : \A j \in others : j <= i)
=============================================================================
