------------------------------ MODULE FileTree ------------------------------
(***************************************************************************)
(* How BookExplorer turns what a file manager or an archiver lists into    *)
(* the list it walks: FixUpFileTree sorts it, finds the directories that   *)
(* were not listed themselves, one path at a time, and merges them in.     *)
(* fileList then reads the contents of a directory off that list.          *)
(* An explorer that was made for files only, as every Book's is, has files *)
(* listed to it and only sorts them.                                       *)
(*                                                                         *)
(* A name is known to the order by its rank: WordNumberOrder ignores case  *)
(* and leading zeros, so that different names may have the same rank.      *)
(***************************************************************************)
EXTENDS FilePath, SequencesExt

CONSTANTS EntryNames,
          Rank,      \* name |-> its place in the order
          Listings   \* [root, paths, filesOnly]: a directory or archive and what it lists

\* A path is a file or a directory, and only a directory holds anything.
Consistent(S) ==
    \A p, q \in S : /\ p.entries = q.entries => p = q
                    /\ p.isFile /\ StartsWith(q, p, Level(p)) => p = q

ASSUME RankAssumption == Rank \in [EntryNames -> Nat]

ASSUME ListingsAssumption ==
    \A l \in Listings :
        /\ l.root \in Path(EntryNames) /\ ~l.root.isFile
        /\ l.paths \subseteq Path(EntryNames) /\ IsFiniteSet(l.paths)
        /\ \A p \in l.paths : StartsWith(p, l.root, Level(l.root))
        /\ Consistent(l.paths \union {l.root})
        /\ l.filesOnly \in BOOLEAN
        /\ l.filesOnly => \A p \in l.paths : p.isFile

VARIABLES root, listed, \* what was listed: a path and a set of paths
          filesOnly,    \* files_only
          files,        \* files_
          seen,         \* how many of files a loop has looked at
          prevDir, extras,
          current,      \* the file of the position, for fileList
          result,       \* of std::merge and of fileList
          at

listVars == <<root, listed, filesOnly, files, seen, prevDir, extras, current, result, at>>

-----------------------------------------------------------------------------
(* The order of paths.                                                     *)

IsDirectoryAt(p, level) == level < Level(p) \/ ~p.isFile

\* The first level on which the order tells the paths apart, 0 if none does.
FirstDifference(p, q) ==
    FirstIndex({n \in 1..Level(p) : /\ n <= Level(q)
                                    /\ \/ IsDirectoryAt(p, n) # IsDirectoryAt(q, n)
                                       \/ Rank[p.entries[n]] # Rank[q.entries[n]]})

Less(p, q) ==
    LET n == FirstDifference(p, q)
    IN  IF n = 0
        THEN \/ Level(p) < Level(q)
             \/ Level(p) = Level(q) /\ ~p.isFile /\ q.isFile
        ELSE IF IsDirectoryAt(p, n) # IsDirectoryAt(q, n) THEN IsDirectoryAt(p, n)
        ELSE Rank[p.entries[n]] < Rank[q.entries[n]]

NotAfter(p, q) == ~Less(q, p)

\* std::sort leaves equal paths in any order.
Sorts(S) == {list \in SetToSeqs(S) : IsSorted(list, NotAfter)}

\* No two directories of one directory, and no two files, are equal in the order.
ToldApart(S) ==
    \A p, q \in S : \A n \in 1..Level(p) :
        /\ n <= Level(q) /\ StartsWith(p, q, n - 1)
        /\ IsDirectoryAt(p, n) = IsDirectoryAt(q, n)
        /\ Rank[p.entries[n]] = Rank[q.entries[n]]
        => p.entries[n] = q.entries[n]

(***************************************************************************)
(* Where this does not hold (directories "2" and "02") std::sort may mix   *)
(* the entries of the two: then FixUpFileTree adds a directory that is     *)
(* listed, and fileList stops at the first path of the other one.          *)
(***************************************************************************)
NamesDiffer == \A l \in Listings : ToldApart(l.paths)

-----------------------------------------------------------------------------
(* FixUpFileTree                                                           *)

\* copy(getDirLevel()) keeps the name of a file, as that of a directory.
CopyDirectory(p) == CopyPath(p, DirLevel(p))

CommonLevel(p, q) ==
    Cardinality({n \in 1..Level(p) : StartsWith(p, q, n)})

\* Mutant: the level below the common path is taken to be there.
MissingBelowNext(prev, dir) ==
    [n \in 1..(Level(dir) - 1 - CommonLevel(prev, dir)) |->
        CopyPath(dir, CommonLevel(prev, dir) + n)]

\* The directories between the common path of prev and dir, and dir.
Missing(prev, dir) ==
    [n \in 1..(Level(dir) - 1 - CommonLevel(prev, dir)) |->
        CopyPath(dir, CommonLevel(prev, dir) + n - 1)]

\* dir is listed below prev, or is above it, or is the same.
Connected(prev, dir, p) ==
    \/ SamePath(prev, dir)
    \/ Level(dir) < Level(prev) /\ StartsWith(prev, dir, Level(dir))
    \/ Level(dir) = Level(prev) + 1 /\ StartsWith(dir, prev, Level(prev)) /\ ~p.isFile

ListInit == /\ \E l \in Listings :
                  root = l.root /\ listed = l.paths /\ filesOnly = l.filesOnly
            /\ files = <<>>
            /\ seen = 0
            /\ prevDir = NoPath
            /\ extras = <<>>
            /\ current = 0
            /\ result = <<>>
            /\ at = "listed"

\* An empty list is left alone, and one of files only is done.
Sort == /\ at = "listed"
        /\ files' \in Sorts(listed)
        /\ IF filesOnly \/ files' = <<>>
           THEN at' = "done" /\ UNCHANGED <<prevDir, extras>>
           ELSE /\ at' = "fixing"
                /\ prevDir' = CopyDirectory(root)
                /\ extras' = IF SamePath(files'[1], root) THEN <<>> ELSE <<root>>
        /\ UNCHANGED <<root, listed, filesOnly, seen, current, result>>

\* Mutant: a path that is passed over is counted twice.
LookAtFileTwice ==
    LET p == files[seen + 1]
        dir == CopyDirectory(p)
        connected == Connected(prevDir, dir, p)
    IN  /\ at = "fixing"
        /\ seen < Len(files)
        /\ seen' = seen + (IF connected THEN 2 ELSE 1)
        /\ extras' = IF connected THEN extras ELSE extras \o Missing(prevDir, dir)
        /\ prevDir' = dir
        /\ UNCHANGED <<root, listed, filesOnly, files, current, result, at>>

LookAtFile ==
    LET p == files[seen + 1]
        dir == CopyDirectory(p)
    IN  /\ at = "fixing"
        /\ seen < Len(files)
        /\ seen' = seen + 1
        /\ extras' = IF Connected(prevDir, dir, p) THEN extras
                     ELSE extras \o Missing(prevDir, dir)
        /\ prevDir' = dir
        /\ UNCHANGED <<root, listed, filesOnly, files, current, result, at>>

StartMerging == /\ at = "fixing"
                /\ seen = Len(files)
                /\ seen' = 0
                /\ at' = IF extras = <<>> THEN "done" ELSE "merging"
                /\ UNCHANGED <<root, listed, filesOnly, files, prevDir, extras, current, result>>

\* How many of extras std::merge has taken.
Taken == Len(result) - seen

\* std::merge takes from the first list unless the second one is less.
MergeFile ==
    /\ at = "merging"
    /\ seen < Len(files)
    /\ Taken < Len(extras) => ~Less(extras[Taken + 1], files[seen + 1])
    /\ result' = Append(result, files[seen + 1])
    /\ seen' = seen + 1
    /\ UNCHANGED <<root, listed, filesOnly, files, prevDir, extras, current, at>>

MergeExtra ==
    /\ at = "merging"
    /\ Taken < Len(extras)
    /\ seen < Len(files) => Less(extras[Taken + 1], files[seen + 1])
    /\ result' = Append(result, extras[Taken + 1])
    /\ UNCHANGED <<root, listed, filesOnly, files, seen, prevDir, extras, current, at>>

SwapFiles == /\ at = "merging"
             /\ seen = Len(files) /\ Taken = Len(extras)
             /\ files' = result
             /\ result' = <<>>
             /\ seen' = 0
             /\ at' = "done"
             /\ UNCHANGED <<root, listed, filesOnly, prevDir, extras, current>>

-----------------------------------------------------------------------------
(* fileList, of an explorer whose position is files[current].              *)

CallFileList(i) == /\ at = "done"
                   /\ current' = i
                   /\ seen' = FindFirstFileFrom(files, i) - 1
                   /\ at' = "listing"
                   /\ UNCHANGED <<root, listed, filesOnly, files, prevDir, extras, result>>

ListLevel == DirLevel(files[current])

NextIsListed == seen < Len(files) /\ StartsWith(files[seen + 1], files[current], ListLevel)

\* A path below one that is in the result is not in it.
ListNextFile ==
    LET p == files[seen + 1]
        listedAlready == result # <<>> /\ StartsWith(p, Last(result), Level(Last(result)))
    IN  /\ at = "listing"
        /\ NextIsListed
        /\ result' = IF Level(p) > ListLevel /\ ~listedAlready
                     THEN Append(result, CopyPath(p, ListLevel)) ELSE result
        /\ seen' = seen + 1
        /\ UNCHANGED <<root, listed, filesOnly, files, prevDir, extras, current, at>>

AnswerFileList == /\ at = "listing"
                  /\ ~NextIsListed
                  /\ at' = "answered"
                  /\ UNCHANGED <<root, listed, filesOnly, files, seen, prevDir, extras, current,
                                 result>>

ListNext == \/ Sort \/ LookAtFile \/ StartMerging \/ MergeFile \/ MergeExtra \/ SwapFiles
            \/ (\E i \in DOMAIN files : CallFileList(i)) \/ ListNextFile \/ AnswerFileList

ListSpec == ListInit /\ [][ListNext]_listVars

-----------------------------------------------------------------------------
(* Properties                                                              *)

Dir(es) == [entries |-> es, isFile |-> FALSE]

\* The fields' types (book.cpp:101-210).
ListTypeOK == /\ listed \subseteq Path(EntryNames)
              /\ filesOnly \in BOOLEAN
              /\ files \in Seq(Path(EntryNames))
              /\ seen \in 0..Len(files)
              /\ prevDir \in Path(EntryNames)
              /\ extras \in Seq(Path(EntryNames))
              /\ current \in 0..Len(files)
              /\ result \in Seq(Path(EntryNames))
              /\ at \in {"listed", "fixing", "merging", "done", "listing", "answered"}

\* The listed paths, the root and every directory between.
Tree == listed \union UNION {{Dir(SubSeq(p.entries, 1, n)) : n \in Level(root)..(Level(p) - 1)} :
                             p \in listed}

\* What the explorer was made for.
Kept == {p \in Tree : filesOnly => p.isFile}

(***************************************************************************)
(* FixUpFileTree (book.cpp:101-157) leaves every directory and file once,  *)
(* whatever the archiver or file manager listed of it, or every file once  *)
(* if files are all that is wanted, and everything in order.               *)
(***************************************************************************)
ListIsTheSortedTree ==
    at = "done" => /\ Range(files) = Kept
                   /\ IsSorted(files, Less)

\* The paths right below the directory that path p is or is in.
Contents(p) ==
    {q \in Tree : Level(q) = DirLevel(p) + 1 /\ StartsWith(q, p, DirLevel(p))}

\* All of it at the directory itself, the files of it at a file.
Held(p) == {q \in Contents(p) : p.isFile => q.isFile}

(***************************************************************************)
(* fileList (book.cpp:171-210) answers what the current directory holds,   *)
(* each path once and in order; at a file, which may stand behind the      *)
(* directory's own subdirectories, it answers the files alone.             *)
(***************************************************************************)
FileListIsTheDirectory ==
    at = "answered" =>
        /\ Range(result) = {Dir(q.entries) : q \in Held(files[current])}
        /\ \A a, b \in 1..Len(result) :
              a < b => \E p, q \in Held(files[current]) :
                          /\ Less(p, q)
                          /\ result[a] = Dir(p.entries) /\ result[b] = Dir(q.entries)

(***************************************************************************)
(* enter's search (book.cpp:42-70) finds every directory and every file of *)
(* the list under its own path.                                            *)
(***************************************************************************)
SearchFindsEveryPath ==
    at = "done" => \A i \in 1..Len(files) : FindEntryInList(files, files[i]) = i
=============================================================================
