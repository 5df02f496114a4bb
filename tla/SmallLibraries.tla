-------------------------- MODULE SmallLibraries --------------------------
(***************************************************************************)
(* Small libraries: every directory of at most MaxFiles entries, each a    *)
(* file of some kind or an archive of at most MaxEntries of those.         *)
(***************************************************************************)
EXTENDS ExplorerOps, TLC

CONSTANTS MaxFiles,   \* files of a directory
          MaxEntries, \* entries of an archive
          FileKinds   \* kinds of the files and entries that are not archives

Lib == [entries |-> <<"lib">>, isFile |-> FALSE]
MCRoots == {Lib}

MCNames == {"lib", "1", "2", "3", "4", "5"}

Numbered == <<"1", "2", "3", "4", "5">>

\* "p" is an image, "x" a damaged one, "t" a file no decoder recognizes, "e" a file of 0 bytes.
Archives == UNION {[1..n -> FileKinds] : n \in 0..MaxEntries}
Kinds == {<<k>> : k \in FileKinds} \union {<<"z", l>> : l \in Archives}

FileNamed(i)  == [entries |-> <<"lib", Numbered[i]>>, isFile |-> TRUE]
EntryNamed(a) == [entries |-> <<Numbered[a]>>, isFile |-> TRUE]

Zips(kinds) == {i \in DOMAIN kinds : kinds[i][1] = "z"}

\* The files and entries of kind k.
PagesOfKind(kinds, k) ==
    {PathToFile(FileNamed(i), NoPath) : i \in {j \in DOMAIN kinds : kinds[j] = <<k>>}}
    \union UNION {{PathToFile(FileNamed(i), EntryNamed(a)) :
                   a \in {b \in DOMAIN kinds[i][2] : kinds[i][2][b] = k}} : i \in Zips(kinds)}

LibraryDisk(kinds) ==
    LET list == [i \in DOMAIN kinds |-> FileNamed(i)]
        index(p) == CHOOSE i \in DOMAIN kinds : list[i] = p
    IN  [files    |-> (Lib :> list),
         archives |-> [p \in {list[i] : i \in Zips(kinds)} |->
                         [a \in DOMAIN kinds[index(p)][2] |-> EntryNamed(a)]],
         images   |-> PagesOfKind(kinds, "p"),
         damaged  |-> PagesOfKind(kinds, "x"),
         empty    |-> PagesOfKind(kinds, "e"),
         present  |-> {list[i] : i \in DOMAIN list}]

Layouts == UNION {[1..n -> Kinds] : n \in 0..MaxFiles}

MCDisks == {LibraryDisk(k) : k \in Layouts}
=============================================================================
