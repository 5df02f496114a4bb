--------------------------- MODULE SmallShelves ---------------------------
(***************************************************************************)
(* Small disks for an explorer.  "Shelves" enumerates every root of at      *)
(* most MaxFiles entries, each a directory, a file or an archive of at     *)
(* most MaxEntries entries, as listed by an explorer of files only and by  *)
(* one of files and directories: FixUpFileTree then puts the root first.   *)
(* "Tree" is a nested tree as FixUpFileTree lists it.                      *)
(***************************************************************************)
EXTENDS ExplorerOps, TLC

CONSTANTS MaxFiles,   \* entries of a shelf
          MaxEntries  \* entries of an archive on a shelf

Dir(es)  == [entries |-> es, isFile |-> FALSE]
File(es) == [entries |-> es, isFile |-> TRUE]

Lib == Dir(<<"lib">>)
Pub == Dir(<<"pub">>)

\* An entry of a shelf: "d", "f", or the kinds of an archive's entries.
EntryLists == UNION {[1..n -> {"d", "f"}] : n \in 0..MaxEntries}

Kinds == {<<"d">>, <<"f">>} \union {<<"z", l>> : l \in EntryLists}

Numbered == <<"1", "2", "3", "4">>

EntryPath(kind, i) == [entries |-> <<Numbered[i]>>, isFile |-> kind = "f"]

Listed(root, list, withDirs) ==
    IF list = <<>> THEN <<>>
    ELSE IF withDirs THEN <<root>> \o list
    ELSE SelectSeq(list, LAMBDA p : p.isFile)

ShelfDisk(kinds, withDirs) ==
    LET path(i) == [entries |-> <<"lib", Numbered[i]>>, isFile |-> kinds[i] # <<"d">>]
        list == [i \in DOMAIN kinds |-> path(i)]
        zips == {i \in DOMAIN kinds : kinds[i][1] = "z"}
        index(p) == CHOOSE i \in DOMAIN kinds : list[i] = p
        entries(l) == Listed(Dir(<<>>), [a \in DOMAIN l |-> EntryPath(l[a], a)], withDirs)
    IN  [files    |-> (Lib :> Listed(Lib, list, withDirs)
                       @@ Pub :> Listed(Pub, <<File(<<"pub", "1">>)>>, withDirs)),
         archives |-> [p \in {list[i] : i \in zips} |-> entries(kinds[index(p)][2])],
         present  |-> {list[i] : i \in DOMAIN list} \union {File(<<"pub", "1">>)}]

ShelvesOf(kinds, withDirs) ==
    {ShelfDisk(k, withDirs) : k \in UNION {[1..n -> kinds] : n \in 0..MaxFiles}}

Shelves == ShelvesOf(Kinds, TRUE) \union ShelvesOf(Kinds \ {<<"d">>}, FALSE)

\* /lib holds a directory, two files in it, an archive of two directories.
Zip == File(<<"lib", "z">>)
Tree ==
    [files    |-> (Lib :> <<Lib, Dir(<<"lib", "a">>), File(<<"lib", "a", "1">>),
                           File(<<"lib", "a", "2">>), Dir(<<"lib", "b">>),
                           Dir(<<"lib", "b", "c">>), File(<<"lib", "b", "c", "1">>), Zip>>
                   @@ Pub :> <<Pub, File(<<"pub", "1">>)>>),
     archives |-> (Zip :> <<Dir(<<>>), Dir(<<"a">>), File(<<"a", "1">>),
                           Dir(<<"b">>), File(<<"b", "1">>), File(<<"2">>)>>),
     present  |-> {File(<<"lib", "a", "1">>), File(<<"lib", "a", "2">>),
                   File(<<"lib", "b", "c", "1">>), Zip, File(<<"pub", "1">>)}]

Libraries == Shelves \union {Tree}

MCNames == {"lib", "pub", "a", "b", "c", "z", "1", "2", "3", "4"}
MCRoots == {Lib, Pub}
=============================================================================
