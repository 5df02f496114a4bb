----------------------------- MODULE MCFileTree -----------------------------
(***************************************************************************)
(* Everything an archiver may list, up to MaxPaths paths of at most three  *)
(* levels, and the same below a root directory when it is what a file      *)
(* manager lists: then no directory is left out.  Files only, too.         *)
(***************************************************************************)
EXTENDS FileTree

CONSTANTS MaxPaths

MCNames == {"lib", "1", "2", "02"}

\* "2" and "02" are equal in the order.
MCRank == [n \in MCNames |-> CASE n = "1" -> 1 [] n = "lib" -> 3 [] OTHER -> 2]

PathNames == UNION {[1..n -> {"1", "2"}] : n \in 1..3}
             \union {<<"2", "1">>, <<"02", "1">>, <<"02">>, <<"02", "2">>}

HasItsDirectories(S) ==
    \A p \in S : Level(p) > 1 => \E q \in S : q.entries = Front(p.entries)

MCPaths == [entries : PathNames, isFile : BOOLEAN]

PathSets == {S \in {{}} \union {Range(f) : f \in [1..MaxPaths -> MCPaths]} :
               Consistent(S) /\ ToldApart(S)}

Below(es, S) == {[p EXCEPT !.entries = es \o @] : p \in S}

OnlyFiles(S) == \A p \in S : p.isFile

Listing(r, S, f) == [root |-> r, paths |-> S, filesOnly |-> f]

MCListings ==
    {Listing(NoPath, S, FALSE) : S \in PathSets}
    \union {Listing(Dir(<<"lib">>), Below(<<"lib">>, S), FALSE) :
            S \in {T \in PathSets : HasItsDirectories(T)}}
    \union {Listing(r, Below(r.entries, S), TRUE) :
            r \in {NoPath, Dir(<<"lib">>)}, S \in {T \in PathSets : OnlyFiles(T)}}

ASSUME NamesAreToldApart == NamesDiffer
=============================================================================
