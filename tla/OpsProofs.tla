------------------------------ MODULE OpsProofs ------------------------------
(***************************************************************************)
(* What the operations of BookExplorer and of Book do, for every value of  *)
(* their arguments.  The first part is about ExplorerOps: every operation, *)
(* called on an explorer whose indexes are in range, leaves such an        *)
(* explorer, and it is shown where it leaves it.  The second part is about *)
(* BookOps; nothing in the first depends on OnLoaded.                      *)
(***************************************************************************)
EXTENDS BookOps, Integers, WellFoundedInduction, TLAPS

-----------------------------------------------------------------------------
(* Least and greatest elements of sets of indexes and of stops, which the  *)
(* CHOOSE expressions of FilePath and ExplorerOps pick.                    *)

\* A nonempty set of natural numbers has a least element.
LEMMA LeastExists ==
    ASSUME NEW S \in SUBSET Nat, S # {}
    PROVE  \E m \in S : \A k \in S : m <= k
<1>1. \E m \in S : \A k \in S : ~(<<k, m>> \in OpToRel(<, Nat))
  BY WFMin, NatLessThanWellFounded
<1>2. ASSUME NEW m \in S, NEW k \in S, ~(<<k, m>> \in OpToRel(<, Nat))
      PROVE  m <= k
  <2>1. <<k, m>> \in Nat \X Nat
    OBVIOUS
  <2>2. ~(k < m)
    BY <1>2, <2>1 DEF OpToRel
  <2> QED
    BY <2>2
<1> QED
  BY <1>1, <1>2

\* A nonempty set of natural numbers below a bound has a greatest element.
LEMMA GreatestExists ==
    ASSUME NEW n \in Nat, NEW S \in SUBSET (0..n), S # {}
    PROVE  \E m \in S : \A k \in S : k <= m
<1> DEFINE T == {n - k : k \in S}
<1>1. T \in SUBSET Nat /\ T # {}
  <2>1. \A k \in S : n - k \in Nat
    OBVIOUS
  <2> QED
    BY <2>1
<1>2. PICK t \in T : \A u \in T : t <= u
  BY <1>1, LeastExists
<1>3. PICK m \in S : t = n - m
  BY <1>2
<1>4. ASSUME NEW k \in S PROVE k <= m
  BY <1>2, <1>3
<1> QED
  BY <1>4

\* What CHOOSE makes of the two orders of stops.
IsNearest(S, s)  == s \in S /\ \A t \in S \ {s} : Before(s, t)
IsFarthest(S, s) == s \in S /\ \A t \in S \ {s} : Before(t, s)

\* Among any stops there is a nearest one, and Nearest picks it.
LEMMA NearestOfStops ==
    ASSUME NEW S \in SUBSET (Nat \X Nat), S # {}
    PROVE  IsNearest(S, Nearest(S))
<1> DEFINE Files == {s[1] : s \in S}
<1>1. Files \in SUBSET Nat /\ Files # {}
  OBVIOUS
<1>2. PICK f \in Files : \A g \in Files : f <= g
  BY <1>1, LeastExists
<1> DEFINE Entries == {s[2] : s \in {t \in S : t[1] = f}}
<1>3. Entries \in SUBSET Nat /\ Entries # {}
  BY <1>2
<1>4. PICK a \in Entries : \A b \in Entries : a <= b
  BY <1>3, LeastExists
<1>5. <<f, a>> \in S
  <2>1. PICK s \in S : s[1] = f /\ s[2] = a
    BY <1>4
  <2> QED
    BY <2>1
<1>6. ASSUME NEW t \in S, t # <<f, a>>
      PROVE  Before(<<f, a>>, t)
  <2>1. f \in Nat /\ a \in Nat /\ t[1] \in Nat /\ t[2] \in Nat /\ t = <<t[1], t[2]>>
    BY <1>5
  <2>2. f <= t[1]
    BY <1>2
  <2>3. CASE t[1] = f
    <3>1. a <= t[2]
      BY <1>4, <2>3
    <3> QED
      BY <1>6, <2>1, <2>3, <3>1 DEF Before
  <2>4. CASE t[1] # f
    BY <2>1, <2>2, <2>4 DEF Before
  <2> QED
    BY <2>3, <2>4
<1>7. IsNearest(S, <<f, a>>)
  BY <1>5, <1>6 DEF IsNearest
<1> QED
  BY <1>7 DEF IsNearest, Nearest

\* Among stops in finitely many files of finitely many entries there is a
\* farthest one, and Farthest picks it.
LEMMA FarthestOfStops ==
    ASSUME NEW n \in Nat, NEW S \in SUBSET ((0..n) \X Nat), S # {},
           \A f \in 0..n : \E m \in Nat : \A s \in S : s[1] = f => s[2] <= m
    PROVE  IsFarthest(S, Farthest(S))
<1> DEFINE Files == {s[1] : s \in S}
<1>1. Files \in SUBSET (0..n) /\ Files # {}
  OBVIOUS
<1>2. PICK f \in Files : \A g \in Files : g <= f
  BY <1>1, GreatestExists
<1> DEFINE Entries == {s[2] : s \in {t \in S : t[1] = f}}
<1>3. PICK m \in Nat : \A s \in S : s[1] = f => s[2] <= m
  BY <1>1, <1>2
<1>4. Entries \in SUBSET (0..m) /\ Entries # {}
  BY <1>2, <1>3
<1>5. PICK a \in Entries : \A b \in Entries : b <= a
  BY <1>4, GreatestExists
<1>6. <<f, a>> \in S
  <2>1. PICK s \in S : s[1] = f /\ s[2] = a
    BY <1>5
  <2> QED
    BY <2>1
<1>7. ASSUME NEW t \in S, t # <<f, a>>
      PROVE  Before(t, <<f, a>>)
  <2>1. f \in Nat /\ a \in Nat /\ t[1] \in Nat /\ t[2] \in Nat /\ t = <<t[1], t[2]>>
    BY <1>6
  <2>2. t[1] <= f
    BY <1>2
  <2>3. CASE t[1] = f
    <3>1. t[2] <= a
      BY <1>5, <2>3
    <3> QED
      BY <1>7, <2>1, <2>3, <3>1 DEF Before
  <2>4. CASE t[1] # f
    BY <2>1, <2>2, <2>4 DEF Before
  <2> QED
    BY <2>3, <2>4
<1>8. IsFarthest(S, <<f, a>>)
  BY <1>6, <1>7 DEF IsFarthest
<1> QED
  BY <1>8 DEF IsFarthest, Farthest

-----------------------------------------------------------------------------
(* Explorers                                                               *)

(***************************************************************************)
(* An open archive is that of the current file, if there are files.  It    *)
(* may have been deleted since it was opened.                              *)
(***************************************************************************)
IsArchiveFile(d, p) == p.isFile /\ p \in DOMAIN d.archives

ArchiveMatches(d, ex) ==
    /\ ~ex.arc.open => ex.arc = ClosedArchive
    /\ ex.arc.open /\ ex.files # <<>> =>
        /\ IsArchiveFile(d, ex.files[ex.cur])
        /\ ex.arc.list = d.archives[ex.files[ex.cur]]

ExplorerOK(R, P, d, ex) == /\ ex \in Explorers(R, P)
                           /\ AssertsHold(ex)
                           /\ ArchiveMatches(d, ex)
                           /\ NothingBelowArchives(d, ex.files)

\* Result r of an operation called on ex.
MovesWithin(R, P, d, ex, r) ==
    /\ r.ok \in BOOLEAN
    /\ ExplorerOK(R, P, d, r.ex)
    /\ r.ex.root = ex.root
    /\ r.ex.files = ex.files
    /\ r.ex.arc.open =>
          \/ ex.arc.open /\ r.ex.cur = ex.cur
          \/ ex.files # <<>> /\ Recognized(d, ex.files[r.ex.cur])

-----------------------------------------------------------------------------
(* Looking entries up.                                                     *)

LEMMA FirstIndexRange ==
    ASSUME NEW n \in Nat, NEW S \in SUBSET (1..n)
    PROVE  FirstIndex(S) \in 0..n /\ (FirstIndex(S) # 0 => FirstIndex(S) \in S)
<1>1. CASE S = {}
  BY <1>1 DEF FirstIndex
<1>2. CASE S # {}
  <2>1. \E m \in S : \A k \in S : m <= k
    BY <1>2, LeastExists, S \in SUBSET Nat
  <2>2. FirstIndex(S) = CHOOSE m \in S : \A k \in S : m <= k
    BY <1>2 DEF FirstIndex
  <2>3. FirstIndex(S) \in S
    BY <2>1, <2>2
  <2>4. \A k \in S : k \in 0..n
    OBVIOUS
  <2> QED
    BY <2>3, <2>4
<1> QED
  BY <1>1, <1>2

\* FindEntryInList answers an index of the list, or 0.
LEMMA FindEntryRange ==
    ASSUME NEW P, NEW list \in Seq(P), NEW p
    PROVE  /\ FindEntryInList(list, p) \in 0..Len(list)
           /\ FindEntryInList(list, p) # 0 /\ p.isFile =>
                 StartsWith(list[FindEntryInList(list, p)], p, Level(p))
<1> DEFINE n == IF p.isFile THEN Level(p) ELSE DirLevel(p)
           S == Matching(list, p, n)
<1>1. S \in SUBSET (1..Len(list))
  BY DEF Matching
<1>2. Len(list) \in Nat
  OBVIOUS
<1>3. FindEntryInList(list, p) = FirstIndex(S)
  BY DEF FindEntryInList
<1>4. \A i \in S : p.isFile => StartsWith(list[i], p, Level(p))
  BY DEF Matching
<1> HIDE DEF n, S
<1> QED
  BY <1>1, <1>2, <1>3, <1>4, FirstIndexRange


-----------------------------------------------------------------------------
(* Updates of the fields, under names the provers can match.               *)

Archives(P) == [open : BOOLEAN, list : Seq(P), cur : Nat]

WithCur(ex, c)    == [ex EXCEPT !.cur = c]
WithArc(ex, a)    == [ex EXCEPT !.arc = a]
WithEntry(arc, c) == [arc EXCEPT !.cur = c]

\* Setting the index or the archive of an explorer gives an explorer.
LEMMA SetCur ==
    ASSUME NEW R, NEW P, NEW ex \in Explorers(R, P), NEW c \in Nat \ {0}
    PROVE  /\ WithCur(ex, c) \in Explorers(R, P)
           /\ WithCur(ex, c).root = ex.root
           /\ WithCur(ex, c).files = ex.files
           /\ WithCur(ex, c).cur = c
           /\ WithCur(ex, c).arc = ex.arc
BY DEF Explorers, WithCur

LEMMA SetArc ==
    ASSUME NEW R, NEW P, NEW ex \in Explorers(R, P), NEW a \in Archives(P)
    PROVE  /\ WithArc(ex, a) \in Explorers(R, P)
           /\ WithArc(ex, a).root = ex.root
           /\ WithArc(ex, a).files = ex.files
           /\ WithArc(ex, a).cur = ex.cur
           /\ WithArc(ex, a).arc = a
BY DEF Explorers, Archives, WithArc

LEMMA SetEntry ==
    ASSUME NEW P, NEW a \in Archives(P), NEW c \in Nat
    PROVE  /\ WithEntry(a, c) \in Archives(P)
           /\ WithEntry(a, c).open = a.open
           /\ WithEntry(a, c).list = a.list
           /\ WithEntry(a, c).cur = c
BY DEF Archives, WithEntry

LEMMA ClosedArchiveTyped ==
    ASSUME NEW P
    PROVE  ClosedArchive \in Archives(P) /\ ~ClosedArchive.open /\ ClosedArchive.cur = 1
BY DEF ClosedArchive, Archives

\* An archive opened at either end is typed, and in range if it has entries.
OpensInRange(P, d, p, a) == /\ a \in Archives(P)
                            /\ a.open
                            /\ a.list = d.archives[p]
                            /\ a.list # <<>> => a.cur \in 1..Len(a.list)

LEMMA OpenedArchiveInRange ==
    ASSUME NEW P, NEW d, DiskOK(P, d), NEW p, Recognized(d, p)
    PROVE  /\ OpensInRange(P, d, p, OpenedArchive(d, p, TRUE))
           /\ OpensInRange(P, d, p, OpenedArchive(d, p, FALSE))
<1>1. d.archives[p] \in Seq(P)
  BY DEF DiskOK, Recognized
<1>2. Len(d.archives[p]) \in Nat /\ (d.archives[p] # <<>> => Len(d.archives[p]) >= 1)
  BY <1>1
<1> QED
  BY <1>1, <1>2 DEF OpenedArchive, Archives, OpensInRange

(***************************************************************************)
(* What makes an explorer: typed fields, the index in the list, and an     *)
(* archive that is closed or belongs to the current file, in range.        *)
(***************************************************************************)
LEMMA MadeOK ==
    ASSUME NEW R, NEW P, NEW d, NEW ex, ExplorerOK(R, P, d, ex),
           NEW new \in Explorers(R, P), new.root = ex.root, new.files = ex.files,
           ex.files # <<>> => new.cur \in 1..Len(ex.files),
           \/ new.arc = ClosedArchive
           \/ /\ new.arc.open
              /\ \/ ex.arc.open /\ new.cur = ex.cur
                 \/ ex.files # <<>> /\ Recognized(d, ex.files[new.cur])
              /\ new.arc.list # <<>> => new.arc.cur \in 1..Len(new.arc.list)
              /\ ex.files # <<>> => /\ IsArchiveFile(d, ex.files[new.cur])
                                    /\ new.arc.list = d.archives[ex.files[new.cur]],
           NEW ok \in BOOLEAN
    PROVE  MovesWithin(R, P, d, ex, [ok |-> ok, ex |-> new])
<1>1. AssertsHold(new)
  BY ClosedArchiveTyped DEF AssertsHold, InArchive
<1>2. ArchiveMatches(d, new)
  BY ClosedArchiveTyped DEF ArchiveMatches
<1>3. new.arc.open => \/ ex.arc.open /\ new.cur = ex.cur
                      \/ ex.files # <<>> /\ Recognized(d, ex.files[new.cur])
  BY ClosedArchiveTyped
<1> QED
  BY <1>1, <1>2, <1>3 DEF MovesWithin, ExplorerOK, NothingBelowArchives

LEMMA OKFields ==
    ASSUME NEW R, NEW P, NEW d, NEW ex, ExplorerOK(R, P, d, ex)
    PROVE  /\ ex \in Explorers(R, P)
           /\ ex.files \in Seq(P)
           /\ Len(ex.files) \in Nat
           /\ NothingBelowArchives(d, ex.files)
           /\ ex.cur \in Nat \ {0}
           /\ ex.arc \in Archives(P)
           /\ ex.arc.list \in Seq(P)
           /\ Len(ex.arc.list) \in Nat
           /\ ex.arc.open \in BOOLEAN
           /\ ex.files # <<>> => ex.cur \in 1..Len(ex.files)
           /\ ex.arc.open /\ ex.arc.list # <<>> => ex.arc.cur \in 1..Len(ex.arc.list)
           /\ ~ex.arc.open => ex.arc = ClosedArchive
           /\ ex.arc.open /\ ex.files # <<>> =>
                 /\ IsArchiveFile(d, ex.files[ex.cur])
                 /\ ex.arc.list = d.archives[ex.files[ex.cur]]
BY DEF ExplorerOK, Explorers, Archives, AssertsHold, InArchive, ArchiveMatches

LEMMA StaysOK ==
    ASSUME NEW R, NEW P, NEW d, NEW ex, ExplorerOK(R, P, d, ex), NEW ok \in BOOLEAN
    PROVE  MovesWithin(R, P, d, ex, [ok |-> ok, ex |-> ex])
BY DEF MovesWithin

\* Closing the archive at some index of the list.
LEMMA CloseAtOK ==
    ASSUME NEW R, NEW P, NEW d, NEW ex, ExplorerOK(R, P, d, ex), NEW c \in Nat \ {0},
           ex.files # <<>> => c \in 1..Len(ex.files), NEW ok \in BOOLEAN
    PROVE  MovesWithin(R, P, d, ex, [ok |-> ok, ex |-> WithArc(WithCur(ex, c), ClosedArchive)])
<1> DEFINE new == WithArc(WithCur(ex, c), ClosedArchive)
<1>1. /\ new \in Explorers(R, P) /\ new.root = ex.root
      /\ new.files = ex.files /\ new.cur = c /\ new.arc = ClosedArchive
  BY OKFields, SetCur, SetArc, ClosedArchiveTyped
<1> HIDE DEF new
<1>2. MovesWithin(R, P, d, ex, [ok |-> ok, ex |-> new])
  BY <1>1, MadeOK
<1> QED
  BY <1>2 DEF new

\* Closing the archive where the explorer stands.
LEMMA CloseHereOK ==
    ASSUME NEW R, NEW P, NEW d, NEW ex, ExplorerOK(R, P, d, ex), NEW ok \in BOOLEAN
    PROVE  MovesWithin(R, P, d, ex, [ok |-> ok, ex |-> WithArc(ex, ClosedArchive)])
<1> DEFINE new == WithArc(ex, ClosedArchive)
<1>1. /\ new \in Explorers(R, P) /\ new.root = ex.root
      /\ new.files = ex.files /\ new.cur = ex.cur /\ new.arc = ClosedArchive
  BY OKFields, SetArc, ClosedArchiveTyped
<1>2. ex.files # <<>> => ex.cur \in 1..Len(ex.files)
  BY OKFields
<1> HIDE DEF new
<1>3. MovesWithin(R, P, d, ex, [ok |-> ok, ex |-> new])
  BY <1>1, <1>2, MadeOK
<1> QED
  BY <1>3 DEF new

LEMMA ThenMoves ==
    ASSUME NEW R, NEW P, NEW d, NEW ex, NEW first, NEW second,
           MovesWithin(R, P, d, ex, first), MovesWithin(R, P, d, first.ex, second)
    PROVE  MovesWithin(R, P, d, ex, second)
BY DEF MovesWithin

\* Moving to a file of the list with its archive open.
LEMMA OpenAtOK ==
    ASSUME NEW R, NEW P, NEW d, NEW ex, ExplorerOK(R, P, d, ex),
           NEW c \in 1..Len(ex.files), Recognized(d, ex.files[c]),
           NEW a, OpensInRange(P, d, ex.files[c], a)
    PROVE  MovesWithin(R, P, d, ex, [ok |-> TRUE, ex |-> WithArc(WithCur(ex, c), a)])
<1> DEFINE moved == WithCur(ex, c)
           new == WithArc(moved, a)
<1>1. /\ c \in Nat \ {0} /\ ex.files # <<>> /\ ex \in Explorers(R, P)
      /\ a \in Archives(P) /\ a.open /\ a.list = d.archives[ex.files[c]]
      /\ a.list # <<>> => a.cur \in 1..Len(a.list)
      /\ IsArchiveFile(d, ex.files[c])
  BY OKFields DEF OpensInRange, Recognized, IsArchiveFile
<1>2. /\ moved \in Explorers(R, P) /\ moved.root = ex.root
      /\ moved.files = ex.files /\ moved.cur = c
  BY <1>1, SetCur
<1> HIDE DEF moved
<1>3. /\ new \in Explorers(R, P) /\ new.root = ex.root
      /\ new.files = ex.files /\ new.cur = c /\ new.arc = a
  BY <1>1, <1>2, SetArc
<1> HIDE DEF new
<1>4. MovesWithin(R, P, d, ex, [ok |-> TRUE, ex |-> new])
  BY <1>1, <1>3, MadeOK
<1> QED
  BY <1>4 DEF new, moved

\* Moving to an entry of the open archive.
LEMMA EntryAtOK ==
    ASSUME NEW R, NEW P, NEW d, NEW ex, ExplorerOK(R, P, d, ex), ex.arc.open,
           NEW c \in 1..Len(ex.arc.list)
    PROVE  MovesWithin(R, P, d, ex,
                       [ok |-> TRUE, ex |-> WithArc(ex, WithEntry(ex.arc, c))])
<1> DEFINE a == WithEntry(ex.arc, c)
           new == WithArc(ex, a)
<1>1. c \in Nat /\ ex \in Explorers(R, P) /\ ex.arc \in Archives(P)
  BY OKFields
<1>2. a \in Archives(P) /\ a.open = ex.arc.open /\ a.list = ex.arc.list /\ a.cur = c
  BY <1>1, SetEntry
<1> HIDE DEF a
<1>3. /\ new \in Explorers(R, P) /\ new.root = ex.root
      /\ new.files = ex.files /\ new.cur = ex.cur /\ new.arc = a
  BY <1>1, <1>2, SetArc
<1> HIDE DEF new
<1>4. /\ ex.files # <<>> => new.cur \in 1..Len(ex.files)
      /\ ex.files # <<>> => /\ IsArchiveFile(d, ex.files[new.cur])
                            /\ new.arc.list = d.archives[ex.files[new.cur]]
  BY <1>2, <1>3, OKFields
<1>5. MovesWithin(R, P, d, ex, [ok |-> TRUE, ex |-> new])
  BY <1>2, <1>3, <1>4, MadeOK
<1> QED
  BY <1>5 DEF new, a

-----------------------------------------------------------------------------
(* enter and back                                                          *)

LEMMA EnterEntryOK ==
    ASSUME NEW R, NEW P, NEW d, NEW ex, ExplorerOK(R, P, d, ex), ex.arc.open, NEW entry
    PROVE  MovesWithin(R, P, d, ex, EnterEntry(ex, entry))
<1> DEFINE a == FindEntryInList(ex.arc.list, entry)
<1>1. a \in 0..Len(ex.arc.list)
  BY OKFields, FindEntryRange
<1>2. CASE a = 0
  BY <1>2, StaysOK DEF EnterEntry, Fail
<1>3. CASE a # 0
  <2>1. a \in 1..Len(ex.arc.list)
    BY <1>1, <1>3, OKFields
  <2> QED
    BY <1>3, <2>1, EntryAtOK DEF EnterEntry, Ok, WithArc, WithEntry
<1> QED
  BY <1>2, <1>3

LEMMA EnterDirectoryOK ==
    ASSUME NEW R, NEW P, NEW d, NEW ex, ExplorerOK(R, P, d, ex), NEW dir
    PROVE  MovesWithin(R, P, d, ex, EnterDirectory(ex, dir))
<1> DEFINE f == FindEntryInList(ex.files, dir)
<1>1. f \in 0..Len(ex.files)
  BY OKFields, FindEntryRange
<1>2. CASE f = 0
  BY <1>2, StaysOK DEF EnterDirectory, Fail
<1>3. CASE f # 0
  <2>1. f \in Nat \ {0} /\ f \in 1..Len(ex.files)
    BY <1>1, <1>3, OKFields
  <2> QED
    BY <1>3, <2>1, CloseAtOK DEF EnterDirectory, Ok, CloseArchive, WithArc, WithCur
<1> QED
  BY <1>2, <1>3

LEMMA EnterFileOK ==
    ASSUME NEW R, NEW P, NEW d, DiskOK(P, d), NEW ex, ExplorerOK(R, P, d, ex), NEW path
    PROVE  MovesWithin(R, P, d, ex, EnterFile(ex, d, path))
<1> DEFINE f == FindEntryInList(ex.files, path.filePath)
           a == OpenedArchive(d, path.filePath, TRUE)
           opened == WithArc(WithCur(ex, f), a)
<1>1. f \in 0..Len(ex.files)
  BY OKFields, FindEntryRange
<1>2. CASE f = 0
  BY <1>2, StaysOK DEF EnterFile, Fail
<1>3. CASE f # 0 /\ ~Recognized(d, path.filePath)
  <2>1. f \in Nat \ {0} /\ f \in 1..Len(ex.files)
    BY <1>1, <1>3, OKFields
  <2>2. IsEmptyPath(path.pathInArchive) \in BOOLEAN
    BY DEF IsEmptyPath
  <2> QED
    BY <1>3, <2>1, <2>2, CloseAtOK DEF EnterFile, CloseArchive, WithArc, WithCur
<1>4. CASE f # 0 /\ Recognized(d, path.filePath)
  <2>1. f \in 1..Len(ex.files)
    BY <1>1, <1>4, OKFields
  <2>2. ex.files[f] = path.filePath
    <3>1. StartsWith(ex.files[f], path.filePath, Level(path.filePath))
      BY <1>4, OKFields, FindEntryRange DEF Recognized
    <3> QED
      BY <1>4, <2>1, <3>1, OKFields DEF NothingBelowArchives, Recognized
  <2>3. OpensInRange(P, d, ex.files[f], a) /\ Recognized(d, ex.files[f])
    BY <1>4, <2>2, OpenedArchiveInRange
  <2> HIDE DEF f, a
  <2>4. MovesWithin(R, P, d, ex, [ok |-> TRUE, ex |-> opened])
    BY <2>1, <2>3, OpenAtOK
  <2>5. opened.arc.open
    BY <2>1, <2>3, OKFields, SetCur, SetArc DEF OpensInRange
  <2> HIDE DEF opened
  <2>6. MovesWithin(R, P, d, opened, EnterEntry(opened, path.pathInArchive))
    BY <2>4, <2>5, EnterEntryOK DEF MovesWithin
  <2>7. MovesWithin(R, P, d, ex, EnterEntry(opened, path.pathInArchive))
    BY <2>4, <2>6, ThenMoves
  <2> QED
    BY <1>4, <2>7 DEF EnterFile, opened, f, a, WithArc, WithCur
<1> QED
  BY <1>2, <1>3, <1>4

LEMMA EnterPathOK ==
    ASSUME NEW R, NEW P, NEW d, DiskOK(P, d), NEW ex, ExplorerOK(R, P, d, ex), NEW path
    PROVE  MovesWithin(R, P, d, ex, EnterPath(ex, d, path))
<1>1. MovesWithin(R, P, d, ex, Ok(ex)) /\ MovesWithin(R, P, d, ex, Fail(ex))
  BY StaysOK DEF Ok, Fail
<1>2. MovesWithin(R, P, d, ex, EnterDirectory(ex, path.filePath))
  BY EnterDirectoryOK
<1>3. MovesWithin(R, P, d, ex, EnterFile(ex, d, path))
  BY EnterFileOK
<1>4. ex.arc.open => MovesWithin(R, P, d, ex, EnterEntry(ex, path.pathInArchive))
  BY EnterEntryOK
<1> QED
  BY <1>1, <1>2, <1>3, <1>4 DEF EnterPath

LEMMA GoBackOK ==
    ASSUME NEW R, NEW P, NEW d, DiskOK(P, d), NEW ex, ExplorerOK(R, P, d, ex)
    PROVE  MovesWithin(R, P, d, ex, GoBack(ex, d))
BY EnterPathOK DEF GoBack

-----------------------------------------------------------------------------
(* toNextFile and toPreviousFile                                           *)

\* A stop in the open archive, or at another file of the list.
Reachable(d, ex, s) ==
    \/ ex.arc.open /\ s[1] = ex.cur /\ s[2] \in FileEntries(ex.arc.list)
    \/ s[1] \in 1..Len(ex.files) /\ s[1] # ex.cur /\ s[2] \in StopsAt(d, ex.files, s[1])

LEMMA StopsReachable ==
    ASSUME NEW R, NEW P, NEW d, DiskOK(P, d), NEW ex, ExplorerOK(R, P, d, ex),
           NEW s \in StopsAfter(ex, d) \union StopsBefore(ex, d)
    PROVE  s \in Nat \X Nat /\ Reachable(d, ex, s)
<1>1. CASE /\ ex.arc.open
           /\ \E a \in FileEntries(ex.arc.list) : s = <<ex.cur, a>>
  BY <1>1, OKFields DEF Reachable, FileEntries
<1>2. CASE \E f \in 1..Len(ex.files) :
              f # ex.cur /\ \E a \in StopsAt(d, ex.files, f) : s = <<f, a>>
  <2>1. PICK f \in 1..Len(ex.files) :
              f # ex.cur /\ \E a \in StopsAt(d, ex.files, f) : s = <<f, a>>
    BY <1>2
  <2>2. PICK a \in StopsAt(d, ex.files, f) : s = <<f, a>>
    BY <2>1
  <2>3. a \in Nat
    BY DEF StopsAt, FileEntries
  <2> QED
    BY <2>1, <2>2, <2>3 DEF Reachable
<1>3. \/ ex.arc.open /\ \E a \in FileEntries(ex.arc.list) : s = <<ex.cur, a>>
      \/ \E f \in 1..Len(ex.files) :
            f # ex.cur /\ \E a \in StopsAt(d, ex.files, f) : s = <<f, a>>
  <2>1. CASE s \in StopsAfter(ex, d)
    <3>1. ASSUME NEW f \in (ex.cur + 1)..Len(ex.files)
          PROVE  f \in 1..Len(ex.files) /\ f # ex.cur
      BY OKFields
    <3> QED
      BY <2>1, <3>1 DEF StopsAfter
  <2>2. CASE s \in StopsBefore(ex, d)
    <3>1. ASSUME NEW f \in 1..Len(ex.files), f < ex.cur
          PROVE  f # ex.cur
      BY <3>1, OKFields
    <3> QED
      BY <2>2, <3>1 DEF StopsBefore
  <2> QED
    BY <2>1, <2>2
<1> QED
  BY <1>1, <1>2, <1>3

LEMMA StopAtOK ==
    ASSUME NEW R, NEW P, NEW d, DiskOK(P, d), NEW ex, ExplorerOK(R, P, d, ex),
           NEW s \in Nat \X Nat, Reachable(d, ex, s)
    PROVE  MovesWithin(R, P, d, ex, Ok(StopAt(ex, d, s)))
<1> DEFINE f == s[1]
           a == IF s[2] = 0 THEN ClosedArchive ELSE WithEntry(ArchiveAt(ex, d, s[1]), s[2])
<1>1. StopAt(ex, d, s) = WithArc(WithCur(ex, f), a)
  BY OKFields DEF StopAt, WithArc, WithCur, WithEntry, Explorers
<1>2. CASE s[2] = 0
  <2>1. f \in 1..Len(ex.files) /\ f \in Nat \ {0}
    BY <1>2, OKFields DEF Reachable, FileEntries
  <2> QED
    BY <1>1, <1>2, <2>1, CloseAtOK DEF Ok
<1>3. CASE s[2] # 0 /\ ex.arc.open /\ f = ex.cur /\ s[2] \in FileEntries(ex.arc.list)
  <2>1. a = WithEntry(ex.arc, s[2])
    BY <1>3 DEF ArchiveAt
  <2>2. s[2] \in 1..Len(ex.arc.list)
    BY <1>3 DEF FileEntries
  <2>3. WithCur(ex, f) = ex
    BY <1>3, OKFields DEF WithCur, Explorers
  <2> HIDE DEF a, f
  <2>4. MovesWithin(R, P, d, ex, [ok |-> TRUE, ex |-> WithArc(ex, WithEntry(ex.arc, s[2]))])
    BY <1>3, <2>2, EntryAtOK
  <2> QED
    BY <1>1, <2>1, <2>3, <2>4 DEF Ok
<1>4. CASE s[2] # 0 /\ f \in 1..Len(ex.files) /\ f # ex.cur
           /\ s[2] \in StopsAt(d, ex.files, f)
  <2>1. Recognized(d, ex.files[f]) /\ s[2] \in FileEntries(d.archives[ex.files[f]])
    BY <1>4 DEF StopsAt
  <2> DEFINE opened == OpenedArchive(d, ex.files[f], TRUE)
  <2>2. OpensInRange(P, d, ex.files[f], opened)
    BY <2>1, OpenedArchiveInRange
  <2>3. a = WithEntry(opened, s[2])
    BY <1>4, <2>1 DEF ArchiveAt
  <2> HIDE DEF a, f, opened
  <2>4. s[2] \in 1..Len(opened.list) /\ s[2] \in Nat /\ opened \in Archives(P)
    BY <2>1, <2>2 DEF FileEntries, OpensInRange
  <2>5. /\ a \in Archives(P) /\ a.open = opened.open
        /\ a.list = opened.list /\ a.cur = s[2]
    BY <2>3, <2>4, SetEntry
  <2>6. OpensInRange(P, d, ex.files[f], a)
    BY <2>2, <2>4, <2>5 DEF OpensInRange
  <2>7. MovesWithin(R, P, d, ex, [ok |-> TRUE, ex |-> WithArc(WithCur(ex, f), a)])
    BY <1>4, <2>1, <2>6, OpenAtOK
  <2> QED
    BY <1>1, <2>7 DEF Ok
<1> QED
  BY <1>2, <1>3, <1>4 DEF Reachable

\* Among stops that can be reached there is a nearest and a farthest one.
LEMMA ChosenStops ==
    ASSUME NEW R, NEW P, NEW d, DiskOK(P, d), NEW ex, ExplorerOK(R, P, d, ex),
           NEW S, S \subseteq StopsAfter(ex, d) \union StopsBefore(ex, d), S # {}
    PROVE  /\ Nearest(S) \in S /\ Farthest(S) \in S
           /\ IsNearest(S, Nearest(S)) /\ IsFarthest(S, Farthest(S))
<1> DEFINE n == ex.cur + Len(ex.files)
<1>1. \A s \in S : s \in Nat \X Nat /\ Reachable(d, ex, s)
  BY StopsReachable
<1>2. S \in SUBSET (Nat \X Nat)
  BY <1>1
<1>3. n \in Nat /\ S \in SUBSET ((0..n) \X Nat)
  <2>1. \A s \in S : s[1] \in 0..n
    BY <1>1, OKFields DEF Reachable
  <2> QED
    BY <1>2, <2>1, OKFields
<1>4. ASSUME NEW f \in 0..n
      PROVE  \E m \in Nat : \A s \in S : s[1] = f => s[2] <= m
  <2>1. CASE f = ex.cur
    <3>1. \A s \in S : s[1] = f => s[2] <= Len(ex.arc.list)
      BY <1>1, <2>1, OKFields DEF Reachable, FileEntries
    <3> QED
      BY <3>1, OKFields
  <2>2. CASE f # ex.cur /\ Recognized(d, ex.files[f])
    <3>1. Len(d.archives[ex.files[f]]) \in Nat
      BY <2>2 DEF DiskOK, Recognized
    <3>2. ASSUME NEW s \in S, s[1] = f
          PROVE  s[2] <= Len(d.archives[ex.files[f]])
      <4>1. s[2] \in StopsAt(d, ex.files, f)
        BY <1>1, <2>2, <3>2 DEF Reachable
      <4>2. s[2] \in FileEntries(d.archives[ex.files[f]])
        BY <2>2, <4>1 DEF StopsAt
      <4> QED
        BY <3>1, <4>2 DEF FileEntries
    <3> QED
      BY <3>1, <3>2
  <2>3. CASE f # ex.cur /\ ~Recognized(d, ex.files[f])
    <3>1. \A s \in S : s[1] = f => s[2] <= 0
      BY <1>1, <2>3 DEF Reachable, StopsAt
    <3> QED
      BY <3>1
  <2> QED
    BY <2>1, <2>2, <2>3
<1> HIDE DEF n
<1> QED
  BY <1>2, <1>3, <1>4, NearestOfStops, FarthestOfStops DEF IsNearest, IsFarthest

\* The loops' ends without a file.
LEMMA AtLastIndexOK ==
    ASSUME NEW R, NEW P, NEW d, NEW ex, ExplorerOK(R, P, d, ex), NEW ok \in BOOLEAN
    PROVE  MovesWithin(R, P, d, ex, [ok |-> ok, ex |-> AtLastIndex(ex)])
<1>1. CASE ex.cur < Len(ex.files)
  <2>1. Len(ex.files) \in Nat \ {0} /\ Len(ex.files) \in 1..Len(ex.files)
    BY <1>1, OKFields
  <2>2. MovesWithin(R, P, d, ex, [ok |-> ok,
                                  ex |-> WithArc(WithCur(ex, Len(ex.files)), ClosedArchive)])
    BY <2>1, CloseAtOK
  <2> QED
    BY <1>1, <2>2 DEF AtLastIndex, CloseArchive, WithArc, WithCur
<1>2. CASE ~(ex.cur < Len(ex.files))
  <2>1. MovesWithin(R, P, d, ex, [ok |-> ok, ex |-> WithArc(ex, ClosedArchive)])
    BY CloseHereOK
  <2> QED
    BY <1>2, <2>1 DEF AtLastIndex, CloseArchive, WithArc
<1> QED
  BY <1>1, <1>2

LEMMA AtFirstIndexOK ==
    ASSUME NEW R, NEW P, NEW d, NEW ex, ExplorerOK(R, P, d, ex), NEW ok \in BOOLEAN
    PROVE  MovesWithin(R, P, d, ex, [ok |-> ok, ex |-> AtFirstIndex(ex)])
<1>1. 1 \in Nat \ {0} /\ (ex.files # <<>> => 1 \in 1..Len(ex.files))
  BY OKFields
<1>2. MovesWithin(R, P, d, ex, [ok |-> ok, ex |-> WithArc(WithCur(ex, 1), ClosedArchive)])
  BY <1>1, CloseAtOK
<1> QED
  BY <1>2 DEF AtFirstIndex, CloseArchive, WithArc, WithCur

\* The explorer at a stop that can be reached.
LEMMA AtStopOK ==
    ASSUME NEW R, NEW P, NEW d, DiskOK(P, d), NEW ex, ExplorerOK(R, P, d, ex),
           NEW s \in StopsAfter(ex, d) \union StopsBefore(ex, d)
    PROVE  MovesWithin(R, P, d, ex, Ok(StopAt(ex, d, s)))
BY StopsReachable, StopAtOK

LEMMA NextFileOK ==
    ASSUME NEW R, NEW P, NEW d, DiskOK(P, d), NEW ex, ExplorerOK(R, P, d, ex)
    PROVE  MovesWithin(R, P, d, ex, NextFile(ex, d))
<1>1. CASE StopsAfter(ex, d) # {}
  <2>1. Nearest(StopsAfter(ex, d)) \in StopsAfter(ex, d)
    BY <1>1, ChosenStops
  <2> QED
    BY <1>1, <2>1, AtStopOK DEF NextFile
<1>2. CASE StopsAfter(ex, d) = {}
  BY <1>2, AtLastIndexOK DEF NextFile, Fail
<1> QED
  BY <1>1, <1>2

LEMMA PreviousFileOK ==
    ASSUME NEW R, NEW P, NEW d, DiskOK(P, d), NEW ex, ExplorerOK(R, P, d, ex)
    PROVE  MovesWithin(R, P, d, ex, PreviousFile(ex, d))
<1>1. CASE ex.files = <<>>
  BY <1>1, StaysOK DEF PreviousFile, Fail
<1>2. CASE ex.files # <<>> /\ StopsBefore(ex, d) = {}
  BY <1>2, AtFirstIndexOK DEF PreviousFile, Fail
<1>3. CASE ex.files # <<>> /\ StopsBefore(ex, d) # {}
  <2>1. Farthest(StopsBefore(ex, d)) \in StopsBefore(ex, d)
    BY <1>3, ChosenStops
  <2> QED
    BY <1>3, <2>1, AtStopOK DEF PreviousFile
<1> QED
  BY <1>1, <1>2, <1>3

-----------------------------------------------------------------------------
(* toFirstFile, toLastFile and setRoot                                     *)

\* Starting at a file of the list, with the archives closed or that file's open.
LEMMA StartOK ==
    ASSUME NEW R, NEW P, NEW d, DiskOK(P, d), NEW ex, ExplorerOK(R, P, d, ex),
           NEW c \in 1..Len(ex.files), NEW start,
           start = WithArc(WithCur(ex, c), ClosedArchive)
    PROVE  /\ \A ok \in BOOLEAN : MovesWithin(R, P, d, ex, [ok |-> ok, ex |-> start])
           /\ \A a : OpensInRange(P, d, ex.files[c], a) /\ Recognized(d, ex.files[c]) =>
                 MovesWithin(R, P, d, ex, [ok |-> TRUE, ex |-> WithArc(start, a)])
<1>1. c \in Nat \ {0}
  BY OKFields
<1>2. ASSUME NEW ok \in BOOLEAN
      PROVE  MovesWithin(R, P, d, ex, [ok |-> ok, ex |-> start])
  BY <1>1, CloseAtOK
<1>3. ASSUME NEW a, OpensInRange(P, d, ex.files[c], a), Recognized(d, ex.files[c])
      PROVE  MovesWithin(R, P, d, ex, [ok |-> TRUE, ex |-> WithArc(start, a)])
  <2>1. WithArc(start, a) = WithArc(WithCur(ex, c), a)
    BY OKFields DEF WithArc, WithCur, Explorers
  <2>2. MovesWithin(R, P, d, ex, [ok |-> TRUE, ex |-> WithArc(WithCur(ex, c), a)])
    BY <1>3, OpenAtOK
  <2> QED
    BY <2>1, <2>2
<1> QED
  BY <1>2, <1>3

LEMMA FirstFileOK ==
    ASSUME NEW R, NEW P, NEW d, DiskOK(P, d), NEW ex, ExplorerOK(R, P, d, ex)
    PROVE  MovesWithin(R, P, d, ex, FirstFile(ex, d))
<1> DEFINE start == WithArc(WithCur(ex, 1), ClosedArchive)
           a == OpenedArchive(d, ex.files[1], TRUE)
           opened == WithArc(start, a)
<1>1. CloseArchive([ex EXCEPT !.cur = 1]) = start
  BY DEF CloseArchive, WithArc, WithCur
<1>2. CASE ex.files = <<>>
  <2>1. 1 \in Nat \ {0}
    OBVIOUS
  <2>2. MovesWithin(R, P, d, ex, [ok |-> FALSE, ex |-> start])
    BY <1>2, <2>1, CloseAtOK
  <2> QED
    BY <1>1, <1>2, <2>2 DEF FirstFile, Fail
<1>3. CASE ex.files # <<>>
  <2>1. 1 \in 1..Len(ex.files)
    BY <1>3, OKFields
  <2>2. Recognized(d, ex.files[1]) => OpensInRange(P, d, ex.files[1], a)
    BY OpenedArchiveInRange
  <2> HIDE DEF start, a
  <2>3. /\ MovesWithin(R, P, d, ex, [ok |-> TRUE, ex |-> start])
        /\ Recognized(d, ex.files[1]) => MovesWithin(R, P, d, ex, [ok |-> TRUE, ex |-> opened])
    BY <2>1, <2>2, StartOK DEF start
  <2> HIDE DEF opened
  <2>4. MovesWithin(R, P, d, ex, NextFile(start, d))
    <3>1. MovesWithin(R, P, d, start, NextFile(start, d))
      BY <2>3, NextFileOK DEF MovesWithin
    <3> QED
      BY <2>3, <3>1, ThenMoves
  <2>5. Recognized(d, ex.files[1]) => MovesWithin(R, P, d, ex, NextFile(opened, d))
    <3>1. Recognized(d, ex.files[1]) => MovesWithin(R, P, d, opened, NextFile(opened, d))
      BY <2>3, NextFileOK DEF MovesWithin
    <3> QED
      BY <2>3, <3>1, ThenMoves
  <2>6. opened = [start EXCEPT !.arc = OpenedArchive(d, ex.files[1], TRUE)]
    BY DEF opened, a, WithArc
  <2> QED
    BY <1>1, <1>3, <2>3, <2>4, <2>5, <2>6 DEF FirstFile, Ok
<1> QED
  BY <1>2, <1>3

LEMMA LastFileOK ==
    ASSUME NEW R, NEW P, NEW d, DiskOK(P, d), NEW ex, ExplorerOK(R, P, d, ex)
    PROVE  MovesWithin(R, P, d, ex, LastFile(ex, d))
<1> DEFINE n == Len(ex.files)
           start == WithArc(WithCur(ex, n), ClosedArchive)
           a == OpenedArchive(d, ex.files[n], FALSE)
           opened == WithArc(start, a)
<1>1. CASE ex.files = <<>>
  <2>1. MovesWithin(R, P, d, ex, [ok |-> FALSE, ex |-> WithArc(ex, ClosedArchive)])
    BY CloseHereOK
  <2> QED
    BY <1>1, <2>1 DEF LastFile, Fail, CloseArchive, WithArc
<1>2. CASE ex.files # <<>>
  <2>1. [CloseArchive(ex) EXCEPT !.cur = n] = start
    BY OKFields DEF CloseArchive, WithArc, WithCur, Explorers
  <2>2. n \in 1..Len(ex.files)
    BY <1>2, OKFields
  <2>3. Recognized(d, ex.files[n]) => OpensInRange(P, d, ex.files[n], a)
    BY OpenedArchiveInRange
  <2> HIDE DEF start, a, n
  <2>4. /\ MovesWithin(R, P, d, ex, [ok |-> TRUE, ex |-> start])
        /\ Recognized(d, ex.files[n]) => MovesWithin(R, P, d, ex, [ok |-> TRUE, ex |-> opened])
    BY <2>2, <2>3, StartOK DEF start
  <2> HIDE DEF opened
  <2>5. MovesWithin(R, P, d, ex, PreviousFile(start, d))
    <3>1. MovesWithin(R, P, d, start, PreviousFile(start, d))
      BY <2>4, PreviousFileOK DEF MovesWithin
    <3> QED
      BY <2>4, <3>1, ThenMoves
  <2>6. Recognized(d, ex.files[n]) => MovesWithin(R, P, d, ex, PreviousFile(opened, d))
    <3>1. Recognized(d, ex.files[n]) => MovesWithin(R, P, d, opened, PreviousFile(opened, d))
      BY <2>4, PreviousFileOK DEF MovesWithin
    <3> QED
      BY <2>4, <3>1, ThenMoves
  <2>7. opened = [start EXCEPT !.arc = OpenedArchive(d, ex.files[n], FALSE)]
    BY DEF opened, a, WithArc
  <2> QED
    BY <1>2, <2>1, <2>4, <2>5, <2>6, <2>7 DEF LastFile, StartAtLastFile, Ok, n
<1> QED
  BY <1>1, <1>2

\* The first call on an explorer.
LEMMA FirstRootOK ==
    ASSUME NEW R, NEW P, NEW d, DiskOK(P, d), NEW root \in R
    PROVE  /\ ExplorerOK(R, P, d, WithRoot(NewExplorer, d, root))
           /\ MovesWithin(R, P, d, WithRoot(NewExplorer, d, root),
                          SetRootPath(NewExplorer, d, root))
<1> DEFINE new == WithRoot(NewExplorer, d, root)
           list == ListFiles(d, root)
<1>1. list \in Seq(P) /\ NothingBelowArchives(d, list)
  BY DEF ListFiles, DiskOK, NothingBelowArchives
<1>2. list # <<>> => 1 \in 1..Len(list)
  BY <1>1
<1> HIDE DEF list
<1>3. /\ NewExplorer \in Explorers({NoPath}, P)
      /\ NewExplorer.cur = 1
      /\ NewExplorer.arc = ClosedArchive
  BY ClosedArchiveTyped DEF NewExplorer, Explorers, Archives
<1>4. /\ new \in Explorers(R, P)
      /\ new.files = list
      /\ new.cur = 1
      /\ new.arc = ClosedArchive
  BY <1>1, <1>3 DEF WithRoot, Explorers, list
<1> HIDE DEF new
<1>5. ExplorerOK(R, P, d, new)
  BY <1>1, <1>2, <1>4, ClosedArchiveTyped
     DEF ExplorerOK, AssertsHold, InArchive, ArchiveMatches
<1>6. MovesWithin(R, P, d, new, EnterPath(new, d, PathToFile(root, NoPath)))
  BY <1>5, EnterPathOK
<1> QED
  BY <1>5, <1>6 DEF new, SetRootPath

-----------------------------------------------------------------------------
(* The order of the stops of a root, and steps that undo each other        *)

Stops(d, files) == UNION {{<<f, a>> : a \in StopsAt(d, files, f)} : f \in 1..Len(files)}

\* The archive that is open has not been deleted.
ArchivePresent(d, ex) == ex.arc.open => ex.files # <<>> /\ Recognized(d, ex.files[ex.cur])

Standing(ex) == <<ex.cur, IF ex.arc.open THEN ex.arc.cur ELSE 0>>

StandsAtStop(d, ex) ==
    IF ex.arc.open THEN InArchive(ex) /\ ex.arc.list[ex.arc.cur].isFile
    ELSE /\ ex.files # <<>>
         /\ ex.files[ex.cur].isFile
         /\ ~Recognized(d, ex.files[ex.cur])

\* The explorer that stands at stop s.
ExplorerAt(d, root, files, s) ==
    [root |-> root, files |-> files, cur |-> s[1],
     arc |-> IF s[2] = 0 THEN ClosedArchive
             ELSE [open |-> TRUE, list |-> d.archives[files[s[1]]], cur |-> s[2]]]

\* An element before all others is the nearest, one after them the farthest.
LEMMA OnlyNearest ==
    ASSUME NEW S \in SUBSET (Nat \X Nat), NEW s, IsNearest(S, s)
    PROVE  Nearest(S) = s
<1>1. IsNearest(S, Nearest(S))
  BY NearestOfStops DEF IsNearest
<1>2. s \in Nat \X Nat /\ Nearest(S) \in Nat \X Nat
  BY <1>1 DEF IsNearest
<1>3. ~(Before(s, Nearest(S)) /\ Before(Nearest(S), s))
  BY <1>2 DEF Before
<1> QED
  BY <1>1, <1>3 DEF IsNearest

LEMMA OnlyFarthest ==
    ASSUME NEW S \in SUBSET (Nat \X Nat), NEW s, IsFarthest(S, s)
    PROVE  Farthest(S) = s
<1>1. IsFarthest(S, Farthest(S))
  BY DEF IsFarthest, Farthest
<1>2. s \in Nat \X Nat /\ Farthest(S) \in Nat \X Nat
  BY <1>1 DEF IsFarthest
<1>3. ~(Before(s, Farthest(S)) /\ Before(Farthest(S), s))
  BY <1>2 DEF Before
<1> QED
  BY <1>1, <1>3 DEF IsFarthest

LEMMA StopFields ==
    ASSUME NEW d, NEW files, NEW s
    PROVE  /\ s \in Stops(d, files) <=> /\ s = <<s[1], s[2]>>
                                        /\ s[1] \in 1..Len(files)
                                        /\ s[2] \in StopsAt(d, files, s[1])
           /\ s \in Stops(d, files) =>
                 /\ files[s[1]].isFile
                 /\ s[2] = 0 => ~Recognized(d, files[s[1]])
                 /\ s[2] # 0 => /\ Recognized(d, files[s[1]])
                                /\ s[2] \in FileEntries(d.archives[files[s[1]]])
<1>1. ASSUME s \in Stops(d, files)
      PROVE  s = <<s[1], s[2]>> /\ s[1] \in 1..Len(files) /\ s[2] \in StopsAt(d, files, s[1])
  <2>1. PICK f \in 1..Len(files) : \E a \in StopsAt(d, files, f) : s = <<f, a>>
    BY <1>1 DEF Stops
  <2> QED
    BY <2>1
<1>2. ASSUME s = <<s[1], s[2]>>, s[1] \in 1..Len(files), s[2] \in StopsAt(d, files, s[1])
      PROVE  s \in Stops(d, files)
  BY <1>2 DEF Stops
<1>3. ASSUME s \in Stops(d, files)
      PROVE  /\ files[s[1]].isFile
             /\ s[2] = 0 => ~Recognized(d, files[s[1]])
             /\ s[2] # 0 => /\ Recognized(d, files[s[1]])
                            /\ s[2] \in FileEntries(d.archives[files[s[1]]])
  BY <1>1, <1>3 DEF StopsAt, FileEntries
<1> QED
  BY <1>1, <1>2, <1>3

LEMMA StopsTyped ==
    ASSUME NEW P, NEW d, NEW files \in Seq(P)
    PROVE  Stops(d, files) \in SUBSET (Nat \X Nat)
<1>1. ASSUME NEW s \in Stops(d, files) PROVE s \in Nat \X Nat
  <2>1. s = <<s[1], s[2]>> /\ s[1] \in 1..Len(files) /\ s[2] \in StopsAt(d, files, s[1])
    BY StopFields
  <2>2. s[1] \in Nat /\ s[2] \in Nat
    BY <2>1 DEF StopsAt, FileEntries
  <2> QED
    BY <2>1, <2>2
<1> QED
  BY <1>1

\* The stops the walks can reach, as those of the list behind and before the
\* explorer's position.
LEMMA StopsBeyond ==
    ASSUME NEW R, NEW P, NEW d, DiskOK(P, d), NEW ex, ExplorerOK(R, P, d, ex),
           ArchivePresent(d, ex)
    PROVE  /\ StopsAfter(ex, d) =
                 {s \in Stops(d, ex.files) :
                    s[1] > ex.cur \/ (ex.arc.open /\ s[1] = ex.cur /\ s[2] > ex.arc.cur)}
           /\ StopsBefore(ex, d) =
                 {s \in Stops(d, ex.files) :
                    s[1] < ex.cur \/ (ex.arc.open /\ s[1] = ex.cur /\ s[2] < ex.arc.cur)}
<1>1. ex.cur \in Nat \ {0} /\ Len(ex.files) \in Nat
  BY OKFields
<1>2. ex.arc.open => /\ StopsAt(d, ex.files, ex.cur) = FileEntries(ex.arc.list)
                     /\ ex.cur \in 1..Len(ex.files)
  BY OKFields DEF ArchivePresent, StopsAt, Recognized
<1>3. ASSUME NEW s
      PROVE  s \in Stops(d, ex.files) <=> /\ s = <<s[1], s[2]>>
                                          /\ s[1] \in 1..Len(ex.files)
                                          /\ s[2] \in StopsAt(d, ex.files, s[1])
  BY StopFields
<1>4. ASSUME NEW s
      PROVE  s \in StopsAfter(ex, d) <=>
                /\ s \in Stops(d, ex.files)
                /\ s[1] > ex.cur \/ (ex.arc.open /\ s[1] = ex.cur /\ s[2] > ex.arc.cur)
  <2>1. s \in StopsAfter(ex, d) <=>
           \/ ex.arc.open /\ \E a \in FileEntries(ex.arc.list) : a > ex.arc.cur /\ s = <<ex.cur, a>>
           \/ \E f \in (ex.cur + 1)..Len(ex.files) : \E a \in StopsAt(d, ex.files, f) : s = <<f, a>>
    BY DEF StopsAfter
  <2>2. \A f : f \in (ex.cur + 1)..Len(ex.files) <=> f \in 1..Len(ex.files) /\ f > ex.cur
    BY <1>1
  <2> QED
    BY <1>2, <1>3, <2>1, <2>2
<1>5. ASSUME NEW s
      PROVE  s \in StopsBefore(ex, d) <=>
                /\ s \in Stops(d, ex.files)
                /\ s[1] < ex.cur \/ (ex.arc.open /\ s[1] = ex.cur /\ s[2] < ex.arc.cur)
  <2>1. s \in StopsBefore(ex, d) <=>
           \/ ex.arc.open /\ \E a \in FileEntries(ex.arc.list) : a < ex.arc.cur /\ s = <<ex.cur, a>>
           \/ \E f \in 1..Len(ex.files) : f < ex.cur /\ \E a \in StopsAt(d, ex.files, f) : s = <<f, a>>
    BY DEF StopsBefore
  <2> QED
    BY <1>2, <1>3, <2>1
<1> QED
  BY <1>4, <1>5

\* Seen from a stop, the walks can reach all stops after it and all before it.
LEMMA StopsAround ==
    ASSUME NEW R, NEW P, NEW d, DiskOK(P, d), NEW ex, ExplorerOK(R, P, d, ex),
           ArchivePresent(d, ex), StandsAtStop(d, ex)
    PROVE  /\ Standing(ex) \in Stops(d, ex.files)
           /\ StopsAfter(ex, d) = {s \in Stops(d, ex.files) : Before(Standing(ex), s)}
           /\ StopsBefore(ex, d) = {s \in Stops(d, ex.files) : Before(s, Standing(ex))}
<1> DEFINE here == Standing(ex)[2]
<1>1. /\ ex.files # <<>> /\ ex.cur \in 1..Len(ex.files) /\ ex.files \in Seq(P)
      /\ Standing(ex) = <<ex.cur, here>> /\ here \in Nat
      /\ Len(ex.files) \in Nat
  <2>1. ex.files # <<>>
    BY DEF ArchivePresent, StandsAtStop
  <2>2. here = IF ex.arc.open THEN ex.arc.cur ELSE 0
    BY DEF Standing
  <2>3. ex.arc.cur \in Nat
    BY OKFields DEF Archives
  <2>4. Standing(ex) = <<ex.cur, here>>
    BY <2>2 DEF Standing
  <2> QED
    BY <2>1, <2>2, <2>3, <2>4, OKFields
<1>2. here \in StopsAt(d, ex.files, ex.cur)
  <2>1. CASE ex.arc.open
    BY <1>1, <2>1, OKFields
       DEF ArchivePresent, StandsAtStop, Standing, StopsAt, Recognized, FileEntries, InArchive
  <2>2. CASE ~ex.arc.open
    BY <2>2 DEF StandsAtStop, Standing, StopsAt
  <2> QED
    BY <2>1, <2>2
<1>3. /\ ex.arc.open => here = ex.arc.cur
      /\ ~ex.arc.open => StopsAt(d, ex.files, ex.cur) = {0} /\ here = 0
  BY DEF StandsAtStop, Standing, StopsAt
<1>4. Standing(ex) \in Stops(d, ex.files)
  <2> HIDE DEF here
  <2> QED
    BY <1>1, <1>2, StopFields
<1> HIDE DEF here
<1>5. ASSUME NEW s \in Stops(d, ex.files)
      PROVE  /\ Before(Standing(ex), s) <=>
                   s[1] > ex.cur \/ (ex.arc.open /\ s[1] = ex.cur /\ s[2] > ex.arc.cur)
             /\ Before(s, Standing(ex)) <=>
                   s[1] < ex.cur \/ (ex.arc.open /\ s[1] = ex.cur /\ s[2] < ex.arc.cur)
  <2>1. s[1] \in Nat /\ s[2] \in Nat
    BY <1>1, StopsTyped
  <2>2. s[1] = ex.cur /\ ~ex.arc.open => s[2] = 0
    BY <1>3, StopFields
  <2> QED
    BY <1>1, <1>3, <2>1, <2>2 DEF Before
<1> QED
  BY <1>4, <1>5, StopsBeyond

\* An explorer at a stop is given by the stop, its root and its list.
LEMMA StandingThere ==
    ASSUME NEW R, NEW P, NEW d, DiskOK(P, d), NEW ex, ExplorerOK(R, P, d, ex),
           ArchivePresent(d, ex)
    PROVE  /\ StandsAtStop(d, ex) => ex = ExplorerAt(d, ex.root, ex.files, Standing(ex))
           /\ \A s \in Stops(d, ex.files) :
                 StopAt(ex, d, s) = ExplorerAt(d, ex.root, ex.files, s)
<1>1. /\ ex = [root |-> ex.root, files |-> ex.files, cur |-> ex.cur, arc |-> ex.arc]
      /\ ex.arc = [open |-> ex.arc.open, list |-> ex.arc.list, cur |-> ex.arc.cur]
  BY OKFields DEF Explorers, Archives
<1>2. ASSUME StandsAtStop(d, ex)
      PROVE  ex = ExplorerAt(d, ex.root, ex.files, Standing(ex))
  <2>1. CASE ex.arc.open
    <3>1. ex.arc.cur # 0 /\ ex.arc.list = d.archives[ex.files[ex.cur]] /\ ex.arc.open = TRUE
      BY <1>2, <2>1, OKFields DEF StandsAtStop, ArchivePresent, InArchive
    <3>2. ex.arc = [open |-> TRUE, list |-> d.archives[ex.files[ex.cur]], cur |-> ex.arc.cur]
      BY <1>1, <3>1
    <3> QED
      BY <1>1, <2>1, <3>1, <3>2 DEF ExplorerAt, Standing
  <2>2. CASE ~ex.arc.open
    BY <1>1, <2>2, OKFields DEF ExplorerAt, Standing
  <2> QED
    BY <2>1, <2>2
<1>3. ASSUME NEW s \in Stops(d, ex.files)
      PROVE  StopAt(ex, d, s) = ExplorerAt(d, ex.root, ex.files, s)
  <2> DEFINE arc == IF s[2] = 0 THEN ClosedArchive
                    ELSE [ArchiveAt(ex, d, s[1]) EXCEPT !.cur = s[2]]
  <2>1. StopAt(ex, d, s) = [ex EXCEPT !.cur = s[1], !.arc = arc]
    BY DEF StopAt
  <2>2. ASSUME s[2] # 0
        PROVE  arc = [open |-> TRUE, list |-> d.archives[ex.files[s[1]]], cur |-> s[2]]
    <3>1. Recognized(d, ex.files[s[1]])
      BY <2>2, StopFields
    <3>2. CASE ex.arc.open /\ s[1] = ex.cur
      <4>1. ex.arc.open = TRUE /\ ex.arc.list = d.archives[ex.files[s[1]]]
        BY <3>2, OKFields DEF ArchivePresent
      <4> QED
        BY <1>1, <2>2, <3>2, <4>1 DEF ArchiveAt
    <3>3. CASE ~(ex.arc.open /\ s[1] = ex.cur)
      BY <2>2, <3>1, <3>3 DEF ArchiveAt, OpenedArchive
    <3> QED
      BY <3>2, <3>3
  <2>3. s[2] = 0 => arc = ClosedArchive
    OBVIOUS
  <2> HIDE DEF arc
  <2>4. StopAt(ex, d, s) = [root |-> ex.root, files |-> ex.files, cur |-> s[1], arc |-> arc]
    BY <1>1, <2>1
  <2> QED
    BY <2>2, <2>3, <2>4 DEF ExplorerAt
<1> QED
  BY <1>2, <1>3

\* The explorer at a stop of the list is in range and stands there.
LEMMA ExplorerAtOK ==
    ASSUME NEW R, NEW P, NEW d, DiskOK(P, d), NEW ex, ExplorerOK(R, P, d, ex),
           NEW s \in Stops(d, ex.files), NEW there,
           there = ExplorerAt(d, ex.root, ex.files, s)
    PROVE  /\ ExplorerOK(R, P, d, there)
           /\ there.root = ex.root /\ there.files = ex.files
           /\ ArchivePresent(d, there)
           /\ StandsAtStop(d, there)
           /\ Standing(there) = s
<1>1. /\ s = <<s[1], s[2]>> /\ s[1] \in 1..Len(ex.files) /\ ex.files[s[1]].isFile
      /\ s[2] = 0 => ~Recognized(d, ex.files[s[1]])
      /\ s[2] # 0 => /\ Recognized(d, ex.files[s[1]])
                     /\ s[2] \in FileEntries(d.archives[ex.files[s[1]]])
  BY StopFields
<1>2. /\ there.root = ex.root /\ there.files = ex.files /\ there.cur = s[1]
      /\ ex.root \in R /\ ex.files \in Seq(P) /\ ex.files # <<>>
      /\ NothingBelowArchives(d, ex.files)
  BY <1>1, OKFields DEF ExplorerAt, Explorers
<1>3. CASE s[2] = 0
  <2>1. there.arc = ClosedArchive
    BY <1>3 DEF ExplorerAt
  <2>2. there = [root |-> ex.root, files |-> ex.files, cur |-> s[1], arc |-> ClosedArchive]
    BY <1>3 DEF ExplorerAt
  <2>3. there \in Explorers(R, P)
    BY <1>1, <1>2, <2>2, OKFields, ClosedArchiveTyped DEF Explorers, Archives
  <2> QED
    BY <1>1, <1>2, <1>3, <2>1, <2>3, ClosedArchiveTyped
       DEF ExplorerOK, AssertsHold, InArchive, ArchiveMatches, ArchivePresent, StandsAtStop,
           Standing
<1>4. CASE s[2] # 0
  <2> DEFINE list == d.archives[ex.files[s[1]]]
  <2>1. there.arc = [open |-> TRUE, list |-> list, cur |-> s[2]]
    BY <1>4 DEF ExplorerAt
  <2>2. list \in Seq(P) /\ s[2] \in 1..Len(list) /\ list[s[2]].isFile /\ s[2] \in Nat
        /\ list # <<>>
    BY <1>1, <1>4 DEF DiskOK, Recognized, FileEntries
  <2>3. there = [root |-> ex.root, files |-> ex.files, cur |-> s[1],
                 arc |-> [open |-> TRUE, list |-> list, cur |-> s[2]]]
    BY <1>4 DEF ExplorerAt
  <2>4. IsArchiveFile(d, ex.files[s[1]]) /\ Recognized(d, ex.files[s[1]])
    BY <1>1, <1>4 DEF IsArchiveFile, Recognized
  <2> HIDE DEF list
  <2>5. there \in Explorers(R, P)
    BY <1>1, <1>2, <2>2, <2>3, OKFields DEF Explorers
  <2>6. ArchiveMatches(d, there)
    BY <1>2, <2>1, <2>4 DEF ArchiveMatches, list
  <2> QED
    BY <1>1, <1>2, <2>1, <2>2, <2>4, <2>5, <2>6
       DEF ExplorerOK, AssertsHold, InArchive, ArchivePresent, StandsAtStop, Standing
<1> QED
  BY <1>3, <1>4

\* toNextFile and toPreviousFile undo each other.
LEMMA NextThenPrevious ==
    ASSUME NEW R, NEW P, NEW d, DiskOK(P, d), NEW ex, ExplorerOK(R, P, d, ex),
           ArchivePresent(d, ex), StandsAtStop(d, ex), NextFile(ex, d).ok
    PROVE  PreviousFile(NextFile(ex, d).ex, d) = Ok(ex)
<1> DEFINE All == Stops(d, ex.files)
           here == Standing(ex)
           t == Nearest(StopsAfter(ex, d))
           there == StopAt(ex, d, t)
<1>1. StopsAfter(ex, d) # {} /\ NextFile(ex, d) = Ok(there)
  BY DEF NextFile, Fail
<1>2. /\ All \in SUBSET (Nat \X Nat)
      /\ here \in All
      /\ StopsAfter(ex, d) = {s \in All : Before(here, s)}
  BY StopsAround, StopsTyped, OKFields
<1>3. IsNearest(StopsAfter(ex, d), t)
  BY <1>1, <1>2, NearestOfStops
<1>4. t \in All /\ Before(here, t)
  BY <1>2, <1>3 DEF IsNearest
<1>5. there = ExplorerAt(d, ex.root, ex.files, t)
  BY <1>4, StandingThere
<1> HIDE DEF t, there
<1>6. /\ ExplorerOK(R, P, d, there) /\ ArchivePresent(d, there)
      /\ there.root = ex.root /\ there.files = ex.files
      /\ StandsAtStop(d, there) /\ Standing(there) = t
  BY <1>4, <1>5, ExplorerAtOK
<1>7. StopsBefore(there, d) = {s \in All : Before(s, t)}
  BY <1>6, StopsAround
<1>8. IsFarthest(StopsBefore(there, d), here)
  <2>1. ASSUME NEW s \in All, Before(s, t), s # here PROVE Before(s, here)
    <3>1. s \in Nat \X Nat /\ here \in Nat \X Nat /\ t \in Nat \X Nat
      BY <1>2, <1>4
    <3>2. ~Before(here, s)
      <4> SUFFICES ASSUME Before(here, s) PROVE FALSE
        OBVIOUS
      <4>1. s \in StopsAfter(ex, d)
        BY <1>2
      <4>2. s = t \/ Before(t, s)
        BY <1>3, <4>1 DEF IsNearest
      <4> QED
        BY <2>1, <3>1, <4>2 DEF Before
    <3>3. s[1] \in Nat /\ s[2] \in Nat /\ here[1] \in Nat /\ here[2] \in Nat
          /\ s = <<s[1], s[2]>> /\ here = <<here[1], here[2]>>
      BY <3>1
    <3> QED
      BY <2>1, <3>2, <3>3 DEF Before
  <2> QED
    BY <1>2, <1>4, <1>7, <2>1 DEF IsFarthest
<1>9. Farthest(StopsBefore(there, d)) = here
  BY <1>2, <1>7, <1>8, OnlyFarthest
<1>10. StopAt(there, d, here) = ex
  BY <1>2, <1>6, StandingThere
<1>11. StopsBefore(there, d) # {} /\ there.files # <<>>
  BY <1>6, <1>8, OKFields DEF IsFarthest, StandsAtStop, ArchivePresent
<1>12. PreviousFile(there, d) = Ok(ex)
  BY <1>9, <1>10, <1>11 DEF PreviousFile
<1> QED
  BY <1>1, <1>12 DEF Ok

LEMMA PreviousThenNext ==
    ASSUME NEW R, NEW P, NEW d, DiskOK(P, d), NEW ex, ExplorerOK(R, P, d, ex),
           ArchivePresent(d, ex), StandsAtStop(d, ex), PreviousFile(ex, d).ok
    PROVE  NextFile(PreviousFile(ex, d).ex, d) = Ok(ex)
<1> DEFINE All == Stops(d, ex.files)
           here == Standing(ex)
           t == Farthest(StopsBefore(ex, d))
           there == StopAt(ex, d, t)
<1>1. StopsBefore(ex, d) # {} /\ PreviousFile(ex, d) = Ok(there)
  BY DEF PreviousFile, Fail
<1>2. /\ All \in SUBSET (Nat \X Nat)
      /\ here \in All
      /\ StopsBefore(ex, d) = {s \in All : Before(s, here)}
  BY StopsAround, StopsTyped, OKFields
<1>3. IsFarthest(StopsBefore(ex, d), t)
  BY <1>1, ChosenStops
<1>4. t \in All /\ Before(t, here)
  BY <1>2, <1>3 DEF IsFarthest
<1>5. there = ExplorerAt(d, ex.root, ex.files, t)
  BY <1>4, StandingThere
<1> HIDE DEF t, there
<1>6. /\ ExplorerOK(R, P, d, there) /\ ArchivePresent(d, there)
      /\ there.root = ex.root /\ there.files = ex.files
      /\ StandsAtStop(d, there) /\ Standing(there) = t
  BY <1>4, <1>5, ExplorerAtOK
<1>7. StopsAfter(there, d) = {s \in All : Before(t, s)}
  BY <1>6, StopsAround
<1>8. IsNearest(StopsAfter(there, d), here)
  <2>1. ASSUME NEW s \in All, Before(t, s), s # here PROVE Before(here, s)
    <3>1. s \in Nat \X Nat /\ here \in Nat \X Nat /\ t \in Nat \X Nat
      BY <1>2, <1>4
    <3>2. ~Before(s, here)
      <4> SUFFICES ASSUME Before(s, here) PROVE FALSE
        OBVIOUS
      <4>1. s \in StopsBefore(ex, d)
        BY <1>2
      <4>2. s = t \/ Before(s, t)
        BY <1>3, <4>1 DEF IsFarthest
      <4> QED
        BY <2>1, <3>1, <4>2 DEF Before
    <3>3. s[1] \in Nat /\ s[2] \in Nat /\ here[1] \in Nat /\ here[2] \in Nat
          /\ s = <<s[1], s[2]>> /\ here = <<here[1], here[2]>>
      BY <3>1
    <3> QED
      BY <2>1, <3>2, <3>3 DEF Before
  <2> QED
    BY <1>2, <1>4, <1>7, <2>1 DEF IsNearest
<1>9. Nearest(StopsAfter(there, d)) = here
  BY <1>2, <1>7, <1>8, OnlyNearest
<1>10. StopAt(there, d, here) = ex
  BY <1>2, <1>6, StandingThere
<1>11. NextFile(there, d) = Ok(ex)
  BY <1>8, <1>9, <1>10 DEF NextFile, IsNearest
<1> QED
  BY <1>1, <1>11 DEF Ok

-----------------------------------------------------------------------------
(* The way back to a file                                                  *)

\* A file of a list whose names are unique is found where it stands.
LEMMA FindFile ==
    ASSUME NEW N, NEW list \in Seq(Path(N)), FilesAreLeaves(list),
           NEW i \in 1..Len(list), list[i].isFile
    PROVE  FindEntryInList(list, list[i]) = i
<1>1. Level(list[i]) \in Nat
  BY DEF Level, Path
<1>2. StartsWith(list[i], list[i], Level(list[i]))
  BY <1>1 DEF StartsWith
<1>3. Matching(list, list[i], Level(list[i])) = {i}
  BY <1>2 DEF Matching, FilesAreLeaves
<1>4. FirstIndex({i}) = i
  BY DEF FirstIndex
<1> QED
  BY <1>3, <1>4 DEF FindEntryInList

\* Of two entries with the same path, one a file, there is only one.
LEMMA SamePathSameFile ==
    ASSUME NEW N, NEW list \in Seq(Path(N)), FilesAreLeaves(list),
           NEW i \in 1..Len(list), list[i].isFile,
           NEW j \in 1..Len(list), SamePath(list[j], list[i])
    PROVE  i = j
<1>1. Level(list[i]) \in Nat
  BY DEF Level, Path
<1>2. StartsWith(list[j], list[i], Level(list[i]))
  BY <1>1 DEF StartsWith, SamePath, Level
<1> QED
  BY <1>2 DEF FilesAreLeaves

\* The position of the explorer at a stop.
PosAt(d, files, s) ==
    PathToFile(files[s[1]], IF s[2] = 0 THEN NoPath ELSE d.archives[files[s[1]]][s[2]])

LEMMA PosAtStop ==
    ASSUME NEW d, NEW root, NEW files, NEW s \in Stops(d, files), files # <<>>
    PROVE  GetCurrentPos(ExplorerAt(d, root, files, s)) = PosAt(d, files, s)
<1>1. s[2] # 0 => d.archives[files[s[1]]] # <<>>
  BY StopFields DEF FileEntries
<1>2. CASE s[2] = 0
  BY <1>2 DEF GetCurrentPos, ExplorerAt, PosAt, InArchive, ClosedArchive
<1>3. CASE s[2] # 0
  BY <1>1, <1>3 DEF GetCurrentPos, ExplorerAt, PosAt, InArchive
<1> QED
  BY <1>2, <1>3

\* What the updates of the operations make of an explorer's fields.
Fields(root, files, cur, arc) == [root |-> root, files |-> files, cur |-> cur, arc |-> arc]

OpenAt(list, c) == [open |-> TRUE, list |-> list, cur |-> c]

AtEntry(ex, a) == [ex EXCEPT !.arc.cur = a]

LEMMA MovedFields ==
    ASSUME NEW root, NEW files, NEW cur, NEW arc, NEW v, NEW ex,
           ex = Fields(root, files, cur, arc)
    PROVE  /\ WithCur(ex, v) = Fields(root, files, v, arc)
           /\ WithArc(ex, v) = Fields(root, files, cur, v)
BY DEF Fields, WithCur, WithArc

LEMMA MovedEntry ==
    ASSUME NEW list, NEW entry, NEW v, NEW arc, arc = OpenAt(list, entry)
    PROVE  WithEntry(arc, v) = OpenAt(list, v)
<1>1. ASSUME NEW open, arc = [open |-> open, list |-> list, cur |-> entry]
      PROVE  WithEntry(arc, v) = [open |-> open, list |-> list, cur |-> v]
  BY <1>1 DEF WithEntry
<1> QED
  BY <1>1 DEF OpenAt

LEMMA EntryFields ==
    ASSUME NEW root, NEW files, NEW cur, NEW list, NEW entry, NEW v, NEW ex,
           ex = Fields(root, files, cur, OpenAt(list, entry))
    PROVE  AtEntry(ex, v) = Fields(root, files, cur, OpenAt(list, v))
<1>1. ex.arc = OpenAt(list, entry)
  BY DEF Fields
<1>2. \A arc : arc = OpenAt(list, entry) => WithEntry(arc, v) = OpenAt(list, v)
  BY MovedEntry
<1>3. AtEntry(ex, v) = WithArc(ex, WithEntry(ex.arc, v))
  BY DEF AtEntry, WithArc, WithEntry
<1> QED
  BY <1>1, <1>2, <1>3, MovedFields

\* A file of the list beside which no archive is open, or an entry of one.
Spot(d, ex, s) ==
    /\ s = <<s[1], s[2]>> /\ s[1] \in 1..Len(ex.files) /\ ex.files[s[1]].isFile
    /\ s[2] = 0 => ~Recognized(d, ex.files[s[1]]) /\ ~(ex.arc.open /\ ex.cur = s[1])
    /\ s[2] # 0 => /\ ex.files[s[1]] \in DOMAIN d.archives
                   /\ s[2] \in FileEntries(d.archives[ex.files[s[1]]])

(***************************************************************************)
(* enter, called with the position of a file or of an entry of an archive, *)
(* ends there or fails; it fails only if an archive has been deleted and   *)
(* is not open.                                                            *)
(***************************************************************************)
LEMMA EnterSpot ==
    ASSUME NEW R, NEW N, NEW d, NEW ex, NEW s,
           DiskOK(Path(N), d), NamesAreUnique(d),
           ExplorerOK(R, Path(N), d, ex),
           ~IsEmptyPath(ex.root), FilesAreLeaves(ex.files),
           Spot(d, ex, s)
    PROVE  /\ EnterPath(ex, d, PosAt(d, ex.files, s)).ok =>
                 EnterPath(ex, d, PosAt(d, ex.files, s)) =
                    Ok(ExplorerAt(d, ex.root, ex.files, s))
           /\ s[2] = 0 \/ ex.files[s[1]] \in d.present =>
                 EnterPath(ex, d, PosAt(d, ex.files, s)).ok
<1> DEFINE P == Path(N)
           f == s[1]
           a == s[2]
           file == ex.files[f]
           list == d.archives[file]
           path == PosAt(d, ex.files, s)
           there == ExplorerAt(d, ex.root, ex.files, s)
           pos == GetCurrentPos(ex)
<1>1. /\ s = <<f, a>> /\ f \in 1..Len(ex.files) /\ file.isFile
      /\ a = 0 => ~Recognized(d, file) /\ ~(ex.arc.open /\ ex.cur = f)
      /\ a # 0 => file \in DOMAIN d.archives /\ a \in FileEntries(list)
  BY DEF Spot
<1>2. /\ ex.files \in Seq(P) /\ ex.files # <<>> /\ ex.cur \in 1..Len(ex.files)
      /\ ex.arc.open \in BOOLEAN
      /\ ~ex.arc.open => ex.arc = ClosedArchive
      /\ ex.arc.open => ex.arc.list = d.archives[ex.files[ex.cur]]
      /\ InArchive(ex) => ex.arc.cur \in 1..Len(ex.arc.list)
  BY <1>1, OKFields DEF InArchive
<1>3. a # 0 => /\ list \in Seq(P) /\ FilesAreLeaves(list) /\ list # <<>>
               /\ a \in 1..Len(list) /\ list[a].isFile /\ ~IsEmptyPath(list[a])
               /\ a \in Nat
  BY <1>1 DEF DiskOK, FileEntries, NamesAreUnique, FilesAreLeaves
<1>4. /\ path.filePath = file
      /\ a = 0 => path.pathInArchive = NoPath
      /\ a # 0 => path.pathInArchive = list[a]
      /\ ~IsEmptyPath(file)
  BY <1>1 DEF PosAt, PathToFile, FilesAreLeaves
<1>5. /\ ex = Fields(ex.root, ex.files, ex.cur, ex.arc)
      /\ ex.arc = [open |-> ex.arc.open, list |-> ex.arc.list, cur |-> ex.arc.cur]
  BY OKFields DEF Explorers, Archives, Fields
<1>6. SamePath(pos.filePath, file) => ex.cur = f
  BY <1>1, <1>2, SamePathSameFile DEF GetCurrentPos, PathToFile
<1>7. /\ FindEntryInList(ex.files, file) = f
      /\ a # 0 => FindEntryInList(list, list[a]) = a
      /\ f # 0
  BY <1>1, <1>2, <1>3, FindFile
<1>8. there = Fields(ex.root, ex.files, f,
                     IF a = 0 THEN ClosedArchive
                     ELSE OpenAt(list, a))
  BY DEF ExplorerAt, Fields, OpenAt
<1>9. ~SamePlace(path, NoPathToFile)
  BY <1>4 DEF SamePlace, NoPathToFile, PathToFile, SamePath, NoPath, IsEmptyPath
<1>10. ASSUME SamePlace(pos, path) PROVE ex = there
  <2>1. ex.cur = f
    BY <1>4, <1>6, <1>10 DEF SamePlace
  <2>2. CASE a = 0
    <3>1. ex.arc = ClosedArchive
      BY <1>1, <1>2, <2>1, <2>2
    <3> QED
      BY <1>5, <1>8, <2>1, <2>2, <3>1
  <2>3. CASE a # 0
    <3>1. SamePath(pos.pathInArchive, list[a])
      BY <1>4, <1>10, <2>3 DEF SamePlace
    <3>2. InArchive(ex)
      BY <1>3, <2>3, <3>1 DEF GetCurrentPos, PathToFile, SamePath, NoPath, IsEmptyPath
    <3>3. ex.arc.open = TRUE /\ ex.arc.list = list
      BY <1>2, <2>1, <3>2 DEF InArchive
    <3>4. SamePath(list[ex.arc.cur], list[a]) /\ ex.arc.cur \in 1..Len(list)
      BY <1>2, <3>1, <3>2, <3>3 DEF GetCurrentPos, PathToFile
    <3>5. ex.arc.cur = a
      BY <1>3, <2>3, <3>4, SamePathSameFile
    <3> QED
      BY <1>5, <1>8, <2>1, <2>3, <3>3, <3>5 DEF OpenAt
  <2> QED
    BY <2>2, <2>3
<1>11. ASSUME SamePath(pos.filePath, file), ex.arc.open
       PROVE  EnterEntry(ex, path.pathInArchive) = Ok(there)
  <2>1. ex.cur = f /\ a # 0 /\ ex.arc.open = TRUE /\ ex.arc.list = list
    BY <1>1, <1>2, <1>6, <1>11
  <2>2. EnterEntry(ex, path.pathInArchive) = Ok(AtEntry(ex, a))
    BY <1>4, <1>7, <2>1 DEF EnterEntry, AtEntry
  <2>3. ex = Fields(ex.root, ex.files, f, OpenAt(list, ex.arc.cur))
    BY <1>5, <2>1 DEF OpenAt
  <2> HIDE DEF there, list, a, f
  <2>4. AtEntry(ex, a) = there
    BY <1>8, <2>1, <2>3, EntryFields
  <2> QED
    BY <2>2, <2>4
<1>12. /\ a = 0 \/ Recognized(d, file) => EnterFile(ex, d, path) = Ok(there)
       /\ ~(a = 0 \/ Recognized(d, file)) => ~EnterFile(ex, d, path).ok
  <2> DEFINE moved == WithCur(ex, f)
             archive == OpenedArchive(d, file, TRUE)
             opened == WithArc(moved, archive)
  <2>1. moved = Fields(ex.root, ex.files, f, ex.arc)
    BY <1>5, MovedFields
  <2>2. CASE a = 0
    <3>1. EnterFile(ex, d, path) = [ok |-> IsEmptyPath(NoPath), ex |-> WithArc(moved, ClosedArchive)]
      BY <1>1, <1>4, <1>7, <2>2 DEF EnterFile, CloseArchive, WithArc, WithCur
    <3> HIDE DEF there, moved, f
    <3>2. WithArc(moved, ClosedArchive) = there
      BY <1>8, <2>1, <2>2, MovedFields
    <3> QED
      BY <2>2, <3>1, <3>2 DEF Ok, IsEmptyPath, NoPath
  <2>3. CASE a # 0 /\ Recognized(d, file)
    <3>1. EnterFile(ex, d, path) = EnterEntry(opened, list[a])
      BY <1>1, <1>4, <1>7, <2>3 DEF EnterFile, WithArc, WithCur
    <3>2. archive = OpenAt(list, 1)
      BY DEF OpenedArchive, OpenAt
    <3> HIDE DEF there, file, f, a, list, moved, archive
    <3>3. opened = Fields(ex.root, ex.files, f, OpenAt(list, 1))
      BY <2>1, <3>2, MovedFields
    <3> HIDE DEF opened
    <3>4. AtEntry(opened, a) = there
      BY <1>8, <2>3, <3>3, EntryFields
    <3>5. opened.arc.list = list
      BY <3>3 DEF Fields, OpenAt
    <3>6. EnterEntry(opened, list[a]) = Ok(AtEntry(opened, a))
      BY <1>7, <2>3, <3>5 DEF EnterEntry, AtEntry
    <3> QED
      BY <2>3, <3>1, <3>4, <3>6
  <2>4. CASE a # 0 /\ ~Recognized(d, file)
    <3>1. EnterFile(ex, d, path) = [ok |-> IsEmptyPath(list[a]), ex |-> CloseArchive(moved)]
      BY <1>1, <1>4, <1>7, <2>4 DEF EnterFile, WithCur
    <3> QED
      BY <1>3, <2>4, <3>1
  <2> QED
    BY <2>2, <2>3, <2>4
<1> HIDE DEF there, pos, path, file, f, a
<1>13. EnterPath(ex, d, path) =
          IF SamePlace(pos, path) THEN Ok(ex)
          ELSE IF SamePath(pos.filePath, file) /\ ex.arc.open
          THEN EnterEntry(ex, path.pathInArchive)
          ELSE EnterFile(ex, d, path)
  BY <1>1, <1>4, <1>9 DEF EnterPath, pos
<1>14. s[2] = 0 \/ file \in d.present => a = 0 \/ Recognized(d, file)
  BY <1>1 DEF Recognized, a
<1>15. Ok(there).ok
  BY DEF Ok
<1>16. CASE SamePlace(pos, path)
  <2>1. EnterPath(ex, d, path) = Ok(there)
    BY <1>10, <1>13, <1>16
  <2> QED
    BY <1>15, <2>1 DEF path, there, file, f
<1>17. CASE ~SamePlace(pos, path) /\ SamePath(pos.filePath, file) /\ ex.arc.open
  <2>1. EnterPath(ex, d, path) = Ok(there)
    BY <1>11, <1>13, <1>17
  <2> QED
    BY <1>15, <2>1 DEF path, there, file, f
<1>18. CASE ~SamePlace(pos, path) /\ ~(SamePath(pos.filePath, file) /\ ex.arc.open)
  <2>1. EnterPath(ex, d, path) = EnterFile(ex, d, path)
    BY <1>13, <1>18
  <2>2. /\ EnterPath(ex, d, path).ok => EnterPath(ex, d, path) = Ok(there)
        /\ s[2] = 0 \/ file \in d.present => EnterPath(ex, d, path).ok
    BY <1>12, <1>14, <1>15, <2>1
  <2> QED
    BY <2>2 DEF path, there, file, f
<1> QED
  BY <1>16, <1>17, <1>18

(***************************************************************************)
(* enter, called with the position of any stop of the list, ends there.    *)
(***************************************************************************)
LEMMA EnterFindsStop ==
    ASSUME NEW R, NEW N, NEW d, NEW ex,
           DiskOK(Path(N), d), NamesAreUnique(d),
           ExplorerOK(R, Path(N), d, ex), ArchivePresent(d, ex),
           ~IsEmptyPath(ex.root), FilesAreLeaves(ex.files),
           NEW s \in Stops(d, ex.files)
    PROVE  EnterPath(ex, d, PosAt(d, ex.files, s)) = Ok(ExplorerAt(d, ex.root, ex.files, s))
<1>1. /\ s = <<s[1], s[2]>> /\ s[1] \in 1..Len(ex.files) /\ ex.files[s[1]].isFile
      /\ s[2] = 0 => ~Recognized(d, ex.files[s[1]])
      /\ s[2] # 0 => Recognized(d, ex.files[s[1]]) /\ s[2] \in FileEntries(d.archives[ex.files[s[1]]])
  BY StopFields
<1>2. s[2] = 0 => ~(ex.arc.open /\ ex.cur = s[1])
  BY <1>1 DEF ArchivePresent
<1>3. /\ s[2] # 0 => ex.files[s[1]] \in DOMAIN d.archives
      /\ s[2] = 0 \/ ex.files[s[1]] \in d.present
  BY <1>1 DEF Recognized
<1>4. Spot(d, ex, s)
  BY <1>1, <1>2, <1>3 DEF Spot
<1> QED
  BY <1>3, <1>4, EnterSpot

-----------------------------------------------------------------------------
(* The loops of toNextFile and toPreviousFile, one iteration at a time     *)

\* Explorer v has the root and the list of w, and is in range if w is.
Follows(R, P, d, w, v) == /\ ExplorerOK(R, P, d, v) /\ ArchivePresent(d, v)
                          /\ v.root = w.root /\ v.files = w.files

LEMMA MoveFollows ==
    ASSUME NEW R, NEW P, NEW d, NEW w, NEW ok, NEW v,
           ArchivePresent(d, w), MovesWithin(R, P, d, w, [ok |-> ok, ex |-> v])
    PROVE  Follows(R, P, d, w, v)
BY DEF MovesWithin, Follows, ArchivePresent

LEMMA StopAhead ==
    ASSUME NEW R, NEW P, NEW d, NEW ex, DiskOK(P, d), ExplorerOK(R, P, d, ex),
           ArchivePresent(d, ex), NEW s
    PROVE  s \in StopsAfter(ex, d) <=>
              /\ s \in Stops(d, ex.files)
              /\ s[1] > ex.cur \/ (ex.arc.open /\ s[1] = ex.cur /\ s[2] > ex.arc.cur)
<1> DEFINE All == Stops(d, ex.files)
<1>1. StopsAfter(ex, d) =
         {t \in All : t[1] > ex.cur \/ (ex.arc.open /\ t[1] = ex.cur /\ t[2] > ex.arc.cur)}
  BY StopsBeyond
<1> HIDE DEF All
<1>2. s \in StopsAfter(ex, d) <=>
         /\ s \in All
         /\ s[1] > ex.cur \/ (ex.arc.open /\ s[1] = ex.cur /\ s[2] > ex.arc.cur)
  BY <1>1
<1> QED
  BY <1>2 DEF All

LEMMA StopBehind ==
    ASSUME NEW R, NEW P, NEW d, NEW ex, DiskOK(P, d), ExplorerOK(R, P, d, ex),
           ArchivePresent(d, ex), NEW s
    PROVE  s \in StopsBefore(ex, d) <=>
              /\ s \in Stops(d, ex.files)
              /\ s[1] < ex.cur \/ (ex.arc.open /\ s[1] = ex.cur /\ s[2] < ex.arc.cur)
<1> DEFINE All == Stops(d, ex.files)
<1>1. StopsBefore(ex, d) =
         {t \in All : t[1] < ex.cur \/ (ex.arc.open /\ t[1] = ex.cur /\ t[2] < ex.arc.cur)}
  BY StopsBeyond
<1> HIDE DEF All
<1>2. s \in StopsBefore(ex, d) <=>
         /\ s \in All
         /\ s[1] < ex.cur \/ (ex.arc.open /\ s[1] = ex.cur /\ s[2] < ex.arc.cur)
  BY <1>1
<1> QED
  BY <1>2 DEF All

LEMMA ReachedStops ==
    ASSUME NEW R, NEW P, NEW d, NEW w, DiskOK(P, d), ExplorerOK(R, P, d, w),
           ArchivePresent(d, w)
    PROVE  /\ StopsAfter(w, d) \subseteq Stops(d, w.files)
           /\ StopsBefore(w, d) \subseteq Stops(d, w.files)
           /\ StopsAfter(w, d) \in SUBSET (Nat \X Nat)
           /\ StopsBefore(w, d) \in SUBSET (Nat \X Nat)
<1> DEFINE All == Stops(d, w.files)
<1>1. All \in SUBSET (Nat \X Nat)
  BY StopsTyped, OKFields
<1> HIDE DEF All
<1>2. \A s \in StopsAfter(w, d) : s \in All
  BY StopsBeyond DEF All
<1>3. \A s \in StopsBefore(w, d) : s \in All
  BY StopsBeyond DEF All
<1>4. StopsAfter(w, d) \subseteq All /\ StopsBefore(w, d) \subseteq All
  BY <1>2, <1>3
<1> QED
  BY <1>1, <1>4 DEF All

\* Two explorers that can reach the same stops, and run into the same end,
\* answer the same.
LEMMA SameNext ==
    ASSUME NEW R, NEW P, NEW d, NEW w, NEW v, DiskOK(P, d), ExplorerOK(R, P, d, w),
           ArchivePresent(d, w), Follows(R, P, d, w, v),
           StopsAfter(v, d) = StopsAfter(w, d), AtLastIndex(v) = AtLastIndex(w)
    PROVE  NextFile(v, d) = NextFile(w, d)
<1> DEFINE S == StopsAfter(w, d)
<1>1. CASE S = {}
  BY <1>1 DEF NextFile
<1>2. CASE S # {}
  <2>1. Nearest(S) \in Stops(d, w.files)
    <3>1. Nearest(S) \in S
      BY <1>2, ChosenStops
    <3> QED
      BY <3>1, ReachedStops
  <2>2. StopAt(v, d, Nearest(S)) = StopAt(w, d, Nearest(S))
    BY <2>1, StandingThere DEF Follows
  <2> QED
    BY <2>2 DEF NextFile
<1> QED
  BY <1>1, <1>2

LEMMA SamePrevious ==
    ASSUME NEW R, NEW P, NEW d, NEW w, NEW v, DiskOK(P, d), ExplorerOK(R, P, d, w),
           ArchivePresent(d, w), Follows(R, P, d, w, v), w.files # <<>>,
           StopsBefore(v, d) = StopsBefore(w, d), AtFirstIndex(v) = AtFirstIndex(w)
    PROVE  PreviousFile(v, d) = PreviousFile(w, d)
<1> DEFINE S == StopsBefore(w, d)
<1>1. CASE S = {}
  BY <1>1 DEF PreviousFile, Follows
<1>2. CASE S # {}
  <2>1. Farthest(S) \in Stops(d, w.files)
    <3>1. Farthest(S) \in S
      BY <1>2, ChosenStops
    <3> QED
      BY <3>1, ReachedStops
  <2>2. StopAt(v, d, Farthest(S)) = StopAt(w, d, Farthest(S))
    BY <2>1, StandingThere DEF Follows
  <2> QED
    BY <2>2 DEF PreviousFile, Follows
<1> QED
  BY <1>1, <1>2

\* The walk ends at the stop before all others it can reach.
LEMMA NextIs ==
    ASSUME NEW R, NEW P, NEW d, NEW w, DiskOK(P, d), ExplorerOK(R, P, d, w),
           ArchivePresent(d, w), NEW s \in StopsAfter(w, d),
           \A t \in StopsAfter(w, d) \ {s} : Before(s, t)
    PROVE  NextFile(w, d) = Ok(ExplorerAt(d, w.root, w.files, s))
<1>1. s \in Stops(d, w.files) /\ StopsAfter(w, d) \in SUBSET (Nat \X Nat)
  BY ReachedStops
<1>2. Nearest(StopsAfter(w, d)) = s
  BY <1>1, OnlyNearest DEF IsNearest
<1>3. StopAt(w, d, s) = ExplorerAt(d, w.root, w.files, s)
  BY <1>1, StandingThere
<1> QED
  BY <1>2, <1>3 DEF NextFile

LEMMA PreviousIs ==
    ASSUME NEW R, NEW P, NEW d, NEW w, DiskOK(P, d), ExplorerOK(R, P, d, w),
           ArchivePresent(d, w), w.files # <<>>, NEW s \in StopsBefore(w, d),
           \A t \in StopsBefore(w, d) \ {s} : Before(t, s)
    PROVE  PreviousFile(w, d) = Ok(ExplorerAt(d, w.root, w.files, s))
<1>1. s \in Stops(d, w.files) /\ StopsBefore(w, d) \in SUBSET (Nat \X Nat)
  BY ReachedStops
<1>2. Farthest(StopsBefore(w, d)) = s
  BY <1>1, OnlyFarthest DEF IsFarthest
<1>3. StopAt(w, d, s) = ExplorerAt(d, w.root, w.files, s)
  BY <1>1, StandingThere
<1> QED
  BY <1>2, <1>3 DEF PreviousFile

\* The ends that a loop without a stop runs into.
LEMMA EndFields ==
    ASSUME NEW R, NEW P, NEW d, NEW ex, ExplorerOK(R, P, d, ex)
    PROVE  /\ ex = Fields(ex.root, ex.files, ex.cur, ex.arc)
           /\ AtLastIndex(ex) = Fields(ex.root, ex.files,
                                      IF ex.cur < Len(ex.files) THEN Len(ex.files) ELSE ex.cur,
                                      ClosedArchive)
           /\ AtFirstIndex(ex) = Fields(ex.root, ex.files, 1, ClosedArchive)
<1>1. ex = Fields(ex.root, ex.files, ex.cur, ex.arc)
  BY OKFields DEF Explorers, Fields
<1>2. /\ AtLastIndex(ex) = WithArc(IF ex.cur < Len(ex.files) THEN WithCur(ex, Len(ex.files))
                                   ELSE ex, ClosedArchive)
      /\ AtFirstIndex(ex) = WithArc(WithCur(ex, 1), ClosedArchive)
  BY DEF AtLastIndex, AtFirstIndex, CloseArchive, WithArc, WithCur
<1>3. \A c : WithCur(ex, c) = Fields(ex.root, ex.files, c, ex.arc)
  BY <1>1, MovedFields
<1> QED
  BY <1>1, <1>2, <1>3, MovedFields

\* What the loops use of the list's stops.
LEMMA StopHere ==
    ASSUME NEW R, NEW P, NEW d, NEW w, DiskOK(P, d), ExplorerOK(R, P, d, w),
           ArchivePresent(d, w), NEW s \in Stops(d, w.files)
    PROVE  /\ s = <<s[1], s[2]>> /\ s[1] \in 1..Len(w.files) /\ s[2] \in Nat
           /\ s[1] \in Nat
           /\ w.arc.open /\ s[1] = w.cur => s[2] \in FileEntries(w.arc.list)
<1>1. s = <<s[1], s[2]>> /\ s[1] \in 1..Len(w.files) /\ s \in Nat \X Nat
  BY StopFields, StopsTyped, OKFields
<1>2. w.arc.open /\ s[1] = w.cur => s[2] \in FileEntries(w.arc.list)
  BY StopFields, OKFields DEF ArchivePresent, StopsAt
<1> QED
  BY <1>1, <1>2

\* Leaving the archive at either end of it changes nothing for the walk.
LEMMA LeaveArchive ==
    ASSUME NEW R, NEW P, NEW d, NEW w, DiskOK(P, d), ExplorerOK(R, P, d, w),
           ArchivePresent(d, w), w.arc.open
    PROVE  /\ Follows(R, P, d, w, CloseArchive(w))
           /\ w.arc.list = <<>> \/ w.arc.cur + 1 > Len(w.arc.list) =>
                 NextFile(CloseArchive(w), d) = NextFile(w, d)
           /\ w.arc.list = <<>> \/ w.arc.cur = 1 =>
                 PreviousFile(CloseArchive(w), d) = PreviousFile(w, d)
<1> DEFINE v == CloseArchive(w)
<1>1. v = WithArc(w, ClosedArchive)
  BY DEF CloseArchive, WithArc
<1>2. Follows(R, P, d, w, v)
  BY <1>1, CloseHereOK, MoveFollows
<1>3. /\ v.root = w.root /\ v.files = w.files /\ v.cur = w.cur
      /\ ~v.arc.open /\ w.files # <<>> /\ w.cur \in Nat
      /\ Len(w.arc.list) \in Nat /\ w.arc.cur \in Nat
      /\ w.arc.list = <<>> => Len(w.arc.list) = 0
  BY <1>1, OKFields, SetArc, ClosedArchiveTyped DEF ArchivePresent, Archives
<1> HIDE DEF v
<1>4. AtLastIndex(v) = AtLastIndex(w) /\ AtFirstIndex(v) = AtFirstIndex(w)
  BY <1>2, <1>3, EndFields DEF Follows
<1>5. ASSUME NEW s
      PROVE  /\ s \in StopsAfter(v, d) <=> s \in Stops(d, w.files) /\ s[1] > w.cur
             /\ s \in StopsBefore(v, d) <=> s \in Stops(d, w.files) /\ s[1] < w.cur
  BY <1>2, <1>3, StopAhead, StopBehind DEF Follows
<1>6. ASSUME w.arc.list = <<>> \/ w.arc.cur + 1 > Len(w.arc.list)
      PROVE  NextFile(v, d) = NextFile(w, d)
  <2>1. ASSUME NEW s \in Stops(d, w.files)
        PROVE  ~(s[1] = w.cur /\ s[2] > w.arc.cur)
    <3>1. s[2] \in Nat /\ (s[1] = w.cur => s[2] \in FileEntries(w.arc.list))
      BY StopHere
    <3> QED
      BY <1>3, <1>6, <3>1 DEF FileEntries
  <2>2. \A s : s \in StopsAfter(v, d) <=> s \in StopsAfter(w, d)
    BY <1>5, <2>1, StopAhead, StopBehind
  <2>3. StopsAfter(v, d) = StopsAfter(w, d)
    BY <2>2
  <2> QED
    BY <1>2, <1>4, <2>3, SameNext
<1>7. ASSUME w.arc.list = <<>> \/ w.arc.cur = 1
      PROVE  PreviousFile(v, d) = PreviousFile(w, d)
  <2>1. ASSUME NEW s \in Stops(d, w.files)
        PROVE  ~(s[1] = w.cur /\ s[2] < w.arc.cur)
    <3>1. s[2] \in Nat /\ (s[1] = w.cur => s[2] \in FileEntries(w.arc.list))
      BY StopHere
    <3> QED
      BY <1>3, <1>7, <3>1 DEF FileEntries
  <2>2. \A s : s \in StopsBefore(v, d) <=> s \in StopsBefore(w, d)
    BY <1>5, <2>1, StopAhead, StopBehind
  <2>3. StopsBefore(v, d) = StopsBefore(w, d)
    BY <2>2
  <2> QED
    BY <1>2, <1>3, <1>4, <2>3, SamePrevious
<1> QED
  BY <1>2, <1>6, <1>7 DEF v

\* Moving to the next entry of the archive: a file, or a directory to pass.
LEMMA NextEntry ==
    ASSUME NEW R, NEW P, NEW d, NEW w, DiskOK(P, d), ExplorerOK(R, P, d, w),
           ArchivePresent(d, w), w.arc.open,
           NEW a, a = w.arc.cur + 1, a \in 1..Len(w.arc.list),
           NEW v, v = AtEntry(w, a)
    PROVE  /\ Follows(R, P, d, w, v) /\ v.arc.list = w.arc.list
           /\ w.arc.list[a].isFile => NextFile(w, d) = Ok(v)
           /\ ~w.arc.list[a].isFile => NextFile(v, d) = NextFile(w, d)
<1>1. v = WithArc(w, WithEntry(w.arc, a))
  BY DEF AtEntry, WithArc, WithEntry
<1>2. Follows(R, P, d, w, v)
  BY <1>1, EntryAtOK, MoveFollows
<1>3. /\ v.cur = w.cur /\ v.arc.open = w.arc.open /\ v.arc.list = w.arc.list /\ v.arc.cur = a
      /\ v.arc = WithEntry(w.arc, a)
  <2> DEFINE e == WithEntry(w.arc, a)
  <2>1. a \in Nat /\ w.arc \in Archives(P) /\ w \in Explorers(R, P)
    BY OKFields
  <2>2. /\ e \in Archives(P) /\ e.open = w.arc.open
        /\ e.list = w.arc.list /\ e.cur = a
    BY <2>1, SetEntry
  <2>3. v = WithArc(w, e)
    BY <1>1
  <2> HIDE DEF e
  <2>4. v.cur = w.cur /\ v.arc = e
    BY <2>1, <2>2, <2>3, SetArc
  <2> QED
    BY <2>2, <2>4 DEF e
<1>4. /\ w.files # <<>> /\ Recognized(d, w.files[w.cur]) /\ w.cur \in 1..Len(w.files)
      /\ w.arc.list = d.archives[w.files[w.cur]]
      /\ Len(w.files) \in Nat /\ w.arc.cur \in Nat /\ Len(w.arc.list) \in Nat
  BY OKFields DEF ArchivePresent, Archives
<1>5. CASE w.arc.list[a].isFile
  <2> DEFINE s == <<w.cur, a>>
  <2>1. s \in StopsAfter(w, d)
    <3>1. s \in Stops(d, w.files)
      BY <1>4, <1>5, StopFields DEF StopsAt, FileEntries, Recognized
    <3>2. s[1] = w.cur /\ s[2] = a
      OBVIOUS
    <3> HIDE DEF s
    <3> QED
      BY <1>4, <3>1, <3>2, StopAhead
  <2>2. ASSUME NEW t \in StopsAfter(w, d) \ {s} PROVE Before(s, t)
    <3>1. /\ t \in Stops(d, w.files)
          /\ t[1] > w.cur \/ (t[1] = w.cur /\ t[2] > w.arc.cur)
      BY StopAhead
    <3>2. t = <<t[1], t[2]>> /\ t[1] \in Nat /\ t[2] \in Nat
      BY <3>1, StopHere
    <3> QED
      BY <1>4, <3>1, <3>2 DEF Before
  <2>3. NextFile(w, d) = Ok(ExplorerAt(d, w.root, w.files, s))
    BY <2>1, <2>2, NextIs
  <2>4. ExplorerAt(d, w.root, w.files, s) = v
    <3>1. w = Fields(w.root, w.files, w.cur, OpenAt(w.arc.list, w.arc.cur))
      BY OKFields DEF Explorers, Fields, OpenAt
    <3>2. v = Fields(w.root, w.files, w.cur, OpenAt(w.arc.list, a))
      BY <3>1, EntryFields
    <3>3. a # 0 /\ s[1] = w.cur /\ s[2] = a
      BY <1>4
    <3> QED
      BY <1>4, <3>2, <3>3 DEF ExplorerAt, Fields, OpenAt
  <2> QED
    BY <1>2, <1>3, <1>5, <2>3, <2>4
<1>6. CASE ~w.arc.list[a].isFile
  <2>1. ASSUME NEW s \in Stops(d, w.files)
        PROVE  s[1] = w.cur => (s[2] > w.arc.cur <=> s[2] > a)
    <3>1. s[2] \in Nat /\ (s[1] = w.cur => s[2] \in FileEntries(w.arc.list))
      BY StopHere
    <3>2. s[1] = w.cur => s[2] # a
      BY <1>6, <3>1 DEF FileEntries
    <3> QED
      BY <1>4, <3>1, <3>2
  <2>2. StopsAfter(v, d) = StopsAfter(w, d)
    <3>1. /\ ExplorerOK(R, P, d, v) /\ ArchivePresent(d, v) /\ v.files = w.files
          /\ v.cur = w.cur /\ v.arc.open /\ v.arc.cur = a
      BY <1>2, <1>3 DEF Follows
    <3>2. ASSUME NEW s
          PROVE  s \in StopsAfter(v, d) <=>
                    s \in Stops(d, w.files) /\ (s[1] > w.cur \/ (s[1] = w.cur /\ s[2] > a))
      <4>1. s \in StopsAfter(v, d) <=>
               /\ s \in Stops(d, v.files)
               /\ s[1] > v.cur \/ (v.arc.open /\ s[1] = v.cur /\ s[2] > v.arc.cur)
        BY <3>1, StopAhead
      <4> QED
        BY <3>1, <4>1
    <3>3. ASSUME NEW s
          PROVE  s \in StopsAfter(w, d) <=>
                    s \in Stops(d, w.files) /\ (s[1] > w.cur \/ (s[1] = w.cur /\ s[2] > w.arc.cur))
      BY StopAhead
    <3>4. \A s : s \in StopsAfter(v, d) <=> s \in StopsAfter(w, d)
      BY <2>1, <3>2, <3>3
    <3> QED
      BY <3>4
  <2>3. AtLastIndex(v) = AtLastIndex(w)
    BY <1>2, <1>3, EndFields DEF Follows
  <2> QED
    <3>1. NextFile(v, d) = NextFile(w, d)
      BY <1>2, <2>2, <2>3, SameNext
    <3> QED
      BY <1>2, <1>3, <1>6, <3>1
<1> QED
  BY <1>5, <1>6

LEMMA PreviousEntry ==
    ASSUME NEW R, NEW P, NEW d, NEW w, DiskOK(P, d), ExplorerOK(R, P, d, w),
           ArchivePresent(d, w), w.arc.open,
           NEW a, a = w.arc.cur - 1, a \in 1..Len(w.arc.list),
           NEW v, v = AtEntry(w, a)
    PROVE  /\ Follows(R, P, d, w, v) /\ v.arc.list = w.arc.list
           /\ w.arc.list[a].isFile => PreviousFile(w, d) = Ok(v)
           /\ ~w.arc.list[a].isFile => PreviousFile(v, d) = PreviousFile(w, d)
<1>1. v = WithArc(w, WithEntry(w.arc, a))
  BY DEF AtEntry, WithArc, WithEntry
<1>2. Follows(R, P, d, w, v)
  BY <1>1, EntryAtOK, MoveFollows
<1>3. /\ v.cur = w.cur /\ v.arc.open = w.arc.open /\ v.arc.list = w.arc.list /\ v.arc.cur = a
      /\ v.arc = WithEntry(w.arc, a)
  <2> DEFINE e == WithEntry(w.arc, a)
  <2>1. a \in Nat /\ w.arc \in Archives(P) /\ w \in Explorers(R, P)
    BY OKFields
  <2>2. /\ e \in Archives(P) /\ e.open = w.arc.open
        /\ e.list = w.arc.list /\ e.cur = a
    BY <2>1, SetEntry
  <2>3. v = WithArc(w, e)
    BY <1>1
  <2> HIDE DEF e
  <2>4. v.cur = w.cur /\ v.arc = e
    BY <2>1, <2>2, <2>3, SetArc
  <2> QED
    BY <2>2, <2>4 DEF e
<1>4. /\ w.files # <<>> /\ Recognized(d, w.files[w.cur]) /\ w.cur \in 1..Len(w.files)
      /\ w.arc.list = d.archives[w.files[w.cur]]
      /\ Len(w.files) \in Nat /\ w.arc.cur \in Nat /\ Len(w.arc.list) \in Nat
  BY OKFields DEF ArchivePresent, Archives
<1>5. CASE w.arc.list[a].isFile
  <2> DEFINE s == <<w.cur, a>>
  <2>1. s \in StopsBefore(w, d)
    <3>1. s \in Stops(d, w.files)
      BY <1>4, <1>5, StopFields DEF StopsAt, FileEntries, Recognized
    <3>2. s[1] = w.cur /\ s[2] = a
      OBVIOUS
    <3> HIDE DEF s
    <3> QED
      BY <1>4, <3>1, <3>2, StopBehind
  <2>2. ASSUME NEW t \in StopsBefore(w, d) \ {s} PROVE Before(t, s)
    <3>1. /\ t \in Stops(d, w.files)
          /\ t[1] < w.cur \/ (t[1] = w.cur /\ t[2] < w.arc.cur)
      BY StopBehind
    <3>2. t = <<t[1], t[2]>> /\ t[1] \in Nat /\ t[2] \in Nat
      BY <3>1, StopHere
    <3> QED
      BY <1>4, <3>1, <3>2 DEF Before
  <2>3. PreviousFile(w, d) = Ok(ExplorerAt(d, w.root, w.files, s))
    BY <1>4, <2>1, <2>2, PreviousIs
  <2>4. ExplorerAt(d, w.root, w.files, s) = v
    <3>1. w = Fields(w.root, w.files, w.cur, OpenAt(w.arc.list, w.arc.cur))
      BY OKFields DEF Explorers, Fields, OpenAt
    <3>2. v = Fields(w.root, w.files, w.cur, OpenAt(w.arc.list, a))
      BY <3>1, EntryFields
    <3>3. a # 0 /\ s[1] = w.cur /\ s[2] = a
      BY <1>4
    <3> QED
      BY <1>4, <3>2, <3>3 DEF ExplorerAt, Fields, OpenAt
  <2> QED
    BY <1>2, <1>3, <1>5, <2>3, <2>4
<1>6. CASE ~w.arc.list[a].isFile
  <2>1. ASSUME NEW s \in Stops(d, w.files)
        PROVE  s[1] = w.cur => (s[2] < w.arc.cur <=> s[2] < a)
    <3>1. s[2] \in Nat /\ (s[1] = w.cur => s[2] \in FileEntries(w.arc.list))
      BY StopHere
    <3>2. s[1] = w.cur => s[2] # a
      BY <1>6, <3>1 DEF FileEntries
    <3> QED
      BY <1>4, <3>1, <3>2
  <2>2. StopsBefore(v, d) = StopsBefore(w, d)
    <3>1. /\ ExplorerOK(R, P, d, v) /\ ArchivePresent(d, v) /\ v.files = w.files
          /\ v.cur = w.cur /\ v.arc.open /\ v.arc.cur = a
      BY <1>2, <1>3 DEF Follows
    <3>2. ASSUME NEW s
          PROVE  s \in StopsBefore(v, d) <=>
                    s \in Stops(d, w.files) /\ (s[1] < w.cur \/ (s[1] = w.cur /\ s[2] < a))
      <4>1. s \in StopsBefore(v, d) <=>
               /\ s \in Stops(d, v.files)
               /\ s[1] < v.cur \/ (v.arc.open /\ s[1] = v.cur /\ s[2] < v.arc.cur)
        BY <3>1, StopBehind
      <4> QED
        BY <3>1, <4>1
    <3>3. ASSUME NEW s
          PROVE  s \in StopsBefore(w, d) <=>
                    s \in Stops(d, w.files) /\ (s[1] < w.cur \/ (s[1] = w.cur /\ s[2] < w.arc.cur))
      BY StopBehind
    <3>4. \A s : s \in StopsBefore(v, d) <=> s \in StopsBefore(w, d)
      BY <2>1, <3>2, <3>3
    <3> QED
      BY <3>4
  <2>3. AtFirstIndex(v) = AtFirstIndex(w)
    BY <1>2, <1>3, EndFields DEF Follows
  <2> QED
    <3>1. PreviousFile(v, d) = PreviousFile(w, d)
      BY <1>2, <1>4, <2>2, <2>3, SamePrevious
    <3> QED
      BY <1>2, <1>3, <1>6, <3>1
<1> QED
  BY <1>5, <1>6

\* An archive just opened, at one of its ends.
OpensAt(P, d, p, a, c) == OpensInRange(P, d, p, a) /\ a = OpenAt(d.archives[p], c)

\* Moving to the next file of the list: a directory to pass, a file, or an
\* archive that is opened at its beginning.
LEMMA NextInList ==
    ASSUME NEW R, NEW P, NEW d, NEW w, DiskOK(P, d), ExplorerOK(R, P, d, w),
           ~w.arc.open, NEW n, n = w.cur + 1, n \in 1..Len(w.files),
           NEW moved, moved = WithCur(w, n),
           NEW archive,
           Recognized(d, w.files[n]) => OpensAt(P, d, w.files[n], archive, 1),
           NEW opened, opened = WithArc(moved, archive)
    PROVE  /\ ~w.files[n].isFile => Follows(R, P, d, w, moved) /\ NextFile(moved, d) = NextFile(w, d)
           /\ w.files[n].isFile /\ ~Recognized(d, w.files[n]) => NextFile(w, d) = Ok(moved)
           /\ Recognized(d, w.files[n]) =>
                 /\ Follows(R, P, d, w, opened)
                 /\ opened.arc.cur \in FileEntries(opened.arc.list) => NextFile(w, d) = Ok(opened)
                 /\ opened.arc.cur \notin FileEntries(opened.arc.list) =>
                       NextFile(opened, d) = NextFile(w, d)
<1>1. /\ w = Fields(w.root, w.files, w.cur, ClosedArchive)
      /\ w.cur \in Nat \ {0} /\ Len(w.files) \in Nat /\ w.files # <<>>
      /\ n \in Nat \ {0} /\ w \in Explorers(R, P)
      /\ ArchivePresent(d, w)
  BY OKFields DEF Explorers, Fields, ArchivePresent
<1>2. moved = Fields(w.root, w.files, n, ClosedArchive)
  BY <1>1, MovedFields
<1>3. opened = Fields(w.root, w.files, n, archive)
  BY <1>2, MovedFields
<1>4. /\ moved.root = w.root /\ moved.files = w.files /\ moved.cur = n
      /\ moved.arc = ClosedArchive /\ ~moved.arc.open
      /\ opened.root = w.root /\ opened.files = w.files /\ opened.cur = n /\ opened.arc = archive
  <2>1. /\ moved.root = w.root /\ moved.files = w.files /\ moved.cur = n
        /\ moved.arc = ClosedArchive
    BY <1>2 DEF Fields
  <2>2. opened.root = w.root /\ opened.files = w.files /\ opened.cur = n /\ opened.arc = archive
    BY <1>3 DEF Fields
  <2> QED
    BY <2>1, <2>2, ClosedArchiveTyped
<1>5. Follows(R, P, d, w, moved)
  <2>1. moved = WithArc(moved, ClosedArchive)
    BY <1>2, MovedFields
  <2> QED
    BY <1>1, <2>1, CloseAtOK, MoveFollows
<1>6. Recognized(d, w.files[n]) => /\ OpensInRange(P, d, w.files[n], archive)
                                   /\ Follows(R, P, d, w, opened)
  BY <1>1, OpenAtOK, MoveFollows DEF OpensAt
<1>7. AtLastIndex(moved) = AtLastIndex(w)
  BY <1>1, <1>4, <1>5, EndFields DEF Follows
<1>8. ASSUME NEW s
      PROVE  /\ s \in StopsAfter(w, d) <=> s \in Stops(d, w.files) /\ s[1] > w.cur
             /\ s \in StopsAfter(moved, d) <=> s \in Stops(d, w.files) /\ s[1] > n
  <2>1. ExplorerOK(R, P, d, moved) /\ ArchivePresent(d, moved)
    BY <1>5 DEF Follows
  <2>2. s \in StopsAfter(moved, d) <=> s \in Stops(d, w.files) /\ s[1] > n
    BY <1>4, <2>1, StopAhead
  <2>3. s \in StopsAfter(w, d) <=> s \in Stops(d, w.files) /\ s[1] > w.cur
    BY <1>1, StopAhead
  <2> QED
    BY <2>2, <2>3
<1>9. ASSUME NEW s \in Stops(d, w.files)
      PROVE  /\ s = <<s[1], s[2]>> /\ s[1] \in Nat /\ s[2] \in Nat
             /\ s[1] > w.cur <=> s[1] = n \/ s[1] > n
             /\ s[1] = n => s[2] \in StopsAt(d, w.files, n)
  BY <1>1, StopHere, StopFields
<1>10. ASSUME ~w.files[n].isFile PROVE NextFile(moved, d) = NextFile(w, d)
  <2>1. \A s \in Stops(d, w.files) : s[1] # n
    BY <1>9, <1>10 DEF StopsAt
  <2>2. \A s : s \in StopsAfter(moved, d) <=> s \in StopsAfter(w, d)
    BY <1>8, <1>9, <2>1
  <2>3. StopsAfter(moved, d) = StopsAfter(w, d)
    BY <2>2
  <2> QED
    BY <1>1, <1>5, <1>7, <2>3, SameNext
<1>11. ASSUME w.files[n].isFile, ~Recognized(d, w.files[n])
       PROVE  NextFile(w, d) = Ok(moved)
  <2> DEFINE t == <<n, 0>>
  <2>1. StopsAt(d, w.files, n) = {0}
    BY <1>11 DEF StopsAt
  <2>2. t \in Stops(d, w.files) /\ t[1] = n /\ t[2] = 0
    BY <2>1, StopFields
  <2>3. t = <<t[1], t[2]>>
    OBVIOUS
  <2> HIDE DEF t
  <2>4. t \in StopsAfter(w, d)
    BY <1>1, <1>8, <2>2
  <2>5. ASSUME NEW s \in StopsAfter(w, d) \ {t} PROVE Before(t, s)
    <3>1. s \in Stops(d, w.files) /\ s[1] > w.cur
      BY <1>8
    <3>2. s[1] = n => s[2] = 0
      BY <1>9, <2>1, <3>1
    <3>3. s[1] # n
      BY <1>9, <2>2, <2>3, <3>1, <3>2
    <3> QED
      BY <1>1, <1>9, <2>2, <3>1, <3>3 DEF Before
  <2>6. NextFile(w, d) = Ok(ExplorerAt(d, w.root, w.files, t))
    BY <1>1, <2>4, <2>5, NextIs
  <2>7. ExplorerAt(d, w.root, w.files, t) = moved
    BY <1>2, <2>2 DEF ExplorerAt, Fields
  <2> QED
    BY <2>6, <2>7
<1>12. ASSUME Recognized(d, w.files[n])
       PROVE  /\ archive.open /\ archive.list = d.archives[w.files[n]]
              /\ archive = OpenAt(archive.list, archive.cur) /\ Len(archive.list) \in Nat
              /\ archive.list # <<>> => archive.cur = 1
              /\ archive.list = <<>> => Len(archive.list) = 0
              /\ StopsAt(d, w.files, n) = FileEntries(archive.list)
  <2>1. archive.list \in Seq(P) /\ archive.open /\ archive.list = d.archives[w.files[n]]
    BY <1>6, <1>12 DEF OpensInRange, Archives
  <2>2. archive = OpenAt(d.archives[w.files[n]], 1)
    BY <1>12 DEF OpensAt
  <2>3. archive.cur = 1
    BY <2>2 DEF OpenAt
  <2>4. StopsAt(d, w.files, n) = FileEntries(archive.list)
    BY <1>12, <2>1 DEF StopsAt, Recognized
  <2>5. Len(archive.list) \in Nat /\ (archive.list = <<>> => Len(archive.list) = 0)
    BY <2>1
  <2> QED
    BY <2>1, <2>2, <2>3, <2>4, <2>5
<1>13. ASSUME Recognized(d, w.files[n]), archive.cur \in FileEntries(archive.list)
       PROVE  NextFile(w, d) = Ok(opened)
  <2> DEFINE t == <<n, archive.cur>>
  <2>1. /\ archive.list # <<>> /\ archive.cur \in 1..Len(archive.list)
        /\ archive.cur \in Nat \ {0} /\ Len(archive.list) \in Nat
    BY <1>12, <1>13 DEF FileEntries
  <2>2. t \in Stops(d, w.files) /\ t[1] = n /\ t[2] = archive.cur
    BY <1>12, <1>13, StopFields
  <2>3. t = <<t[1], t[2]>>
    OBVIOUS
  <2> HIDE DEF t
  <2>4. t \in StopsAfter(w, d)
    BY <1>1, <1>8, <2>2
  <2>5. ASSUME NEW s \in StopsAfter(w, d) \ {t} PROVE Before(t, s)
    <3>1. s \in Stops(d, w.files) /\ s[1] > w.cur
      BY <1>8
    <3>2. s[1] = n => s[2] \in 1..Len(archive.list)
      BY <1>9, <1>12, <1>13, <3>1 DEF FileEntries
    <3>3. s[1] = n => s[2] # t[2]
      BY <1>9, <2>2, <2>3, <3>1
    <3> QED
      BY <1>1, <1>9, <1>12, <1>13, <2>1, <2>2, <3>1, <3>2, <3>3 DEF Before
  <2>6. NextFile(w, d) = Ok(ExplorerAt(d, w.root, w.files, t))
    BY <1>1, <2>4, <2>5, NextIs
  <2>7. ExplorerAt(d, w.root, w.files, t) = opened
    BY <1>3, <1>12, <1>13, <2>1, <2>2 DEF ExplorerAt, Fields, OpenAt
  <2> QED
    BY <2>6, <2>7
<1>14. ASSUME Recognized(d, w.files[n]), archive.cur \notin FileEntries(archive.list)
       PROVE  NextFile(opened, d) = NextFile(w, d)
  <2>1. ExplorerOK(R, P, d, opened) /\ ArchivePresent(d, opened)
    BY <1>6, <1>14 DEF Follows
  <2>2. ASSUME NEW s
        PROVE  s \in StopsAfter(opened, d) <=>
                  s \in Stops(d, w.files) /\ (s[1] > n \/ (s[1] = n /\ s[2] > archive.cur))
    <3>1. s \in StopsAfter(opened, d) <=>
             /\ s \in Stops(d, opened.files)
             /\ s[1] > opened.cur \/ (opened.arc.open /\ s[1] = opened.cur /\ s[2] > opened.arc.cur)
      BY <2>1, StopAhead
    <3> QED
      BY <1>4, <1>12, <1>14, <3>1
  <2>3. ASSUME NEW s \in Stops(d, w.files), s[1] = n
        PROVE  s[2] > archive.cur
    <3>1. s[2] \in FileEntries(archive.list)
      BY <1>9, <1>12, <1>14, <2>3
    <3>2. s[2] \in 1..Len(archive.list) /\ s[2] # archive.cur
      BY <1>14, <3>1 DEF FileEntries
    <3> QED
      BY <1>12, <1>14, <3>2
  <2>4. \A s : s \in StopsAfter(opened, d) <=> s \in StopsAfter(w, d)
    BY <1>8, <1>9, <2>2, <2>3
  <2>5. StopsAfter(opened, d) = StopsAfter(w, d)
    BY <2>4
  <2>6. AtLastIndex(opened) = AtLastIndex(w)
    <3>1. AtLastIndex(opened) = Fields(w.root, w.files, Len(w.files), ClosedArchive)
      BY <1>1, <1>4, <2>1, EndFields
    <3>2. AtLastIndex(w) = Fields(w.root, w.files, Len(w.files), ClosedArchive)
      BY <1>1, EndFields
    <3> QED
      BY <3>1, <3>2
  <2>7. Follows(R, P, d, w, opened)
    BY <1>6, <1>14
  <2> QED
    BY <1>1, <2>5, <2>6, <2>7, SameNext
<1> QED
  BY <1>4, <1>5, <1>6, <1>10, <1>11, <1>13, <1>14

\* Moving to the file before: there an archive is opened at its end.
LEMMA PreviousInList ==
    ASSUME NEW R, NEW P, NEW d, NEW w, DiskOK(P, d), ExplorerOK(R, P, d, w),
           ~w.arc.open, NEW n, n = w.cur - 1, n \in 1..Len(w.files),
           NEW moved, moved = WithCur(w, n),
           NEW archive,
           Recognized(d, w.files[n]) => OpensAt(P, d, w.files[n], archive, Len(d.archives[w.files[n]])),
           NEW opened, opened = WithArc(moved, archive)
    PROVE  /\ ~w.files[n].isFile => Follows(R, P, d, w, moved) /\ PreviousFile(moved, d) = PreviousFile(w, d)
           /\ w.files[n].isFile /\ ~Recognized(d, w.files[n]) => PreviousFile(w, d) = Ok(moved)
           /\ Recognized(d, w.files[n]) =>
                 /\ Follows(R, P, d, w, opened)
                 /\ opened.arc.cur \in FileEntries(opened.arc.list) => PreviousFile(w, d) = Ok(opened)
                 /\ opened.arc.cur \notin FileEntries(opened.arc.list) =>
                       PreviousFile(opened, d) = PreviousFile(w, d)
<1>1. /\ w = Fields(w.root, w.files, w.cur, ClosedArchive)
      /\ w.cur \in Nat \ {0} /\ Len(w.files) \in Nat /\ w.files # <<>>
      /\ n \in Nat \ {0} /\ w \in Explorers(R, P)
      /\ ArchivePresent(d, w)
  BY OKFields DEF Explorers, Fields, ArchivePresent
<1>2. moved = Fields(w.root, w.files, n, ClosedArchive)
  BY <1>1, MovedFields
<1>3. opened = Fields(w.root, w.files, n, archive)
  BY <1>2, MovedFields
<1>4. /\ moved.root = w.root /\ moved.files = w.files /\ moved.cur = n
      /\ moved.arc = ClosedArchive /\ ~moved.arc.open
      /\ opened.root = w.root /\ opened.files = w.files /\ opened.cur = n /\ opened.arc = archive
  <2>1. /\ moved.root = w.root /\ moved.files = w.files /\ moved.cur = n
        /\ moved.arc = ClosedArchive
    BY <1>2 DEF Fields
  <2>2. opened.root = w.root /\ opened.files = w.files /\ opened.cur = n /\ opened.arc = archive
    BY <1>3 DEF Fields
  <2> QED
    BY <2>1, <2>2, ClosedArchiveTyped
<1>5. Follows(R, P, d, w, moved)
  <2>1. moved = WithArc(moved, ClosedArchive)
    BY <1>2, MovedFields
  <2> QED
    BY <1>1, <2>1, CloseAtOK, MoveFollows
<1>6. Recognized(d, w.files[n]) => /\ OpensInRange(P, d, w.files[n], archive)
                                   /\ Follows(R, P, d, w, opened)
  BY <1>1, OpenAtOK, MoveFollows DEF OpensAt
<1>7. AtFirstIndex(moved) = AtFirstIndex(w)
  BY <1>1, <1>4, <1>5, EndFields DEF Follows
<1>8. ASSUME NEW s
      PROVE  /\ s \in StopsBefore(w, d) <=> s \in Stops(d, w.files) /\ s[1] < w.cur
             /\ s \in StopsBefore(moved, d) <=> s \in Stops(d, w.files) /\ s[1] < n
  <2>1. ExplorerOK(R, P, d, moved) /\ ArchivePresent(d, moved)
    BY <1>5 DEF Follows
  <2>2. s \in StopsBefore(moved, d) <=> s \in Stops(d, w.files) /\ s[1] < n
    BY <1>4, <2>1, StopBehind
  <2>3. s \in StopsBefore(w, d) <=> s \in Stops(d, w.files) /\ s[1] < w.cur
    BY <1>1, StopBehind
  <2> QED
    BY <2>2, <2>3
<1>9. ASSUME NEW s \in Stops(d, w.files)
      PROVE  /\ s = <<s[1], s[2]>> /\ s[1] \in Nat /\ s[2] \in Nat
             /\ s[1] < w.cur <=> s[1] = n \/ s[1] < n
             /\ s[1] = n => s[2] \in StopsAt(d, w.files, n)
  BY <1>1, StopHere, StopFields
<1>10. ASSUME ~w.files[n].isFile PROVE PreviousFile(moved, d) = PreviousFile(w, d)
  <2>1. \A s \in Stops(d, w.files) : s[1] # n
    BY <1>9, <1>10 DEF StopsAt
  <2>2. \A s : s \in StopsBefore(moved, d) <=> s \in StopsBefore(w, d)
    BY <1>8, <1>9, <2>1
  <2>3. StopsBefore(moved, d) = StopsBefore(w, d)
    BY <2>2
  <2> QED
    BY <1>1, <1>5, <1>7, <2>3, SamePrevious
<1>11. ASSUME w.files[n].isFile, ~Recognized(d, w.files[n])
       PROVE  PreviousFile(w, d) = Ok(moved)
  <2> DEFINE t == <<n, 0>>
  <2>1. StopsAt(d, w.files, n) = {0}
    BY <1>11 DEF StopsAt
  <2>2. t \in Stops(d, w.files) /\ t[1] = n /\ t[2] = 0
    BY <2>1, StopFields
  <2>3. t = <<t[1], t[2]>>
    OBVIOUS
  <2> HIDE DEF t
  <2>4. t \in StopsBefore(w, d)
    BY <1>1, <1>8, <2>2
  <2>5. ASSUME NEW s \in StopsBefore(w, d) \ {t} PROVE Before(s, t)
    <3>1. s \in Stops(d, w.files) /\ s[1] < w.cur
      BY <1>8
    <3>2. s[1] = n => s[2] = 0
      BY <1>9, <2>1, <3>1
    <3>3. s[1] # n
      BY <1>9, <2>2, <2>3, <3>1, <3>2
    <3> QED
      BY <1>1, <1>9, <2>2, <3>1, <3>3 DEF Before
  <2>6. PreviousFile(w, d) = Ok(ExplorerAt(d, w.root, w.files, t))
    BY <1>1, <2>4, <2>5, PreviousIs
  <2>7. ExplorerAt(d, w.root, w.files, t) = moved
    BY <1>2, <2>2 DEF ExplorerAt, Fields
  <2> QED
    BY <2>6, <2>7
<1>12. ASSUME Recognized(d, w.files[n])
       PROVE  /\ archive.open /\ archive.list = d.archives[w.files[n]]
              /\ archive = OpenAt(archive.list, archive.cur) /\ Len(archive.list) \in Nat
              /\ archive.list # <<>> => archive.cur = Len(archive.list)
              /\ archive.list = <<>> => Len(archive.list) = 0
              /\ StopsAt(d, w.files, n) = FileEntries(archive.list)
  <2>1. archive.list \in Seq(P) /\ archive.open /\ archive.list = d.archives[w.files[n]]
    BY <1>6, <1>12 DEF OpensInRange, Archives
  <2>2. archive = OpenAt(d.archives[w.files[n]], Len(d.archives[w.files[n]]))
    BY <1>12 DEF OpensAt
  <2>3. archive.cur = Len(d.archives[w.files[n]])
    BY <2>2 DEF OpenAt
  <2>4. StopsAt(d, w.files, n) = FileEntries(archive.list)
    BY <1>12, <2>1 DEF StopsAt, Recognized
  <2>5. Len(archive.list) \in Nat /\ (archive.list = <<>> => Len(archive.list) = 0)
    BY <2>1
  <2> QED
    BY <2>1, <2>2, <2>3, <2>4, <2>5
<1>13. ASSUME Recognized(d, w.files[n]), archive.cur \in FileEntries(archive.list)
       PROVE  PreviousFile(w, d) = Ok(opened)
  <2> DEFINE t == <<n, archive.cur>>
  <2>1. /\ archive.list # <<>> /\ archive.cur \in 1..Len(archive.list)
        /\ archive.cur \in Nat \ {0} /\ Len(archive.list) \in Nat
    BY <1>12, <1>13 DEF FileEntries
  <2>2. t \in Stops(d, w.files) /\ t[1] = n /\ t[2] = archive.cur
    BY <1>12, <1>13, StopFields
  <2>3. t = <<t[1], t[2]>>
    OBVIOUS
  <2> HIDE DEF t
  <2>4. t \in StopsBefore(w, d)
    BY <1>1, <1>8, <2>2
  <2>5. ASSUME NEW s \in StopsBefore(w, d) \ {t} PROVE Before(s, t)
    <3>1. s \in Stops(d, w.files) /\ s[1] < w.cur
      BY <1>8
    <3>2. s[1] = n => s[2] \in 1..Len(archive.list)
      BY <1>9, <1>12, <1>13, <3>1 DEF FileEntries
    <3>3. s[1] = n => s[2] # t[2]
      BY <1>9, <2>2, <2>3, <3>1
    <3> QED
      BY <1>1, <1>9, <1>12, <1>13, <2>1, <2>2, <3>1, <3>2, <3>3 DEF Before
  <2>6. PreviousFile(w, d) = Ok(ExplorerAt(d, w.root, w.files, t))
    BY <1>1, <2>4, <2>5, PreviousIs
  <2>7. ExplorerAt(d, w.root, w.files, t) = opened
    BY <1>3, <1>12, <1>13, <2>1, <2>2 DEF ExplorerAt, Fields, OpenAt
  <2> QED
    BY <2>6, <2>7
<1>14. ASSUME Recognized(d, w.files[n]), archive.cur \notin FileEntries(archive.list)
       PROVE  PreviousFile(opened, d) = PreviousFile(w, d)
  <2>1. ExplorerOK(R, P, d, opened) /\ ArchivePresent(d, opened)
    BY <1>6, <1>14 DEF Follows
  <2>2. ASSUME NEW s
        PROVE  s \in StopsBefore(opened, d) <=>
                  s \in Stops(d, w.files) /\ (s[1] < n \/ (s[1] = n /\ s[2] < archive.cur))
    <3>1. s \in StopsBefore(opened, d) <=>
             /\ s \in Stops(d, opened.files)
             /\ s[1] < opened.cur \/ (opened.arc.open /\ s[1] = opened.cur /\ s[2] < opened.arc.cur)
      BY <2>1, StopBehind
    <3> QED
      BY <1>4, <1>12, <1>14, <3>1
  <2>3. ASSUME NEW s \in Stops(d, w.files), s[1] = n
        PROVE  s[2] < archive.cur
    <3>1. s[2] \in FileEntries(archive.list)
      BY <1>9, <1>12, <1>14, <2>3
    <3>2. s[2] \in 1..Len(archive.list) /\ s[2] # archive.cur
      BY <1>14, <3>1 DEF FileEntries
    <3> QED
      BY <1>12, <1>14, <3>2
  <2>4. \A s : s \in StopsBefore(opened, d) <=> s \in StopsBefore(w, d)
    BY <1>8, <1>9, <2>2, <2>3
  <2>5. StopsBefore(opened, d) = StopsBefore(w, d)
    BY <2>4
  <2>6. AtFirstIndex(opened) = AtFirstIndex(w)
    <3>1. AtFirstIndex(opened) = Fields(w.root, w.files, 1, ClosedArchive)
      BY <1>1, <1>4, <2>1, EndFields
    <3>2. AtFirstIndex(w) = Fields(w.root, w.files, 1, ClosedArchive)
      BY <1>1, EndFields
    <3> QED
      BY <3>1, <3>2
  <2>7. Follows(R, P, d, w, opened)
    BY <1>6, <1>14
  <2> QED
    BY <1>1, <2>5, <2>6, <2>7, SamePrevious
<1> QED
  BY <1>4, <1>5, <1>6, <1>10, <1>11, <1>13, <1>14

LEMMA OpenedAtEnd ==
    ASSUME NEW P, NEW d, DiskOK(P, d), NEW p, Recognized(d, p)
    PROVE  /\ OpensAt(P, d, p, OpenedArchive(d, p, TRUE), 1)
           /\ OpensAt(P, d, p, OpenedArchive(d, p, FALSE), Len(d.archives[p]))
<1>1. /\ OpenedArchive(d, p, TRUE) = OpenAt(d.archives[p], 1)
      /\ OpenedArchive(d, p, FALSE) = OpenAt(d.archives[p], Len(d.archives[p]))
  BY DEF OpenedArchive, OpenAt
<1> QED
  BY <1>1, OpenedArchiveInRange DEF OpensAt

\* A loop at the end of the list, with no archive open, has nowhere to go.
LEMMA NextAtEnd ==
    ASSUME NEW R, NEW P, NEW d, NEW w, DiskOK(P, d), ExplorerOK(R, P, d, w),
           ~w.arc.open, w.cur >= Len(w.files)
    PROVE  NextFile(w, d) = Fail(w)
<1>1. w.cur \in Nat /\ Len(w.files) \in Nat /\ ArchivePresent(d, w) /\ w.arc = ClosedArchive
  BY OKFields DEF ArchivePresent
<1>2. \A s : s \notin StopsAfter(w, d)
  BY <1>1, StopAhead, StopHere
<1>3. StopsAfter(w, d) = {}
  BY <1>2
<1>4. AtLastIndex(w) = w
  BY <1>1, EndFields
<1> QED
  BY <1>3, <1>4 DEF NextFile

LEMMA PreviousAtEnd ==
    ASSUME NEW R, NEW P, NEW d, NEW w, DiskOK(P, d), ExplorerOK(R, P, d, w),
           ~w.arc.open, w.files # <<>>, w.cur = 1
    PROVE  PreviousFile(w, d) = Fail(w)
<1>1. ArchivePresent(d, w) /\ w.arc = ClosedArchive
  BY OKFields DEF ArchivePresent
<1>2. \A s : s \notin StopsBefore(w, d)
  BY <1>1, StopBehind, StopHere
<1>3. StopsBefore(w, d) = {}
  BY <1>2
<1>4. AtFirstIndex(w) = w
  BY <1>1, EndFields
<1> QED
  BY <1>3, <1>4 DEF PreviousFile

\* Where toFirstFile and toLastFile start, and what they do there.
LEMMA FirstFileStarts ==
    ASSUME NEW R, NEW P, NEW d, NEW w, DiskOK(P, d), ExplorerOK(R, P, d, w),
           w.files # <<>>,
           NEW start, start = WithArc(WithCur(w, 1), ClosedArchive),
           NEW archive,
           Recognized(d, w.files[1]) => OpensAt(P, d, w.files[1], archive, 1),
           NEW opened, opened = WithArc(start, archive)
    PROVE  /\ Follows(R, P, d, w, start) /\ start.cur = 1
           /\ ~w.files[1].isFile => FirstFile(w, d) = NextFile(start, d)
           /\ w.files[1].isFile /\ ~Recognized(d, w.files[1]) => FirstFile(w, d) = Ok(start)
           /\ Recognized(d, w.files[1]) =>
                 /\ Follows(R, P, d, w, opened)
                 /\ opened.arc.cur \in FileEntries(opened.arc.list) => FirstFile(w, d) = Ok(opened)
                 /\ opened.arc.cur \notin FileEntries(opened.arc.list) =>
                       FirstFile(w, d) = NextFile(opened, d)
<1>1. 1 \in 1..Len(w.files) /\ w \in Explorers(R, P) /\ 1 \in Nat \ {0}
  BY OKFields
<1>2. CloseArchive([w EXCEPT !.cur = 1]) = start
  BY DEF CloseArchive, WithArc, WithCur
<1>3. ASSUME Recognized(d, w.files[1])
      PROVE  opened = [start EXCEPT !.arc = OpenedArchive(d, w.files[1], TRUE)]
  <2>1. OpenedArchive(d, w.files[1], TRUE) = archive
    BY <1>3 DEF OpensAt, OpenAt, OpenedArchive
  <2> QED
    BY <2>1 DEF WithArc
<1>4. /\ start.root = w.root /\ start.files = w.files /\ start.cur = 1
      /\ start.arc = ClosedArchive /\ start \in Explorers(R, P)
  BY <1>1, SetCur, SetArc, ClosedArchiveTyped
<1>5. Follows(R, P, d, w, start)
  <2>1. MovesWithin(R, P, d, w, [ok |-> TRUE, ex |-> start])
    BY <1>1, StartOK
  <2> QED
    BY <1>4, <2>1, ClosedArchiveTyped DEF MovesWithin, Follows, ArchivePresent
<1>6. ASSUME Recognized(d, w.files[1])
      PROVE  /\ Follows(R, P, d, w, opened)
             /\ InArchive(opened) /\ opened.arc.list[1].isFile <=>
                   opened.arc.cur \in FileEntries(opened.arc.list)
  <2>1. OpensAt(P, d, w.files[1], archive, 1)
    BY <1>6
  <2>3. /\ archive \in Archives(P) /\ archive.open /\ archive.cur = 1
        /\ archive.list \in Seq(P)
    BY <2>1 DEF OpensAt, OpensInRange, OpenAt, Archives
  <2>4. /\ opened.root = w.root /\ opened.files = w.files /\ opened.cur = 1
        /\ opened.arc = archive
    BY <1>4, <2>3, SetArc
  <2>5. MovesWithin(R, P, d, w, [ok |-> TRUE, ex |-> opened])
    BY <1>1, <1>6, <2>1, StartOK DEF OpensAt
  <2>6. Follows(R, P, d, w, opened)
    BY <1>1, <1>6, <2>4, <2>5 DEF MovesWithin, Follows, ArchivePresent
  <2>7. 1 \in 1..Len(archive.list) <=> archive.list # <<>>
    BY <2>3
  <2> QED
    BY <2>3, <2>4, <2>6, <2>7 DEF InArchive, FileEntries
<1> QED
  BY <1>2, <1>3, <1>4, <1>5, <1>6 DEF FirstFile, Recognized

LEMMA LastFileStarts ==
    ASSUME NEW R, NEW P, NEW d, NEW w, DiskOK(P, d), ExplorerOK(R, P, d, w),
           w.files # <<>>, NEW n, n = Len(w.files),
           NEW start, start = WithArc(WithCur(w, n), ClosedArchive),
           NEW archive,
           Recognized(d, w.files[n]) => OpensAt(P, d, w.files[n], archive, Len(d.archives[w.files[n]])),
           NEW opened, opened = WithArc(start, archive)
    PROVE  /\ Follows(R, P, d, w, start) /\ start.cur = n
           /\ ~w.files[n].isFile => LastFile(w, d) = PreviousFile(start, d)
           /\ w.files[n].isFile /\ ~Recognized(d, w.files[n]) => LastFile(w, d) = Ok(start)
           /\ Recognized(d, w.files[n]) =>
                 /\ Follows(R, P, d, w, opened)
                 /\ opened.arc.cur \in FileEntries(opened.arc.list) => LastFile(w, d) = Ok(opened)
                 /\ opened.arc.cur \notin FileEntries(opened.arc.list) =>
                       LastFile(w, d) = PreviousFile(opened, d)
<1>1. n \in 1..Len(w.files) /\ w \in Explorers(R, P) /\ n \in Nat \ {0}
  BY OKFields
<1>2. [CloseArchive(w) EXCEPT !.cur = Len(w.files)] = start
  BY OKFields DEF CloseArchive, WithArc, WithCur, Explorers
<1>3. ASSUME Recognized(d, w.files[n])
      PROVE  opened = [start EXCEPT !.arc = OpenedArchive(d, w.files[n], FALSE)]
  <2>1. OpenedArchive(d, w.files[n], FALSE) = archive
    BY <1>3 DEF OpensAt, OpenAt, OpenedArchive
  <2> QED
    BY <2>1 DEF WithArc
<1>4. /\ start.root = w.root /\ start.files = w.files /\ start.cur = n
      /\ start.arc = ClosedArchive /\ start \in Explorers(R, P)
  BY <1>1, SetCur, SetArc, ClosedArchiveTyped
<1>5. Follows(R, P, d, w, start)
  <2>1. MovesWithin(R, P, d, w, [ok |-> TRUE, ex |-> start])
    BY <1>1, StartOK
  <2> QED
    BY <1>4, <2>1, ClosedArchiveTyped DEF MovesWithin, Follows, ArchivePresent
<1>6. ASSUME Recognized(d, w.files[n])
      PROVE  /\ Follows(R, P, d, w, opened)
             /\ InArchive(opened) /\ opened.arc.list[opened.arc.cur].isFile <=>
                   opened.arc.cur \in FileEntries(opened.arc.list)
  <2>1. OpensAt(P, d, w.files[n], archive, Len(d.archives[w.files[n]]))
    BY <1>6
  <2>3. /\ archive \in Archives(P) /\ archive.open /\ archive.cur = Len(archive.list)
        /\ archive.list \in Seq(P)
    BY <2>1 DEF OpensAt, OpensInRange, OpenAt, Archives
  <2>4. /\ opened.root = w.root /\ opened.files = w.files /\ opened.cur = n
        /\ opened.arc = archive
    BY <1>4, <2>3, SetArc
  <2>5. MovesWithin(R, P, d, w, [ok |-> TRUE, ex |-> opened])
    BY <1>1, <1>6, <2>1, StartOK DEF OpensAt
  <2>6. Follows(R, P, d, w, opened)
    BY <1>1, <1>6, <2>4, <2>5 DEF MovesWithin, Follows, ArchivePresent
  <2>7. Len(archive.list) \in 1..Len(archive.list) <=> archive.list # <<>>
    BY <2>3
  <2> QED
    BY <2>3, <2>4, <2>6, <2>7 DEF InArchive, FileEntries
<1> QED
  BY <1>2, <1>3, <1>4, <1>5, <1>6 DEF LastFile, StartAtLastFile, Recognized
-----------------------------------------------------------------------------
(* What is read is a page of the list, and enter finds it                  *)

\* The explorer is not beside an archive that it could open.
AtPage(d, ex) ==
    /\ ex.files # <<>>
    /\ ~ex.arc.open => ~Recognized(d, ex.files[ex.cur])

\* The stops that are files, or entries of the archives, whether or not the
\* files have been deleted.
Places(d, files) ==
    {s \in (1..Len(files)) \X Nat :
        /\ files[s[1]].isFile
        /\ IF files[s[1]] \in DOMAIN d.archives THEN s[2] \in FileEntries(d.archives[files[s[1]]])
           ELSE s[2] = 0}

LEMMA StopAtPage ==
    ASSUME NEW R, NEW P, NEW d, DiskOK(P, d), NEW ex, ExplorerOK(R, P, d, ex),
           ex.files # <<>>,
           NEW s \in StopsAfter(ex, d) \union StopsBefore(ex, d)
    PROVE  AtPage(d, StopAt(ex, d, s))
<1> DEFINE at == ArchiveAt(ex, d, s[1])
           a == IF s[2] = 0 THEN ClosedArchive ELSE WithEntry(at, s[2])
           moved == WithCur(ex, s[1])
<1>1. s \in Nat \X Nat /\ Reachable(d, ex, s)
  BY StopsReachable
<1>2. StopAt(ex, d, s) = WithArc(moved, a)
  BY OKFields DEF StopAt, WithArc, WithCur, WithEntry, Explorers
<1>3. s[1] \in 1..Len(ex.files) /\ s[2] \in Nat
  BY <1>1, OKFields DEF Reachable
<1>4. /\ s[2] = 0 => ~Recognized(d, ex.files[s[1]])
      /\ s[2] # 0 => at \in Archives(P) /\ at.open
  <2>1. CASE ex.arc.open /\ s[1] = ex.cur /\ s[2] \in FileEntries(ex.arc.list)
    <3>1. s[2] # 0 /\ ex.arc \in Archives(P)
      BY <2>1, OKFields DEF FileEntries
    <3> QED
      BY <2>1, <3>1 DEF ArchiveAt
  <2>2. CASE s[1] # ex.cur /\ s[2] \in StopsAt(d, ex.files, s[1])
    <3>1. s[2] = 0 => ~Recognized(d, ex.files[s[1]])
      BY <2>2 DEF StopsAt, FileEntries
    <3>2. ASSUME s[2] # 0 PROVE at \in Archives(P) /\ at.open
      <4>1. Recognized(d, ex.files[s[1]])
        BY <2>2, <3>2 DEF StopsAt
      <4> QED
        BY <2>2, <4>1, OpenedArchiveInRange DEF ArchiveAt, OpensInRange
    <3> QED
      BY <3>1, <3>2
  <2> QED
    BY <1>1, <2>1, <2>2 DEF Reachable
<1> HIDE DEF at
<1>5. /\ a \in Archives(P)
      /\ s[2] = 0 => ~a.open
      /\ s[2] # 0 => a.open
  BY <1>3, <1>4, SetEntry, ClosedArchiveTyped
<1>6. moved \in Explorers(R, P) /\ moved.files = ex.files /\ moved.cur = s[1]
  <2>1. s[1] \in Nat \ {0} /\ ex \in Explorers(R, P)
    BY <1>3, OKFields
  <2> QED
    BY <2>1, SetCur
<1> HIDE DEF a, moved
<1>7. /\ WithArc(moved, a).files = ex.files /\ WithArc(moved, a).cur = s[1]
      /\ WithArc(moved, a).arc = a
  BY <1>5, <1>6, SetArc
<1> QED
  BY <1>2, <1>4, <1>5, <1>7 DEF AtPage

LEMMA NextAtPage ==
    ASSUME NEW R, NEW P, NEW d, DiskOK(P, d), NEW ex, ExplorerOK(R, P, d, ex),
           ex.files # <<>>
    PROVE  /\ NextFile(ex, d).ok => AtPage(d, NextFile(ex, d).ex)
           /\ PreviousFile(ex, d).ok => AtPage(d, PreviousFile(ex, d).ex)
<1>1. ASSUME NextFile(ex, d).ok PROVE AtPage(d, NextFile(ex, d).ex)
  <2>1. StopsAfter(ex, d) # {} /\ NextFile(ex, d) = Ok(StopAt(ex, d, Nearest(StopsAfter(ex, d))))
    BY <1>1 DEF NextFile, Fail
  <2>2. Nearest(StopsAfter(ex, d)) \in StopsAfter(ex, d)
    BY <2>1, ChosenStops
  <2> QED
    BY <2>1, <2>2, StopAtPage DEF Ok
<1>2. ASSUME PreviousFile(ex, d).ok PROVE AtPage(d, PreviousFile(ex, d).ex)
  <2>1. /\ StopsBefore(ex, d) # {}
        /\ PreviousFile(ex, d) = Ok(StopAt(ex, d, Farthest(StopsBefore(ex, d))))
    BY <1>2 DEF PreviousFile, Fail
  <2>2. Farthest(StopsBefore(ex, d)) \in StopsBefore(ex, d)
    BY <2>1, ChosenStops
  <2> QED
    BY <2>1, <2>2, StopAtPage DEF Ok
<1> QED
  BY <1>1, <1>2

LEMMA EndsAtPage ==
    ASSUME NEW R, NEW P, NEW d, DiskOK(P, d), NEW ex, ExplorerOK(R, P, d, ex)
    PROVE  /\ FirstFile(ex, d).ok => AtPage(d, FirstFile(ex, d).ex)
           /\ LastFile(ex, d).ok => AtPage(d, LastFile(ex, d).ex)
<1>1. ASSUME FirstFile(ex, d).ok PROVE AtPage(d, FirstFile(ex, d).ex)
  <2> DEFINE start == WithArc(WithCur(ex, 1), ClosedArchive)
             archive == OpenedArchive(d, ex.files[1], TRUE)
             opened == WithArc(start, archive)
  <2>1. ex.files # <<>>
    BY <1>1 DEF FirstFile, Fail
  <2>2. Recognized(d, ex.files[1]) => OpensAt(P, d, ex.files[1], archive, 1)
    BY OpenedAtEnd
  <2>3. opened.arc = archive /\ archive.open /\ start.arc = ClosedArchive
    BY OKFields DEF WithArc, WithCur, OpenedArchive, Explorers
  <2> HIDE DEF archive
  <2>4. /\ Follows(R, P, d, ex, start) /\ start.cur = 1
        /\ ~ex.files[1].isFile => FirstFile(ex, d) = NextFile(start, d)
        /\ ex.files[1].isFile /\ ~Recognized(d, ex.files[1]) => FirstFile(ex, d) = Ok(start)
        /\ Recognized(d, ex.files[1]) =>
              /\ Follows(R, P, d, ex, opened)
              /\ opened.arc.cur \in FileEntries(opened.arc.list) => FirstFile(ex, d) = Ok(opened)
              /\ opened.arc.cur \notin FileEntries(opened.arc.list) =>
                    FirstFile(ex, d) = NextFile(opened, d)
    BY <2>1, <2>2, FirstFileStarts
  <2> HIDE DEF start, opened
  <2>5. NextFile(start, d).ok => AtPage(d, NextFile(start, d).ex)
    BY <2>1, <2>4, NextAtPage DEF Follows
  <2>6. Recognized(d, ex.files[1]) /\ NextFile(opened, d).ok => AtPage(d, NextFile(opened, d).ex)
    BY <2>1, <2>4, NextAtPage DEF Follows
  <2>7. ~Recognized(d, ex.files[1]) => AtPage(d, start)
    BY <2>1, <2>4 DEF AtPage, Follows
  <2>8. Recognized(d, ex.files[1]) => AtPage(d, opened)
    BY <2>1, <2>3, <2>4 DEF AtPage, Follows
  <2> QED
    BY <1>1, <2>4, <2>5, <2>6, <2>7, <2>8 DEF Ok
<1>2. ASSUME LastFile(ex, d).ok PROVE AtPage(d, LastFile(ex, d).ex)
  <2> DEFINE n == Len(ex.files)
             start == WithArc(WithCur(ex, n), ClosedArchive)
             archive == OpenedArchive(d, ex.files[n], FALSE)
             opened == WithArc(start, archive)
  <2>1. ex.files # <<>>
    BY <1>2 DEF LastFile, Fail
  <2>2. Recognized(d, ex.files[n]) =>
           OpensAt(P, d, ex.files[n], archive, Len(d.archives[ex.files[n]]))
    BY OpenedAtEnd
  <2>3. opened.arc = archive /\ archive.open /\ start.arc = ClosedArchive /\ n = Len(ex.files)
    BY OKFields DEF WithArc, WithCur, OpenedArchive, Explorers
  <2> HIDE DEF archive, n
  <2>4. /\ Follows(R, P, d, ex, start) /\ start.cur = n
        /\ ~ex.files[n].isFile => LastFile(ex, d) = PreviousFile(start, d)
        /\ ex.files[n].isFile /\ ~Recognized(d, ex.files[n]) => LastFile(ex, d) = Ok(start)
        /\ Recognized(d, ex.files[n]) =>
              /\ Follows(R, P, d, ex, opened)
              /\ opened.arc.cur \in FileEntries(opened.arc.list) => LastFile(ex, d) = Ok(opened)
              /\ opened.arc.cur \notin FileEntries(opened.arc.list) =>
                    LastFile(ex, d) = PreviousFile(opened, d)
    BY <2>1, <2>2, <2>3, LastFileStarts
  <2> HIDE DEF start, opened
  <2>5. PreviousFile(start, d).ok => AtPage(d, PreviousFile(start, d).ex)
    BY <2>1, <2>4, NextAtPage DEF Follows
  <2>6. Recognized(d, ex.files[n]) /\ PreviousFile(opened, d).ok =>
           AtPage(d, PreviousFile(opened, d).ex)
    BY <2>1, <2>4, NextAtPage DEF Follows
  <2>7. ~Recognized(d, ex.files[n]) => AtPage(d, start)
    BY <2>1, <2>4 DEF AtPage, Follows
  <2>8. Recognized(d, ex.files[n]) => AtPage(d, opened)
    BY <2>1, <2>3, <2>4 DEF AtPage, Follows
  <2> QED
    BY <1>2, <2>4, <2>5, <2>6, <2>7, <2>8 DEF Ok
<1> QED
  BY <1>1, <1>2

(***************************************************************************)
(* What is read, not beside an archive, is a place of the list.            *)
(***************************************************************************)
LEMMA ReadIsPlace ==
    ASSUME NEW R, NEW P, NEW d, NEW ex, ExplorerOK(R, P, d, ex), AtPage(d, ex),
           Readable(ex, d)
    PROVE  \E s \in Places(d, ex.files) : GetCurrentPos(ex) = PosAt(d, ex.files, s)
<1>1. ex.files # <<>> /\ ex.cur \in 1..Len(ex.files)
  BY OKFields DEF AtPage
<1>2. CASE ex.arc.open
  <2> DEFINE s == <<ex.cur, ex.arc.cur>>
  <2>1. /\ InArchive(ex) /\ ex.arc.list[ex.arc.cur].isFile
        /\ ex.arc.cur \in 1..Len(ex.arc.list) /\ Len(ex.arc.list) \in Nat
        /\ IsArchiveFile(d, ex.files[ex.cur])
        /\ ex.arc.list = d.archives[ex.files[ex.cur]]
    BY <1>1, <1>2, OKFields DEF Readable, InArchive
  <2>2. s[1] = ex.cur /\ s[2] = ex.arc.cur /\ ex.arc.cur \in Nat /\ ex.arc.cur # 0
    <3>1. \A k \in 1..Len(ex.arc.list) : k \in Nat /\ k # 0
      OBVIOUS
    <3> QED
      BY <2>1, <3>1
  <2>3. s \in Places(d, ex.files)
    BY <1>1, <2>1, <2>2 DEF Places, IsArchiveFile, FileEntries
  <2>4. GetCurrentPos(ex) = PosAt(d, ex.files, s)
    BY <1>1, <2>1, <2>2 DEF GetCurrentPos, PosAt
  <2> QED
    BY <2>3, <2>4
<1>3. CASE ~ex.arc.open
  <2> DEFINE s == <<ex.cur, 0>>
  <2>1. /\ ex.files[ex.cur].isFile /\ ex.files[ex.cur] \notin DOMAIN d.archives
        /\ ~InArchive(ex)
    BY <1>3 DEF Readable, AtPage, Recognized, InArchive
  <2>2. s[1] = ex.cur /\ s[2] = 0
    OBVIOUS
  <2>3. s \in Places(d, ex.files)
    BY <1>1, <2>1, <2>2 DEF Places
  <2>4. GetCurrentPos(ex) = PosAt(d, ex.files, s)
    BY <1>1, <2>1, <2>2 DEF GetCurrentPos, PosAt
  <2> QED
    BY <2>3, <2>4
<1> QED
  BY <1>2, <1>3

\* On a disk from which nothing was deleted the places are the stops.
LEMMA PlacesAreStops ==
    ASSUME NEW d, NEW files,
           \A i \in 1..Len(files) : files[i].isFile => files[i] \in d.present,
           NEW s \in Places(d, files)
    PROVE  s \in Stops(d, files)
<1>1. /\ s = <<s[1], s[2]>> /\ s[1] \in 1..Len(files) /\ files[s[1]].isFile
      /\ files[s[1]] \in d.present
      /\ IF files[s[1]] \in DOMAIN d.archives THEN s[2] \in FileEntries(d.archives[files[s[1]]])
         ELSE s[2] = 0
  BY DEF Places
<1>2. s[2] \in StopsAt(d, files, s[1])
  BY <1>1 DEF StopsAt, Recognized
<1> QED
  BY <1>1, <1>2, StopFields

\* What is at a place of the list.
LEMMA PlaceFields ==
    ASSUME NEW d, NEW files, NEW s \in Places(d, files)
    PROVE  /\ s = <<s[1], s[2]>> /\ s[1] \in 1..Len(files) /\ files[s[1]].isFile
           /\ s[1] \in Nat /\ s[2] \in Nat
           /\ s[2] = 0 => files[s[1]] \notin DOMAIN d.archives
           /\ s[2] # 0 => /\ files[s[1]] \in DOMAIN d.archives
                          /\ s[2] \in FileEntries(d.archives[files[s[1]]])
<1>1. /\ s = <<s[1], s[2]>> /\ s[1] \in 1..Len(files) /\ s[2] \in Nat /\ files[s[1]].isFile
      /\ IF files[s[1]] \in DOMAIN d.archives THEN s[2] \in FileEntries(d.archives[files[s[1]]])
         ELSE s[2] = 0
  BY DEF Places
<1>2. s[1] \in Nat
  BY <1>1
<1>3. 0 \notin FileEntries(d.archives[files[s[1]]])
  BY DEF FileEntries
<1> QED
  BY <1>1, <1>2, <1>3

\* enter, called with the page of a place, ends there or fails.
LEMMA EnterPlace ==
    ASSUME NEW R, NEW N, NEW d, NEW ex,
           DiskOK(Path(N), d), NamesAreUnique(d),
           ExplorerOK(R, Path(N), d, ex),
           ~IsEmptyPath(ex.root), FilesAreLeaves(ex.files),
           NEW s \in Places(d, ex.files)
    PROVE  /\ EnterPath(ex, d, PosAt(d, ex.files, s)).ok =>
                 EnterPath(ex, d, PosAt(d, ex.files, s)) =
                    Ok(ExplorerAt(d, ex.root, ex.files, s))
           /\ ex.files[s[1]] \in d.present => EnterPath(ex, d, PosAt(d, ex.files, s)).ok
<1>1. /\ s = <<s[1], s[2]>> /\ s[1] \in 1..Len(ex.files) /\ ex.files[s[1]].isFile
      /\ s[2] = 0 => ex.files[s[1]] \notin DOMAIN d.archives
      /\ s[2] # 0 => ex.files[s[1]] \in DOMAIN d.archives /\ s[2] \in FileEntries(d.archives[ex.files[s[1]]])
  BY PlaceFields
<1>2. s[2] = 0 => ~Recognized(d, ex.files[s[1]]) /\ ~(ex.arc.open /\ ex.cur = s[1])
  <2>1. ex.files # <<>>
    BY <1>1
  <2> QED
    BY <1>1, <2>1 DEF Recognized, ExplorerOK, ArchiveMatches, IsArchiveFile
<1>3. Spot(d, ex, s)
  BY <1>1, <1>2 DEF Spot
<1> QED
  BY <1>3, EnterSpot

\* A walk stops where its stop says, and reads what is there.
LEMMA StopIsThere ==
    ASSUME NEW R, NEW P, NEW d, DiskOK(P, d), NEW ex, ExplorerOK(R, P, d, ex),
           ex.files # <<>>,
           NEW s \in StopsAfter(ex, d) \union StopsBefore(ex, d)
    PROVE  /\ StopAt(ex, d, s) = ExplorerAt(d, ex.root, ex.files, s)
           /\ s \in Nat \X Nat /\ s[1] \in 1..Len(ex.files) /\ ex.files[s[1]].isFile
           /\ s[2] = 0 => ~Recognized(d, ex.files[s[1]])
           /\ s[2] # 0 => /\ ex.files[s[1]] \in DOMAIN d.archives
                          /\ s[2] \in FileEntries(d.archives[ex.files[s[1]]])
<1> DEFINE at == ArchiveAt(ex, d, s[1])
           arc == IF s[2] = 0 THEN ClosedArchive ELSE WithEntry(at, s[2])
           list == d.archives[ex.files[s[1]]]
<1>1. /\ s \in Nat \X Nat /\ Reachable(d, ex, s)
      /\ ex.cur \in 1..Len(ex.files)
      /\ ex = Fields(ex.root, ex.files, ex.cur, ex.arc)
      /\ ex.arc = [open |-> ex.arc.open, list |-> ex.arc.list, cur |-> ex.arc.cur]
      /\ ex.arc.open \in BOOLEAN
  BY StopsReachable, OKFields DEF Explorers, Fields, Archives
<1>2. StopAt(ex, d, s) = WithArc(WithCur(ex, s[1]), arc)
  BY OKFields DEF StopAt, WithArc, WithCur, WithEntry, Explorers
<1>3. /\ s[1] \in 1..Len(ex.files) /\ ex.files[s[1]].isFile
      /\ s[2] = 0 => ~Recognized(d, ex.files[s[1]])
      /\ s[2] # 0 => /\ ex.files[s[1]] \in DOMAIN d.archives
                     /\ s[2] \in FileEntries(list)
                     /\ \E c : at = OpenAt(list, c)
  <2>1. CASE ex.arc.open /\ s[1] = ex.cur /\ s[2] \in FileEntries(ex.arc.list)
    <3>1. ex.arc.list = list /\ IsArchiveFile(d, ex.files[s[1]]) /\ s[2] # 0
      BY <1>1, <2>1, OKFields DEF FileEntries
    <3>2. at = OpenAt(list, ex.arc.cur)
      BY <1>1, <2>1, <3>1 DEF ArchiveAt, OpenAt
    <3> QED
      BY <1>1, <2>1, <3>1, <3>2 DEF IsArchiveFile
  <2>2. CASE s[1] \in 1..Len(ex.files) /\ s[1] # ex.cur /\ s[2] \in StopsAt(d, ex.files, s[1])
    <3>1. ex.files[s[1]].isFile /\ (s[2] = 0 => ~Recognized(d, ex.files[s[1]]))
      BY <2>2 DEF StopsAt, FileEntries
    <3>2. ASSUME s[2] # 0
          PROVE  /\ ex.files[s[1]] \in DOMAIN d.archives /\ s[2] \in FileEntries(list)
                 /\ at = OpenAt(list, 1)
      BY <2>2, <3>2 DEF StopsAt, Recognized, ArchiveAt, OpenedArchive, OpenAt
    <3> QED
      BY <2>2, <3>1, <3>2
  <2> QED
    BY <1>1, <2>1, <2>2 DEF Reachable
<1>4. ASSUME s[2] # 0 PROVE arc = OpenAt(list, s[2])
  <2>1. PICK c : at = OpenAt(list, c)
    BY <1>3, <1>4
  <2> HIDE DEF at, list
  <2>2. WithEntry(at, s[2]) = OpenAt(list, s[2])
    BY <2>1, MovedEntry
  <2> QED
    BY <1>4, <2>2
<1>5. s[2] = 0 => arc = ClosedArchive
  OBVIOUS
<1> HIDE DEF arc, list
<1>6. WithArc(WithCur(ex, s[1]), arc) = Fields(ex.root, ex.files, s[1], arc)
  BY <1>1, MovedFields
<1>7. StopAt(ex, d, s) = ExplorerAt(d, ex.root, ex.files, s)
  BY <1>2, <1>4, <1>5, <1>6 DEF Fields, OpenAt, ExplorerAt, list
<1> QED
  BY <1>1, <1>3, <1>7 DEF list

\* An explorer that stands at a spot holds what is there, if that can be read.
LEMMA HoldsThere ==
    ASSUME NEW d, NEW root, NEW files, files # <<>>, NEW s \in Nat \X Nat,
           s[1] \in 1..Len(files), files[s[1]].isFile,
           s[2] = 0 => ~Recognized(d, files[s[1]]),
           s[2] # 0 => /\ files[s[1]] \in DOMAIN d.archives
                       /\ s[2] \in FileEntries(d.archives[files[s[1]]]),
           NEW there, there = ExplorerAt(d, root, files, s)
    PROVE  /\ GetCurrentPos(there) = PosAt(d, files, s)
           /\ Readable(there, d) <=> s[2] # 0 \/ files[s[1]] \in d.present
           /\ Readable(there, d) => s \in Places(d, files)
<1>1. s[2] # 0 => /\ d.archives[files[s[1]]] # <<>>
                  /\ d.archives[files[s[1]]][s[2]].isFile
  BY DEF FileEntries
<1>2. CASE s[2] = 0
  <2>1. /\ there.arc = ClosedArchive /\ there.files = files /\ there.cur = s[1]
        /\ ~InArchive(there) /\ ~there.arc.open
    BY <1>2 DEF ExplorerAt, InArchive, ClosedArchive
  <2>2. Readable(there, d) <=> files[s[1]] \in d.present
    BY <2>1 DEF Readable
  <2>3. files[s[1]] \in d.present => files[s[1]] \notin DOMAIN d.archives
    BY <1>2 DEF Recognized
  <2> QED
    BY <1>2, <2>1, <2>2, <2>3 DEF GetCurrentPos, PosAt, Places
<1>3. CASE s[2] # 0
  <2>1. /\ there.arc.open /\ there.files = files /\ there.cur = s[1]
        /\ there.arc.list = d.archives[files[s[1]]] /\ there.arc.cur = s[2]
        /\ InArchive(there)
    BY <1>1, <1>3 DEF ExplorerAt, InArchive
  <2>2. Readable(there, d)
    <3>1. there.arc.list[there.arc.cur].isFile
      BY <1>1, <1>3, <2>1
    <3> QED
      BY <2>1, <3>1 DEF Readable
  <2> QED
    BY <1>3, <2>1, <2>2 DEF GetCurrentPos, PosAt, Places
<1> QED
  BY <1>2, <1>3

(***************************************************************************)
(* From the page of a place, the walks see the places after it and before  *)
(* it whose files are still there, and those in the archive that is open,  *)
(* be it there or not.                                                     *)
(***************************************************************************)
Found(d, files, s, t) == files[t[1]] \in d.present \/ t[1] = s[1]

LEMMA HeldBeyond ==
    ASSUME NEW R, NEW P, NEW d, DiskOK(P, d), NEW ex, ExplorerOK(R, P, d, ex),
           NEW s \in Places(d, ex.files), ex = ExplorerAt(d, ex.root, ex.files, s),
           NEW pages, NEW t
    PROVE  /\ t \in StopsHolding(pages, StopsAfter(ex, d), ex, d) <=>
                 /\ t \in Places(d, ex.files) /\ PosAt(d, ex.files, t) \in pages
                 /\ Before(s, t) /\ Found(d, ex.files, s, t)
           /\ t \in StopsHolding(pages, StopsBefore(ex, d), ex, d) <=>
                 /\ t \in Places(d, ex.files) /\ PosAt(d, ex.files, t) \in pages
                 /\ Before(t, s) /\ Found(d, ex.files, s, t)
<1> DEFINE files == ex.files
           present == files[t[1]] \in d.present
           there == ExplorerAt(d, ex.root, files, t)
<1>1. /\ s[1] \in 1..Len(files) /\ s[1] \in Nat /\ s[2] \in Nat /\ files # <<>>
      /\ ex.cur = s[1] /\ Len(files) \in Nat
      /\ ex.arc.open <=> s[2] # 0
      /\ s[2] # 0 => ex.arc.list = d.archives[files[s[1]]] /\ ex.arc.cur = s[2]
      /\ s[2] = 0 => files[s[1]] \notin DOMAIN d.archives
  BY PlaceFields, OKFields, ClosedArchiveTyped DEF ExplorerAt
<1>2. /\ t \in StopsAfter(ex, d) <=>
            \/ /\ s[2] # 0
               /\ \E a \in FileEntries(ex.arc.list) : a > s[2] /\ t = <<s[1], a>>
            \/ \E f \in 1..Len(files) : /\ f > s[1]
                                        /\ \E a \in StopsAt(d, files, f) : t = <<f, a>>
      /\ t \in StopsBefore(ex, d) <=>
            \/ /\ s[2] # 0
               /\ \E a \in FileEntries(ex.arc.list) : a < s[2] /\ t = <<s[1], a>>
            \/ \E f \in 1..Len(files) : /\ f < s[1]
                                        /\ \E a \in StopsAt(d, files, f) : t = <<f, a>>
  <2>1. \A f : f \in (ex.cur + 1)..Len(files) <=> f \in 1..Len(files) /\ f > ex.cur
    BY <1>1
  <2> HIDE DEF files
  <2>2. t \in StopsAfter(ex, d) <=>
           \/ ex.arc.open /\ \E a \in FileEntries(ex.arc.list) : a > ex.arc.cur /\ t = <<ex.cur, a>>
           \/ \E f \in (ex.cur + 1)..Len(files) : \E a \in StopsAt(d, files, f) : t = <<f, a>>
    BY DEF StopsAfter, files
  <2>3. t \in StopsBefore(ex, d) <=>
           \/ ex.arc.open /\ \E a \in FileEntries(ex.arc.list) : a < ex.arc.cur /\ t = <<ex.cur, a>>
           \/ \E f \in 1..Len(files) : f < ex.cur /\ \E a \in StopsAt(d, files, f) : t = <<f, a>>
    BY DEF StopsBefore, files
  <2> QED
    BY <1>1, <2>1, <2>2, <2>3
<1>3. ASSUME t \in StopsAfter(ex, d) \union StopsBefore(ex, d)
      PROVE  /\ Holds(pages, StopAt(ex, d, t), d) <=>
                   PosAt(d, files, t) \in pages /\ (t[2] # 0 \/ present)
             /\ Holds(pages, StopAt(ex, d, t), d) => t \in Places(d, files)
  <2>1. /\ StopAt(ex, d, t) = there
        /\ t \in Nat \X Nat /\ t[1] \in 1..Len(files) /\ files[t[1]].isFile
        /\ t[2] = 0 => ~Recognized(d, files[t[1]])
        /\ t[2] # 0 => /\ files[t[1]] \in DOMAIN d.archives
                       /\ t[2] \in FileEntries(d.archives[files[t[1]]])
    BY <1>1, <1>3, StopIsThere
  <2> DEFINE root == ex.root
  <2> HIDE DEF there, files, root
  <2>2. /\ GetCurrentPos(there) = PosAt(d, files, t)
        /\ Readable(there, d) <=> t[2] # 0 \/ files[t[1]] \in d.present
        /\ Readable(there, d) => t \in Places(d, files)
    <3>1. there = ExplorerAt(d, root, files, t)
      BY DEF there, root
    <3> QED
      BY <1>1, <2>1, <3>1, HoldsThere
  <2> QED
    BY <2>1, <2>2 DEF Holds
<1>4. ASSUME t \in Places(d, files)
      PROVE  /\ t \in StopsAfter(ex, d) /\ (t[2] # 0 \/ present) <=>
                   Before(s, t) /\ Found(d, files, s, t)
             /\ t \in StopsBefore(ex, d) /\ (t[2] # 0 \/ present) <=>
                   Before(t, s) /\ Found(d, files, s, t)
  <2>1. /\ t = <<t[1], t[2]>> /\ t[1] \in 1..Len(files) /\ files[t[1]].isFile
        /\ t[1] \in Nat /\ t[2] \in Nat
        /\ t[2] = 0 => files[t[1]] \notin DOMAIN d.archives
        /\ t[2] # 0 => /\ files[t[1]] \in DOMAIN d.archives
                       /\ t[2] \in FileEntries(d.archives[files[t[1]]])
    BY <1>4, PlaceFields
  <2>2. t[2] \in StopsAt(d, files, t[1]) <=> t[2] = 0 \/ present
    BY <2>1 DEF StopsAt, Recognized, FileEntries
  <2>3. /\ t \in StopsAfter(ex, d) <=>
              \/ s[2] # 0 /\ t[1] = s[1] /\ t[2] \in FileEntries(ex.arc.list) /\ t[2] > s[2]
              \/ t[1] > s[1] /\ t[2] \in StopsAt(d, files, t[1])
        /\ t \in StopsBefore(ex, d) <=>
              \/ s[2] # 0 /\ t[1] = s[1] /\ t[2] \in FileEntries(ex.arc.list) /\ t[2] < s[2]
              \/ t[1] < s[1] /\ t[2] \in StopsAt(d, files, t[1])
    <3> HIDE DEF files
    <3> QED
      BY <1>2, <2>1
  <2>4. t[1] = s[1] => /\ s[2] = 0 => t[2] = 0
                       /\ s[2] # 0 => t[2] # 0 /\ t[2] \in FileEntries(ex.arc.list)
    BY <1>1, <2>1, PlaceFields
  <2> HIDE DEF files, present
  <2> QED
    BY <1>1, <2>1, <2>2, <2>3, <2>4 DEF Before, Found, files, present
<1> HIDE DEF present, there
<1> QED
  BY <1>3, <1>4 DEF StopsHolding

(***************************************************************************)
(* toFirstFile ends at the first stop of the list, if there is one.        *)
(***************************************************************************)
StartsAtFirst(d, ex, r) ==
    /\ r.ok => \E s \in Stops(d, ex.files) :
                  /\ \A t \in Stops(d, ex.files) \ {s} : Before(s, t)
                  /\ r = Ok(ExplorerAt(d, ex.root, ex.files, s))
    /\ ~r.ok => Stops(d, ex.files) = {}

LEMMA StartsThere ==
    ASSUME NEW d, NEW ex, NEW r, NEW s \in Stops(d, ex.files),
           \A t \in Stops(d, ex.files) \ {s} : Before(s, t),
           r = Ok(ExplorerAt(d, ex.root, ex.files, s))
    PROVE  StartsAtFirst(d, ex, r)
<1>1. r.ok
  BY DEF Ok
<1> QED
  BY <1>1 DEF StartsAtFirst

LEMMA NextOfAll ==
    ASSUME NEW R, NEW P, NEW d, NEW w, DiskOK(P, d), ExplorerOK(R, P, d, w),
           ArchivePresent(d, w), StopsAfter(w, d) = Stops(d, w.files)
    PROVE  StartsAtFirst(d, w, NextFile(w, d))
<1> DEFINE S == StopsAfter(w, d)
           n == Nearest(S)
<1>1. CASE S = {}
  BY <1>1 DEF NextFile, Fail, StartsAtFirst
<1>2. CASE S # {}
  <2>1. n \in S /\ IsNearest(S, n)
    BY <1>2, ChosenStops
  <2>2. n \in Stops(d, w.files) /\ \A t \in Stops(d, w.files) \ {n} : Before(n, t)
    BY <2>1 DEF IsNearest
  <2>3. StopAt(w, d, n) = ExplorerAt(d, w.root, w.files, n)
    BY <2>2, StandingThere
  <2>4. NextFile(w, d) = Ok(ExplorerAt(d, w.root, w.files, n))
    BY <1>2, <2>3 DEF NextFile
  <2> HIDE DEF n
  <2> QED
    BY <2>2, <2>4, StartsThere
<1> QED
  BY <1>1, <1>2

LEMMA FirstFileIs ==
    ASSUME NEW R, NEW P, NEW d, DiskOK(P, d), NEW ex, ExplorerOK(R, P, d, ex)
    PROVE  StartsAtFirst(d, ex, FirstFile(ex, d))
<1> DEFINE files == ex.files
           list == d.archives[ex.files[1]]
           start == WithArc(WithCur(ex, 1), ClosedArchive)
           archive == OpenedArchive(d, ex.files[1], TRUE)
           opened == WithArc(start, archive)
<1>1. CASE files = <<>>
  <2>1. Stops(d, files) = {}
    BY <1>1 DEF Stops
  <2> QED
    BY <1>1, <2>1 DEF FirstFile, Fail, StartsAtFirst
<1>2. CASE files # <<>>
  <2>1. Recognized(d, files[1]) => OpensAt(P, d, files[1], archive, 1)
    BY OpenedAtEnd
  <2>2. /\ opened.arc = archive /\ start.arc = ClosedArchive
        /\ archive.open /\ archive.list = list /\ archive.cur = 1
        /\ ~ClosedArchive.open
        /\ 1 \in 1..Len(files)
    BY <1>2, OKFields, ClosedArchiveTyped DEF WithArc, WithCur, OpenedArchive, Explorers
  <2>3. archive = OpenAt(list, 1)
    BY DEF OpenedArchive, OpenAt
  <2>4. /\ start = Fields(ex.root, files, 1, ClosedArchive)
        /\ opened = Fields(ex.root, files, 1, archive)
    <3>1. ex = Fields(ex.root, ex.files, ex.cur, ex.arc)
      BY OKFields DEF Explorers, Fields
    <3> DEFINE moved == WithCur(ex, 1)
    <3>2. moved = Fields(ex.root, ex.files, 1, ex.arc)
      BY <3>1, MovedFields
    <3> HIDE DEF moved, archive
    <3>3. WithArc(moved, ClosedArchive) = Fields(ex.root, ex.files, 1, ClosedArchive)
      BY <3>2, MovedFields
    <3>4. start = Fields(ex.root, files, 1, ClosedArchive)
      BY <3>3 DEF moved
    <3> HIDE DEF start
    <3> QED
      BY <3>4, MovedFields
  <2> HIDE DEF archive
  <2>5. /\ Follows(R, P, d, ex, start) /\ start.cur = 1
        /\ ~files[1].isFile => FirstFile(ex, d) = NextFile(start, d)
        /\ files[1].isFile /\ ~Recognized(d, files[1]) => FirstFile(ex, d) = Ok(start)
        /\ Recognized(d, files[1]) =>
              /\ Follows(R, P, d, ex, opened)
              /\ opened.arc.cur \in FileEntries(opened.arc.list) => FirstFile(ex, d) = Ok(opened)
              /\ opened.arc.cur \notin FileEntries(opened.arc.list) =>
                    FirstFile(ex, d) = NextFile(opened, d)
    BY <1>2, <2>1, FirstFileStarts
  <2>6. opened.cur = 1
    BY <2>4 DEF Fields
  <2> HIDE DEF start, opened, files, list
  <2>7. ASSUME NEW s \in Stops(d, files)
        PROVE  /\ s = <<s[1], s[2]>> /\ s[1] \in Nat \ {0} /\ s[2] \in Nat
               /\ files[s[1]].isFile
               /\ s[1] = 1 /\ ~Recognized(d, files[1]) => s[2] = 0
               /\ s[1] = 1 /\ Recognized(d, files[1]) => s[2] \in FileEntries(list)
    BY StopFields, OKFields, StopsTyped DEF StopsAt, files, list
  <2>8. ASSUME NEW s, s = <<s[1], s[2]>>, s[1] = 1, s[2] \in StopsAt(d, files, 1),
               s[2] \in {0, 1}
        PROVE  s \in Stops(d, files) /\ \A t \in Stops(d, files) \ {s} : Before(s, t)
    <3>1. s \in Stops(d, files)
      BY <2>2, <2>8, StopFields
    <3>2. ASSUME NEW t \in Stops(d, files), t # s PROVE Before(s, t)
      <4>1. s[2] = 1 => Recognized(d, files[1])
        BY <2>8 DEF StopsAt
      <4>2. s[2] = 0 => ~Recognized(d, files[1])
        BY <2>8 DEF StopsAt, FileEntries
      <4>3. t[1] = 1 => t[2] # s[2]
        BY <2>7, <2>8, <3>2
      <4>4. 0 \notin FileEntries(list)
        BY DEF FileEntries
      <4> QED
        BY <2>7, <2>8, <4>1, <4>2, <4>3, <4>4 DEF Before
    <3> QED
      BY <3>1, <3>2
  <2>9. CASE ~files[1].isFile
    <3>1. \A s : s \in StopsAfter(start, d) <=> s \in Stops(d, files)
      <4>1. \A s : s \in StopsAfter(start, d) <=> s \in Stops(d, files) /\ s[1] > 1
        BY <2>2, <2>5, StopAhead DEF Follows, files
      <4> QED
        BY <2>7, <2>9, <4>1
    <3>2. StopsAfter(start, d) = Stops(d, files)
      BY <3>1
    <3>3. StartsAtFirst(d, start, NextFile(start, d))
      BY <2>5, <3>2, NextOfAll DEF Follows, files
    <3> QED
      BY <2>5, <2>9, <3>3 DEF StartsAtFirst, Follows
  <2>10. CASE files[1].isFile /\ ~Recognized(d, files[1])
    <3> DEFINE s == <<1, 0>>
    <3>1. s[1] = 1 /\ s[2] = 0 /\ s[2] \in StopsAt(d, files, 1)
      BY <2>10 DEF StopsAt
    <3>2. start = ExplorerAt(d, ex.root, files, s)
      BY <2>4, <3>1 DEF ExplorerAt, Fields, files
    <3>3. s = <<s[1], s[2]>> /\ s[2] \in {0, 1}
      OBVIOUS
    <3> HIDE DEF s
    <3>4. s \in Stops(d, files) /\ \A t \in Stops(d, files) \ {s} : Before(s, t)
      BY <2>8, <3>1, <3>3
    <3>5. FirstFile(ex, d) = Ok(ExplorerAt(d, ex.root, files, s))
      BY <2>5, <2>10, <3>2
    <3> QED
      BY <3>4, <3>5, StartsThere DEF files
  <2>11. CASE Recognized(d, files[1]) /\ 1 \in FileEntries(list)
    <3> DEFINE s == <<1, 1>>
    <3>1. s[1] = 1 /\ s[2] = 1 /\ s[2] \in StopsAt(d, files, 1)
      BY <2>11 DEF StopsAt, Recognized, list, files
    <3>2. opened = ExplorerAt(d, ex.root, files, s)
      BY <2>3, <2>4, <3>1 DEF ExplorerAt, Fields, OpenAt, files, list
    <3>3. s = <<s[1], s[2]>> /\ s[2] \in {0, 1}
      OBVIOUS
    <3> HIDE DEF s
    <3>4. s \in Stops(d, files) /\ \A t \in Stops(d, files) \ {s} : Before(s, t)
      BY <2>8, <3>1, <3>3
    <3>5. FirstFile(ex, d) = Ok(ExplorerAt(d, ex.root, files, s))
      BY <2>2, <2>5, <2>11, <3>2
    <3> QED
      BY <3>4, <3>5, StartsThere DEF files
  <2>12. CASE Recognized(d, files[1]) /\ 1 \notin FileEntries(list)
    <3>1. \A s : s \in StopsAfter(opened, d) <=> s \in Stops(d, files)
      <4>1. \A s : s \in StopsAfter(opened, d) <=>
                      s \in Stops(d, files) /\ (s[1] > 1 \/ (s[1] = 1 /\ s[2] > 1))
        BY <2>2, <2>5, <2>6, <2>12, StopAhead DEF Follows, files
      <4>2. \A a \in FileEntries(list) : a \in Nat /\ a # 0
        BY DEF FileEntries
      <4> QED
        BY <2>7, <2>12, <4>1, <4>2
    <3>2. StopsAfter(opened, d) = Stops(d, files)
      BY <3>1
    <3>3. StartsAtFirst(d, opened, NextFile(opened, d))
      BY <2>5, <2>12, <3>2, NextOfAll DEF Follows, files
    <3> QED
      BY <2>2, <2>5, <2>12, <3>3 DEF StartsAtFirst, Follows
  <2>13. ~files[1].isFile => ~Recognized(d, files[1])
    BY DEF Recognized
  <2> QED
    BY <2>9, <2>10, <2>11, <2>12
<1> QED
  BY <1>1, <1>2

(***************************************************************************)
(* The images of the list, and what it is for one to follow another: no    *)
(* image whose file is still there lies between them.                      *)
(***************************************************************************)
Shown(d, files) == {s \in Places(d, files) : PosAt(d, files, s) \in d.images}

NoneBetween(d, files, s, t) ==
    \A u \in Shown(d, files) : Before(s, u) /\ Before(u, t) => files[u[1]] \notin d.present

Adjoining(d, files, p, q) ==
    \E s, t \in Shown(d, files) : /\ PosAt(d, files, s) = p /\ PosAt(d, files, t) = q
                                  /\ Before(s, t) /\ NoneBetween(d, files, s, t)

\* The first place of the list is an image.
FirstShows(d, files) == \E s \in Shown(d, files) : \A t \in Places(d, files) \ {s} : Before(s, t)

\* No two places have the same page.
LEMMA OnePlace ==
    ASSUME NEW N, NEW d, NEW files \in Seq(Path(N)), DiskOK(Path(N), d), NamesAreUnique(d),
           FilesAreLeaves(files), NEW s \in Places(d, files), NEW t \in Places(d, files),
           PosAt(d, files, s) = PosAt(d, files, t)
    PROVE  s = t
<1>1. /\ s = <<s[1], s[2]>> /\ s[1] \in 1..Len(files) /\ files[s[1]].isFile
      /\ s[2] # 0 => /\ files[s[1]] \in DOMAIN d.archives
                     /\ s[2] \in FileEntries(d.archives[files[s[1]]])
      /\ s[2] = 0 => files[s[1]] \notin DOMAIN d.archives
      /\ t = <<t[1], t[2]>> /\ t[1] \in 1..Len(files) /\ files[t[1]].isFile
      /\ t[2] # 0 => /\ files[t[1]] \in DOMAIN d.archives
                     /\ t[2] \in FileEntries(d.archives[files[t[1]]])
      /\ t[2] = 0 => files[t[1]] \notin DOMAIN d.archives
  BY PlaceFields
<1>2. files[s[1]] = files[t[1]]
  BY DEF PosAt, PathToFile
<1>3. s[1] = t[1]
  BY <1>1, <1>2, SamePathSameFile DEF SamePath
<1>4. CASE s[2] = 0
  BY <1>1, <1>3, <1>4
<1>5. CASE s[2] # 0
  <2> DEFINE list == d.archives[files[s[1]]]
  <2>1. /\ list \in Seq(Path(N)) /\ FilesAreLeaves(list)
        /\ s[2] \in 1..Len(list) /\ t[2] \in 1..Len(list) /\ list[t[2]].isFile
        /\ t[2] # 0 /\ list[s[2]].isFile
    BY <1>1, <1>3, <1>5 DEF DiskOK, NamesAreUnique, FileEntries
  <2>2. list[s[2]] = list[t[2]]
    BY <1>3, <1>5, <2>1 DEF PosAt, PathToFile
  <2>3. SamePath(list[t[2]], list[s[2]])
    BY <2>2 DEF SamePath
  <2> HIDE DEF list
  <2>4. s[2] = t[2]
    BY <2>1, <2>3, SamePathSameFile
  <2> QED
    BY <1>1, <1>3, <2>4
<1> QED
  BY <1>4, <1>5

\* What toFirstFile finds, against the places.
LEMMA FirstIsShown ==
    ASSUME NEW R, NEW P, NEW d, DiskOK(P, d), NEW ex, ExplorerOK(R, P, d, ex),
           NEW r, r = FirstFile(ex, d)
    PROVE  /\ r.ok /\ Holds(d.images, r.ex, d) => FirstShows(d, ex.files)
           /\ /\ \A i \in 1..Len(ex.files) : ex.files[i].isFile => ex.files[i] \in d.present
              /\ d.images \intersect d.empty = {}
              /\ FirstShows(d, ex.files)
              => r.ok /\ Holds(d.images, r.ex, d) /\ ~Holds(d.empty, r.ex, d)
<1> DEFINE files == ex.files
<1>1. StartsAtFirst(d, ex, r)
  BY FirstFileIs
<1>2. files \in Seq(P) /\ Stops(d, files) \in SUBSET (Nat \X Nat)
  BY OKFields, StopsTyped
<1>3. ASSUME NEW s \in Stops(d, files), r = Ok(ExplorerAt(d, ex.root, files, s))
      PROVE  /\ r.ok /\ s[1] \in 1..Len(files)
             /\ GetCurrentPos(r.ex) = PosAt(d, files, s)
             /\ Readable(r.ex, d) <=> s[2] # 0 \/ files[s[1]] \in d.present
             /\ Readable(r.ex, d) => s \in Places(d, files)
  <2> DEFINE there == ExplorerAt(d, ex.root, files, s)
             root == ex.root
  <2>1. /\ s \in Nat \X Nat /\ s[1] \in 1..Len(files) /\ files[s[1]].isFile /\ files # <<>>
        /\ s[2] = 0 => ~Recognized(d, files[s[1]])
        /\ s[2] # 0 => /\ files[s[1]] \in DOMAIN d.archives
                       /\ s[2] \in FileEntries(d.archives[files[s[1]]])
    BY <1>2, StopFields DEF Recognized
  <2>2. there = ExplorerAt(d, root, files, s) /\ r.ok /\ r.ex = there
    BY <1>3 DEF Ok
  <2> HIDE DEF files, there, root
  <2> QED
    BY <2>1, <2>2, HoldsThere
<1>4. ASSUME r.ok, Holds(d.images, r.ex, d) PROVE FirstShows(d, files)
  <2>1. PICK s \in Stops(d, files) : /\ \A t \in Stops(d, files) \ {s} : Before(s, t)
                                     /\ r = Ok(ExplorerAt(d, ex.root, files, s))
    BY <1>1, <1>4 DEF StartsAtFirst
  <2>2. s \in Shown(d, files)
    BY <1>3, <1>4, <2>1 DEF Holds, Shown
  <2>3. ASSUME NEW t \in Places(d, files), t # s PROVE Before(s, t)
    <3>1. /\ t = <<t[1], t[2]>> /\ t[1] \in 1..Len(files) /\ files[t[1]].isFile
          /\ t[1] \in Nat /\ t[2] \in Nat
          /\ t[2] = 0 => files[t[1]] \notin DOMAIN d.archives
          /\ t[2] # 0 => /\ files[t[1]] \in DOMAIN d.archives
                         /\ t[2] \in FileEntries(d.archives[files[t[1]]])
      BY PlaceFields
    <3>2. CASE t[2] = 0 \/ files[t[1]] \in d.present
      <4>1. t[2] \in StopsAt(d, files, t[1])
        BY <3>1, <3>2 DEF StopsAt, Recognized
      <4>2. t \in Stops(d, files)
        BY <3>1, <4>1, StopFields
      <4> QED
        BY <2>1, <2>3, <4>2
    <3>3. CASE t[2] # 0 /\ files[t[1]] \notin d.present
      <4> DEFINE u == <<t[1], 0>>
      <4>1. u[1] = t[1] /\ u[2] = 0 /\ u = <<u[1], u[2]>> /\ u[2] \in StopsAt(d, files, t[1])
        BY <3>1, <3>3 DEF StopsAt, Recognized
      <4> HIDE DEF u
      <4>2. u \in Stops(d, files)
        BY <3>1, <4>1, StopFields
      <4>3. u # s
        BY <2>2, <3>1, <3>3, <4>1, PlaceFields DEF Shown
      <4>4. Before(s, u) /\ s[1] \in Nat /\ s[2] \in Nat
        BY <1>2, <2>1, <4>2, <4>3
      <4> QED
        BY <3>1, <4>1, <4>4 DEF Before
    <3> QED
      BY <3>2, <3>3
  <2> QED
    BY <2>2, <2>3 DEF FirstShows
<1>5. ASSUME \A i \in 1..Len(files) : files[i].isFile => files[i] \in d.present,
             d.images \intersect d.empty = {}, FirstShows(d, files)
      PROVE  r.ok /\ Holds(d.images, r.ex, d) /\ ~Holds(d.empty, r.ex, d)
  <2>1. PICK s \in Shown(d, files) : \A t \in Places(d, files) \ {s} : Before(s, t)
    BY <1>5 DEF FirstShows
  <2>2. s \in Places(d, files) /\ PosAt(d, files, s) \in d.images
    BY <2>1 DEF Shown
  <2>3. s \in Stops(d, files)
    BY <1>5, <2>2, PlacesAreStops
  <2>4. PICK z \in Stops(d, files) : /\ \A t \in Stops(d, files) \ {z} : Before(z, t)
                                     /\ r = Ok(ExplorerAt(d, ex.root, files, z))
    BY <1>1, <2>3 DEF StartsAtFirst
  <2>5. Readable(r.ex, d) /\ z \in Places(d, files)
    <3>1. files[z[1]].isFile /\ z[1] \in 1..Len(files)
      BY StopFields
    <3> QED
      BY <1>3, <1>5, <2>4, <3>1
  <2>6. z = s
    <3>1. z # s => Before(s, z) /\ Before(z, s)
      BY <2>1, <2>3, <2>4, <2>5
    <3>2. s[1] \in Nat /\ s[2] \in Nat /\ z[1] \in Nat /\ z[2] \in Nat
      BY <1>2, <2>3
    <3> QED
      BY <3>1, <3>2 DEF Before
  <2>7. GetCurrentPos(r.ex) \in d.images /\ r.ok
    BY <1>3, <2>2, <2>4, <2>6
  <2> QED
    BY <1>5, <2>5, <2>7 DEF Holds
<1> QED
  BY <1>4, <1>5

-----------------------------------------------------------------------------
(***************************************************************************)
(* What the operations of Book keep: the explorer stays in range, the      *)
(* slots stay in any set G of slots that loading an image, clearing a slot *)
(* and spoiling one do not lead out of, every bookmark is that of an image *)
(* of the list, and unless a damaged file spoilt it, of the slot's image.  *)
(***************************************************************************)

SlotsClosed(d, G) ==
    /\ \A slot \in G : \A page \in d.images :
          [image |-> page, bookmark |-> page, cache |-> OnLoaded(d, slot.cache, page)] \in G
    /\ \A slot \in G : ClearSlot(slot) \in G
    /\ \A slot \in G : \A page \in d.damaged : [slot EXCEPT !.image = page] \in G

\* The fields of a book, of which only some have types here.
BookShape(b) == b = [explorer |-> b.explorer, cached |-> b.cached, crashed |-> b.crashed,
                     previous |-> b.previous, current |-> b.current, next |-> b.next]

\* No bookmark, and those of the images in the list.
Marks(d, files) ==
    {NoPathToFile} \union {p \in d.images : \E s \in Places(d, files) : p = PosAt(d, files, s)}

SlotShape(slot) ==
    slot = [image |-> slot.image, bookmark |-> slot.bookmark, cache |-> slot.cache]

SlotFits(d, G, b, slot) ==
    /\ SlotShape(slot)
    /\ b.cached => slot \in G
    /\ b.explorer.files # <<>> => slot.bookmark \in Marks(d, b.explorer.files)
    /\ d.damaged = {} => slot.image = slot.bookmark

SlotsIn(d, G, b) == /\ SlotFits(d, G, b, b.previous)
                    /\ SlotFits(d, G, b, b.current)
                    /\ SlotFits(d, G, b, b.next)

BookOK(R, P, d, G, b) == /\ BookShape(b)
                         /\ ExplorerOK(R, P, d, b.explorer)
                         /\ SlotsIn(d, G, b)

\* Book c comes from book b by an operation.
BookMoves(R, P, d, G, b, c) == /\ BookOK(R, P, d, G, c)
                               /\ c.cached = b.cached
                               /\ c.explorer.root = b.explorer.root
                               /\ c.explorer.files = b.explorer.files

-----------------------------------------------------------------------------
(* Updates of the fields.                                                  *)

WithExplorer(b, ex) == [b EXCEPT !.explorer = ex]
WithPrevious(b, s)  == [b EXCEPT !.previous = s]
WithCurrent(b, s)   == [b EXCEPT !.current = s]
WithNext(b, s)      == [b EXCEPT !.next = s]

LEMMA SetExplorer ==
    ASSUME NEW b, BookShape(b), NEW ex
    PROVE  /\ BookShape(WithExplorer(b, ex))
           /\ WithExplorer(b, ex).explorer = ex
           /\ WithExplorer(b, ex).cached = b.cached
           /\ WithExplorer(b, ex).previous = b.previous
           /\ WithExplorer(b, ex).current = b.current
           /\ WithExplorer(b, ex).next = b.next
BY DEF BookShape, WithExplorer

LEMMA SetSlots ==
    ASSUME NEW b, BookShape(b), NEW s
    PROVE  /\ WithPrevious(b, s) = [explorer |-> b.explorer, cached |-> b.cached,
                 crashed |-> b.crashed, previous |-> s, current |-> b.current, next |-> b.next]
           /\ WithCurrent(b, s) = [explorer |-> b.explorer, cached |-> b.cached,
                 crashed |-> b.crashed, previous |-> b.previous, current |-> s, next |-> b.next]
           /\ WithNext(b, s) = [explorer |-> b.explorer, cached |-> b.cached,
                 crashed |-> b.crashed, previous |-> b.previous, current |-> b.current, next |-> s]
BY DEF BookShape, WithPrevious, WithCurrent, WithNext

\* A slot of G can be put in any place.
LEMMA SlotOK ==
    ASSUME NEW R, NEW P, NEW d, NEW G, NEW b, BookOK(R, P, d, G, b), NEW s, SlotFits(d, G, b, s)
    PROVE  /\ BookMoves(R, P, d, G, b, WithPrevious(b, s))
           /\ BookMoves(R, P, d, G, b, WithCurrent(b, s))
           /\ BookMoves(R, P, d, G, b, WithNext(b, s))
BY SetSlots DEF BookOK, BookMoves, BookShape, SlotsIn, SlotFits

WithImage(slot, page)    == [slot EXCEPT !.image = page]
WithBookmark(slot, page) == [slot EXCEPT !.bookmark = page]

LEMMA ClearedSlot ==
    ASSUME NEW slot, SlotShape(slot)
    PROVE  ClearSlot(slot) = [image |-> NoPathToFile, bookmark |-> NoPathToFile,
                              cache |-> slot.cache]
<1> DEFINE s == WithImage(slot, NoPathToFile)
<1>1. s = [image |-> NoPathToFile, bookmark |-> slot.bookmark, cache |-> slot.cache]
  BY DEF SlotShape, WithImage
<1>2. ClearSlot(slot) = WithBookmark(s, NoPathToFile)
  BY DEF ClearSlot, WithImage, WithBookmark
<1> HIDE DEF s
<1>3. WithBookmark(s, NoPathToFile) =
         [image |-> NoPathToFile, bookmark |-> NoPathToFile, cache |-> slot.cache]
  BY <1>1 DEF WithBookmark
<1> QED
  BY <1>2, <1>3

\* A book that has just been made, with any set of roots that holds the empty one.
LEMMA NewBookOK ==
    ASSUME NEW R, NoPath \in R, NEW P, NEW d, NEW G
    PROVE  /\ BookOK(R, P, d, G, NewBook)
           /\ ExplorerOK(R, P, d, NewBook.explorer)
           /\ BookShape(NewBook) /\ NewBook.explorer = NewExplorer /\ ~NewBook.cached
           /\ NewBook.previous = EmptySlot /\ NewBook.current = EmptySlot
           /\ NewBook.next = EmptySlot
<1>1. NewExplorer \in Explorers(R, P)
  BY ClosedArchiveTyped DEF NewExplorer, Explorers, Archives
<1>2. NewExplorer.files = <<>> /\ NewExplorer.arc = ClosedArchive
  BY DEF NewExplorer
<1>3. ExplorerOK(R, P, d, NewExplorer)
  BY <1>1, <1>2, ClosedArchiveTyped
     DEF ExplorerOK, AssertsHold, InArchive, ArchiveMatches, NothingBelowArchives
<1>4. /\ BookShape(NewBook) /\ NewBook.explorer = NewExplorer /\ ~NewBook.cached
      /\ NewBook.previous = EmptySlot /\ NewBook.current = EmptySlot
      /\ NewBook.next = EmptySlot
  BY DEF BookShape, NewBook
<1>5. SlotShape(EmptySlot) /\ EmptySlot.bookmark = NoPathToFile /\ EmptySlot.image = NoPathToFile
  BY DEF EmptySlot, SlotShape
<1> QED
  BY <1>2, <1>3, <1>4, <1>5 DEF BookOK, SlotsIn, SlotFits, Marks

LEMMA ThenBookMoves ==
    ASSUME NEW R, NEW P, NEW d, NEW G, NEW a, NEW b, NEW c,
           BookMoves(R, P, d, G, a, b), BookMoves(R, P, d, G, b, c)
    PROVE  BookMoves(R, P, d, G, a, c)
BY DEF BookMoves

LEMMA MovedBookOK ==
    ASSUME NEW R, NEW P, NEW d, NEW G, NEW b, NEW c, BookMoves(R, P, d, G, b, c)
    PROVE  /\ BookOK(R, P, d, G, c) /\ c.cached = b.cached
           /\ \A s : SlotFits(d, G, b, s) => SlotFits(d, G, c, s)
BY DEF BookMoves, SlotFits

LEMMA BookStays ==
    ASSUME NEW R, NEW P, NEW d, NEW G, NEW b, BookOK(R, P, d, G, b)
    PROVE  BookMoves(R, P, d, G, b, b)
BY DEF BookMoves

\* Moving the explorer alone.
LEMMA ExplorerMovesOK ==
    ASSUME NEW R, NEW P, NEW d, NEW G, NEW b, BookOK(R, P, d, G, b),
           NEW ex, ExplorerOK(R, P, d, ex), ex.root = b.explorer.root,
           ex.files = b.explorer.files
    PROVE  BookMoves(R, P, d, G, b, WithExplorer(b, ex))
<1>1. BookShape(b) /\ SlotsIn(d, G, b)
  BY DEF BookOK
<1> QED
  BY <1>1, SetExplorer DEF BookMoves, BookOK, SlotsIn, SlotFits

\* A crash changes nothing that the invariants are about.
LEMMA CrashedOK ==
    ASSUME NEW R, NEW P, NEW d, NEW G, NEW b, BookOK(R, P, d, G, b)
    PROVE  BookMoves(R, P, d, G, b, Crashed(b).book)
<1>1. Crashed(b).book = [explorer |-> b.explorer, cached |-> b.cached, crashed |-> TRUE,
                         previous |-> b.previous, current |-> b.current, next |-> b.next]
  BY DEF Crashed, BookFail, BookOK, BookShape
<1> QED
  BY <1>1 DEF BookMoves, BookOK, BookShape, SlotsIn, SlotFits

-----------------------------------------------------------------------------
(* Loading and spoiling                                                    *)

LEMMA LoadsOK ==
    ASSUME NEW R, NEW P, NEW d, NEW G, SlotsClosed(d, G), NEW b, BookOK(R, P, d, G, b),
           Holds(d.images, b.explorer, d),
           b.explorer.files # <<>> => AtPage(d, b.explorer)
    PROVE  /\ BookMoves(R, P, d, G, b, LoadPrevious(b, d))
           /\ BookMoves(R, P, d, G, b, LoadCurrent(b, d))
           /\ BookMoves(R, P, d, G, b, LoadNext(b, d))
<1> DEFINE page == GetCurrentPos(b.explorer)
<1>1. page \in d.images /\ (b.explorer.files # <<>> => page \in Marks(d, b.explorer.files))
  <2>1. Readable(b.explorer, d) /\ page \in d.images
    BY DEF Holds
  <2>2. b.explorer.files # <<>> =>
           \E s \in Places(d, b.explorer.files) : page = PosAt(d, b.explorer.files, s)
    BY <2>1, ReadIsPlace DEF BookOK
  <2> QED
    BY <2>1, <2>2 DEF Marks
<1> HIDE DEF page
<1>2. ASSUME NEW slot, SlotFits(d, G, b, slot)
      PROVE  SlotFits(d, G, b, Loaded(b, d, slot))
  BY <1>1, <1>2 DEF Loaded, SlotsClosed, SlotFits, SlotShape, page
<1>3. /\ SlotFits(d, G, b, Loaded(b, d, b.previous))
      /\ SlotFits(d, G, b, Loaded(b, d, b.current))
      /\ SlotFits(d, G, b, Loaded(b, d, b.next))
  BY <1>2 DEF BookOK, SlotsIn
<1>4. /\ LoadPrevious(b, d) = WithPrevious(b, Loaded(b, d, b.previous))
      /\ LoadCurrent(b, d) = WithCurrent(b, Loaded(b, d, b.current))
      /\ LoadNext(b, d) = WithNext(b, Loaded(b, d, b.next))
  BY DEF LoadPrevious, LoadCurrent, LoadNext, WithPrevious, WithCurrent, WithNext, BookOK,
         BookShape
<1> QED
  BY <1>3, <1>4, SlotOK

LEMMA SpoiltOK ==
    ASSUME NEW R, NEW P, NEW d, NEW G, SlotsClosed(d, G), NEW b, BookOK(R, P, d, G, b),
           NEW e, Holds(d.damaged, e, d)
    PROVE  /\ BookMoves(R, P, d, G, b, WithPrevious(b, Spoilt(b.previous, e)))
           /\ BookMoves(R, P, d, G, b, WithCurrent(b, Spoilt(b.current, e)))
           /\ BookMoves(R, P, d, G, b, WithNext(b, Spoilt(b.next, e)))
<1>1. GetCurrentPos(e) \in d.damaged
  BY DEF Holds
<1>2. ASSUME NEW slot, SlotFits(d, G, b, slot) PROVE SlotFits(d, G, b, Spoilt(slot, e))
  <2>1. SlotShape(Spoilt(slot, e)) /\ Spoilt(slot, e).bookmark = slot.bookmark
    BY <1>2 DEF Spoilt, SlotFits, SlotShape
  <2>2. b.cached => Spoilt(slot, e) \in G
    BY <1>1, <1>2 DEF Spoilt, SlotsClosed, SlotFits
  <2> QED
    BY <1>1, <1>2, <2>1, <2>2 DEF SlotFits
<1>3. /\ SlotFits(d, G, b, Spoilt(b.previous, e))
      /\ SlotFits(d, G, b, Spoilt(b.current, e))
      /\ SlotFits(d, G, b, Spoilt(b.next, e))
  BY <1>2 DEF BookOK, SlotsIn
<1> QED
  BY <1>3, SlotOK

-----------------------------------------------------------------------------
(* findAndLoadNext and findAndLoadPrevious                                 *)

\* Standing at a stop and loading what is there, or spoiling a slot with it.
LEMMA LoadAtStopOK ==
    ASSUME NEW R, NEW P, NEW d, DiskOK(P, d), NEW G, SlotsClosed(d, G),
           NEW b, BookOK(R, P, d, G, b),
           NEW s \in StopsAfter(b.explorer, d) \union StopsBefore(b.explorer, d),
           Holds(d.images, StopAt(b.explorer, d, s), d)
    PROVE  LET there == WithExplorer(b, StopAt(b.explorer, d, s))
           IN  /\ BookMoves(R, P, d, G, b, LoadNext(there, d))
               /\ BookMoves(R, P, d, G, b, LoadPrevious(there, d))
<1> DEFINE ex == StopAt(b.explorer, d, s)
           there == WithExplorer(b, ex)
<1>1. /\ ExplorerOK(R, P, d, ex) /\ ex.root = b.explorer.root
      /\ ex.files = b.explorer.files
      /\ ex.files # <<>> => AtPage(d, ex)
  BY AtStopOK, StopAtPage DEF BookOK, Ok, MovesWithin
<1> HIDE DEF ex
<1>2. BookMoves(R, P, d, G, b, there) /\ there.explorer = ex
  BY <1>1, ExplorerMovesOK, SetExplorer DEF BookOK
<1> HIDE DEF there
<1>3. /\ BookOK(R, P, d, G, there) /\ Holds(d.images, there.explorer, d)
      /\ there.explorer.files # <<>> => AtPage(d, there.explorer)
  BY <1>1, <1>2 DEF BookMoves, ex
<1>4. BookMoves(R, P, d, G, there, LoadNext(there, d))
      /\ BookMoves(R, P, d, G, there, LoadPrevious(there, d))
  BY <1>3, LoadsOK
<1>5. BookMoves(R, P, d, G, b, LoadNext(there, d))
      /\ BookMoves(R, P, d, G, b, LoadPrevious(there, d))
  BY <1>2, <1>4, ThenBookMoves
<1> QED
  BY <1>5 DEF there, ex

LEMMA FindAndLoadNextOK ==
    ASSUME NEW R, NEW P, NEW d, DiskOK(P, d), NEW G, SlotsClosed(d, G),
           NEW b, BookOK(R, P, d, G, b)
    PROVE  BookMoves(R, P, d, G, b, FindAndLoadNext(b, d).book)
<1> DEFINE S == StopsAfter(b.explorer, d)
           images == StopsHolding(d.images, S, b.explorer, d)
           damaged == StopsHolding(d.damaged, S, b.explorer, d)
           empty == StopsHolding(d.empty, S, b.explorer, d)
           atEnd == WithExplorer(b, AtLastIndex(b.explorer))
           ends == \E e \in empty : \A i \in images : Before(e, i)
<1>1. ExplorerOK(R, P, d, b.explorer) /\ images \subseteq S /\ damaged \subseteq S
  BY DEF BookOK, StopsHolding
<1>2. CASE ends
  BY <1>2, CrashedOK DEF FindAndLoadNext
<1>3. CASE ~ends /\ images # {}
  <2>1. Nearest(images) \in images
    BY <1>1, <1>3, ChosenStops
  <2>2. Nearest(images) \in S /\ Holds(d.images, StopAt(b.explorer, d, Nearest(images)), d)
    BY <2>1 DEF StopsHolding
  <2>3. BookMoves(R, P, d, G, b,
                  LoadNext(WithExplorer(b, StopAt(b.explorer, d, Nearest(images))), d))
    BY <2>2, LoadAtStopOK
  <2> QED
    BY <1>3, <2>3 DEF FindAndLoadNext, BookOk, WithExplorer
<1>4. BookMoves(R, P, d, G, b, atEnd)
  <2>1. MovesWithin(R, P, d, b.explorer, [ok |-> TRUE, ex |-> AtLastIndex(b.explorer)])
    BY <1>1, AtLastIndexOK
  <2>2. /\ ExplorerOK(R, P, d, AtLastIndex(b.explorer))
        /\ AtLastIndex(b.explorer).root = b.explorer.root
        /\ AtLastIndex(b.explorer).files = b.explorer.files
    BY <2>1 DEF MovesWithin
  <2> QED
    BY <2>2, ExplorerMovesOK
<1>5. CASE ~ends /\ images = {} /\ damaged # {}
  <2> DEFINE e == StopAt(b.explorer, d, Farthest(damaged))
  <2>1. Farthest(damaged) \in damaged
    BY <1>1, <1>5, ChosenStops
  <2>2. Holds(d.damaged, e, d)
    BY <2>1 DEF StopsHolding
  <2> HIDE DEF e, atEnd
  <2>3. BookMoves(R, P, d, G, atEnd, WithNext(atEnd, Spoilt(atEnd.next, e)))
    BY <1>4, <2>2, SpoiltOK DEF BookMoves
  <2>4. BookMoves(R, P, d, G, b, WithNext(atEnd, Spoilt(atEnd.next, e)))
    BY <1>4, <2>3, ThenBookMoves
  <2> QED
    BY <1>5, <2>4 DEF FindAndLoadNext, BookFail, WithExplorer, WithNext, e, atEnd
<1>6. CASE ~ends /\ images = {} /\ damaged = {}
  BY <1>4, <1>6 DEF FindAndLoadNext, BookFail, WithExplorer
<1> QED
  BY <1>2, <1>3, <1>5, <1>6

LEMMA FindAndLoadPreviousOK ==
    ASSUME NEW R, NEW P, NEW d, DiskOK(P, d), NEW G, SlotsClosed(d, G),
           NEW b, BookOK(R, P, d, G, b)
    PROVE  BookMoves(R, P, d, G, b, FindAndLoadPrevious(b, d).book)
<1> DEFINE S == StopsBefore(b.explorer, d)
           images == StopsHolding(d.images, S, b.explorer, d)
           damaged == StopsHolding(d.damaged, S, b.explorer, d)
           empty == StopsHolding(d.empty, S, b.explorer, d)
           atEnd == WithExplorer(b, AtFirstIndex(b.explorer))
           some == b.explorer.files # <<>>
           ends == \E e \in empty : \A i \in images : Before(i, e)
<1>1. ExplorerOK(R, P, d, b.explorer) /\ images \subseteq S /\ damaged \subseteq S
  BY DEF BookOK, StopsHolding
<1>2. CASE ~some
  BY <1>2, BookStays DEF FindAndLoadPrevious, BookFail
<1>3. CASE some /\ ends
  BY <1>3, CrashedOK DEF FindAndLoadPrevious
<1>4. CASE some /\ ~ends /\ images # {}
  <2>1. Farthest(images) \in images
    BY <1>1, <1>4, ChosenStops
  <2>2. Farthest(images) \in S /\ Holds(d.images, StopAt(b.explorer, d, Farthest(images)), d)
    BY <2>1 DEF StopsHolding
  <2>3. BookMoves(R, P, d, G, b,
                  LoadPrevious(WithExplorer(b, StopAt(b.explorer, d, Farthest(images))), d))
    BY <2>2, LoadAtStopOK
  <2> QED
    BY <1>4, <2>3 DEF FindAndLoadPrevious, BookOk, WithExplorer
<1>5. BookMoves(R, P, d, G, b, atEnd)
  <2>1. MovesWithin(R, P, d, b.explorer, [ok |-> TRUE, ex |-> AtFirstIndex(b.explorer)])
    BY <1>1, AtFirstIndexOK
  <2>2. /\ ExplorerOK(R, P, d, AtFirstIndex(b.explorer))
        /\ AtFirstIndex(b.explorer).root = b.explorer.root
        /\ AtFirstIndex(b.explorer).files = b.explorer.files
    BY <2>1 DEF MovesWithin
  <2> QED
    BY <2>2, ExplorerMovesOK
<1>6. CASE some /\ ~ends /\ images = {} /\ damaged # {}
  <2> DEFINE e == StopAt(b.explorer, d, Nearest(damaged))
  <2>1. Nearest(damaged) \in damaged
    BY <1>1, <1>6, ChosenStops
  <2>2. Holds(d.damaged, e, d)
    BY <2>1 DEF StopsHolding
  <2> HIDE DEF e, atEnd
  <2>3. BookMoves(R, P, d, G, atEnd, WithPrevious(atEnd, Spoilt(atEnd.previous, e)))
    BY <1>5, <2>2, SpoiltOK DEF BookMoves
  <2>4. BookMoves(R, P, d, G, b, WithPrevious(atEnd, Spoilt(atEnd.previous, e)))
    BY <1>5, <2>3, ThenBookMoves
  <2> QED
    BY <1>6, <2>4 DEF FindAndLoadPrevious, BookFail, WithExplorer, WithPrevious, e, atEnd
<1>7. CASE some /\ ~ends /\ images = {} /\ damaged = {}
  BY <1>5, <1>7 DEF FindAndLoadPrevious, BookFail, WithExplorer
<1> QED
  BY <1>2, <1>3, <1>4, <1>6, <1>7

-----------------------------------------------------------------------------
(* toFirstFile, toLastFile and the shifts                                  *)

LEMMA MovedOK ==
    ASSUME NEW R, NEW P, NEW d, NEW G, NEW b, BookOK(R, P, d, G, b),
           NEW r, MovesWithin(R, P, d, b.explorer, r)
    PROVE  /\ BookMoves(R, P, d, G, b, WithExplorer(b, r.ex))
           /\ BookOK(R, P, d, G, WithExplorer(b, r.ex))
           /\ WithExplorer(b, r.ex).explorer = r.ex
<1>1. /\ ExplorerOK(R, P, d, r.ex) /\ r.ex.root = b.explorer.root
      /\ r.ex.files = b.explorer.files
  BY DEF MovesWithin
<1>2. BookMoves(R, P, d, G, b, WithExplorer(b, r.ex))
  BY <1>1, ExplorerMovesOK
<1>3. WithExplorer(b, r.ex).explorer = r.ex
  BY SetExplorer DEF BookOK
<1> QED
  BY <1>2, <1>3 DEF BookMoves

LEMMA ToFirstOK ==
    ASSUME NEW R, NEW P, NEW d, DiskOK(P, d), NEW G, SlotsClosed(d, G),
           NEW b, BookOK(R, P, d, G, b)
    PROVE  BookMoves(R, P, d, G, b, ToFirst(b, d).book)
<1> DEFINE r == FirstFile(b.explorer, d)
           there == WithExplorer(b, r.ex)
           spoilt == WithCurrent(there, Spoilt(there.current, r.ex))
<1>1. /\ MovesWithin(R, P, d, b.explorer, r)
      /\ r.ok => AtPage(d, r.ex)
  BY FirstFileOK, EndsAtPage DEF BookOK
<1>2. /\ BookMoves(R, P, d, G, b, there)
      /\ BookOK(R, P, d, G, there)
      /\ there.explorer = r.ex
  <2> HIDE DEF r
  <2> QED
    BY <1>1, MovedOK
<1>3. ToFirst(b, d) =
        IF ~r.ok THEN BookFail(there)
        ELSE IF Holds(d.empty, r.ex, d) THEN Crashed(there)
        ELSE IF Holds(d.images, r.ex, d) THEN BookOk(LoadCurrent(there, d))
        ELSE IF Holds(d.damaged, r.ex, d) THEN FindAndLoadNext(spoilt, d)
        ELSE FindAndLoadNext(there, d)
  BY DEF ToFirst, WithExplorer, WithCurrent
<1> HIDE DEF r, there
<1>4. BookMoves(R, P, d, G, there, Crashed(there).book)
  BY <1>2, CrashedOK
<1>5. r.ok /\ Holds(d.images, r.ex, d) => BookMoves(R, P, d, G, there, LoadCurrent(there, d))
  BY <1>1, <1>2, LoadsOK
<1>6. BookMoves(R, P, d, G, there, FindAndLoadNext(there, d).book)
  BY <1>2, FindAndLoadNextOK
<1>7. Holds(d.damaged, r.ex, d) =>
         BookMoves(R, P, d, G, there, FindAndLoadNext(spoilt, d).book)
  <2> SUFFICES ASSUME Holds(d.damaged, r.ex, d)
               PROVE  BookMoves(R, P, d, G, there, FindAndLoadNext(spoilt, d).book)
    OBVIOUS
  <2>1. BookMoves(R, P, d, G, there, spoilt)
    BY <1>2, SpoiltOK
  <2> HIDE DEF spoilt
  <2>2. BookMoves(R, P, d, G, spoilt, FindAndLoadNext(spoilt, d).book)
    BY <2>1, FindAndLoadNextOK DEF BookMoves
  <2> QED
    BY <2>1, <2>2, ThenBookMoves
<1>8. BookMoves(R, P, d, G, there, there)
  BY <1>2, BookStays
<1> HIDE DEF spoilt
<1>9. BookMoves(R, P, d, G, there, ToFirst(b, d).book)
  BY <1>3, <1>4, <1>5, <1>6, <1>7, <1>8 DEF BookOk, BookFail
<1> QED
  BY <1>2, <1>9, ThenBookMoves

LEMMA ToLastOK ==
    ASSUME NEW R, NEW P, NEW d, DiskOK(P, d), NEW G, SlotsClosed(d, G),
           NEW b, BookOK(R, P, d, G, b)
    PROVE  BookMoves(R, P, d, G, b, ToLast(b, d).book)
<1> DEFINE r == LastFile(b.explorer, d)
           there == WithExplorer(b, r.ex)
           spoilt == WithPrevious(there, Spoilt(there.previous, r.ex))
<1>1. /\ MovesWithin(R, P, d, b.explorer, r)
      /\ r.ok => AtPage(d, r.ex)
  BY LastFileOK, EndsAtPage DEF BookOK
<1>2. /\ BookMoves(R, P, d, G, b, there)
      /\ BookOK(R, P, d, G, there)
      /\ there.explorer = r.ex
  <2> HIDE DEF r
  <2> QED
    BY <1>1, MovedOK
<1>3. ToLast(b, d) =
        IF ~r.ok THEN BookFail(there)
        ELSE IF Holds(d.empty, r.ex, d) THEN Crashed(there)
        ELSE IF Holds(d.images, r.ex, d) THEN BookOk(LoadPrevious(there, d))
        ELSE IF Holds(d.damaged, r.ex, d) THEN FindAndLoadPrevious(spoilt, d)
        ELSE FindAndLoadPrevious(there, d)
  BY DEF ToLast, WithExplorer, WithPrevious
<1> HIDE DEF r, there
<1>4. BookMoves(R, P, d, G, there, Crashed(there).book)
  BY <1>2, CrashedOK
<1>5. r.ok /\ Holds(d.images, r.ex, d) => BookMoves(R, P, d, G, there, LoadPrevious(there, d))
  BY <1>1, <1>2, LoadsOK
<1>6. BookMoves(R, P, d, G, there, FindAndLoadPrevious(there, d).book)
  BY <1>2, FindAndLoadPreviousOK
<1>7. Holds(d.damaged, r.ex, d) =>
         BookMoves(R, P, d, G, there, FindAndLoadPrevious(spoilt, d).book)
  <2> SUFFICES ASSUME Holds(d.damaged, r.ex, d)
               PROVE  BookMoves(R, P, d, G, there, FindAndLoadPrevious(spoilt, d).book)
    OBVIOUS
  <2>1. BookMoves(R, P, d, G, there, spoilt)
    BY <1>2, SpoiltOK
  <2> HIDE DEF spoilt
  <2>2. BookMoves(R, P, d, G, spoilt, FindAndLoadPrevious(spoilt, d).book)
    BY <2>1, FindAndLoadPreviousOK DEF BookMoves
  <2> QED
    BY <2>1, <2>2, ThenBookMoves
<1>8. BookMoves(R, P, d, G, there, there)
  BY <1>2, BookStays
<1> HIDE DEF spoilt
<1>9. BookMoves(R, P, d, G, there, ToLast(b, d).book)
  BY <1>3, <1>4, <1>5, <1>6, <1>7, <1>8 DEF BookOk, BookFail
<1> QED
  BY <1>2, <1>9, ThenBookMoves

LEMMA ShiftsOK ==
    ASSUME NEW R, NEW P, NEW d, NEW G, SlotsClosed(d, G), NEW b, BookOK(R, P, d, G, b)
    PROVE  /\ BookMoves(R, P, d, G, b, ShiftForward(b))
           /\ BookMoves(R, P, d, G, b, ShiftBackward(b))
<1>1. ShiftForward(b) = WithNext(WithCurrent(WithPrevious(b, b.current), b.next),
                                 ClearSlot(b.previous))
  BY DEF ShiftForward, WithPrevious, WithCurrent, WithNext, BookOK, BookShape
<1>2. ShiftBackward(b) = WithPrevious(WithCurrent(WithNext(b, b.current), b.previous),
                                      ClearSlot(b.next))
  BY DEF ShiftBackward, WithPrevious, WithCurrent, WithNext, BookOK, BookShape
<1>3. /\ SlotFits(d, G, b, b.previous) /\ SlotFits(d, G, b, b.current)
      /\ SlotFits(d, G, b, b.next)
      /\ SlotFits(d, G, b, ClearSlot(b.previous)) /\ SlotFits(d, G, b, ClearSlot(b.next))
  <2>1. ASSUME NEW slot, SlotFits(d, G, b, slot) PROVE SlotFits(d, G, b, ClearSlot(slot))
    <3>1. /\ SlotShape(ClearSlot(slot)) /\ ClearSlot(slot).bookmark = NoPathToFile
          /\ ClearSlot(slot).image = NoPathToFile
      BY <2>1, ClearedSlot DEF SlotFits, SlotShape
    <3>2. b.cached => ClearSlot(slot) \in G
      BY <2>1 DEF SlotsClosed, SlotFits
    <3> QED
      BY <3>1, <3>2 DEF SlotFits, Marks
  <2> QED
    BY <2>1 DEF BookOK, SlotsIn
<1> DEFINE f1 == WithPrevious(b, b.current)
           f2 == WithCurrent(f1, b.next)
           f3 == WithNext(f2, ClearSlot(b.previous))
           g1 == WithNext(b, b.current)
           g2 == WithCurrent(g1, b.previous)
           g3 == WithPrevious(g2, ClearSlot(b.next))
<1>4. BookMoves(R, P, d, G, b, f1) /\ BookMoves(R, P, d, G, b, g1)
  BY <1>3, SlotOK
<1> HIDE DEF f1, g1
<1>5. BookMoves(R, P, d, G, f1, f2) /\ BookMoves(R, P, d, G, g1, g2)
  <2>1. /\ BookOK(R, P, d, G, f1) /\ SlotFits(d, G, f1, b.next)
        /\ BookOK(R, P, d, G, g1) /\ SlotFits(d, G, g1, b.previous)
    BY <1>3, <1>4, MovedBookOK
  <2>2. BookMoves(R, P, d, G, f1, WithCurrent(f1, b.next))
    BY <2>1, SlotOK
  <2>3. BookMoves(R, P, d, G, g1, WithCurrent(g1, b.previous))
    BY <2>1, SlotOK
  <2> QED
    BY <2>2, <2>3
<1> HIDE DEF f2, g2
<1>6. BookMoves(R, P, d, G, f2, f3) /\ BookMoves(R, P, d, G, g2, g3)
  <2>1. /\ BookOK(R, P, d, G, f2) /\ SlotFits(d, G, f2, ClearSlot(b.previous))
        /\ BookOK(R, P, d, G, g2) /\ SlotFits(d, G, g2, ClearSlot(b.next))
    BY <1>3, <1>4, <1>5, MovedBookOK
  <2>2. BookMoves(R, P, d, G, f2, WithNext(f2, ClearSlot(b.previous)))
    BY <2>1, SlotOK
  <2>3. BookMoves(R, P, d, G, g2, WithPrevious(g2, ClearSlot(b.next)))
    BY <2>1, SlotOK
  <2> QED
    BY <2>2, <2>3
<1> HIDE DEF f3, g3
<1>7. BookMoves(R, P, d, G, b, f3) /\ BookMoves(R, P, d, G, b, g3)
  BY <1>4, <1>5, <1>6, ThenBookMoves
<1> QED
  BY <1>1, <1>2, <1>7 DEF f1, f2, f3, g1, g2, g3

-----------------------------------------------------------------------------
(* Turning and preloading                                                  *)

LEMMA EnterCurrentOK ==
    ASSUME NEW R, NEW P, NEW d, DiskOK(P, d), NEW G, NEW b, BookOK(R, P, d, G, b)
    PROVE  BookMoves(R, P, d, G, b, EnterCurrent(b, d).book)
<1> DEFINE r == EnterPath(b.explorer, d, b.current.bookmark)
<1>1. MovesWithin(R, P, d, b.explorer, r)
  BY EnterPathOK DEF BookOK
<1>2. EnterCurrent(b, d).book = WithExplorer(b, r.ex)
  BY DEF EnterCurrent, WithExplorer
<1> HIDE DEF r
<1> QED
  BY <1>1, <1>2, MovedOK

LEMMA LoadsAroundOK ==
    ASSUME NEW R, NEW P, NEW d, DiskOK(P, d), NEW G, SlotsClosed(d, G),
           NEW b, BookOK(R, P, d, G, b)
    PROVE  /\ BookMoves(R, P, d, G, b, LoadAhead(b, d).book)
           /\ BookMoves(R, P, d, G, b, LoadBehind(b, d).book)
<1> DEFINE r == EnterCurrent(b, d)
<1>1. BookMoves(R, P, d, G, b, r.book)
  BY EnterCurrentOK
<1> HIDE DEF r
<1>2. /\ BookMoves(R, P, d, G, r.book, FindAndLoadNext(r.book, d).book)
      /\ BookMoves(R, P, d, G, r.book, FindAndLoadPrevious(r.book, d).book)
  BY <1>1, FindAndLoadNextOK, FindAndLoadPreviousOK, MovedBookOK
<1>3. /\ BookMoves(R, P, d, G, b, FindAndLoadNext(r.book, d).book)
      /\ BookMoves(R, P, d, G, b, FindAndLoadPrevious(r.book, d).book)
  BY <1>1, <1>2, ThenBookMoves
<1> QED
  BY <1>1, <1>3 DEF LoadAhead, LoadBehind, r

LEMMA TurnsOK ==
    ASSUME NEW R, NEW P, NEW d, DiskOK(P, d), NEW G, SlotsClosed(d, G),
           NEW b, BookOK(R, P, d, G, b)
    PROVE  /\ BookMoves(R, P, d, G, b, Increment(b, d).book)
           /\ BookMoves(R, P, d, G, b, Decrement(b, d).book)
<1> DEFINE ahead == IF IsEmptySlot(b.next) THEN LoadAhead(b, d) ELSE BookOk(b)
           behind == IF IsEmptySlot(b.previous) THEN LoadBehind(b, d) ELSE BookOk(b)
<1>1. BookMoves(R, P, d, G, b, b)
  BY BookStays
<1>2. BookMoves(R, P, d, G, b, ahead.book) /\ BookMoves(R, P, d, G, b, behind.book)
  BY <1>1, LoadsAroundOK DEF BookOk
<1> HIDE DEF ahead, behind
<1>3. /\ BookMoves(R, P, d, G, ahead.book, ShiftForward(ahead.book))
      /\ BookMoves(R, P, d, G, behind.book, ShiftBackward(behind.book))
  BY <1>2, ShiftsOK DEF BookMoves
<1>4. /\ BookMoves(R, P, d, G, b, ShiftForward(ahead.book))
      /\ BookMoves(R, P, d, G, b, ShiftBackward(behind.book))
  BY <1>2, <1>3, ThenBookMoves
<1>5. /\ BookMoves(R, P, d, G, b, ToFirst(b, d).book)
      /\ BookMoves(R, P, d, G, b, ToLast(b, d).book)
  BY ToFirstOK, ToLastOK
<1>6. /\ Increment(b, d) = IF IsEmptySlot(b.current) THEN ToFirst(b, d)
                           ELSE IF ahead.ok THEN BookOk(ShiftForward(ahead.book)) ELSE ahead
      /\ Decrement(b, d) = IF IsEmptySlot(b.current) THEN ToLast(b, d)
                           ELSE IF behind.ok THEN BookOk(ShiftBackward(behind.book)) ELSE behind
  BY DEF Increment, Decrement, ahead, behind
<1> QED
  BY <1>2, <1>4, <1>5, <1>6 DEF BookOk

LEMMA PreloadAllOK ==
    ASSUME NEW R, NEW P, NEW d, DiskOK(P, d), NEW G, SlotsClosed(d, G),
           NEW b, BookOK(R, P, d, G, b)
    PROVE  BookMoves(R, P, d, G, b, PreloadAll(b, d))
<1> DEFINE b1 == IF IsEmptySlot(b.current) THEN ToFirst(b, d).book ELSE b
           b2 == IF IsEmptySlot(b1.previous) THEN LoadBehind(b1, d).book ELSE b1
           b3 == IF IsEmptySlot(b2.next) THEN LoadAhead(b2, d).book ELSE b2
<1>1. BookMoves(R, P, d, G, b, b1)
  BY ToFirstOK, BookStays
<1>2. PreloadAll(b, d) = IF IsEmptySlot(b1.current) THEN b1 ELSE b3
  BY DEF PreloadAll
<1> HIDE DEF b1
<1>3. BookMoves(R, P, d, G, b1, b2)
  BY <1>1, LoadsAroundOK, BookStays, MovedBookOK
<1> HIDE DEF b2
<1>4. BookMoves(R, P, d, G, b2, b3)
  BY <1>3, LoadsAroundOK, BookStays, MovedBookOK
<1> HIDE DEF b3
<1> QED
  BY <1>1, <1>2, <1>3, <1>4, ThenBookMoves

-----------------------------------------------------------------------------
(* What the slots hold after a page turn, where no file is damaged         *)

StandsAt(d, ex, s) == ex = ExplorerAt(d, ex.root, ex.files, s)

\* The image at a place is loaded where the walk stops.
LEMMA LoadsPlace ==
    ASSUME NEW R, NEW P, NEW d, NEW G, NEW b, NEW s, NEW there,
           DiskOK(P, d), BookOK(R, P, d, G, b), b.explorer.files # <<>>,
           s \in StopsAfter(b.explorer, d) \union StopsBefore(b.explorer, d),
           there = WithExplorer(b, StopAt(b.explorer, d, s))
    PROVE  /\ LoadNext(there, d).previous = b.previous
           /\ LoadNext(there, d).current = b.current
           /\ LoadNext(there, d).next.image = PosAt(d, b.explorer.files, s)
           /\ LoadPrevious(there, d).next = b.next
           /\ LoadPrevious(there, d).current = b.current
           /\ LoadPrevious(there, d).previous.image = PosAt(d, b.explorer.files, s)
<1> DEFINE ex == StopAt(b.explorer, d, s)
           files == b.explorer.files
           root == b.explorer.root
<1>1. BookShape(b) /\ ExplorerOK(R, P, d, b.explorer)
  BY DEF BookOK
<1>2. /\ ex = ExplorerAt(d, root, files, s)
      /\ s \in Nat \X Nat /\ s[1] \in 1..Len(files) /\ files[s[1]].isFile
      /\ s[2] = 0 => ~Recognized(d, files[s[1]])
      /\ s[2] # 0 => /\ files[s[1]] \in DOMAIN d.archives
                     /\ s[2] \in FileEntries(d.archives[files[s[1]]])
  BY <1>1, StopIsThere
<1> HIDE DEF ex, files, root
<1>3. GetCurrentPos(ex) = PosAt(d, files, s)
  <2>1. files # <<>>
    BY DEF files
  <2> QED
    BY <1>2, <2>1, HoldsThere
<1>4. /\ there.explorer = ex /\ there.previous = b.previous /\ there.current = b.current
      /\ there.next = b.next /\ BookShape(there)
  BY <1>1, SetExplorer DEF ex
<1> DEFINE n == Loaded(there, d, there.next)
           q == Loaded(there, d, there.previous)
<1>5. n.image = PosAt(d, files, s) /\ q.image = PosAt(d, files, s)
  BY <1>3, <1>4 DEF Loaded
<1>6. LoadNext(there, d) = WithNext(there, n) /\ LoadPrevious(there, d) = WithPrevious(there, q)
  BY DEF LoadNext, LoadPrevious, WithNext, WithPrevious
<1> HIDE DEF n, q
<1> QED
  BY <1>4, <1>5, <1>6, SetSlots DEF files

\* The book after it has entered the page of place s and looked for the next one.
LEMMA FindsNext ==
    ASSUME NEW R, NEW P, NEW d, NEW G, NEW b, NEW s, NEW r,
           DiskOK(P, d), BookOK(R, P, d, G, b), d.damaged = {},
           s \in Shown(d, b.explorer.files), StandsAt(d, b.explorer, s),
           r = FindAndLoadNext(b, d)
    PROVE  /\ r.book.previous = b.previous /\ r.book.current = b.current
           /\ r.ok => Adjoining(d, b.explorer.files, PosAt(d, b.explorer.files, s),
                                r.book.next.image)
           /\ ~r.ok => r.book.next = b.next
           /\ ~r.ok /\ ~r.book.crashed =>
                 \A u \in Shown(d, b.explorer.files) :
                    Before(s, u) => b.explorer.files[u[1]] \notin d.present
<1> DEFINE ex == b.explorer
           files == b.explorer.files
           S == StopsAfter(ex, d)
           images == StopsHolding(d.images, S, ex, d)
           damaged == StopsHolding(d.damaged, S, ex, d)
           empty == StopsHolding(d.empty, S, ex, d)
           atEnd == WithExplorer(b, AtLastIndex(ex))
           ends == \E e \in empty : \A i \in images : Before(e, i)
           n == Nearest(images)
           there == WithExplorer(b, StopAt(ex, d, n))
<1>1. /\ BookShape(b) /\ ExplorerOK(R, P, d, ex) /\ images \subseteq S
      /\ damaged = {}
      /\ s \in Places(d, files) /\ PosAt(d, files, s) \in d.images
  BY DEF BookOK, StopsHolding, Holds, Shown
<1>2. /\ files # <<>> /\ s[1] \in Nat /\ s[2] \in Nat
  BY <1>1, PlaceFields
<1>3. ASSUME NEW t
      PROVE  t \in images <=> t \in Shown(d, files) /\ Before(s, t) /\ Found(d, files, s, t)
  <2> DEFINE pages == d.images
  <2> HIDE DEF pages
  <2>1. t \in StopsHolding(pages, StopsAfter(ex, d), ex, d) <=>
           /\ t \in Places(d, ex.files) /\ PosAt(d, ex.files, t) \in pages
           /\ Before(s, t) /\ Found(d, ex.files, s, t)
    BY <1>1, HeldBeyond DEF StandsAt
  <2> QED
    BY <2>1 DEF Shown, pages
<1>4. CASE ends
  <2>1. r = Crashed(b)
    BY <1>4 DEF FindAndLoadNext
  <2>2. /\ ~r.ok /\ r.book = [b EXCEPT !.crashed = TRUE]
    BY <2>1 DEF Crashed, BookFail
  <2>3. /\ r.book.previous = b.previous /\ r.book.current = b.current /\ r.book.next = b.next
        /\ r.book.crashed = TRUE
    BY <1>1, <2>2 DEF BookShape
  <2> QED
    BY <2>2, <2>3
<1>5. CASE ~ends /\ images # {}
  <2>1. n \in images /\ IsNearest(images, n)
    BY <1>1, <1>5, ChosenStops
  <2>2. n \in S /\ n \in Shown(d, files) /\ Before(s, n)
    BY <1>1, <1>3, <2>1
  <2>3. r = BookOk(LoadNext(there, d))
    BY <1>5 DEF FindAndLoadNext, WithExplorer
  <2>4. ASSUME NEW u \in Shown(d, files), Before(s, u), Before(u, n), files[u[1]] \in d.present
        PROVE  FALSE
    <3>1. u \in images
      BY <1>3, <2>4 DEF Found
    <3>2. u = n \/ Before(n, u)
      BY <2>1, <3>1 DEF IsNearest
    <3>3. u[1] \in Nat /\ u[2] \in Nat /\ n[1] \in Nat /\ n[2] \in Nat
      BY <2>2, PlaceFields DEF Shown
    <3> QED
      BY <2>4, <3>2, <3>3 DEF Before
  <2> HIDE DEF n
  <2>5. /\ LoadNext(there, d).previous = b.previous
        /\ LoadNext(there, d).current = b.current
        /\ LoadNext(there, d).next.image = PosAt(d, files, n)
    <3>1. BookOK(R, P, d, G, b) /\ DiskOK(P, d) /\ b.explorer.files # <<>>
      BY <1>2
    <3>2. n \in StopsAfter(b.explorer, d)
      BY <2>2
    <3>3. there = WithExplorer(b, StopAt(b.explorer, d, n))
      OBVIOUS
    <3> HIDE DEF there
    <3> QED
      BY <3>1, <3>2, <3>3, LoadsPlace
  <2>6. Adjoining(d, files, PosAt(d, files, s), PosAt(d, files, n))
    BY <2>2, <2>4 DEF Adjoining, NoneBetween
  <2>7. r.ok /\ r.book = LoadNext(there, d)
    BY <2>3 DEF BookOk
  <2> QED
    BY <2>5, <2>6, <2>7
<1>6. CASE ~ends /\ images = {}
  <2>1. r = BookFail(atEnd)
    BY <1>1, <1>6 DEF FindAndLoadNext, WithExplorer
  <2>2. ~r.ok /\ r.book = atEnd
    BY <2>1 DEF BookFail
  <2>3. /\ r.book.previous = b.previous /\ r.book.current = b.current /\ r.book.next = b.next
    BY <1>1, <2>2, SetExplorer
  <2>4. ASSUME NEW u \in Shown(d, files), Before(s, u), files[u[1]] \in d.present PROVE FALSE
    BY <1>3, <1>6, <2>4 DEF Found
  <2> QED
    BY <2>2, <2>3, <2>4
<1> QED
  BY <1>4, <1>5, <1>6

\* The book after it has entered the page of place s and looked for the one before.
LEMMA FindsPrevious ==
    ASSUME NEW R, NEW P, NEW d, NEW G, NEW b, NEW s, NEW r,
           DiskOK(P, d), BookOK(R, P, d, G, b), d.damaged = {},
           s \in Shown(d, b.explorer.files), StandsAt(d, b.explorer, s),
           r = FindAndLoadPrevious(b, d)
    PROVE  /\ r.book.next = b.next /\ r.book.current = b.current
           /\ r.ok => Adjoining(d, b.explorer.files, r.book.previous.image,
                                PosAt(d, b.explorer.files, s))
           /\ ~r.ok => r.book.previous = b.previous
           /\ ~r.ok /\ ~r.book.crashed =>
                 \A u \in Shown(d, b.explorer.files) :
                    Before(u, s) => b.explorer.files[u[1]] \notin d.present
<1> DEFINE ex == b.explorer
           files == b.explorer.files
           S == StopsBefore(ex, d)
           images == StopsHolding(d.images, S, ex, d)
           damaged == StopsHolding(d.damaged, S, ex, d)
           empty == StopsHolding(d.empty, S, ex, d)
           atEnd == WithExplorer(b, AtFirstIndex(ex))
           ends == \E e \in empty : \A i \in images : Before(i, e)
           n == Farthest(images)
           there == WithExplorer(b, StopAt(ex, d, n))
<1>1. /\ BookShape(b) /\ ExplorerOK(R, P, d, ex) /\ images \subseteq S
      /\ damaged = {}
      /\ s \in Places(d, files) /\ PosAt(d, files, s) \in d.images
  BY DEF BookOK, StopsHolding, Holds, Shown
<1>2. /\ files # <<>> /\ s[1] \in Nat /\ s[2] \in Nat
  BY <1>1, PlaceFields
<1>3. ASSUME NEW t
      PROVE  t \in images <=> t \in Shown(d, files) /\ Before(t, s) /\ Found(d, files, s, t)
  <2> DEFINE pages == d.images
  <2> HIDE DEF pages
  <2>1. t \in StopsHolding(pages, StopsBefore(ex, d), ex, d) <=>
           /\ t \in Places(d, ex.files) /\ PosAt(d, ex.files, t) \in pages
           /\ Before(t, s) /\ Found(d, ex.files, s, t)
    BY <1>1, HeldBeyond DEF StandsAt
  <2> QED
    BY <2>1 DEF Shown, pages
<1>4. CASE ends
  <2>1. r = Crashed(b)
    BY <1>2, <1>4 DEF FindAndLoadPrevious
  <2>2. /\ ~r.ok /\ r.book = [b EXCEPT !.crashed = TRUE]
    BY <2>1 DEF Crashed, BookFail
  <2>3. /\ r.book.previous = b.previous /\ r.book.current = b.current /\ r.book.next = b.next
        /\ r.book.crashed = TRUE
    BY <1>1, <2>2 DEF BookShape
  <2> QED
    BY <2>2, <2>3
<1>5. CASE ~ends /\ images # {}
  <2>1. n \in images /\ IsFarthest(images, n)
    BY <1>1, <1>5, ChosenStops
  <2>2. n \in S /\ n \in Shown(d, files) /\ Before(n, s)
    BY <1>1, <1>3, <2>1
  <2>3. r = BookOk(LoadPrevious(there, d))
    BY <1>2, <1>5 DEF FindAndLoadPrevious, WithExplorer
  <2>4. ASSUME NEW u \in Shown(d, files), Before(n, u), Before(u, s), files[u[1]] \in d.present
        PROVE  FALSE
    <3>1. u \in images
      BY <1>3, <2>4 DEF Found
    <3>2. u = n \/ Before(u, n)
      BY <2>1, <3>1 DEF IsFarthest
    <3>3. u[1] \in Nat /\ u[2] \in Nat /\ n[1] \in Nat /\ n[2] \in Nat
      BY <2>2, PlaceFields DEF Shown
    <3> QED
      BY <2>4, <3>2, <3>3 DEF Before
  <2> HIDE DEF n
  <2>5. /\ LoadPrevious(there, d).next = b.next
        /\ LoadPrevious(there, d).current = b.current
        /\ LoadPrevious(there, d).previous.image = PosAt(d, files, n)
    <3>1. BookOK(R, P, d, G, b) /\ DiskOK(P, d) /\ b.explorer.files # <<>>
      BY <1>2
    <3>2. n \in StopsBefore(b.explorer, d)
      BY <2>2
    <3>3. there = WithExplorer(b, StopAt(b.explorer, d, n))
      OBVIOUS
    <3> HIDE DEF there
    <3> QED
      BY <3>1, <3>2, <3>3, LoadsPlace
  <2>6. Adjoining(d, files, PosAt(d, files, n), PosAt(d, files, s))
    BY <2>2, <2>4 DEF Adjoining, NoneBetween
  <2>7. r.ok /\ r.book = LoadPrevious(there, d)
    BY <2>3 DEF BookOk
  <2> QED
    BY <2>5, <2>6, <2>7
<1>6. CASE ~ends /\ images = {}
  <2>1. r = BookFail(atEnd)
    BY <1>1, <1>2, <1>6 DEF FindAndLoadPrevious, WithExplorer
  <2>2. ~r.ok /\ r.book = atEnd
    BY <2>1 DEF BookFail
  <2>3. /\ r.book.previous = b.previous /\ r.book.current = b.current /\ r.book.next = b.next
    BY <1>1, <2>2, SetExplorer
  <2>4. ASSUME NEW u \in Shown(d, files), Before(u, s), files[u[1]] \in d.present PROVE FALSE
    BY <1>3, <1>6, <2>4 DEF Found
  <2> QED
    BY <2>2, <2>3, <2>4
<1> QED
  BY <1>4, <1>5, <1>6

\* An open book, on a disk without damaged files, and one that has files.
OpenBook(R, N, d, G, b) ==
    /\ DiskOK(Path(N), d) /\ NamesAreUnique(d) /\ d.damaged = {} /\ NoPathToFile \notin d.images
    /\ BookOK(R, Path(N), d, G, b)
    /\ ~IsEmptyPath(b.explorer.root) /\ FilesAreLeaves(b.explorer.files)

ReadsPages(R, N, d, G, b) == OpenBook(R, N, d, G, b) /\ b.explorer.files # <<>>

\* No image after place s, or before it, is still there.
NoneAfter(d, files, s)  == \A u \in Shown(d, files) : Before(s, u) => files[u[1]] \notin d.present
NoneBefore(d, files, s) == \A u \in Shown(d, files) : Before(u, s) => files[u[1]] \notin d.present

\* Entering the page of the current image before looking around.
LEMMA EntersCurrent ==
    ASSUME NEW R, NEW N, NEW d, NEW G, NEW b, NEW s, NEW r,
           ReadsPages(R, N, d, G, b), s \in Shown(d, b.explorer.files),
           b.current.bookmark = PosAt(d, b.explorer.files, s), r = EnterCurrent(b, d)
    PROVE  /\ r.book.previous = b.previous /\ r.book.current = b.current /\ r.book.next = b.next
           /\ BookOK(R, Path(N), d, G, r.book) /\ r.book.explorer.files = b.explorer.files
           /\ r.ok => StandsAt(d, r.book.explorer, s)
           /\ b.explorer.files[s[1]] \in d.present => r.ok
<1> DEFINE ex == b.explorer
           files == ex.files
           P == Path(N)
           e == EnterPath(ex, d, PosAt(d, files, s))
           there == ExplorerAt(d, ex.root, files, s)
<1>1. /\ DiskOK(P, d) /\ NamesAreUnique(d) /\ BookOK(R, P, d, G, b) /\ BookShape(b)
      /\ ExplorerOK(R, P, d, ex) /\ ~IsEmptyPath(ex.root) /\ FilesAreLeaves(files)
      /\ s \in Places(d, files)
  BY DEF ReadsPages, OpenBook, BookOK, Shown
<1>2. (e.ok => e = Ok(there)) /\ (files[s[1]] \in d.present => e.ok)
  BY <1>1, EnterPlace
<1>3. r.ok = e.ok /\ r.book = WithExplorer(b, e.ex)
  BY DEF EnterCurrent, WithExplorer
<1>4. BookMoves(R, P, d, G, b, r.book)
  BY <1>1, EnterCurrentOK
<1> HIDE DEF e, P
<1>5. /\ r.book.previous = b.previous /\ r.book.current = b.current /\ r.book.next = b.next
      /\ r.book.explorer = e.ex
  BY <1>1, <1>3, SetExplorer
<1>6. ASSUME r.ok PROVE StandsAt(d, r.book.explorer, s)
  <2>1. r.book.explorer = there
    BY <1>2, <1>3, <1>5, <1>6 DEF Ok
  <2>2. there.root = ex.root /\ there.files = files
    BY DEF ExplorerAt
  <2> HIDE DEF there
  <2>3. there = ExplorerAt(d, there.root, there.files, s)
    BY <2>2 DEF there
  <2> QED
    BY <2>1, <2>3 DEF StandsAt
<1> QED
  BY <1>2, <1>3, <1>4, <1>5, <1>6 DEF BookMoves, P

\* What a look past the page at place s, and a look before it, answer and load.
LooksAfter(d, b, s, n) ==
    /\ n.book.previous = b.previous /\ n.book.current = b.current
    /\ n.ok => Adjoining(d, b.explorer.files, PosAt(d, b.explorer.files, s),
                         n.book.next.image)
    /\ ~n.ok => n.book.next = b.next
    /\ ~n.ok /\ ~n.book.crashed /\ b.explorer.files[s[1]] \in d.present =>
          NoneAfter(d, b.explorer.files, s)

LooksBefore(d, b, s, n) ==
    /\ n.book.next = b.next /\ n.book.current = b.current
    /\ n.ok => Adjoining(d, b.explorer.files, n.book.previous.image,
                         PosAt(d, b.explorer.files, s))
    /\ ~n.ok => n.book.previous = b.previous
    /\ ~n.ok /\ ~n.book.crashed /\ b.explorer.files[s[1]] \in d.present =>
          NoneBefore(d, b.explorer.files, s)

\* findAndLoadNext from the current page.
LEMMA LoadsAfterPage ==
    ASSUME NEW R, NEW N, NEW d, NEW G, NEW b, NEW s, NEW n,
           ReadsPages(R, N, d, G, b), s \in Shown(d, b.explorer.files),
           b.current.bookmark = PosAt(d, b.explorer.files, s), n = LoadAhead(b, d)
    PROVE  LooksAfter(d, b, s, n)
<1> DEFINE files == b.explorer.files
           P == Path(N)
           r == EnterCurrent(b, d)
           c == r.book
<1>1. /\ c.previous = b.previous /\ c.current = b.current /\ c.next = b.next
      /\ BookOK(R, P, d, G, c) /\ c.explorer.files = files
      /\ r.ok => StandsAt(d, c.explorer, s)
      /\ files[s[1]] \in d.present => r.ok
  BY EntersCurrent
<1>2. n = (IF r.ok THEN FindAndLoadNext(c, d) ELSE r)
  BY DEF LoadAhead
<1>3. DiskOK(P, d) /\ d.damaged = {} /\ s \in Shown(d, files)
  BY DEF ReadsPages, OpenBook
<1> HIDE DEF r, files, P
<1>4. CASE r.ok
  <2>1. n = FindAndLoadNext(c, d)
    BY <1>2, <1>4
  <2> HIDE DEF c
  <2> DEFINE list == c.explorer.files
  <2>2. s \in Shown(d, list) /\ list = files
    BY <1>1, <1>3
  <2>3. /\ n.book.previous = c.previous /\ n.book.current = c.current
        /\ n.ok => Adjoining(d, list, PosAt(d, list, s), n.book.next.image)
        /\ ~n.ok => n.book.next = c.next
        /\ ~n.ok /\ ~n.book.crashed =>
              \A u \in Shown(d, list) : Before(s, u) => list[u[1]] \notin d.present
    BY <1>1, <1>3, <1>4, <2>1, <2>2, FindsNext
  <2> HIDE DEF list
  <2> QED
    BY <1>1, <2>2, <2>3 DEF NoneAfter, files, LooksAfter
<1>5. CASE ~r.ok
  BY <1>1, <1>2, <1>5 DEF files, LooksAfter
<1> QED
  BY <1>4, <1>5

\* findAndLoadPrevious from the current page.
LEMMA LoadsBeforePage ==
    ASSUME NEW R, NEW N, NEW d, NEW G, NEW b, NEW s, NEW n,
           ReadsPages(R, N, d, G, b), s \in Shown(d, b.explorer.files),
           b.current.bookmark = PosAt(d, b.explorer.files, s), n = LoadBehind(b, d)
    PROVE  LooksBefore(d, b, s, n)
<1> DEFINE files == b.explorer.files
           P == Path(N)
           r == EnterCurrent(b, d)
           c == r.book
<1>1. /\ c.next = b.next /\ c.current = b.current /\ c.previous = b.previous
      /\ BookOK(R, P, d, G, c) /\ c.explorer.files = files
      /\ r.ok => StandsAt(d, c.explorer, s)
      /\ files[s[1]] \in d.present => r.ok
  BY EntersCurrent
<1>2. n = (IF r.ok THEN FindAndLoadPrevious(c, d) ELSE r)
  BY DEF LoadBehind
<1>3. DiskOK(P, d) /\ d.damaged = {} /\ s \in Shown(d, files)
  BY DEF ReadsPages, OpenBook
<1> HIDE DEF r, files, P
<1>4. CASE r.ok
  <2>1. n = FindAndLoadPrevious(c, d)
    BY <1>2, <1>4
  <2> HIDE DEF c
  <2> DEFINE list == c.explorer.files
  <2>2. s \in Shown(d, list) /\ list = files
    BY <1>1, <1>3
  <2>3. /\ n.book.next = c.next /\ n.book.current = c.current
        /\ n.ok => Adjoining(d, list, n.book.previous.image, PosAt(d, list, s))
        /\ ~n.ok => n.book.previous = c.previous
        /\ ~n.ok /\ ~n.book.crashed =>
              \A u \in Shown(d, list) : Before(u, s) => list[u[1]] \notin d.present
    BY <1>1, <1>3, <1>4, <2>1, <2>2, FindsPrevious
  <2> HIDE DEF list
  <2> QED
    BY <1>1, <2>2, <2>3 DEF NoneBefore, files, LooksBefore
<1>5. CASE ~r.ok
  BY <1>1, <1>2, <1>5 DEF files, LooksBefore
<1> QED
  BY <1>4, <1>5

-----------------------------------------------------------------------------
(***************************************************************************)
(* While a page is shown, previous_ and next_ hold its neighbours or       *)
(* nothing.                                                                *)
(***************************************************************************)
InOrder(d, b) ==
    ~IsEmptySlot(b.current) =>
        /\ ~IsEmptySlot(b.previous) =>
              Adjoining(d, b.explorer.files, b.previous.image, b.current.image)
        /\ ~IsEmptySlot(b.next) =>
              Adjoining(d, b.explorer.files, b.current.image, b.next.image)

\* A page that is shown is at a place, and its bookmark is its own.
LEMMA ShownIsPlaced ==
    ASSUME NEW R, NEW N, NEW d, NEW G, NEW b,
           ReadsPages(R, N, d, G, b), ~IsEmptySlot(b.current)
    PROVE  /\ b.current.bookmark = b.current.image
           /\ \E s \in Shown(d, b.explorer.files) :
                 b.current.image = PosAt(d, b.explorer.files, s)
<1>1. SlotFits(d, G, b, b.current) /\ d.damaged = {} /\ b.explorer.files # <<>>
  BY DEF ReadsPages, OpenBook, BookOK, SlotsIn
<1>2. /\ b.current.bookmark = b.current.image
      /\ b.current.image \in Marks(d, b.explorer.files)
      /\ b.current.image # NoPathToFile
  BY <1>1 DEF SlotFits, IsEmptySlot
<1> QED
  BY <1>2 DEF Marks, Shown

\* Pages that adjoin are images.
LEMMA AdjoiningShown ==
    ASSUME NEW d, NEW files, NEW p, NEW q, Adjoining(d, files, p, q)
    PROVE  p \in d.images /\ q \in d.images
BY DEF Adjoining, Shown

\* What incrementPosition does to the slots while the page at place s is shown.
TurnedForward(d, b, s, r) ==
    /\ r.ok => /\ IsEmptySlot(r.book.next) /\ r.book.previous = b.current
               /\ Adjoining(d, b.explorer.files, b.current.image, r.book.current.image)
    /\ ~r.ok => /\ r.book.previous = b.previous /\ r.book.current = b.current
                /\ r.book.next = b.next
    /\ ~r.ok /\ ~r.book.crashed /\ b.explorer.files[s[1]] \in d.present =>
          NoneAfter(d, b.explorer.files, s)

\* incrementPosition while a page is shown.
LEMMA TurnsForward ==
    ASSUME NEW R, NEW N, NEW d, NEW G, NEW b, NEW s, NEW r,
           SlotsClosed(d, G), ReadsPages(R, N, d, G, b), InOrder(d, b), ~IsEmptySlot(b.current),
           s \in Shown(d, b.explorer.files), b.current.image = PosAt(d, b.explorer.files, s),
           r = Increment(b, d)
    PROVE  TurnedForward(d, b, s, r)
<1> DEFINE files == b.explorer.files
           P == Path(N)
           loads == LoadAhead(b, d)
           ahead == IF IsEmptySlot(b.next) THEN loads ELSE BookOk(b)
           c == ahead.book
           page == b.current.image
<1>1. b.current.bookmark = PosAt(d, files, s) /\ page = PosAt(d, files, s)
  BY ShownIsPlaced
<1>2. BookOK(R, P, d, G, b) /\ DiskOK(P, d)
  BY DEF ReadsPages, OpenBook
<1>3. BookShape(c) /\ SlotShape(c.previous)
  <2>1. BookMoves(R, P, d, G, b, loads.book)
    BY <1>2, LoadsAroundOK
  <2> HIDE DEF loads
  <2> QED
    BY <1>2, <2>1 DEF BookOk, BookOK, BookMoves, SlotsIn, SlotFits
<1>4. r = (IF ahead.ok THEN BookOk(ShiftForward(c)) ELSE ahead)
  BY DEF Increment
<1>5. /\ c.previous = b.previous /\ c.current = b.current
      /\ ahead.ok => Adjoining(d, files, page, c.next.image)
      /\ ~ahead.ok => c.next = b.next
      /\ ~ahead.ok /\ ~c.crashed /\ files[s[1]] \in d.present => NoneAfter(d, files, s)
  <2>1. CASE IsEmptySlot(b.next)
    <3>1. /\ loads.book.previous = b.previous /\ loads.book.current = b.current
          /\ loads.ok => Adjoining(d, files, page, loads.book.next.image)
          /\ ~loads.ok => loads.book.next = b.next
          /\ ~loads.ok /\ ~loads.book.crashed /\ files[s[1]] \in d.present =>
                NoneAfter(d, files, s)
      <4>1. loads = LoadAhead(b, d)
        OBVIOUS
      <4> HIDE DEF loads
      <4>2. b.current.bookmark = PosAt(d, b.explorer.files, s)
        BY <1>1
      <4>3. LooksAfter(d, b, s, loads)
        BY <4>1, <4>2, LoadsAfterPage
      <4> QED
        BY <1>1, <4>3 DEF LooksAfter
    <3> HIDE DEF loads
    <3> QED
      BY <2>1, <3>1
  <2>2. CASE ~IsEmptySlot(b.next)
    <3>1. ahead.ok /\ c = b
      BY <2>2 DEF BookOk
    <3>2. Adjoining(d, files, page, b.next.image)
      BY <2>2 DEF InOrder
    <3> QED
      BY <3>1, <3>2
  <2> QED
    BY <2>1, <2>2
<1> HIDE DEF c
<1> DEFINE c1 == WithPrevious(c, c.current)
           c2 == WithCurrent(c1, c.next)
           c3 == WithNext(c2, ClearSlot(c.previous))
<1>6. ShiftForward(c) = c3
  BY <1>3 DEF ShiftForward, WithPrevious, WithCurrent, WithNext, BookShape
<1>7. /\ BookShape(c1) /\ c1.previous = c.current
      /\ BookShape(c2) /\ c2.previous = c.current /\ c2.current = c.next
  BY <1>3, SetSlots DEF BookShape
<1> HIDE DEF c1, c2
<1>8. /\ c3.previous = c.current /\ c3.current = c.next /\ c3.next = ClearSlot(c.previous)
  BY <1>7, SetSlots
<1>9. IsEmptySlot(ClearSlot(c.previous))
  BY <1>3, ClearedSlot DEF IsEmptySlot
<1> HIDE DEF c3, ahead
<1>10. CASE ahead.ok
  <2>1. r.ok /\ r.book = c3
    BY <1>4, <1>6, <1>10 DEF BookOk
  <2> QED
    BY <1>5, <1>8, <1>9, <1>10, <2>1 DEF TurnedForward
<1>11. CASE ~ahead.ok
  BY <1>4, <1>5, <1>11 DEF c, TurnedForward
<1> QED
  BY <1>10, <1>11

\* What decrementPosition does to the slots while the page at place s is shown.
TurnedBackward(d, b, s, r) ==
    /\ r.ok => /\ IsEmptySlot(r.book.previous) /\ r.book.next = b.current
               /\ Adjoining(d, b.explorer.files, r.book.current.image, b.current.image)
    /\ ~r.ok => /\ r.book.next = b.next /\ r.book.current = b.current
                /\ r.book.previous = b.previous
    /\ ~r.ok /\ ~r.book.crashed /\ b.explorer.files[s[1]] \in d.present =>
          NoneBefore(d, b.explorer.files, s)

\* decrementPosition while a page is shown.
LEMMA TurnsBackward ==
    ASSUME NEW R, NEW N, NEW d, NEW G, NEW b, NEW s, NEW r,
           SlotsClosed(d, G), ReadsPages(R, N, d, G, b), InOrder(d, b), ~IsEmptySlot(b.current),
           s \in Shown(d, b.explorer.files), b.current.image = PosAt(d, b.explorer.files, s),
           r = Decrement(b, d)
    PROVE  TurnedBackward(d, b, s, r)
<1> DEFINE files == b.explorer.files
           P == Path(N)
           loads == LoadBehind(b, d)
           behind == IF IsEmptySlot(b.previous) THEN loads ELSE BookOk(b)
           c == behind.book
           page == b.current.image
<1>1. b.current.bookmark = PosAt(d, files, s) /\ page = PosAt(d, files, s)
  BY ShownIsPlaced
<1>2. BookOK(R, P, d, G, b) /\ DiskOK(P, d)
  BY DEF ReadsPages, OpenBook
<1>3. BookShape(c) /\ SlotShape(c.next)
  <2>1. BookMoves(R, P, d, G, b, loads.book)
    BY <1>2, LoadsAroundOK
  <2> HIDE DEF loads
  <2> QED
    BY <1>2, <2>1 DEF BookOk, BookOK, BookMoves, SlotsIn, SlotFits
<1>4. r = (IF behind.ok THEN BookOk(ShiftBackward(c)) ELSE behind)
  BY DEF Decrement
<1>5. /\ c.next = b.next /\ c.current = b.current
      /\ behind.ok => Adjoining(d, files, c.previous.image, page)
      /\ ~behind.ok => c.previous = b.previous
      /\ ~behind.ok /\ ~c.crashed /\ files[s[1]] \in d.present => NoneBefore(d, files, s)
  <2>1. CASE IsEmptySlot(b.previous)
    <3>1. /\ loads.book.next = b.next /\ loads.book.current = b.current
          /\ loads.ok => Adjoining(d, files, loads.book.previous.image, page)
          /\ ~loads.ok => loads.book.previous = b.previous
          /\ ~loads.ok /\ ~loads.book.crashed /\ files[s[1]] \in d.present =>
                NoneBefore(d, files, s)
      <4>1. loads = LoadBehind(b, d)
        OBVIOUS
      <4> HIDE DEF loads
      <4>2. b.current.bookmark = PosAt(d, b.explorer.files, s)
        BY <1>1
      <4>3. LooksBefore(d, b, s, loads)
        BY <4>1, <4>2, LoadsBeforePage
      <4> QED
        BY <1>1, <4>3 DEF LooksBefore
    <3> HIDE DEF loads
    <3> QED
      BY <2>1, <3>1
  <2>2. CASE ~IsEmptySlot(b.previous)
    <3>1. behind.ok /\ c = b
      BY <2>2 DEF BookOk
    <3>2. Adjoining(d, files, b.previous.image, page)
      BY <2>2 DEF InOrder
    <3> QED
      BY <3>1, <3>2
  <2> QED
    BY <2>1, <2>2
<1> HIDE DEF c
<1> DEFINE c1 == WithNext(c, c.current)
           c2 == WithCurrent(c1, c.previous)
           c3 == WithPrevious(c2, ClearSlot(c.next))
<1>6. ShiftBackward(c) = c3
  BY <1>3 DEF ShiftBackward, WithNext, WithCurrent, WithPrevious, BookShape
<1>7. /\ BookShape(c1) /\ c1.next = c.current
      /\ BookShape(c2) /\ c2.next = c.current /\ c2.current = c.previous
  BY <1>3, SetSlots DEF BookShape
<1> HIDE DEF c1, c2
<1>8. /\ c3.next = c.current /\ c3.current = c.previous /\ c3.previous = ClearSlot(c.next)
  BY <1>7, SetSlots
<1>9. IsEmptySlot(ClearSlot(c.next))
  BY <1>3, ClearedSlot DEF IsEmptySlot
<1> HIDE DEF c3, behind
<1>10. CASE behind.ok
  <2>1. r.ok /\ r.book = c3
    BY <1>4, <1>6, <1>10 DEF BookOk
  <2> QED
    BY <1>5, <1>8, <1>9, <1>10, <2>1 DEF TurnedBackward
<1>11. CASE ~behind.ok
  BY <1>4, <1>5, <1>11 DEF c, TurnedBackward
<1> QED
  BY <1>10, <1>11

\* Whatever findAndLoadNext finds, it leaves previous_ and current_ alone, and
\* findAndLoadPrevious next_ and current_.
LEMMA LoadsOneSlot ==
    ASSUME NEW d, d.damaged = {}, NEW b, BookShape(b)
    PROVE  /\ FindAndLoadNext(b, d).book.previous = b.previous
           /\ FindAndLoadNext(b, d).book.current = b.current
           /\ FindAndLoadPrevious(b, d).book.next = b.next
           /\ FindAndLoadPrevious(b, d).book.current = b.current
<1> DEFINE ex == b.explorer
           crashed == Crashed(b).book
<1>1. /\ crashed.previous = b.previous /\ crashed.current = b.current /\ crashed.next = b.next
  BY DEF Crashed, BookFail, BookShape
<1>2. ASSUME NEW e
      PROVE  LET there == WithExplorer(b, e)
             IN  /\ there.previous = b.previous /\ there.current = b.current
                 /\ there.next = b.next
                 /\ LoadNext(there, d).previous = b.previous
                 /\ LoadNext(there, d).current = b.current
                 /\ LoadPrevious(there, d).next = b.next
                 /\ LoadPrevious(there, d).current = b.current
  <2> DEFINE there == WithExplorer(b, e)
             n == Loaded(there, d, there.next)
             q == Loaded(there, d, there.previous)
  <2>1. /\ there.previous = b.previous /\ there.current = b.current
        /\ there.next = b.next /\ BookShape(there)
    BY SetExplorer
  <2>2. LoadNext(there, d) = WithNext(there, n) /\ LoadPrevious(there, d) = WithPrevious(there, q)
    BY DEF LoadNext, LoadPrevious, WithNext, WithPrevious
  <2> HIDE DEF there, n, q
  <2>3. /\ LoadNext(there, d).previous = b.previous
        /\ LoadNext(there, d).current = b.current
        /\ LoadPrevious(there, d).next = b.next
        /\ LoadPrevious(there, d).current = b.current
    BY <2>1, <2>2, SetSlots
  <2> QED
    BY <2>1, <2>3 DEF there
<1>3. /\ FindAndLoadNext(b, d).book.previous = b.previous
      /\ FindAndLoadNext(b, d).book.current = b.current
  <2> DEFINE S == StopsAfter(ex, d)
             images == StopsHolding(d.images, S, ex, d)
             empty == StopsHolding(d.empty, S, ex, d)
             ends == \E e \in empty : \A i \in images : Before(e, i)
             found == StopAt(ex, d, Nearest(images))
             last == AtLastIndex(ex)
             r == FindAndLoadNext(b, d)
  <2>1. StopsHolding(d.damaged, S, ex, d) = {}
    BY DEF StopsHolding, Holds
  <2>2. r = IF ends THEN Crashed(b)
            ELSE IF images # {} THEN BookOk(LoadNext(WithExplorer(b, found), d))
            ELSE BookFail(WithExplorer(b, last))
    BY <2>1 DEF FindAndLoadNext, WithExplorer
  <2> HIDE DEF ends, images, found, last, r
  <2>3. \/ r.book = crashed
        \/ r.book = LoadNext(WithExplorer(b, found), d)
        \/ r.book = WithExplorer(b, last)
    BY <2>2 DEF BookOk, BookFail
  <2> QED
    BY <1>1, <1>2, <2>3 DEF r
<1>4. /\ FindAndLoadPrevious(b, d).book.next = b.next
      /\ FindAndLoadPrevious(b, d).book.current = b.current
  <2> DEFINE S == StopsBefore(ex, d)
             images == StopsHolding(d.images, S, ex, d)
             empty == StopsHolding(d.empty, S, ex, d)
             ends == \E e \in empty : \A i \in images : Before(i, e)
             found == StopAt(ex, d, Farthest(images))
             first == AtFirstIndex(ex)
             r == FindAndLoadPrevious(b, d)
  <2>1. StopsHolding(d.damaged, S, ex, d) = {}
    BY DEF StopsHolding, Holds
  <2>2. r = IF ex.files = <<>> THEN BookFail(b)
            ELSE IF ends THEN Crashed(b)
            ELSE IF images # {} THEN BookOk(LoadPrevious(WithExplorer(b, found), d))
            ELSE BookFail(WithExplorer(b, first))
    BY <2>1 DEF FindAndLoadPrevious, WithExplorer
  <2> HIDE DEF ends, images, found, first, r
  <2>3. \/ r.book = b
        \/ r.book = crashed
        \/ r.book = LoadPrevious(WithExplorer(b, found), d)
        \/ r.book = WithExplorer(b, first)
    BY <2>2 DEF BookOk, BookFail
  <2> QED
    BY <1>1, <1>2, <2>3 DEF r
<1> QED
  BY <1>3, <1>4

\* toFirstFile: only an image that is the first file becomes the current page.
LEMMA FirstLoads ==
    ASSUME NEW R, NEW P, NEW d, NEW G, NEW b, NEW r,
           DiskOK(P, d), BookOK(R, P, d, G, b), d.damaged = {}, r = ToFirst(b, d)
    PROVE  /\ r.book.previous = b.previous
           /\ \/ r.book.current = b.current
              \/ /\ r.ok /\ FirstShows(d, b.explorer.files)
                 /\ r.book.next = b.next /\ r.book.current.image \in d.images
           /\ /\ \A i \in 1..Len(b.explorer.files) :
                    b.explorer.files[i].isFile => b.explorer.files[i] \in d.present
              /\ d.images \intersect d.empty = {}
              /\ FirstShows(d, b.explorer.files)
              => r.ok /\ r.book.current.image \in d.images
<1> DEFINE f == FirstFile(b.explorer, d)
           there == WithExplorer(b, f.ex)
           all == \A i \in 1..Len(b.explorer.files) :
                     b.explorer.files[i].isFile => b.explorer.files[i] \in d.present
           apart == d.images \intersect d.empty = {}
           shows == FirstShows(d, b.explorer.files)
           loads == Holds(d.images, f.ex, d)
           ends == Holds(d.empty, f.ex, d)
           page == Loaded(there, d, there.current)
<1>1. BookShape(b) /\ ExplorerOK(R, P, d, b.explorer)
  BY DEF BookOK
<1>2. f.ok /\ loads => shows
  BY <1>1, FirstIsShown
<1>3. all /\ apart /\ shows => f.ok /\ loads /\ ~ends
  BY <1>1, FirstIsShown
<1>4. ~Holds(d.damaged, f.ex, d)
  BY DEF Holds
<1>5. r = IF ~f.ok THEN BookFail(there)
          ELSE IF ends THEN Crashed(there)
          ELSE IF loads THEN BookOk(WithCurrent(there, page))
          ELSE FindAndLoadNext(there, d)
  BY <1>4 DEF ToFirst, WithExplorer, WithCurrent, LoadCurrent
<1>6. loads => page.image \in d.images
  <2>1. there.explorer = f.ex
    BY <1>1, SetExplorer
  <2> HIDE DEF there
  <2> QED
    BY <2>1 DEF Holds, Loaded
<1>7. /\ there.previous = b.previous /\ there.current = b.current
      /\ there.next = b.next /\ BookShape(there)
  BY <1>1, SetExplorer
<1> HIDE DEF there, page, loads, ends, f, all, apart, shows
<1>8. LET c == Crashed(there).book IN c.previous = b.previous /\ c.current = b.current
  BY <1>7 DEF Crashed, BookFail, BookShape
<1>9. LET c == WithCurrent(there, page)
      IN  c.previous = b.previous /\ c.current = page /\ c.next = b.next
  BY <1>7, SetSlots
<1>10. LET c == FindAndLoadNext(there, d).book
       IN  c.previous = b.previous /\ c.current = b.current
  BY <1>7, LoadsOneSlot
<1>11. CASE f.ok /\ ~ends /\ loads
  <2>1. r.ok /\ r.book = WithCurrent(there, page)
    BY <1>5, <1>11 DEF BookOk
  <2> QED
    BY <1>2, <1>6, <1>9, <1>11, <2>1 DEF shows
<1>12. CASE ~(f.ok /\ ~ends /\ loads)
  <2>1. r.book \in {there, Crashed(there).book, FindAndLoadNext(there, d).book}
    BY <1>5, <1>12 DEF BookFail
  <2> QED
    BY <1>3, <1>7, <1>8, <1>10, <1>12, <2>1 DEF all, apart, shows
<1> QED
  BY <1>11, <1>12

\* toLastFile leaves current_ and next_ alone.
LEMMA LastLoads ==
    ASSUME NEW d, NEW b, BookShape(b), d.damaged = {}
    PROVE  /\ ToLast(b, d).book.current = b.current
           /\ ToLast(b, d).book.next = b.next
<1> DEFINE f == LastFile(b.explorer, d)
           there == WithExplorer(b, f.ex)
           page == Loaded(there, d, there.previous)
           r == ToLast(b, d)
<1>1. ~Holds(d.damaged, f.ex, d)
  BY DEF Holds
<1>2. r = IF ~f.ok THEN BookFail(there)
          ELSE IF Holds(d.empty, f.ex, d) THEN Crashed(there)
          ELSE IF Holds(d.images, f.ex, d) THEN BookOk(WithPrevious(there, page))
          ELSE FindAndLoadPrevious(there, d)
  BY <1>1 DEF ToLast, WithExplorer, WithPrevious, LoadPrevious
<1>3. there.current = b.current /\ there.next = b.next /\ BookShape(there)
  BY SetExplorer
<1> HIDE DEF there, page, f, r
<1>4. LET c == Crashed(there).book IN c.current = b.current /\ c.next = b.next
  BY <1>3 DEF Crashed, BookFail, BookShape
<1>5. LET c == WithPrevious(there, page) IN c.current = b.current /\ c.next = b.next
  BY <1>3, SetSlots
<1>6. LET c == FindAndLoadPrevious(there, d).book
      IN  c.current = b.current /\ c.next = b.next
  BY <1>3, LoadsOneSlot
<1>7. r.book \in {there, Crashed(there).book, WithPrevious(there, page),
                  FindAndLoadPrevious(there, d).book}
  BY <1>2 DEF BookFail, BookOk
<1> QED
  BY <1>3, <1>4, <1>5, <1>6, <1>7 DEF r

\* A turned page keeps the order of the slots.
LEMMA TurnsInOrder ==
    ASSUME NEW R, NEW N, NEW d, NEW G, NEW b, NEW c,
           SlotsClosed(d, G), ReadsPages(R, N, d, G, b), InOrder(d, b), ~IsEmptySlot(b.current),
           c \in {Increment(b, d).book, Decrement(b, d).book}
    PROVE  ReadsPages(R, N, d, G, c) /\ InOrder(d, c)
<1> DEFINE f == Increment(b, d)
           g == Decrement(b, d)
           files == b.explorer.files
<1>1. DiskOK(Path(N), d) /\ BookOK(R, Path(N), d, G, b)
  BY DEF ReadsPages, OpenBook
<1>2. /\ BookMoves(R, Path(N), d, G, b, f.book)
      /\ BookMoves(R, Path(N), d, G, b, g.book)
  BY <1>1, TurnsOK
<1>3. ReadsPages(R, N, d, G, c) /\ c.explorer.files = files
  BY <1>2 DEF ReadsPages, OpenBook, BookMoves
<1>4. PICK s \in Shown(d, files) : b.current.image = PosAt(d, files, s)
  BY ShownIsPlaced
<1>5. TurnedForward(d, b, s, f)
  BY <1>4, TurnsForward
<1>6. TurnedBackward(d, b, s, g)
  BY <1>4, TurnsBackward
<1> HIDE DEF f, g
<1>7. f.book.explorer.files = files /\ g.book.explorer.files = files
  BY <1>2 DEF BookMoves
<1>8. InOrder(d, f.book)
  BY <1>5, <1>7 DEF InOrder, TurnedForward
<1>9. InOrder(d, g.book)
  BY <1>6, <1>7 DEF InOrder, TurnedBackward
<1> QED
  BY <1>3, <1>8, <1>9 DEF f, g

\* preload fills in the neighbours of a page, and shows no other page.
LEMMA PreloadsInOrder ==
    ASSUME NEW R, NEW N, NEW d, NEW G, NEW b, NEW c,
           SlotsClosed(d, G), ReadsPages(R, N, d, G, b), InOrder(d, b), ~IsEmptySlot(b.current),
           c = PreloadAll(b, d)
    PROVE  c.current = b.current /\ InOrder(d, c)
<1> DEFINE files == b.explorer.files
           p == LoadBehind(b, d)
           b2 == IF IsEmptySlot(b.previous) THEN p.book ELSE b
           n == LoadAhead(b2, d)
           b3 == IF IsEmptySlot(b2.next) THEN n.book ELSE b2
<1>1. DiskOK(Path(N), d) /\ BookOK(R, Path(N), d, G, b)
  BY DEF ReadsPages, OpenBook
<1>2. PICK s \in Shown(d, files) : b.current.image = PosAt(d, files, s)
  BY ShownIsPlaced
<1>3. b.current.bookmark = PosAt(d, files, s)
  BY <1>2, ShownIsPlaced
<1>4. LooksBefore(d, b, s, p)
  BY <1>3, LoadsBeforePage
<1>5. BookMoves(R, Path(N), d, G, b, p.book)
  BY <1>1, LoadsAroundOK
<1>6. c = b3
  BY DEF PreloadAll
<1> HIDE DEF p
<1>7. /\ ReadsPages(R, N, d, G, b2) /\ b2.explorer.files = files
      /\ b2.current = b.current /\ b2.next = b.next
  BY <1>4, <1>5 DEF ReadsPages, OpenBook, BookMoves, LooksBefore
<1>8. ~IsEmptySlot(b2.previous) => Adjoining(d, files, b2.previous.image, b.current.image)
  BY <1>2, <1>4 DEF LooksBefore, InOrder
<1> HIDE DEF b2
<1>9. s \in Shown(d, b2.explorer.files) /\ b2.current.bookmark = PosAt(d, b2.explorer.files, s)
  BY <1>3, <1>7
<1>10. LooksAfter(d, b2, s, n)
  BY <1>7, <1>9, LoadsAfterPage
<1>11. n.book.explorer.files = files
  <2>1. BookMoves(R, Path(N), d, G, b2, n.book)
    BY <1>1, <1>7, LoadsAroundOK DEF ReadsPages, OpenBook
  <2> QED
    BY <1>7, <2>1 DEF BookMoves
<1> HIDE DEF n
<1>12. /\ b3.explorer.files = files /\ b3.current = b.current /\ b3.previous = b2.previous
       /\ ~IsEmptySlot(b3.next) => Adjoining(d, files, b.current.image, b3.next.image)
  BY <1>2, <1>7, <1>10, <1>11 DEF LooksAfter, InOrder
<1> HIDE DEF b3
<1> QED
  BY <1>6, <1>8, <1>12 DEF InOrder

-----------------------------------------------------------------------------
(***************************************************************************)
(* The pages of an open book.  Nothing but an image that is the first file *)
(* of the book ever becomes the current page without a page before it, and *)
(* such a first image is loaded as the book is opened.                     *)
(***************************************************************************)
PagesHeld(d, b) == /\ b.explorer.files = <<>> => IsEmptySlot(b.current)
                   /\ IsEmptySlot(b.current) => ~FirstShows(d, b.explorer.files)
                   /\ InOrder(d, b)

\* A turned page adjoins the page that was shown.
TurnedPage(d, b, c) == \/ c.current = b.current
                       \/ /\ ~IsEmptySlot(b.current) /\ ~IsEmptySlot(c.current)
                          /\ \/ Adjoining(d, b.explorer.files, b.current.image, c.current.image)
                             \/ Adjoining(d, b.explorer.files, c.current.image, b.current.image)

\* incrementPosition and decrementPosition, whether a page is shown or not.
LEMMA TurnsFit ==
    ASSUME NEW R, NEW N, NEW d, NEW G, NEW b, NEW r,
           SlotsClosed(d, G), OpenBook(R, N, d, G, b), PagesHeld(d, b),
           r \in {Increment(b, d), Decrement(b, d)}
    PROVE  /\ PagesHeld(d, r.book) /\ TurnedPage(d, b, r.book)
           /\ ~r.ok => r.book.current = b.current
<1> DEFINE files == b.explorer.files
           c == r.book
           f == Increment(b, d)
           g == Decrement(b, d)
<1>1. DiskOK(Path(N), d) /\ BookOK(R, Path(N), d, G, b) /\ BookShape(b) /\ d.damaged = {}
      /\ NoPathToFile \notin d.images
  BY DEF OpenBook, BookOK
<1>2. c.explorer.files = files
  <2>1. BookMoves(R, Path(N), d, G, b, f.book) /\ BookMoves(R, Path(N), d, G, b, g.book)
    BY <1>1, TurnsOK
  <2>2. r \in {f, g}
    OBVIOUS
  <2> HIDE DEF f, g
  <2> QED
    BY <2>1, <2>2 DEF BookMoves
<1>3. CASE IsEmptySlot(b.current)
  <2>1. f = ToFirst(b, d) /\ g = ToLast(b, d)
    BY <1>3 DEF Increment, Decrement
  <2>2. ToFirst(b, d).book.current = b.current
    BY <1>1, <1>3, FirstLoads DEF PagesHeld
  <2>3. ToLast(b, d).book.current = b.current
    BY <1>1, LastLoads
  <2>4. c.current = b.current
    BY <2>1, <2>2, <2>3
  <2> QED
    BY <1>2, <1>3, <2>4 DEF PagesHeld, InOrder, TurnedPage
<1>4. CASE ~IsEmptySlot(b.current)
  <2>1. ReadsPages(R, N, d, G, b) /\ InOrder(d, b)
    BY <1>4 DEF PagesHeld, ReadsPages
  <2>2. InOrder(d, c)
    BY <1>4, <2>1, TurnsInOrder
  <2>3. PICK s \in Shown(d, files) : b.current.image = PosAt(d, files, s)
    BY <1>4, <2>1, ShownIsPlaced
  <2>4. TurnedForward(d, b, s, f) /\ TurnedBackward(d, b, s, g)
    BY <1>4, <2>1, <2>3, TurnsForward, TurnsBackward
  <2>5. r \in {f, g}
    OBVIOUS
  <2> HIDE DEF f, g
  <2>6. /\ \/ c.current = b.current
           \/ Adjoining(d, files, b.current.image, c.current.image)
           \/ Adjoining(d, files, c.current.image, b.current.image)
        /\ ~r.ok => c.current = b.current
    BY <2>4, <2>5 DEF TurnedForward, TurnedBackward
  <2>7. c.current = b.current \/ c.current.image \in d.images
    BY <2>6, AdjoiningShown
  <2>8. ~IsEmptySlot(c.current)
    BY <1>1, <1>4, <2>7 DEF IsEmptySlot
  <2> QED
    BY <1>2, <1>4, <2>2, <2>6, <2>8 DEF PagesHeld, TurnedPage
<1> QED
  BY <1>3, <1>4

\* preload shows no other page.
LEMMA PreloadFits ==
    ASSUME NEW R, NEW N, NEW d, NEW G, NEW b,
           SlotsClosed(d, G), OpenBook(R, N, d, G, b), PagesHeld(d, b)
    PROVE  PagesHeld(d, PreloadAll(b, d)) /\ PreloadAll(b, d).current = b.current
<1> DEFINE files == b.explorer.files
           c == PreloadAll(b, d)
<1>1. DiskOK(Path(N), d) /\ BookOK(R, Path(N), d, G, b) /\ BookShape(b) /\ d.damaged = {}
  BY DEF OpenBook, BookOK
<1>2. c.explorer.files = files
  BY <1>1, PreloadAllOK DEF BookMoves
<1>3. CASE IsEmptySlot(b.current)
  <2> DEFINE r == ToFirst(b, d)
  <2>1. r.book.current = b.current
    BY <1>1, <1>3, FirstLoads DEF PagesHeld
  <2>2. c = r.book
    BY <1>3, <2>1 DEF PreloadAll
  <2> HIDE DEF c, r
  <2> QED
    BY <1>2, <1>3, <2>1, <2>2 DEF PagesHeld, InOrder, c
<1>4. CASE ~IsEmptySlot(b.current)
  <2>1. ReadsPages(R, N, d, G, b) /\ InOrder(d, b)
    BY <1>4 DEF PagesHeld, ReadsPages
  <2>2. c.current = b.current /\ InOrder(d, c)
    BY <1>4, <2>1, PreloadsInOrder
  <2> HIDE DEF c
  <2> QED
    BY <1>2, <1>4, <2>1, <2>2 DEF PagesHeld, ReadsPages, c
<1> QED
  BY <1>3, <1>4

\* toFirstFile as the book is opened: nothing is loaded, and what is listed is there.
LEMMA FirstFits ==
    ASSUME NEW R, NEW N, NEW d, NEW G, NEW b, NEW r,
           SlotsClosed(d, G), OpenBook(R, N, d, G, b),
           IsEmptySlot(b.previous), IsEmptySlot(b.current), IsEmptySlot(b.next),
           d.images \intersect d.empty = {},
           \A i \in 1..Len(b.explorer.files) :
              b.explorer.files[i].isFile => b.explorer.files[i] \in d.present,
           r = ToFirst(b, d)
    PROVE  PagesHeld(d, r.book) /\ (~r.ok => r.book.current = b.current)
<1> DEFINE files == b.explorer.files
           all == \A i \in 1..Len(files) : files[i].isFile => files[i] \in d.present
<1>1. DiskOK(Path(N), d) /\ BookOK(R, Path(N), d, G, b) /\ d.damaged = {}
      /\ NoPathToFile \notin d.images
  BY DEF OpenBook
<1>2. r.book.explorer.files = files
  BY <1>1, ToFirstOK DEF BookMoves
<1>3. /\ r.book.previous = b.previous
      /\ \/ r.book.current = b.current
         \/ /\ r.ok /\ FirstShows(d, files)
            /\ r.book.next = b.next /\ r.book.current.image \in d.images
      /\ FirstShows(d, files) => r.ok /\ r.book.current.image \in d.images
  BY <1>1, FirstLoads
<1>4. FirstShows(d, files) => files # <<>>
  BY DEF FirstShows, Shown, Places
<1> HIDE DEF files, all
<1> QED
  BY <1>1, <1>2, <1>3, <1>4 DEF PagesHeld, InOrder, IsEmptySlot

-----------------------------------------------------------------------------
(***************************************************************************)
(* What a slot whose page has just been loaded holds.  Below, F is a set   *)
(* of slots that these are in: next_ is not shown before it is current_,   *)
(* so its cache is as it was when the page was loaded or left backwards.   *)
(***************************************************************************)
JustLoaded(d, G) ==
    {[image |-> page, bookmark |-> page, cache |-> OnLoaded(d, slot.cache, page)] :
        slot \in G, page \in d.images}

NextIn(F, b) == IsEmptySlot(b.next) \/ b.next \in F

LEMMA LoadedIsFresh ==
    ASSUME NEW d, NEW G, NEW b, BookShape(b), b.cached, b.next \in G, NEW ex,
           Holds(d.images, ex, d)
    PROVE  LoadNext(WithExplorer(b, ex), d).next \in JustLoaded(d, G)
<1> DEFINE there == WithExplorer(b, ex)
           slot == Loaded(there, d, there.next)
<1>1. /\ there.explorer = ex /\ there.next = b.next /\ there.cached = b.cached /\ BookShape(there)
  BY SetExplorer
<1>2. GetCurrentPos(ex) \in d.images
  BY DEF Holds
<1>3. slot \in JustLoaded(d, G)
  <2>1. slot = [image |-> GetCurrentPos(ex), bookmark |-> GetCurrentPos(ex),
                cache |-> OnLoaded(d, b.next.cache, GetCurrentPos(ex))]
    BY <1>1 DEF Loaded
  <2> QED
    BY <1>2, <2>1 DEF JustLoaded
<1>4. LoadNext(there, d) = WithNext(there, slot)
  BY DEF LoadNext, WithNext
<1> HIDE DEF there, slot
<1>5. WithNext(there, slot).next = slot
  BY <1>1, SetSlots
<1> QED
  BY <1>3, <1>4, <1>5 DEF there

LEMMA FindsFresh ==
    ASSUME NEW R, NEW P, NEW d, NEW G, NEW b, NEW r,
           DiskOK(P, d), BookOK(R, P, d, G, b), b.cached, d.damaged = {},
           r = FindAndLoadNext(b, d)
    PROVE  /\ r.ok => r.book.next \in JustLoaded(d, G)
           /\ ~r.ok => r.book.next = b.next
<1> DEFINE ex == b.explorer
           S == StopsAfter(ex, d)
           images == StopsHolding(d.images, S, ex, d)
           empty == StopsHolding(d.empty, S, ex, d)
           ends == \E e \in empty : \A i \in images : Before(e, i)
           found == StopAt(ex, d, Nearest(images))
           last == AtLastIndex(ex)
<1>1. BookShape(b) /\ ExplorerOK(R, P, d, ex) /\ b.next \in G /\ images \subseteq S
  BY DEF BookOK, SlotsIn, SlotFits, StopsHolding
<1>2. StopsHolding(d.damaged, S, ex, d) = {}
  BY DEF StopsHolding, Holds
<1>3. r = IF ends THEN Crashed(b)
          ELSE IF images # {} THEN BookOk(LoadNext(WithExplorer(b, found), d))
          ELSE BookFail(WithExplorer(b, last))
  BY <1>2 DEF FindAndLoadNext, WithExplorer
<1>4. images # {} => Holds(d.images, found, d)
  <2>1. images # {} => Nearest(images) \in images
    BY <1>1, ChosenStops
  <2> QED
    BY <2>1 DEF StopsHolding
<1>5. Crashed(b).book.next = b.next /\ ~Crashed(b).ok
  BY <1>1 DEF Crashed, BookFail, BookShape
<1> HIDE DEF ends, images, found, last
<1>6. WithExplorer(b, last).next = b.next
  BY <1>1, SetExplorer
<1>7. images # {} => LoadNext(WithExplorer(b, found), d).next \in JustLoaded(d, G)
  BY <1>1, <1>4, LoadedIsFresh
<1> QED
  BY <1>3, <1>5, <1>6, <1>7 DEF BookOk, BookFail

\* The look for the next page, from the current one.
LEMMA LooksFresh ==
    ASSUME NEW R, NEW P, NEW d, NEW G, NEW b, NEW r,
           DiskOK(P, d), BookOK(R, P, d, G, b), b.cached, d.damaged = {},
           r = LoadAhead(b, d)
    PROVE  /\ r.ok => r.book.next \in JustLoaded(d, G)
           /\ ~r.ok => r.book.next = b.next
           /\ r.book.previous = b.previous /\ r.book.current = b.current
<1> DEFINE e == EnterCurrent(b, d)
           c == e.book
<1>1. BookMoves(R, P, d, G, b, c)
  BY EnterCurrentOK
<1>2. BookOK(R, P, d, G, c) /\ c.cached /\ BookShape(c) /\ BookShape(b)
  BY <1>1 DEF BookMoves, BookOK
<1>3. c.previous = b.previous /\ c.current = b.current /\ c.next = b.next
  <2>1. c = WithExplorer(b, EnterPath(b.explorer, d, b.current.bookmark).ex)
    BY DEF EnterCurrent, WithExplorer
  <2> HIDE DEF c
  <2> QED
    BY <1>2, <2>1, SetExplorer
<1>4. r = IF e.ok THEN FindAndLoadNext(c, d) ELSE e
  BY DEF LoadAhead
<1> HIDE DEF c, e
<1> DEFINE f == FindAndLoadNext(c, d)
<1>5. /\ f.ok => f.book.next \in JustLoaded(d, G)
      /\ ~f.ok => f.book.next = c.next
      /\ f.book.previous = c.previous /\ f.book.current = c.current
  <2>1. /\ FindAndLoadNext(c, d).book.previous = c.previous
        /\ FindAndLoadNext(c, d).book.current = c.current
    <3>1. BookShape(c) /\ d.damaged = {}
      BY <1>2
    <3> HIDE DEF f
    <3> QED
      BY <3>1, LoadsOneSlot
  <2>2. f = FindAndLoadNext(c, d)
    OBVIOUS
  <2> HIDE DEF f
  <2> QED
    BY <1>2, <2>1, <2>2, FindsFresh
<1> HIDE DEF f
<1>6. CASE e.ok
  BY <1>3, <1>4, <1>5, <1>6 DEF f
<1>7. CASE ~e.ok
  BY <1>3, <1>4, <1>7 DEF c
<1> QED
  BY <1>6, <1>7

\* toFirstFile loads a page into next_ or leaves it.
LEMMA FirstFresh ==
    ASSUME NEW R, NEW P, NEW d, NEW G, NEW b, NEW F, NEW r,
           DiskOK(P, d), SlotsClosed(d, G), BookOK(R, P, d, G, b), b.cached, d.damaged = {},
           JustLoaded(d, G) \subseteq F, NextIn(F, b), r = ToFirst(b, d)
    PROVE  NextIn(F, r.book)
<1> DEFINE f == FirstFile(b.explorer, d)
           there == WithExplorer(b, f.ex)
           page == Loaded(there, d, there.current)
           loads == Holds(d.images, f.ex, d)
           ends == Holds(d.empty, f.ex, d)
<1>1. /\ BookShape(b) /\ MovesWithin(R, P, d, b.explorer, f)
      /\ f.ok => AtPage(d, f.ex)
  BY FirstFileOK, EndsAtPage DEF BookOK
<1>2. ~Holds(d.damaged, f.ex, d)
  BY DEF Holds
<1>3. r = IF ~f.ok THEN BookFail(there)
          ELSE IF ends THEN Crashed(there)
          ELSE IF loads THEN BookOk(WithCurrent(there, page))
          ELSE FindAndLoadNext(there, d)
  BY <1>2 DEF ToFirst, WithExplorer, WithCurrent, LoadCurrent
<1>4. there.next = b.next /\ there.cached = b.cached /\ BookShape(there)
  BY <1>1, SetExplorer
<1>5. BookOK(R, P, d, G, there)
  <2> HIDE DEF f
  <2> QED
    BY <1>1, MovedOK DEF BookMoves
<1> HIDE DEF there, page, loads, ends, f
<1>6. Crashed(there).book.next = b.next
  BY <1>4 DEF Crashed, BookFail, BookShape
<1>7. WithCurrent(there, page).next = b.next
  BY <1>4, SetSlots
<1>8. LET g == FindAndLoadNext(there, d)
      IN  g.book.next = b.next \/ g.book.next \in JustLoaded(d, G)
  BY <1>4, <1>5, FindsFresh
<1>9. \/ r.book.next = b.next
      \/ r.book.next \in JustLoaded(d, G)
  BY <1>3, <1>4, <1>6, <1>7, <1>8 DEF BookFail, BookOk
<1> QED
  BY <1>9 DEF NextIn

\* What incrementPosition and decrementPosition do to the slots while a page is shown.
SlotsForward(F, b, r) ==
    /\ r.ok => /\ r.book.current \in F /\ r.book.previous = b.current
               /\ IsEmptySlot(r.book.next)
    /\ ~r.ok => /\ r.book.previous = b.previous /\ r.book.current = b.current
                /\ r.book.next = b.next

SlotsBackward(b, r) ==
    /\ r.ok => r.book.next = b.current /\ IsEmptySlot(r.book.previous)
    /\ ~r.ok => /\ r.book.previous = b.previous /\ r.book.current = b.current
                /\ r.book.next = b.next
    /\ ~IsEmptySlot(b.previous) => r.ok /\ r.book.current = b.previous

LEMMA ForwardFresh ==
    ASSUME NEW R, NEW N, NEW d, NEW G, NEW b, NEW F, NEW r,
           SlotsClosed(d, G), OpenBook(R, N, d, G, b), PagesHeld(d, b), b.cached,
           JustLoaded(d, G) \subseteq F, NextIn(F, b), ~IsEmptySlot(b.current),
           r = Increment(b, d)
    PROVE  SlotsForward(F, b, r)
<1> DEFINE P == Path(N)
           loads == LoadAhead(b, d)
           ahead == IF IsEmptySlot(b.next) THEN loads ELSE BookOk(b)
           c == ahead.book
<1>1. /\ DiskOK(P, d) /\ BookOK(R, P, d, G, b) /\ BookShape(b) /\ d.damaged = {}
      /\ ReadsPages(R, N, d, G, b) /\ InOrder(d, b)
  BY DEF OpenBook, BookOK, PagesHeld, ReadsPages
<1>2. PICK s \in Shown(d, b.explorer.files) : b.current.image = PosAt(d, b.explorer.files, s)
  BY <1>1, ShownIsPlaced
<1>3. TurnedForward(d, b, s, r)
  BY <1>1, <1>2, TurnsForward
<1>4. BookShape(c)
  <2>1. BookMoves(R, P, d, G, b, loads.book)
    BY <1>1, LoadsAroundOK
  <2> HIDE DEF loads
  <2> QED
    BY <1>1, <2>1 DEF BookOk, BookOK, BookMoves
<1>5. r = (IF ahead.ok THEN BookOk(ShiftForward(c)) ELSE ahead)
  BY DEF Increment
<1>6. ahead.ok => c.next \in F
  <2>1. loads.ok => loads.book.next \in JustLoaded(d, G)
    BY <1>1, LooksFresh
  <2> HIDE DEF loads
  <2> QED
    BY <2>1 DEF BookOk, NextIn
<1> HIDE DEF c
<1>7. ShiftForward(c).current = c.next
  BY <1>4 DEF ShiftForward, BookShape
<1> HIDE DEF ahead
<1> QED
  BY <1>3, <1>5, <1>6, <1>7 DEF TurnedForward, SlotsForward, BookOk

LEMMA BackwardSlots ==
    ASSUME NEW R, NEW N, NEW d, NEW G, NEW b, NEW r,
           SlotsClosed(d, G), OpenBook(R, N, d, G, b), PagesHeld(d, b),
           ~IsEmptySlot(b.current), r = Decrement(b, d)
    PROVE  SlotsBackward(b, r)
<1>1. /\ BookShape(b) /\ ReadsPages(R, N, d, G, b) /\ InOrder(d, b)
  BY DEF OpenBook, BookOK, PagesHeld, ReadsPages
<1>2. PICK s \in Shown(d, b.explorer.files) : b.current.image = PosAt(d, b.explorer.files, s)
  BY <1>1, ShownIsPlaced
<1>3. TurnedBackward(d, b, s, r)
  BY <1>1, <1>2, TurnsBackward
<1>4. ASSUME ~IsEmptySlot(b.previous) PROVE r.ok /\ r.book.current = b.previous
  <2>1. r = BookOk(ShiftBackward(b))
    BY <1>4 DEF Decrement, BookOk
  <2>2. ShiftBackward(b).current = b.previous
    BY <1>1 DEF ShiftBackward, BookShape
  <2> QED
    BY <2>1, <2>2 DEF BookOk
<1> QED
  BY <1>3, <1>4 DEF TurnedBackward, SlotsBackward

\* preload loads pages into the slots that hold nothing, and leaves the others.
LEMMA PreloadFresh ==
    ASSUME NEW R, NEW N, NEW d, NEW G, NEW b, NEW F, NEW c,
           SlotsClosed(d, G), OpenBook(R, N, d, G, b), PagesHeld(d, b), b.cached,
           JustLoaded(d, G) \subseteq F, NextIn(F, b), c = PreloadAll(b, d)
    PROVE  /\ NextIn(F, c)
           /\ ~IsEmptySlot(b.current) /\ ~IsEmptySlot(b.previous) => c.previous = b.previous
<1> DEFINE P == Path(N)
<1>1. /\ DiskOK(P, d) /\ BookOK(R, P, d, G, b) /\ BookShape(b) /\ d.damaged = {}
  BY DEF OpenBook, BookOK
<1>2. CASE IsEmptySlot(b.current)
  <2> DEFINE r == ToFirst(b, d)
  <2>1. r.book.current = b.current
    BY <1>1, <1>2, FirstLoads DEF PagesHeld
  <2>2. c = r.book
    BY <1>2, <2>1 DEF PreloadAll
  <2>3. NextIn(F, r.book)
    BY <1>1, FirstFresh
  <2> HIDE DEF r
  <2> QED
    BY <1>2, <2>2, <2>3
<1>3. CASE ~IsEmptySlot(b.current)
  <2> DEFINE q == LoadBehind(b, d).book
             b2 == IF IsEmptySlot(b.previous) THEN q ELSE b
             n == LoadAhead(b2, d)
  <2>1. c = IF IsEmptySlot(b2.next) THEN n.book ELSE b2
    BY <1>3 DEF PreloadAll
  <2>2. BookMoves(R, P, d, G, b, b2)
    <3>1. BookMoves(R, P, d, G, b, q)
      BY <1>1, LoadsAroundOK
    <3>2. BookMoves(R, P, d, G, b, b)
      BY <1>1, BookStays
    <3> HIDE DEF q
    <3> QED
      BY <3>1, <3>2
  <2>3. q.next = b.next
    <3>1. ReadsPages(R, N, d, G, b)
      BY <1>3 DEF PagesHeld, ReadsPages
    <3>2. PICK s \in Shown(d, b.explorer.files) :
             b.current.image = PosAt(d, b.explorer.files, s)
      BY <1>3, <3>1, ShownIsPlaced
    <3>3. b.current.bookmark = PosAt(d, b.explorer.files, s)
      BY <1>3, <3>1, <3>2, ShownIsPlaced
    <3>4. LooksBefore(d, b, s, LoadBehind(b, d))
      BY <3>1, <3>3, LoadsBeforePage
    <3> QED
      BY <3>4 DEF LooksBefore
  <2>4. BookOK(R, P, d, G, b2) /\ b2.cached
    BY <2>2 DEF BookMoves
  <2> HIDE DEF q
  <2>5. b2.next = b.next /\ (~IsEmptySlot(b.previous) => b2.previous = b.previous)
    BY <2>3
  <2> HIDE DEF b2
  <2>6. /\ n.ok => n.book.next \in JustLoaded(d, G)
        /\ ~n.ok => n.book.next = b2.next
        /\ n.book.previous = b2.previous
    BY <1>1, <2>4, LooksFresh
  <2> HIDE DEF n
  <2> QED
    BY <2>1, <2>5, <2>6 DEF NextIn
<1> QED
  BY <1>2, <1>3

-----------------------------------------------------------------------------
(* setCachePrototype and goToBookmark                                      *)

WithCached(b, on) == [b EXCEPT !.cached = on]

LEMMA SetCached ==
    ASSUME NEW b, BookShape(b), NEW on
    PROVE  BookShape(WithCached(b, on)) /\ WithCached(b, on).explorer = b.explorer
BY DEF BookShape, WithCached

EmptySlotWith(cache) == [EmptySlot EXCEPT !.cache = cache]

LEMMA WithCachesOK ==
    ASSUME NEW R, NEW P, NEW d, NEW G, NEW prototype, NEW b,
           EmptySlotWith(prototype) \in G, BookShape(b),
           ExplorerOK(R, P, d, b.explorer),
           b.previous = EmptySlot, b.current = EmptySlot, b.next = EmptySlot
    PROVE  /\ BookOK(R, P, d, G, WithCaches(b, prototype))
           /\ WithCaches(b, prototype).explorer = b.explorer
           /\ WithCaches(b, prototype).cached
           /\ WithCaches(b, prototype).previous = EmptySlotWith(prototype)
           /\ WithCaches(b, prototype).current = EmptySlotWith(prototype)
           /\ WithCaches(b, prototype).next = EmptySlotWith(prototype)
<1> DEFINE s == EmptySlotWith(prototype)
           c1 == WithCached(b, TRUE)
           c2 == WithPrevious(c1, s)
           c3 == WithCurrent(c2, s)
           c4 == WithNext(c3, s)
<1>1. WithCaches(b, prototype) =
        [b EXCEPT !.cached = TRUE, !.previous = s, !.current = s, !.next = s]
  BY DEF WithCaches, BookShape, EmptySlotWith
<1> HIDE DEF s
<1>3. [b EXCEPT !.cached = TRUE, !.previous = s, !.current = s, !.next = s] = c4
  BY DEF WithCached, WithPrevious, WithCurrent, WithNext, BookShape
<1>4. BookShape(c1) /\ c1.explorer = b.explorer /\ c1.cached = TRUE
  BY SetCached DEF WithCached, BookShape
<1> HIDE DEF c1
<1>5. BookShape(c2) /\ c2.explorer = b.explorer /\ c2.previous = s
      /\ c2.cached = TRUE
  BY <1>4, SetSlots DEF BookShape
<1> HIDE DEF c2
<1>6. BookShape(c3) /\ c3.explorer = b.explorer /\ c3.previous = s /\ c3.current = s
      /\ c3.cached = TRUE
  BY <1>5, SetSlots DEF BookShape
<1> HIDE DEF c3
<1>7. /\ BookShape(c4) /\ c4.explorer = b.explorer
      /\ c4.previous = s /\ c4.current = s /\ c4.next = s /\ c4.cached = TRUE
  BY <1>6, SetSlots DEF BookShape
<1> HIDE DEF c4
<1>8. s \in G /\ SlotShape(s) /\ s.bookmark = NoPathToFile /\ s.image = NoPathToFile
  BY DEF s, EmptySlotWith, EmptySlot, SlotShape
<1> QED
  BY <1>1, <1>3, <1>7, <1>8 DEF BookOK, SlotsIn, SlotFits, Marks, s

\* The bookmark names no root: the explorer loses its list, and nothing is entered.
LEMMA GoToOK ==
    ASSUME NEW R, NEW P, NEW d, NEW G, NEW b, BookOK(R, P, d, G, b),
           NoPath \in R, NoPath \notin DOMAIN d.files
    PROVE  /\ BookOK(R, P, d, G, GoTo(b, d, BookmarkOf(b)).book)
           /\ GoTo(b, d, BookmarkOf(b)).book.explorer.root = NoPath
           /\ GoTo(b, d, BookmarkOf(b)).book.explorer.files = <<>>
<1> DEFINE ex == b.explorer
           new == WithRoot(ex, d, NoPath)
<1>1. /\ ex \in Explorers(R, P) /\ AssertsHold(ex) /\ BookShape(b) /\ SlotsIn(d, G, b)
      /\ ~ex.arc.open => ex.arc = ClosedArchive
  BY DEF BookOK, ExplorerOK, ArchiveMatches
<1>2. /\ new \in Explorers(R, P)
      /\ new.root = NoPath
      /\ new.files = <<>>
      /\ new.arc = ex.arc
  <2>1. ListFiles(d, NoPath) = <<>> /\ <<>> \in Seq(P)
    BY DEF ListFiles
  <2> HIDE DEF ex
  <2>2. ex = [root |-> ex.root, files |-> ex.files, cur |-> ex.cur, arc |-> ex.arc]
        /\ ex.cur \in Nat \ {0} /\ ex.arc \in [open : BOOLEAN, list : Seq(P), cur : Nat]
    BY <1>1 DEF Explorers
  <2>3. WithRoot(ex, d, NoPath) = [ex EXCEPT !.root = NoPath, !.files = <<>>]
    BY <2>1 DEF WithRoot
  <2>4. new = [root |-> NoPath, files |-> <<>>, cur |-> ex.cur, arc |-> ex.arc]
    BY <2>2, <2>3
  <2> QED
    BY <2>1, <2>2, <2>4 DEF Explorers
<1> HIDE DEF new
<1>3. ExplorerOK(R, P, d, new)
  BY <1>1, <1>2
     DEF ExplorerOK, AssertsHold, InArchive, ArchiveMatches, NothingBelowArchives
<1>4. IsEmptyPath(new.root)
  BY <1>2 DEF IsEmptyPath, NoPath
<1>5. SetRootPath(ex, d, NoPath) = Fail(new)
  BY <1>4 DEF SetRootPath, EnterPath, new
<1>6. GoTo(b, d, BookmarkOf(b)).book = WithExplorer(b, new)
  BY <1>5 DEF GoTo, BookmarkOf, Fail, WithExplorer
<1>7. BookShape(b)
  BY <1>1
<1> QED
  BY <1>1, <1>2, <1>3, <1>6, SetExplorer DEF BookOK, SlotsIn, SlotFits
=============================================================================
