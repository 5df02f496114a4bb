-------------------------- MODULE BookShelfProofs --------------------------
(***************************************************************************)
(* For every tree of directories, every way cards come and go and every    *)
(* moment the device is switched off: the list shows the books that were   *)
(* added, all of them are directories of the device, and the selector      *)
(* stays below the roots and finds its way back.                           *)
(***************************************************************************)
EXTENDS BookShelf, SequenceTheorems, WellFoundedInduction, TLAPS

(***************************************************************************)
(* The numbers of the books are walked by induction.  The induction is     *)
(* over a set, for a theorem about every predicate cannot be used.         *)
(***************************************************************************)
LEMMA SetInduction ==
    ASSUME NEW S \in SUBSET Nat, 0 \in S, \A n \in S : n + 1 \in S
    PROVE  \A n \in Nat : n \in S
<1> DEFINE T == Nat \ S
           Less == OpToRel(<, Nat)
<1>1. SUFFICES ASSUME T # {} PROVE FALSE
  OBVIOUS
<1>2. ASSUME NEW m \in Nat, NEW k \in Nat, k < m PROVE <<k, m>> \in Less
  BY <1>2 DEF OpToRel
<1>3. IsWellFoundedOn(Less, Nat)
  BY NatLessThanWellFounded
<1> HIDE DEF Less
<1>4. PICK m \in T : \A k \in T : ~(<<k, m>> \in Less)
  BY <1>1, <1>3, WFMin
<1>5. m - 1 \in Nat /\ m - 1 \notin T
  <2>1. m - 1 \in Nat /\ m - 1 < m
    OBVIOUS
  <2> QED
    BY <1>2, <1>4, <2>1
<1>6. m - 1 + 1 \in S
  BY <1>5
<1>7. m - 1 + 1 = m
  OBVIOUS
<1> QED
  BY <1>6, <1>7

-----------------------------------------------------------------------------
(* What loadBooks makes of the settings                                    *)

Kept == RootPaths \union Directories

\* The function that BooksIn defines.
IsBooksIn(book, n, f) ==
    f = [k \in 0..n |-> IF k = 0 THEN <<>>
                        ELSE IF book[k - 1] = NoDirectory THEN f[k - 1]
                        ELSE Append(f[k - 1], book[k - 1])]

LEMMA BooksInExists ==
    ASSUME NEW book
    PROVE  \A n \in Nat : \E f : IsBooksIn(book, n, f)
<1> DEFINE S == {n \in Nat : \E f : IsBooksIn(book, n, f)}
<1>1. 0 \in S
  <2> DEFINE f == [k \in 0..0 |-> <<>>]
  <2>1. IsBooksIn(book, 0, f)
    BY DEF IsBooksIn
  <2> QED
    BY <2>1
<1>2. ASSUME NEW n \in S PROVE n + 1 \in S
  <2>1. PICK f : IsBooksIn(book, n, f)
    OBVIOUS
  <2> DEFINE last == IF book[n] = NoDirectory THEN f[n] ELSE Append(f[n], book[n])
             g == [k \in 0..(n + 1) |-> IF k <= n THEN f[k] ELSE last]
             Value(k) == IF k = 0 THEN <<>>
                         ELSE IF book[k - 1] = NoDirectory THEN g[k - 1]
                         ELSE Append(g[k - 1], book[k - 1])
  <2>2. n \in Nat /\ \A k \in 0..n : k \in 0..(n + 1) /\ k <= n
    OBVIOUS
  <2> HIDE DEF last
  <2>3. ASSUME NEW k \in 0..(n + 1) PROVE g[k] = Value(k)
    <3>1. CASE k = 0
      <4>1. f[0] = <<>>
        BY <2>1, <2>2 DEF IsBooksIn
      <4> QED
        BY <2>2, <3>1, <4>1
    <3>2. CASE k \in 1..n
      <4>0. k \in 0..n /\ k # 0
        BY <2>2, <3>2
      <4>1. f[k] = IF book[k - 1] = NoDirectory THEN f[k - 1]
                   ELSE Append(f[k - 1], book[k - 1])
        BY <2>1, <4>0 DEF IsBooksIn
      <4>2. g[k] = f[k] /\ g[k - 1] = f[k - 1] /\ k # 0
        BY <2>2, <3>2
      <4> HIDE DEF g
      <4> QED
        BY <4>1, <4>2
    <3>3. CASE k = n + 1
      <4>1. g[k] = last /\ g[k - 1] = f[n] /\ k # 0 /\ k - 1 = n
        BY <2>2, <3>3
      <4> HIDE DEF g
      <4> QED
        BY <4>1 DEF last
    <3> QED
      BY <2>2, <3>1, <3>2, <3>3
  <2>4. IsBooksIn(book, n + 1, g)
    <3>1. g = [k \in 0..(n + 1) |-> g[k]]
      OBVIOUS
    <3> HIDE DEF g
    <3>2. g = [k \in 0..(n + 1) |-> Value(k)]
      BY <2>3, <3>1
    <3> QED
      BY <3>2 DEF IsBooksIn
  <2> QED
    BY <2>2, <2>4
<1>3. S \in SUBSET Nat
  OBVIOUS
<1>4. (\A n \in Nat : n \in S) => \A n \in Nat : \E f : IsBooksIn(book, n, f)
  OBVIOUS
<1>5. \A n \in S : n + 1 \in S
  BY <1>2
<1> HIDE DEF S
<1> QED
  BY <1>1, <1>3, <1>4, <1>5, SetInduction

\* Under one number more there is one book more, or none.
LEMMA BooksInNext ==
    ASSUME NEW book
    PROVE  /\ BooksIn(book)[0] = <<>>
           /\ \A n \in 0..(MaxCount - 1) :
                 BooksIn(book)[n + 1] = IF book[n] = NoDirectory THEN BooksIn(book)[n]
                                        ELSE Append(BooksIn(book)[n], book[n])
<1> DEFINE f == BooksIn(book)
<1>1. IsBooksIn(book, MaxCount, f)
  BY BooksInExists, MaxCountAssumption DEF BooksIn, IsBooksIn
<1>2. 0 \in 0..MaxCount
  BY MaxCountAssumption
<1>3. ASSUME NEW n \in 0..(MaxCount - 1)
      PROVE  n + 1 \in 0..MaxCount /\ n + 1 # 0 /\ n + 1 - 1 = n
  BY MaxCountAssumption
<1> HIDE DEF f
<1>4. f[0] = <<>>
  BY <1>1, <1>2 DEF IsBooksIn
<1>5. ASSUME NEW n \in 0..(MaxCount - 1)
      PROVE  f[n + 1] = IF book[n] = NoDirectory THEN f[n] ELSE Append(f[n], book[n])
  <2> DEFINE m == n + 1
  <2>1. m \in 0..MaxCount /\ m # 0 /\ m - 1 = n
    BY <1>3
  <2> HIDE DEF m
  <2>2. f[m] = IF book[m - 1] = NoDirectory THEN f[m - 1] ELSE Append(f[m - 1], book[m - 1])
    BY <1>1, <2>1 DEF IsBooksIn
  <2>3. f[m] = IF book[n] = NoDirectory THEN f[n] ELSE Append(f[n], book[n])
    BY <2>1, <2>2
  <2> QED
    BY <2>3 DEF m
<1> QED
  BY <1>4, <1>5 DEF f

\* The books under the first n numbers depend on those only.
LEMMA BooksInSame ==
    ASSUME NEW book, NEW other, NEW n \in 0..MaxCount,
           \A i \in 0..(n - 1) : book[i] = other[i]
    PROVE  BooksIn(book)[n] = BooksIn(other)[n]
<1> DEFINE S == {k \in Nat : k <= n => BooksIn(book)[k] = BooksIn(other)[k]}
<1>1. 0 \in S
  BY BooksInNext
<1>2. ASSUME NEW k \in S PROVE k + 1 \in S
  <2>1. SUFFICES ASSUME k + 1 <= n PROVE BooksIn(book)[k + 1] = BooksIn(other)[k + 1]
    OBVIOUS
  <2>2. k \in 0..(MaxCount - 1) /\ k \in 0..(n - 1)
    BY <2>1, MaxCountAssumption
  <2>3. BooksIn(book)[k] = BooksIn(other)[k] /\ book[k] = other[k]
    BY <2>1, <2>2
  <2> QED
    BY <2>2, <2>3, BooksInNext
<1>3. S \in SUBSET Nat /\ n \in Nat /\ n <= n
  BY MaxCountAssumption
<1>4. n \in S => BooksIn(book)[n] = BooksIn(other)[n]
  BY <1>3
<1>5. \A k \in S : k + 1 \in S
  BY <1>2
<1> HIDE DEF S
<1> QED
  BY <1>1, <1>3, <1>4, <1>5, SetInduction

LEMMA BooksInTyped ==
    ASSUME NEW D, NEW book \in [0..(MaxCount - 1) -> D \union {NoDirectory}]
    PROVE  \A n \in 0..MaxCount : BooksIn(book)[n] \in Seq(D)
<1> DEFINE S == {k \in Nat : k <= MaxCount => BooksIn(book)[k] \in Seq(D)}
<1>1. 0 \in S
  <2>1. <<>> \in Seq(D)
    BY EmptySeq
  <2> QED
    BY <2>1, BooksInNext
<1>2. ASSUME NEW k \in S PROVE k + 1 \in S
  <2>1. SUFFICES ASSUME k + 1 <= MaxCount PROVE BooksIn(book)[k + 1] \in Seq(D)
    OBVIOUS
  <2>2. k \in 0..(MaxCount - 1)
    BY <2>1, MaxCountAssumption
  <2>3. BooksIn(book)[k] \in Seq(D) /\ (book[k] # NoDirectory => book[k] \in D)
    BY <2>1, <2>2, MaxCountAssumption
  <2>4. book[k] # NoDirectory => Append(BooksIn(book)[k], book[k]) \in Seq(D)
    BY <2>3
  <2> QED
    BY <2>2, <2>3, <2>4, BooksInNext
<1>3. S \in SUBSET Nat
  OBVIOUS
<1>4. (\A k \in Nat : k \in S) => \A n \in 0..MaxCount : BooksIn(book)[n] \in Seq(D)
  BY MaxCountAssumption
<1>5. \A k \in S : k + 1 \in S
  BY <1>2
<1> HIDE DEF S
<1> QED
  BY <1>1, <1>3, <1>4, <1>5, SetInduction

-----------------------------------------------------------------------------
(* The settings                                                            *)

ConfigOK(cfg) ==
    /\ cfg = [count |-> cfg.count, book |-> cfg.book]
    /\ cfg.count \in 0..MaxCount
    /\ cfg.book \in [0..(MaxCount - 1) -> Kept \union {NoDirectory}]
    /\ \A i \in 0..(MaxCount - 1) : cfg.count <= i => cfg.book[i] = NoDirectory

\* After the first write of addBook, and after the second.
Counted(cfg) == [count |-> cfg.count + 1, book |-> cfg.book]
Written(cfg, dir) == [count |-> cfg.count + 1, book |-> [cfg.book EXCEPT ![cfg.count] = dir]]

\* The name of a book is never empty, which would be no book.
LEMMA KeptNotEmpty == NoDirectory \notin Kept
<1>1. NoDirectory \notin RootPaths
  BY RootsApart DEF NoDirectory
<1>2. ASSUME NoDirectory \in Directories PROVE FALSE
  <2>1. PICK r \in RootPaths : IsUnder(NoDirectory, r)
    BY <1>2, TreesBelowRoots DEF IsUnderRoot
  <2>2. r \in Seq(STRING) /\ Len(r) \in Nat
    BY PathsAreNames
  <2>3. Len(NoDirectory) = 0
    BY DEF NoDirectory
  <2> QED
    BY <2>1, <2>2, <2>3 DEF IsUnder
<1> QED
  BY <1>1, <1>2 DEF Kept

LEMMA LoadTyped ==
    ASSUME NEW cfg, ConfigOK(cfg)
    PROVE  LoadBooks(cfg) \in Seq(Kept)
BY BooksInTyped DEF ConfigOK, LoadBooks

\* A count without its book: the list is what it was.
LEMMA LoadCounted ==
    ASSUME NEW cfg, ConfigOK(cfg), cfg.count < MaxCount
    PROVE  ConfigOK(Counted(cfg)) /\ LoadBooks(Counted(cfg)) = LoadBooks(cfg)
<1> DEFINE n == cfg.count
           book == cfg.book
<1>1. n \in 0..(MaxCount - 1) /\ n + 1 \in 0..MaxCount
  BY MaxCountAssumption DEF ConfigOK
<1>2. book[n] = NoDirectory
  BY <1>1 DEF ConfigOK
<1>3. Counted(cfg).count = n + 1 /\ Counted(cfg).book = book
  BY DEF Counted
<1>4. LoadBooks(Counted(cfg)) = LoadBooks(cfg)
  BY <1>1, <1>2, <1>3, BooksInNext DEF LoadBooks
<1>5. \A i \in 0..(MaxCount - 1) : n + 1 <= i => book[i] = NoDirectory
  BY <1>1 DEF ConfigOK
<1>6. Counted(cfg) = [count |-> Counted(cfg).count, book |-> Counted(cfg).book]
  BY DEF Counted
<1>7. book \in [0..(MaxCount - 1) -> Kept \union {NoDirectory}]
  BY DEF ConfigOK
<1> HIDE DEF n, book
<1> QED
  BY <1>1, <1>3, <1>4, <1>5, <1>6, <1>7 DEF ConfigOK

\* Both writes: the list has one book more.
LEMMA LoadWritten ==
    ASSUME NEW cfg, NEW dir \in Kept, ConfigOK(cfg), cfg.count < MaxCount
    PROVE  /\ ConfigOK(Written(cfg, dir))
           /\ LoadBooks(Written(cfg, dir)) = Append(LoadBooks(cfg), dir)
           /\ Written(cfg, dir).book[cfg.count] = dir
           /\ Written(cfg, dir).book # cfg.book
<1> DEFINE n == cfg.count
           book == cfg.book
           other == [book EXCEPT ![n] = dir]
<1>1. n \in 0..(MaxCount - 1) /\ n \in 0..MaxCount /\ n + 1 \in 0..MaxCount
  BY MaxCountAssumption DEF ConfigOK
<1>2. book \in [0..(MaxCount - 1) -> Kept \union {NoDirectory}] /\ book[n] = NoDirectory
  BY <1>1 DEF ConfigOK
<1>3. /\ Written(cfg, dir).count = n + 1 /\ Written(cfg, dir).book = other
      /\ Written(cfg, dir) = [count |-> n + 1, book |-> other]
  BY DEF Written
<1>4. \A i \in 0..(MaxCount - 1) : n <= i => book[i] = NoDirectory
  BY DEF ConfigOK
<1>5. LoadBooks(cfg) = BooksIn(book)[n] /\ LoadBooks(Written(cfg, dir)) = BooksIn(other)[n + 1]
  BY <1>3 DEF LoadBooks
<1> HIDE DEF n, book
<1>6. /\ other \in [0..(MaxCount - 1) -> Kept \union {NoDirectory}] /\ other[n] = dir
      /\ \A i \in 0..(n - 1) : other[i] = book[i]
      /\ \A i \in 0..(MaxCount - 1) : n + 1 <= i => other[i] = NoDirectory
  BY <1>1, <1>2, <1>4
<1> HIDE DEF other
<1>7. BooksIn(other)[n] = BooksIn(book)[n]
  BY <1>1, <1>6, BooksInSame
<1>8. dir # NoDirectory
  BY KeptNotEmpty
<1>9. BooksIn(other)[n + 1] = Append(BooksIn(book)[n], dir)
  BY <1>1, <1>6, <1>7, <1>8, BooksInNext
<1>10. other # book
  BY <1>2, <1>6, <1>8
<1>11. ConfigOK(Written(cfg, dir))
  BY <1>1, <1>3, <1>6 DEF ConfigOK
<1> QED
  BY <1>3, <1>5, <1>6, <1>9, <1>10, <1>11 DEF n, book

-----------------------------------------------------------------------------
(* Paths                                                                   *)

\* A prefix of a prefix.
LEMMA PrefixOfPrefix ==
    ASSUME NEW c \in Seq(STRING), NEW m \in 0..Len(c), NEW k \in 0..m
    PROVE  /\ SubSeq(c, 1, m) \in Seq(STRING)
           /\ Len(SubSeq(c, 1, m)) = m
           /\ SubSeq(SubSeq(c, 1, m), 1, k) = SubSeq(c, 1, k)
<1> DEFINE p == SubSeq(c, 1, m)
           s == SubSeq(p, 1, k)
           t == SubSeq(c, 1, k)
<1>1. m \in Nat /\ k \in Nat /\ m <= Len(c) /\ k <= m
  OBVIOUS
<1>2. p \in Seq(STRING) /\ Len(p) = m /\ \A i \in 1..m : p[i] = c[i]
  BY <1>1, SubSeqProperties
<1> HIDE DEF p
<1>3. /\ s \in Seq(STRING) /\ Len(s) = k /\ \A i \in 1..k : s[i] = p[i]
      /\ t \in Seq(STRING) /\ Len(t) = k /\ \A i \in 1..k : t[i] = c[i]
  BY <1>1, <1>2, SubSeqProperties
<1> HIDE DEF s, t
<1>4. \A i \in 1..k : s[i] = t[i]
  BY <1>1, <1>2, <1>3
<1>5. s = t
  BY <1>3, <1>4, SeqEqual
<1> QED
  BY <1>2, <1>5 DEF p, s, t

LEMMA KeptPaths ==
    /\ \A p \in RootPaths \union Directories \union Files : p \in Seq(STRING) /\ Len(p) \in Nat /\ Len(p) > 0
    /\ \A p \in Directories \union Files : IsUnderRoot(p)
<1>1. ASSUME NEW p \in Directories \union Files PROVE IsUnderRoot(p) /\ p \in Seq(STRING) /\ Len(p) > 0
  <2>1. PICK r \in RootPaths : IsUnder(p, r)
    BY TreesBelowRoots DEF IsUnderRoot
  <2>2. r \in Seq(STRING) /\ Len(r) \in Nat /\ p \in Seq(STRING) /\ Len(p) \in Nat
    BY PathsAreNames
  <2> QED
    BY <2>1, <2>2 DEF IsUnder, IsUnderRoot
<1>2. ASSUME NEW r \in RootPaths PROVE r \in Seq(STRING) /\ Len(r) > 0
  <2>1. r \in Seq(STRING) /\ r # <<>>
    BY PathsAreNames, RootsApart
  <2> QED
    BY <2>1, EmptySeq
<1>3. \A p \in Seq(STRING) : Len(p) \in Nat
  OBVIOUS
<1> QED
  BY <1>1, <1>2, <1>3

\* Nothing on the way from a root down to the path is hidden.
Visible(path) == \A k \in 1..Len(path) :
    IsUnderRoot(SubSeq(path, 1, k)) => ~IsHidden(SubSeq(path, 1, k))

LEMMA ParentIsVisible ==
    ASSUME NEW c \in Seq(STRING), Len(c) > 0, Visible(c)
    PROVE  Visible(Parent(c))
<1> DEFINE m == Len(c) - 1
<1>1. m \in 0..Len(c) /\ Parent(c) = SubSeq(c, 1, m)
  BY DEF Parent
<1>2. m \in 0..m
  BY <1>1
<1> HIDE DEF m
<1>3. Len(Parent(c)) = m
  BY <1>1, <1>2, PrefixOfPrefix
<1>4. ASSUME NEW k \in 1..m
      PROVE  k \in 1..Len(c) /\ SubSeq(Parent(c), 1, k) = SubSeq(c, 1, k)
  <2>1. k \in 0..m /\ k \in 1..Len(c)
    BY <1>1
  <2> QED
    BY <1>1, <2>1, PrefixOfPrefix
<1> QED
  BY <1>3, <1>4 DEF Visible

LEMMA VisibleIsNotHidden ==
    ASSUME NEW c \in Seq(STRING), Len(c) > 0, Visible(c), IsUnderRoot(c)
    PROVE  ~IsHidden(c)
<1>1. SubSeq(c, 1, Len(c)) = c /\ Len(c) \in 1..Len(c)
  OBVIOUS
<1> QED
  BY <1>1 DEF Visible

\* What is listed in a visible directory is visible.
LEMMA ListedIsVisible ==
    ASSUME NEW c \in Seq(STRING), Len(c) > 0, Visible(Parent(c)), ~IsHidden(c)
    PROVE  Visible(c)
<1> DEFINE m == Len(c) - 1
<1>1. m \in 0..Len(c) /\ Parent(c) = SubSeq(c, 1, m) /\ Len(c) = m + 1
  BY DEF Parent
<1>2. m \in 0..m
  BY <1>1
<1>3. SubSeq(c, 1, Len(c)) = c
  OBVIOUS
<1> HIDE DEF m
<1>4. Len(Parent(c)) = m
  BY <1>1, <1>2, PrefixOfPrefix
<1>5. ASSUME NEW k \in 1..Len(c), IsUnderRoot(SubSeq(c, 1, k)) PROVE ~IsHidden(SubSeq(c, 1, k))
  <2>1. CASE k = Len(c)
    BY <1>3, <2>1
  <2>2. CASE k # Len(c)
    <3>1. k \in 1..m /\ k \in 0..m
      BY <1>1, <2>2
    <3>2. SubSeq(Parent(c), 1, k) = SubSeq(c, 1, k)
      BY <1>1, <3>1, PrefixOfPrefix
    <3> QED
      BY <1>4, <1>5, <3>1, <3>2 DEF Visible
  <2> QED
    BY <2>1, <2>2
<1> QED
  BY <1>5 DEF Visible

\* No root is below another.
LEMMA RootsAreVisible ==
    ASSUME NEW r \in RootPaths
    PROVE  Visible(r)
<1> SUFFICES ASSUME NEW k \in 1..Len(r), IsUnderRoot(SubSeq(r, 1, k)) PROVE FALSE
  BY DEF Visible
<1>1. PICK s \in RootPaths : IsUnder(SubSeq(r, 1, k), s)
  BY DEF IsUnderRoot
<1>2. r \in Seq(STRING) /\ s \in Seq(STRING) /\ Len(s) \in Nat
  BY PathsAreNames
<1>3. k \in 0..Len(r) /\ k \in 0..k
  BY <1>2
<1>4. Len(SubSeq(r, 1, k)) = k
  BY <1>2, <1>3, PrefixOfPrefix
<1>5. Len(s) \in 0..k /\ Len(s) < k /\ k <= Len(r)
  BY <1>1, <1>2, <1>3, <1>4 DEF IsUnder
<1>6. SubSeq(SubSeq(r, 1, k), 1, Len(s)) = SubSeq(r, 1, Len(s))
  BY <1>2, <1>3, <1>5, PrefixOfPrefix
<1>7. IsUnder(r, s)
  BY <1>1, <1>2, <1>5, <1>6 DEF IsUnder
<1> QED
  BY <1>7, RootsApart

-----------------------------------------------------------------------------
(* The inductive invariant                                                 *)

(***************************************************************************)
(* The settings: the file that was last closed has whole books only, and   *)
(* what the program reads differs from it in addBook alone, by one count,  *)
(* or by one count and its book.                                           *)
(***************************************************************************)
ConfigInv ==
    /\ ConfigOK(saved)
    /\ added = LoadBooks(saved)
    /\ books \in Seq(Kept)
    /\ screen = "list" => books = added
    /\ screen # "adding" => config = saved /\ adding = NoDirectory
    /\ screen = "adding" =>
          /\ saved.count < MaxCount
          /\ \E dir \in Kept :
                \/ adding = dir /\ config = Counted(saved)
                \/ adding = NoDirectory /\ config = Written(saved, dir)

\* The selector: it speaks of every screen, for the selector keeps its fields.
SelectorInv ==
    /\ back => /\ current \in Directories
               /\ Visible(current)
               /\ \A p \in listed : Parent(p) = current
    /\ \A p \in listed : p \in Directories \union Files /\ Visible(p)

IInv == ConfigInv /\ SelectorInv

LEMMA InitIInv == Init => IInv
<1> SUFFICES ASSUME Init PROVE IInv
  OBVIOUS
<1>1. ConfigOK(NoConfig) /\ NoConfig.count = 0
  BY MaxCountAssumption DEF ConfigOK, NoConfig
<1>2. LoadBooks(NoConfig) = <<>>
  BY <1>1, BooksInNext DEF LoadBooks
<1>3. <<>> \in Seq(Kept)
  BY EmptySeq
<1>4. saved = NoConfig /\ config = NoConfig /\ books = <<>> /\ added = <<>>
  BY DEF Init
<1>5. ConfigInv
  BY <1>1, <1>2, <1>3, <1>4 DEF Init, ConfigInv
<1>6. SelectorInv
  BY DEF Init, SelectorInv
<1> QED
  BY <1>5, <1>6 DEF IInv

-----------------------------------------------------------------------------
(* The steps of the selector                                               *)

LEMMA ListingIsVisible ==
    ASSUME NEW dir, Visible(dir), NEW p \in Listing(dir)
    PROVE  p \in Directories \union Files /\ Visible(p) /\ Parent(p) = dir
<1>1. p \in Directories \union Files /\ Parent(p) = dir /\ ~IsHidden(p)
  BY DEF Listing
<1> QED
  BY <1>1, KeptPaths, ListedIsVisible

\* The list of the roots has no "..".
LEMMA OpenRootSelector == OpenRoot => SelectorInv'
<1> SUFFICES ASSUME OpenRoot PROVE SelectorInv'
  OBVIOUS
<1>1. ~back'
  BY DEF OpenRoot
<1>2. ASSUME NEW p \in listed' PROVE p \in Directories \union Files /\ Visible(p)
  <2>1. PICK r \in RootPaths : p \in Listing(r)
    BY DEF OpenRoot
  <2> QED
    BY <2>1, RootsAreVisible, ListingIsVisible
<1> HIDE DEF Visible
<1> QED
  BY <1>1, <1>2 DEF SelectorInv, Visible, IsUnderRoot, IsUnder, IsHidden

LEMMA ChoicesAreKept ==
    ASSUME SelectorInv, NEW path \in Choices
    PROVE  path \in Kept /\ (path \in Directories => Visible(path))
<1>1. CASE path \in listed \intersect Directories
  BY <1>1 DEF SelectorInv, Kept
<1>2. CASE back /\ path = Parent(current)
  <2>1. current \in Directories /\ Visible(current)
    BY <1>2 DEF SelectorInv
  <2>2. current \in Seq(STRING) /\ Len(current) > 0
    BY <2>1, KeptPaths
  <2> QED
    BY <1>2, <2>1, <2>2, TreesAreWhole, ParentIsVisible DEF Kept
<1> QED
  BY <1>1, <1>2 DEF Choices

LEMMA OpenEntrySelector ==
    ASSUME SelectorInv, NEW path \in Choices, OpenEntry(path)
    PROVE  SelectorInv'
<1>1. CASE path \in RootPaths
  BY <1>1, OpenRootSelector DEF OpenEntry, OpenList, IsSomeRoot
<1>2. CASE path \notin RootPaths
  <2>1. path \in Directories /\ Visible(path)
    BY <1>2, ChoicesAreKept DEF Kept
  <2>2. current' = path /\ listed' = Listing(path)
    BY <1>2 DEF OpenEntry, OpenList, IsSomeRoot
  <2>3. \A p \in listed' : p \in Directories \union Files /\ Visible(p) /\ Parent(p) = path
    BY <2>1, <2>2, ListingIsVisible
  <2> QED
    BY <2>1, <2>2, <2>3 DEF SelectorInv, Visible, IsUnderRoot, IsUnder, IsHidden
<1> QED
  BY <1>1, <1>2

LEMMA NextSelector ==
    ASSUME SelectorInv, [Next]_vars
    PROVE  SelectorInv'
<1>1. UNCHANGED <<current, listed, back>> => SelectorInv'
  BY DEF SelectorInv, Visible, IsUnderRoot, IsUnder, IsHidden
<1>2. CASE Start
  BY <1>2 DEF Start, SelectorInv
<1>3. CASE OpenBook \/ CloseApp
  BY <1>1, <1>3 DEF OpenBook, CloseApp, selector
<1>4. CASE AddNewBook
  BY <1>4, OpenRootSelector DEF AddNewBook
<1>5. CASE Pointer
  BY <1>1, <1>5 DEF Pointer
<1>6. CASE ExitSelector \/ WriteBook \/ FinishAdding \/ PowerOff
  BY <1>1, <1>6 DEF ExitSelector, WriteBook, FinishAdding, PowerOff, selector
<1>7. ASSUME NEW path \in Choices, OpenEntry(path) PROVE SelectorInv'
  BY <1>7, OpenEntrySelector
<1>8. ASSUME NEW path \in Choices, SelectEntry(path) PROVE SelectorInv'
  BY <1>1, <1>8 DEF SelectEntry, selector
<1>9. ASSUME NEW r \in RootPaths, PlugIn(r) \/ Unplug(r) PROVE SelectorInv'
  BY <1>1, <1>9 DEF PlugIn, Unplug, selector
<1>10. CASE UNCHANGED vars
  BY <1>1, <1>10 DEF vars, selector
<1> QED
  BY <1>2, <1>3, <1>4, <1>5, <1>6, <1>7, <1>8, <1>9, <1>10 DEF Next

-----------------------------------------------------------------------------
(* The steps of the settings                                               *)

\* The list is shown from settings that are whole.
LEMMA ShowSaved ==
    ASSUME ConfigInv, screen # "adding", ShowBooklist, UNCHANGED <<config, saved, adding, added>>
    PROVE  ConfigInv'
<1>1. books' = LoadBooks(saved) /\ screen' = "list"
  BY DEF ShowBooklist, ConfigInv
<1>2. books' = added /\ books' \in Seq(Kept)
  BY <1>1, LoadTyped DEF ConfigInv
<1> QED
  BY <1>1, <1>2 DEF ConfigInv

\* Steps to another screen than the list, outside of addBook.
LEMMA OtherScreen ==
    ASSUME ConfigInv, screen # "adding", screen' \notin {"adding", "list"} \/ screen' = screen,
           UNCHANGED <<config, saved, adding, books, added>>
    PROVE  ConfigInv'
BY DEF ConfigInv

LEMMA SelectEntryConfig ==
    ASSUME IInv, NEW path \in Choices, SelectEntry(path)
    PROVE  ConfigInv'
<1>1. path \in Kept
  BY ChoicesAreKept DEF IInv
<1>2. config = saved /\ saved.count < MaxCount /\ ConfigOK(saved)
  BY DEF SelectEntry, IInv, ConfigInv
<1>3. config' = Counted(saved)
  BY <1>2 DEF SelectEntry, ConfigOK, Counted
<1>4. adding' = path /\ screen' = "adding" /\ UNCHANGED <<saved, books, added>>
  BY DEF SelectEntry
<1> QED
  BY <1>1, <1>2, <1>3, <1>4 DEF IInv, ConfigInv

LEMMA WriteBookConfig ==
    ASSUME ConfigInv, WriteBook
    PROVE  ConfigInv'
<1>1. PICK dir \in Kept : \/ adding = dir /\ config = Counted(saved)
                          \/ adding = NoDirectory /\ config = Written(saved, dir)
  BY DEF ConfigInv, WriteBook
<1>2. adding = dir /\ config = Counted(saved)
  BY <1>1 DEF WriteBook
<1>3. config.count = saved.count + 1 /\ config.book = saved.book
      /\ saved.count \in Nat
  BY <1>2, MaxCountAssumption DEF Counted, ConfigInv, ConfigOK
<1>4. config.count - 1 = saved.count
  BY <1>3
<1>5. config' = [config EXCEPT !.book[saved.count] = dir]
  BY <1>2, <1>4 DEF WriteBook
<1>6. config' = Written(saved, dir)
  BY <1>2, <1>5 DEF Counted, Written
<1>7. adding' = NoDirectory /\ screen = "adding" /\ screen' = screen /\ UNCHANGED <<saved, books, added>>
  BY DEF WriteBook
<1> QED
  BY <1>6, <1>7 DEF ConfigInv

LEMMA FinishAddingConfig ==
    ASSUME ConfigInv, FinishAdding
    PROVE  ConfigInv'
<1>1. PICK dir \in Kept : \/ adding = dir /\ config = Counted(saved)
                          \/ adding = NoDirectory /\ config = Written(saved, dir)
  BY DEF ConfigInv, FinishAdding
<1>2. config = Written(saved, dir)
  BY <1>1, KeptNotEmpty DEF FinishAdding
<1>3. ConfigOK(saved) /\ saved.count < MaxCount /\ added = LoadBooks(saved)
  BY DEF ConfigInv, FinishAdding
<1>4. /\ ConfigOK(config) /\ config.book[saved.count] = dir
      /\ LoadBooks(config) = Append(added, dir)
  BY <1>2, <1>3, LoadWritten
<1>5. config.count - 1 = saved.count
  BY <1>2, <1>3, MaxCountAssumption DEF Written, ConfigOK
<1>6. /\ saved' = config /\ added' = Append(added, dir) /\ config' = config
      /\ screen' = "list" /\ books' = LoadBooks(config) /\ adding' = NoDirectory
  BY <1>4, <1>5 DEF FinishAdding, ShowBooklist
<1>7. LoadBooks(config) \in Seq(Kept)
  BY <1>4, LoadTyped
<1>8. ConfigOK(saved)' /\ LoadBooks(saved)' = LoadBooks(config)
  BY <1>4, <1>6 DEF ConfigOK, LoadBooks, BooksIn
<1> QED
  BY <1>4, <1>6, <1>7, <1>8 DEF ConfigInv

LEMMA PowerOffConfig ==
    ASSUME ConfigInv, PowerOff
    PROVE  ConfigInv'
<1>1. PICK cfg \in Survivors :
         /\ config' = cfg /\ saved' = cfg
         /\ added' = IF cfg.book = saved.book THEN added
                     ELSE Append(added, cfg.book[cfg.count - 1])
  BY DEF PowerOff
<1>2. screen' = "off" /\ adding' = NoDirectory /\ books' = books
  BY DEF PowerOff
<1>3. ConfigOK(saved) /\ added = LoadBooks(saved) /\ books \in Seq(Kept)
  BY DEF ConfigInv
<1>4. SUFFICES ConfigOK(cfg) /\ added' = LoadBooks(cfg)
  <2>1. (ConfigOK(saved) /\ added = LoadBooks(saved))' <=> ConfigOK(cfg) /\ added' = LoadBooks(cfg)
    BY <1>1 DEF ConfigOK, LoadBooks, BooksIn
  <2> QED
    BY <1>1, <1>2, <1>3, <2>1 DEF ConfigInv
<1>5. CASE cfg = saved
  BY <1>1, <1>3, <1>5
<1>6. CASE screen = "adding"
  <2>1. PICK dir \in Kept : \/ adding = dir /\ config = Counted(saved)
                            \/ adding = NoDirectory /\ config = Written(saved, dir)
    BY <1>6 DEF ConfigInv
  <2>2. saved.count < MaxCount
    BY <1>6 DEF ConfigInv
  <2>3. [saved EXCEPT !.count = config.count] = Counted(saved)
    <3>1. config.count = saved.count + 1
      BY <2>1 DEF Counted, Written
    <3>2. saved = [count |-> saved.count, book |-> saved.book]
      BY <1>3 DEF ConfigOK
    <3>3. [[count |-> saved.count, book |-> saved.book] EXCEPT !.count = config.count]
            = [count |-> config.count, book |-> saved.book]
      OBVIOUS
    <3> QED
      BY <3>1, <3>2, <3>3 DEF Counted
  <2>4. CASE cfg = Counted(saved)
    <3>1. cfg.book = saved.book
      BY <2>4 DEF Counted
    <3> QED
      BY <1>1, <1>3, <2>2, <2>4, <3>1, LoadCounted
  <2>5. CASE cfg = Written(saved, dir)
    <3>1. cfg.count - 1 = saved.count
      BY <1>3, <2>5, MaxCountAssumption DEF Written, ConfigOK
    <3>2. /\ ConfigOK(cfg) /\ LoadBooks(cfg) = Append(LoadBooks(saved), dir)
          /\ cfg.book[saved.count] = dir /\ cfg.book # saved.book
      BY <1>3, <2>2, <2>5, LoadWritten
    <3> QED
      BY <1>1, <1>3, <3>1, <3>2
  <2> QED
    BY <1>1, <1>5, <2>1, <2>3, <2>4, <2>5 DEF Survivors
<1>7. CASE screen # "adding"
  <2>1. config = saved
    BY <1>7 DEF ConfigInv
  <2>2. [saved EXCEPT !.count = saved.count] = saved
    <3>1. saved = [count |-> saved.count, book |-> saved.book]
      BY <1>3 DEF ConfigOK
    <3>2. [[count |-> saved.count, book |-> saved.book] EXCEPT !.count = saved.count]
            = [count |-> saved.count, book |-> saved.book]
      OBVIOUS
    <3> QED
      BY <3>1, <3>2
  <2> QED
    BY <1>5, <2>1, <2>2 DEF Survivors
<1> QED
  BY <1>6, <1>7

LEMMA NextIInv == IInv /\ [Next]_vars => IInv'
<1> SUFFICES ASSUME IInv, [Next]_vars PROVE IInv'
  OBVIOUS
<1>1. SelectorInv'
  BY NextSelector DEF IInv
<1> SUFFICES ConfigInv'
  BY <1>1 DEF IInv
<1>2. CASE Start \/ ExitSelector
  BY <1>2, ShowSaved DEF Start, ExitSelector, IInv
<1>3. CASE OpenBook \/ CloseApp
  BY <1>3, OtherScreen DEF OpenBook, CloseApp, IInv
<1>4. CASE AddNewBook \/ Pointer
  BY <1>4, OtherScreen DEF AddNewBook, Pointer, IInv
<1>5. CASE WriteBook
  BY <1>5, WriteBookConfig DEF IInv
<1>6. CASE FinishAdding
  BY <1>6, FinishAddingConfig DEF IInv
<1>7. CASE PowerOff
  BY <1>7, PowerOffConfig DEF IInv
<1>8. ASSUME NEW path \in Choices, OpenEntry(path) PROVE ConfigInv'
  BY <1>8, OtherScreen DEF OpenEntry, IInv
<1>9. ASSUME NEW path \in Choices, SelectEntry(path) PROVE ConfigInv'
  BY <1>9, SelectEntryConfig
<1>10. CASE UNCHANGED <<config, saved, adding, screen, books, added>>
  BY <1>10 DEF IInv, ConfigInv, ConfigOK, LoadBooks, BooksIn, Counted, Written
<1>11. ASSUME NEW r \in RootPaths, PlugIn(r) \/ Unplug(r) PROVE ConfigInv'
  BY <1>10, <1>11 DEF PlugIn, Unplug
<1>12. CASE UNCHANGED vars
  BY <1>10, <1>12 DEF vars
<1> QED
  BY <1>2, <1>3, <1>4, <1>5, <1>6, <1>7, <1>8, <1>9, <1>11, <1>12 DEF Next

-----------------------------------------------------------------------------
(* The theorems                                                            *)

LEMMA Invariance == Spec => []IInv
BY InitIInv, NextIInv, PTL DEF Spec

\* The list shows the books that were added, whenever the device was switched
\* off (pocketmanga.cpp:55-77).
THEOREM ListShows == Spec => []ListShowsAddedBooks
<1>1. IInv => ListShowsAddedBooks
  BY DEF IInv, ConfigInv, ListShowsAddedBooks
<1> QED
  BY <1>1, Invariance, PTL

\* What is added is a directory of the device (directoryselect.cpp:184-206).
THEOREM BooksStayDirectories == Spec => []BooksAreDirectories
<1>1. IInv => BooksAreDirectories
  BY DEF IInv, ConfigInv, BooksAreDirectories, Kept
<1> QED
  BY <1>1, Invariance, PTL

\* ".." never leads out of the roots (directoryselect.cpp:191-194, 236-274).
THEOREM SelectorStaysBelowRoots == Spec => []StaysBelowRoots
<1>1. IInv => StaysBelowRoots
  BY KeptPaths DEF IInv, SelectorInv, StaysBelowRoots
<1> QED
  BY <1>1, Invariance, PTL

\* ".." goes back to a list that has the directory that was left, if its card
\* is still there (directoryselect.cpp:236-257).
THEOREM BackShows == Spec => BackShowsWhereOneWas
<1>1. ASSUME IInv, OpenEntry(Parent(current)), back,
             NEW s \in plugged, IsUnder(current, s)
      PROVE  current \in listed'
  <2>1. current \in Directories /\ Visible(current)
    BY <1>1 DEF IInv, SelectorInv
  <2>2. ~IsHidden(current)
    BY <2>1, KeptPaths, VisibleIsNotHidden
  <2>3. current \in Listing(Parent(current))
    BY <1>1, <2>1, <2>2 DEF Listing
  <2>4. CASE Parent(current) \in RootPaths
    BY <1>1, <2>3, <2>4 DEF OpenEntry, OpenList, IsSomeRoot, OpenRoot
  <2>5. CASE Parent(current) \notin RootPaths
    BY <1>1, <2>3, <2>5 DEF OpenEntry, OpenList, IsSomeRoot
  <2> QED
    BY <2>4, <2>5
<1>2. IInv => [OpenEntry(Parent(current)) /\ back /\ (\E r \in plugged : IsUnder(current, r))
                  => current \in listed']_vars
  BY <1>1
<1> QED
  BY <1>2, Invariance, PTL DEF BackShowsWhereOneWas
=============================================================================
