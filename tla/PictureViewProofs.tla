------------------------- MODULE PictureViewProofs -------------------------
(***************************************************************************)
(* The keys of the PocketBook program, proved for pages and screens of     *)
(* every size, as long as a screen is upright and a scaled page fits an    *)
(* unsigned, and for books of every length.                                *)
(***************************************************************************)
EXTENDS PictureView, OpsProofs

\* The caches of the slots are CacheScalers.
Scales == \A d, cache, page : OnLoaded(d, cache, page) = ScalerOnLoaded(d, cache, page)

AnyRoot == Roots \union {NoPath}

-----------------------------------------------------------------------------
(* Scaling and stepping                                                    *)

\* A page that is scaled to the height of an upright screen is as wide as the screen.
LEMMA QuotientAtLeast ==
    ASSUME NEW a \in Nat, NEW n \in Nat \ {0}, NEW m \in Nat \ {0}, m <= n
    PROVE  (a * n) \div m \in Nat /\ a <= (a * n) \div m
<1> DEFINE q == (a * n) \div m
<1>1. a * n \in Nat /\ a * m \in Nat /\ a * m <= a * n
  OBVIOUS
<1>2. q \in Nat /\ m * q <= a * n /\ a * n < m * (q + 1)
  BY <1>1
<1> HIDE DEF q
<1>3. a * m < m * (q + 1)
  BY <1>1, <1>2
<1>4. a < q + 1
  BY <1>2, <1>3
<1> QED
  BY <1>2, <1>4 DEF q

LEMMA ScaledPageCovers ==
    ASSUME NEW s \in Sizes, s.width <= s.height,
           NEW pixels, pixels.width \in Nat \ {0}, pixels.height \in Nat \ {0}
    PROVE  ScaledWidth(s, pixels) \in Nat /\ s.width <= ScaledWidth(s, pixels)
<1>1. s.width \in Nat /\ s.height \in Nat
  BY DEF Sizes
<1>2. CASE pixels.width <= pixels.height
  <2>1. /\ (s.height * pixels.height) \div pixels.width \in Nat
        /\ s.height <= (s.height * pixels.height) \div pixels.width
    BY <1>1, <1>2, QuotientAtLeast
  <2> QED
    BY <1>1, <1>2, <2>1 DEF ScaledWidth
<1>3. CASE ~(pixels.width <= pixels.height)
  <2>1. pixels.height <= pixels.width
    BY <1>3
  <2>2. /\ (s.height * pixels.width) \div pixels.height \in Nat
        /\ s.height <= (s.height * pixels.width) \div pixels.height
    BY <1>1, <2>1, QuotientAtLeast
  <2> QED
    BY <1>1, <1>3, <2>2 DEF ScaledWidth
<1> QED
  BY <1>2, <1>3

\* The caches of a screen, standing at a frame inside their page.
Pages(d) == d.images \union {NoPathToFile}

Caches(d, s) ==
    {c \in [screen : {s}, page : Pages(d), width : Nat, x : Nat, thrown : BOOLEAN] :
        /\ c.page # NoPathToFile =>
              /\ c.width = ScaledWidth(s, d.pixels[c.page])
              /\ c.x + s.width <= c.width
              /\ c.x \in {0, SecondFrame(c), ThirdFrame(c)}
        /\ c.page = NoPathToFile => c.x = 0}

\* The places that next() and previous() step to.
LEMMA StepsInside ==
    ASSUME NEW d \in Disks, NEW s \in Screens, NEW c \in Caches(d, s), c.page # NoPathToFile
    PROVE  /\ SecondFrame(c) \in Nat /\ SecondFrame(c) + s.width <= c.width
           /\ SecondFrame(c) = (c.width - s.width) \div 2
           /\ ThirdFrame(c) \in Int
           /\ c.x < ThirdFrame(c) => ThirdFrame(c) = c.width - s.width
           /\ c.width < UIntRange \div 2 => ThirdFrame(c) = c.width - s.width
<1> DEFINE u == c.width - s.width
<1>1. /\ c.screen = s /\ s.width \in Nat \ {0} /\ c.width \in Nat /\ c.x \in Nat
      /\ s.width <= c.width /\ c.width < UIntRange
  BY ScreensUpright, PagesFit DEF Caches, Pages, Sizes
<1>2. UIntRange \in Nat /\ UIntRange = 2 * (UIntRange \div 2) /\ UIntRange \div 2 \in Nat
  BY UIntRangeAssumption
<1>3. Minus(c.width, c.screen.width) = u /\ u \in Nat /\ u < UIntRange
  <2>1. u \in Nat /\ u < UIntRange
    BY <1>1, <1>2
  <2>2. c.screen.width = s.width /\ c.width >= s.width
    BY <1>1
  <2> QED
    BY <2>1, <2>2 DEF Minus
<1>4. u \div 2 \in Nat /\ u \div 2 <= u /\ 2 * (u \div 2) <= u
  BY <1>3
<1>5. u \div 2 < UIntRange \div 2
  BY <1>2, <1>3, <1>4
<1>6. SecondFrame(c) = u \div 2
  BY <1>3, <1>5 DEF SecondFrame, ToInt
<1>7. ThirdFrame(c) = IF u < UIntRange \div 2 THEN u ELSE u - UIntRange
  BY <1>3 DEF ThirdFrame, ToInt
<1>8. c.width < UIntRange \div 2 => u < UIntRange \div 2
  BY <1>1, <1>2
<1>9. (u \div 2) + s.width <= c.width
  <2>1. u + s.width = c.width
    BY <1>1
  <2> QED
    BY <1>1, <1>3, <1>4, <2>1
<1>10. SecondFrame(c) \in Nat /\ SecondFrame(c) + s.width <= c.width /\ SecondFrame(c) = u \div 2
  BY <1>4, <1>6, <1>9
<1>11. /\ ThirdFrame(c) \in Int
       /\ c.x < ThirdFrame(c) => ThirdFrame(c) = u
       /\ c.width < UIntRange \div 2 => ThirdFrame(c) = u
  <2> HIDE DEF u
  <2> QED
    BY <1>1, <1>2, <1>3, <1>7, <1>8
<1> QED
  BY <1>10, <1>11

LEMMA MovedInside ==
    ASSUME NEW d, NEW s, NEW c \in Caches(d, s), NEW x \in Nat, c.page # NoPathToFile,
           x + s.width <= c.width, x \in {0, SecondFrame(c), ThirdFrame(c)}
    PROVE  [c EXCEPT !.x = x] \in Caches(d, s)
<1> DEFINE Typed == [screen : {s}, page : Pages(d), width : Nat, x : Nat, thrown : BOOLEAN]
           new == [c EXCEPT !.x = x]
<1>1. c \in Typed
  BY DEF Caches
<1>2. /\ new \in Typed /\ new.x = x /\ new.width = c.width /\ new.page = c.page
      /\ new.screen = c.screen
  BY <1>1
<1> HIDE DEF new
<1>3. SecondFrame(new) = SecondFrame(c) /\ ThirdFrame(new) = ThirdFrame(c)
  BY <1>2 DEF SecondFrame, ThirdFrame
<1>4. new \in Caches(d, s)
  BY <1>2, <1>3 DEF Caches
<1> QED
  BY <1>4 DEF new

\* A step within the page.
StepsWithin(d, s, c, r) ==
    /\ r.cache \in Caches(d, s)
    /\ r.cache.page = c.page /\ r.cache.thrown = c.thrown
    /\ r.ok => c.page # NoPathToFile

LEMMA BoundsInside ==
    ASSUME NEW d \in Disks, NEW s \in Screens, NEW c \in Caches(d, s)
    PROVE  /\ StepsWithin(d, s, c, NextBounds(c))
           /\ StepsWithin(d, s, c, PreviousBounds(c))
<1>1. StepsWithin(d, s, c, Stays(c))
  BY DEF Stays, StepsWithin
<1>2. CASE c.page = NoPathToFile
  BY <1>1, <1>2 DEF NextBounds, PreviousBounds
<1>3. CASE c.page # NoPathToFile
  <2>1. s.width \in Nat \ {0} /\ c.width \in Nat /\ c.x \in Nat /\ c.x + s.width <= c.width
    BY <1>3, ScreensUpright DEF Caches, Sizes
  <2>2. ASSUME NEW x \in Nat, x + s.width <= c.width, x \in {0, SecondFrame(c), ThirdFrame(c)}
        PROVE  StepsWithin(d, s, c, Moved(c, x))
    <3>1. [c EXCEPT !.x = x] \in Caches(d, s)
      BY <1>3, <2>2, MovedInside
    <3>2. [c EXCEPT !.x = x].page = c.page /\ [c EXCEPT !.x = x].thrown = c.thrown
      BY DEF Caches
    <3> QED
      BY <1>3, <3>1, <3>2 DEF Moved, StepsWithin
  <2>3. StepsWithin(d, s, c, Moved(c, SecondFrame(c)))
    BY <1>3, <2>2, StepsInside
  <2>4. c.x < ThirdFrame(c) => StepsWithin(d, s, c, Moved(c, ThirdFrame(c)))
    <3>1. c.x < ThirdFrame(c) => ThirdFrame(c) \in Nat /\ ThirdFrame(c) + s.width <= c.width
      BY <1>3, <2>1, StepsInside
    <3> QED
      BY <2>2, <3>1
  <2>5. StepsWithin(d, s, c, Moved(c, 0))
    BY <2>1, <2>2
  <2> QED
    BY <1>1, <1>3, <2>3, <2>4, <2>5 DEF NextBounds, PreviousBounds
<1> QED
  BY <1>2, <1>3

\* A page that is loaded is shown from its beginning.
LEMMA LoadedInside ==
    ASSUME NEW d \in Disks, NEW s \in Screens, NEW c \in Caches(d, s), NEW page \in d.images,
           NEW new, new = ScalerOnLoaded(d, c, page)
    PROVE  /\ new \in Caches(d, s) /\ new.x = 0
           /\ IsColour(d, page) => new.page = page
           /\ new.page # NoPathToFile \/ new.thrown
<1> DEFINE w == ScaledWidth(s, d.pixels[page])
           Typed == [screen : {s}, page : Pages(d), width : Nat, x : Nat, thrown : BOOLEAN]
<1>1. /\ s \in Sizes /\ s.width <= s.height /\ page # NoPathToFile
      /\ d.pixels[page].width \in Nat \ {0} /\ d.pixels[page].height \in Nat \ {0}
  BY ScreensUpright, DisksAssumption
<1>2. w \in Nat /\ s.width <= w
  BY <1>1, ScaledPageCovers
<1>3. c \in Typed /\ c.screen = s
  BY DEF Caches
<1>4. s.width \in Nat
  BY <1>1 DEF Sizes
<1>5. CASE IsColour(d, page)
  <2>1. new = [c EXCEPT !.page = page, !.x = 0, !.width = w]
    BY <1>3, <1>5 DEF ScalerOnLoaded, ShowFromBeginning
  <2>2. page \in Pages(d)
    BY DEF Pages
  <2> HIDE DEF w
  <2>3. new \in Typed /\ new.x = 0 /\ new.width = w /\ new.page = page
    <3>1. c = [screen |-> c.screen, page |-> c.page, width |-> c.width, x |-> c.x,
               thrown |-> c.thrown] /\ c.thrown \in BOOLEAN
      BY <1>3
    <3>2. new = [screen |-> s, page |-> page, width |-> w, x |-> 0, thrown |-> c.thrown]
      BY <1>3, <2>1, <3>1
    <3> QED
      BY <1>2, <2>2, <3>1, <3>2
  <2> HIDE DEF Typed
  <2>4. new \in Caches(d, s)
    BY <1>1, <1>2, <1>4, <2>3 DEF Caches, Typed, w
  <2> QED
    BY <1>1, <2>3, <2>4
<1>6. CASE ~IsColour(d, page) /\ c.page = NoPathToFile
  <2>1. new = [c EXCEPT !.thrown = TRUE]
    BY <1>6 DEF ScalerOnLoaded
  <2>2. new \in Typed /\ new.x = c.x /\ new.page = c.page /\ new.thrown
    BY <1>3, <2>1
  <2> QED
    BY <1>6, <2>2 DEF Caches
<1>7. CASE ~IsColour(d, page) /\ c.page # NoPathToFile
  <2>1. new = [c EXCEPT !.x = 0]
    BY <1>7 DEF ScalerOnLoaded
  <2>2. 0 \in Nat /\ 0 + s.width <= c.width
    BY <1>4, <1>7 DEF Caches
  <2>3. new \in Caches(d, s)
    BY <1>7, <2>1, <2>2, MovedInside
  <2>4. new.x = 0 /\ new.page = c.page
    BY <1>3, <2>1
  <2> QED
    BY <1>7, <2>3, <2>4
<1> QED
  BY <1>5, <1>6, <1>7

-----------------------------------------------------------------------------
(* The slots of the book                                                   *)

\* What the cache shows of an image: itself if it is in colours, or some page,
\* unless an exception has ended the program.
ShowsImage(d, slot) ==
    slot.image \in d.images => /\ IsColour(d, slot.image) => slot.cache.page = slot.image
                               /\ slot.cache.page # NoPathToFile \/ slot.cache.thrown

SlotsOf(d, s) ==
    {slot \in [image : Pages(d) \union d.damaged, bookmark : Pages(d), cache : Caches(d, s)] :
        ShowsImage(d, slot)}

\* Those that show their page from the beginning.
FreshSlots(d, s) == {slot \in SlotsOf(d, s) : slot.cache.x = 0}

EmptySlotOf(s) == EmptySlotWith(NewCacheScaler(s))

LEMMA SlotsOfClosed ==
    ASSUME Scales, NEW d \in Disks, NEW s \in Screens
    PROVE  /\ SlotsClosed(d, SlotsOf(d, s))
           /\ EmptySlotOf(s) \in SlotsOf(d, s)
           /\ JustLoaded(d, SlotsOf(d, s)) \subseteq FreshSlots(d, s)
<1> DEFINE Typed == [image : Pages(d) \union d.damaged, bookmark : Pages(d), cache : Caches(d, s)]
<1>1. NoPathToFile \notin d.images /\ d.images \intersect d.damaged = {}
  BY DisksAssumption
<1>2. ASSUME NEW slot \in SlotsOf(d, s), NEW page \in d.images
      PROVE  [image |-> page, bookmark |-> page, cache |-> OnLoaded(d, slot.cache, page)]
                \in FreshSlots(d, s)
  <2> DEFINE cache == OnLoaded(d, slot.cache, page)
             new == [image |-> page, bookmark |-> page, cache |-> cache]
  <2>1. cache = ScalerOnLoaded(d, slot.cache, page) /\ slot.cache \in Caches(d, s)
    BY DEF Scales, SlotsOf
  <2> HIDE DEF cache
  <2>2. /\ cache \in Caches(d, s) /\ cache.x = 0
        /\ IsColour(d, page) => cache.page = page
        /\ cache.page # NoPathToFile \/ cache.thrown
    BY <2>1, LoadedInside
  <2>3. page \in Pages(d)
    BY DEF Pages
  <2>4. new \in Typed /\ new.image = page /\ new.cache = cache
    BY <2>2, <2>3
  <2> HIDE DEF new
  <2>5. new \in FreshSlots(d, s)
    BY <2>2, <2>4 DEF FreshSlots, SlotsOf, ShowsImage
  <2> QED
    BY <2>5 DEF new, cache
<1>3. ASSUME NEW slot \in SlotsOf(d, s) PROVE ClearSlot(slot) \in SlotsOf(d, s)
  BY <1>1 DEF ClearSlot, SlotsOf, Pages, ShowsImage
<1>4. ASSUME NEW slot \in SlotsOf(d, s), NEW page \in d.damaged
      PROVE  [slot EXCEPT !.image = page] \in SlotsOf(d, s)
  BY <1>1 DEF SlotsOf, ShowsImage
<1>5. EmptySlotOf(s) \in SlotsOf(d, s)
  <2>1. NewCacheScaler(s) \in Caches(d, s)
    BY DEF NewCacheScaler, Caches, Pages
  <2> QED
    BY <1>1, <2>1 DEF EmptySlotOf, EmptySlotWith, EmptySlot, SlotsOf, Pages, ShowsImage
<1>6. \A slot \in FreshSlots(d, s) : slot \in SlotsOf(d, s)
  BY DEF FreshSlots
<1>7. JustLoaded(d, SlotsOf(d, s)) \subseteq FreshSlots(d, s)
  BY <1>2 DEF JustLoaded
<1> QED
  BY <1>2, <1>3, <1>4, <1>5, <1>6, <1>7 DEF SlotsClosed

-----------------------------------------------------------------------------
(* The inductive invariant.  FramesInsidePages is not inductive: a step    *)
(* from a frame needs the page to be no wider than an unsigned, and a page *)
(* that is loaded needs the screen of its cache to be that of the program. *)

IInv == /\ disk \in Disks
        /\ screen \in Screens
        /\ BookOK(AnyRoot, Paths, disk, SlotsOf(disk, screen), book)

LEMMA InitIInv == Init => IInv
<1> SUFFICES ASSUME Init PROVE IInv
  OBVIOUS
<1>1. BookOK(AnyRoot, Paths, disk, SlotsOf(disk, screen), NewBook)
  BY NewBookOK DEF AnyRoot
<1> QED
  BY <1>1 DEF Init, IInv

\* Another frame of the current page changes nothing but its cache.
AtFrame(b, cache) == [b EXCEPT !.current.cache = cache]

LEMMA SteppedOK ==
    ASSUME NEW R, NEW P, NEW d, NEW s, NEW G, NEW b, NEW bounds, NEW c,
           G = SlotsOf(d, s), BookOK(R, P, d, G, b),
           b.cached => StepsWithin(d, s, b.current.cache, bounds),
           c = AtFrame(b, bounds.cache)
    PROVE  /\ BookMoves(R, P, d, G, b, c)
           /\ c.current.image = b.current.image /\ c.current.cache = bounds.cache
           /\ c.previous = b.previous /\ c.next = b.next
<1> DEFINE slot == [b.current EXCEPT !.cache = bounds.cache]
<1>1. SlotFits(d, G, b, b.current) /\ BookShape(b)
  BY DEF BookOK, SlotsIn
<1>2. /\ SlotShape(slot) /\ slot.bookmark = b.current.bookmark
      /\ slot.image = b.current.image /\ slot.cache = bounds.cache
  BY <1>1 DEF SlotFits, SlotShape
<1> HIDE DEF slot
<1>3. b.cached => slot \in G
  <2> SUFFICES ASSUME b.cached PROVE slot \in G
    OBVIOUS
  <2> DEFINE Typed == [image : Pages(d) \union d.damaged, bookmark : Pages(d),
                       cache : Caches(d, s)]
  <2>1. /\ b.current \in Typed /\ ShowsImage(d, b.current)
        /\ bounds.cache \in Caches(d, s)
        /\ bounds.cache.page = b.current.cache.page
        /\ bounds.cache.thrown = b.current.cache.thrown
    BY <1>1 DEF SlotFits, SlotsOf, StepsWithin
  <2>2. slot \in Typed
    BY <1>2, <2>1 DEF SlotShape
  <2>3. ShowsImage(d, slot)
    BY <1>2, <2>1 DEF ShowsImage
  <2> QED
    BY <2>2, <2>3 DEF SlotsOf
<1>4. SlotFits(d, G, b, slot)
  BY <1>1, <1>2, <1>3 DEF SlotFits
<1>5. c = WithCurrent(b, slot)
  BY <1>1 DEF slot, AtFrame, WithCurrent
<1>6. BookMoves(R, P, d, G, b, c)
  BY <1>4, <1>5, SlotOK
<1>7. c.current = slot /\ c.previous = b.previous /\ c.next = b.next
  BY <1>1, <1>5, SetSlots
<1> QED
  BY <1>2, <1>6, <1>7

\* Whatever becomes of the answer of the book, the book was left good.
LEMMA AnswerKeeps ==
    ASSUME NEW R, NEW P, NEW G, DiskOK(P, disk), SlotsClosed(disk, G),
           NEW r, BookOK(R, P, disk, G, r.book), EndsIn(r) \/ DrawAndPreload(r) \/ Refused(r)
    PROVE  BookOK(R, P, disk, G, book')
<1>1. BookOK(R, P, disk, G, PreloadAll(r.book, disk))
  BY PreloadAllOK DEF BookMoves
<1>2. book' = r.book \/ book' = PreloadAll(r.book, disk)
  BY DEF EndsIn, DrawAndPreload, Refused
<1> QED
  BY <1>1, <1>2

\* A step within the page, or an answer of the book.
LEMMA StepKeeps ==
    ASSUME NEW P, NEW R, NEW s, NEW d, NEW G, NEW bounds, NEW r, G = SlotsOf(d, s),
           d = disk, DiskOK(P, d), SlotsClosed(d, G), BookOK(R, P, d, G, book),
           book.cached => StepsWithin(d, s, book.current.cache, bounds),
           BookOK(R, P, d, G, r.book), StepTo(bounds, r)
    PROVE  BookOK(R, P, d, G, book')
<1>1. CASE book' = AtFrame(book, bounds.cache)
  BY <1>1, SteppedOK DEF BookMoves
<1>2. CASE EndsIn(r) \/ DrawAndPreload(r) \/ Refused(r)
  BY <1>2, AnswerKeeps
<1> QED
  BY <1>1, <1>2 DEF StepTo, AtFrame

\* The book that setBook is given: nothing is loaded, and its list is the root's.
JustSet(b, root) ==
    /\ BookOK(AnyRoot, Paths, disk, SlotsOf(disk, screen), b)
    /\ b.cached /\ b.explorer.root = root /\ b.explorer.files = disk.files[root]
    /\ b.previous = EmptySlotOf(screen) /\ b.current = EmptySlotOf(screen)
    /\ b.next = EmptySlotOf(screen)

BookOfRoot(root) ==
    WithCaches(WithExplorer(NewBook, SetRootPath(NewExplorer, disk, root).ex),
               NewCacheScaler(screen))

LEMMA SetBookStarts ==
    ASSUME Scales, IInv, NEW root \in Roots, SetBook(root)
    PROVE  \E b : /\ JustSet(b, root) /\ b = BookOfRoot(root)
                  /\ LET r == ToFirst(b, disk)
                     IN  EndsIn(r) \/ DrawAndPreload(r) \/ Refused(r)
<1> DEFINE G == SlotsOf(disk, screen)
           new == WithRoot(NewExplorer, disk, root)
           r == SetRootPath(NewExplorer, disk, root)
           b0 == WithExplorer(NewBook, r.ex)
           b == WithCaches(b0, NewCacheScaler(screen))
<1>1. DiskOK(Paths, disk) /\ root \in AnyRoot /\ NoPath \in AnyRoot /\ root \in DOMAIN disk.files
  BY DisksAssumption DEF IInv, AnyRoot
<1>2. ExplorerOK(AnyRoot, Paths, disk, r.ex) /\ r.ex.root = root /\ r.ex.files = disk.files[root]
  <2>1. MovesWithin(AnyRoot, Paths, disk, new, r)
    BY <1>1, FirstRootOK
  <2>2. new.root = root /\ new.files = disk.files[root]
    BY <1>1 DEF WithRoot, NewExplorer, ListFiles
  <2> QED
    BY <2>1, <2>2 DEF MovesWithin
<1> HIDE DEF r
<1>3. /\ BookShape(NewBook) /\ NewBook.previous = EmptySlot /\ NewBook.current = EmptySlot
      /\ NewBook.next = EmptySlot
  BY <1>1, NewBookOK
<1>4. /\ BookShape(b0) /\ b0.explorer = r.ex
      /\ b0.previous = EmptySlot /\ b0.current = EmptySlot /\ b0.next = EmptySlot
  BY <1>3, SetExplorer
<1>5. EmptySlotOf(screen) \in G
  BY SlotsOfClosed DEF IInv
<1>6. LET e == ToFirst(b, disk) IN EndsIn(e) \/ DrawAndPreload(e) \/ Refused(e)
  BY DEF SetBook, b0, r, WithExplorer
<1>7. b = BookOfRoot(root)
  BY DEF BookOfRoot, b0, r
<1> HIDE DEF b0
<1>8. /\ BookOK(AnyRoot, Paths, disk, G, b) /\ b.explorer = r.ex /\ b.cached
      /\ b.previous = EmptySlotOf(screen) /\ b.current = EmptySlotOf(screen)
      /\ b.next = EmptySlotOf(screen)
  <2> DEFINE prototype == NewCacheScaler(screen)
  <2>1. EmptySlotOf(screen) = EmptySlotWith(prototype)
    BY DEF EmptySlotOf
  <2>2. /\ EmptySlotWith(prototype) \in G /\ BookShape(b0)
        /\ ExplorerOK(AnyRoot, Paths, disk, b0.explorer)
        /\ b0.previous = EmptySlot /\ b0.current = EmptySlot /\ b0.next = EmptySlot
    BY <1>2, <1>4, <1>5, <2>1
  <2>3. b = WithCaches(b0, prototype)
    OBVIOUS
  <2> HIDE DEF prototype, b, G
  <2>4. /\ BookOK(AnyRoot, Paths, disk, G, b) /\ b.explorer = b0.explorer /\ b.cached
        /\ b.previous = EmptySlotWith(prototype) /\ b.current = EmptySlotWith(prototype)
        /\ b.next = EmptySlotWith(prototype)
    BY <2>2, <2>3, WithCachesOK
  <2> QED
    BY <1>4, <2>1, <2>4
<1> HIDE DEF b
<1> QED
  BY <1>2, <1>6, <1>7, <1>8 DEF JustSet

LEMMA NextIInv == ASSUME Scales PROVE IInv /\ [Next]_vars => IInv'
<1> SUFFICES ASSUME IInv, [Next]_vars PROVE IInv'
  OBVIOUS
<1> DEFINE G == SlotsOf(disk, screen)
<1>1. /\ disk \in Disks /\ screen \in Screens /\ DiskOK(Paths, disk)
      /\ SlotsClosed(disk, G) /\ BookOK(AnyRoot, Paths, disk, G, book)
  BY DisksAssumption, SlotsOfClosed DEF IInv
<1>2. book.cached => /\ StepsWithin(disk, screen, book.current.cache, NextBounds(book.current.cache))
                     /\ StepsWithin(disk, screen, book.current.cache,
                                    PreviousBounds(book.current.cache))
  BY <1>1, BoundsInside DEF SlotsOf, BookOK, SlotsIn, SlotFits
<1>3. ASSUME disk' = disk, screen' = screen, BookOK(AnyRoot, Paths, disk, G, book')
      PROVE  IInv'
  BY <1>1, <1>3 DEF IInv
<1>4. ASSUME NEW root \in Roots, SetBook(root) PROVE IInv'
  <2>1. PICK b : /\ JustSet(b, root)
                 /\ LET r == ToFirst(b, disk)
                    IN  EndsIn(r) \/ DrawAndPreload(r) \/ Refused(r)
    BY <1>4, SetBookStarts
  <2>2. BookOK(AnyRoot, Paths, disk, G, ToFirst(b, disk).book)
    BY <1>1, <2>1, ToFirstOK DEF JustSet, BookMoves
  <2>3. BookOK(AnyRoot, Paths, disk, G, book')
    BY <1>1, <2>1, <2>2, AnswerKeeps
  <2> QED
    BY <1>3, <1>4, <2>3 DEF SetBook
<1>5. CASE NextKey
  <2>1. BookOK(AnyRoot, Paths, disk, G, Increment(book, disk).book)
    BY <1>1, TurnsOK DEF BookMoves
  <2>2. BookOK(AnyRoot, Paths, disk, G, book')
    BY <1>1, <1>2, <1>5, <2>1, StepKeeps DEF NextKey
  <2> QED
    BY <1>3, <1>5, <2>2 DEF NextKey
<1>6. CASE PreviousKey
  <2>1. BookOK(AnyRoot, Paths, disk, G, Decrement(book, disk).book)
    BY <1>1, TurnsOK DEF BookMoves
  <2>2. BookOK(AnyRoot, Paths, disk, G, book')
    BY <1>1, <1>2, <1>6, <2>1, StepKeeps DEF PreviousKey
  <2> QED
    BY <1>3, <1>6, <2>2 DEF PreviousKey
<1>7. CASE UNCHANGED vars
  BY <1>1, <1>3, <1>7 DEF vars
<1> QED
  BY <1>4, <1>5, <1>6, <1>7 DEF Next

\* On an upright screen every frame lies inside its page (cacheScaler.cpp:34-66),
\* if onLoaded of the slots' caches is that of CacheScaler.
THEOREM FramesStayInside ==
    ASSUME Scales
    PROVE  Spec => []FramesInsidePages
<1>1. IInv => FramesInsidePages
  <2> SUFFICES ASSUME IInv, book.cached, NEW slot \in Slots(book) PROVE FrameInside(slot.cache)
    BY DEF FramesInsidePages
  <2>1. slot.cache \in Caches(disk, screen) /\ screen \in Sizes
    BY ScreensUpright DEF IInv, BookOK, SlotsIn, SlotFits, SlotsOf, Slots
  <2> QED
    BY <2>1 DEF FrameInside, Caches
<1>2. IInv /\ [Next]_vars => IInv'
  BY NextIInv
<1> QED
  BY <1>1, <1>2, InitIInv, PTL DEF Spec

-----------------------------------------------------------------------------
(***************************************************************************)
(* Where no file is damaged: what is drawn.  A page before the first that  *)
(* was drawn is never drawn by next(): next_ holds the page from its       *)
(* beginning, and current_ is told of no page until one is shown.          *)
(***************************************************************************)
NothingDamaged == \A d \in Disks : d.damaged = {}

\* The book reads the root: what holds of it between two keys.
BookReads(d, s, b) == /\ OpenBook(AnyRoot, Names, d, SlotsOf(d, s), b)
                      /\ b.cached
                      /\ PagesHeld(d, b)
                      /\ NextIn(FreshSlots(d, s), b)
                      /\ IsEmptySlot(b.current) => b.current.cache = NewCacheScaler(s)

\* What previous() would show, if the last key was next().
UndoFits == /\ ~IsEmptySlot(book.current)
            /\ \/ /\ PreviousBounds(book.current.cache).ok
                  /\ undo = Frame(PreviousBounds(book.current.cache).cache)
               \/ /\ ~PreviousBounds(book.current.cache).ok
                  /\ ~IsEmptySlot(book.previous) /\ undo = Frame(book.previous.cache)

PagesInv == /\ IInv
            /\ ~Opened => book = NewBook /\ drawn = NoFrame /\ undo = NoFrame
            /\ Opened => BookReads(disk, screen, book)
            /\ Opened /\ ~Ended(book) => drawn = Frame(book.current.cache)
            /\ undo # NoFrame => UndoFits

\* The slots of a book that is read.
LEMMA SlotsRead ==
    ASSUME NEW d \in Disks, d.damaged = {}, NEW s \in Screens, NEW b, BookReads(d, s, b)
    PROVE  /\ b.previous \in SlotsOf(d, s) /\ b.current \in SlotsOf(d, s)
           /\ b.next \in SlotsOf(d, s)
           /\ b.current.cache \in Caches(d, s)
           /\ ~IsEmptySlot(b.current) =>
                 /\ b.current.image \in d.images
                 /\ b.current.cache.page # NoPathToFile \/ Ended(b)
<1>1. BookOK(AnyRoot, Path(Names), d, SlotsOf(d, s), b) /\ b.cached /\ PagesHeld(d, b)
  BY DEF BookReads, OpenBook
<1>2. /\ b.previous \in SlotsOf(d, s) /\ b.current \in SlotsOf(d, s) /\ b.next \in SlotsOf(d, s)
      /\ b.current.image = b.current.bookmark
      /\ b.explorer.files # <<>> => b.current.bookmark \in Marks(d, b.explorer.files)
  BY <1>1 DEF BookOK, SlotsIn, SlotFits
<1>3. b.current.cache \in Caches(d, s) /\ ShowsImage(d, b.current)
  BY <1>2 DEF SlotsOf
<1>4. ~IsEmptySlot(b.current) => b.current.image \in d.images
  BY <1>1, <1>2 DEF PagesHeld, Marks, IsEmptySlot
<1> QED
  BY <1>1, <1>2, <1>3, <1>4 DEF ShowsImage, Ended, Slots

LEMMA OpenBookMoves ==
    ASSUME NEW R, NEW N, NEW d, NEW G, NEW b, NEW c,
           OpenBook(R, N, d, G, b), BookMoves(R, Path(N), d, G, b, c)
    PROVE  OpenBook(R, N, d, G, c)
BY DEF OpenBook, BookMoves

\* The assumptions of the lemmas about books.
LEMMA ReadingFits ==
    ASSUME Scales, NEW d \in Disks, NEW s \in Screens, NEW b, BookReads(d, s, b)
    PROVE  /\ SlotsClosed(d, SlotsOf(d, s))
           /\ JustLoaded(d, SlotsOf(d, s)) \subseteq FreshSlots(d, s)
           /\ DiskOK(Path(Names), d) /\ BookOK(AnyRoot, Path(Names), d, SlotsOf(d, s), b)
           /\ BookShape(b)
BY SlotsOfClosed DEF BookReads, OpenBook, BookOK

\* preload
LEMMA PreloadReads ==
    ASSUME Scales, NEW d \in Disks, NEW s \in Screens, NEW b, BookReads(d, s, b),
           NEW c, c = PreloadAll(b, d)
    PROVE  /\ BookReads(d, s, c) /\ c.current = b.current
           /\ ~IsEmptySlot(b.current) /\ ~IsEmptySlot(b.previous) => c.previous = b.previous
<1> DEFINE G == SlotsOf(d, s)
           F == FreshSlots(d, s)
<1>1. /\ SlotsClosed(d, G) /\ JustLoaded(d, G) \subseteq F
      /\ DiskOK(Path(Names), d) /\ BookOK(AnyRoot, Path(Names), d, G, b)
      /\ OpenBook(AnyRoot, Names, d, G, b) /\ b.cached /\ PagesHeld(d, b) /\ NextIn(F, b)
  BY ReadingFits DEF BookReads
<1> HIDE DEF G, F
<1>2. BookMoves(AnyRoot, Path(Names), d, G, b, c)
  BY <1>1, PreloadAllOK
<1>3. OpenBook(AnyRoot, Names, d, G, c) /\ c.cached
  BY <1>1, <1>2, OpenBookMoves DEF BookMoves
<1>4. PagesHeld(d, c) /\ c.current = b.current
  BY <1>1, PreloadFits
<1>5. /\ NextIn(F, c)
      /\ ~IsEmptySlot(b.current) /\ ~IsEmptySlot(b.previous) => c.previous = b.previous
  BY <1>1, PreloadFresh
<1> QED
  BY <1>3, <1>4, <1>5 DEF BookReads, G, F

\* incrementPosition, which leaves the page or shows the next from its beginning.
TurnsOn(d, s, b, r) ==
    /\ BookReads(d, s, r.book)
    /\ TurnedPage(d, b, r.book)
    /\ IsEmptySlot(b.current) => r.book.current = b.current
    /\ ~IsEmptySlot(b.current) => SlotsForward(FreshSlots(d, s), b, r)

LEMMA IncrementReads ==
    ASSUME Scales, NEW d \in Disks, d.damaged = {}, NEW s \in Screens, NEW b,
           BookReads(d, s, b), NEW r, r = Increment(b, d)
    PROVE  TurnsOn(d, s, b, r)
<1> DEFINE G == SlotsOf(d, s)
           F == FreshSlots(d, s)
<1>1. /\ SlotsClosed(d, G) /\ JustLoaded(d, G) \subseteq F
      /\ DiskOK(Path(Names), d) /\ BookOK(AnyRoot, Path(Names), d, G, b)
      /\ OpenBook(AnyRoot, Names, d, G, b) /\ b.cached /\ PagesHeld(d, b) /\ NextIn(F, b)
      /\ IsEmptySlot(b.current) => b.current.cache = NewCacheScaler(s)
  BY ReadingFits DEF BookReads
<1> HIDE DEF G, F
<1>2. BookMoves(AnyRoot, Path(Names), d, G, b, r.book)
  BY <1>1, TurnsOK
<1>3. OpenBook(AnyRoot, Names, d, G, r.book) /\ r.book.cached
  BY <1>1, <1>2, OpenBookMoves DEF BookMoves
<1>4. PagesHeld(d, r.book) /\ TurnedPage(d, b, r.book)
  <2>1. r \in {Increment(b, d), Decrement(b, d)}
    OBVIOUS
  <2> QED
    BY <1>1, <2>1, TurnsFit
<1>5. CASE IsEmptySlot(b.current)
  <2>1. r = ToFirst(b, d)
    BY <1>5 DEF Increment
  <2>2. NextIn(F, r.book)
    BY <1>1, <2>1, FirstFresh
  <2>3. r.book.current = b.current
    BY <1>4, <1>5 DEF TurnedPage
  <2> QED
    BY <1>1, <1>3, <1>4, <1>5, <2>2, <2>3 DEF TurnsOn, BookReads, G, F
<1>6. CASE ~IsEmptySlot(b.current)
  <2>1. SlotsForward(F, b, r)
    BY <1>1, <1>6, ForwardFresh
  <2>2. NextIn(F, r.book)
    BY <1>1, <2>1 DEF SlotsForward, NextIn
  <2>3. ~IsEmptySlot(r.book.current)
    BY <1>4, <1>6 DEF TurnedPage
  <2> QED
    BY <1>1, <1>3, <1>4, <1>6, <2>1, <2>2, <2>3 DEF TurnsOn, BookReads, G, F
<1> QED
  BY <1>5, <1>6

\* decrementPosition, when the page is shown from its beginning.
TurnsBack(d, s, b, r) ==
    /\ BookReads(d, s, r.book)
    /\ IsEmptySlot(b.current) => r.book.current = b.current
    /\ ~IsEmptySlot(b.current) => SlotsBackward(b, r)

LEMMA DecrementReads ==
    ASSUME Scales, NEW d \in Disks, d.damaged = {}, NEW s \in Screens, NEW b,
           BookReads(d, s, b), b.current.cache.x = 0, NEW r, r = Decrement(b, d)
    PROVE  TurnsBack(d, s, b, r)
<1> DEFINE G == SlotsOf(d, s)
           F == FreshSlots(d, s)
<1>1. /\ SlotsClosed(d, G) /\ BookShape(b)
      /\ DiskOK(Path(Names), d) /\ BookOK(AnyRoot, Path(Names), d, G, b)
      /\ OpenBook(AnyRoot, Names, d, G, b) /\ b.cached /\ PagesHeld(d, b) /\ NextIn(F, b)
      /\ IsEmptySlot(b.current) => b.current.cache = NewCacheScaler(s)
  BY ReadingFits DEF BookReads
<1>2. b.current \in F
  BY SlotsRead DEF FreshSlots
<1> HIDE DEF G, F
<1>3. BookMoves(AnyRoot, Path(Names), d, G, b, r.book)
  BY <1>1, TurnsOK
<1>4. OpenBook(AnyRoot, Names, d, G, r.book) /\ r.book.cached
  BY <1>1, <1>3, OpenBookMoves DEF BookMoves
<1>5. PagesHeld(d, r.book) /\ TurnedPage(d, b, r.book)
  <2>1. r \in {Increment(b, d), Decrement(b, d)}
    OBVIOUS
  <2> QED
    BY <1>1, <2>1, TurnsFit
<1>6. CASE IsEmptySlot(b.current)
  <2>1. r = ToLast(b, d)
    BY <1>6 DEF Decrement
  <2>2. r.book.next = b.next /\ r.book.current = b.current
    BY <1>1, <2>1, LastLoads
  <2> QED
    BY <1>1, <1>4, <1>5, <1>6, <2>2 DEF TurnsBack, BookReads, NextIn, G, F
<1>7. CASE ~IsEmptySlot(b.current)
  <2>1. SlotsBackward(b, r)
    BY <1>1, <1>7, BackwardSlots
  <2>2. NextIn(F, r.book)
    BY <1>1, <1>2, <2>1 DEF SlotsBackward, NextIn
  <2>3. ~IsEmptySlot(r.book.current)
    BY <1>5, <1>7 DEF TurnedPage
  <2> QED
    BY <1>1, <1>4, <1>5, <1>7, <2>1, <2>2, <2>3 DEF TurnsBack, BookReads, G, F
<1> QED
  BY <1>6, <1>7

\* Another frame of the current page.
LEMMA SteppedReads ==
    ASSUME NEW d, NEW s, NEW b, NEW bounds, NEW c,
           BookReads(d, s, b), StepsWithin(d, s, b.current.cache, bounds),
           ~IsEmptySlot(b.current), c = AtFrame(b, bounds.cache)
    PROVE  BookReads(d, s, c) /\ c.current.cache = bounds.cache
           /\ c.current.image = b.current.image
<1> DEFINE G == SlotsOf(d, s)
<1>1. BookOK(AnyRoot, Path(Names), d, G, b)
  BY DEF BookReads, OpenBook
<1>2. /\ BookMoves(AnyRoot, Path(Names), d, G, b, c)
      /\ c.current.image = b.current.image /\ c.current.cache = bounds.cache
      /\ c.previous = b.previous /\ c.next = b.next
  BY <1>1, SteppedOK
<1>3. OpenBook(AnyRoot, Names, d, G, c) /\ c.cached /\ c.explorer.files = b.explorer.files
  BY <1>2, OpenBookMoves DEF BookReads, BookMoves
<1>4. PagesHeld(d, c)
  BY <1>2, <1>3 DEF BookReads, PagesHeld, InOrder, IsEmptySlot
<1> QED
  BY <1>2, <1>3, <1>4 DEF BookReads, NextIn, IsEmptySlot

-----------------------------------------------------------------------------
(* The steps from frame to frame.                                          *)

LEMMA AtBeginning ==
    ASSUME NEW d \in Disks, NEW s \in Screens, NEW c \in Caches(d, s)
    PROVE  PreviousBounds(c).ok <=> c.x # 0
<1>1. c.x \in Nat /\ (c.page = NoPathToFile => c.x = 0)
  BY DEF Caches
<1>2. c.page # NoPathToFile => SecondFrame(c) \in Nat
  BY StepsInside
<1> QED
  BY <1>1, <1>2 DEF PreviousBounds, Moved, Stays

\* The third frame is not before the second, unless its place is negative.
LEMMA ThirdIsLast ==
    ASSUME NEW d \in Disks, NEW s \in Screens, NEW c \in Caches(d, s), c.page # NoPathToFile,
           c.x < SecondFrame(c)
    PROVE  c.x # ThirdFrame(c)
<1> DEFINE u == c.width - s.width
<1>1. /\ c.screen = s /\ s.width \in Nat \ {0} /\ c.width \in Nat /\ c.x \in Nat
      /\ s.width <= c.width /\ c.width < UIntRange
  BY ScreensUpright, PagesFit DEF Caches, Pages, Sizes
<1>2. UIntRange \in Nat
  BY UIntRangeAssumption
<1>3. Minus(c.width, c.screen.width) = u /\ u \in Nat /\ u < UIntRange
  <2>1. u \in Nat /\ u < UIntRange
    BY <1>1, <1>2
  <2> QED
    BY <1>1, <2>1 DEF Minus
<1>4. SecondFrame(c) = u \div 2
  BY StepsInside
<1>5. ThirdFrame(c) \in {u, u - UIntRange}
  BY <1>3 DEF ThirdFrame, ToInt
<1> HIDE DEF u
<1>6. u \div 2 <= u
  BY <1>3
<1> QED
  BY <1>1, <1>2, <1>3, <1>4, <1>5, <1>6

\* previous() steps back to where next() was.
LEMMA StepsBack ==
    ASSUME NEW d \in Disks, NEW s \in Screens, NEW c \in Caches(d, s), NEW n,
           n = NextBounds(c).cache, NextBounds(c).ok
    PROVE  /\ PreviousBounds(n).ok
           /\ Frame(PreviousBounds(n).cache) = Frame(c)
<1>1. c.page # NoPathToFile
  BY DEF NextBounds, Stays
<1>2. /\ SecondFrame(c) \in Nat /\ ThirdFrame(c) \in Int /\ c.x \in Nat
      /\ c.x \in {0, SecondFrame(c), ThirdFrame(c)}
  BY <1>1, StepsInside DEF Caches
<1>3. \/ c.x < SecondFrame(c) /\ n = [c EXCEPT !.x = SecondFrame(c)]
      \/ /\ ~(c.x < SecondFrame(c)) /\ c.x < ThirdFrame(c)
         /\ n = [c EXCEPT !.x = ThirdFrame(c)]
  BY <1>1 DEF NextBounds, Stays, Moved
<1>4. ASSUME NEW x, n = [c EXCEPT !.x = x]
      PROVE  /\ n.x = x /\ n.page = c.page /\ n.width = c.width /\ n.screen = c.screen
             /\ SecondFrame(n) = SecondFrame(c)
             /\ \A y : Frame([n EXCEPT !.x = y]) = [page |-> c.page, x |-> y]
  <2>1. c = [screen |-> c.screen, page |-> c.page, width |-> c.width, x |-> c.x,
             thrown |-> c.thrown]
    BY DEF Caches
  <2>2. n = [screen |-> c.screen, page |-> c.page, width |-> c.width, x |-> x,
             thrown |-> c.thrown]
    BY <1>4, <2>1
  <2>3. /\ n.x = x /\ n.page = c.page /\ n.width = c.width /\ n.screen = c.screen
    BY <2>2
  <2>4. \A y : [n EXCEPT !.x = y] = [screen |-> c.screen, page |-> c.page, width |-> c.width,
                                     x |-> y, thrown |-> c.thrown]
    BY <2>2
  <2> QED
    BY <2>3, <2>4 DEF Frame, SecondFrame
<1>5. CASE c.x < SecondFrame(c) /\ n = [c EXCEPT !.x = SecondFrame(c)]
  <2>1. /\ n.x = SecondFrame(c) /\ n.page # NoPathToFile /\ SecondFrame(n) = SecondFrame(c)
        /\ Frame([n EXCEPT !.x = 0]) = [page |-> c.page, x |-> 0]
    BY <1>1, <1>4, <1>5
  <2>2. SecondFrame(c) > 0 /\ ~(SecondFrame(c) > SecondFrame(c))
    BY <1>2, <1>5
  <2>3. PreviousBounds(n) = Moved(n, 0)
    BY <2>1, <2>2 DEF PreviousBounds
  <2>4. c.x = 0
    <3>1. c.x # ThirdFrame(c)
      BY <1>1, <1>2, <1>5, ThirdIsLast
    <3> QED
      BY <1>2, <1>5, <3>1
  <2>5. PreviousBounds(n).ok /\ PreviousBounds(n).cache = [n EXCEPT !.x = 0]
    BY <2>3 DEF Moved
  <2>6. Frame(c) = [page |-> c.page, x |-> 0]
    BY <2>4 DEF Frame
  <2> QED
    BY <2>1, <2>5, <2>6
<1>6. CASE /\ ~(c.x < SecondFrame(c)) /\ c.x < ThirdFrame(c)
           /\ n = [c EXCEPT !.x = ThirdFrame(c)]
  <2>1. /\ n.x = ThirdFrame(c) /\ n.page # NoPathToFile /\ SecondFrame(n) = SecondFrame(c)
        /\ Frame([n EXCEPT !.x = SecondFrame(c)]) = [page |-> c.page, x |-> SecondFrame(c)]
    BY <1>1, <1>4, <1>6
  <2>2. ThirdFrame(c) > SecondFrame(c) /\ c.x = SecondFrame(c)
    BY <1>2, <1>6
  <2>3. PreviousBounds(n) = Moved(n, SecondFrame(c))
    BY <2>1, <2>2 DEF PreviousBounds
  <2>4. PreviousBounds(n).ok /\ PreviousBounds(n).cache = [n EXCEPT !.x = SecondFrame(c)]
    BY <2>3 DEF Moved
  <2>5. Frame(c) = [page |-> c.page, x |-> SecondFrame(c)]
    BY <2>2 DEF Frame
  <2> QED
    BY <2>1, <2>4, <2>5
<1> QED
  BY <1>3, <1>5, <1>6


-----------------------------------------------------------------------------
(* The invariant of the pages.                                             *)

\* The frame that is drawn is the one the current slot stands at.
DrawsPage(b) == ~Ended(b) => drawn = Frame(b.current.cache)

\* What becomes of the answer of the book.
AnswersWith(r) == EndsIn(r) \/ DrawAndPreload(r) \/ Refused(r)

AnswerShows(r) ==
    /\ BookReads(disk, screen, book')
    /\ book'.current = r.book.current
    /\ ~Ended(book') => drawn' = Frame(book'.current.cache)
    /\ drawn' # drawn =>
          /\ r.ok /\ drawn' = Frame(r.book.current.cache)
          /\ ~IsEmptySlot(r.book.current) /\ ~IsEmptySlot(r.book.previous) =>
                book'.previous = r.book.previous

LEMMA Answered ==
    ASSUME Scales, disk \in Disks, screen \in Screens, NEW b, NEW r,
           BookReads(disk, screen, r.book), AnswersWith(r),
           ~r.ok => r.book.current = b.current, drawn = Frame(b.current.cache)
    PROVE  AnswerShows(r)
<1> DEFINE loaded == PreloadAll(r.book, disk)
<1>1. /\ BookReads(disk, screen, loaded) /\ loaded.current = r.book.current
      /\ ~IsEmptySlot(r.book.current) /\ ~IsEmptySlot(r.book.previous) =>
            loaded.previous = r.book.previous
  BY PreloadReads
<1>2. CASE EndsIn(r)
  BY <1>2 DEF EndsIn, AnswerShows
<1>3. CASE DrawAndPreload(r)
  <2>1. r.ok /\ book' = loaded /\ drawn' = Frame(r.book.current.cache)
    BY <1>3 DEF DrawAndPreload
  <2> HIDE DEF loaded
  <2> QED
    BY <1>1, <2>1 DEF AnswerShows
<1>4. CASE Refused(r)
  BY <1>4 DEF Refused, AnswerShows
<1> QED
  BY <1>2, <1>3, <1>4 DEF AnswersWith

\* The book that setBook opens.
LEMMA StartReads ==
    ASSUME Scales, NothingDamaged, disk \in Disks, screen \in Screens, NEW root \in Roots,
           NEW b, JustSet(b, root), NEW r, r = ToFirst(b, disk)
    PROVE  /\ BookReads(disk, screen, r.book)
           /\ ~r.ok => r.book.current = b.current
           /\ Frame(b.current.cache) = NoFrame
           /\ r.book.explorer.root = root
<1> DEFINE G == SlotsOf(disk, screen)
           F == FreshSlots(disk, screen)
           files == b.explorer.files
<1>1. /\ SlotsClosed(disk, G) /\ JustLoaded(disk, G) \subseteq F
      /\ DiskOK(Path(Names), disk) /\ NamesAreUnique(disk) /\ disk.damaged = {}
      /\ NoPathToFile \notin disk.images /\ root \in DOMAIN disk.files
      /\ disk.images \intersect disk.empty = {}
      /\ \A i \in 1..Len(disk.files[root]) :
            disk.files[root][i].isFile => disk.files[root][i] \in disk.present
  BY SlotsOfClosed, DisksAssumption DEF NothingDamaged, Paths
<1>2. /\ BookOK(AnyRoot, Path(Names), disk, G, b) /\ b.cached
      /\ b.explorer.root = root /\ files = disk.files[root]
      /\ b.previous = EmptySlotOf(screen) /\ b.current = EmptySlotOf(screen)
      /\ b.next = EmptySlotOf(screen)
  BY DEF JustSet, Paths
<1>3. IsEmptySlot(EmptySlotOf(screen)) /\ EmptySlotOf(screen).cache = NewCacheScaler(screen)
  BY DEF EmptySlotOf, EmptySlotWith, EmptySlot, IsEmptySlot
<1>4. ~IsEmptyPath(root)
  BY RootsAssumption DEF Paths, Path, NoPath, IsEmptyPath
<1>5. FilesAreLeaves(files)
  BY <1>1, <1>2 DEF NamesAreUnique
<1>6. OpenBook(AnyRoot, Names, disk, G, b)
  BY <1>1, <1>2, <1>4, <1>5 DEF OpenBook
<1>7. IsEmptySlot(b.previous) /\ IsEmptySlot(b.current) /\ IsEmptySlot(b.next)
  BY <1>2, <1>3
<1>8. NextIn(F, b)
  BY <1>7 DEF NextIn
<1> HIDE DEF G, F
<1>9. BookMoves(AnyRoot, Path(Names), disk, G, b, r.book)
  BY <1>1, <1>2, ToFirstOK
<1>10. OpenBook(AnyRoot, Names, disk, G, r.book) /\ r.book.cached /\ r.book.explorer.root = root
  BY <1>2, <1>6, <1>9, OpenBookMoves DEF BookMoves
<1>11. PagesHeld(disk, r.book) /\ (~r.ok => r.book.current = b.current)
  <2>1. \A i \in 1..Len(files) : files[i].isFile => files[i] \in disk.present
    BY <1>1, <1>2
  <2> HIDE DEF files
  <2>2. \A i \in 1..Len(b.explorer.files) :
           b.explorer.files[i].isFile => b.explorer.files[i] \in disk.present
    BY <2>1 DEF files
  <2> QED
    BY <1>1, <1>6, <1>7, <2>2, FirstFits
<1>12. NextIn(F, r.book)
  BY <1>1, <1>2, <1>8, FirstFresh
<1>13. IsEmptySlot(r.book.current) => r.book.current.cache = NewCacheScaler(screen)
  <2>1. \/ r.book.current = b.current
        \/ r.book.current.image \in disk.images
    BY <1>1, <1>2, FirstLoads
  <2> QED
    BY <1>1, <1>2, <1>3, <2>1 DEF IsEmptySlot
<1>14. Frame(b.current.cache) = NoFrame
  BY <1>2, <1>3 DEF Frame, NoFrame, NewCacheScaler
<1> QED
  BY <1>10, <1>11, <1>12, <1>13, <1>14 DEF BookReads, G, F

LEMMA InitPages == Init => PagesInv
<1> SUFFICES ASSUME Init PROVE PagesInv
  OBVIOUS
<1>1. ~Opened
  BY DEF Init, Opened, NewBook, NewExplorer
<1> QED
  BY <1>1, InitIInv DEF Init, PagesInv

\* What a step leaves, put together.
LEMMA PagesHold ==
    ASSUME IInv', BookReads(disk, screen, book'), disk' = disk, screen' = screen,
           DrawsPage(book)', (undo # NoFrame => UndoFits)'
    PROVE  PagesInv'
<1>1. ~IsEmptyPath(book'.explorer.root)
  BY DEF BookReads, OpenBook
<1>2. Opened'
  BY <1>1 DEF Opened, IsEmptyPath, NoPath
<1> QED
  BY <1>2 DEF PagesInv, DrawsPage

\* setBook
LEMMA OpeningPages ==
    ASSUME Scales, NothingDamaged, PagesInv, NEW root \in Roots, SetBook(root)
    PROVE  PagesInv'
<1>1. IInv /\ disk \in Disks /\ screen \in Screens
  BY DEF PagesInv, IInv
<1>2. /\ ~Opened /\ undo' = NoFrame /\ disk' = disk /\ screen' = screen /\ drawn = NoFrame
  BY DEF SetBook, PagesInv
<1>3. PICK b : JustSet(b, root) /\ AnswersWith(ToFirst(b, disk))
  BY <1>1, SetBookStarts DEF AnswersWith
<1> DEFINE r == ToFirst(b, disk)
<1>4. /\ BookReads(disk, screen, r.book) /\ (~r.ok => r.book.current = b.current)
      /\ drawn = Frame(b.current.cache)
  BY <1>1, <1>2, <1>3, StartReads
<1>5. AnswersWith(r)
  BY <1>3
<1>6. IInv'
  BY <1>1, NextIInv DEF Next
<1> HIDE DEF r
<1>7. AnswerShows(r)
  BY <1>1, <1>4, <1>5, Answered
<1> QED
  BY <1>2, <1>6, <1>7, PagesHold DEF AnswerShows, DrawsPage

-----------------------------------------------------------------------------
(* The keys.                                                               *)

LEMMA OpenedReads ==
    ASSUME NothingDamaged, PagesInv, Opened, ~Ended(book)
    PROVE  /\ disk \in Disks /\ screen \in Screens /\ disk.damaged = {}
           /\ BookReads(disk, screen, book) /\ drawn = Frame(book.current.cache)
           /\ book.current.cache \in Caches(disk, screen)
           /\ IsEmptySlot(book.current) <=> book.current.cache.page = NoPathToFile
           /\ StepsWithin(disk, screen, book.current.cache, NextBounds(book.current.cache))
           /\ StepsWithin(disk, screen, book.current.cache, PreviousBounds(book.current.cache))
<1>1. /\ disk \in Disks /\ screen \in Screens /\ disk.damaged = {}
      /\ BookReads(disk, screen, book) /\ drawn = Frame(book.current.cache)
  BY DEF PagesInv, IInv, NothingDamaged
<1>2. /\ book.current.cache \in Caches(disk, screen)
      /\ ~IsEmptySlot(book.current) => book.current.cache.page # NoPathToFile
  BY <1>1, SlotsRead
<1>3. IsEmptySlot(book.current) => book.current.cache.page = NoPathToFile
  BY <1>1 DEF BookReads, NewCacheScaler
<1> QED
  BY <1>1, <1>2, <1>3, BoundsInside

\* A key that finds a frame left in the page.
LEMMA StepShows ==
    ASSUME NothingDamaged, PagesInv, Opened, ~Ended(book), NEW bounds, bounds.ok,
           StepsWithin(disk, screen, book.current.cache, bounds),
           book' = AtFrame(book, bounds.cache), drawn' = Frame(bounds.cache)
    PROVE  /\ ~IsEmptySlot(book.current) /\ ~IsEmptySlot(book'.current)
           /\ BookReads(disk, screen, book') /\ DrawsPage(book)'
           /\ book'.current.image = book.current.image /\ book'.current.cache = bounds.cache
<1>1. ~IsEmptySlot(book.current) /\ BookReads(disk, screen, book)
  BY OpenedReads DEF StepsWithin
<1>2. /\ BookReads(disk, screen, book') /\ book'.current.cache = bounds.cache
      /\ book'.current.image = book.current.image
  BY <1>1, SteppedReads
<1> QED
  BY <1>1, <1>2 DEF DrawsPage, IsEmptySlot

\* What next() has shown: a frame of the page, or the page after it from its beginning.
NextShows ==
    drawn' # drawn =>
        /\ ~IsEmptySlot(book.current)
        /\ \/ /\ NextBounds(book.current.cache).ok
              /\ drawn' = Frame(NextBounds(book.current.cache).cache)
              /\ book'.current.image = book.current.image
           \/ /\ ~NextBounds(book.current.cache).ok
              /\ drawn'.x = 0
              /\ TurnedPage(disk, book, book') /\ book'.current # book.current

LEMMA NextKeyPages ==
    ASSUME Scales, NothingDamaged, PagesInv, NextKey
    PROVE  PagesInv' /\ NextShows
<1> DEFINE cache == book.current.cache
           bounds == NextBounds(cache)
           r == Increment(book, disk)
<1>1. /\ Opened /\ ~Ended(book) /\ disk' = disk /\ screen' = screen /\ StepTo(bounds, r)
      /\ undo' = IF drawn' # drawn THEN drawn ELSE NoFrame
  BY DEF NextKey
<1>2. /\ disk \in Disks /\ screen \in Screens /\ disk.damaged = {}
      /\ BookReads(disk, screen, book) /\ drawn = Frame(cache)
      /\ cache \in Caches(disk, screen) /\ StepsWithin(disk, screen, cache, bounds)
  BY <1>1, OpenedReads
<1>3. IInv'
  BY NextIInv DEF PagesInv, Next
<1>4. CASE bounds.ok /\ book' = AtFrame(book, bounds.cache) /\ drawn' = Frame(bounds.cache)
  <2>1. /\ ~IsEmptySlot(book.current) /\ ~IsEmptySlot(book'.current)
        /\ BookReads(disk, screen, book') /\ DrawsPage(book)'
        /\ book'.current.image = book.current.image /\ book'.current.cache = bounds.cache
    BY <1>1, <1>2, <1>4, StepShows
  <2>2. PreviousBounds(bounds.cache).ok /\ Frame(PreviousBounds(bounds.cache).cache) = Frame(cache)
    BY <1>2, <1>4, StepsBack
  <2>3. (undo # NoFrame => UndoFits)'
    BY <1>1, <1>2, <2>1, <2>2 DEF UndoFits
  <2>4. PagesInv'
    BY <1>1, <1>3, <2>1, <2>3, PagesHold
  <2>5. NextShows
    BY <1>4, <2>1 DEF NextShows
  <2> QED
    BY <2>4, <2>5
<1>5. CASE ~bounds.ok /\ AnswersWith(r)
  <2>1. TurnsOn(disk, screen, book, r)
    BY <1>2, IncrementReads
  <2>2. BookReads(disk, screen, r.book) /\ TurnedPage(disk, book, r.book)
    BY <2>1 DEF TurnsOn
  <2>3. ~r.ok => r.book.current = book.current
    BY <2>1 DEF TurnsOn, SlotsForward
  <2> DEFINE from == r
  <2>4. from = r
    OBVIOUS
  <2> HIDE DEF from
  <2>5. AnswerShows(from)
    BY <1>2, <1>5, <2>2, <2>3, <2>4, Answered
  <2>6. /\ BookReads(disk, screen, book') /\ DrawsPage(book)'
        /\ book'.current = from.book.current /\ TurnedPage(disk, book, book')
    BY <2>2, <2>4, <2>5 DEF AnswerShows, DrawsPage, TurnedPage
  <2>7. ASSUME drawn' # drawn
        PROVE  /\ ~IsEmptySlot(book.current) /\ ~IsEmptySlot(book'.current)
               /\ drawn'.x = 0 /\ book'.current # book.current
               /\ ~PreviousBounds(book'.current.cache).ok
               /\ book'.previous = book.current
    <3>1. from.ok /\ drawn' = Frame(from.book.current.cache)
      BY <2>5, <2>7 DEF AnswerShows
    <3>2. from.book.current # book.current
      BY <1>2, <2>7, <3>1
    <3>3. ~IsEmptySlot(book.current)
      BY <2>1, <2>4, <3>2 DEF TurnsOn
    <3>4. from.book.current \in FreshSlots(disk, screen) /\ from.book.previous = book.current
      BY <2>1, <2>4, <3>1, <3>3 DEF TurnsOn, SlotsForward
    <3>5. ~IsEmptySlot(from.book.current)
      BY <2>2, <2>4, <3>2 DEF TurnedPage
    <3>6. book'.previous = book.current
      BY <2>5, <2>7, <3>3, <3>4, <3>5 DEF AnswerShows
    <3>7. from.book.current.cache \in Caches(disk, screen) /\ from.book.current.cache.x = 0
      BY <3>4 DEF FreshSlots, SlotsOf
    <3>8. ~PreviousBounds(from.book.current.cache).ok
      BY <1>2, <3>7, AtBeginning
    <3>9. drawn'.x = 0
      BY <3>1, <3>7 DEF Frame
    <3> QED
      BY <2>6, <3>2, <3>3, <3>5, <3>6, <3>8, <3>9
  <2>8. (undo # NoFrame => UndoFits)'
    BY <1>1, <1>2, <2>7 DEF UndoFits
  <2>9. PagesInv'
    BY <1>1, <1>3, <2>6, <2>8, PagesHold
  <2>10. NextShows
    BY <1>5, <2>6, <2>7 DEF NextShows
  <2> QED
    BY <2>9, <2>10
<1> QED
  BY <1>1, <1>4, <1>5 DEF StepTo, AnswersWith, AtFrame

\* previous(): what it shows if next() was the key before it.
PreviousShows == undo # NoFrame /\ ~Ended(book') => drawn' = undo

LEMMA PreviousKeyPages ==
    ASSUME Scales, NothingDamaged, PagesInv, PreviousKey
    PROVE  PagesInv' /\ PreviousShows
<1> DEFINE cache == book.current.cache
           bounds == PreviousBounds(cache)
           r == Decrement(book, disk)
<1>1. /\ Opened /\ ~Ended(book) /\ disk' = disk /\ screen' = screen /\ StepTo(bounds, r)
      /\ undo' = NoFrame
  BY DEF PreviousKey
<1>2. /\ disk \in Disks /\ screen \in Screens /\ disk.damaged = {}
      /\ BookReads(disk, screen, book) /\ drawn = Frame(cache)
      /\ cache \in Caches(disk, screen) /\ StepsWithin(disk, screen, cache, bounds)
  BY <1>1, OpenedReads
<1>3. IInv' /\ (undo # NoFrame => UndoFits)
  BY NextIInv DEF PagesInv, Next
<1>4. CASE bounds.ok /\ book' = AtFrame(book, bounds.cache) /\ drawn' = Frame(bounds.cache)
  <2>1. BookReads(disk, screen, book') /\ DrawsPage(book)'
    BY <1>1, <1>2, <1>4, StepShows
  <2>2. PagesInv'
    BY <1>1, <1>3, <2>1, PagesHold
  <2>3. PreviousShows
    BY <1>3, <1>4 DEF PreviousShows, UndoFits
  <2> QED
    BY <2>2, <2>3
<1>5. CASE ~bounds.ok /\ AnswersWith(r)
  <2>1. cache.x = 0
    BY <1>2, <1>5, AtBeginning
  <2>2. TurnsBack(disk, screen, book, r)
    BY <1>2, <2>1, DecrementReads
  <2>3. BookReads(disk, screen, r.book) /\ (~r.ok => r.book.current = book.current)
    BY <2>2 DEF TurnsBack, SlotsBackward
  <2> DEFINE from == r
  <2>4. from = r
    OBVIOUS
  <2> HIDE DEF from
  <2>5. AnswerShows(from)
    BY <1>2, <1>5, <2>3, <2>4, Answered
  <2>6. BookReads(disk, screen, book') /\ DrawsPage(book)'
    BY <2>5 DEF AnswerShows, DrawsPage
  <2>7. PagesInv'
    BY <1>1, <1>3, <2>6, PagesHold
  <2>8. ASSUME undo # NoFrame, ~Ended(book') PROVE drawn' = undo
    <3>1. /\ ~IsEmptySlot(book.current) /\ ~IsEmptySlot(book.previous)
          /\ undo = Frame(book.previous.cache)
      BY <1>3, <1>5, <2>8 DEF UndoFits
    <3>2. from.book.current = book.previous
      BY <2>2, <2>4, <3>1 DEF TurnsBack, SlotsBackward
    <3> QED
      BY <2>5, <2>8, <3>1, <3>2 DEF AnswerShows
  <2>9. PreviousShows
    BY <2>8 DEF PreviousShows
  <2> QED
    BY <2>7, <2>9
<1> QED
  BY <1>1, <1>4, <1>5 DEF StepTo, AnswersWith, AtFrame

LEMMA NextPages ==
    ASSUME Scales, NothingDamaged, PagesInv, [Next]_vars
    PROVE  PagesInv'
<1>1. CASE \E root \in Roots : SetBook(root)
  BY <1>1, OpeningPages
<1>2. CASE NextKey
  BY <1>2, NextKeyPages
<1>3. CASE PreviousKey
  BY <1>3, PreviousKeyPages
<1>4. CASE UNCHANGED vars
  BY <1>4 DEF vars, PagesInv, IInv, Opened, UndoFits
<1> QED
  BY <1>1, <1>2, <1>3, <1>4 DEF Next

THEOREM PagesInvariance ==
    ASSUME Scales, NothingDamaged
    PROVE  Spec => []PagesInv
<1>1. PagesInv /\ [Next]_vars => PagesInv'
  BY NextPages
<1> QED
  BY <1>1, InitPages, PTL DEF Spec

\* A page in colours is shown when it is the current page (cacheScaler.cpp:70-72,
\* book.cpp:639-646), on files that are not damaged.
THEOREM PictureViewShowsColours ==
    ASSUME Scales, NothingDamaged
    PROVE  Spec => []ColourPagesAreShown
<1>1. PagesInv => ColourPagesAreShown
  <2> SUFFICES ASSUME PagesInv, ~IsEmptySlot(book.current), ~Ended(book),
                      IsColour(disk, book.current.image)
               PROVE  /\ drawn = Frame(book.current.cache)
                      /\ drawn.page = book.current.image
    BY DEF ColourPagesAreShown
  <2>1. Opened
    BY DEF PagesInv, NewBook, EmptySlot, IsEmptySlot
  <2>2. /\ disk \in Disks /\ screen \in Screens /\ disk.damaged = {}
        /\ BookReads(disk, screen, book) /\ drawn = Frame(book.current.cache)
    BY <2>1, OpenedReads
  <2>3. ShowsImage(disk, book.current) /\ book.current.image \in disk.images
    BY <2>2, SlotsRead DEF SlotsOf
  <2> QED
    BY <2>2, <2>3 DEF ShowsImage, Frame
<1> QED
  BY <1>1, PagesInvariance, PTL

\* previous() straight after next() shows again what next() had left, from frame
\* to frame and from page to page (pictureview.cpp:83-101, book.cpp:551-559), on
\* files that are not damaged.
THEOREM PictureViewStepsBack ==
    ASSUME Scales, NothingDamaged
    PROVE  Spec => PreviousUndoesNext
<1> DEFINE A == PreviousKey /\ undo # NoFrame /\ ~Ended(book') => drawn' = undo
<1>1. PagesInv /\ [Next]_vars => [A]_vars
  BY PreviousKeyPages DEF PreviousShows
<1> QED
  BY <1>1, PagesInvariance, PTL DEF Spec, PreviousUndoesNext

-----------------------------------------------------------------------------
(***************************************************************************)
(* Nothing of a page is left out, if the pages scaled to a screen are not  *)
(* too wide for an int: the third frame would be at a negative place.      *)
(***************************************************************************)
PagesFitInt == \A d \in Disks, s \in Screens : \A page \in d.images :
                  ScaledWidth(s, d.pixels[page]) < UIntRange \div 2

\* The frames of a page of at most three screens adjoin or overlap.
LEMMA FramesAdjoin ==
    ASSUME PagesFitInt, NEW d \in Disks, NEW s \in Screens, NEW c \in Caches(d, s),
           c.page # NoPathToFile, FitsThreeFrames(c), NEW n, n = NextBounds(c)
    PROVE  /\ n.ok => n.cache.x > c.x /\ n.cache.x <= c.x + s.width
           /\ ~n.ok => c.x + s.width = c.width
<1> DEFINE u == c.width - s.width
           h == u \div 2
<1>1. /\ c.screen = s /\ s.width \in Nat \ {0} /\ c.width \in Nat /\ c.x \in Nat
      /\ c.x + s.width <= c.width /\ c.x \in {0, SecondFrame(c), ThirdFrame(c)}
      /\ c.width < UIntRange \div 2 /\ c.width <= 3 * s.width
  BY ScreensUpright DEF Caches, Pages, Sizes, PagesFitInt, FitsThreeFrames
<1>2. SecondFrame(c) = h /\ ThirdFrame(c) = u
  BY <1>1, StepsInside
<1>3. u \in Nat /\ u <= 2 * s.width /\ c.x <= u
  BY <1>1
<1>4. n = IF c.x < h THEN Moved(c, h) ELSE IF c.x < u THEN Moved(c, u) ELSE Stays(c)
  BY <1>2 DEF NextBounds
<1> HIDE DEF u
<1>5. h \in Nat /\ h <= u /\ u <= 2 * h + 1 /\ 2 * h <= u
  BY <1>3
<1>6. c.x \in {0, h, u}
  BY <1>1, <1>2
<1> HIDE DEF h
<1>7. h <= s.width /\ u - h <= s.width
  BY <1>1, <1>3, <1>5
<1>8. \A x : Moved(c, x).ok /\ Moved(c, x).cache.x = x
  BY DEF Moved, Caches
<1>9. CASE c.x < h
  <2>1. n.ok /\ n.cache.x = h
    BY <1>4, <1>8, <1>9
  <2> QED
    BY <1>1, <1>5, <1>7, <1>9, <2>1
<1>10. CASE ~(c.x < h) /\ c.x < u
  <2>1. n.ok /\ n.cache.x = u
    BY <1>4, <1>8, <1>10
  <2>2. c.x >= h
    BY <1>1, <1>5, <1>10
  <2>3. u <= c.x + s.width
    BY <1>1, <1>3, <1>5, <1>7, <2>2
  <2> QED
    BY <1>10, <2>1, <2>3
<1>11. CASE ~(c.x < h) /\ ~(c.x < u)
  <2>1. ~n.ok /\ c.x = u
    BY <1>1, <1>3, <1>4, <1>11 DEF Stays
  <2> QED
    BY <1>1, <2>1 DEF u
<1> QED
  BY <1>9, <1>10, <1>11

\* A turned page is another image.
LEMMA TurnsToAnother ==
    ASSUME NothingDamaged, NEW d \in Disks, NEW s \in Screens, NEW b, NEW c,
           BookReads(d, s, b), TurnedPage(d, b, c), c.current # b.current
    PROVE  c.current.image # b.current.image
<1> DEFINE files == b.explorer.files
<1>1. /\ DiskOK(Path(Names), d) /\ NamesAreUnique(d) /\ FilesAreLeaves(files)
      /\ BookOK(AnyRoot, Path(Names), d, SlotsOf(d, s), b)
  BY DEF BookReads, OpenBook
<1>2. files \in Seq(Path(Names))
  BY <1>1, OKFields DEF BookOK
<1> HIDE DEF files
<1>3. ASSUME NEW p, Adjoining(d, files, p, p) PROVE FALSE
  <2>1. PICK t \in Shown(d, files), u \in Shown(d, files) :
            PosAt(d, files, t) = p /\ PosAt(d, files, u) = p /\ Before(t, u)
    BY <1>3 DEF Adjoining
  <2>2. t \in Places(d, files) /\ u \in Places(d, files)
    BY DEF Shown
  <2>3. t = u
    BY <1>1, <1>2, <2>1, <2>2, OnePlace
  <2>4. t[1] \in Nat /\ t[2] \in Nat
    BY <2>2 DEF Places
  <2> QED
    BY <2>1, <2>3, <2>4 DEF Before
<1> QED
  BY <1>3 DEF TurnedPage, files

\* On a page of at most three screens next() leaves out no part of it, and the page
\* turned to begins at its beginning (pictureview.cpp:63-81, cacheScaler.cpp:34-48),
\* on files that are not damaged.
THEOREM PictureViewSkipsNothing ==
    ASSUME Scales, NothingDamaged, PagesFitInt
    PROVE  Spec => NextSkipsNothing
<1> DEFINE A == NextKey /\ ~IsEmptySlot(book.current) /\ ~Ended(book') /\ drawn' # drawn
                   /\ FitsThreeFrames(book.current.cache) => NothingSkipped(book.current.cache)
<1>1. PagesInv /\ [Next]_vars => [A]_vars
  <2> SUFFICES ASSUME PagesInv, NextKey, ~IsEmptySlot(book.current), drawn' # drawn,
                      FitsThreeFrames(book.current.cache)
               PROVE  NothingSkipped(book.current.cache)
    OBVIOUS
  <2> DEFINE cache == book.current.cache
             n == NextBounds(cache)
  <2>1. NextShows /\ Opened /\ ~Ended(book)
    BY NextKeyPages DEF NextKey
  <2>2. /\ disk \in Disks /\ screen \in Screens /\ BookReads(disk, screen, book)
        /\ cache \in Caches(disk, screen) /\ cache.page # NoPathToFile
    BY <2>1, OpenedReads
  <2>3. /\ n.ok => n.cache.x > cache.x /\ n.cache.x <= cache.x + screen.width
        /\ ~n.ok => cache.x + screen.width = cache.width
    BY <2>2, FramesAdjoin
  <2>4. CASE /\ n.ok /\ drawn' = Frame(n.cache)
             /\ book'.current.image = book.current.image
    BY <2>3, <2>4 DEF NothingSkipped, Frame
  <2>5. CASE /\ ~n.ok /\ drawn'.x = 0
             /\ TurnedPage(disk, book, book') /\ book'.current # book.current
    <3>1. book'.current.image # book.current.image
      BY <2>2, <2>5, TurnsToAnother
    <3> QED
      BY <2>3, <2>5, <3>1 DEF NothingSkipped
  <2> QED
    BY <2>1, <2>4, <2>5 DEF NextShows
<1> QED
  BY <1>1, PagesInvariance, PTL DEF Spec, NextSkipsNothing
-----------------------------------------------------------------------------
(***************************************************************************)
(* Without its frames, the program turns pages as Reader's does.  Reader's *)
(* operations, seen through PageTurns, are those of this module on books   *)
(* whose caches hold pages; View takes a book to such a book.              *)
(***************************************************************************)

\* The explorer does not know what the slots hold.
LEMMA SameConstants ==
    /\ PageTurns!NoPath = NoPath /\ PageTurns!NoPathToFile = NoPathToFile
    /\ PageTurns!EmptySlot = EmptySlot /\ PageTurns!NewExplorer = NewExplorer
    /\ PageTurns!NewBook = NewBook
BY DEF PageTurns!NoPath, NoPath, PageTurns!NoPathToFile, NoPathToFile, PageTurns!PathToFile,
       PathToFile, PageTurns!EmptySlot, EmptySlot, PageTurns!NewExplorer, NewExplorer,
       PageTurns!ClosedArchive, ClosedArchive, PageTurns!NewBook, NewBook

LEMMA SameSlots ==
    ASSUME NEW slot, NEW b
    PROVE  /\ PageTurns!IsEmptySlot(slot) = IsEmptySlot(slot)
           /\ PageTurns!ClearSlot(slot) = ClearSlot(slot)
           /\ PageTurns!BookOk(b) = BookOk(b) /\ PageTurns!BookFail(b) = BookFail(b)
           /\ PageTurns!Crashed(b) = Crashed(b)
           /\ PageTurns!ShiftForward(b) = ShiftForward(b)
           /\ PageTurns!ShiftBackward(b) = ShiftBackward(b)
BY DEF PageTurns!NoPath, NoPath, PageTurns!NoPathToFile, NoPathToFile, PageTurns!PathToFile,
       PathToFile, PageTurns!IsEmptySlot, IsEmptySlot, PageTurns!ClearSlot, ClearSlot,
       PageTurns!BookOk, BookOk, PageTurns!BookFail, BookFail, PageTurns!Crashed, Crashed,
       PageTurns!ShiftForward, ShiftForward, PageTurns!ShiftBackward, ShiftBackward

LEMMA SamePositions ==
    ASSUME NEW ex, NEW d, NEW pages, NEW S
    PROVE  /\ PageTurns!GetCurrentPos(ex) = GetCurrentPos(ex)
           /\ PageTurns!Holds(pages, ex, d) = Holds(pages, ex, d)
           /\ PageTurns!StopsHolding(pages, S, ex, d) = StopsHolding(pages, S, ex, d)
BY DEF PageTurns!NoPath, NoPath, PageTurns!PathToFile, PathToFile,
       PageTurns!GetCurrentPos, GetCurrentPos, PageTurns!InArchive, InArchive,
       PageTurns!Readable, Readable, PageTurns!Holds, Holds,
       PageTurns!StopsHolding, StopsHolding, PageTurns!StopAt, StopAt,
       PageTurns!ArchiveAt, ArchiveAt, PageTurns!Recognized, Recognized,
       PageTurns!OpenedArchive, OpenedArchive, PageTurns!ClosedArchive, ClosedArchive

LEMMA SameStops ==
    ASSUME NEW ex, NEW d, NEW S, NEW s, NEW t
    PROVE  /\ PageTurns!StopsAfter(ex, d) = StopsAfter(ex, d)
           /\ PageTurns!StopsBefore(ex, d) = StopsBefore(ex, d)
           /\ PageTurns!Before(s, t) = Before(s, t)
           /\ PageTurns!Nearest(S) = Nearest(S) /\ PageTurns!Farthest(S) = Farthest(S)
           /\ PageTurns!StopAt(ex, d, s) = StopAt(ex, d, s)
           /\ PageTurns!AtLastIndex(ex) = AtLastIndex(ex)
           /\ PageTurns!AtFirstIndex(ex) = AtFirstIndex(ex)
BY DEF PageTurns!StopsAfter, StopsAfter, PageTurns!StopsBefore, StopsBefore,
       PageTurns!StopsAt, StopsAt, PageTurns!FileEntries, FileEntries,
       PageTurns!Before, Before, PageTurns!Nearest, Nearest, PageTurns!Farthest, Farthest,
       PageTurns!StopAt, StopAt, PageTurns!ArchiveAt, ArchiveAt, PageTurns!Recognized, Recognized,
       PageTurns!OpenedArchive, OpenedArchive, PageTurns!ClosedArchive, ClosedArchive,
       PageTurns!AtLastIndex, AtLastIndex, PageTurns!AtFirstIndex, AtFirstIndex,
       PageTurns!CloseArchive, CloseArchive

LEMMA SameFileSteps ==
    ASSUME NEW ex, NEW d
    PROVE  /\ PageTurns!NextFile(ex, d) = NextFile(ex, d)
           /\ PageTurns!PreviousFile(ex, d) = PreviousFile(ex, d)
<1>1. /\ PageTurns!StopsAfter(ex, d) = StopsAfter(ex, d)
      /\ PageTurns!StopsBefore(ex, d) = StopsBefore(ex, d)
      /\ \A S : PageTurns!Nearest(S) = Nearest(S) /\ PageTurns!Farthest(S) = Farthest(S)
      /\ \A s : PageTurns!StopAt(ex, d, s) = StopAt(ex, d, s)
      /\ PageTurns!AtLastIndex(ex) = AtLastIndex(ex)
      /\ PageTurns!AtFirstIndex(ex) = AtFirstIndex(ex)
  BY SameStops
<1>2. \A x : PageTurns!Ok(x) = Ok(x) /\ PageTurns!Fail(x) = Fail(x)
  BY DEF PageTurns!Ok, Ok, PageTurns!Fail, Fail
<1> QED
  BY <1>1, <1>2 DEF PageTurns!NextFile, NextFile, PageTurns!PreviousFile, PreviousFile

LEMMA SameEnds ==
    ASSUME NEW ex, NEW d
    PROVE  /\ PageTurns!FirstFile(ex, d) = FirstFile(ex, d)
           /\ PageTurns!LastFile(ex, d) = LastFile(ex, d)
<1>1. \A x : /\ PageTurns!NextFile(x, d) = NextFile(x, d)
             /\ PageTurns!PreviousFile(x, d) = PreviousFile(x, d)
  BY SameFileSteps
<1>2. \A x : PageTurns!Ok(x) = Ok(x) /\ PageTurns!Fail(x) = Fail(x)
  BY DEF PageTurns!Ok, Ok, PageTurns!Fail, Fail
<1>3. \A x, y : /\ PageTurns!OpenedArchive(d, x, y) = OpenedArchive(d, x, y)
                /\ PageTurns!Recognized(d, x) = Recognized(d, x)
  BY DEF PageTurns!OpenedArchive, OpenedArchive, PageTurns!Recognized, Recognized
<1>4. \A x : /\ PageTurns!CloseArchive(x) = CloseArchive(x)
             /\ PageTurns!InArchive(x) = InArchive(x)
  BY DEF PageTurns!CloseArchive, CloseArchive, PageTurns!ClosedArchive, ClosedArchive,
         PageTurns!InArchive, InArchive
<1>5. PageTurns!FirstFile(ex, d) = FirstFile(ex, d)
  BY <1>1, <1>2, <1>3, <1>4 DEF PageTurns!FirstFile, FirstFile
<1>6. PageTurns!StartAtLastFile(ex, d) = StartAtLastFile(ex, d)
  BY <1>1, <1>2, <1>3, <1>4 DEF PageTurns!StartAtLastFile, StartAtLastFile
<1>7. PageTurns!LastFile(ex, d) = LastFile(ex, d)
  BY <1>2, <1>4, <1>6 DEF PageTurns!LastFile, LastFile
<1> QED
  BY <1>5, <1>7

LEMMA SameLookups ==
    ASSUME NEW list, NEW p, NEW q
    PROVE  /\ PageTurns!FindEntryInList(list, p) = FindEntryInList(list, p)
           /\ PageTurns!IsEmptyPath(p) = IsEmptyPath(p)
           /\ PageTurns!SamePath(p, q) = SamePath(p, q)
           /\ PageTurns!SamePlace(p, q) = SamePlace(p, q)
BY DEF PageTurns!FindEntryInList, FindEntryInList, PageTurns!FirstIndex, FirstIndex,
       PageTurns!Matching, Matching, PageTurns!StartsWith, StartsWith,
       PageTurns!Level, Level, PageTurns!DirLevel, DirLevel,
       PageTurns!SamePath, SamePath, PageTurns!SamePlace, SamePlace,
       PageTurns!IsEmptyPath, IsEmptyPath

LEMMA SameArchives ==
    ASSUME NEW ex, NEW d, NEW p, NEW root
    PROVE  /\ PageTurns!Ok(ex) = Ok(ex) /\ PageTurns!Fail(ex) = Fail(ex)
           /\ PageTurns!CloseArchive(ex) = CloseArchive(ex)
           /\ PageTurns!Recognized(d, p) = Recognized(d, p)
           /\ PageTurns!OpenedArchive(d, p, TRUE) = OpenedArchive(d, p, TRUE)
           /\ PageTurns!WithRoot(ex, d, root) = WithRoot(ex, d, root)
BY DEF PageTurns!Ok, Ok, PageTurns!Fail, Fail, PageTurns!Recognized, Recognized,
       PageTurns!OpenedArchive, OpenedArchive,
       PageTurns!CloseArchive, CloseArchive, PageTurns!ClosedArchive, ClosedArchive,
       PageTurns!WithRoot, WithRoot, PageTurns!ListFiles, ListFiles

LEMMA SameEnters ==
    ASSUME NEW ex, NEW d, NEW p, NEW path
    PROVE  /\ PageTurns!EnterEntry(ex, p) = EnterEntry(ex, p)
           /\ PageTurns!EnterDirectory(ex, p) = EnterDirectory(ex, p)
           /\ PageTurns!EnterFile(ex, d, path) = EnterFile(ex, d, path)
<1>1. \A e, q : PageTurns!EnterEntry(e, q) = EnterEntry(e, q)
  BY SameLookups, SameArchives DEF PageTurns!EnterEntry, EnterEntry
<1>2. PageTurns!EnterDirectory(ex, p) = EnterDirectory(ex, p)
  BY SameLookups, SameArchives DEF PageTurns!EnterDirectory, EnterDirectory
<1>3. PageTurns!EnterFile(ex, d, path) = EnterFile(ex, d, path)
  BY <1>1, SameLookups, SameArchives DEF PageTurns!EnterFile, EnterFile
<1> QED
  BY <1>1, <1>2, <1>3

LEMMA SameEntries ==
    ASSUME NEW ex, NEW d, NEW path, NEW root
    PROVE  /\ PageTurns!EnterPath(ex, d, path) = EnterPath(ex, d, path)
           /\ PageTurns!SetRootPath(ex, d, root) = SetRootPath(ex, d, root)
<1>1. ASSUME NEW e, NEW p PROVE PageTurns!EnterPath(e, d, p) = EnterPath(e, d, p)
  <2> DEFINE pos == GetCurrentPos(e)
  <2>1. /\ PageTurns!GetCurrentPos(e) = pos
        /\ PageTurns!IsEmptyPath(e.root) = IsEmptyPath(e.root)
        /\ PageTurns!SamePlace(p, PageTurns!NoPathToFile) = SamePlace(p, NoPathToFile)
        /\ PageTurns!SamePlace(pos, p) = SamePlace(pos, p)
        /\ PageTurns!SamePath(pos.filePath, p.filePath) = SamePath(pos.filePath, p.filePath)
    BY SameLookups, SameConstants, SamePositions
  <2>2. /\ PageTurns!Fail(e) = Fail(e) /\ PageTurns!Ok(e) = Ok(e)
        /\ PageTurns!EnterDirectory(e, p.filePath) = EnterDirectory(e, p.filePath)
        /\ PageTurns!EnterEntry(e, p.pathInArchive) = EnterEntry(e, p.pathInArchive)
        /\ PageTurns!EnterFile(e, d, p) = EnterFile(e, d, p)
    BY SameArchives, SameEnters
  <2> QED
    BY <2>1, <2>2 DEF PageTurns!EnterPath, EnterPath
<1>2. PageTurns!PathToFile(root, PageTurns!NoPath) = PathToFile(root, NoPath)
  BY SameConstants DEF PageTurns!PathToFile, PathToFile
<1> QED
  BY <1>1, <1>2, SameArchives DEF PageTurns!SetRootPath, SetRootPath

VSlot(slot) == [image |-> slot.image, bookmark |-> slot.bookmark, cache |-> slot.cache.page]

View(b) == [explorer |-> b.explorer, cached |-> b.cached, crashed |-> b.crashed,
            previous |-> VSlot(b.previous), current |-> VSlot(b.current), next |-> VSlot(b.next)]

ViewOf(r) == [ok |-> r.ok, book |-> View(r.book)]

\* The books with caches that the program keeps, on a disk without damaged files.
Scaled(d, s, b) ==
    /\ d \in Disks /\ s \in Screens /\ d.damaged = {}
    /\ BookOK(AnyRoot, Path(Names), d, SlotsOf(d, s), b)
    /\ b.cached

LEMMA ScaledFits ==
    ASSUME Scales, NEW d, NEW s, NEW b, Scaled(d, s, b)
    PROVE  /\ DiskOK(Path(Names), d) /\ SlotsClosed(d, SlotsOf(d, s))
           /\ BookOK(AnyRoot, Path(Names), d, SlotsOf(d, s), b)
           /\ BookShape(b) /\ BookShape(View(b))
           /\ SlotShape(b.previous) /\ SlotShape(b.current) /\ SlotShape(b.next)
           /\ b.previous \in SlotsOf(d, s) /\ b.current \in SlotsOf(d, s)
           /\ b.next \in SlotsOf(d, s)
<1>1. DiskOK(Path(Names), d) /\ SlotsClosed(d, SlotsOf(d, s))
  BY DisksAssumption, SlotsOfClosed DEF Scaled, Paths
<1>2. BookShape(View(b))
  BY DEF View, BookShape
<1> QED
  BY <1>1, <1>2 DEF Scaled, BookOK, SlotsIn, SlotFits

LEMMA ScaledMoves ==
    ASSUME NEW d, NEW s, NEW b, Scaled(d, s, b), NEW c,
           BookMoves(AnyRoot, Path(Names), d, SlotsOf(d, s), b, c)
    PROVE  Scaled(d, s, c)
BY DEF Scaled, BookMoves

LEMMA ViewFields ==
    ASSUME NEW b
    PROVE  /\ View(b).explorer = b.explorer /\ View(b).cached = b.cached
           /\ View(b).crashed = b.crashed /\ View(b).previous = VSlot(b.previous)
           /\ View(b).current = VSlot(b.current) /\ View(b).next = VSlot(b.next)
           /\ \A slot : /\ VSlot(slot).image = slot.image /\ VSlot(slot).bookmark = slot.bookmark
                        /\ VSlot(slot).cache = slot.cache.page
                        /\ IsEmptySlot(VSlot(slot)) = IsEmptySlot(slot)
BY DEF View, VSlot, IsEmptySlot

\* The view of an updated book.
LEMMA ViewUpdates ==
    ASSUME NEW b, BookShape(b), NEW ex, NEW slot
    PROVE  /\ View(WithExplorer(b, ex)) = WithExplorer(View(b), ex)
           /\ View(WithPrevious(b, slot)) = WithPrevious(View(b), VSlot(slot))
           /\ View(WithCurrent(b, slot)) = WithCurrent(View(b), VSlot(slot))
           /\ View(WithNext(b, slot)) = WithNext(View(b), VSlot(slot))
<1>1. WithExplorer(b, ex) = [explorer |-> ex, cached |-> b.cached, crashed |-> b.crashed,
          previous |-> b.previous, current |-> b.current, next |-> b.next]
  BY DEF BookShape, WithExplorer
<1>2. BookShape(View(b))
  BY DEF View, BookShape
<1>3. WithExplorer(View(b), ex) = [explorer |-> ex, cached |-> b.cached, crashed |-> b.crashed,
          previous |-> VSlot(b.previous), current |-> VSlot(b.current), next |-> VSlot(b.next)]
  BY DEF View, WithExplorer
<1>4. View(WithExplorer(b, ex)) = WithExplorer(View(b), ex)
  BY <1>1, <1>3 DEF View
<1> QED
  BY <1>2, <1>4, SetSlots, ViewFields DEF View

\* The view of what a book answers.
LEMMA ViewAnswers ==
    ASSUME NEW b, BookShape(b)
    PROVE  /\ ViewOf(BookOk(b)) = BookOk(View(b)) /\ ViewOf(BookFail(b)) = BookFail(View(b))
           /\ ViewOf(Crashed(b)) = Crashed(View(b))
<1>1. ASSUME NEW c, BookShape(c)
      PROVE  /\ Crashed(c).book = [explorer |-> c.explorer, cached |-> c.cached, crashed |-> TRUE,
                                   previous |-> c.previous, current |-> c.current, next |-> c.next]
             /\ Crashed(c) = BookFail(Crashed(c).book)
  BY <1>1 DEF Crashed, BookFail, BookShape
<1>2. BookShape(View(b))
  BY DEF View, BookShape
<1>3. View(Crashed(b).book) = Crashed(View(b)).book
  <2> DEFINE ended == Crashed(b).book
             viewed == Crashed(View(b)).book
  <2>1. ended = [explorer |-> b.explorer, cached |-> b.cached, crashed |-> TRUE,
                 previous |-> b.previous, current |-> b.current, next |-> b.next]
    BY <1>1
  <2>2. viewed = [explorer |-> b.explorer, cached |-> b.cached, crashed |-> TRUE,
                  previous |-> VSlot(b.previous), current |-> VSlot(b.current),
                  next |-> VSlot(b.next)]
    BY <1>1, <1>2, ViewFields
  <2> HIDE DEF ended, viewed
  <2>3. View(ended) = viewed
    BY <2>1, <2>2 DEF View
  <2> QED
    BY <2>3 DEF ended, viewed
<1>4. \A c : ViewOf(BookOk(c)) = BookOk(View(c)) /\ ViewOf(BookFail(c)) = BookFail(View(c))
  BY DEF ViewOf, BookOk, BookFail
<1>5. Crashed(b) = BookFail(Crashed(b).book) /\ Crashed(View(b)) = BookFail(Crashed(View(b)).book)
  BY <1>1, <1>2
<1>6. ViewOf(Crashed(b)) = Crashed(View(b))
  BY <1>3, <1>4, <1>5
<1> QED
  BY <1>4, <1>6

\* A book whose slots move.
SlotsMoved(b, p, c, n) == WithNext(WithCurrent(WithPrevious(b, p), c), n)

LEMMA ShiftsMove ==
    ASSUME NEW b, BookShape(b)
    PROVE  /\ ShiftForward(b) = SlotsMoved(b, b.current, b.next, ClearSlot(b.previous))
           /\ ShiftBackward(b) = SlotsMoved(b, ClearSlot(b.next), b.previous, b.current)
<1>1. ShiftForward(b) = SlotsMoved(b, b.current, b.next, ClearSlot(b.previous))
  BY DEF ShiftForward, SlotsMoved, WithPrevious, WithCurrent, WithNext, BookShape
<1>2. ShiftBackward(b) = SlotsMoved(b, ClearSlot(b.next), b.previous, b.current)
  BY DEF ShiftBackward, SlotsMoved, WithPrevious, WithCurrent, WithNext, BookShape
<1> QED
  BY <1>1, <1>2

LEMMA ViewMoved ==
    ASSUME NEW b, BookShape(b), NEW p, NEW c, NEW n
    PROVE  View(SlotsMoved(b, p, c, n)) = SlotsMoved(View(b), VSlot(p), VSlot(c), VSlot(n))
<1> DEFINE b1 == WithPrevious(b, p)
           b2 == WithCurrent(b1, c)
<1>1. BookShape(b1) /\ View(b1) = WithPrevious(View(b), VSlot(p))
  BY SetSlots, ViewUpdates DEF BookShape
<1> HIDE DEF b1
<1>2. BookShape(b2) /\ View(b2) = WithCurrent(View(b1), VSlot(c))
  BY <1>1, SetSlots, ViewUpdates DEF BookShape
<1> HIDE DEF b2
<1>3. View(WithNext(b2, n)) = WithNext(View(b2), VSlot(n))
  BY <1>2, ViewUpdates
<1> QED
  BY <1>1, <1>2, <1>3 DEF SlotsMoved, b1, b2

LEMMA ViewShifts ==
    ASSUME NEW b, BookShape(b), SlotShape(b.previous), SlotShape(b.next)
    PROVE  /\ View(ShiftForward(b)) = ShiftForward(View(b))
           /\ View(ShiftBackward(b)) = ShiftBackward(View(b))
<1>1. ASSUME NEW slot, SlotShape(slot) PROVE VSlot(ClearSlot(slot)) = ClearSlot(VSlot(slot))
  <2>1. SlotShape(VSlot(slot))
    BY DEF VSlot, SlotShape
  <2> QED
    BY <1>1, <2>1, ClearedSlot DEF VSlot
<1>2. /\ VSlot(ClearSlot(b.previous)) = ClearSlot(VSlot(b.previous))
      /\ VSlot(ClearSlot(b.next)) = ClearSlot(VSlot(b.next))
  BY <1>1
<1>3. BookShape(View(b))
  BY DEF View, BookShape
<1> QED
  BY <1>2, <1>3, ShiftsMove, ViewMoved, ViewFields

\* A cache shows the page it is told of if it can convert it.
LEMMA ConvertedIsShown ==
    ASSUME NEW d, NEW s, NEW c \in Caches(d, s), NEW page
    PROVE  ScalerOnLoaded(d, c, page).page = ConvertedPage(d, c.page, page)
<1>1. c = [screen |-> c.screen, page |-> c.page, width |-> c.width, x |-> c.x,
           thrown |-> c.thrown]
  BY DEF Caches
<1>2. ShowFromBeginning(d, c, page).page = page
  BY <1>1 DEF ShowFromBeginning
<1>3. [c EXCEPT !.thrown = TRUE].page = c.page /\ [c EXCEPT !.x = 0].page = c.page
  BY <1>1
<1> QED
  BY <1>2, <1>3 DEF ScalerOnLoaded, ConvertedPage

\* A book whose slots have such caches, wherever its explorer is.
SlotsScaled(d, s, b) == /\ BookShape(b) /\ b.cached
                        /\ b.previous \in SlotsOf(d, s) /\ b.current \in SlotsOf(d, s)
                        /\ b.next \in SlotsOf(d, s)

LEMMA ViewLoaded ==
    ASSUME Scales, NEW d, NEW s, NEW b, SlotsScaled(d, s, b), NEW slot \in SlotsOf(d, s)
    PROVE  VSlot(Loaded(b, d, slot)) = PageTurns!Loaded(View(b), d, VSlot(slot))
<1> DEFINE page == GetCurrentPos(b.explorer)
<1>1. slot.cache \in Caches(d, s)
  BY DEF SlotsOf
<1>2. OnLoaded(d, slot.cache, page).page = ConvertedPage(d, slot.cache.page, page)
  BY <1>1, ConvertedIsShown DEF Scales
<1>3. PageTurns!GetCurrentPos(View(b).explorer) = page
  BY SamePositions, ViewFields
<1>4. b.cached /\ View(b).cached
  BY ViewFields DEF SlotsScaled
<1> HIDE DEF page
<1>5. PageTurns!Loaded(View(b), d, VSlot(slot)) =
         [image |-> page, bookmark |-> page, cache |-> ConvertedPage(d, slot.cache.page, page)]
  BY <1>3, <1>4, ViewFields DEF PageTurns!Loaded
<1>6. Loaded(b, d, slot) =
         [image |-> page, bookmark |-> page, cache |-> OnLoaded(d, slot.cache, page)]
  BY <1>4 DEF Loaded, page
<1> QED
  BY <1>2, <1>5, <1>6 DEF VSlot

LEMMA ViewLoads ==
    ASSUME Scales, NEW d, NEW s, NEW b, SlotsScaled(d, s, b)
    PROVE  /\ View(LoadPrevious(b, d)) = PageTurns!LoadPrevious(View(b), d)
           /\ View(LoadCurrent(b, d)) = PageTurns!LoadCurrent(View(b), d)
           /\ View(LoadNext(b, d)) = PageTurns!LoadNext(View(b), d)
<1>1. \A c : /\ LoadPrevious(c, d) = WithPrevious(c, Loaded(c, d, c.previous))
             /\ LoadCurrent(c, d) = WithCurrent(c, Loaded(c, d, c.current))
             /\ LoadNext(c, d) = WithNext(c, Loaded(c, d, c.next))
  BY DEF LoadPrevious, LoadCurrent, LoadNext, WithPrevious, WithCurrent, WithNext
<1>2. \A c : /\ PageTurns!LoadPrevious(c, d) = WithPrevious(c, PageTurns!Loaded(c, d, c.previous))
             /\ PageTurns!LoadCurrent(c, d) = WithCurrent(c, PageTurns!Loaded(c, d, c.current))
             /\ PageTurns!LoadNext(c, d) = WithNext(c, PageTurns!Loaded(c, d, c.next))
  BY DEF PageTurns!LoadPrevious, PageTurns!LoadCurrent, PageTurns!LoadNext,
         WithPrevious, WithCurrent, WithNext
<1>3. BookShape(b) /\ b.previous \in SlotsOf(d, s) /\ b.current \in SlotsOf(d, s)
      /\ b.next \in SlotsOf(d, s)
  BY DEF SlotsScaled
<1>4. /\ VSlot(Loaded(b, d, b.previous)) = PageTurns!Loaded(View(b), d, View(b).previous)
      /\ VSlot(Loaded(b, d, b.current)) = PageTurns!Loaded(View(b), d, View(b).current)
      /\ VSlot(Loaded(b, d, b.next)) = PageTurns!Loaded(View(b), d, View(b).next)
  BY <1>3, ViewLoaded, ViewFields
<1> QED
  BY <1>1, <1>2, <1>3, <1>4, ViewUpdates

-----------------------------------------------------------------------------
(* Finding                                                                 *)

\* What findAndLoadNext does where no file is damaged.
FoundNext(b, d, load(_, _)) ==
    LET S == StopsAfter(b.explorer, d)
        images == StopsHolding(d.images, S, b.explorer, d)
        empty == StopsHolding(d.empty, S, b.explorer, d)
    IN  IF \E e \in empty : \A i \in images : Before(e, i) THEN Crashed(b)
        ELSE IF images # {}
        THEN BookOk(load(WithExplorer(b, StopAt(b.explorer, d, Nearest(images))), d))
        ELSE BookFail(WithExplorer(b, AtLastIndex(b.explorer)))

FoundPrevious(b, d, load(_, _)) ==
    LET S == StopsBefore(b.explorer, d)
        images == StopsHolding(d.images, S, b.explorer, d)
        empty == StopsHolding(d.empty, S, b.explorer, d)
    IN  IF b.explorer.files = <<>> THEN BookFail(b)
        ELSE IF \E e \in empty : \A i \in images : Before(i, e) THEN Crashed(b)
        ELSE IF images # {}
        THEN BookOk(load(WithExplorer(b, StopAt(b.explorer, d, Farthest(images))), d))
        ELSE BookFail(WithExplorer(b, AtFirstIndex(b.explorer)))

LEMMA FindsAre ==
    ASSUME NEW d, d.damaged = {}, NEW b
    PROVE  /\ FindAndLoadNext(b, d) = FoundNext(b, d, LoadNext)
           /\ FindAndLoadPrevious(b, d) = FoundPrevious(b, d, LoadPrevious)
<1>1. \A S, ex : StopsHolding({}, S, ex, d) = {}
  BY DEF StopsHolding, Holds
<1>2. FindAndLoadNext(b, d) = FoundNext(b, d, LoadNext)
  BY <1>1 DEF FindAndLoadNext, FoundNext, WithExplorer
<1>3. FindAndLoadPrevious(b, d) = FoundPrevious(b, d, LoadPrevious)
  BY <1>1 DEF FindAndLoadPrevious, FoundPrevious, WithExplorer
<1> QED
  BY <1>2, <1>3

LEMMA PageFindsAre ==
    ASSUME NEW d, d.damaged = {}, NEW b
    PROVE  /\ PageTurns!FindAndLoadNext(b, d) = FoundNext(b, d, PageTurns!LoadNext)
           /\ PageTurns!FindAndLoadPrevious(b, d) = FoundPrevious(b, d, PageTurns!LoadPrevious)
<1>1. \A S, ex : StopsHolding({}, S, ex, d) = {}
  BY DEF StopsHolding, Holds
<1>2. PageTurns!FindAndLoadNext(b, d) = FoundNext(b, d, PageTurns!LoadNext)
  <2> DEFINE ex == b.explorer
             S == StopsAfter(ex, d)
  <2>1. /\ PageTurns!StopsAfter(ex, d) = S
        /\ \A pages : PageTurns!StopsHolding(pages, S, ex, d) = StopsHolding(pages, S, ex, d)
        /\ \A x, y : PageTurns!Before(x, y) = Before(x, y)
        /\ \A T : PageTurns!Nearest(T) = Nearest(T)
        /\ \A x : PageTurns!StopAt(ex, d, x) = StopAt(ex, d, x)
        /\ PageTurns!AtLastIndex(ex) = AtLastIndex(ex)
    BY SameStops, SamePositions
  <2>2. /\ PageTurns!Crashed(b) = Crashed(b)
        /\ \A c : PageTurns!BookOk(c) = BookOk(c) /\ PageTurns!BookFail(c) = BookFail(c)
    BY SameSlots
  <2> HIDE DEF S
  <2>3. StopsHolding(d.damaged, S, ex, d) = {}
    BY <1>1
  <2> QED
    BY <2>1, <2>2, <2>3
       DEF PageTurns!FindAndLoadNext, FoundNext, WithExplorer, S
<1>3. PageTurns!FindAndLoadPrevious(b, d) = FoundPrevious(b, d, PageTurns!LoadPrevious)
  <2> DEFINE ex == b.explorer
             S == StopsBefore(ex, d)
  <2>1. /\ PageTurns!StopsBefore(ex, d) = S
        /\ \A pages : PageTurns!StopsHolding(pages, S, ex, d) = StopsHolding(pages, S, ex, d)
        /\ \A x, y : PageTurns!Before(x, y) = Before(x, y)
        /\ \A T : PageTurns!Farthest(T) = Farthest(T)
        /\ \A x : PageTurns!StopAt(ex, d, x) = StopAt(ex, d, x)
        /\ PageTurns!AtFirstIndex(ex) = AtFirstIndex(ex)
    BY SameStops, SamePositions
  <2>2. /\ PageTurns!Crashed(b) = Crashed(b)
        /\ \A c : PageTurns!BookOk(c) = BookOk(c) /\ PageTurns!BookFail(c) = BookFail(c)
    BY SameSlots
  <2> HIDE DEF S
  <2>3. StopsHolding(d.damaged, S, ex, d) = {}
    BY <1>1
  <2> QED
    BY <2>1, <2>2, <2>3
       DEF PageTurns!FindAndLoadPrevious, FoundPrevious, WithExplorer, S
<1> QED
  BY <1>2, <1>3

LEMMA ScaledElsewhere ==
    ASSUME NEW d, NEW s, NEW b, SlotsScaled(d, s, b), NEW ex
    PROVE  /\ SlotsScaled(d, s, WithExplorer(b, ex))
           /\ View(WithExplorer(b, ex)) = WithExplorer(View(b), ex)
           /\ WithExplorer(b, ex).explorer = ex
BY SetExplorer, ViewUpdates DEF SlotsScaled

LEMMA ViewFinds ==
    ASSUME Scales, NEW d, d.damaged = {}, NEW s, NEW b, SlotsScaled(d, s, b)
    PROVE  /\ ViewOf(FindAndLoadNext(b, d)) = PageTurns!FindAndLoadNext(View(b), d)
           /\ ViewOf(FindAndLoadPrevious(b, d)) = PageTurns!FindAndLoadPrevious(View(b), d)
<1>1. ASSUME NEW c, SlotsScaled(d, s, c)
      PROVE  /\ ViewOf(BookOk(LoadNext(c, d))) = BookOk(PageTurns!LoadNext(View(c), d))
             /\ ViewOf(BookOk(LoadPrevious(c, d))) = BookOk(PageTurns!LoadPrevious(View(c), d))
             /\ ViewOf(BookFail(c)) = BookFail(View(c))
  BY <1>1, ViewLoads DEF ViewOf, BookOk, BookFail
<1>2. \A ex : LET c == WithExplorer(b, ex)
                  v == WithExplorer(View(b), ex)
              IN  /\ ViewOf(BookOk(LoadNext(c, d))) = BookOk(PageTurns!LoadNext(v, d))
                  /\ ViewOf(BookOk(LoadPrevious(c, d))) = BookOk(PageTurns!LoadPrevious(v, d))
                  /\ ViewOf(BookFail(c)) = BookFail(v)
  BY <1>1, ScaledElsewhere
<1>3. /\ ViewOf(Crashed(b)) = Crashed(View(b)) /\ ViewOf(BookFail(b)) = BookFail(View(b))
      /\ View(b).explorer = b.explorer
  BY ViewAnswers, ViewFields DEF SlotsScaled
<1>4. ViewOf(FoundNext(b, d, LoadNext)) = FoundNext(View(b), d, PageTurns!LoadNext)
  BY <1>2, <1>3 DEF FoundNext
<1>5. ViewOf(FoundPrevious(b, d, LoadPrevious)) = FoundPrevious(View(b), d, PageTurns!LoadPrevious)
  BY <1>2, <1>3 DEF FoundPrevious
<1> QED
  BY <1>4, <1>5, FindsAre, PageFindsAre

\* What toFirst and toLast do where no file is damaged.
LEMMA EndsAre ==
    ASSUME NEW d, d.damaged = {}, NEW b
    PROVE  /\ LET r == FirstFile(b.explorer, d)
                  there == WithExplorer(b, r.ex)
              IN  ToFirst(b, d) = IF ~r.ok THEN BookFail(there)
                                  ELSE IF Holds(d.empty, r.ex, d) THEN Crashed(there)
                                  ELSE IF Holds(d.images, r.ex, d) THEN BookOk(LoadCurrent(there, d))
                                  ELSE FindAndLoadNext(there, d)
           /\ LET r == LastFile(b.explorer, d)
                  there == WithExplorer(b, r.ex)
              IN  ToLast(b, d) = IF ~r.ok THEN BookFail(there)
                                 ELSE IF Holds(d.empty, r.ex, d) THEN Crashed(there)
                                 ELSE IF Holds(d.images, r.ex, d) THEN BookOk(LoadPrevious(there, d))
                                 ELSE FindAndLoadPrevious(there, d)
<1>1. \A ex : ~Holds(d.damaged, ex, d)
  BY DEF Holds
<1> QED
  BY <1>1 DEF ToFirst, ToLast, WithExplorer

LEMMA PageEndsAre ==
    ASSUME NEW d, d.damaged = {}, NEW b
    PROVE  /\ LET r == FirstFile(b.explorer, d)
                  there == WithExplorer(b, r.ex)
              IN  PageTurns!ToFirst(b, d) =
                     IF ~r.ok THEN BookFail(there)
                     ELSE IF Holds(d.empty, r.ex, d) THEN Crashed(there)
                     ELSE IF Holds(d.images, r.ex, d)
                     THEN BookOk(PageTurns!LoadCurrent(there, d))
                     ELSE PageTurns!FindAndLoadNext(there, d)
           /\ LET r == LastFile(b.explorer, d)
                  there == WithExplorer(b, r.ex)
              IN  PageTurns!ToLast(b, d) =
                     IF ~r.ok THEN BookFail(there)
                     ELSE IF Holds(d.empty, r.ex, d) THEN Crashed(there)
                     ELSE IF Holds(d.images, r.ex, d)
                     THEN BookOk(PageTurns!LoadPrevious(there, d))
                     ELSE PageTurns!FindAndLoadPrevious(there, d)
<1>1. \A ex : ~Holds(d.damaged, ex, d)
  BY DEF Holds
<1>2. /\ \A ex, pages : PageTurns!Holds(pages, ex, d) = Holds(pages, ex, d)
      /\ \A c : /\ PageTurns!BookOk(c) = BookOk(c) /\ PageTurns!BookFail(c) = BookFail(c)
                /\ PageTurns!Crashed(c) = Crashed(c)
      /\ PageTurns!FirstFile(b.explorer, d) = FirstFile(b.explorer, d)
      /\ PageTurns!LastFile(b.explorer, d) = LastFile(b.explorer, d)
  BY SamePositions, SameSlots, SameEnds
<1> QED
  BY <1>1, <1>2 DEF PageTurns!ToFirst, PageTurns!ToLast, WithExplorer

LEMMA ViewEnds ==
    ASSUME Scales, NEW d, d.damaged = {}, NEW s, NEW b, SlotsScaled(d, s, b)
    PROVE  /\ ViewOf(ToFirst(b, d)) = PageTurns!ToFirst(View(b), d)
           /\ ViewOf(ToLast(b, d)) = PageTurns!ToLast(View(b), d)
<1>1. ASSUME NEW ex
      PROVE  LET c == WithExplorer(b, ex)
                 v == WithExplorer(View(b), ex)
             IN  /\ ViewOf(BookFail(c)) = BookFail(v) /\ ViewOf(Crashed(c)) = Crashed(v)
                 /\ ViewOf(BookOk(LoadCurrent(c, d))) = BookOk(PageTurns!LoadCurrent(v, d))
                 /\ ViewOf(BookOk(LoadPrevious(c, d))) = BookOk(PageTurns!LoadPrevious(v, d))
                 /\ ViewOf(FindAndLoadNext(c, d)) = PageTurns!FindAndLoadNext(v, d)
                 /\ ViewOf(FindAndLoadPrevious(c, d)) = PageTurns!FindAndLoadPrevious(v, d)
  <2> DEFINE c == WithExplorer(b, ex)
  <2>1. SlotsScaled(d, s, c) /\ View(c) = WithExplorer(View(b), ex) /\ BookShape(c)
    BY ScaledElsewhere DEF SlotsScaled
  <2> HIDE DEF c
  <2>2. /\ ViewOf(BookFail(c)) = BookFail(View(c)) /\ ViewOf(Crashed(c)) = Crashed(View(c))
    BY <2>1, ViewAnswers
  <2>3. /\ ViewOf(BookOk(LoadCurrent(c, d))) = BookOk(PageTurns!LoadCurrent(View(c), d))
        /\ ViewOf(BookOk(LoadPrevious(c, d))) = BookOk(PageTurns!LoadPrevious(View(c), d))
    BY <2>1, ViewLoads DEF ViewOf, BookOk
  <2>4. /\ ViewOf(FindAndLoadNext(c, d)) = PageTurns!FindAndLoadNext(View(c), d)
        /\ ViewOf(FindAndLoadPrevious(c, d)) = PageTurns!FindAndLoadPrevious(View(c), d)
    BY <2>1, ViewFinds
  <2> QED
    BY <2>1, <2>2, <2>3, <2>4 DEF c
<1>2. View(b).explorer = b.explorer
  BY ViewFields
<1>3. ViewOf(ToFirst(b, d)) = PageTurns!ToFirst(View(b), d)
  <2> DEFINE r == FirstFile(b.explorer, d)
             c == WithExplorer(b, r.ex)
             v == WithExplorer(View(b), r.ex)
  <2>1. ToFirst(b, d) = IF ~r.ok THEN BookFail(c)
                      ELSE IF Holds(d.empty, r.ex, d) THEN Crashed(c)
                      ELSE IF Holds(d.images, r.ex, d) THEN BookOk(LoadCurrent(c, d))
                      ELSE FindAndLoadNext(c, d)
    BY EndsAre
  <2>2. PageTurns!ToFirst(View(b), d) =
           IF ~r.ok THEN BookFail(v)
           ELSE IF Holds(d.empty, r.ex, d) THEN Crashed(v)
           ELSE IF Holds(d.images, r.ex, d) THEN BookOk(PageTurns!LoadCurrent(v, d))
           ELSE PageTurns!FindAndLoadNext(v, d)
    BY <1>2, PageEndsAre
  <2>3. /\ ViewOf(BookFail(c)) = BookFail(v) /\ ViewOf(Crashed(c)) = Crashed(v)
        /\ ViewOf(BookOk(LoadCurrent(c, d))) = BookOk(PageTurns!LoadCurrent(v, d))
        /\ ViewOf(FindAndLoadNext(c, d)) = PageTurns!FindAndLoadNext(v, d)
    BY <1>1
  <2> HIDE DEF r, c, v
  <2> QED
    BY <2>1, <2>2, <2>3
<1>4. ViewOf(ToLast(b, d)) = PageTurns!ToLast(View(b), d)
  <2> DEFINE r == LastFile(b.explorer, d)
             c == WithExplorer(b, r.ex)
             v == WithExplorer(View(b), r.ex)
  <2>1. ToLast(b, d) = IF ~r.ok THEN BookFail(c)
                      ELSE IF Holds(d.empty, r.ex, d) THEN Crashed(c)
                      ELSE IF Holds(d.images, r.ex, d) THEN BookOk(LoadPrevious(c, d))
                      ELSE FindAndLoadPrevious(c, d)
    BY EndsAre
  <2>2. PageTurns!ToLast(View(b), d) =
           IF ~r.ok THEN BookFail(v)
           ELSE IF Holds(d.empty, r.ex, d) THEN Crashed(v)
           ELSE IF Holds(d.images, r.ex, d) THEN BookOk(PageTurns!LoadPrevious(v, d))
           ELSE PageTurns!FindAndLoadPrevious(v, d)
    BY <1>2, PageEndsAre
  <2>3. /\ ViewOf(BookFail(c)) = BookFail(v) /\ ViewOf(Crashed(c)) = Crashed(v)
        /\ ViewOf(BookOk(LoadPrevious(c, d))) = BookOk(PageTurns!LoadPrevious(v, d))
        /\ ViewOf(FindAndLoadPrevious(c, d)) = PageTurns!FindAndLoadPrevious(v, d)
    BY <1>1
  <2> HIDE DEF r, c, v
  <2> QED
    BY <2>1, <2>2, <2>3
<1> QED
  BY <1>3, <1>4

-----------------------------------------------------------------------------
(* Turning and preloading                                                  *)

LEMMA ViewEnters ==
    ASSUME Scales, NEW d, d.damaged = {}, NEW s, NEW b, SlotsScaled(d, s, b)
    PROVE  /\ ViewOf(LoadAhead(b, d)) = PageTurns!LoadAhead(View(b), d)
           /\ ViewOf(LoadBehind(b, d)) = PageTurns!LoadBehind(View(b), d)
<1> DEFINE e == EnterPath(b.explorer, d, b.current.bookmark)
           c == WithExplorer(b, e.ex)
           v == WithExplorer(View(b), e.ex)
<1>1. EnterCurrent(b, d) = [ok |-> e.ok, book |-> c]
  BY DEF EnterCurrent, WithExplorer
<1>2. PageTurns!EnterCurrent(View(b), d) = [ok |-> e.ok, book |-> v]
  <2>1. View(b).explorer = b.explorer /\ View(b).current.bookmark = b.current.bookmark
    BY ViewFields
  <2>2. PageTurns!EnterPath(b.explorer, d, b.current.bookmark) = e
    BY SameEntries
  <2> HIDE DEF e
  <2> QED
    BY <2>1, <2>2 DEF PageTurns!EnterCurrent, WithExplorer
<1> HIDE DEF e
<1>3. SlotsScaled(d, s, c) /\ View(c) = v
  BY ScaledElsewhere
<1> HIDE DEF c, v
<1>4. /\ LoadAhead(b, d) = IF e.ok THEN FindAndLoadNext(c, d) ELSE [ok |-> e.ok, book |-> c]
      /\ LoadBehind(b, d) = IF e.ok THEN FindAndLoadPrevious(c, d)
                            ELSE [ok |-> e.ok, book |-> c]
  BY <1>1 DEF LoadAhead, LoadBehind
<1>5. /\ PageTurns!LoadAhead(View(b), d) = IF e.ok THEN PageTurns!FindAndLoadNext(v, d)
                                           ELSE [ok |-> e.ok, book |-> v]
      /\ PageTurns!LoadBehind(View(b), d) = IF e.ok THEN PageTurns!FindAndLoadPrevious(v, d)
                                            ELSE [ok |-> e.ok, book |-> v]
  BY <1>2 DEF PageTurns!LoadAhead, PageTurns!LoadBehind
<1>6. /\ ViewOf(FindAndLoadNext(c, d)) = PageTurns!FindAndLoadNext(v, d)
      /\ ViewOf(FindAndLoadPrevious(c, d)) = PageTurns!FindAndLoadPrevious(v, d)
  BY <1>3, ViewFinds
<1>7. ViewOf([ok |-> e.ok, book |-> c]) = [ok |-> e.ok, book |-> v]
  BY <1>3 DEF ViewOf
<1> QED
  BY <1>4, <1>5, <1>6, <1>7

LEMMA ScaledSlots ==
    ASSUME NEW d, NEW s, NEW b, Scaled(d, s, b)
    PROVE  SlotsScaled(d, s, b) /\ SlotShape(b.previous) /\ SlotShape(b.next) /\ d.damaged = {}
BY DEF Scaled, SlotsScaled, BookOK, SlotsIn, SlotFits

\* What the operations leave is such a book again.
LEMMA ScaledAfter ==
    ASSUME Scales, NEW d, NEW s, NEW b, Scaled(d, s, b)
    PROVE  /\ Scaled(d, s, ToFirst(b, d).book)
           /\ Scaled(d, s, LoadAhead(b, d).book) /\ Scaled(d, s, LoadBehind(b, d).book)
           /\ Scaled(d, s, Increment(b, d).book) /\ Scaled(d, s, Decrement(b, d).book)
<1> DEFINE G == SlotsOf(d, s)
<1>1. /\ DiskOK(Path(Names), d) /\ SlotsClosed(d, G)
      /\ BookOK(AnyRoot, Path(Names), d, G, b)
  BY ScaledFits
<1> HIDE DEF G
<1>2. /\ BookMoves(AnyRoot, Path(Names), d, G, b, ToFirst(b, d).book)
      /\ BookMoves(AnyRoot, Path(Names), d, G, b, LoadAhead(b, d).book)
      /\ BookMoves(AnyRoot, Path(Names), d, G, b, LoadBehind(b, d).book)
      /\ BookMoves(AnyRoot, Path(Names), d, G, b, Increment(b, d).book)
      /\ BookMoves(AnyRoot, Path(Names), d, G, b, Decrement(b, d).book)
  BY <1>1, ToFirstOK, LoadsAroundOK, TurnsOK
<1> QED
  BY <1>2, ScaledMoves DEF G

LEMMA ViewTurns ==
    ASSUME Scales, NEW d, NEW s, NEW b, Scaled(d, s, b)
    PROVE  /\ ViewOf(Increment(b, d)) = PageTurns!Increment(View(b), d)
           /\ ViewOf(Decrement(b, d)) = PageTurns!Decrement(View(b), d)
<1> DEFINE ahead == IF IsEmptySlot(b.next) THEN LoadAhead(b, d) ELSE BookOk(b)
           behind == IF IsEmptySlot(b.previous) THEN LoadBehind(b, d) ELSE BookOk(b)
           v == View(b)
           vAhead == IF IsEmptySlot(v.next) THEN PageTurns!LoadAhead(v, d) ELSE BookOk(v)
           vBehind == IF IsEmptySlot(v.previous) THEN PageTurns!LoadBehind(v, d) ELSE BookOk(v)
<1>1. SlotsScaled(d, s, b) /\ BookShape(b) /\ d.damaged = {}
  BY ScaledSlots DEF SlotsScaled
<1>2. ViewOf(ahead) = vAhead /\ ViewOf(behind) = vBehind
  BY <1>1, ViewEnters, ViewAnswers, ViewFields
<1>3. Scaled(d, s, ahead.book) /\ Scaled(d, s, behind.book)
  BY ScaledAfter DEF BookOk
<1>4. /\ Increment(b, d) = IF IsEmptySlot(b.current) THEN ToFirst(b, d)
                           ELSE IF ahead.ok THEN BookOk(ShiftForward(ahead.book)) ELSE ahead
      /\ Decrement(b, d) = IF IsEmptySlot(b.current) THEN ToLast(b, d)
                           ELSE IF behind.ok THEN BookOk(ShiftBackward(behind.book)) ELSE behind
  BY DEF Increment, Decrement
<1>5. /\ \A c : /\ PageTurns!BookOk(c) = BookOk(c)
                /\ PageTurns!ShiftForward(c) = ShiftForward(c)
                /\ PageTurns!ShiftBackward(c) = ShiftBackward(c)
      /\ \A slot : PageTurns!IsEmptySlot(slot) = IsEmptySlot(slot)
  BY SameSlots
<1>6. PageTurns!Increment(v, d) =
         IF IsEmptySlot(v.current) THEN PageTurns!ToFirst(v, d)
         ELSE IF vAhead.ok THEN BookOk(ShiftForward(vAhead.book)) ELSE vAhead
  BY <1>5 DEF PageTurns!Increment
<1>7. PageTurns!Decrement(v, d) =
         IF IsEmptySlot(v.current) THEN PageTurns!ToLast(v, d)
         ELSE IF vBehind.ok THEN BookOk(ShiftBackward(vBehind.book)) ELSE vBehind
  BY <1>5 DEF PageTurns!Decrement
<1> HIDE DEF ahead, behind, vAhead, vBehind
<1>8. /\ vAhead.ok = ahead.ok /\ vAhead.book = View(ahead.book)
      /\ vBehind.ok = behind.ok /\ vBehind.book = View(behind.book)
  BY <1>2 DEF ViewOf
<1>9. /\ View(ShiftForward(ahead.book)) = ShiftForward(vAhead.book)
      /\ View(ShiftBackward(behind.book)) = ShiftBackward(vBehind.book)
  BY <1>3, <1>8, ScaledSlots, ViewShifts DEF SlotsScaled
<1>10. /\ ViewOf(BookOk(ShiftForward(ahead.book))) = BookOk(ShiftForward(vAhead.book))
       /\ ViewOf(BookOk(ShiftBackward(behind.book))) = BookOk(ShiftBackward(vBehind.book))
  BY <1>9 DEF ViewOf, BookOk
<1>11. /\ ViewOf(ToFirst(b, d)) = PageTurns!ToFirst(v, d)
       /\ ViewOf(ToLast(b, d)) = PageTurns!ToLast(v, d)
       /\ IsEmptySlot(v.current) = IsEmptySlot(b.current)
  BY <1>1, ViewEnds, ViewFields
<1> HIDE DEF v
<1>12. ViewOf(Increment(b, d)) = PageTurns!Increment(v, d)
  BY <1>2, <1>4, <1>6, <1>8, <1>10, <1>11
<1>13. ViewOf(Decrement(b, d)) = PageTurns!Decrement(v, d)
  BY <1>2, <1>4, <1>7, <1>8, <1>10, <1>11
<1> QED
  BY <1>12, <1>13 DEF v

LEMMA ViewPreloads ==
    ASSUME Scales, NEW d, NEW s, NEW b, Scaled(d, s, b)
    PROVE  View(PreloadAll(b, d)) = PageTurns!PreloadAll(View(b), d)
<1> DEFINE b1 == IF IsEmptySlot(b.current) THEN ToFirst(b, d).book ELSE b
           b2 == IF IsEmptySlot(b1.previous) THEN LoadBehind(b1, d).book ELSE b1
           b3 == IF IsEmptySlot(b2.next) THEN LoadAhead(b2, d).book ELSE b2
           v == View(b)
           v1 == IF IsEmptySlot(v.current) THEN PageTurns!ToFirst(v, d).book ELSE v
           v2 == IF IsEmptySlot(v1.previous) THEN PageTurns!LoadBehind(v1, d).book ELSE v1
           v3 == IF IsEmptySlot(v2.next) THEN PageTurns!LoadAhead(v2, d).book ELSE v2
<1>1. PreloadAll(b, d) = IF IsEmptySlot(b1.current) THEN b1 ELSE b3
  BY DEF PreloadAll
<1>2. PageTurns!PreloadAll(v, d) = IF IsEmptySlot(v1.current) THEN v1 ELSE v3
  <2>1. \A slot : PageTurns!IsEmptySlot(slot) = IsEmptySlot(slot)
    BY SameSlots
  <2> QED
    BY <2>1 DEF PageTurns!PreloadAll
<1>3. \A r : ViewOf(r).book = View(r.book)
  BY DEF ViewOf
<1>4. Scaled(d, s, b1) /\ View(b1) = v1
  <2>1. View(ToFirst(b, d).book) = PageTurns!ToFirst(v, d).book
    BY <1>3, ScaledSlots, ViewEnds
  <2>2. IsEmptySlot(v.current) = IsEmptySlot(b.current) /\ Scaled(d, s, ToFirst(b, d).book)
    BY ScaledAfter, ViewFields
  <2> QED
    BY <2>1, <2>2
<1> HIDE DEF b1, v1
<1>5. Scaled(d, s, b2) /\ View(b2) = v2
  <2>1. View(LoadBehind(b1, d).book) = PageTurns!LoadBehind(v1, d).book
    BY <1>3, <1>4, ScaledSlots, ViewEnters
  <2>2. /\ IsEmptySlot(v1.previous) = IsEmptySlot(b1.previous)
        /\ Scaled(d, s, LoadBehind(b1, d).book)
    BY <1>4, ScaledAfter, ViewFields
  <2> QED
    BY <1>4, <2>1, <2>2
<1> HIDE DEF b2, v2
<1>6. View(b3) = v3
  <2>1. View(LoadAhead(b2, d).book) = PageTurns!LoadAhead(v2, d).book
    BY <1>3, <1>5, ScaledSlots, ViewEnters
  <2> QED
    BY <1>5, <2>1, ViewFields
<1> HIDE DEF b3, v3
<1>7. IsEmptySlot(v1.current) = IsEmptySlot(b1.current)
  BY <1>4, ViewFields
<1> QED
  BY <1>1, <1>2, <1>4, <1>6, <1>7

-----------------------------------------------------------------------------
(* Opening                                                                 *)

LEMMA SlotsMovedIs ==
    ASSUME NEW b, BookShape(b), NEW p, NEW c, NEW n
    PROVE  SlotsMoved(b, p, c, n) =
              [explorer |-> b.explorer, cached |-> b.cached, crashed |-> b.crashed,
               previous |-> p, current |-> c, next |-> n]
<1> DEFINE b1 == WithPrevious(b, p)
           b2 == WithCurrent(b1, c)
<1>1. b1 = [explorer |-> b.explorer, cached |-> b.cached, crashed |-> b.crashed,
            previous |-> p, current |-> b.current, next |-> b.next]
  BY SetSlots
<1> HIDE DEF b1
<1>2. b2 = [explorer |-> b.explorer, cached |-> b.cached, crashed |-> b.crashed,
            previous |-> p, current |-> c, next |-> b.next]
  BY <1>1, SetSlots DEF BookShape
<1> HIDE DEF b2
<1>3. WithNext(b2, n) = [explorer |-> b.explorer, cached |-> b.cached, crashed |-> b.crashed,
                         previous |-> p, current |-> c, next |-> n]
  BY <1>2, SetSlots DEF BookShape
<1> QED
  BY <1>3 DEF SlotsMoved, b1, b2

\* A new book whose caches are installed.
InstalledBook(ex, cache) ==
    [explorer |-> ex, cached |-> TRUE, crashed |-> FALSE,
     previous |-> EmptySlotWith(cache), current |-> EmptySlotWith(cache),
     next |-> EmptySlotWith(cache)]

LEMMA CachesInstalled ==
    ASSUME NEW ex, NEW cache
    PROVE  WithCaches(WithExplorer(NewBook, ex), cache) = InstalledBook(ex, cache)
<1> DEFINE b == WithExplorer(NewBook, ex)
           e == EmptySlotWith(cache)
           c == WithCached(b, TRUE)
<1>1. /\ BookShape(b) /\ b.explorer = ex /\ b.crashed = FALSE
      /\ b.previous = EmptySlot /\ b.current = EmptySlot /\ b.next = EmptySlot
  <2>1. /\ BookShape(NewBook) /\ NewBook.previous = EmptySlot /\ NewBook.current = EmptySlot
        /\ NewBook.next = EmptySlot
    BY DEF NewBook, BookShape
  <2>2. b.crashed = FALSE
    BY DEF NewBook, WithExplorer
  <2> QED
    BY <2>1, <2>2, SetExplorer
<1> HIDE DEF b
<1>2. WithCaches(b, cache) = [b EXCEPT !.cached = TRUE, !.previous = e, !.current = e, !.next = e]
  BY <1>1 DEF WithCaches, BookShape, EmptySlotWith
<1> HIDE DEF e
<1>3. [b EXCEPT !.cached = TRUE, !.previous = e, !.current = e, !.next = e]
         = SlotsMoved(c, e, e, e)
  BY <1>1 DEF WithCached, SlotsMoved, WithPrevious, WithCurrent, WithNext, BookShape
<1>4. BookShape(c) /\ c.explorer = ex /\ c.cached = TRUE /\ c.crashed = FALSE
  <2>1. BookShape(c) /\ c.explorer = ex
    BY <1>1, SetCached
  <2>2. c.cached = TRUE
    BY <1>1 DEF WithCached, BookShape
  <2>3. c.crashed = b.crashed
    BY <1>1 DEF WithCached, BookShape
  <2> QED
    BY <1>1, <2>1, <2>2, <2>3
<1> HIDE DEF c
<1>5. SlotsMoved(c, e, e, e) = [explorer |-> ex, cached |-> TRUE, crashed |-> FALSE,
                                previous |-> e, current |-> e, next |-> e]
  BY <1>4, SlotsMovedIs
<1> QED
  BY <1>2, <1>3, <1>5 DEF InstalledBook, b, e

\* Reader's book as setBook makes it.
LEMMA ViewOpens ==
    ASSUME NEW root
    PROVE  View(BookOfRoot(root)) =
              PageTurns!WithCaches(PageTurns!SetRootOf(PageTurns!NewBook, root), NoPathToFile)
<1> DEFINE ex == SetRootPath(NewExplorer, disk, root).ex
           cache == NewCacheScaler(screen)
<1>1. BookOfRoot(root) = InstalledBook(ex, cache)
  BY CachesInstalled DEF BookOfRoot
<1>2. PageTurns!SetRootOf(PageTurns!NewBook, root) = WithExplorer(NewBook, ex)
  <2>1. /\ PageTurns!NewBook = NewBook /\ NewBook.explorer = NewExplorer
        /\ PageTurns!SetRootPath(NewExplorer, disk, root) = SetRootPath(NewExplorer, disk, root)
    BY SameConstants, SameEntries DEF NewBook
  <2> QED
    BY <2>1 DEF PageTurns!SetRootOf, WithExplorer
<1> HIDE DEF ex
<1>3. \A b : PageTurns!WithCaches(b, NoPathToFile) = WithCaches(b, NoPathToFile)
  BY DEF PageTurns!WithCaches, WithCaches
<1>4. PageTurns!WithCaches(WithExplorer(NewBook, ex), NoPathToFile)
         = InstalledBook(ex, NoPathToFile)
  BY <1>3, CachesInstalled
<1>5. VSlot(EmptySlotWith(cache)) = EmptySlotWith(NoPathToFile)
  BY DEF VSlot, EmptySlotWith, EmptySlot, NewCacheScaler
<1> HIDE DEF cache
<1>6. View(InstalledBook(ex, cache)) = InstalledBook(ex, NoPathToFile)
  BY <1>5 DEF View, InstalledBook
<1> QED
  BY <1>1, <1>2, <1>4, <1>6

-----------------------------------------------------------------------------
(* The steps                                                               *)

\* The book that Reader is shown.
ShownSlot(b, slot) == [slot EXCEPT !.cache = IF b.cached THEN @.page ELSE @]

Shows(b) == [b EXCEPT !.previous = ShownSlot(b, @), !.current = ShownSlot(b, @),
                      !.next = ShownSlot(b, @)]

LEMMA ShowsView ==
    ASSUME NEW d, NEW s, NEW b, Scaled(d, s, b)
    PROVE  Shows(b) = View(b)
<1>1. /\ BookShape(b) /\ b.cached
      /\ SlotShape(b.previous) /\ SlotShape(b.current) /\ SlotShape(b.next)
  BY DEF Scaled, BookOK, SlotsIn, SlotFits
<1>2. ASSUME NEW slot, SlotShape(slot) PROVE ShownSlot(b, slot) = VSlot(slot)
  BY <1>1, <1>2 DEF ShownSlot, SlotShape, VSlot
<1>3. Shows(b) = SlotsMoved(b, ShownSlot(b, b.previous), ShownSlot(b, b.current),
                            ShownSlot(b, b.next))
  BY <1>1 DEF Shows, SlotsMoved, WithPrevious, WithCurrent, WithNext, BookShape
<1>4. Shows(b) = SlotsMoved(b, VSlot(b.previous), VSlot(b.current), VSlot(b.next))
  BY <1>1, <1>2, <1>3
<1> QED
  BY <1>1, <1>4, SlotsMovedIs DEF View

LEMMA ShowsNew == Shows(NewBook) = NewBook
<1>1. ShownSlot(NewBook, EmptySlot) = EmptySlot
  BY DEF ShownSlot, NewBook, EmptySlot
<1>2. NewBook.previous = EmptySlot /\ NewBook.current = EmptySlot /\ NewBook.next = EmptySlot
  BY DEF NewBook
<1> QED
  BY <1>1, <1>2 DEF Shows, NewBook

\* While the program runs, no cache has thrown in Reader's view either.
LEMMA NoneThrew ==
    ASSUME Scaled(disk, screen, book), ~Ended(book)
    PROVE  ~PageTurns!CacheThrew
<1>1. book.cached /\ ~book.crashed
  BY DEF Scaled, Ended
<1>2. ASSUME NEW slot \in {book.previous, book.current, book.next}
      PROVE  ~(slot.image \in disk.images /\ slot.cache.page = NoPathToFile)
  <2>1. slot \in SlotsOf(disk, screen)
    BY <1>1 DEF Scaled, BookOK, SlotsIn, SlotFits
  <2>2. ~slot.cache.thrown
    BY <1>1 DEF Ended, Slots
  <2> QED
    BY <2>1, <2>2 DEF SlotsOf, ShowsImage
<1>3. Shows(book) = View(book)
  BY ShowsView
<1>4. PageTurns!CacheThrew =>
         \E slot \in {View(book).previous, View(book).current, View(book).next} :
             slot.image \in disk.images /\ slot.cache = NoPathToFile
  <2>1. PageTurns!NoPathToFile = NoPathToFile
    BY SameConstants
  <2> QED
    BY <1>3, <2>1 DEF PageTurns!CacheThrew, Shows, ShownSlot, PagesOnly
<1>5. /\ View(book).previous = VSlot(book.previous) /\ View(book).current = VSlot(book.current)
      /\ View(book).next = VSlot(book.next)
  BY DEF View
<1>6. \A slot : VSlot(slot).image = slot.image /\ VSlot(slot).cache = slot.cache.page
  BY DEF VSlot
<1> QED
  BY <1>2, <1>4, <1>5, <1>6

\* A key that turns the page, as Reader's keys do.
LEMMA TurnIsReaders ==
    ASSUME NEW v, NEW w, NEW r, Shows(book) = v, Shows(book') = w,
           v.explorer.root # NoPath, ~v.crashed, ~PageTurns!CacheThrew,
           disk' = disk, answered' = r.ok,
           r.ok => w = PageTurns!PreloadAll(r.book, disk) /\ drawn'.page = r.book.current.cache,
           ~r.ok => w = r.book /\ drawn'.page = drawn.page
    PROVE  PageTurns!TurnPocket(r)
BY SameConstants DEF PageTurns!TurnPocket, PageTurns!Opened, PageTurns!Root, PageTurns!Running,
       PageTurns!DrawCache, Shows, ShownSlot, PagesOnly

LEMMA OpenIsReaders ==
    ASSUME NEW root, NEW v, NEW w, NEW b, Shows(book) = v, Shows(book') = w,
           v.explorer.root = NoPath, disk' = disk, answered' = answered,
           b = PageTurns!WithCaches(PageTurns!SetRootOf(PageTurns!NewBook, root), NoPathToFile),
           NEW r, r = PageTurns!ToFirst(b, disk),
           r.ok => w = PageTurns!PreloadAll(r.book, disk) /\ drawn'.page = r.book.current.cache,
           ~r.ok => w = r.book /\ drawn'.page = drawn.page
    PROVE  PageTurns!OpenPocket(root)
<1>1. PageTurns!NoPathToFile = NoPathToFile /\ PageTurns!NoPath = NoPath
  BY SameConstants
<1> QED
  BY <1>1 DEF PageTurns!OpenPocket, PageTurns!Opened, PageTurns!Root,
       PageTurns!DrawCache, Shows, ShownSlot, PagesOnly

LEMMA SameIsReaders ==
    ASSUME Shows(book') = Shows(book), disk' = disk, answered' = answered,
           drawn'.page = drawn.page
    PROVE  UNCHANGED PageTurns!vars
BY DEF PageTurns!vars, Shows, ShownSlot, PagesOnly

\* What the program does with an answer is what Reader does with its view.
LEMMA AnswerIsReaders ==
    ASSUME Scales, NEW r, Scaled(disk, screen, r.book), AnswersWith(r), ~Ended(book'),
           NEW v, v = ViewOf(r)
    PROVE  /\ Scaled(disk, screen, book')
           /\ v.ok = r.ok
           /\ v.ok => /\ View(book') = PageTurns!PreloadAll(v.book, disk)
                      /\ drawn'.page = v.book.current.cache
           /\ ~v.ok => View(book') = v.book /\ drawn'.page = drawn.page
<1>1. v.ok = r.ok /\ v.book = View(r.book) /\ v.book.current.cache = r.book.current.cache.page
  BY ViewFields DEF ViewOf
<1>2. Scaled(disk, screen, PreloadAll(r.book, disk))
  <2>1. /\ DiskOK(Path(Names), disk) /\ SlotsClosed(disk, SlotsOf(disk, screen))
        /\ BookOK(AnyRoot, Path(Names), disk, SlotsOf(disk, screen), r.book)
    BY ScaledFits
  <2> QED
    BY <2>1, PreloadAllOK, ScaledMoves
<1>3. ~EndsIn(r)
  BY DEF EndsIn
<1>4. CASE DrawAndPreload(r)
  <2>1. r.ok /\ book' = PreloadAll(r.book, disk) /\ drawn' = Frame(r.book.current.cache)
    BY <1>4 DEF DrawAndPreload
  <2>2. View(book') = PageTurns!PreloadAll(v.book, disk)
    BY <1>1, <2>1, ViewPreloads
  <2>3. drawn'.page = r.book.current.cache.page
    BY <2>1 DEF Frame
  <2> QED
    BY <1>1, <1>2, <2>1, <2>2, <2>3
<1>5. CASE Refused(r)
  BY <1>1, <1>5 DEF Refused
<1> QED
  BY <1>3, <1>4, <1>5 DEF AnswersWith

\* The book between two keys.
LEMMA OpenedIsShown ==
    ASSUME NothingDamaged, PagesInv, Opened
    PROVE  Scaled(disk, screen, book) /\ Shows(book) = View(book)
<1>1. Scaled(disk, screen, book)
  BY DEF PagesInv, IInv, NothingDamaged, BookReads, OpenBook, Scaled
<1> QED
  BY <1>1, ShowsView

LEMMA OpeningIsReaders ==
    ASSUME Scales, NothingDamaged, PagesInv, NEW root \in Roots, SetBook(root), ~Ended(book')
    PROVE  PageTurns!OpenPocket(root)
<1>1. /\ ~Opened /\ disk' = disk /\ answered' = answered /\ book = NewBook
  BY DEF SetBook, PagesInv
<1>2. PICK b : /\ JustSet(b, root) /\ b = BookOfRoot(root) /\ AnswersWith(ToFirst(b, disk))
  BY SetBookStarts DEF AnswersWith, PagesInv
<1>3. Scaled(disk, screen, b)
  BY <1>2 DEF JustSet, PagesInv, IInv, NothingDamaged, Scaled, Paths
<1> DEFINE r == ToFirst(b, disk)
           v == ViewOf(r)
<1>4. Scaled(disk, screen, r.book) /\ v = PageTurns!ToFirst(View(b), disk)
  BY <1>3, ScaledAfter, ScaledSlots, ViewEnds
<1>5. View(b) = PageTurns!WithCaches(PageTurns!SetRootOf(PageTurns!NewBook, root), NoPathToFile)
  BY <1>2, ViewOpens
<1> HIDE DEF r
<1>6. AnswersWith(r)
  BY <1>2 DEF r
<1>7. /\ Scaled(disk, screen, book')
      /\ v.ok => /\ View(book') = PageTurns!PreloadAll(v.book, disk)
                 /\ drawn'.page = v.book.current.cache
      /\ ~v.ok => View(book') = v.book /\ drawn'.page = drawn.page
  BY <1>4, <1>6, AnswerIsReaders
<1>8. Shows(book') = View(book') /\ Shows(book) = NewBook /\ NewBook.explorer.root = NoPath
  BY <1>1, <1>7, ShowsView, ShowsNew DEF NewBook, NewExplorer
<1> HIDE DEF v
<1> QED
  BY <1>1, <1>4, <1>5, <1>7, <1>8, OpenIsReaders

\* Another frame of the page changes nothing of it.
LEMMA FrameIsReaders ==
    ASSUME NothingDamaged, PagesInv, Opened, ~Ended(book), NEW bounds, bounds.ok,
           StepsWithin(disk, screen, book.current.cache, bounds),
           book' = AtFrame(book, bounds.cache), drawn' = Frame(bounds.cache),
           disk' = disk, answered' = answered
    PROVE  UNCHANGED PageTurns!vars
<1>1. Scaled(disk, screen, book) /\ Shows(book) = View(book)
  BY OpenedIsShown
<1>2. bounds.cache.page = book.current.cache.page /\ drawn = Frame(book.current.cache)
  BY OpenedReads DEF StepsWithin
<1>3. BookMoves(AnyRoot, Path(Names), disk, SlotsOf(disk, screen), book, book')
  BY <1>1, SteppedOK DEF Scaled
<1>4. Scaled(disk, screen, book') /\ Shows(book') = View(book')
  BY <1>1, <1>3, ScaledMoves, ShowsView
<1>5. View(book') = View(book)
  <2> DEFINE slot == [book.current EXCEPT !.cache = bounds.cache]
  <2>1. BookShape(book) /\ SlotShape(book.current)
    BY <1>1 DEF Scaled, BookOK, SlotsIn, SlotFits
  <2>2. VSlot(slot) = VSlot(book.current)
    BY <1>2, <2>1 DEF SlotShape, VSlot
  <2>3. book' = WithCurrent(book, slot)
    BY <2>1 DEF AtFrame, WithCurrent
  <2> HIDE DEF slot
  <2>4. View(book') = WithCurrent(View(book), VSlot(slot))
    BY <2>1, <2>3, ViewUpdates
  <2>5. BookShape(View(book)) /\ View(book).current = VSlot(book.current)
    BY DEF View, BookShape
  <2>6. WithCurrent(View(book), View(book).current) = View(book)
    BY <2>5 DEF WithCurrent, BookShape
  <2> QED
    BY <2>2, <2>4, <2>5, <2>6
<1>6. drawn'.page = drawn.page
  BY <1>2 DEF Frame
<1> QED
  BY <1>1, <1>4, <1>5, <1>6, SameIsReaders

\* A key that finds no frame left turns the page as Reader does.
LEMMA KeyIsReaders ==
    ASSUME Scales, NothingDamaged, PagesInv, Opened, ~Ended(book), ~Ended(book'), disk' = disk,
           NEW r, Scaled(disk, screen, r.book), AnswersWith(r), answered' = r.ok
    PROVE  PageTurns!TurnPocket(ViewOf(r))
<1> DEFINE v == ViewOf(r)
<1>1. Shows(book) = View(book) /\ View(book).explorer.root # NoPath /\ ~View(book).crashed
  BY OpenedIsShown, ViewFields DEF Opened, Ended
<1>2. /\ Scaled(disk, screen, book') /\ v.ok = r.ok
      /\ v.ok => /\ View(book') = PageTurns!PreloadAll(v.book, disk)
                 /\ drawn'.page = v.book.current.cache
      /\ ~v.ok => View(book') = v.book /\ drawn'.page = drawn.page
  BY AnswerIsReaders
<1>3. Shows(book') = View(book') /\ ~PageTurns!CacheThrew
  BY <1>2, ShowsView, OpenedIsShown, NoneThrew
<1> HIDE DEF v
<1>4. PageTurns!TurnPocket(v)
  BY <1>1, <1>2, <1>3, TurnIsReaders
<1> QED
  BY <1>4 DEF v

LEMMA KeysAreReaders ==
    ASSUME Scales, NothingDamaged, PagesInv, ~Ended(book'), NextKey \/ PreviousKey
    PROVE  PageTurns!Next \/ UNCHANGED PageTurns!vars
<1> DEFINE cache == book.current.cache
<1>1. Opened /\ ~Ended(book) /\ disk' = disk
  BY DEF NextKey, PreviousKey
<1>2. /\ StepsWithin(disk, screen, cache, NextBounds(cache))
      /\ StepsWithin(disk, screen, cache, PreviousBounds(cache))
  BY <1>1, OpenedReads
<1>3. Scaled(disk, screen, book) /\ Shows(book) = View(book)
  BY <1>1, OpenedIsShown
<1>4. /\ ViewOf(Increment(book, disk)) = PageTurns!Increment(View(book), disk)
      /\ ViewOf(Decrement(book, disk)) = PageTurns!Decrement(View(book), disk)
  BY <1>3, ViewTurns
<1>5. Scaled(disk, screen, Increment(book, disk).book)
      /\ Scaled(disk, screen, Decrement(book, disk).book)
  BY <1>3, ScaledAfter
<1>6. ASSUME NEW bounds, StepsWithin(disk, screen, cache, bounds), NEW r, StepTo(bounds, r),
             Scaled(disk, screen, r.book)
      PROVE  PageTurns!TurnPocket(ViewOf(r)) \/ UNCHANGED PageTurns!vars
  <2>1. CASE /\ bounds.ok /\ book' = AtFrame(book, bounds.cache)
             /\ drawn' = Frame(bounds.cache) /\ answered' = answered
    BY <1>1, <1>6, <2>1, FrameIsReaders
  <2>2. CASE AnswersWith(r) /\ answered' = r.ok
    BY <1>1, <1>6, <2>2, KeyIsReaders
  <2> QED
    BY <1>6, <2>1, <2>2 DEF StepTo, AnswersWith, AtFrame
<1>7. PageTurns!TurnPocket(PageTurns!Increment(View(book), disk)) => PageTurns!NextPage
  BY <1>3 DEF PageTurns!NextPage, Shows, ShownSlot, PagesOnly
<1>8. PageTurns!TurnPocket(PageTurns!Decrement(View(book), disk)) => PageTurns!PreviousPage
  BY <1>3 DEF PageTurns!PreviousPage, Shows, ShownSlot, PagesOnly
<1>9. CASE NextKey
  <2>1. StepTo(NextBounds(cache), Increment(book, disk))
    BY <1>9 DEF NextKey
  <2>2. PageTurns!TurnPocket(ViewOf(Increment(book, disk))) \/ UNCHANGED PageTurns!vars
    BY <1>2, <1>5, <1>6, <2>1
  <2> QED
    BY <1>4, <1>7, <2>2 DEF PageTurns!Next, PageTurns!Forward
<1>10. CASE PreviousKey
  <2>1. StepTo(PreviousBounds(cache), Decrement(book, disk))
    BY <1>10 DEF PreviousKey
  <2>2. PageTurns!TurnPocket(ViewOf(Decrement(book, disk))) \/ UNCHANGED PageTurns!vars
    BY <1>2, <1>5, <1>6, <2>1
  <2> QED
    BY <1>4, <1>8, <2>2 DEF PageTurns!Next, PageTurns!Backward
<1> QED
  BY <1>9, <1>10

\* Without its frames, the program is the "pocket" program of Reader, until an
\* exception ends it (pictureview.cpp:45-101), on files that are not damaged.
THEOREM PictureViewImplements ==
    ASSUME Scales, NothingDamaged
    PROVE  Spec => ImplementsReader
<1>1. Init => book = NewBook /\ drawn.page = NoPathToFile /\ answered = TRUE
  BY DEF Init, NoFrame
<1>2. PagesInv /\ [Next]_vars => [Ended(book') \/ PageTurns!Next]_(PageTurns!vars)
  <2> SUFFICES ASSUME PagesInv, [Next]_vars, ~Ended(book')
               PROVE  PageTurns!Next \/ UNCHANGED PageTurns!vars
    OBVIOUS
  <2>1. CASE \E root \in Roots : SetBook(root)
    BY <2>1, OpeningIsReaders DEF PageTurns!Next
  <2>2. CASE NextKey \/ PreviousKey
    BY <2>2, KeysAreReaders
  <2>3. CASE UNCHANGED vars
    BY <2>3, SameIsReaders DEF vars, Shows, ShownSlot
  <2> QED
    BY <2>1, <2>2, <2>3 DEF Next
<1> QED
  BY <1>1, <1>2, PagesInvariance, PTL DEF Spec, ImplementsReader
=============================================================================
