------------------------------ MODULE ByteArray ------------------------------
(***************************************************************************)
(* tools::ByteArray (common/byteArray.cpp): arrays that share a buffer     *)
(* until one of them is edited.  A buffer is a cell with the count of the  *)
(* arrays that hold it; an edit of a shared cell copies it first           *)
(* (acquire), and the last holder deletes it (changeTo).                   *)
(*                                                                         *)
(* Every variable of type ByteArray exists all the time: one that has not  *)
(* been constructed, or that has been destroyed, holds no cell, like one   *)
(* that was just default constructed.  A temporary array lives within the  *)
(* action that makes it.                                                   *)
(***************************************************************************)
EXTENDS ByteOps, FiniteSets

CONSTANTS Addresses, \* where cells can be allocated
          Null

ASSUME AddressesAssumption == Null \notin Addresses /\ IsFiniteSet(Arrays)

VARIABLES shared_data, \* the cell each array points to, or Null
          cell         \* what is at each address

vars == <<shared_data, cell>>

Cells == [ref : Nat, buffer : Seq(Bytes)]

\* An address that holds no cell.
Free == [ref |-> 0, buffer |-> <<>>]

\* Mutant: implByteArray without ref.inc().
NewCellUncounted(s) == [ref |-> 0, buffer |-> s]

NewCell(s) == [ref |-> 1, buffer |-> s]

FreeAddresses == {p \in Addresses : cell[p] = Free}

IsNull(a) == shared_data[a] = Null
Buffer(a) == IF IsNull(a) THEN <<>> ELSE cell[shared_data[a]].buffer

-----------------------------------------------------------------------------
(* Reference counting.                                                     *)

\* A cell that one array less holds: deleted with the last, else ref.dec().
Dropped(c) == IF c.ref = 1 THEN Free ELSE [c EXCEPT !.ref = @ - 1]

\* The cells when a has let go of its own.
Released(a) == IF IsNull(a) THEN cell ELSE [cell EXCEPT ![shared_data[a]] = Dropped(@)]

PointsTo(a, p) == shared_data' = [shared_data EXCEPT ![a] = p]

\* Mutant: the old cell is let go only when there is no new one.
ChangeToLeaking(a, p) ==
    IF shared_data[a] = p THEN UNCHANGED vars
    ELSE /\ PointsTo(a, p)
         /\ cell' = IF p = Null THEN Released(a) ELSE [cell EXCEPT ![p].ref = @ + 1]

ChangeTo(a, p) ==
    IF shared_data[a] = p THEN UNCHANGED vars
    ELSE /\ PointsTo(a, p)
         /\ cell' = IF p = Null THEN Released(a) ELSE [Released(a) EXCEPT ![p].ref = @ + 1]

\* An array that takes a cell of its own, which new has made.
TakeNew(a, s) ==
    \E p \in FreeAddresses :
        /\ PointsTo(a, p)
        /\ cell' = [Released(a) EXCEPT ![p] = NewCell(s)]

\* Mutant: acquire takes a buffer that two arrays hold for its own.
EditOffByOne(a, s) ==
    IF cell[shared_data[a]].ref > 2
      THEN TakeNew(a, s)
      ELSE /\ cell' = [cell EXCEPT ![shared_data[a]].buffer = s]
           /\ UNCHANGED shared_data

\* acquire, and then the bytes become s.
Edit(a, s) ==
    IF cell[shared_data[a]].ref > 1
      THEN TakeNew(a, s)
      ELSE /\ cell' = [cell EXCEPT ![shared_data[a]].buffer = s]
           /\ UNCHANGED shared_data

-----------------------------------------------------------------------------
Init == /\ shared_data = [a \in Arrays |-> Null]
        /\ cell = [p \in Addresses |-> Free]

\* Copy construction, operator= and reset(other).
Assign(a, b) == ChangeTo(a, shared_data[b])

\* The destructor and reset().
Clear(a) == ChangeTo(a, Null)

\* reset(array, data, len), and construction from bytes; the array made from
\* t is a temporary that hands its cell over.
Reset(a, t) == IF t = <<>> THEN ChangeTo(a, Null) ELSE TakeNew(a, t)

\* setChar and a write through operator[].
SetChar(a, i, c) ==
    /\ ~IsNull(a) /\ i < Len(Buffer(a))
    /\ Edit(a, [Buffer(a) EXCEPT ![i + 1] = c])

\* replace: operator[] byte by byte, as far as the array goes.
Replace(a, i, t) ==
    /\ t # <<>> /\ ~IsNull(a) /\ i < Len(Buffer(a))
    /\ Edit(a, Overwritten(Buffer(a), i, t))

\* An array without a cell gets an empty one (reserve) before the index is
\* looked at.
Insert(a, i, t) ==
    /\ t # <<>>
    /\ IF IsNull(a) THEN TakeNew(a, IF i = 0 THEN t ELSE <<>>)
       ELSE i <= Len(Buffer(a)) /\ Edit(a, Inserted(Buffer(a), i, t))

Resize(a, n) ==
    IF IsNull(a) THEN n > 0 /\ TakeNew(a, Resized(<<>>, n))
    ELSE Edit(a, Resized(Buffer(a), n))

\* Mutant: the sum of index and count is taken, and can wrap.
RemoveWrapping(a, i, n) ==
    /\ ~IsNull(a) /\ i <= Len(Buffer(a))
    /\ IF (i + n) % (MaxSize + 1) > Len(Buffer(a))
         THEN Edit(a, Resized(Buffer(a), i))
         ELSE Edit(a, Before(Buffer(a), i) \o From(Buffer(a), (i + n) % (MaxSize + 1)))

\* "sum can me more than size_type": the count is compared first.
Remove(a, i, n) ==
    /\ ~IsNull(a) /\ i <= Len(Buffer(a))
    /\ IF n > Len(Buffer(a)) \/ i > Len(Buffer(a)) - n
         THEN Edit(a, Resized(Buffer(a), i))
         ELSE Edit(a, Removed(Buffer(a), i, n))

Reserve(a, n) ==
    IF IsNull(a) THEN n > 0 /\ TakeNew(a, <<>>) ELSE Edit(a, Buffer(a))

\* A part is a new array, which then replaces a.
CopyPart(a, b, i, n) ==
    LET size  == Len(Buffer(b))
        count == IF n > size \/ i > size - n THEN size - i ELSE n
    IN  IF i >= size \/ count = 0 THEN ChangeTo(a, Null)
        ELSE TakeNew(a, SubSeq(Buffer(b), i + 1, i + count))

\* operator>>: askBuffer for the length of t, which is written there at once.
\* askBuffer(0) of an array without a cell dereferences a null pointer and has
\* no next state here.
Read(a, t) ==
    IF IsNull(a) THEN t # <<>> /\ TakeNew(a, t) ELSE Edit(a, t)

\* append (i = the length) and prepend (i = 0) of another array.
Join(a, i, b) ==
    /\ a # b /\ i \in {0, Len(Buffer(a))}
    /\ IF Buffer(a) = <<>> THEN Assign(a, b) ELSE Insert(a, i, Buffer(b))

Fits(n) == n <= MaxLength

Next ==
    \E a \in Arrays :
        \/ \E b \in Arrays : Assign(a, b)
        \/ Clear(a)
        \/ \E t \in Texts : Reset(a, t)
        \/ \E i \in Lengths, c \in Bytes : SetChar(a, i, c)
        \/ \E i \in Lengths, t \in Texts : Replace(a, i, t)
        \/ \E i \in Lengths, t \in Texts : Fits(Len(Buffer(a)) + Len(t)) /\ Insert(a, i, t)
        \/ \E n \in Lengths : Resize(a, n) \/ Reserve(a, n)
        \/ \E i \in Lengths, n \in Sizes : Remove(a, i, n)
        \/ \E b \in Arrays, i \in Lengths, n \in Sizes : CopyPart(a, b, i, n)
        \/ \E t \in Texts : Read(a, t)
        \/ \E b \in Arrays, i \in Lengths : Fits(Len(Buffer(a)) + Len(Buffer(b))) /\ Join(a, i, b)

Spec == Init /\ [][Next]_vars

-----------------------------------------------------------------------------
TypeOK ==
    /\ shared_data \in [Arrays -> Addresses \union {Null}]
    /\ cell \in [Addresses -> Cells]

Holders(p) == {a \in Arrays : shared_data[a] = p}

(***************************************************************************)
(* The count of a cell (byteArray.cpp:134-170) is the number of arrays     *)
(* that hold it, after any mix of copies, edits and destructions.  So no   *)
(* array points to a cell that was deleted, and every cell that no array   *)
(* holds has been deleted.                                                 *)
(***************************************************************************)
RefCounts == \A p \in Addresses : cell[p].ref = Cardinality(Holders(p))

(***************************************************************************)
(* "buffer will be copied at time when source or destination will try to   *)
(* change buffer" (image.h:27): arrays that share buffers cannot be told   *)
(* from arrays that are values, whatever is edited in what order, and the  *)
(* edits give the bytes ByteValues says for every index and count up to    *)
(* the largest SizeType.                                                   *)
(***************************************************************************)
Values == INSTANCE ByteValues WITH value <- [a \in Arrays |-> Buffer(a)]
ImplementsValues == Values!Spec
=============================================================================
