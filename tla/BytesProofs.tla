---------------------------- MODULE BytesProofs ----------------------------
(***************************************************************************)
(* Bytes, kept and read. The first part is about ByteArray: its reference  *)
(* counts are right after any sequence of operations, and arrays that      *)
(* share buffers behave as values, for any finite number of arrays, any    *)
(* bytes and any lengths. The second is about the run length decoders of   *)
(* BmpRle, for pictures of any size, any commands and any number of them:  *)
(* nothing in it depends on the first.                                     *)
(***************************************************************************)
EXTENDS ByteArray, BmpRle, FiniteSetTheorems, SequenceTheorems, TLAPS

IInv == TypeOK /\ RefCounts

value == [a \in Arrays |-> Buffer(a)]

-----------------------------------------------------------------------------
(* The bytes an edit leaves are bytes.                                     *)

LEMMA SubSeqTyped ==
    ASSUME NEW s \in Seq(Bytes), NEW m \in Nat, NEW n \in Int, m > 0, n <= Len(s)
    PROVE  SubSeq(s, m, n) \in Seq(Bytes)
<1>1. \A i \in m..n : s[i] \in Bytes
  OBVIOUS
<1> QED
  BY <1>1, SubSeqProperties

LEMMA BeforeTyped ==
    ASSUME NEW s \in Seq(Bytes), NEW i \in 0..Len(s)
    PROVE  Before(s, i) \in Seq(Bytes)
BY SubSeqTyped DEF Before

LEMMA FromTyped ==
    ASSUME NEW s \in Seq(Bytes), NEW i \in Nat
    PROVE  From(s, i) \in Seq(Bytes)
BY SubSeqTyped DEF From

LEMMA InsertedTyped ==
    ASSUME NEW s \in Seq(Bytes), NEW i \in 0..Len(s), NEW t \in Seq(Bytes)
    PROVE  Inserted(s, i, t) \in Seq(Bytes)
BY BeforeTyped, FromTyped, ConcatProperties DEF Inserted

LEMMA RemovedTyped ==
    ASSUME NEW s \in Seq(Bytes), NEW i \in 0..Len(s), NEW n \in Nat
    PROVE  Removed(s, i, n) \in Seq(Bytes)
BY BeforeTyped, FromTyped, ConcatProperties DEF Removed

LEMMA ResizedTyped ==
    ASSUME NEW s \in Seq(Bytes), NEW n \in Nat
    PROVE  Resized(s, n) \in Seq(Bytes)
BY BytesAssumption DEF Resized

LEMMA OverwrittenTyped ==
    ASSUME NEW s \in Seq(Bytes), NEW i \in Nat, NEW t \in Seq(Bytes)
    PROVE  Overwritten(s, i, t) \in Seq(Bytes)
BY DEF Overwritten

\* Removing more than there is leaves what comes before.
LEMMA RemovedToTheEnd ==
    ASSUME NEW s \in Seq(Bytes), NEW i \in 0..Len(s), NEW n \in Nat, i > Len(s) - n
    PROVE  Resized(s, i) = Removed(s, i, n)
<1>1. From(s, i + n) = <<>>
  BY SubSeqEmpty DEF From
<1>2. Removed(s, i, n) = Before(s, i)
  BY <1>1, BeforeTyped, ConcatEmptySeq DEF Removed
<1>3. Before(s, i) \in Seq(Bytes) /\ Len(Before(s, i)) = i
      /\ \A k \in 1..i : Before(s, i)[k] = s[k]
  <2>1. \A k \in 1..i : s[k] \in Bytes
    OBVIOUS
  <2> QED
    BY <2>1, SubSeqProperties DEF Before
<1>4. Resized(s, i) \in Seq(Bytes) /\ Len(Resized(s, i)) = i
      /\ \A k \in 1..i : Resized(s, i)[k] = s[k]
  BY BytesAssumption DEF Resized
<1> QED
  BY <1>2, <1>3, <1>4

-----------------------------------------------------------------------------
(* Holders and counts.                                                     *)

LEMMA HoldersFinite ==
    ASSUME NEW q PROVE IsFiniteSet(Holders(q))
BY FS_Subset, AddressesAssumption DEF Holders

\* Only the cell that is left and the cell that is taken change holders.
LEMMA HoldersMove ==
    ASSUME TypeOK, NEW a \in Arrays, NEW p \in Addresses \union {Null},
           p # shared_data[a], PointsTo(a, p), NEW q \in Addresses
    PROVE  Cardinality(Holders(q))' =
               IF q = shared_data[a] THEN Cardinality(Holders(q)) - 1
               ELSE IF q = p THEN Cardinality(Holders(q)) + 1
               ELSE Cardinality(Holders(q))
<1>1. CASE q = shared_data[a]
  <2>1. Holders(q)' = Holders(q) \ {a} /\ a \in Holders(q)
    BY <1>1 DEF Holders, PointsTo, TypeOK
  <2> QED
    BY <1>1, <2>1, HoldersFinite, FS_RemoveElement
<1>2. CASE q # shared_data[a] /\ q = p
  <2>1. Holders(q)' = Holders(q) \union {a} /\ a \notin Holders(q)
    BY <1>2 DEF Holders, PointsTo, TypeOK
  <2> QED
    BY <1>2, <2>1, HoldersFinite, FS_AddElement
<1>3. CASE q # shared_data[a] /\ q # p
  <2>1. Holders(q)' = Holders(q)
    BY <1>3 DEF Holders, PointsTo, TypeOK
  <2> QED
    BY <1>3, <2>1
<1> QED
  BY <1>1, <1>2, <1>3

\* A cell that some array holds has a count, and one that counts a single
\* array is held by no other.
LEMMA SoleHolder ==
    ASSUME IInv, NEW a \in Arrays, ~IsNull(a)
    PROVE  /\ shared_data[a] \in Addresses
           /\ cell[shared_data[a]].ref \in Nat \ {0}
           /\ cell[shared_data[a]].ref = 1 =>
                  \A b \in Arrays \ {a} : shared_data[b] # shared_data[a]
<1> DEFINE q == shared_data[a]
<1>1. q \in Addresses
  BY DEF IInv, TypeOK, IsNull
<1>2. a \in Holders(q) /\ IsFiniteSet(Holders(q))
  BY HoldersFinite DEF Holders
<1>3. cell[q].ref = Cardinality(Holders(q)) /\ cell[q].ref \in Nat
  BY <1>1 DEF IInv, TypeOK, RefCounts, Cells
<1>4. cell[q].ref # 0
  BY <1>2, <1>3, FS_EmptySet
<1>5. cell[q].ref = 1 => Holders(q) = {a}
  <2> SUFFICES ASSUME Cardinality(Holders(q)) = 1 PROVE Holders(q) = {a}
    BY <1>3
  <2>1. PICK x : Holders(q) = {x}
    BY <1>2, FS_Singleton
  <2> QED
    BY <1>2, <2>1
<1> QED
  BY <1>1, <1>3, <1>4, <1>5 DEF Holders

LEMMA BufferTyped ==
    ASSUME TypeOK, NEW a \in Arrays
    PROVE  Buffer(a) \in Seq(Bytes)
BY DEF Buffer, IsNull, TypeOK, Cells

-----------------------------------------------------------------------------
(* What the operations come down to.  A step sets a to s when the          *)
(* invariant holds after it, and a's bytes are then s and all others as    *)
(* they were.                                                              *)

Sets(a, s) == IInv' /\ value' = [value EXCEPT ![a] = s]

LEMMA SetsIf ==
    ASSUME NEW a \in Arrays, NEW s, IInv', Buffer(a)' = s,
           \A b \in Arrays \ {a} : Buffer(b)' = Buffer(b)
    PROVE  Sets(a, s)
BY DEF Sets, value

LEMMA StutterSets ==
    ASSUME IInv, UNCHANGED vars, NEW a \in Arrays
    PROVE  Sets(a, Buffer(a))
<1>1. IInv'
  BY DEF IInv, TypeOK, RefCounts, Holders, vars
<1>2. \A b \in Arrays : Buffer(b)' = Buffer(b)
  BY DEF Buffer, IsNull, vars
<1> QED
  BY <1>1, <1>2, SetsIf

\* Letting go of a's cell: the cells are as before, but for that one, which
\* is deleted only if no other array holds it.
LEMMA ReleasedCells ==
    ASSUME IInv, NEW a \in Arrays
    PROVE  /\ Released(a) \in [Addresses -> Cells]
           /\ \A q \in Addresses :
                  /\ q # shared_data[a] => Released(a)[q] = cell[q]
                  /\ q = shared_data[a] => Released(a)[q].ref = cell[q].ref - 1
           /\ \A b \in Arrays \ {a} :
                  ~IsNull(b) => Released(a)[shared_data[b]].buffer = cell[shared_data[b]].buffer
<1>1. CASE IsNull(a)
  BY <1>1, AddressesAssumption DEF Released, IInv, TypeOK, IsNull
<1>2. CASE ~IsNull(a)
  <2> DEFINE p == shared_data[a]
  <2>1. p \in Addresses /\ cell[p].ref \in Nat \ {0} /\ cell[p] \in Cells
        /\ (cell[p].ref = 1 => \A b \in Arrays \ {a} : shared_data[b] # p)
    BY <1>2, SoleHolder DEF IInv, TypeOK
  <2>2. Released(a) = [cell EXCEPT ![p] = Dropped(cell[p])] /\ cell \in [Addresses -> Cells]
    BY <1>2 DEF Released, IInv, TypeOK
  <2>3. /\ Dropped(cell[p]) \in Cells
        /\ Dropped(cell[p]).ref = cell[p].ref - 1
        /\ cell[p].ref # 1 => Dropped(cell[p]).buffer = cell[p].buffer
    BY <2>1 DEF Dropped, Free, Cells
  <2> QED
    BY <2>1, <2>2, <2>3 DEF IInv, TypeOK, IsNull
<1> QED
  BY <1>1, <1>2

LEMMA TakeNewSets ==
    ASSUME IInv, NEW a \in Arrays, NEW s \in Seq(Bytes), TakeNew(a, s)
    PROVE  Sets(a, s)
<1>1. PICK p \in FreeAddresses : PointsTo(a, p) /\ cell' = [Released(a) EXCEPT ![p] = NewCell(s)]
  BY DEF TakeNew
<1>2. p \in Addresses /\ cell[p].ref = 0
  BY DEF FreeAddresses, Free
<1>3. \A b \in Arrays : shared_data[b] # p
  <2> SUFFICES ASSUME NEW b \in Arrays, shared_data[b] = p PROVE FALSE
    OBVIOUS
  <2>1. ~IsNull(b)
    BY <1>2, AddressesAssumption DEF IsNull
  <2> QED
    BY <1>2, <2>1, SoleHolder
<1>4. NewCell(s) \in Cells /\ NewCell(s).ref = 1 /\ NewCell(s).buffer = s
  BY DEF NewCell, Cells
<1>5. shared_data' \in [Arrays -> Addresses \union {Null}] /\ shared_data'[a] = p
      /\ \A b \in Arrays \ {a} : shared_data'[b] = shared_data[b]
  BY <1>1, <1>2 DEF PointsTo, IInv, TypeOK
<1>6. cell' \in [Addresses -> Cells] /\ cell'[p] = NewCell(s)
      /\ \A q \in Addresses \ {p} : cell'[q] = Released(a)[q]
  BY <1>1, <1>2, <1>4, ReleasedCells
<1>7. RefCounts'
  <2> SUFFICES ASSUME NEW q \in Addresses PROVE cell'[q].ref = Cardinality(Holders(q))'
    BY DEF RefCounts
  <2>1. cell[q].ref = Cardinality(Holders(q))
    BY DEF IInv, RefCounts
  <2>2. CASE q = p
    BY <1>1, <1>2, <1>3, <1>4, <1>6, <2>1, <2>2, HoldersMove DEF IInv
  <2>3. CASE q # p
    BY <1>1, <1>2, <1>3, <1>6, <2>1, <2>3, HoldersMove, ReleasedCells DEF IInv
  <2> QED
    BY <2>2, <2>3
<1>8. Buffer(a)' = s
  BY <1>2, <1>4, <1>5, <1>6, AddressesAssumption DEF Buffer, IsNull
<1>9. \A b \in Arrays \ {a} : Buffer(b)' = Buffer(b)
  BY <1>3, <1>5, <1>6, ReleasedCells DEF Buffer, IsNull, IInv, TypeOK
<1> QED
  BY <1>5, <1>6, <1>7, <1>8, <1>9, SetsIf DEF IInv, TypeOK

LEMMA ClearSets ==
    ASSUME IInv, NEW a \in Arrays, ChangeTo(a, Null)
    PROVE  Sets(a, <<>>)
<1>1. CASE IsNull(a)
  <2>1. UNCHANGED vars /\ Buffer(a) = <<>>
    BY <1>1 DEF ChangeTo, IsNull, Buffer
  <2> QED
    BY <2>1, StutterSets
<1>2. CASE ~IsNull(a)
  <2>1. PointsTo(a, Null) /\ cell' = Released(a)
    BY <1>2 DEF ChangeTo, IsNull
  <2>2. shared_data' \in [Arrays -> Addresses \union {Null}] /\ shared_data'[a] = Null
        /\ \A b \in Arrays \ {a} : shared_data'[b] = shared_data[b]
    BY <2>1 DEF PointsTo, IInv, TypeOK
  <2>3. RefCounts'
    <3> SUFFICES ASSUME NEW q \in Addresses PROVE cell'[q].ref = Cardinality(Holders(q))'
      BY DEF RefCounts
    <3>1. cell[q].ref = Cardinality(Holders(q)) /\ q # Null
      BY AddressesAssumption DEF IInv, RefCounts
    <3> QED
      BY <1>2, <2>1, <3>1, HoldersMove, ReleasedCells DEF IInv, IsNull
  <2>4. Buffer(a)' = <<>> /\ \A b \in Arrays \ {a} : Buffer(b)' = Buffer(b)
    BY <2>1, <2>2, ReleasedCells DEF Buffer, IsNull
  <2> QED
    BY <2>1, <2>2, <2>3, <2>4, SetsIf, ReleasedCells DEF IInv, TypeOK
<1> QED
  BY <1>1, <1>2

LEMMA AssignSets ==
    ASSUME IInv, NEW a \in Arrays, NEW b \in Arrays, ChangeTo(a, shared_data[b])
    PROVE  Sets(a, Buffer(b))
<1> DEFINE p == shared_data[b]
<1>1. CASE shared_data[a] = p
  <2>1. UNCHANGED vars /\ Buffer(a) = Buffer(b)
    BY <1>1 DEF ChangeTo, Buffer, IsNull
  <2> QED
    BY <2>1, StutterSets
<1>2. CASE IsNull(b)
  BY <1>2, ClearSets DEF IsNull, Buffer
<1>3. CASE shared_data[a] # p /\ ~IsNull(b)
  <2>1. PointsTo(a, p) /\ cell' = [Released(a) EXCEPT ![p].ref = @ + 1] /\ p \in Addresses
    BY <1>3, SoleHolder DEF ChangeTo, IsNull
  <2>2. shared_data' \in [Arrays -> Addresses \union {Null}] /\ shared_data'[a] = p
        /\ \A d \in Arrays \ {a} : shared_data'[d] = shared_data[d]
    BY <2>1 DEF PointsTo, IInv, TypeOK
  <2>3. Released(a) \in [Addresses -> Cells] /\ Released(a)[p] = cell[p] /\ cell[p] \in Cells
    BY <1>3, <2>1, ReleasedCells DEF IInv, TypeOK
  <2>4. /\ cell' \in [Addresses -> Cells]
        /\ cell'[p].ref = cell[p].ref + 1 /\ cell'[p].buffer = cell[p].buffer
        /\ \A q \in Addresses \ {p} : cell'[q] = Released(a)[q]
    BY <2>1, <2>3 DEF Cells
  <2>5. RefCounts'
    <3> SUFFICES ASSUME NEW q \in Addresses PROVE cell'[q].ref = Cardinality(Holders(q))'
      BY DEF RefCounts
    <3>1. cell[q].ref = Cardinality(Holders(q))
      BY DEF IInv, RefCounts
    <3>2. CASE q = p
      BY <1>3, <2>1, <2>4, <3>1, <3>2, HoldersMove DEF IInv
    <3>3. CASE q # p
      BY <1>3, <2>1, <2>4, <3>1, <3>3, HoldersMove, ReleasedCells DEF IInv
    <3> QED
      BY <3>2, <3>3
  <2>6. Buffer(a)' = Buffer(b)
    BY <1>3, <2>2, <2>4 DEF Buffer, IsNull
  <2>7. \A d \in Arrays \ {a} : Buffer(d)' = Buffer(d)
    <3> SUFFICES ASSUME NEW d \in Arrays \ {a}, ~IsNull(d)
                 PROVE  cell'[shared_data[d]].buffer = cell[shared_data[d]].buffer
      BY <2>2 DEF Buffer, IsNull
    <3>1. shared_data[d] \in Addresses
      BY SoleHolder
    <3> QED
      BY <2>4, <3>1, ReleasedCells
  <2> QED
    BY <2>2, <2>4, <2>5, <2>6, <2>7, SetsIf DEF IInv, TypeOK
<1> QED
  BY <1>1, <1>2, <1>3

LEMMA EditSets ==
    ASSUME IInv, NEW a \in Arrays, ~IsNull(a), NEW s \in Seq(Bytes), Edit(a, s)
    PROVE  Sets(a, s)
<1>1. CASE cell[shared_data[a]].ref > 1
  BY <1>1, TakeNewSets DEF Edit
<1>2. CASE ~(cell[shared_data[a]].ref > 1)
  <2> DEFINE p == shared_data[a]
  <2>1. cell' = [cell EXCEPT ![p].buffer = s] /\ shared_data' = shared_data
    BY <1>2 DEF Edit
  <2>2. p \in Addresses /\ cell[p].ref = 1 /\ \A b \in Arrays \ {a} : shared_data[b] # p
    BY <1>2, SoleHolder
  <2>3. cell \in [Addresses -> Cells] /\ shared_data \in [Arrays -> Addresses \union {Null}]
    BY DEF IInv, TypeOK
  <2>4. /\ cell' \in [Addresses -> Cells]
        /\ cell'[p].ref = cell[p].ref /\ cell'[p].buffer = s
        /\ \A q \in Addresses \ {p} : cell'[q] = cell[q]
    BY <2>1, <2>2, <2>3 DEF Cells
  <2>5. RefCounts'
    BY <2>1, <2>4 DEF IInv, RefCounts, Holders
  <2>6. Buffer(a)' = s /\ \A b \in Arrays \ {a} : Buffer(b)' = Buffer(b)
    BY <2>1, <2>2, <2>3, <2>4 DEF Buffer, IsNull
  <2> QED
    BY <2>1, <2>3, <2>4, <2>5, <2>6, SetsIf DEF IInv, TypeOK
<1> QED
  BY <1>1, <1>2

-----------------------------------------------------------------------------
(* Every operation keeps the invariant, and is an operation on values or   *)
(* changes no value.                                                       *)

Implements(abstract) == IInv' /\ (abstract \/ value' = value)

LEMMA Stutters ==
    ASSUME IInv, UNCHANGED vars
    PROVE  IInv' /\ value' = value
<1>1. IInv'
  BY DEF IInv, TypeOK, RefCounts, Holders, vars
<1>2. \A b \in Arrays : Buffer(b)' = Buffer(b)
  BY DEF Buffer, IsNull, vars
<1> QED
  BY <1>1, <1>2 DEF value

LEMMA SetsBecomes ==
    ASSUME NEW a \in Arrays, NEW s, Sets(a, s)
    PROVE  IInv' /\ Values!Becomes(a, s)
BY DEF Sets, Values!Becomes, value

\* What a null array holds is no bytes.
LEMMA NullIsEmpty ==
    ASSUME NEW a \in Arrays, IsNull(a) PROVE Buffer(a) = <<>>
BY DEF Buffer

LEMMA ValueIs ==
    ASSUME NEW a \in Arrays PROVE value[a] = Buffer(a)
BY DEF value

LEMMA SameValue ==
    ASSUME NEW a \in Arrays, Sets(a, Buffer(a)) PROVE IInv' /\ value' = value
BY DEF Sets, value

LEMMA AssignStep ==
    ASSUME IInv, NEW a \in Arrays, NEW b \in Arrays, Assign(a, b)
    PROVE  IInv' /\ Values!Assign(a, b)
<1>1. Sets(a, Buffer(b))
  BY AssignSets DEF Assign
<1> QED
  BY <1>1, SetsBecomes, ValueIs DEF Values!Assign, value

LEMMA ResetStep ==
    ASSUME IInv, NEW a \in Arrays, NEW t \in Seq(Bytes), Reset(a, t)
    PROVE  IInv' /\ Values!Reset(a, t)
<1>1. Sets(a, t)
  BY ClearSets, TakeNewSets DEF Reset
<1> QED
  BY <1>1, SetsBecomes DEF Values!Reset

LEMMA ReadStep ==
    ASSUME IInv, NEW a \in Arrays, NEW t \in Seq(Bytes), Read(a, t)
    PROVE  IInv' /\ Values!Reset(a, t)
<1>1. Sets(a, t)
  BY EditSets, TakeNewSets DEF Read
<1> QED
  BY <1>1, SetsBecomes DEF Values!Reset

LEMMA SetCharStep ==
    ASSUME IInv, NEW a \in Arrays, NEW i \in Nat, NEW c \in Bytes, SetChar(a, i, c)
    PROVE  IInv' /\ Values!SetChar(a, i, c)
<1>1. Buffer(a) \in Seq(Bytes) /\ i < Len(Buffer(a)) /\ ~IsNull(a)
  BY BufferTyped DEF IInv, SetChar
<1>2. [Buffer(a) EXCEPT ![i + 1] = c] \in Seq(Bytes)
  BY <1>1
<1>3. Sets(a, [Buffer(a) EXCEPT ![i + 1] = c])
  BY <1>1, <1>2, EditSets DEF SetChar
<1> QED
  BY <1>1, <1>3, SetsBecomes, ValueIs DEF Values!SetChar, value

LEMMA ReplaceStep ==
    ASSUME IInv, NEW a \in Arrays, NEW i \in Nat, NEW t \in Seq(Bytes), Replace(a, i, t)
    PROVE  IInv' /\ Values!Replace(a, i, t)
<1>1. Sets(a, Overwritten(Buffer(a), i, t))
  BY BufferTyped, OverwrittenTyped, EditSets DEF IInv, Replace
<1>2. Overwritten(Buffer(a), i, t) = Values!Overwritten(Buffer(a), i, t)
  BY DEF Overwritten, Values!Overwritten
<1> QED
  BY <1>1, <1>2, SetsBecomes, ValueIs DEF Values!Replace, value

LEMMA InsertStep ==
    ASSUME IInv, NEW a \in Arrays, NEW i \in Nat, NEW t \in Seq(Bytes), Insert(a, i, t)
    PROVE  Implements(Values!Insert(a, i, t))
<1>1. Inserted(Buffer(a), i, t) = Values!Inserted(Buffer(a), i, t)
  BY DEF Inserted, Before, From, Values!Inserted, Values!Before, Values!From
<1>2. Buffer(a) \in Seq(Bytes)
  BY BufferTyped DEF IInv
<1>3. CASE ~IsNull(a)
  <2>1. i \in 0..Len(Buffer(a)) /\ Edit(a, Inserted(Buffer(a), i, t))
    BY <1>2, <1>3 DEF Insert
  <2>2. Sets(a, Inserted(Buffer(a), i, t))
    BY <1>2, <1>3, <2>1, InsertedTyped, EditSets
  <2> QED
    BY <1>1, <1>2, <2>1, <2>2, SetsBecomes, ValueIs DEF Implements, Values!Insert, value
<1>4. CASE IsNull(a) /\ i = 0
  <2>1. Buffer(a) = <<>> /\ Sets(a, t)
    BY <1>4, NullIsEmpty, TakeNewSets DEF Insert
  <2>2. Inserted(<<>>, 0, t) = t
    <3>1. Before(<<>>, 0) = <<>> /\ From(<<>>, 0) = <<>>
      BY SubSeqEmpty DEF Before, From
    <3>2. <<>> \o t = t /\ t \o <<>> = t
      BY ConcatEmptySeq
    <3> QED
      BY <3>1, <3>2 DEF Inserted
  <2> QED
    BY <1>1, <1>4, <2>1, <2>2, SetsBecomes, ValueIs DEF Implements, Values!Insert, value
<1>5. CASE IsNull(a) /\ i # 0
  <2>1. TakeNew(a, <<>>) /\ <<>> \in Seq(Bytes)
    BY <1>5 DEF Insert
  <2>2. Sets(a, Buffer(a))
    BY <1>5, <2>1, NullIsEmpty, TakeNewSets
  <2> QED
    BY <2>2, SameValue DEF Implements
<1> QED
  BY <1>3, <1>4, <1>5

LEMMA RemoveStep ==
    ASSUME IInv, NEW a \in Arrays, NEW i \in Nat, NEW n \in Nat, Remove(a, i, n)
    PROVE  IInv' /\ Values!Remove(a, i, n)
<1>1. Buffer(a) \in Seq(Bytes) /\ i \in 0..Len(Buffer(a)) /\ ~IsNull(a)
  BY BufferTyped DEF IInv, Remove
<1>2. Sets(a, Removed(Buffer(a), i, n))
  <2>1. CASE n > Len(Buffer(a)) \/ i > Len(Buffer(a)) - n
    <3>1. Edit(a, Resized(Buffer(a), i)) /\ i > Len(Buffer(a)) - n
      BY <1>1, <2>1 DEF Remove
    <3> QED
      BY <1>1, <3>1, RemovedToTheEnd, RemovedTyped, EditSets
  <2>2. CASE ~(n > Len(Buffer(a)) \/ i > Len(Buffer(a)) - n)
    BY <1>1, <2>2, RemovedTyped, EditSets DEF Remove
  <2> QED
    BY <2>1, <2>2
<1>3. Removed(Buffer(a), i, n) = Values!Removed(Buffer(a), i, n)
  BY DEF Removed, Before, From, Values!Removed, Values!Before, Values!From
<1> QED
  BY <1>1, <1>2, <1>3, SetsBecomes, ValueIs DEF Values!Remove, value

LEMMA ResizeStep ==
    ASSUME IInv, NEW a \in Arrays, NEW n \in Nat, Resize(a, n)
    PROVE  IInv' /\ Values!Resize(a, n)
<1>1. Buffer(a) \in Seq(Bytes) /\ Resized(Buffer(a), n) \in Seq(Bytes)
  BY BufferTyped, ResizedTyped DEF IInv
<1>2. Sets(a, Resized(Buffer(a), n))
  BY <1>1, NullIsEmpty, TakeNewSets, EditSets DEF Resize
<1>3. Resized(Buffer(a), n) = Values!Resized(Buffer(a), n)
  BY DEF Resized, Values!Resized
<1> QED
  BY <1>2, <1>3, SetsBecomes, ValueIs DEF Values!Resize, value

LEMMA ReserveStep ==
    ASSUME IInv, NEW a \in Arrays, NEW n \in Nat, Reserve(a, n)
    PROVE  IInv' /\ value' = value
<1>1. Sets(a, Buffer(a))
  BY BufferTyped, NullIsEmpty, TakeNewSets, EditSets DEF Reserve, IInv
<1> QED
  BY <1>1, SameValue

LEMMA CopyPartStep ==
    ASSUME IInv, NEW a \in Arrays, NEW b \in Arrays, NEW i \in Nat, NEW n \in Nat,
           CopyPart(a, b, i, n)
    PROVE  IInv' /\ Values!CopyPart(a, b, i, n)
<1> DEFINE s == Buffer(b)
           count == IF n > Len(s) \/ i > Len(s) - n THEN Len(s) - i ELSE n
<1>1. s \in Seq(Bytes) /\ Len(s) \in Nat
  BY BufferTyped DEF IInv
<1>2. Part(s, i, n) = Values!Part(s, i, n)
  BY DEF Part, Values!Part
<1>3. Sets(a, Part(s, i, n))
  <2>1. CASE i >= Len(s) \/ count = 0
    <3>1. ChangeTo(a, Null)
      BY <2>1 DEF CopyPart
    <3>2. Part(s, i, n) = <<>>
      BY <1>1, <2>1, SubSeqEmpty DEF Part
    <3> QED
      BY <3>1, <3>2, ClearSets
  <2>2. CASE ~(i >= Len(s) \/ count = 0)
    <3>1. TakeNew(a, SubSeq(s, i + 1, i + count))
      BY <2>2 DEF CopyPart
    <3>2. i + count = IF i + n < Len(s) THEN i + n ELSE Len(s)
      BY <1>1, <2>2
    <3>3. SubSeq(s, i + 1, i + count) \in Seq(Bytes)
      BY <1>1, <3>2, SubSeqTyped
    <3> QED
      BY <3>1, <3>2, <3>3, TakeNewSets DEF Part
  <2> QED
    BY <2>1, <2>2
<1> QED
  BY <1>2, <1>3, SetsBecomes, ValueIs DEF Values!CopyPart, value

LEMMA JoinStep ==
    ASSUME IInv, NEW a \in Arrays, NEW i \in Nat, NEW b \in Arrays, Join(a, i, b)
    PROVE  Implements(Values!Join(a, i, b) \/ Values!Assign(a, b))
<1>1. Buffer(a) \in Seq(Bytes) /\ Buffer(b) \in Seq(Bytes)
  BY BufferTyped DEF IInv
<1>2. CASE Buffer(a) = <<>>
  BY <1>2, AssignStep DEF Join, Implements
<1>3. CASE Buffer(a) # <<>>
  <2>1. Insert(a, i, Buffer(b)) /\ i \in {0, Len(Buffer(a))}
    BY <1>3 DEF Join
  <2>2. Implements(Values!Insert(a, i, Buffer(b)))
    BY <1>1, <2>1, InsertStep
  <2> QED
    BY <2>1, <2>2, ValueIs DEF Implements, Values!Insert, Values!Join, value
<1> QED
  BY <1>2, <1>3

LEMMA InitIInv == Init => IInv /\ Values!Init
<1> SUFFICES ASSUME Init PROVE IInv /\ Values!Init
  OBVIOUS
<1>1. TypeOK
  BY DEF Init, TypeOK, Cells, Free
<1>2. RefCounts
  <2> SUFFICES ASSUME NEW p \in Addresses PROVE cell[p].ref = Cardinality(Holders(p))
    BY DEF RefCounts
  <2>1. Holders(p) = {}
    BY AddressesAssumption DEF Init, Holders
  <2> QED
    BY <2>1, FS_EmptySet DEF Init, Free
<1>3. Values!Init
  BY DEF Init, Values!Init, Buffer, IsNull
<1> QED
  BY <1>1, <1>2, <1>3 DEF IInv

LEMMA NextImplements ==
    ASSUME IInv, Next
    PROVE  Implements(Values!Next)
<1> USE DEF Lengths, Sizes, Values!Lengths, Values!Sizes
<1>1. PICK a \in Arrays :
        \/ \E b \in Arrays : Assign(a, b)
        \/ Clear(a)
        \/ \E t \in Texts : Reset(a, t)
        \/ \E i \in Lengths, c \in Bytes : SetChar(a, i, c)
        \/ \E i \in Lengths, t \in Texts : Replace(a, i, t)
        \/ \E i \in Lengths, t \in Texts : Insert(a, i, t)
        \/ \E n \in Lengths : Resize(a, n) \/ Reserve(a, n)
        \/ \E i \in Lengths, n \in Sizes : Remove(a, i, n)
        \/ \E b \in Arrays, i \in Lengths, n \in Sizes : CopyPart(a, b, i, n)
        \/ \E t \in Texts : Read(a, t)
        \/ \E b \in Arrays, i \in Lengths : Join(a, i, b)
  BY DEF Next
<1>2. \A n \in 0..MaxLength : n \in Nat
  BY SizesAssumption
<1>3. \A n \in 0..MaxSize : n \in Nat
  BY SizesAssumption
<1>4. \A t \in Texts : t \in Seq(Bytes)
  BY TextsAssumption
<1>5. CASE \E b \in Arrays : Assign(a, b)
  BY <1>5, AssignStep DEF Implements, Values!Next
<1>6. CASE Clear(a)
  <2>1. Sets(a, <<>>)
    BY <1>6, ClearSets DEF Clear
  <2> QED
    BY <2>1, SetsBecomes DEF Implements, Values!Next, Values!Reset
<1>7. CASE \E t \in Texts : Reset(a, t)
  BY <1>4, <1>7, ResetStep DEF Implements, Values!Next
<1>8. CASE \E i \in Lengths, c \in Bytes : SetChar(a, i, c)
  BY <1>2, <1>8, SetCharStep DEF Implements, Values!Next
<1>9. CASE \E i \in Lengths, t \in Texts : Replace(a, i, t)
  BY <1>2, <1>4, <1>9, ReplaceStep DEF Implements, Values!Next
<1>10. CASE \E i \in Lengths, t \in Texts : Insert(a, i, t)
  BY <1>2, <1>4, <1>10, InsertStep DEF Implements, Values!Next
<1>11. CASE \E n \in Lengths : Resize(a, n) \/ Reserve(a, n)
  BY <1>2, <1>11, ResizeStep, ReserveStep DEF Implements, Values!Next
<1>12. CASE \E i \in Lengths, n \in Sizes : Remove(a, i, n)
  BY <1>2, <1>3, <1>12, RemoveStep DEF Implements, Values!Next
<1>13. CASE \E b \in Arrays, i \in Lengths, n \in Sizes : CopyPart(a, b, i, n)
  BY <1>2, <1>3, <1>13, CopyPartStep DEF Implements, Values!Next
<1>14. CASE \E t \in Texts : Read(a, t)
  BY <1>4, <1>14, ReadStep DEF Implements, Values!Next
<1>15. CASE \E b \in Arrays, i \in Lengths : Join(a, i, b)
  BY <1>2, <1>15, JoinStep DEF Implements, Values!Next
<1> QED
  BY <1>1, <1>5, <1>6, <1>7, <1>8, <1>9, <1>10, <1>11, <1>12, <1>13, <1>14, <1>15

LEMMA StepImplements == IInv /\ [Next]_vars => IInv' /\ [Values!Next]_value
BY NextImplements, Stutters DEF Implements

(***************************************************************************)
(* The arrays and cells keep their types, for any arrays and addresses.    *)
(***************************************************************************)
THEOREM TypeCorrect == Spec => []TypeOK
<1>1. Init => IInv
  BY InitIInv
<1>2. IInv /\ [Next]_vars => IInv'
  BY StepImplements
<1>3. IInv => TypeOK
  BY DEF IInv
<1> QED
  BY <1>1, <1>2, <1>3, PTL DEF Spec

(***************************************************************************)
(* Every cell counts its holders: nothing that an array points to is ever  *)
(* deleted, and nothing that no array points to is kept.                   *)
(***************************************************************************)
THEOREM CountsHolders == Spec => []RefCounts
<1>1. Init => IInv
  BY InitIInv
<1>2. IInv /\ [Next]_vars => IInv'
  BY StepImplements
<1>3. IInv => RefCounts
  BY DEF IInv
<1> QED
  BY <1>1, <1>2, <1>3, PTL DEF Spec

(***************************************************************************)
(* Sharing cannot be observed: ByteArray implements ByteValues.            *)
(***************************************************************************)
THEOREM SharingIsInvisible == Spec => ImplementsValues
<1>1. Init => IInv /\ Values!Init
  BY InitIInv
<1>2. IInv /\ [Next]_vars => IInv' /\ [Values!Next]_value
  BY StepImplements
<1>3. value = [a \in Arrays |-> Buffer(a)]
  BY DEF value
<1> QED
  BY <1>1, <1>2, PTL DEF Spec, ImplementsValues, Values!Spec, value

-----------------------------------------------------------------------------
(***************************************************************************)
(* The run length decoders.                                                *)
(*                                                                         *)
(* A file that is written is a chain of commands: each begins at a spot,   *)
(* which is a place of the file and one of the picture, and leads to the   *)
(* next; the picture has between two spots what the command draws. While a *)
(* file is written the chain ends where the pen is, so that a command adds *)
(* a spot; a run that does not fit is where it ends for good. What is left *)
(* of a file that lost bytes is still the beginning of that chain. A       *)
(* decoder that is at a spot comes with the command there to the next one, *)
(* with the pixels up to it drawn, unless the spot is past the last row.   *)
(***************************************************************************)

-----------------------------------------------------------------------------
(* Places of the picture and of the destination                            *)

LEMMA RleProducts ==
    ASSUME NEW a \in Int, NEW b \in Int, NEW c \in Nat, a <= b
    PROVE  a * c <= b * c
  OBVIOUS

\* Where row y of the picture begins in the destination.
LineOf(r, y) == IF r THEN (Height - 1 - y) * Width ELSE y * Width

\* The place of the picture that belongs at place p of the destination.
Flip(r, p) == IF r THEN (Height - 1 - p \div Width) * Width + (p % Width) ELSE p

LEMMA PictureSizes == Width \in Nat /\ Width > 0 /\ Height \in Nat /\ Height > 0
  BY PictureHasPixels

LEMMA PlacesTyped == Places \subseteq Nat
  BY PictureSizes DEF Places

LEMMA RowAndColumn ==
    ASSUME NEW p \in Places
    PROVE  \E a \in 0..Height - 1, c \in 0..Width - 1 :
              /\ p \div Width = a /\ p % Width = c
              /\ p = a * Width + c
<1> DEFINE W == Width
           a == p \div W
           c == p % W
<1>1. p \in Nat /\ W \in Nat \ {0} /\ Height \in Nat /\ p < W * Height
  <2>1. W * Height \in Nat
    BY PictureSizes
  <2> QED
    BY <2>1, PictureSizes DEF Places
<1> HIDE DEF W
<1>2. a \in Nat /\ c \in 0..W - 1 /\ p = a * W + c
  BY <1>1
<1> HIDE DEF a, c
<1>3. a < Height
  <2> SUFFICES ASSUME a >= Height PROVE FALSE
    BY <1>1, <1>2
  <2>1. Height * W <= a * W
    BY <1>1, <1>2, RleProducts
  <2>2. Height * W = W * Height /\ a * W \in Nat /\ W * Height \in Nat
    BY <1>1, <1>2
  <2> QED
    BY <1>1, <1>2, <2>1, <2>2
<1> QED
  BY <1>1, <1>2, <1>3 DEF W, a, c

\* Row a, seen from the beginning of row y.
LEMMA Rows ==
    ASSUME NEW a \in Int, NEW c \in 0..Width - 1, NEW y \in Int
    PROVE  /\ a * Width \in Int /\ y * Width \in Int
           /\ a < y => a * Width + c < y * Width
           /\ a > y => a * Width + c >= y * Width + Width
           /\ a = y => a * Width + c - y * Width = c
<1> DEFINE W == Width
<1>1. W \in Nat /\ W > 0 /\ c \in 0..W - 1
  BY PictureSizes
<1> HIDE DEF W
<1>2. a * W \in Int /\ y * W \in Int
  BY <1>1
<1>3. ASSUME a < y PROVE a * W + c < y * W
  <2>1. (a + 1) * W <= y * W
    BY <1>1, <1>3, RleProducts
  <2>2. (a + 1) * W = a * W + W
    BY <1>1
  <2> QED
    BY <1>1, <1>2, <2>1, <2>2
<1>4. ASSUME a > y PROVE a * W + c >= y * W + W
  <2>1. (y + 1) * W <= a * W
    BY <1>1, <1>4, RleProducts
  <2>2. (y + 1) * W = y * W + W
    BY <1>1
  <2> QED
    BY <1>1, <1>2, <2>1, <2>2
<1>5. ASSUME a = y PROVE a * W + c - y * W = c
  BY <1>1, <1>2, <1>5
<1> QED
  BY <1>2, <1>3, <1>4, <1>5 DEF W

\* Mirrored rows keep the order of the pixels in them.
LEMMA FlipLine ==
    ASSUME NEW r \in BOOLEAN, NEW y \in 0..Height - 1, NEW p \in Places
    PROVE  /\ Flip(r, p) \in Places
           /\ LineOf(r, y) \in Places
           /\ y * Width \in Nat
           /\ p - LineOf(r, y) \in 0..Width - 1 <=> Flip(r, p) - y * Width \in 0..Width - 1
           /\ p - LineOf(r, y) \in 0..Width - 1 => p - LineOf(r, y) = Flip(r, p) - y * Width
           /\ Flip(r, p) >= y * Width + Width
                <=> IF r THEN p < LineOf(r, y) ELSE p >= LineOf(r, y) + Width
<1>1. PICK a \in 0..Height - 1, c \in 0..Width - 1 :
              p \div Width = a /\ p % Width = c /\ p = a * Width + c
  BY RowAndColumn
<1> DEFINE f == IF r THEN Height - 1 - a ELSE a
           l == IF r THEN Height - 1 - y ELSE y
<1>2. Flip(r, p) = f * Width + c /\ LineOf(r, y) = l * Width
  BY <1>1 DEF Flip, LineOf
<1>3. f \in 0..Height - 1 /\ l \in 0..Height - 1
  BY PictureSizes
<1>4. /\ f < y <=> IF r THEN a > l ELSE a < l
      /\ f > y <=> IF r THEN a < l ELSE a > l
      /\ f = y <=> a = l
  BY PictureSizes
<1> HIDE DEF f, l
<1>5. \A k \in 0..Height - 1, d \in 0..Width - 1 : k * Width + d \in Places
  <2> TAKE k \in 0..Height - 1, d \in 0..Width - 1
  <2>1. k \in Int /\ Height \in Int /\ k < Height /\ k >= 0
    BY PictureSizes
  <2>2. k * Width + d < Height * Width
    BY <2>1, Rows
  <2>3. k * Width \in Nat /\ Height * Width = Width * Height /\ Width * Height \in Nat
    BY <2>1, PictureSizes
  <2> QED
    BY <2>2, <2>3, PictureSizes DEF Places
<1>6. 0 \in 0..Width - 1
  BY PictureSizes
<1>7. Flip(r, p) \in Places /\ LineOf(r, y) \in Places
  <2>1. l * Width + 0 \in Places /\ f * Width + c \in Places
    BY <1>3, <1>5, <1>6
  <2>2. l * Width + 0 = l * Width
    BY <1>3, PictureSizes
  <2> QED
    BY <1>2, <2>1, <2>2
<1>8. y * Width \in Nat
  BY PictureSizes
<1> DEFINE fw == f * Width
           lw == l * Width
           yw == y * Width
           aw == a * Width
           H1 == IF r THEN p < lw ELSE p >= lw + Width
<1>9. f \in Int /\ l \in Int /\ y \in Int /\ a \in Int
  BY <1>3, PictureSizes
<1>10. /\ fw \in Int /\ yw \in Int
       /\ f < y => fw + c < yw
       /\ f > y => fw + c >= yw + Width
       /\ f = y => fw + c - yw = c
  BY <1>9, Rows
<1>11. /\ aw \in Int /\ lw \in Int
       /\ a < l => aw + c < lw
       /\ a > l => aw + c >= lw + Width
       /\ a = l => aw + c - lw = c
  BY <1>9, Rows
<1>12. p = aw + c /\ Flip(r, p) = fw + c /\ LineOf(r, y) = lw
  BY <1>1, <1>2
<1> HIDE DEF fw, lw, yw, aw
<1>13. Width \in Nat /\ Width > 0 /\ c \in 0..Width - 1
  BY PictureSizes
<1>14. /\ p - lw \in 0..Width - 1 <=> fw + c - yw \in 0..Width - 1
       /\ p - lw \in 0..Width - 1 => p - lw = fw + c - yw
  BY <1>4, <1>9, <1>10, <1>11, <1>12, <1>13
<1>15. fw + c >= yw + Width <=> IF r THEN p < lw ELSE p >= lw + Width
  BY <1>4, <1>9, <1>10, <1>11, <1>12, <1>13
<1>16. /\ p - LineOf(r, y) \in 0..Width - 1 <=> Flip(r, p) - yw \in 0..Width - 1
       /\ p - LineOf(r, y) \in 0..Width - 1 => p - LineOf(r, y) = Flip(r, p) - yw
       /\ Flip(r, p) >= yw + Width
            <=> IF r THEN p < LineOf(r, y) ELSE p >= LineOf(r, y) + Width
  <2>1. /\ Flip(r, p) = fw + c /\ LineOf(r, y) = lw
        /\ fw \in Int /\ lw \in Int /\ p \in Int /\ c \in Int /\ yw \in Int
    BY <1>10, <1>11, <1>12, <1>13, PlacesTyped
  <2>2. p - LineOf(r, y) \in 0..Width - 1 <=> Flip(r, p) - yw \in 0..Width - 1
    BY <2>1, <1>14
  <2>3. p - LineOf(r, y) \in 0..Width - 1 => p - LineOf(r, y) = Flip(r, p) - yw
    BY <2>1, <1>14
  <2>4. Flip(r, p) >= yw + Width
            <=> IF r THEN p < LineOf(r, y) ELSE p >= LineOf(r, y) + Width
    BY <2>1, <1>15
  <2> QED
    BY <2>2, <2>3, <2>4
<1> QED
  BY <1>7, <1>8, <1>16 DEF yw

LEMMA LineSteps ==
    ASSUME NEW r \in BOOLEAN, NEW y \in Int, NEW d \in Int
    PROVE  /\ LineOf(r, y) \in Int /\ d * Width \in Int
           /\ LineOf(r, y + d) = IF r THEN LineOf(r, y) - d * Width ELSE LineOf(r, y) + d * Width
           /\ (y + d) * Width = y * Width + d * Width
  BY PictureSizes DEF LineOf

-----------------------------------------------------------------------------
(* A file, command by command                                              *)

\* Where a command begins: in the file, and in the picture.
Spots == [at : Nat, x : Nat, y : Nat]

Start == [at |-> 0, x |-> 0, y |-> 0]

\* Right of the picture there is the end of the line.
InLine(x) == IF x < Width THEN x ELSE Width

PlaceOf(t) == t.y * Width + InLine(t.x)

EncodedPixel(b, v, i) == IF b = 8 THEN v ELSE IF i % 2 = 1 THEN v \div 16 ELSE v % 16

EncodedAt(b, pic, F, t, u) ==
    /\ F[t.at + 1] > 0
    /\ t.x + F[t.at + 1] <= Width
    /\ u = [at |-> t.at + 2, x |-> t.x + F[t.at + 1], y |-> t.y]
    /\ \A p \in Places :
          p - PlaceOf(t) + 1 \in 1..F[t.at + 1]
            => pic[p] = EncodedPixel(b, F[t.at + 2], p - PlaceOf(t) + 1)

AbsolutePixel(b, F, at, i) ==
    IF b = 8 THEN F[at + 2 + i]
    ELSE IF i % 2 = 1 THEN F[at + 2 + (i + 1) \div 2] \div 16 ELSE F[at + 2 + i \div 2] % 16

\* The bytes that n pixels take.
SizeOf(b, n) == IF b = 8 THEN n ELSE (n + 1) \div 2

AbsoluteAt(b, pic, F, t, u) ==
    /\ F[t.at + 1] = 0 /\ F[t.at + 2] > 2
    /\ b = 4 => F[t.at + 2] % 2 = 1
    /\ t.x + F[t.at + 2] <= Width
    /\ u = [at |-> t.at + 2 + SizeOf(b, F[t.at + 2]) + (SizeOf(b, F[t.at + 2]) % 2),
            x  |-> t.x + F[t.at + 2], y |-> t.y]
    /\ \A p \in Places :
          p - PlaceOf(t) + 1 \in 1..F[t.at + 2]
            => pic[p] = AbsolutePixel(b, F, t.at, p - PlaceOf(t) + 1)

Between(t, u) == {p \in Places : PlaceOf(t) <= p /\ p < PlaceOf(u)}

EndOfLineAt(pic, F, t, u) ==
    /\ F[t.at + 1] = 0 /\ F[t.at + 2] = 0
    /\ u = [at |-> t.at + 2, x |-> 0, y |-> t.y + 1]
    /\ \A p \in Between(t, u) : pic[p] = Black

DeltaAt(r, o, pic, F, t, u) ==
    /\ F[t.at + 1] = 0 /\ F[t.at + 2] = 2
    /\ r => F[t.at + 3] = 0
    /\ u = [at |-> t.at + 4, x |-> t.x + F[t.at + 3], y |-> t.y + F[t.at + 4]]
    /\ \A p \in Between(t, u) : pic[p] = o

\* The command there has pixels, if its line has.
Draws(F, t) == F[t.at + 1] > 0 \/ F[t.at + 2] > 2 \/ (F[t.at + 2] = 0 /\ t.x < Width)

\* The command at spot t of file F leads to spot u, and the picture has it;
\* without z nothing is drawn past the last row.
Command(b, r, o, z, pic, F, t, u) ==
    /\ Draws(F, t) /\ t.y >= Height => z
    /\ t.at + 2 <= u.at
    /\ \/ EncodedAt(b, pic, F, t, u)
       \/ AbsoluteAt(b, pic, F, t, u)
       \/ EndOfLineAt(pic, F, t, u)
       \/ DeltaAt(r, o, pic, F, t, u)

\* Every spot but the last has a command that leads to one that is not beyond it.
Chain(b, r, o, z, pic, F, T, last) ==
    /\ T \subseteq Spots /\ Start \in T /\ last \in T
    /\ \A t \in T : t.at <= last.at /\ PlaceOf(t) <= PlaceOf(last)
    /\ \A t \in T : t = last \/ \E u \in T : Command(b, r, o, z, pic, F, t, u)

LEMMA InLineIs ==
    ASSUME NEW x \in Nat
    PROVE  /\ InLine(x) \in Nat /\ InLine(x) <= Width
           /\ x <= Width => InLine(x) = x
           /\ x >= Width => InLine(x) = Width
  BY PictureSizes DEF InLine

LEMMA SpotFields ==
    ASSUME NEW t \in Spots
    PROVE  /\ t.at \in Nat /\ t.x \in Nat /\ t.y \in Nat
           /\ t = [at |-> t.at, x |-> t.x, y |-> t.y]
           /\ PlaceOf(t) \in Nat
<1>1. /\ t.at \in Nat /\ t.x \in Nat /\ t.y \in Nat
      /\ t = [at |-> t.at, x |-> t.x, y |-> t.y]
  BY DEF Spots
<1>2. InLine(t.x) \in Nat
  BY <1>1, InLineIs
<1>3. t.y * Width \in Nat
  BY <1>1, PictureSizes
<1>4. PlaceOf(t) \in Nat
  BY <1>2, <1>3 DEF PlaceOf
<1> QED
  BY <1>1, <1>4

LEMMA PlacesOrder ==
    ASSUME NEW t \in Spots, NEW u \in Spots,
           t.y < u.y \/ (t.y = u.y /\ t.x <= u.x)
    PROVE  PlaceOf(t) <= PlaceOf(u)
<1> DEFINE tw == t.y * Width
           uw == u.y * Width
           ti == InLine(t.x)
           ui == InLine(u.x)
<1>1. t.x \in Nat /\ t.y \in Nat /\ u.x \in Nat /\ u.y \in Nat /\ Width \in Nat
  BY SpotFields, PictureSizes
<1>2. tw \in Nat /\ uw \in Nat
  BY <1>1
<1>3. ti \in Nat /\ ui \in Nat /\ ti <= Width /\ (t.x <= u.x => ti <= ui)
  BY <1>1 DEF InLine
<1>4. ASSUME t.y < u.y PROVE tw + Width <= uw
  <2>1. (t.y + 1) * Width <= u.y * Width
    BY <1>1, <1>4, RleProducts
  <2>2. (t.y + 1) * Width = tw + Width
    BY <1>1
  <2> QED
    BY <2>1, <2>2
<1>5. t.y = u.y => tw = uw
  OBVIOUS
<1> HIDE DEF tw, uw, ti, ui
<1>6. tw + ti <= uw + ui
  BY <1>1, <1>2, <1>3, <1>4, <1>5
<1> QED
  BY <1>6 DEF PlaceOf, tw, uw, ti, ui

HasBytes(F, n) == \A i \in 1..n : F[i] \in Nat

\* Commands go forwards, in the file and in the picture.
LEMMA CommandForward ==
    ASSUME NEW b \in {4, 8}, NEW r, NEW o, NEW z, NEW pic, NEW F, NEW n \in Nat,
           NEW t \in Spots, NEW u \in Spots,
           HasBytes(F, n), u.at <= n, Command(b, r, o, z, pic, F, t, u)
    PROVE  t.at + 2 <= u.at /\ PlaceOf(t) <= PlaceOf(u)
<1>1. /\ t.at \in Nat /\ u.at \in Nat /\ t.x \in Nat /\ t.y \in Nat
      /\ u.x \in Nat /\ u.y \in Nat
      /\ t.at + 2 <= u.at
  BY SpotFields DEF Command
<1>2. F[t.at + 1] \in Nat /\ F[t.at + 2] \in Nat
  <2>1. t.at + 1 \in 1..n /\ t.at + 2 \in 1..n
    BY <1>1
  <2> QED
    BY <2>1 DEF HasBytes
<1>3. CASE EncodedAt(b, pic, F, t, u)
  <2>1. u.x = t.x + F[t.at + 1] /\ u.y = t.y
    BY <1>3 DEF EncodedAt
  <2>2. t.x <= u.x
    BY <1>1, <1>2, <2>1
  <2> QED
    BY <1>1, <2>1, <2>2, PlacesOrder
<1>4. CASE AbsoluteAt(b, pic, F, t, u)
  <2>1. u.x = t.x + F[t.at + 2] /\ u.y = t.y
    BY <1>4 DEF AbsoluteAt
  <2>2. t.x <= u.x
    BY <1>1, <1>2, <2>1
  <2> QED
    BY <1>1, <2>1, <2>2, PlacesOrder
<1>5. CASE EndOfLineAt(pic, F, t, u)
  <2>1. u.y = t.y + 1
    BY <1>5 DEF EndOfLineAt
  <2> QED
    BY <1>1, <2>1, PlacesOrder
<1>6. CASE DeltaAt(r, o, pic, F, t, u)
  <2>1. u.at = t.at + 4 /\ u.x = t.x + F[t.at + 3] /\ u.y = t.y + F[t.at + 4]
    BY <1>6 DEF DeltaAt
  <2>2. F[t.at + 3] \in Nat /\ F[t.at + 4] \in Nat
    <3>1. t.at + 3 \in 1..n /\ t.at + 4 \in 1..n
      BY <1>1, <2>1
    <3> QED
      BY <3>1 DEF HasBytes
  <2>3. t.x <= u.x /\ t.y <= u.y
    BY <1>1, <2>1, <2>2
  <2> QED
    BY <1>1, <2>3, PlacesOrder
<1> QED
  BY <1>1, <1>3, <1>4, <1>5, <1>6 DEF Command

SameBytes(F, G, n) == \A i \in 1..n : G[i] = F[i]

SamePicture(pic, qic, k) == \A p \in Places : p < k => qic[p] = pic[p]

\* The pixels of a run end where the next spot begins.
LEMMA RunEnds ==
    ASSUME NEW t \in Spots, NEW u \in Spots, NEW n \in Nat, NEW p \in Places,
           t.x + n <= Width, u.x = t.x + n, u.y = t.y
    PROVE  /\ PlaceOf(u) = PlaceOf(t) + n
           /\ p - PlaceOf(t) + 1 \in 1..n <=> PlaceOf(t) <= p /\ p < PlaceOf(u)
<1>1. t.x \in Nat /\ t.y \in Nat /\ p \in Nat /\ Width \in Nat
  BY SpotFields, PlacesTyped, PictureSizes
<1> DEFINE w == t.y * Width
<1>2. w \in Nat
  BY <1>1, PictureSizes
<1>3. t.x <= Width /\ t.x + n \in Nat
  BY <1>1
<1>4. InLine(t.x) = t.x /\ InLine(u.x) = t.x + n
  BY <1>1, <1>3, InLineIs
<1>5. PlaceOf(t) = w + t.x /\ PlaceOf(u) = w + (t.x + n)
  BY <1>4 DEF PlaceOf
<1> HIDE DEF w
<1> QED
  BY <1>1, <1>2, <1>5

LEMMA SizeBounds ==
    ASSUME NEW b \in {4, 8}, NEW n \in Nat, NEW i \in 1..n
    PROVE  /\ SizeOf(b, n) \in Nat
           /\ b = 8 => i <= SizeOf(b, n)
           /\ b # 8 => (i + 1) \div 2 \in 1..SizeOf(b, n)
           /\ b # 8 /\ i % 2 # 1 => i \div 2 \in 1..SizeOf(b, n)
  BY DEF SizeOf

LEMMA AbsolutePixelKept ==
    ASSUME NEW b \in {4, 8}, NEW F, NEW G, NEW m \in Nat, NEW at \in Nat,
           NEW n \in Nat, NEW i \in 1..n,
           SameBytes(F, G, m), at + 2 + SizeOf(b, n) <= m
    PROVE  AbsolutePixel(b, G, at, i) = AbsolutePixel(b, F, at, i)
<1> DEFINE s == SizeOf(b, n)
           j == (i + 1) \div 2
           k == i \div 2
<1>1. /\ s \in Nat /\ at + 2 + s <= m
      /\ b = 8 => i <= s
      /\ b # 8 => j \in 1..s
      /\ b # 8 /\ i % 2 # 1 => k \in 1..s
  BY SizeBounds
<1> HIDE DEF s, j, k
<1>2. CASE b = 8
  <2>1. at + 2 + i \in 1..m
    BY <1>1, <1>2
  <2> QED
    BY <1>2, <2>1 DEF SameBytes, AbsolutePixel
<1>3. CASE b # 8 /\ i % 2 = 1
  <2>1. at + 2 + j \in 1..m
    BY <1>1, <1>3
  <2>2. G[at + 2 + j] = F[at + 2 + j]
    BY <2>1 DEF SameBytes
  <2> QED
    BY <1>3, <2>2 DEF AbsolutePixel, j
<1>4. CASE b # 8 /\ i % 2 # 1
  <2>1. at + 2 + k \in 1..m
    BY <1>1, <1>4
  <2>2. G[at + 2 + k] = F[at + 2 + k]
    BY <2>1 DEF SameBytes
  <2> QED
    BY <1>4, <2>2 DEF AbsolutePixel, k
<1> QED
  BY <1>2, <1>3, <1>4

\* A command stays what it is when the file goes on and more is drawn beyond it.
LEMMA CommandKept ==
    ASSUME NEW b \in {4, 8}, NEW r, NEW o,
           NEW z \in BOOLEAN, NEW zz \in BOOLEAN, z => zz, NEW pic, NEW qic,
           NEW F, NEW G, NEW n \in Nat, NEW t \in Spots, NEW u \in Spots, HasBytes(F, n), u.at <= n,
           SameBytes(F, G, n), SamePicture(pic, qic, PlaceOf(u)),
           Command(b, r, o, z, pic, F, t, u)
    PROVE  Command(b, r, o, zz, qic, G, t, u)
<1>1. /\ t.at \in Nat /\ u.at \in Nat /\ t.x \in Nat /\ t.y \in Nat
      /\ u.x \in Nat /\ u.y \in Nat
      /\ t.at + 2 <= u.at
  BY SpotFields DEF Command
<1>2. t.at + 1 \in 1..n /\ t.at + 2 \in 1..n
  BY <1>1
<1>3. /\ F[t.at + 1] \in Nat /\ F[t.at + 2] \in Nat
      /\ G[t.at + 1] = F[t.at + 1] /\ G[t.at + 2] = F[t.at + 2]
  BY <1>2 DEF HasBytes, SameBytes
<1>10. (Draws(G, t) /\ t.y >= Height => zz) /\ t.at + 2 <= u.at
  BY <1>3 DEF Draws, Command
<1>4. CASE EncodedAt(b, pic, F, t, u)
  <2>1. u.x = t.x + F[t.at + 1] /\ u.y = t.y /\ t.x + F[t.at + 1] <= Width
    BY <1>4 DEF EncodedAt
  <2>2. ASSUME NEW p \in Places, p - PlaceOf(t) + 1 \in 1..F[t.at + 1]
        PROVE  qic[p] = pic[p]
    BY <1>3, <2>1, <2>2, RunEnds DEF SamePicture
  <2>3. EncodedAt(b, qic, G, t, u)
    BY <1>3, <1>4, <2>2 DEF EncodedAt
  <2> QED
    BY <1>10, <2>3 DEF Command
<1>5. CASE AbsoluteAt(b, pic, F, t, u)
  <2> DEFINE k == F[t.at + 2]
  <2>1. u.x = t.x + k /\ u.y = t.y /\ t.x + k <= Width
    BY <1>5 DEF AbsoluteAt
  <2>2. t.at + 2 + SizeOf(b, k) <= n
    <3>1. u.at = t.at + 2 + SizeOf(b, k) + (SizeOf(b, k) % 2) /\ k \in Nat
      BY <1>3, <1>5 DEF AbsoluteAt
    <3>2. SizeOf(b, k) \in Nat
      BY <3>1 DEF SizeOf
    <3> QED
      BY <1>1, <3>1, <3>2
  <2>3. ASSUME NEW p \in Places, p - PlaceOf(t) + 1 \in 1..k
        PROVE  /\ qic[p] = pic[p]
               /\ AbsolutePixel(b, G, t.at, p - PlaceOf(t) + 1)
                    = AbsolutePixel(b, F, t.at, p - PlaceOf(t) + 1)
    <3>1. qic[p] = pic[p]
      BY <1>3, <2>1, <2>3, RunEnds DEF SamePicture
    <3> QED
      BY <1>1, <1>3, <2>2, <2>3, <3>1, AbsolutePixelKept
  <2>4. AbsoluteAt(b, qic, G, t, u)
    BY <1>3, <1>5, <2>3 DEF AbsoluteAt
  <2> QED
    BY <1>10, <2>4 DEF Command
<1>6. CASE EndOfLineAt(pic, F, t, u)
  <2>1. EndOfLineAt(qic, G, t, u)
    BY <1>3, <1>6 DEF EndOfLineAt, Between, SamePicture
  <2> QED
    BY <1>10, <2>1 DEF Command
<1>7. CASE DeltaAt(r, o, pic, F, t, u)
  <2>1. u.at = t.at + 4
    BY <1>7 DEF DeltaAt
  <2>2. t.at + 3 \in 1..n /\ t.at + 4 \in 1..n
    BY <1>1, <2>1
  <2>3. G[t.at + 3] = F[t.at + 3] /\ G[t.at + 4] = F[t.at + 4]
    BY <2>2 DEF SameBytes
  <2>4. DeltaAt(r, o, qic, G, t, u)
    BY <1>3, <1>7, <2>3 DEF DeltaAt, Between, SamePicture
  <2> QED
    BY <1>10, <2>4 DEF Command
<1> QED
  BY <1>4, <1>5, <1>6, <1>7 DEF Command

LEMMA ChainKept ==
    ASSUME NEW b \in {4, 8}, NEW r, NEW o,
           NEW z \in BOOLEAN, NEW zz \in BOOLEAN, z => zz, NEW pic, NEW qic,
           NEW F, NEW G, NEW T, NEW last,
           Chain(b, r, o, z, pic, F, T, last), HasBytes(F, last.at),
           SameBytes(F, G, last.at), SamePicture(pic, qic, PlaceOf(last))
    PROVE  Chain(b, r, o, zz, qic, G, T, last)
<1>1. /\ T \subseteq Spots /\ Start \in T /\ last \in T /\ last \in Spots
      /\ \A t \in T : t.at <= last.at /\ PlaceOf(t) <= PlaceOf(last)
      /\ \A t \in T : t = last \/ \E u \in T : Command(b, r, o, z, pic, F, t, u)
  BY DEF Chain
<1>2. ASSUME NEW t \in T, t # last
      PROVE  \E u \in T : Command(b, r, o, zz, qic, G, t, u)
  <2>1. PICK u \in T : Command(b, r, o, z, pic, F, t, u)
    BY <1>1, <1>2
  <2>2. u \in Spots /\ t \in Spots /\ u.at <= last.at /\ PlaceOf(u) <= PlaceOf(last)
    BY <1>1
  <2>3. SamePicture(pic, qic, PlaceOf(u))
    <3> SUFFICES ASSUME NEW p \in Places, p < PlaceOf(u) PROVE qic[p] = pic[p]
      BY DEF SamePicture
    <3>1. PlaceOf(u) \in Nat /\ PlaceOf(last) \in Nat /\ p \in Nat
      BY <1>1, <2>2, SpotFields, PlacesTyped
    <3>2. p < PlaceOf(last)
      BY <2>2, <3>1
    <3> QED
      BY <3>2 DEF SamePicture
  <2>4. last.at \in Nat
    BY <1>1, SpotFields
  <2>5. Command(b, r, o, zz, qic, G, t, u)
    BY <2>1, <2>2, <2>3, <2>4, CommandKept
  <2> QED
    BY <2>5
<1> QED
  BY <1>1, <1>2 DEF Chain

LEMMA ChainGoesOn ==
    ASSUME NEW b \in {4, 8}, NEW r, NEW o, NEW z, NEW pic, NEW F, NEW T,
           NEW last, NEW new \in Spots,
           Chain(b, r, o, z, pic, F, T, last), HasBytes(F, new.at),
           Command(b, r, o, z, pic, F, last, new)
    PROVE  Chain(b, r, o, z, pic, F, T \union {new}, new)
<1>1. /\ T \subseteq Spots /\ Start \in T /\ last \in T /\ last \in Spots
      /\ \A t \in T : t.at <= last.at /\ PlaceOf(t) <= PlaceOf(last)
      /\ \A t \in T : t = last \/ \E u \in T : Command(b, r, o, z, pic, F, t, u)
  BY DEF Chain
<1>2. new.at \in Nat /\ last.at \in Nat /\ PlaceOf(new) \in Nat /\ PlaceOf(last) \in Nat
  BY <1>1, SpotFields
<1>3. last.at + 2 <= new.at /\ PlaceOf(last) <= PlaceOf(new)
  BY <1>1, <1>2, CommandForward
<1>4. ASSUME NEW t \in T \union {new}
      PROVE  t.at <= new.at /\ PlaceOf(t) <= PlaceOf(new)
  <2>1. CASE t = new
    BY <1>2, <2>1
  <2>2. CASE t \in T
    <3>1. t.at \in Nat /\ PlaceOf(t) \in Nat /\ t.at <= last.at /\ PlaceOf(t) <= PlaceOf(last)
      BY <1>1, <2>2, SpotFields
    <3> QED
      BY <1>2, <1>3, <3>1
  <2> QED
    BY <2>1, <2>2
<1>5. ASSUME NEW t \in T \union {new}, t # new
      PROVE  \E u \in T \union {new} : Command(b, r, o, z, pic, F, t, u)
  BY <1>1, <1>5
<1> QED
  BY <1>1, <1>4, <1>5 DEF Chain

-----------------------------------------------------------------------------
(* What has been written                                                   *)

Fresh(pic, o, k) == \A p \in Places : k <= p => pic[p] = o

\* After its last spot file F of n bytes has nothing,
PenAt(last, n, pn, en) == /\ n = last.at /\ ~en
                          /\ pn.x = last.x /\ pn.y = last.y

\* or the end of the bitmap,
EndAt(pic, F, n, last) ==
    /\ n = last.at + 2 /\ F[last.at + 1] = 0 /\ F[last.at + 2] = 1
    /\ Fresh(pic, Black, PlaceOf(last))

\* which fills the image from its iterator on,
Fills(r, last) == \/ last.x < Width
                  \/ last.x = Width /\ (r => last.y > 0)
                  \/ last.y >= Height - 1

StartsRun(F, n) == F[n + 1] > 0 \/ F[n + 2] > 2

RunLength(F, n) == IF F[n + 1] > 0 THEN F[n + 1] ELSE F[n + 2]

\* or a run that does not fit.
RunAt(F, n, last) ==
    /\ last.at + 2 <= n
    /\ StartsRun(F, last.at)
    /\ last.x + RunLength(F, last.at) > Width

Written(b, r, o, z, pic, F, n, pn, en, int) ==
    /\ ~en => Fresh(pic, o, PlaceOf(pn))
    /\ \E T, last :
          /\ Chain(b, r, o, z, pic, F, T, last)
          /\ last.at <= n
          /\ \/ int /\ PenAt(last, n, pn, en)
             \/ int /\ en /\ EndAt(pic, F, n, last) /\ Fills(r, last)
             \/ ~int /\ RunAt(F, n, last) /\ (~en => PlaceOf(last) <= PlaceOf(pn))

Pens == [x : Nat, y : Nat]

\* The spot of the pen at byte n.
SpotAt(n, pn) == [at |-> n, x |-> pn.x, y |-> pn.y]

LEMMA PenSpot ==
    ASSUME NEW pn \in Pens, NEW n \in Nat
    PROVE  /\ SpotAt(n, pn) \in Spots
           /\ SpotAt(n, pn).at = n /\ SpotAt(n, pn).x = pn.x /\ SpotAt(n, pn).y = pn.y
           /\ PlaceOf(SpotAt(n, pn)) = PlaceOf(pn)
           /\ pn.x \in Nat /\ pn.y \in Nat /\ pn = [x |-> pn.x, y |-> pn.y]
  BY DEF Pens, Spots, PlaceOf, SpotAt

LEMMA SamePlaces == ASSUME NEW s, NEW t, s.x = t.x, s.y = t.y PROVE PlaceOf(s) = PlaceOf(t)
  BY DEF PlaceOf

LEMMA BytesKept ==
    ASSUME NEW F, NEW G, NEW n \in Nat, NEW m \in Nat, m <= n, SameBytes(F, G, n)
    PROVE  SameBytes(F, G, m)
  BY DEF SameBytes

LEMMA HasFewer ==
    ASSUME NEW F, NEW n \in Nat, NEW m \in Nat, m <= n, HasBytes(F, n)
    PROVE  HasBytes(F, m)
  BY DEF HasBytes

LEMMA PictureKept ==
    ASSUME NEW pic, NEW qic, NEW k \in Nat, NEW l \in Nat, l <= k, SamePicture(pic, qic, k)
    PROVE  SamePicture(pic, qic, l)
  BY PlacesTyped DEF SamePicture

LEMMA RunKept ==
    ASSUME NEW last \in Spots, NEW F, NEW G, NEW n \in Nat, NEW m \in Nat, n <= m,
           SameBytes(F, G, n), RunAt(F, n, last)
    PROVE  RunAt(G, m, last)
<1>1. last.at \in Nat /\ last.at + 2 <= n
  BY SpotFields DEF RunAt
<1>2. last.at + 1 \in 1..n /\ last.at + 2 \in 1..n
  BY <1>1
<1>3. G[last.at + 1] = F[last.at + 1] /\ G[last.at + 2] = F[last.at + 2]
  BY <1>2 DEF SameBytes
<1>4. last.at + 2 <= m
  BY <1>1
<1> QED
  BY <1>3, <1>4 DEF RunAt, StartsRun, RunLength

-----------------------------------------------------------------------------
(* The commands as they are written                                        *)

LEMMA Appended ==
    ASSUME NEW F \in Seq(Nat), NEW c \in Seq(Nat), NEW G, G = F \o c
    PROVE  /\ G \in Seq(Nat) /\ Len(F) \in Nat /\ Len(c) \in Nat /\ Len(G) = Len(F) + Len(c)
           /\ SameBytes(F, G, Len(F)) /\ HasBytes(F, Len(F)) /\ HasBytes(G, Len(G))
           /\ \A j \in 1..Len(c) : G[Len(F) + j] = c[j]
<1>1. /\ G \in Seq(Nat) /\ Len(F) \in Nat /\ Len(c) \in Nat /\ Len(G) = Len(F) + Len(c)
      /\ \A i \in 1..Len(F) + Len(c) : G[i] = IF i <= Len(F) THEN F[i] ELSE c[i - Len(F)]
  BY ConcatProperties, LenProperties
<1>2. SameBytes(F, G, Len(F))
  BY <1>1 DEF SameBytes
<1>3. HasBytes(F, Len(F)) /\ HasBytes(G, Len(G))
  BY <1>1, ElementOfSeq DEF HasBytes
<1>4. \A j \in 1..Len(c) : G[Len(F) + j] = c[j]
  BY <1>1
<1> QED
  BY <1>1, <1>2, <1>3, <1>4

\* Two nibbles of a byte.
LEMMA Nibbles ==
    ASSUME NEW e \in 0..15, NEW d \in 0..15
    PROVE  16 * e + d \in Nat /\ (16 * e + d) \div 16 = e /\ (16 * e + d) % 16 = d
  OBVIOUS

LEMMA IndexesTyped ==
    ASSUME NEW b \in {4, 8}, NEW c \in Colours[b]
    PROVE  c \in Nat /\ (b = 4 => c \in 0..15)
<1>1. CASE b = 4
  BY <1>1, ColoursAreIndexes
<1>2. CASE b = 8
  BY <1>2, ColoursAreIndexes
<1> QED
  BY <1>1, <1>2

LEMMA RunTyped ==
    ASSUME NEW b \in {4, 8}, NEW run \in Seq(Colours[b])
    PROVE  /\ run \in Seq(Nat) /\ Len(run) \in Nat /\ DOMAIN run = 1..Len(run)
           /\ b = 4 => \A i \in 1..Len(run) : run[i] \in 0..15
<1>1. Len(run) \in Nat /\ DOMAIN run = 1..Len(run) /\ run \in [1..Len(run) -> Colours[b]]
  BY LenProperties
<1>2. \A i \in 1..Len(run) : run[i] \in Colours[b]
  BY <1>1
<1>3. \A i \in 1..Len(run) : run[i] \in Nat /\ (b = 4 => run[i] \in 0..15)
  BY <1>2, IndexesTyped
<1>4. run \in [1..Len(run) -> Nat]
  BY <1>1, <1>3
<1>5. run \in Seq(Nat)
  BY <1>1, <1>4, SeqDef
<1> QED
  BY <1>1, <1>3, <1>5

\* A run as a file keeps it.
PackedRun(b, run) == IF b = 8 THEN run
                     ELSE [i \in 1..((Len(run) + 1) \div 2) |->
                             16 * run[2 * i - 1] + (IF 2 * i <= Len(run) THEN run[2 * i] ELSE 0)]

LEMMA PackedTyped ==
    ASSUME NEW b \in {4, 8}, NEW run \in Seq(Colours[b])
    PROVE  /\ PackedRun(b, run) \in Seq(Nat)
           /\ Len(PackedRun(b, run)) = SizeOf(b, Len(run))
           /\ Len(run) \in Nat
           /\ b = 8 => PackedRun(b, run) = run
           /\ b # 8 => \A j \in 1..((Len(run) + 1) \div 2) :
                 PackedRun(b, run)[j]
                   = 16 * run[2 * j - 1] + (IF 2 * j <= Len(run) THEN run[2 * j] ELSE 0)
<1> DEFINE n == Len(run)
           s == (n + 1) \div 2
           f == [i \in 1..s |-> 16 * run[2 * i - 1] + (IF 2 * i <= n THEN run[2 * i] ELSE 0)]
<1>1. n \in Nat /\ run \in Seq(Nat) /\ (b = 4 => \A i \in 1..n : run[i] \in 0..15)
  BY RunTyped
<1>2. CASE b = 8
  BY <1>1, <1>2 DEF PackedRun, SizeOf
<1>3. CASE b = 4
  <2>1. \A i \in 1..n : run[i] \in 0..15
    BY <1>1, <1>3
  <2> HIDE DEF n
  <2>2. s \in Nat
    BY <1>1
  <2>3. ASSUME NEW i \in 1..s
        PROVE  16 * run[2 * i - 1] + (IF 2 * i <= n THEN run[2 * i] ELSE 0) \in Nat
    <3>1. 2 * i - 1 \in 1..n /\ (2 * i <= n => 2 * i \in 1..n)
      BY <1>1
    <3>2. run[2 * i - 1] \in 0..15 /\ (2 * i <= n => run[2 * i] \in 0..15)
      BY <2>1, <3>1
    <3> DEFINE e == run[2 * i - 1]
               d == IF 2 * i <= n THEN run[2 * i] ELSE 0
    <3>3. e \in 0..15 /\ d \in 0..15
      BY <3>2
    <3> HIDE DEF e, d
    <3>4. 16 * e + d \in Nat
      BY <3>3, Nibbles
    <3> QED
      BY <3>4 DEF e, d
  <2> HIDE DEF s
  <2>4. f \in [1..s -> Nat]
    BY <2>3
  <2>5. f \in Seq(Nat) /\ Len(f) = s
    BY <2>2, <2>4, SeqDef, LenProperties
  <2>6. \A j \in 1..s : f[j] = 16 * run[2 * j - 1] + (IF 2 * j <= n THEN run[2 * j] ELSE 0)
    OBVIOUS
  <2> HIDE DEF f
  <2>7. PackedRun(b, run) = f /\ SizeOf(b, n) = s
    BY <1>3 DEF PackedRun, SizeOf, f, s, n
  <2> QED
    BY <1>1, <1>3, <2>5, <2>6, <2>7 DEF n, s
<1> QED
  BY <1>2, <1>3

LEMMA PaddedTyped ==
    ASSUME NEW s \in Seq(Nat)
    PROVE  /\ Padded(s) \in Seq(Nat) /\ Len(s) \in Nat
           /\ Len(Padded(s)) = Len(s) + (Len(s) % 2)
           /\ \A j \in 1..Len(s) : Padded(s)[j] = s[j]
<1> DEFINE n == Len(s)
<1>1. n \in Nat
  BY LenProperties
<1>2. CASE n % 2 = 0
  <2>1. Padded(s) = s
    BY <1>2 DEF Padded
  <2> HIDE DEF n
  <2>2. n + (n % 2) = n
    BY <1>1, <1>2
  <2> QED
    BY <1>1, <2>1, <2>2 DEF n
<1>3. CASE n % 2 # 0
  <2>1. Padded(s) = s \o <<0>>
    BY <1>3 DEF Padded
  <2>2. <<0>> \in Seq(Nat) /\ Len(<<0>>) = 1
    OBVIOUS
  <2>3. /\ s \o <<0>> \in Seq(Nat) /\ Len(s \o <<0>>) = n + 1
        /\ \A j \in 1..n : (s \o <<0>>)[j] = s[j]
    BY <1>1, <2>2, ConcatProperties
  <2> HIDE DEF n
  <2>4. n % 2 = 1
    BY <1>1, <1>3
  <2>5. /\ Padded(s) \in Seq(Nat) /\ Len(Padded(s)) = n + (n % 2)
        /\ \A j \in 1..n : Padded(s)[j] = s[j]
    BY <2>1, <2>3, <2>4
  <2> QED
    BY <1>1, <2>5 DEF n
<1> QED
  BY <1>2, <1>3

\* What a run has drawn is in the picture, and nothing else is different.
DrawnAt(pic, qic, k, run) ==
    qic = [p \in Places |->
              LET i == p - k + 1 IN IF i \in DOMAIN run THEN run[i] ELSE pic[p]]

LEMMA RunIsDrawn ==
    ASSUME NEW pic, NEW qic, NEW o, NEW k \in Nat, NEW run \in Seq(Nat),
           Fresh(pic, o, k), DrawnAt(pic, qic, k, run)
    PROVE  /\ SamePicture(pic, qic, k)
           /\ Fresh(qic, o, k + Len(run))
           /\ \A p \in Places : p - k + 1 \in 1..Len(run) => qic[p] = run[p - k + 1]
<1>1. Len(run) \in Nat /\ DOMAIN run = 1..Len(run)
  BY LenProperties
<1>2. \A p \in Places :
         qic[p] = IF p - k + 1 \in 1..Len(run) THEN run[p - k + 1] ELSE pic[p]
  BY <1>1 DEF DrawnAt
<1>3. SamePicture(pic, qic, k)
  BY <1>2, PlacesTyped DEF SamePicture
<1>4. Fresh(qic, o, k + Len(run))
  BY <1>1, <1>2, PlacesTyped DEF Fresh
<1> QED
  BY <1>2, <1>3, <1>4

LEMMA EncodedIs ==
    ASSUME NEW b \in {4, 8}, NEW e \in Colours[b], NEW d \in Colours[b], b = 8 => e = d,
           NEW n \in Nat, NEW i \in 1..n
    PROVE  /\ (IF b = 8 THEN e ELSE 16 * e + d) \in Nat
           /\ EncodedPixel(b, IF b = 8 THEN e ELSE 16 * e + d, i) = IF i % 2 = 1 THEN e ELSE d
<1>1. e \in Nat /\ d \in Nat /\ (b = 4 => e \in 0..15 /\ d \in 0..15)
  BY IndexesTyped
<1>2. CASE b = 8
  BY <1>1, <1>2 DEF EncodedPixel
<1>3. CASE b = 4
  <2>1. e \in 0..15 /\ d \in 0..15
    BY <1>1, <1>3
  <2>2. 16 * e + d \in Nat /\ (16 * e + d) \div 16 = e /\ (16 * e + d) % 16 = d
    BY <2>1, Nibbles
  <2> QED
    BY <1>3, <2>2 DEF EncodedPixel
<1> QED
  BY <1>2, <1>3

AbsoluteCommand(b, run) == <<0, Len(run)>> \o Padded(PackedRun(b, run))

\* The bytes of an absolute run, after the first two.
FollowedByRun(b, run, F, G) ==
    /\ G \in Seq(Nat) /\ Len(F) \in Nat /\ SameBytes(F, G, Len(F))
    /\ Len(G) = Len(F) + 2 + SizeOf(b, Len(run)) + (SizeOf(b, Len(run)) % 2)
    /\ G[Len(F) + 1] = 0 /\ G[Len(F) + 2] = Len(run)
    /\ \A i \in 1..Len(run) : AbsolutePixel(b, G, Len(F), i) = run[i]

LEMMA AbsoluteIs ==
    ASSUME NEW b \in {4, 8}, NEW run \in Seq(Colours[b]), NEW F \in Seq(Nat)
    PROVE  FollowedByRun(b, run, F, F \o AbsoluteCommand(b, run))
<1> DEFINE G == F \o AbsoluteCommand(b, run)
           n == Len(run)
           s == SizeOf(b, n)
           packed == PackedRun(b, run)
           padded == Padded(packed)
           c == <<0, n>> \o padded
           m == Len(F)
<1>1. /\ packed \in Seq(Nat) /\ Len(packed) = s /\ n \in Nat
      /\ b = 8 => packed = run
      /\ b # 8 => \A j \in 1..((n + 1) \div 2) :
            packed[j] = 16 * run[2 * j - 1] + (IF 2 * j <= n THEN run[2 * j] ELSE 0)
  BY PackedTyped
<1>2. b = 4 => \A i \in 1..n : run[i] \in 0..15
  BY RunTyped
<1> HIDE DEF packed
<1>3. /\ padded \in Seq(Nat) /\ s \in Nat
      /\ Len(padded) = s + (s % 2)
      /\ \A j \in 1..s : padded[j] = packed[j]
  BY <1>1, PaddedTyped
<1> HIDE DEF n, s, padded
<1>4. <<0, n>> \in Seq(Nat) /\ Len(<<0, n>>) = 2 /\ <<0, n>>[1] = 0 /\ <<0, n>>[2] = n
  BY <1>1
<1>5. /\ c \in Seq(Nat) /\ Len(c) = 2 + Len(padded)
      /\ c[1] = 0 /\ c[2] = n /\ \A j \in 1..Len(padded) : c[2 + j] = padded[j]
  <2>1. c \in Seq(Nat) /\ Len(c) = 2 + Len(padded)
    BY <1>3, <1>4, ConcatProperties
  <2>2. \A i \in 1..2 + Len(padded) : c[i] = IF i <= 2 THEN <<0, n>>[i] ELSE padded[i - 2]
    BY <1>3, <1>4, ConcatProperties
  <2>3. Len(padded) \in Nat
    BY <1>3, LenProperties
  <2>4. c[1] = 0 /\ c[2] = n
    BY <1>4, <2>2, <2>3
  <2>5. ASSUME NEW j \in 1..Len(padded) PROVE c[2 + j] = padded[j]
    <3>1. 2 + j \in 1..2 + Len(padded) /\ ~(2 + j <= 2) /\ (2 + j) - 2 = j
      BY <2>3
    <3> QED
      BY <2>2, <3>1
  <2> QED
    BY <2>1, <2>4, <2>5
<1> HIDE DEF c
<1>6. G = F \o c
  BY DEF c, padded, packed, n, AbsoluteCommand
<1> HIDE DEF G
<1>7. /\ G \in Seq(Nat) /\ m \in Nat /\ Len(c) \in Nat /\ Len(G) = m + Len(c)
      /\ SameBytes(F, G, m) /\ HasBytes(F, m) /\ HasBytes(G, Len(G))
      /\ \A j \in 1..Len(c) : G[m + j] = c[j]
  BY <1>5, <1>6, Appended
<1> HIDE DEF m
<1>8. Len(c) = 2 + (s + (s % 2)) /\ s % 2 \in Nat /\ Len(c) >= 2
  BY <1>3, <1>5
<1>9. G[m + 1] = 0 /\ G[m + 2] = n
  <2>1. 1 \in 1..Len(c) /\ 2 \in 1..Len(c)
    BY <1>7, <1>8
  <2> QED
    BY <1>5, <1>7, <2>1
<1>10. ASSUME NEW j \in 1..s PROVE G[m + 2 + j] = packed[j]
  <2>1. 2 + j \in 1..Len(c) /\ j \in 1..Len(padded) /\ m + (2 + j) = m + 2 + j
    BY <1>3, <1>7, <1>8
  <2>2. G[m + (2 + j)] = c[2 + j] /\ c[2 + j] = padded[j] /\ padded[j] = packed[j]
    BY <1>3, <1>5, <1>7, <2>1
  <2> QED
    BY <2>1, <2>2
<1>11. ASSUME NEW i \in 1..n PROVE AbsolutePixel(b, G, m, i) = run[i]
  <2> DEFINE j == (i + 1) \div 2
             k == i \div 2
  <2>1. /\ b = 8 => i \in 1..s
        /\ b # 8 => j \in 1..s
        /\ b # 8 /\ i % 2 # 1 => k \in 1..s
    <3>1. /\ SizeOf(b, n) \in Nat
          /\ b = 8 => i <= SizeOf(b, n)
          /\ b # 8 => (i + 1) \div 2 \in 1..SizeOf(b, n)
          /\ b # 8 /\ i % 2 # 1 => i \div 2 \in 1..SizeOf(b, n)
      BY <1>1, SizeBounds
    <3> QED
      BY <1>1, <3>1 DEF s
  <2>2. ASSUME i % 2 = 1 PROVE 2 * j - 1 = i /\ j \in 1..((n + 1) \div 2)
    <3>1. i \in Nat /\ 1 <= i /\ i <= n
      BY <1>1
    <3>2. 2 * j - 1 = i
      <4>1. k \in Nat /\ i = 2 * k + 1
        BY <3>1, <2>2
      <4> HIDE DEF k
      <4>2. i + 1 = 2 * (k + 1)
        BY <4>1
      <4>3. (2 * (k + 1)) \div 2 = k + 1
        BY <4>1
      <4>4. j = k + 1
        BY <4>2, <4>3
      <4> HIDE DEF j
      <4> QED
        BY <4>1, <4>4
    <3> QED
      BY <1>1, <3>1, <3>2
  <2>3. ASSUME i % 2 # 1 PROVE 2 * k = i /\ k \in 1..((n + 1) \div 2)
    <3>1. i \in Nat /\ 1 <= i /\ i <= n
      BY <1>1
    <3>2. 2 * k = i
      BY <3>1, <2>3
    <3> QED
      BY <1>1, <3>1, <3>2
  <2> HIDE DEF j, k
  <2>4. CASE b = 8
    <3>1. G[m + 2 + i] = run[i]
      BY <1>1, <1>10, <2>1, <2>4
    <3> QED
      BY <2>4, <3>1 DEF AbsolutePixel
  <2>5. CASE b # 8 /\ i % 2 = 1
    <3> DEFINE d == IF 2 * j <= n THEN run[2 * j] ELSE 0
    <3>1. G[m + 2 + j] = packed[j] /\ packed[j] = 16 * run[i] + d
      BY <1>1, <1>10, <2>1, <2>2, <2>5
    <3>2. run[i] \in 0..15 /\ d \in 0..15
      <4>1. 2 * j <= n => 2 * j \in 1..n
        BY <1>1, <2>2, <2>5
      <4>2. run[i] \in 0..15 /\ (2 * j <= n => run[2 * j] \in 0..15)
        BY <1>2, <2>5, <4>1
      <4> QED
        BY <4>2
    <3> HIDE DEF d
    <3>3. (16 * run[i] + d) \div 16 = run[i]
      BY <3>2, Nibbles
    <3> QED
      BY <2>5, <3>1, <3>3 DEF AbsolutePixel, j
  <2>6. CASE b # 8 /\ i % 2 # 1
    <3>1. G[m + 2 + k] = packed[k] /\ packed[k] = 16 * run[2 * k - 1] + run[i]
      <4>1. 2 * k = i /\ k \in 1..((n + 1) \div 2) /\ 2 * k <= n
        BY <1>1, <2>3, <2>6
      <4>2. packed[k] = 16 * run[2 * k - 1] + run[2 * k]
        BY <1>1, <2>6, <4>1
      <4> QED
        BY <1>10, <2>1, <2>6, <4>1, <4>2
    <3>2. run[i] \in 0..15 /\ run[2 * k - 1] \in 0..15
      <4>1. 2 * k - 1 \in 1..n
        BY <1>1, <2>3, <2>6
      <4> QED
        BY <1>2, <2>3, <2>6, <4>1
    <3>3. (16 * run[2 * k - 1] + run[i]) % 16 = run[i]
      BY <3>2, Nibbles
    <3> QED
      BY <2>6, <3>1, <3>3 DEF AbsolutePixel, k
  <2> QED
    BY <2>4, <2>5, <2>6
<1>12. Len(G) = m + 2 + s + (s % 2)
  <2> DEFINE o == s % 2
  <2>1. Len(G) = m + Len(c) /\ Len(c) = 2 + (s + o) /\ m \in Nat /\ s \in Nat /\ o \in Nat
    BY <1>3, <1>7, <1>8
  <2> HIDE DEF o
  <2>2. Len(G) = m + 2 + s + o
    BY <2>1
  <2> QED
    BY <2>2 DEF o
<1> QED
  BY <1>7, <1>9, <1>11, <1>12 DEF m, n, s, G, FollowedByRun

FileTypes == /\ bits \in {4, 8} /\ reversed \in BOOLEAN /\ before \in {Black, Stale}
             /\ bytes \in Seq(Nat) /\ pen \in Pens
             /\ ended \in BOOLEAN /\ intact \in BOOLEAN /\ beyond \in BOOLEAN

FileWritten ==
    Written(bits, reversed, before, beyond, picture, bytes, Len(bytes), pen, ended, intact)

PenSpotNow == SpotAt(Len(bytes), pen)

LEMMA PenSpotIs ==
    ASSUME FileTypes
    PROVE  /\ PenSpotNow \in Spots /\ PenSpotNow.at = Len(bytes) /\ Len(bytes) \in Nat
           /\ PenSpotNow.x = pen.x /\ PenSpotNow.y = pen.y
           /\ PlaceOf(PenSpotNow) = PlaceOf(pen) /\ PlaceOf(PenSpotNow) \in Nat
           /\ PlaceOf(pen) = PenPlace
           /\ pen.x \in Nat /\ pen.y \in Nat /\ pen = [x |-> pen.x, y |-> pen.y]
<1>1. pen \in Pens /\ Len(bytes) \in Nat
  BY LenProperties DEF FileTypes
<1>2. /\ PenSpotNow \in Spots /\ PenSpotNow.at = Len(bytes)
      /\ PenSpotNow.x = pen.x /\ PenSpotNow.y = pen.y
      /\ PlaceOf(PenSpotNow) = PlaceOf(pen)
      /\ pen.x \in Nat /\ pen.y \in Nat /\ pen = [x |-> pen.x, y |-> pen.y]
  BY <1>1, PenSpot DEF PenSpotNow
<1>3. PlaceOf(pen) = PenPlace
  BY DEF PlaceOf, InLine, PenPlace
<1> QED
  BY <1>1, <1>2, <1>3, SpotFields

\* A step that writes a command.
LEMMA CommandStep ==
    ASSUME FileTypes, FileWritten, ~ended, NEW zz \in BOOLEAN, beyond => zz,
           NEW G, NEW u \in Spots, NEW qic,
           G \in Seq(Nat), u.at = Len(G), SameBytes(bytes, G, Len(bytes)),
           SamePicture(picture, qic, PlaceOf(PenSpotNow)), Fresh(qic, before, PlaceOf(u)),
           Command(bits, reversed, before, zz, qic, G, PenSpotNow, u)
    PROVE  Written(bits, reversed, before, zz, qic, G, Len(G),
                   [x |-> u.x, y |-> u.y], FALSE, intact)
<1>1. /\ bits \in {4, 8} /\ bytes \in Seq(Nat) /\ pen \in Pens /\ intact \in BOOLEAN
      /\ ended = FALSE /\ beyond \in BOOLEAN
  BY DEF FileTypes
<1>2. Len(bytes) \in Nat /\ Len(G) \in Nat
  BY <1>1, LenProperties
<1>3. HasBytes(bytes, Len(bytes)) /\ HasBytes(G, Len(G))
  BY <1>1, ElementOfSeq DEF HasBytes
<1>4. Written(bits, reversed, before, beyond, picture, bytes, Len(bytes), pen, FALSE, intact)
  BY <1>1 DEF FileWritten
<1> DEFINE n == Len(bytes)
           m == Len(G)
           t == SpotAt(n, pen)
           qn == [x |-> u.x, y |-> u.y]
<1>5. /\ n \in Nat /\ m \in Nat /\ u.at = m
      /\ Written(bits, reversed, before, beyond, picture, bytes, n, pen, FALSE, intact)
      /\ HasBytes(bytes, n) /\ HasBytes(G, m) /\ SameBytes(bytes, G, n)
      /\ SamePicture(picture, qic, PlaceOf(t))
      /\ Command(bits, reversed, before, zz, qic, G, t, u)
  BY <1>2, <1>3, <1>4 DEF PenSpotNow
<1> HIDE DEF n, m
<1>6. /\ t \in Spots /\ t.at = n /\ t.x = pen.x /\ t.y = pen.y
      /\ PlaceOf(t) = PlaceOf(pen)
  BY <1>1, <1>5, PenSpot
<1>7. t.at + 2 <= u.at /\ PlaceOf(t) <= PlaceOf(u)
  BY <1>1, <1>5, <1>6, CommandForward
<1>8. PlaceOf(qn) = PlaceOf(u) /\ qn.x = u.x /\ qn.y = u.y /\ n + 2 <= m
  BY <1>5, <1>6, <1>7, SamePlaces
<1>9. SamePicture(picture, qic, PlaceOf(t)) /\ Command(bits, reversed, before, zz, qic, G, t, u)
  BY <1>5
<1> HIDE DEF qn, t
<1>10. Fresh(qic, before, PlaceOf(qn))
  BY <1>8
<1>11. PICK T, last :
          /\ Chain(bits, reversed, before, beyond, picture, bytes, T, last)
          /\ last.at <= n
          /\ \/ intact /\ PenAt(last, n, pen, FALSE)
             \/ ~intact /\ RunAt(bytes, n, last) /\ PlaceOf(last) <= PlaceOf(pen)
  BY <1>5 DEF Written
<1>12. last \in Spots /\ last.at \in Nat /\ PlaceOf(last) \in Nat
  BY <1>11, SpotFields DEF Chain
<1>13. PlaceOf(last) <= PlaceOf(t)
  <2>1. CASE PenAt(last, n, pen, FALSE)
    <3>1. PlaceOf(last) = PlaceOf(pen)
      BY <2>1, SamePlaces DEF PenAt
    <3> QED
      BY <1>6, <1>12, <3>1
  <2> QED
    BY <1>6, <1>11, <2>1
<1>14. Chain(bits, reversed, before, zz, qic, G, T, last)
  <2>1. HasBytes(bytes, last.at) /\ SameBytes(bytes, G, last.at)
    BY <1>5, <1>11, <1>12, BytesKept, HasFewer
  <2>2. SamePicture(picture, qic, PlaceOf(last))
    BY <1>9, <1>6, <1>12, <1>13, PictureKept, SpotFields
  <2> QED
    BY <1>1, <1>11, <2>1, <2>2, ChainKept
<1>15. CASE intact /\ PenAt(last, n, pen, FALSE)
  <2>1. last = t
    <3>1. last.at = n /\ last.x = pen.x /\ last.y = pen.y
      BY <1>15 DEF PenAt
    <3>2. last = [at |-> last.at, x |-> last.x, y |-> last.y]
      BY <1>12, SpotFields
    <3> QED
      BY <3>1, <3>2 DEF t, SpotAt
  <2>2. Chain(bits, reversed, before, zz, qic, G, T \union {u}, u)
    BY <1>1, <1>5, <1>9, <1>14, <2>1, ChainGoesOn
  <2>3. PenAt(u, m, qn, FALSE)
    BY <1>5, <1>8 DEF PenAt
  <2>4. u.at <= m
    BY <1>5
  <2>5. Written(bits, reversed, before, zz, qic, G, m, qn, FALSE, intact)
    BY <1>10, <1>15, <2>2, <2>3, <2>4 DEF Written
  <2> QED
    BY <2>5 DEF qn, m
<1>16. CASE ~intact /\ RunAt(bytes, n, last)
  <2>1. n <= m
    BY <1>5, <1>8
  <2>2. RunAt(G, m, last)
    BY <1>5, <1>12, <1>16, <2>1, RunKept
  <2>3. PlaceOf(last) <= PlaceOf(qn)
    BY <1>6, <1>7, <1>8, <1>12, <1>13, SpotFields
  <2>4. last.at <= m
    BY <1>5, <1>8, <1>11, <1>12
  <2>5. Written(bits, reversed, before, zz, qic, G, m, qn, FALSE, intact)
    BY <1>10, <1>14, <1>16, <2>2, <2>3, <2>4 DEF Written
  <2> QED
    BY <2>5 DEF qn, m
<1> QED
  BY <1>11, <1>15, <1>16

\* A step that writes a run too long for its line.
LEMMA TooMuchStep ==
    ASSUME FileTypes, FileWritten, ~ended, NEW G, G \in Seq(Nat), Len(bytes) + 2 <= Len(G),
           SameBytes(bytes, G, Len(bytes)), StartsRun(G, Len(bytes)),
           pen.x + RunLength(G, Len(bytes)) > Width
    PROVE  Written(bits, reversed, before, beyond, picture, G, Len(G), pen, FALSE, FALSE)
<1>1. /\ bits \in {4, 8} /\ bytes \in Seq(Nat) /\ pen \in Pens /\ intact \in BOOLEAN
      /\ ended = FALSE /\ beyond \in BOOLEAN
  BY DEF FileTypes
<1>2. Len(bytes) \in Nat /\ Len(G) \in Nat
  BY <1>1, LenProperties
<1>3. HasBytes(bytes, Len(bytes))
  BY <1>1, ElementOfSeq DEF HasBytes
<1> DEFINE n == Len(bytes)
           m == Len(G)
<1>4. /\ n \in Nat /\ m \in Nat /\ n + 2 <= m /\ HasBytes(bytes, n) /\ SameBytes(bytes, G, n)
      /\ StartsRun(G, n) /\ pen.x + RunLength(G, n) > Width
      /\ Written(bits, reversed, before, beyond, picture, bytes, n, pen, FALSE, intact)
  BY <1>1, <1>2, <1>3 DEF FileWritten
<1> HIDE DEF n, m
<1>5. Fresh(picture, before, PlaceOf(pen))
  BY <1>4 DEF Written
<1>6. PICK T, last :
          /\ Chain(bits, reversed, before, beyond, picture, bytes, T, last)
          /\ last.at <= n
          /\ \/ intact /\ PenAt(last, n, pen, FALSE)
             \/ ~intact /\ RunAt(bytes, n, last) /\ PlaceOf(last) <= PlaceOf(pen)
  BY <1>4 DEF Written
<1>7. last \in Spots /\ last.at \in Nat /\ PlaceOf(last) \in Nat
  BY <1>6, SpotFields DEF Chain
<1>8. Chain(bits, reversed, before, beyond, picture, G, T, last)
  <2>1. HasBytes(bytes, last.at) /\ SameBytes(bytes, G, last.at)
    BY <1>4, <1>6, <1>7, BytesKept, HasFewer
  <2>2. SamePicture(picture, picture, PlaceOf(last))
    BY DEF SamePicture
  <2> QED
    BY <1>1, <1>6, <2>1, <2>2, ChainKept
<1>9. RunAt(G, m, last) /\ PlaceOf(last) <= PlaceOf(pen)
  <2>1. CASE PenAt(last, n, pen, FALSE)
    <3>1. last.at = n /\ last.x = pen.x /\ PlaceOf(last) = PlaceOf(pen)
      BY <2>1, SamePlaces DEF PenAt
    <3> QED
      BY <1>4, <1>7, <3>1 DEF RunAt
  <2>2. CASE RunAt(bytes, n, last) /\ PlaceOf(last) <= PlaceOf(pen)
    <3>1. n <= m
      BY <1>4
    <3> QED
      BY <1>4, <1>7, <2>2, <3>1, RunKept
  <2> QED
    BY <1>6, <2>1, <2>2
<1>10. last.at <= m
  BY <1>4, <1>6, <1>7
<1>11. Written(bits, reversed, before, beyond, picture, G, m, pen, FALSE, FALSE)
  BY <1>5, <1>8, <1>9, <1>10 DEF Written
<1> QED
  BY <1>11 DEF m

\* The spot that many pixels further on.
Further(a, n) == [at |-> a, x |-> pen.x + n, y |-> pen.y]

LEMMA SpotInLine ==
    ASSUME FileTypes, NEW n \in Nat, pen.x + n <= Width, NEW a \in Nat,
           NEW u, u = Further(a, n)
    PROVE  /\ u \in Spots /\ u.at = a /\ u.x = pen.x + n /\ u.y = pen.y
           /\ PlaceOf(u) = PlaceOf(PenSpotNow) + n
           /\ [pen EXCEPT !.x = @ + n] = [x |-> u.x, y |-> u.y]
           /\ [x |-> u.x, y |-> u.y] \in Pens
<1>1. /\ pen.x \in Nat /\ pen.y \in Nat /\ pen = [x |-> pen.x, y |-> pen.y]
      /\ PenSpotNow \in Spots /\ PenSpotNow.x = pen.x /\ PenSpotNow.y = pen.y
  BY PenSpotIs
<1>2. pen.x + n \in Nat
  BY <1>1
<1>3. u \in Spots /\ u.at = a /\ u.x = pen.x + n /\ u.y = pen.y
  BY <1>1, <1>2 DEF Spots, Further
<1>4. [x |-> u.x, y |-> u.y] \in Pens
  BY <1>1, <1>2, <1>3 DEF Pens
<1>5. PlaceOf(u) = PlaceOf(PenSpotNow) + n
  <2> DEFINE w == pen.y * Width
  <2>1. w \in Nat /\ Width \in Nat
    BY <1>1, PictureSizes
  <2>2. InLine(pen.x + n) = pen.x + n /\ InLine(pen.x) = pen.x
    <3>1. pen.x <= Width
      BY <1>1, <2>1
    <3> QED
      BY <1>1, <1>2, <3>1, InLineIs
  <2>3. PlaceOf(u) = w + (pen.x + n) /\ PlaceOf(PenSpotNow) = w + pen.x
    BY <1>1, <1>3, <2>2 DEF PlaceOf
  <2> HIDE DEF w
  <2> QED
    BY <1>1, <2>1, <2>3
<1>6. [pen EXCEPT !.x = @ + n] = [x |-> u.x, y |-> u.y]
  BY <1>1, <1>3
<1> QED
  BY <1>3, <1>4, <1>5, <1>6

\* What a run draws.
LEMMA RunDrawn ==
    ASSUME FileTypes, FileWritten, ~ended, NEW run \in Seq(Nat), NEW n, n = Len(run),
           NEW qic, DrawnAt(picture, qic, PenPlace, run)
    PROVE  /\ SamePicture(picture, qic, PlaceOf(PenSpotNow))
           /\ Fresh(qic, before, PlaceOf(PenSpotNow) + n)
           /\ \A p \in Places : p - PlaceOf(PenSpotNow) + 1 \in 1..n
                                => qic[p] = run[p - PlaceOf(PenSpotNow) + 1]
<1> DEFINE k == PlaceOf(PenSpotNow)
<1>1. k = PenPlace /\ k = PlaceOf(pen) /\ k \in Nat
  BY PenSpotIs
<1>2. Fresh(picture, before, k)
  BY <1>1 DEF FileWritten, Written
<1>3. DrawnAt(picture, qic, k, run)
  BY <1>1
<1>4. k \in Nat
  BY <1>1
<1> HIDE DEF k
<1>5. /\ SamePicture(picture, qic, k)
      /\ Fresh(qic, before, k + Len(run))
      /\ \A p \in Places : p - k + 1 \in 1..Len(run) => qic[p] = run[p - k + 1]
  BY <1>2, <1>3, <1>4, RunIsDrawn, SMTT(30)
<1> QED
  BY <1>5 DEF k

FollowedByTwo(F, G, a, c) ==
    /\ G \in Seq(Nat) /\ Len(F) \in Nat /\ Len(G) = Len(F) + 2
    /\ SameBytes(F, G, Len(F)) /\ HasBytes(F, Len(F)) /\ HasBytes(G, Len(G))
    /\ G[Len(F) + 1] = a /\ G[Len(F) + 2] = c

LEMMA TwoBytes ==
    ASSUME NEW F \in Seq(Nat), NEW a \in Nat, NEW c \in Nat
    PROVE  FollowedByTwo(F, F \o <<a, c>>, a, c)
<1> DEFINE s == <<a, c>>
           G == F \o s
<1>1. s \in Seq(Nat) /\ Len(s) = 2 /\ s[1] = a /\ s[2] = c
  OBVIOUS
<1> HIDE DEF s
<1>2. /\ G \in Seq(Nat) /\ Len(F) \in Nat /\ Len(G) = Len(F) + Len(s)
      /\ SameBytes(F, G, Len(F)) /\ HasBytes(F, Len(F)) /\ HasBytes(G, Len(G))
      /\ \A j \in 1..Len(s) : G[Len(F) + j] = s[j]
  BY <1>1, Appended
<1>3. 1 \in 1..Len(s) /\ 2 \in 1..Len(s)
  BY <1>1
<1> HIDE DEF G
<1>4. FollowedByTwo(F, G, a, c)
  BY <1>1, <1>2, <1>3 DEF FollowedByTwo
<1> QED
  BY <1>4 DEF G, s

\* Where the next line begins.
\* What a step that writes an encoded run has written.
LEMMA EncodedWritten ==
    ASSUME FileTypes, NEW n \in EncodedLengths, NEW e \in Colours[bits], NEW d \in Colours[bits],
           WriteEncoded(n, e, d), NEW v, v = IF bits = 8 THEN e ELSE 16 * e + d
    PROVE  /\ n \in Nat /\ n > 0 /\ e \in Nat /\ d \in Nat
           /\ ~ended /\ (bits = 8 => e = d)
           /\ UNCHANGED <<bits, reversed, before, phase>>
           /\ bytes' \in Seq(Nat) /\ Len(bytes) \in Nat /\ Len(bytes') = Len(bytes) + 2
           /\ SameBytes(bytes, bytes', Len(bytes))
           /\ bytes'[Len(bytes) + 1] = n /\ bytes'[Len(bytes) + 2] = v
           /\ StartsRun(bytes', Len(bytes)) /\ RunLength(bytes', Len(bytes)) = n
<1>1. n \in Nat /\ n > 0
  BY FilesAreBytes
<1>2. bits \in {4, 8} /\ bytes \in Seq(Nat)
  BY DEF FileTypes
<1>3. /\ ~ended /\ (bits = 8 => e = d)
      /\ UNCHANGED <<bits, reversed, before, phase>>
      /\ bytes' = bytes \o <<n, v>>
  BY DEF WriteEncoded, Write
<1>4. e \in Nat /\ d \in Nat
  BY <1>2, IndexesTyped
<1>5. v \in Nat
  BY <1>2, <1>4
<1>6. FollowedByTwo(bytes, bytes', n, v)
  BY <1>1, <1>2, <1>3, <1>5, TwoBytes
<1>7. /\ bytes' \in Seq(Nat) /\ Len(bytes) \in Nat /\ Len(bytes') = Len(bytes) + 2
      /\ SameBytes(bytes, bytes', Len(bytes))
      /\ bytes'[Len(bytes) + 1] = n /\ bytes'[Len(bytes) + 2] = v
  BY <1>6 DEF FollowedByTwo
<1>8. StartsRun(bytes', Len(bytes)) /\ RunLength(bytes', Len(bytes)) = n
  BY <1>1, <1>7 DEF StartsRun, RunLength
<1> QED
  BY <1>1, <1>3, <1>4, <1>7, <1>8

\* Of a run that does not fit nothing is drawn.
LEMMA TooMuchKeeps ==
    ASSUME FileTypes, FileWritten, ~ended, NEW run, DrawTooMuch(run),
           UNCHANGED <<bits, reversed, before, phase>>,
           bytes' \in Seq(Nat), Len(bytes) + 2 <= Len(bytes'),
           SameBytes(bytes, bytes', Len(bytes)), StartsRun(bytes', Len(bytes)),
           RunLength(bytes', Len(bytes)) = Len(run)
    PROVE  FileTypes' /\ FileWritten'
<1>1. /\ pen.x + Len(run) > Width /\ intact' = FALSE
      /\ UNCHANGED <<picture, pen, ended, beyond>>
      /\ ended = FALSE
  BY DEF DrawTooMuch, FileTypes
<1>2. pen.x + RunLength(bytes', Len(bytes)) > Width
  BY <1>1
<1>3. Written(bits, reversed, before, beyond, picture, bytes', Len(bytes'), pen, FALSE, FALSE)
  BY <1>2, TooMuchStep
<1>4. FileWritten'
  BY <1>1, <1>3 DEF FileWritten
<1> QED
  BY <1>1, <1>4 DEF FileTypes

\* A run that is drawn comes to the spot further on.
LEMMA RunStep ==
    ASSUME FileTypes, FileWritten, ~ended, NEW run, Draw(run),
           UNCHANGED <<bits, reversed, before, phase>>,
           bytes' \in Seq(Nat), NEW n \in Nat, n > 0, Len(run) = n, NEW u,
           u = Further(Len(bytes'), n), Len(bytes) + 2 <= Len(bytes'),
           SameBytes(bytes, bytes', Len(bytes)),
           SamePicture(picture, picture', PlaceOf(PenSpotNow)),
           Fresh(picture', before, PlaceOf(PenSpotNow) + n),
           \/ EncodedAt(bits, picture', bytes', PenSpotNow, u)
           \/ AbsoluteAt(bits, picture', bytes', PenSpotNow, u)
    PROVE  FileTypes' /\ FileWritten'
<1>1. /\ pen.x + n <= Width /\ pen' = [pen EXCEPT !.x = @ + n]
      /\ beyond' = (beyond \/ pen.y >= Height)
      /\ UNCHANGED <<ended, intact>>
      /\ ended = FALSE /\ beyond \in BOOLEAN /\ beyond' \in BOOLEAN
  BY DEF Draw, FileTypes
<1>2. Len(bytes') \in Nat
  BY LenProperties
<1> DEFINE t == PenSpotNow
<1>3. t \in Spots /\ t.at = Len(bytes) /\ t.x = pen.x /\ t.y = pen.y
  BY PenSpotIs
<1>4. /\ u \in Spots /\ u.at = Len(bytes')
      /\ PlaceOf(u) = PlaceOf(t) + n
      /\ pen' = [x |-> u.x, y |-> u.y]
      /\ [x |-> u.x, y |-> u.y] \in Pens
  <2> DEFINE a == Len(bytes')
  <2>1. pen.x + n <= Width /\ u = Further(a, n) /\ n \in Nat /\ a \in Nat
    BY <1>1, <1>2
  <2> HIDE DEF a
  <2>2. /\ u \in Spots /\ u.at = a
        /\ PlaceOf(u) = PlaceOf(PenSpotNow) + n
        /\ [pen EXCEPT !.x = @ + n] = [x |-> u.x, y |-> u.y]
        /\ [x |-> u.x, y |-> u.y] \in Pens
    BY <2>1, SpotInLine
  <2> QED
    BY <1>1, <2>2 DEF a
<1> HIDE DEF t
<1>5. /\ Draws(bytes', t) /\ t.y >= Height => beyond'
      /\ t.at + 2 <= u.at
  BY <1>1, <1>3, <1>4
<1>6. Command(bits, reversed, before, beyond', picture', bytes', t, u)
  BY <1>5 DEF Command, t
<1>7. (beyond => beyond') /\ Fresh(picture', before, PlaceOf(u))
  BY <1>1, <1>4 DEF t
<1>8. Written(bits, reversed, before, beyond', picture', bytes', Len(bytes'),
              [x |-> u.x, y |-> u.y], FALSE, intact)
  BY <1>1, <1>4, <1>6, <1>7, CommandStep DEF t
<1>9. FileWritten'
  BY <1>1, <1>4, <1>8 DEF FileWritten
<1> QED
  BY <1>1, <1>4, <1>9 DEF FileTypes

LEMMA WriteEncodedKeeps ==
    ASSUME FileTypes, FileWritten, NEW n \in EncodedLengths,
           NEW e \in Colours[bits], NEW d \in Colours[bits], WriteEncoded(n, e, d)
    PROVE  FileTypes' /\ FileWritten'
<1> DEFINE t == PenSpotNow
           u == Further(Len(bytes'), n)
           run == [i \in 1..n |-> IF i % 2 = 1 THEN e ELSE d]
           v == IF bits = 8 THEN e ELSE 16 * e + d
<1>1. /\ n \in Nat /\ n > 0 /\ e \in Nat /\ d \in Nat
      /\ ~ended /\ (bits = 8 => e = d)
      /\ UNCHANGED <<bits, reversed, before, phase>>
      /\ bytes' \in Seq(Nat) /\ Len(bytes) \in Nat /\ Len(bytes') = Len(bytes) + 2
      /\ SameBytes(bytes, bytes', Len(bytes))
      /\ bytes'[Len(bytes) + 1] = n /\ bytes'[Len(bytes) + 2] = v
      /\ StartsRun(bytes', Len(bytes)) /\ RunLength(bytes', Len(bytes)) = n
      /\ bits \in {4, 8}
  BY EncodedWritten DEF FileTypes
<1>2. Draw(run) \/ DrawTooMuch(run)
  BY DEF WriteEncoded, DrawRun
<1>3. run \in Seq(Nat) /\ Len(run) = n
  <2>1. run \in [1..n -> Nat]
    BY <1>1
  <2> QED
    BY <1>1, <2>1, SeqDef, LenProperties
<1>4. \A i \in 1..n : run[i] = IF i % 2 = 1 THEN e ELSE d
  OBVIOUS
<1>5. v = IF bits = 8 THEN e ELSE 16 * e + d
  OBVIOUS
<1> HIDE DEF run, v
<1>6. Len(bytes) + 2 <= Len(bytes')
  BY <1>1
<1>7. CASE DrawTooMuch(run)
  BY <1>1, <1>3, <1>6, <1>7, TooMuchKeeps
<1>8. CASE Draw(run)
  <2>1. DrawnAt(picture, picture', PenPlace, run) /\ pen.x + n <= Width
    BY <1>3, <1>8 DEF Draw, DrawnAt
  <2>2. /\ SamePicture(picture, picture', PlaceOf(t))
        /\ Fresh(picture', before, PlaceOf(t) + n)
        /\ \A p \in Places :
              p - PlaceOf(t) + 1 \in 1..n => picture'[p] = run[p - PlaceOf(t) + 1]
    BY <1>1, <1>3, <2>1, RunDrawn
  <2>3. t.at = Len(bytes) /\ t.x = pen.x /\ t.y = pen.y /\ PlaceOf(t) \in Nat
    BY PenSpotIs
  <2> HIDE DEF t
  <2>4. ASSUME NEW p \in Places, p - PlaceOf(t) + 1 \in 1..n
        PROVE  picture'[p] = EncodedPixel(bits, v, p - PlaceOf(t) + 1)
    <3> DEFINE i == p - PlaceOf(t) + 1
    <3>1. picture'[p] = run[i] /\ i \in 1..n
      BY <2>2, <2>4
    <3> HIDE DEF i
    <3>2. run[i] = IF i % 2 = 1 THEN e ELSE d
      BY <1>4, <3>1
    <3>3. EncodedPixel(bits, IF bits = 8 THEN e ELSE 16 * e + d, i)
            = IF i % 2 = 1 THEN e ELSE d
      BY <1>1, <3>1, EncodedIs
    <3>4. EncodedPixel(bits, v, i) = IF i % 2 = 1 THEN e ELSE d
      BY <1>5, <3>3
    <3> QED
      BY <3>1, <3>2, <3>4 DEF i
  <2>5. u = [at |-> t.at + 2, x |-> t.x + n, y |-> t.y]
    BY <1>1, <2>3 DEF Further
  <2>6. EncodedAt(bits, picture', bytes', t, u)
    BY <1>1, <2>1, <2>3, <2>4, <2>5 DEF EncodedAt
  <2> HIDE DEF u
  <2>7. u = Further(Len(bytes'), n)
    BY DEF u
  <2> QED
    BY <1>1, <1>3, <1>6, <1>8, <2>2, <2>6, <2>7, RunStep DEF t
<1> QED
  BY <1>2, <1>7, <1>8

LEMMA WriteAbsoluteKeeps ==
    ASSUME ReadsRight, FileTypes, FileWritten, NEW run \in AbsoluteRuns[bits], WriteAbsolute(run)
    PROVE  FileTypes' /\ FileWritten'
<1> DEFINE t == PenSpotNow
           n == Len(run)
           s == SizeOf(bits, n)
           u == Further(Len(bytes'), n)
<1>1. /\ bits \in {4, 8} /\ bytes \in Seq(Nat) /\ ended \in BOOLEAN
      /\ run \in Seq(Colours[bits]) /\ n \in 3..255
      /\ bits = 4 => n % 2 = 1
  <2>1. bits \in {4, 8} /\ bytes \in Seq(Nat) /\ ended \in BOOLEAN
    BY DEF FileTypes
  <2>2. run \in Seq(Colours[bits]) /\ n \in 3..255
    BY <2>1, FilesAreBytes
  <2>3. bits = 4 => n % 2 = 1
    BY DEF ReadsRight
  <2> QED
    BY <2>1, <2>2, <2>3
<1>2. /\ Draw(run) \/ DrawTooMuch(run)
      /\ ~ended /\ UNCHANGED <<bits, reversed, before, phase>>
      /\ bytes' = bytes \o AbsoluteCommand(bits, run)
  <2>1. Write(AbsoluteCommand(bits, run))
    BY DEF WriteAbsolute, Packed, PackedRun, AbsoluteCommand
  <2> QED
    BY <2>1 DEF Write, WriteAbsolute, DrawRun
<1>3. run \in Seq(Nat)
  BY <1>1, RunTyped
<1>4. /\ bytes' \in Seq(Nat) /\ Len(bytes) \in Nat /\ SameBytes(bytes, bytes', Len(bytes))
      /\ Len(bytes') = Len(bytes) + 2 + s + (s % 2)
      /\ bytes'[Len(bytes) + 1] = 0 /\ bytes'[Len(bytes) + 2] = n
      /\ \A i \in 1..n : AbsolutePixel(bits, bytes', Len(bytes), i) = run[i]
  <2>1. bits \in {4, 8} /\ run \in Seq(Colours[bits]) /\ bytes \in Seq(Nat)
    BY <1>1
  <2>2. FollowedByRun(bits, run, bytes, bytes \o AbsoluteCommand(bits, run))
    BY <2>1, AbsoluteIs
  <2>3. FollowedByRun(bits, run, bytes, bytes')
    BY <1>2, <2>2
  <2> QED
    BY <2>3 DEF n, FollowedByRun
<1>5. n = Len(run)
  OBVIOUS
<1> HIDE DEF n
<1>6. n \in Nat /\ n > 2
  <2>1. n \in 3..255
    BY <1>1
  <2> QED
    BY <2>1
<1>7. Len(bytes) + 2 <= Len(bytes')
  <2>1. s \in Nat
    BY <1>6 DEF SizeOf
  <2> HIDE DEF s
  <2> DEFINE o == s % 2
  <2>2. o \in Nat /\ Len(bytes') = Len(bytes) + 2 + s + o
    BY <1>4, <2>1
  <2> HIDE DEF o
  <2> QED
    BY <1>4, <2>1, <2>2
<1>8. StartsRun(bytes', Len(bytes)) /\ RunLength(bytes', Len(bytes)) = n
  BY <1>4, <1>6 DEF StartsRun, RunLength
<1>9. CASE DrawTooMuch(run)
  BY <1>2, <1>4, <1>5, <1>7, <1>8, <1>9, TooMuchKeeps
<1>10. CASE Draw(run)
  <2>1. DrawnAt(picture, picture', PenPlace, run) /\ pen.x + n <= Width
    BY <1>5, <1>10 DEF Draw, DrawnAt
  <2>2. /\ SamePicture(picture, picture', PlaceOf(t))
        /\ Fresh(picture', before, PlaceOf(t) + n)
        /\ \A p \in Places :
              p - PlaceOf(t) + 1 \in 1..n => picture'[p] = run[p - PlaceOf(t) + 1]
    BY <1>2, <1>3, <1>5, <2>1, RunDrawn
  <2>3. t.at = Len(bytes) /\ t.x = pen.x /\ t.y = pen.y
    BY PenSpotIs
  <2> HIDE DEF t
  <2>4. AbsoluteAt(bits, picture', bytes', t, u)
    <3>1. /\ bytes'[t.at + 1] = 0 /\ bytes'[t.at + 2] = n /\ n > 2
          /\ bits = 4 => n % 2 = 1
          /\ t.x + n <= Width
      BY <1>1, <1>4, <1>6, <2>1, <2>3
    <3>2. u = [at |-> t.at + 2 + SizeOf(bits, n) + (SizeOf(bits, n) % 2),
               x |-> t.x + n, y |-> t.y]
      BY <1>4, <2>3 DEF Further
    <3>3. \A p \in Places :
             p - PlaceOf(t) + 1 \in 1..n
               => picture'[p] = AbsolutePixel(bits, bytes', t.at, p - PlaceOf(t) + 1)
      BY <1>4, <2>2, <2>3
    <3> QED
      BY <3>1, <3>2, <3>3 DEF AbsoluteAt
  <2> HIDE DEF u
  <2>5. u = Further(Len(bytes'), n) /\ n > 0
    BY <1>6 DEF u
  <2> QED
    BY <1>2, <1>4, <1>5, <1>6, <1>7, <1>10, <2>2, <2>4, <2>5, RunStep DEF t
<1> QED
  BY <1>2, <1>9, <1>10

\* Where the next line begins.
NextLine(a) == [at |-> a, x |-> 0, y |-> pen.y + 1]

LEMMA NextLineIs ==
    ASSUME FileTypes, NEW a \in Nat
    PROVE  /\ NextLine(a) \in Spots
           /\ NextLine(a).at = a /\ NextLine(a).x = 0 /\ NextLine(a).y = pen.y + 1
           /\ PlaceOf(NextLine(a)) = (pen.y + 1) * Width
           /\ [x |-> 0, y |-> pen.y + 1] \in Pens
<1>1. pen.y \in Nat /\ pen.y + 1 \in Nat
  BY PenSpotIs
<1>2. NextLine(a) \in Spots /\ [x |-> 0, y |-> pen.y + 1] \in Pens
  BY <1>1 DEF Spots, Pens, NextLine
<1>3. NextLine(a).at = a /\ NextLine(a).x = 0 /\ NextLine(a).y = pen.y + 1
  BY DEF NextLine
<1>4. InLine(0) = 0
  BY PictureSizes DEF InLine
<1>5. (pen.y + 1) * Width \in Nat
  BY <1>1, PictureSizes
<1>6. PlaceOf(NextLine(a)) = (pen.y + 1) * Width + 0
  BY <1>3, <1>4 DEF PlaceOf
<1> QED
  BY <1>2, <1>3, <1>5, <1>6

LEMMA WriteEndOfLineKeeps ==
    ASSUME FileTypes, FileWritten, WriteEndOfLine
    PROVE  FileTypes' /\ FileWritten'
<1> DEFINE t == PenSpotNow
           u == NextLine(Len(bytes'))
           k == PenPlace
<1>1. bytes \in Seq(Nat) /\ ended \in BOOLEAN /\ pen \in Pens /\ beyond \in BOOLEAN
  BY DEF FileTypes
<1>2. /\ ~ended
      /\ UNCHANGED <<ended, intact, bits, reversed, before, phase>>
      /\ bytes' = bytes \o <<0, 0>>
      /\ picture' = Blackened({p \in AfterPen : p < (pen.y + 1) * Width})
      /\ pen' = [x |-> 0, y |-> pen.y + 1]
      /\ beyond' = (beyond \/ (pen.y >= Height /\ pen.x < Width))
  BY DEF WriteEndOfLine, Write
<1>3. /\ bytes' \in Seq(Nat) /\ Len(bytes) \in Nat /\ Len(bytes') = Len(bytes) + 2
      /\ SameBytes(bytes, bytes', Len(bytes))
      /\ bytes'[Len(bytes) + 1] = 0 /\ bytes'[Len(bytes) + 2] = 0
  <2>1. FollowedByTwo(bytes, bytes', 0, 0)
    BY <1>1, <1>2, TwoBytes
  <2> QED
    BY <2>1 DEF FollowedByTwo
<1>4. /\ t \in Spots /\ t.at = Len(bytes) /\ t.x = pen.x /\ t.y = pen.y
      /\ PlaceOf(t) = k /\ PlaceOf(t) \in Nat /\ PlaceOf(pen) = k
      /\ pen.y \in Nat
  BY PenSpotIs
<1>5. Len(bytes') \in Nat
  BY <1>3
<1>6. /\ u \in Spots /\ u.at = Len(bytes') /\ u.x = 0 /\ u.y = pen.y + 1
      /\ PlaceOf(u) = (pen.y + 1) * Width
      /\ [x |-> 0, y |-> pen.y + 1] \in Pens
  BY <1>2, <1>5, NextLineIs
<1> HIDE DEF u
<1>7. \A p \in Places : picture'[p] = IF k <= p /\ p < PlaceOf(u) THEN Black ELSE picture[p]
  <2>1. k \in Nat /\ PlaceOf(u) \in Nat
    BY <1>4, <1>6, SpotFields
  <2>2. AfterPen = {p \in Places : p >= k}
    BY DEF AfterPen
  <2> HIDE DEF k
  <2> QED
    BY <1>2, <1>6, <2>1, <2>2, PlacesTyped DEF Blackened
<1>8. Fresh(picture, before, k)
  BY <1>2, <1>4 DEF FileWritten, Written
<1>9. k \in Nat /\ PlaceOf(u) \in Nat
  BY <1>4, <1>6, SpotFields
<1> HIDE DEF k, t
<1>10. SamePicture(picture, picture', PlaceOf(t))
  <2> SUFFICES ASSUME NEW p \in Places, p < k PROVE picture'[p] = picture[p]
    BY <1>4 DEF SamePicture
  <2>1. p \in Nat
    BY PlacesTyped
  <2>2. ~(k <= p)
    BY <1>9, <2>1
  <2> QED
    BY <1>7, <2>2
<1>11. k <= PlaceOf(u)
  <2>1. PlaceOf(t) <= PlaceOf(u)
    BY <1>4, <1>6, PlacesOrder
  <2> QED
    BY <1>4, <2>1
<1>12. Fresh(picture', before, PlaceOf(u))
  <2> SUFFICES ASSUME NEW p \in Places, PlaceOf(u) <= p PROVE picture'[p] = before
    BY DEF Fresh
  <2>1. p \in Nat
    BY PlacesTyped
  <2>2. k <= p /\ ~(p < PlaceOf(u))
    BY <1>9, <1>11, <2>1
  <2> QED
    BY <1>7, <1>8, <2>2 DEF Fresh
<1>13. EndOfLineAt(picture', bytes', t, u)
  <2>1. u = [at |-> t.at + 2, x |-> 0, y |-> t.y + 1]
    BY <1>3, <1>4 DEF u, NextLine
  <2> QED
    BY <1>3, <1>4, <1>7, <2>1 DEF EndOfLineAt, Between
<1>14. Command(bits, reversed, before, beyond', picture', bytes', t, u)
  <2>1. Draws(bytes', t) /\ t.y >= Height => beyond'
    <3>1. Draws(bytes', t) => t.x < Width
      BY <1>3, <1>4 DEF Draws
    <3> QED
      BY <1>2, <1>4, <3>1
  <2>2. t.at + 2 <= u.at
    BY <1>3, <1>4, <1>6
  <2> QED
    BY <1>13, <2>1, <2>2 DEF Command
<1>15. beyond' \in BOOLEAN /\ (beyond => beyond')
  BY <1>1, <1>2
<1>16. Written(bits, reversed, before, beyond', picture', bytes', Len(bytes'),
                 [x |-> u.x, y |-> u.y], FALSE, intact)
  BY <1>2, <1>3, <1>6, <1>10, <1>12, <1>14, <1>15, CommandStep DEF t
<1>17. FileWritten'
  BY <1>1, <1>2, <1>6, <1>16 DEF FileWritten
<1> QED
  BY <1>2, <1>3, <1>6, <1>15, <1>17 DEF FileTypes

LEMMA WriteEndOfBitmapKeeps ==
    ASSUME FileTypes, FileWritten, WriteEndOfBitmap
    PROVE  FileTypes' /\ FileWritten'
<1> DEFINE k == PlaceOf(pen)
<1>1. /\ ~ended /\ ended' = TRUE
      /\ Fills(reversed, pen)
      /\ UNCHANGED <<phase, bits, reversed, before, pen, intact, beyond>>
      /\ bytes' = bytes \o <<0, 1>>
      /\ picture' = Blackened(AfterPen)
      /\ bits \in {4, 8} /\ beyond \in BOOLEAN /\ (beyond => beyond)
      /\ bytes \in Seq(Nat) /\ ended \in BOOLEAN /\ intact \in BOOLEAN /\ pen \in Pens
  BY DEF WriteEndOfBitmap, FileTypes, Fills
<1>2. /\ bytes' \in Seq(Nat) /\ Len(bytes) \in Nat /\ Len(bytes') = Len(bytes) + 2
      /\ SameBytes(bytes, bytes', Len(bytes)) /\ HasBytes(bytes, Len(bytes))
      /\ bytes'[Len(bytes) + 1] = 0 /\ bytes'[Len(bytes) + 2] = 1
  <2>1. FollowedByTwo(bytes, bytes', 0, 1)
    BY <1>1, TwoBytes
  <2> QED
    BY <2>1 DEF FollowedByTwo
<1>3. FileTypes'
  BY <1>1, <1>2 DEF FileTypes
<1>4. k = PenPlace /\ k \in Nat
  BY PenSpotIs
<1>5. \A p \in Places : picture'[p] = IF k <= p THEN Black ELSE picture[p]
  <2>1. AfterPen = {p \in Places : p >= k}
    BY <1>4 DEF AfterPen
  <2> HIDE DEF k
  <2> QED
    BY <1>1, <2>1 DEF Blackened
<1>6. PICK T, last :
          /\ Chain(bits, reversed, before, beyond, picture, bytes, T, last)
          /\ last.at <= Len(bytes)
          /\ \/ intact /\ PenAt(last, Len(bytes), pen, FALSE)
             \/ ~intact /\ RunAt(bytes, Len(bytes), last) /\ PlaceOf(last) <= k
  BY <1>1 DEF FileWritten, Written
<1> HIDE DEF k
<1>7. last \in Spots /\ last.at \in Nat /\ PlaceOf(last) \in Nat
  BY <1>6, SpotFields DEF Chain
<1>8. PlaceOf(last) <= k
  <2>1. CASE PenAt(last, Len(bytes), pen, FALSE)
    <3>1. PlaceOf(last) = k
      BY <2>1, SamePlaces DEF PenAt, k
    <3> QED
      BY <1>4, <3>1
  <2> QED
    BY <1>6, <2>1
<1>9. Chain(bits, reversed, before, beyond, picture', bytes', T, last)
  <2>1. HasBytes(bytes, last.at) /\ SameBytes(bytes, bytes', last.at)
    BY <1>2, <1>6, <1>7, BytesKept, HasFewer
  <2>2. SamePicture(picture, picture', PlaceOf(last))
    BY <1>4, <1>5, <1>7, <1>8, PlacesTyped DEF SamePicture
  <2> QED
    BY <1>1, <1>6, <2>1, <2>2, ChainKept
<1>10. last.at <= Len(bytes')
  BY <1>2, <1>6, <1>7
<1>11. CASE intact /\ PenAt(last, Len(bytes), pen, FALSE)
  <2>1. Len(bytes) = last.at /\ PlaceOf(last) = k
    BY <1>11, SamePlaces DEF PenAt, k
  <2>2. Fresh(picture', Black, PlaceOf(last))
    BY <1>5, <2>1 DEF Fresh
  <2>3. EndAt(picture', bytes', Len(bytes'), last)
    BY <1>2, <2>1, <2>2 DEF EndAt
  <2>4. Fills(reversed, last)
    BY <1>1, <1>11 DEF PenAt, Fills
  <2>5. Written(bits, reversed, before, beyond, picture', bytes', Len(bytes'), pen, TRUE, intact)
    BY <1>9, <1>10, <1>11, <2>3, <2>4 DEF Written
  <2> QED
    BY <1>1, <1>3, <2>5 DEF FileWritten
<1>12. CASE ~intact /\ RunAt(bytes, Len(bytes), last)
  <2>1. Len(bytes) <= Len(bytes') /\ Len(bytes') \in Nat
    BY <1>2
  <2>2. RunAt(bytes', Len(bytes'), last)
    BY <1>2, <1>7, <1>12, <2>1, RunKept
  <2>3. Written(bits, reversed, before, beyond, picture', bytes', Len(bytes'), pen, TRUE, intact)
    BY <1>9, <1>10, <1>12, <2>2 DEF Written
  <2> QED
    BY <1>1, <1>3, <2>3 DEF FileWritten
<1> QED
  BY <1>6, <1>11, <1>12

FollowedByFour(F, G, a, c, x, y) ==
    /\ G \in Seq(Nat) /\ Len(F) \in Nat /\ Len(G) = Len(F) + 4
    /\ SameBytes(F, G, Len(F))
    /\ G[Len(F) + 1] = a /\ G[Len(F) + 2] = c /\ G[Len(F) + 3] = x /\ G[Len(F) + 4] = y

LEMMA FourBytes ==
    ASSUME NEW F \in Seq(Nat), NEW a \in Nat, NEW c \in Nat, NEW x \in Nat, NEW y \in Nat
    PROVE  FollowedByFour(F, F \o <<a, c, x, y>>, a, c, x, y)
<1> DEFINE s == <<a, c, x, y>>
           G == F \o s
<1>1. s \in Seq(Nat) /\ Len(s) = 4 /\ s[1] = a /\ s[2] = c /\ s[3] = x /\ s[4] = y
  OBVIOUS
<1> HIDE DEF s
<1>2. /\ G \in Seq(Nat) /\ Len(F) \in Nat /\ Len(G) = Len(F) + Len(s)
      /\ SameBytes(F, G, Len(F))
      /\ \A j \in 1..Len(s) : G[Len(F) + j] = s[j]
  BY <1>1, Appended
<1>3. 1 \in 1..Len(s) /\ 2 \in 1..Len(s) /\ 3 \in 1..Len(s) /\ 4 \in 1..Len(s)
  BY <1>1
<1> HIDE DEF G
<1>4. FollowedByFour(F, G, a, c, x, y)
  BY <1>1, <1>2, <1>3 DEF FollowedByFour
<1> QED
  BY <1>4 DEF G, s

LEMMA WriteDeltaKeeps ==
    ASSUME FileTypes, FileWritten, NEW x \in Nat, NEW y \in Nat, reversed => x = 0,
           WriteDelta(x, y)
    PROVE  FileTypes' /\ FileWritten'
<1> DEFINE t == PenSpotNow
           qn == [x |-> pen.x + x, y |-> pen.y + y]
           u == SpotAt(Len(bytes'), qn)
<1>1. /\ ~ended
      /\ UNCHANGED <<ended, intact, beyond, bits, reversed, before, phase, picture>>
      /\ bytes' = bytes \o <<0, 2, x, y>>
      /\ pen' = qn
      /\ bytes \in Seq(Nat) /\ ended \in BOOLEAN /\ reversed \in BOOLEAN /\ pen \in Pens
      /\ beyond \in BOOLEAN
  BY DEF WriteDelta, Write, FileTypes
<1>2. /\ bytes' \in Seq(Nat) /\ Len(bytes) \in Nat /\ Len(bytes') = Len(bytes) + 4
      /\ SameBytes(bytes, bytes', Len(bytes))
      /\ bytes'[Len(bytes) + 1] = 0 /\ bytes'[Len(bytes) + 2] = 2
      /\ bytes'[Len(bytes) + 3] = x /\ bytes'[Len(bytes) + 4] = y
  <2>1. FollowedByFour(bytes, bytes', 0, 2, x, y)
    BY <1>1, FourBytes
  <2> QED
    BY <2>1 DEF FollowedByFour
<1>3. /\ t \in Spots /\ t.at = Len(bytes) /\ t.x = pen.x /\ t.y = pen.y
      /\ PlaceOf(t) = PlaceOf(pen) /\ PlaceOf(t) \in Nat
      /\ pen.x \in Nat /\ pen.y \in Nat
  BY PenSpotIs
<1>4. qn \in Pens /\ qn.x = pen.x + x /\ qn.y = pen.y + y
  BY <1>3 DEF Pens
<1> HIDE DEF qn
<1>5. Len(bytes') \in Nat
  BY <1>2
<1>6. /\ u \in Spots /\ u.at = Len(bytes') /\ u.x = qn.x /\ u.y = qn.y
      /\ qn = [x |-> qn.x, y |-> qn.y]
  BY <1>4, <1>5, PenSpot
<1>7. u = [at |-> t.at + 4, x |-> t.x + x, y |-> t.y + y]
  BY <1>2, <1>3, <1>4 DEF SpotAt
<1> HIDE DEF u
<1>8. PlaceOf(t) <= PlaceOf(u) /\ PlaceOf(u) \in Nat
  <2>1. t.y < u.y \/ (t.y = u.y /\ t.x <= u.x)
    BY <1>3, <1>4, <1>6
  <2> QED
    BY <1>3, <1>6, <2>1, PlacesOrder, SpotFields
<1>9. Fresh(picture, before, PlaceOf(t))
  BY <1>1, <1>3 DEF FileWritten, Written
<1> HIDE DEF t
<1>10. Fresh(picture', before, PlaceOf(u))
  BY <1>1, <1>3, <1>8, <1>9, PlacesTyped DEF Fresh
<1>11. SamePicture(picture, picture', PlaceOf(t))
  BY <1>1 DEF SamePicture
<1>12. DeltaAt(reversed, before, picture', bytes', t, u)
  <2>1. \A p \in Between(t, u) : picture'[p] = before
    BY <1>1, <1>9 DEF Between, Fresh
  <2> QED
    BY <1>1, <1>2, <1>3, <1>7, <2>1 DEF DeltaAt
<1>13. Command(bits, reversed, before, beyond, picture', bytes', t, u)
  <2>1. ~Draws(bytes', t) /\ t.at + 2 <= u.at
    BY <1>2, <1>3, <1>6 DEF Draws
  <2> QED
    BY <1>12, <2>1 DEF Command
<1>14. Written(bits, reversed, before, beyond, picture', bytes', Len(bytes'),
                 [x |-> u.x, y |-> u.y], FALSE, intact)
  BY <1>1, <1>2, <1>6, <1>10, <1>11, <1>13, CommandStep DEF t
<1>15. FileWritten'
  BY <1>1, <1>6, <1>14 DEF FileWritten
<1> QED
  BY <1>1, <1>2, <1>4, <1>15 DEF FileTypes


-----------------------------------------------------------------------------
(* What has arrived, and how far it has been read                          *)

\* The n bytes of file F were written, and bytes is what has arrived of them.
FileOf(F, n, T, last) ==
    /\ Chain(bits, reversed, before, beyond, picture, F, T, last)
    /\ n \in Nat /\ HasBytes(F, n) /\ last.at <= n
    /\ Len(bytes) <= n /\ SameBytes(bytes, F, Len(bytes))
    /\ intact => Len(bytes) = n
    /\ \/ n = last.at
       \/ EndAt(picture, F, n, last)
       \/ RunAt(F, n, last)
    /\ ended /\ intact => EndAt(picture, F, n, last) /\ Fills(reversed, last)

\* What the destination holds when the picture has been read up to that place.
Shows(pix, k) ==
    pix = [p \in Places |->
              IF Flip(reversed, p) < k THEN picture[Flip(reversed, p)] ELSE before]

\* The decoder has come to spot t.
ReadTo(t) ==
    /\ source = t.at
    /\ line_begin = LineOf(reversed, t.y)
    /\ it = LineOf(reversed, t.y) + t.x
    /\ Shows(pixels, PlaceOf(t))

\* It has answered.
Answered ==
    /\ phase \in {"true", "false", "outside"}
    /\ phase = "outside" => reversed /\ beyond
    /\ \A p \in Places : pixels[p] \in {picture[Flip(reversed, p)], before}
    /\ ended /\ intact =>
          /\ phase # "false"
          /\ phase = "true" => \A p \in Places : pixels[p] = picture[Flip(reversed, p)]

ReadTypes == bits \in {4, 8} /\ reversed \in BOOLEAN /\ Len(bytes) \in Nat

ReadSoFar == \/ phase = "read" /\ \E F, n, T, last : \E t \in T : FileOf(F, n, T, last) /\ ReadTo(t)
             \/ Answered

\* The pixels of a run, in the destination and in the picture.
LEMMA RunPlaces ==
    ASSUME NEW r \in BOOLEAN, NEW t \in Spots, t.y < Height,
           NEW k \in Nat, t.x + k <= Width, NEW p \in Places
    PROVE  /\ p - (LineOf(r, t.y) + t.x) + 1 \in 1..k <=> Flip(r, p) - PlaceOf(t) + 1 \in 1..k
           /\ p - (LineOf(r, t.y) + t.x) + 1 \in 1..k
                => p - (LineOf(r, t.y) + t.x) + 1 = Flip(r, p) - PlaceOf(t) + 1
<1>1. /\ t.x \in Nat /\ t.y \in 0..Height - 1 /\ Width \in Nat /\ t.x <= Width
  BY SpotFields, PictureSizes
<1> DEFINE q == p - LineOf(r, t.y)
           w == t.y * Width
           f == Flip(r, p)
           g == f - w
<1>2. /\ f \in Int /\ w \in Nat /\ q \in Int
      /\ q \in 0..Width - 1 <=> g \in 0..Width - 1
      /\ q \in 0..Width - 1 => q = g
  <2>1. f \in Places /\ LineOf(r, t.y) \in Places
    BY <1>1, FlipLine
  <2>2. f \in Int /\ q \in Int
    <3>1. f \in Nat /\ LineOf(r, t.y) \in Nat /\ p \in Nat
      BY <2>1, PlacesTyped
    <3> HIDE DEF f
    <3> QED
      BY <3>1
  <2> QED
    BY <1>1, <2>2, FlipLine
<1>3. /\ p - (LineOf(r, t.y) + t.x) + 1 = q - t.x + 1
      /\ f - PlaceOf(t) + 1 = g - t.x + 1
  <2>1. LineOf(r, t.y) \in Int /\ p \in Int
    <3>1. LineOf(r, t.y) \in Places
      BY <1>1, FlipLine
    <3>2. LineOf(r, t.y) \in Nat /\ p \in Nat
      BY <3>1, PlacesTyped
    <3> QED
      BY <3>2
  <2>2. PlaceOf(t) = w + t.x
    BY <1>1, InLineIs DEF PlaceOf
  <2> HIDE DEF w, f
  <2> QED
    BY <1>1, <1>2, <2>1, <2>2
<1> HIDE DEF q, f, w
<1>4. f = w + g /\ g \in Int
  BY <1>2
<1> HIDE DEF g
<1>5. /\ q - t.x + 1 \in 1..k <=> g - t.x + 1 \in 1..k
      /\ q - t.x + 1 \in 1..k => q - t.x + 1 = g - t.x + 1
  BY <1>1, <1>2, <1>4
<1> QED
  BY <1>3, <1>5 DEF f
\* A step that draws what the picture has up to the next spot comes to that spot.
LEMMA ShowsMore ==
    ASSUME NEW k \in Nat, NEW l \in Nat, k <= l, Shows(pixels, k), reversed \in BOOLEAN, NEW pix,
           pix = [p \in Places |->
                     IF k <= Flip(reversed, p) /\ Flip(reversed, p) < l
                     THEN picture[Flip(reversed, p)] ELSE pixels[p]]
    PROVE  Shows(pix, l)
<1>1. \A p \in Places : Flip(reversed, p) \in Nat
  <2> TAKE p \in Places
  <2>1. 0 \in 0..Height - 1
    BY PictureSizes
  <2> QED
    BY <2>1, FlipLine, PlacesTyped
<1>2. ASSUME NEW p \in Places
      PROVE  (IF k <= Flip(reversed, p) /\ Flip(reversed, p) < l
                     THEN picture[Flip(reversed, p)] ELSE pixels[p])
             = IF Flip(reversed, p) < l THEN picture[Flip(reversed, p)] ELSE before
  BY <1>1, <1>2 DEF Shows
<1> QED
  BY <1>2 DEF Shows

LEMMA FlipTyped ==
    ASSUME NEW r \in BOOLEAN, NEW p \in Places
    PROVE  Flip(r, p) \in Places /\ Flip(r, p) \in Nat
<1>1. 0 \in 0..Height - 1
  BY PictureSizes
<1>2. Flip(r, p) \in Places
  BY <1>1, FlipLine
<1> QED
  BY <1>2, PlacesTyped

\* What is known at a spot.
LEMMA AtSpot ==
    ASSUME ReadTypes, NEW F, NEW n, NEW T, NEW last, FileOf(F, n, T, last),
           NEW t \in T, ReadTo(t)
    PROVE  /\ t \in Spots /\ last \in Spots /\ n \in Nat /\ t.at <= last.at /\ last.at <= n
           /\ t.at \in Nat /\ last.at \in Nat /\ source = t.at
           /\ Len(bytes) \in Nat /\ Len(bytes) <= n /\ (intact => Len(bytes) = n)
           /\ \A i \in 1..Len(bytes) : F[i] = bytes[i] /\ F[i] \in Nat
           /\ PlaceOf(t) \in Nat
           /\ ended /\ intact => n = last.at + 2
           /\ t = last \/ \E u \in T : /\ u \in Spots /\ u.at \in Nat /\ u.at <= last.at
                                       /\ PlaceOf(u) \in Nat /\ PlaceOf(t) <= PlaceOf(u)
                                       /\ Command(bits, reversed, before, beyond, picture, F, t, u)
<1>1. /\ T \subseteq Spots /\ last \in T
      /\ \A s \in T : s.at <= last.at /\ PlaceOf(s) <= PlaceOf(last)
      /\ \A s \in T :
            s = last \/ \E u \in T : Command(bits, reversed, before, beyond, picture, F, s, u)
  BY DEF FileOf, Chain
<1>2. /\ n \in Nat /\ HasBytes(F, n) /\ last.at <= n
      /\ Len(bytes) <= n /\ SameBytes(bytes, F, Len(bytes))
      /\ intact => Len(bytes) = n
      /\ ended /\ intact => n = last.at + 2
  BY DEF FileOf, EndAt
<1>3. /\ t \in Spots /\ last \in Spots /\ t.at \in Nat /\ last.at \in Nat
      /\ PlaceOf(t) \in Nat /\ t.at <= last.at /\ source = t.at
  BY <1>1, SpotFields DEF ReadTo
<1>4. Len(bytes) \in Nat /\ bits \in {4, 8}
  BY DEF ReadTypes
<1>5. \A i \in 1..Len(bytes) : F[i] = bytes[i] /\ F[i] \in Nat
  BY <1>2, <1>4 DEF HasBytes, SameBytes
<1>6. ASSUME t # last
      PROVE  \E u \in T : /\ u \in Spots /\ u.at \in Nat /\ u.at <= last.at
                          /\ PlaceOf(u) \in Nat /\ PlaceOf(t) <= PlaceOf(u)
                          /\ Command(bits, reversed, before, beyond, picture, F, t, u)
  <2>1. PICK u \in T : Command(bits, reversed, before, beyond, picture, F, t, u)
    BY <1>1, <1>6
  <2>2. u \in Spots /\ u.at \in Nat /\ u.at <= last.at /\ PlaceOf(u) \in Nat
    BY <1>1, SpotFields
  <2>3. u.at <= n
    BY <1>2, <1>3, <2>2
  <2>4. PlaceOf(t) <= PlaceOf(u)
    BY <1>2, <1>3, <1>4, <2>1, <2>2, <2>3, CommandForward
  <2> QED
    BY <2>1, <2>2, <2>4
<1> QED
  BY <1>2, <1>3, <1>4, <1>5, <1>6

\* The decoder comes to the next spot.
LEMMA GoesOn ==
    ASSUME NEW F, NEW n, NEW T, NEW last, FileOf(F, n, T, last), NEW u \in T,
           phase = "read", UNCHANGED <<written, phase>>,
           source' = u.at, line_begin' = LineOf(reversed, u.y),
           it' = LineOf(reversed, u.y) + u.x, Shows(pixels', PlaceOf(u))
    PROVE  ReadSoFar'
<1>1. FileOf(F, n, T, last)'
  BY DEF FileOf, written
<1>2. ReadTo(u)'
  BY DEF ReadTo, Shows, written
<1>3. phase' = "read"
  OBVIOUS
<1> QED
  BY <1>1, <1>2, <1>3 DEF ReadSoFar

\* Or it refuses what is left.
LEMMA Refuses ==
    ASSUME ReadTypes, NEW k \in Nat, Shows(pixels, k), Answer("false"), ~(ended /\ intact)
    PROVE  ReadSoFar'
<1>1. UNCHANGED <<written, pixels>> /\ phase' = "false"
  BY DEF Answer
<1>2. \A p \in Places : pixels[p] \in {picture[Flip(reversed, p)], before}
  BY DEF Shows
<1>3. Answered'
  BY <1>1, <1>2 DEF Answered, written
<1> QED
  BY <1>3 DEF ReadSoFar

\* A line of the picture is inside of the destination.
LEMMA LineInside ==
    ASSUME NEW r \in BOOLEAN, NEW y \in 0..Height - 1
    PROVE  /\ LineOf(r, y) \in Nat /\ LineOf(r, y) + Width <= Width * Height
           /\ Width * Height \in Nat
<1> DEFINE l == IF r THEN Height - 1 - y ELSE y
<1>1. l \in 0..Height - 1 /\ LineOf(r, y) = l * Width /\ Height \in Nat /\ Width \in Nat
  BY PictureSizes DEF LineOf
<1> HIDE DEF l
<1>2. l * Width \in Nat /\ Width * Height \in Nat /\ Height * Width = Width * Height
  BY <1>1
<1>3. (l + 1) * Width <= Height * Width
  <2>1. l + 1 \in Int /\ Height \in Int /\ l + 1 <= Height
    BY <1>1
  <2> QED
    BY <1>1, <2>1, RleProducts
<1>4. (l + 1) * Width = l * Width + Width
  BY <1>1
<1> QED
  BY <1>1, <1>2, <1>3, <1>4

\* A line past the last row is not.
LEMMA LineOutside ==
    ASSUME NEW r \in BOOLEAN, NEW y \in Nat, y >= Height
    PROVE  /\ LineOf(r, y) \in Int /\ Width * Height \in Nat
           /\ r => LineOf(r, y) + Width <= 0
           /\ ~r => LineOf(r, y) >= Width * Height
           /\ y * Width \in Nat /\ y * Width >= Width * Height
<1>1. Height \in Nat /\ Width \in Nat
  BY PictureSizes
<1>2. y * Width \in Nat /\ Width * Height \in Nat /\ Height * Width = Width * Height
  BY <1>1
<1>3. Height * Width <= y * Width
  BY <1>1, RleProducts
<1>4. ASSUME r PROVE LineOf(r, y) \in Int /\ LineOf(r, y) + Width <= 0
  <2> DEFINE d == Height - 1 - y
  <2>1. d \in Int /\ d + 1 \in Int /\ d + 1 <= 0 /\ 0 \in Int
    BY <1>1
  <2>2. LineOf(r, y) = d * Width
    BY <1>4 DEF LineOf
  <2> HIDE DEF d
  <2>3. (d + 1) * Width <= 0 * Width
    BY <1>1, <2>1, RleProducts
  <2>4. (d + 1) * Width = d * Width + Width /\ 0 * Width = 0 /\ d * Width \in Int
    BY <1>1, <2>1
  <2> QED
    BY <2>2, <2>3, <2>4
<1>5. ~r => LineOf(r, y) = y * Width
  BY DEF LineOf
<1> DEFINE l == LineOf(r, y)
           w == y * Width
           a == Width * Height
<1> HIDE DEF l, w, a
<1>6. /\ w \in Nat /\ a \in Nat /\ w >= a
      /\ r => l \in Int /\ l + Width <= 0
      /\ ~r => l = w
  BY <1>2, <1>3, <1>4, <1>5 DEF l, w, a
<1>7. l \in Int /\ a \in Nat /\ (r => l + Width <= 0) /\ (~r => l >= a) /\ w \in Nat /\ w >= a
  BY <1>6
<1> QED
  BY <1>7 DEF l, w, a

\* Inside of its line CheckIterator refuses no pixel.
LEMMA PassedWithin ==
    ASSUME reversed \in BOOLEAN, NEW t \in Spots, ReadTo(t), NEW n \in Int,
           n > 0 => t.y < Height /\ t.x + n <= Width
    PROVE  Passed(n) = Following(n) /\ Following(n) \subseteq Places
<1>1. t.x \in Nat /\ t.y \in Nat /\ Width \in Nat /\ Height \in Nat
  BY SpotFields, PictureSizes
<1> DEFINE l == LineOf(reversed, t.y)
           a == Width * Height
<1>2. line_begin = l /\ it = l + t.x /\ l \in Int
  BY <1>1, LineSteps DEF ReadTo
<1>3. CASE n <= 0
  <2>1. Following(n) = {}
    <3>1. it \in Int
      BY <1>1, <1>2
    <3> QED
      BY <1>3, <3>1 DEF Following
  <2> QED
    BY <2>1 DEF Passed
<1>4. CASE n > 0
  <2>1. l \in Nat /\ l + Width <= a /\ a \in Nat
    <3>1. t.y \in 0..Height - 1
      BY <1>1, <1>4
    <3> QED
      BY <3>1, LineInside
  <2>2. Places = 0..(a - 1)
    BY DEF Places
  <2> HIDE DEF l, a
  <2>3. it \in Nat /\ l <= it /\ it + n <= a
    BY <1>1, <1>2, <1>4, <2>1
  <2>4. ASSUME NEW i \in Following(n) PROVE l <= i /\ i < a /\ i \in Int
    BY <1>2, <2>1, <2>3 DEF Following
  <2>5. Following(n) \subseteq Places
    BY <2>1, <2>2, <2>3 DEF Following
  <2>6. ASSUME NEW i \in Following(n), NEW j \in it..i PROVE CheckIterator(j)
    <3>1. j \in Following(n)
      BY <2>3 DEF Following
    <3>2. l <= j /\ j < a
      BY <2>4, <3>1
    <3> QED
      BY <1>2, <3>2 DEF CheckIterator, a
  <2>7. Passed(n) = Following(n)
    BY <2>6 DEF Passed
  <2> QED
    BY <2>5, <2>7
<1> QED
  BY <1>3, <1>4

\* Past the last row it refuses the first one,
LEMMA PassedNothing ==
    ASSUME ~reversed, reversed \in BOOLEAN, NEW t \in Spots, ReadTo(t), t.y >= Height,
           NEW n \in Nat, n > 0
    PROVE  Passed(n) = {} /\ Following(n) # {}
<1>1. t.x \in Nat /\ t.y \in Nat
  BY SpotFields
<1> DEFINE l == LineOf(reversed, t.y)
           a == Width * Height
<1>2. l \in Int /\ a \in Nat /\ l >= a
  BY <1>1, LineOutside
<1>3. it = l + t.x
  BY DEF ReadTo
<1> HIDE DEF l, a
<1>4. it \in Int /\ ~(it < a)
  BY <1>1, <1>2, <1>3
<1>5. ~CheckIterator(it)
  BY <1>4 DEF CheckIterator, a
<1>6. \A i \in Following(n) : it \in it..i
  BY <1>4 DEF Following
<1>7. it \in Following(n)
  BY <1>4 DEF Following
<1> QED
  BY <1>5, <1>6, <1>7 DEF Passed

\* or, upside down, passes it.
LEMMA PassedOutside ==
    ASSUME reversed, reversed \in BOOLEAN, NEW t \in Spots, ReadTo(t), t.y >= Height,
           NEW n \in Nat, n > 0, t.x + n <= Width
    PROVE  ~(Passed(n) \subseteq Places)
<1>1. t.x \in Nat /\ t.y \in Nat /\ Width \in Nat
  BY SpotFields, PictureSizes
<1> DEFINE l == LineOf(reversed, t.y)
           a == Width * Height
<1>2. l \in Int /\ a \in Nat /\ l + Width <= 0
  BY <1>1, LineOutside
<1>3. it = l + t.x /\ line_begin = l
  BY DEF ReadTo
<1> HIDE DEF l, a
<1>4. it \in Int /\ it < 0 /\ l <= it /\ it < a
  BY <1>1, <1>2, <1>3
<1>5. CheckIterator(it)
  BY <1>3, <1>4 DEF CheckIterator, a
<1>6. it \in Following(n) /\ it..it = {it}
  BY <1>4 DEF Following
<1>7. it \in Passed(n)
  BY <1>5, <1>6 DEF Passed
<1>8. it \notin Places
  BY <1>4, PlacesTyped
<1> QED
  BY <1>7, <1>8

\* A run that is put where the picture has it.
LEMMA RunIsPut ==
    ASSUME reversed \in BOOLEAN, NEW t \in Spots, t.y < Height,
           NEW k \in Nat, t.x + k <= Width, NEW c \in Nat, c = PlaceOf(t) + k,
           it = LineOf(reversed, t.y) + t.x, Shows(pixels, PlaceOf(t)),
           NEW run,
           \A p \in Places : p - PlaceOf(t) + 1 \in 1..k => picture[p] = run[p - PlaceOf(t) + 1]
    PROVE  Shows([p \in Places |-> IF p \in Following(k) THEN run[p - it + 1] ELSE pixels[p]], c)
<1> DEFINE a == PlaceOf(t)
<1>1. a \in Nat /\ a <= c
  <2>1. a \in Nat
    BY SpotFields
  <2> HIDE DEF a
  <2>2. c = a + k
    BY DEF a
  <2> QED
    BY <2>1, <2>2
<1>2. it \in Int
  <2>1. LineOf(reversed, t.y) \in Int /\ t.x \in Nat
    <3>1. t.y \in Int /\ 0 \in Int
      BY SpotFields
    <3> QED
      BY <3>1, SpotFields, LineSteps
  <2> QED
    BY <2>1
<1>3. ASSUME NEW p \in Places
      PROVE  (IF p \in Following(k) THEN run[p - it + 1] ELSE pixels[p])
             = IF a <= Flip(reversed, p) /\ Flip(reversed, p) < c
               THEN picture[Flip(reversed, p)] ELSE pixels[p]
  <2> DEFINE f == Flip(reversed, p)
             i == p - it + 1
             j == f - a + 1
  <2>1. /\ i \in 1..k <=> j \in 1..k
        /\ i \in 1..k => i = j
    BY RunPlaces
  <2>2. f \in Places /\ f \in Nat /\ p \in Nat
    BY FlipTyped, PlacesTyped
  <2>3. j \in 1..k => picture[f] = run[j]
    BY <2>2
  <2> HIDE DEF f
  <2>4. p \in Following(k) <=> i \in 1..k
    BY <1>2, <2>2 DEF Following
  <2>5. c = a + k
    OBVIOUS
  <2> HIDE DEF a
  <2>6. j \in 1..k <=> a <= f /\ f < c
    BY <1>1, <2>2, <2>5
  <2> HIDE DEF i, j
  <2>7. (IF p \in Following(k) THEN run[i] ELSE pixels[p])
          = IF a <= f /\ f < c THEN picture[f] ELSE pixels[p]
    BY <2>1, <2>3, <2>4, <2>6
  <2> QED
    BY <2>7 DEF f, i
<1> DEFINE drawn == [p \in Places |->
                        IF a <= Flip(reversed, p) /\ Flip(reversed, p) < c
                        THEN picture[Flip(reversed, p)] ELSE pixels[p]]
<1>4. [p \in Places |-> IF p \in Following(k) THEN run[p - it + 1] ELSE pixels[p]] = drawn
  BY <1>3
<1>5. Shows(pixels, a)
  OBVIOUS
<1> HIDE DEF a
<1>6. Shows(drawn, c)
  BY <1>1, <1>5, ShowsMore
<1> QED
  BY <1>4, <1>6

\* Past the last row the picture has been read.
LEMMA AllShown ==
    ASSUME reversed \in BOOLEAN, NEW t \in Spots, t.y >= Height, NEW p \in Places
    PROVE  Flip(reversed, p) < PlaceOf(t)
<1> DEFINE f == Flip(reversed, p)
           a == Width * Height
           w == t.y * Width
           i == InLine(t.x)
<1>1. t.x \in Nat /\ t.y \in Nat
  BY SpotFields
<1>2. a \in Nat /\ w \in Nat /\ w >= a
  BY <1>1, LineOutside
<1>3. i \in Nat
  BY <1>1, InLineIs
<1>4. f \in 0..(a - 1)
  BY FlipTyped DEF Places
<1> HIDE DEF f, a, w, i
<1>5. f < w + i
  BY <1>2, <1>3, <1>4
<1> QED
  BY <1>5 DEF f, w, i, PlaceOf

\* How a command puts its k pixels, and goes on.
PutRun(run, k, u) ==
    \/ ~(Passed(k) \subseteq Places) /\ Answer("outside")
    \/ /\ Passed(k) \subseteq Places
       /\ pixels' = [p \in Places |-> IF p \in Passed(k) THEN run[p - it + 1] ELSE pixels[p]]
       /\ \/ /\ Passed(k) = Following(k)
             /\ it' = LineOf(reversed, u.y) + u.x /\ line_begin' = LineOf(reversed, u.y)
             /\ source' = u.at /\ UNCHANGED <<written, phase>>
          \/ Passed(k) # Following(k) /\ phase' = "true" /\ UNCHANGED written

\* They lead from spot t to spot u,
Leads(t, k, u) == /\ k \in Nat
                  /\ k > 0 => t.x + k <= Width
                  /\ k > 0 /\ t.y >= Height => beyond
                  /\ PlaceOf(u) = PlaceOf(t) + k

\* and the picture has them.
HasRun(t, k, run) ==
    \A p \in Places : p - PlaceOf(t) + 1 \in 1..k => picture[p] = run[p - PlaceOf(t) + 1]

LEMMA RunReads ==
    ASSUME ReadTypes, phase = "read",
           NEW F, NEW n, NEW T, NEW last, FileOf(F, n, T, last),
           NEW t \in T, t \in Spots, ReadTo(t), NEW u \in T,
           NEW k, Leads(t, k, u), NEW run, HasRun(t, k, run), PutRun(run, k, u)
    PROVE  ReadSoFar'
<1>1. /\ k \in Nat
      /\ k > 0 => t.x + k <= Width
      /\ k > 0 /\ t.y >= Height => beyond
      /\ PlaceOf(u) = PlaceOf(t) + k
  BY DEF Leads
<1>2. \A p \in Places : p - PlaceOf(t) + 1 \in 1..k => picture[p] = run[p - PlaceOf(t) + 1]
  BY DEF HasRun
<1> DEFINE put == [p \in Places |-> IF p \in Passed(k) THEN run[p - it + 1] ELSE pixels[p]]
<1>3. /\ reversed \in BOOLEAN /\ t.x \in Nat /\ t.y \in Nat /\ PlaceOf(t) \in Nat
      /\ Height \in Nat /\ Width \in Nat
  BY SpotFields, PictureSizes DEF ReadTypes
<1>4. it = LineOf(reversed, t.y) + t.x /\ Shows(pixels, PlaceOf(t))
  BY DEF ReadTo
<1>5. \A p \in Places : pixels[p] \in {picture[Flip(reversed, p)], before}
  BY <1>4 DEF Shows
<1>6. CASE k = 0 \/ t.y < Height
  <2>1. Passed(k) = Following(k) /\ Following(k) \subseteq Places
    <3>1. k \in Int /\ (k > 0 => t.y < Height /\ t.x + k <= Width)
      BY <1>3, <1>6, <1>1
    <3> QED
      BY <1>3, <3>1, PassedWithin
  <2>2. /\ pixels' = put
        /\ it' = LineOf(reversed, u.y) + u.x /\ line_begin' = LineOf(reversed, u.y)
        /\ source' = u.at /\ UNCHANGED <<written, phase>>
    BY <2>1 DEF PutRun
  <2>3. Shows(put, PlaceOf(u))
    <3>1. CASE k = 0
      <4>1. PlaceOf(u) = PlaceOf(t)
        BY <1>3, <1>1, <3>1
      <4>2. Following(k) = {}
        <5>1. it \in Int
          <6>1. LineOf(reversed, t.y) \in Int
            <7>1. t.y \in Int /\ 0 \in Int
              BY <1>3
            <7> QED
              BY <1>3, <7>1, LineSteps
          <6> QED
            BY <1>3, <1>4, <6>1
        <5> QED
          BY <3>1, <5>1 DEF Following
      <4>3. put = [p \in Places |-> pixels[p]]
        BY <2>1, <4>2
      <4>4. put = pixels
        BY <1>4, <4>3 DEF Shows
      <4> HIDE DEF put
      <4> QED
        BY <1>4, <4>1, <4>4
    <3>2. CASE k # 0
      <4>1. t.x + k <= Width /\ t.y < Height
        BY <1>6, <1>1, <3>2
      <4> DEFINE c == PlaceOf(u)
      <4>2. c = PlaceOf(t) + k /\ c \in Nat
        <5>1. c = PlaceOf(t) + k /\ k \in Nat
          BY <1>1
        <5> HIDE DEF c
        <5> QED
          BY <1>3, <5>1
      <4> DEFINE fol == [p \in Places |-> IF p \in Following(k) THEN run[p - it + 1] ELSE pixels[p]]
      <4>3. put = fol
        BY <2>1
      <4> HIDE DEF c, put
      <4>4. Shows(fol, c)
        BY <1>3, <1>4, <1>1, <1>2, <4>1, <4>2, RunIsPut
      <4> QED
        BY <4>3, <4>4 DEF c
    <3> QED
      BY <3>1, <3>2
  <2> HIDE DEF put
  <2> QED
    BY <2>2, <2>3, GoesOn
<1>7. CASE k > 0 /\ t.y >= Height
  <2>1. CASE ~reversed
    <3>1. Passed(k) = {} /\ Following(k) # {}
      BY <1>3, <1>7, <1>1, <2>1, PassedNothing
    <3>2. pixels' = put /\ phase' = "true" /\ UNCHANGED written
      BY <3>1 DEF PutRun
    <3>3. \A p \in Places : put[p] = picture[Flip(reversed, p)]
      BY <1>3, <1>4, <1>7, <3>1, AllShown DEF Shows
    <3> HIDE DEF put
    <3>4. Answered'
      BY <3>2, <3>3 DEF Answered, written
    <3> QED
      BY <3>4 DEF ReadSoFar
  <2>2. CASE reversed
    <3>1. ~(Passed(k) \subseteq Places)
      BY <1>3, <1>7, <1>1, <2>2, PassedOutside
    <3>2. phase' = "outside" /\ UNCHANGED <<written, pixels>>
      BY <3>1 DEF PutRun, Answer
    <3>3. Answered'
      BY <1>5, <1>7, <1>1, <2>2, <3>2 DEF Answered, written
    <3> QED
      BY <3>3 DEF ReadSoFar
  <2> QED
    BY <2>1, <2>2
<1> QED
  BY <1>3, <1>6, <1>7, <1>1

\* An iterator has no room for a run that is longer than what is left of its line.
LEMMA NoRoom ==
    ASSUME reversed \in BOOLEAN, NEW t \in Spots, ReadTo(t), NEW n \in Nat, t.x + n > Width
    PROVE  ~IsPixelInsideLine(n)
<1> DEFINE l == LineOf(reversed, t.y)
<1>1. t.x \in Nat /\ t.y \in Nat /\ Width \in Nat
  BY SpotFields, PictureSizes
<1>2. l \in Int
  BY <1>1, LineSteps
<1>3. line_begin = l /\ it = l + t.x
  BY DEF ReadTo
<1> HIDE DEF l
<1> QED
  BY <1>1, <1>2, <1>3 DEF IsPixelInsideLine, LineEnd

LEMMA Room ==
    ASSUME reversed \in BOOLEAN, NEW t \in Spots, ReadTo(t), NEW n \in Nat, t.x + n <= Width
    PROVE  IsPixelInsideLine(n)
<1> DEFINE l == LineOf(reversed, t.y)
<1>1. t.x \in Nat /\ t.y \in Nat /\ Width \in Nat
  BY SpotFields, PictureSizes
<1>2. l \in Int
  BY <1>1, LineSteps
<1>3. line_begin = l /\ it = l + t.x
  BY DEF ReadTo
<1> HIDE DEF l
<1> QED
  BY <1>1, <1>2, <1>3 DEF IsPixelInsideLine, LineEnd

LEMMA SomePlace == 0 \in Places
<1>1. Width * Height \in Nat /\ Width * Height > 0
  BY PictureSizes
<1> QED
  BY <1>1 DEF Places

LEMMA EncodedReads ==
    ASSUME ReadTypes, NEW F, NEW n, NEW T, NEW last, FileOf(F, n, T, last),
           NEW t \in T, ReadTo(t), Encoded
    PROVE  ReadSoFar'
<1> DEFINE k == Byte(0)
           run == [i \in 1..k |-> IF bits = 8 THEN Byte(1)
                                  ELSE IF i % 2 = 1 THEN Byte(1) \div 16 ELSE Byte(1) % 16]
<1>1. /\ t \in Spots /\ last \in Spots /\ n \in Nat /\ last.at <= n
      /\ t.at \in Nat /\ last.at \in Nat /\ source = t.at
      /\ Len(bytes) \in Nat /\ Len(bytes) <= n
      /\ \A i \in 1..Len(bytes) : F[i] = bytes[i] /\ F[i] \in Nat
      /\ PlaceOf(t) \in Nat
      /\ t = last \/ \E u \in T : /\ u \in Spots /\ u.at \in Nat /\ u.at <= last.at
                                  /\ PlaceOf(u) \in Nat /\ PlaceOf(t) <= PlaceOf(u)
                                  /\ Command(bits, reversed, before, beyond, picture, F, t, u)
  BY AtSpot
<1>2. /\ phase = "read" /\ source + 1 < Len(bytes) /\ k > 0
      /\ \/ /\ IsPixelInsideLine(k)
            /\ Put(run, it' = it + k /\ GoOn(2) /\ UNCHANGED line_begin)
         \/ ~IsPixelInsideLine(k) /\ Answer("false")
  BY DEF Encoded, Reads
<1>3. reversed \in BOOLEAN /\ bits \in {4, 8}
  BY DEF ReadTypes
<1>4. k = F[t.at + 1] /\ Byte(1) = F[t.at + 2] /\ k \in Nat
  <2>1. t.at + 1 \in 1..Len(bytes) /\ t.at + 2 \in 1..Len(bytes)
    <3>1. t.at \in Nat /\ Len(bytes) \in Nat /\ t.at + 1 < Len(bytes)
      BY <1>1, <1>2
    <3> QED
      BY <3>1
  <2>2. Byte(0) = bytes[t.at + 1] /\ Byte(1) = bytes[t.at + 2]
    BY <1>1 DEF Byte
  <2> QED
    BY <1>1, <2>1, <2>2
<1>5. CASE t = last
  <2>1. ~(n = last.at)
    BY <1>1, <1>2, <1>5
  <2>2. ~EndAt(picture, F, n, last)
    BY <1>2, <1>4, <1>5 DEF EndAt
  <2>3. RunAt(F, n, last) /\ ~(ended /\ intact)
    BY <2>1, <2>2 DEF FileOf
  <2>4. ~IsPixelInsideLine(k)
    <3>1. t.x + k > Width
      BY <1>2, <1>4, <1>5, <2>3 DEF RunAt, RunLength
    <3> HIDE DEF k
    <3> QED
      BY <1>1, <1>3, <1>4, <3>1, NoRoom
  <2>5. Answer("false")
    BY <1>2, <2>4
  <2> QED
    BY <1>1, <2>3, <2>5, Refuses DEF ReadTo
<1>6. ASSUME t # last PROVE ReadSoFar'
  <2>1. PICK u \in T : u \in Spots /\ Command(bits, reversed, before, beyond, picture, F, t, u)
    BY <1>1, <1>6
  <2>2. EncodedAt(bits, picture, F, t, u) /\ (t.y >= Height => beyond)
    BY <1>2, <1>4, <2>1 DEF Command, Draws, AbsoluteAt, EndOfLineAt, DeltaAt
  <2>3. /\ t.x + k <= Width
        /\ u.at = t.at + 2 /\ u.x = t.x + k /\ u.y = t.y
        /\ \A p \in Places :
              p - PlaceOf(t) + 1 \in 1..k
                => picture[p] = EncodedPixel(bits, Byte(1), p - PlaceOf(t) + 1)
    BY <1>4, <2>2 DEF EncodedAt
  <2>4. IsPixelInsideLine(k)
    BY <1>1, <1>3, <1>4, <2>3, Room
  <2>5. Put(run, it' = it + k /\ GoOn(2) /\ UNCHANGED line_begin)
    BY <1>2, <2>4
  <2>6. \A i \in 1..k : run[i] = EncodedPixel(bits, Byte(1), i)
    BY DEF EncodedPixel
  <2>7. run \in Seq({run[i] : i \in 1..k}) /\ Len(run) = k
    <3> DEFINE S == {run[i] : i \in 1..k}
    <3>1. run \in [1..k -> S]
      OBVIOUS
    <3>2. k \in Nat
      BY <1>4
    <3> HIDE DEF run, k, S
    <3>3. run \in Seq(S)
      BY <3>1, <3>2, SeqDef
    <3>4. Len(run) = k
      BY <3>1, <3>2, <3>3, LenProperties
    <3> QED
      BY <3>3, <3>4 DEF S
  <2> HIDE DEF run, k
  <2>8. \A p \in Places : p - PlaceOf(t) + 1 \in 1..k => picture[p] = run[p - PlaceOf(t) + 1]
    BY <2>3, <2>6
  <2>9. PlaceOf(u) = PlaceOf(t) + k
    <3>1. \A p \in Places : PlaceOf(u) = PlaceOf(t) + k
      BY <1>1, <1>4, <2>1, <2>3, RunEnds
    <3> QED
      BY <3>1, SomePlace
  <2>10. it + k = LineOf(reversed, u.y) + u.x /\ line_begin = LineOf(reversed, u.y)
    <3>1. LineOf(reversed, t.y) \in Int /\ t.x \in Nat
      BY <1>1, <1>3, SpotFields, LineSteps
    <3>2. (LineOf(reversed, t.y) + t.x) + k = LineOf(reversed, t.y) + (t.x + k)
      BY <1>4, <3>1
    <3> QED
      BY <2>3, <3>2 DEF ReadTo
  <2>11. PutRun(run, k, u)
    BY <1>1, <2>3, <2>5, <2>7, <2>10 DEF Put, PutRun, GoOn
  <2>12. Leads(t, k, u) /\ HasRun(t, k, run)
    BY <1>4, <2>2, <2>3, <2>8, <2>9 DEF Leads, HasRun, k
  <2> QED
    BY <1>1, <1>2, <2>11, <2>12, RunReads
<1> QED
  BY <1>5, <1>6

\* The pixels of an absolute run, as the decoder takes them.
HasArrived(F) == \A i \in 1..Len(bytes) : F[i] = bytes[i] /\ F[i] \in Nat

LEMMA AbsoluteTaken ==
    ASSUME bits \in {4, 8}, NEW F, NEW n \in Nat, n > 2, bits = 4 => n % 2 = 1,
           source \in Nat, Len(bytes) \in Nat,
           source + 2 + SizeOf(bits, n) < Len(bytes),
           HasArrived(F),
           NEW a, a = IF bits = 8 THEN Absolute8(n) ELSE Absolute4(n)
    PROVE  /\ DOMAIN a.run = 1..n /\ Len(a.run) = n
           /\ a.read = SizeOf(bits, n) + (SizeOf(bits, n) % 2)
           /\ \A i \in 1..n : a.run[i] = AbsolutePixel(bits, F, source, i)
<1> DEFINE m == Len(bytes)
           s == SizeOf(bits, n)
<1>1. m \in Nat /\ s \in Nat /\ source + 2 + s < m
  BY DEF SizeOf
<1>2. \A j \in 1..s : bytes[source + 2 + j] = F[source + 2 + j] /\ F[source + 2 + j] \in Nat
  <2> TAKE j \in 1..s
  <2> HIDE DEF s
  <2>1. source + 2 + j \in 1..m
    BY <1>1
  <2> QED
    BY <2>1 DEF HasArrived
<1>3. ASSUME NEW j \in 1..s PROVE Byte(1 + j) = F[source + 2 + j] /\ F[source + 2 + j] \in Nat
  <2> HIDE DEF s
  <2>1. source + (1 + j) + 1 = source + 2 + j
    BY <1>1
  <2>2. Byte(1 + j) = bytes[source + 2 + j]
    BY <2>1 DEF Byte
  <2> QED
    BY <1>2, <2>2
<1> HIDE DEF m
<1>4. CASE bits = 8
  <2>1. s = n
    BY <1>4 DEF SizeOf
  <2>2. a.run = [i \in 1..n |-> Byte(1 + i)] /\ a.read = n + (n % 2)
    BY <1>4 DEF Absolute8
  <2> HIDE DEF s
  <2>3. \A i \in 1..n : a.run[i] = F[source + 2 + i] /\ a.run[i] \in Nat
    BY <1>3, <2>1, <2>2
  <2>4. a.run \in [1..n -> Nat]
    BY <2>2, <2>3
  <2>5. a.run \in Seq(Nat) /\ Len(a.run) = n
    BY <2>4, SeqDef, LenProperties
  <2>6. \A i \in 1..n : a.run[i] = AbsolutePixel(bits, F, source, i)
    BY <1>4, <2>3 DEF AbsolutePixel
  <2> QED
    BY <2>1, <2>2, <2>5, <2>6 DEF s
<1>5. CASE bits = 4
  <2> DEFINE pairs == n \div 2
  <2>1. 2 * pairs + 1 = n /\ pairs \in Nat
    BY <1>5
  <2>2. s = (n + 1) \div 2 /\ s = pairs + 1
    <3>1. s = (n + 1) \div 2
      BY <1>5 DEF SizeOf
    <3> HIDE DEF pairs
    <3>2. n + 1 = 2 * (pairs + 1)
      BY <2>1
    <3>3. (2 * (pairs + 1)) \div 2 = pairs + 1
      BY <2>1
    <3> QED
      BY <3>1, <3>2, <3>3
  <2>3. /\ a.run = [i \in 1..(2 * pairs + 1) |->
                      IF i % 2 = 1 THEN Byte(1 + (i + 1) \div 2) \div 16
                      ELSE Byte(1 + i \div 2) % 16]
        /\ a.read = pairs + 1 + (((n + 1) \div 2) % 2)
    BY <1>5 DEF Absolute4
  <2> HIDE DEF pairs
  <2>4. /\ a.run = [i \in 1..n |->
                      IF i % 2 = 1 THEN Byte(1 + (i + 1) \div 2) \div 16
                      ELSE Byte(1 + i \div 2) % 16]
        /\ a.read = s + (s % 2)
    BY <2>1, <2>2, <2>3
  <2>5. ASSUME NEW i \in 1..n
        PROVE  a.run[i] = AbsolutePixel(bits, F, source, i) /\ a.run[i] \in Nat
    <3> DEFINE j == (i + 1) \div 2
               k == i \div 2
    <3>1. /\ j \in 1..s
          /\ i % 2 # 1 => k \in 1..s
      BY <1>5, SizeBounds
    <3>2. a.run[i] = IF i % 2 = 1 THEN Byte(1 + j) \div 16 ELSE Byte(1 + k) % 16
      BY <2>4
    <3> HIDE DEF j, k, s
    <3>3. CASE i % 2 = 1
      <4>1. Byte(1 + j) = F[source + 2 + j] /\ F[source + 2 + j] \in Nat
        BY <1>3, <3>1
      <4>2. a.run[i] = F[source + 2 + j] \div 16
        BY <3>2, <3>3, <4>1
      <4>3. F[source + 2 + j] \div 16 \in Nat
        BY <4>1
      <4> QED
        BY <1>5, <3>3, <4>2, <4>3 DEF AbsolutePixel, j
    <3>4. CASE i % 2 # 1
      <4>1. Byte(1 + k) = F[source + 2 + k] /\ F[source + 2 + k] \in Nat
        BY <1>3, <3>1, <3>4
      <4>2. a.run[i] = F[source + 2 + k] % 16
        BY <3>2, <3>4, <4>1
      <4>3. F[source + 2 + k] % 16 \in Nat
        BY <4>1
      <4> QED
        BY <1>5, <3>4, <4>2, <4>3 DEF AbsolutePixel, k
    <3> QED
      BY <3>3, <3>4
  <2>6. a.run \in [1..n -> Nat]
    BY <2>4, <2>5
  <2>7. a.run \in Seq(Nat) /\ Len(a.run) = n /\ DOMAIN a.run = 1..n
    BY <2>6, SeqDef, LenProperties
  <2> QED
    BY <2>4, <2>5, <2>7
<1> QED
  BY <1>4, <1>5

LEMMA AbsoluteReads ==
    ASSUME ReadTypes, NEW F, NEW n, NEW T, NEW last, FileOf(F, n, T, last),
           NEW t \in T, ReadTo(t), Absolute
    PROVE  ReadSoFar'
<1> DEFINE k == Byte(1)
           a == IF bits = 8 THEN Absolute8(k) ELSE Absolute4(k)
           s == SizeOf(bits, k)
           fits == IsPixelInsideLine(k) /\ source + 2 + s < Len(bytes)
<1>1. /\ t \in Spots /\ last \in Spots /\ n \in Nat /\ last.at <= n
      /\ t.at \in Nat /\ last.at \in Nat /\ source = t.at
      /\ Len(bytes) \in Nat /\ Len(bytes) <= n /\ (intact => Len(bytes) = n)
      /\ ended /\ intact => n = last.at + 2
      /\ \A i \in 1..Len(bytes) : F[i] = bytes[i] /\ F[i] \in Nat
      /\ PlaceOf(t) \in Nat
      /\ t = last \/ \E u \in T : /\ u \in Spots /\ u.at \in Nat /\ u.at <= last.at
                                  /\ PlaceOf(u) \in Nat /\ PlaceOf(t) <= PlaceOf(u)
                                  /\ Command(bits, reversed, before, beyond, picture, F, t, u)
  BY AtSpot
<1>2. /\ phase = "read" /\ source + 1 < Len(bytes) /\ Byte(0) = 0 /\ k > 2
      /\ \/ /\ fits
            /\ Put(a.run, it' = it + Len(a.run) /\ GoOn(2 + a.read) /\ UNCHANGED line_begin)
         \/ ~fits /\ Answer("false")
  BY DEF Absolute, Reads, IsPixelInside, SizeOf
<1>3. reversed \in BOOLEAN /\ bits \in {4, 8}
  BY DEF ReadTypes
<1>4. F[t.at + 1] = 0 /\ k = F[t.at + 2] /\ k \in Nat
  <2>1. t.at + 1 \in 1..Len(bytes) /\ t.at + 2 \in 1..Len(bytes)
    <3>1. t.at \in Nat /\ Len(bytes) \in Nat /\ t.at + 1 < Len(bytes)
      BY <1>1, <1>2
    <3> QED
      BY <3>1
  <2>2. Byte(0) = bytes[t.at + 1] /\ Byte(1) = bytes[t.at + 2]
    BY <1>1 DEF Byte
  <2> QED
    BY <1>1, <1>2, <2>1, <2>2
<1>5. CASE t = last
  <2>1. ~(n = last.at)
    BY <1>1, <1>2, <1>5
  <2>2. ~EndAt(picture, F, n, last)
    BY <1>2, <1>4, <1>5 DEF EndAt
  <2>3. RunAt(F, n, last) /\ ~(ended /\ intact)
    BY <2>1, <2>2 DEF FileOf
  <2>4. ~fits
    <3>1. t.x + k > Width
      BY <1>4, <1>5, <2>3 DEF RunAt, RunLength
    <3> HIDE DEF k
    <3> QED
      BY <1>1, <1>3, <1>4, <3>1, NoRoom
  <2>5. Answer("false")
    BY <1>2, <2>4
  <2> QED
    BY <1>1, <2>3, <2>5, Refuses DEF ReadTo
<1>6. ASSUME t # last PROVE ReadSoFar'
  <2>1. PICK u \in T : /\ u \in Spots /\ u.at \in Nat /\ u.at <= last.at
                       /\ Command(bits, reversed, before, beyond, picture, F, t, u)
    BY <1>1, <1>6
  <2>2. AbsoluteAt(bits, picture, F, t, u) /\ (t.y >= Height => beyond)
    BY <1>2, <1>4, <2>1 DEF Command, Draws, EncodedAt, EndOfLineAt, DeltaAt
  <2>3. /\ t.x + k <= Width
        /\ u.at = t.at + 2 + s + (s % 2) /\ u.x = t.x + k /\ u.y = t.y
        /\ bits = 4 => k % 2 = 1
        /\ \A p \in Places :
              p - PlaceOf(t) + 1 \in 1..k
                => picture[p] = AbsolutePixel(bits, F, t.at, p - PlaceOf(t) + 1)
    BY <1>4, <2>2 DEF AbsoluteAt
  <2>4. IsPixelInsideLine(k)
    BY <1>1, <1>3, <1>4, <2>3, Room
  <2>5. s \in Nat
    BY <1>4 DEF SizeOf
  <2> HIDE DEF k, a, s
  <2>6. CASE ~fits
    <3>1. ~(source + 2 + s < Len(bytes))
      BY <2>4, <2>6
    <3>2. ~(ended /\ intact)
      <4> SUFFICES ASSUME ended, intact PROVE FALSE
        OBVIOUS
      <4> DEFINE o == s % 2
      <4>1. u.at = t.at + 2 + s + o /\ o \in Nat
        BY <2>3, <2>5
      <4> HIDE DEF o
      <4>2. /\ Len(bytes) = n /\ n = last.at + 2 /\ n \in Nat /\ last.at \in Nat
            /\ source = t.at /\ t.at \in Nat /\ u.at \in Nat /\ u.at <= last.at
        BY <1>1, <2>1, SpotFields
      <4> QED
        BY <2>5, <3>1, <4>1, <4>2
    <3>3. Answer("false")
      BY <1>2, <2>6
    <3> QED
      BY <1>1, <3>2, <3>3, Refuses DEF ReadTo
  <2>7. CASE fits
    <3>1. Put(a.run, it' = it + Len(a.run) /\ GoOn(2 + a.read) /\ UNCHANGED line_begin)
      BY <1>2, <2>7
    <3>2. /\ DOMAIN a.run = 1..k /\ Len(a.run) = k
          /\ a.read = s + (s % 2)
          /\ \A i \in 1..k : a.run[i] = AbsolutePixel(bits, F, t.at, i)
      <4>1. source \in Nat /\ source + 2 + s < Len(bytes) /\ k > 2
        BY <1>1, <1>2, <2>7 DEF k
      <4>2. /\ a = IF bits = 8 THEN Absolute8(k) ELSE Absolute4(k)
            /\ s = SizeOf(bits, k)
        BY DEF a, s, k
      <4>3. /\ DOMAIN a.run = 1..k /\ Len(a.run) = k
            /\ a.read = SizeOf(bits, k) + (SizeOf(bits, k) % 2)
            /\ \A i \in 1..k : a.run[i] = AbsolutePixel(bits, F, source, i)
        <5>1. Len(bytes) \in Nat
          BY <1>1
        <5>2. HasArrived(F)
          BY <1>1 DEF HasArrived
        <5>3. /\ bits \in {4, 8} /\ k \in Nat /\ k > 2 /\ (bits = 4 => k % 2 = 1)
              /\ source \in Nat /\ source + 2 + SizeOf(bits, k) < Len(bytes)
          BY <1>3, <1>4, <2>3, <4>1, <4>2
        <5> QED
          BY <4>2, <5>1, <5>2, <5>3, AbsoluteTaken
      <4> QED
        BY <1>1, <4>2, <4>3
    <3> DEFINE run == a.run
    <3>3. \A p \in Places : p - PlaceOf(t) + 1 \in 1..k => picture[p] = run[p - PlaceOf(t) + 1]
      BY <2>3, <3>2
    <3>4. Len(run) = k
      BY <3>2
    <3>5. PlaceOf(u) = PlaceOf(t) + k
      <4>1. \A p \in Places : PlaceOf(u) = PlaceOf(t) + k
        BY <1>1, <1>4, <2>1, <2>3, RunEnds
      <4> QED
        BY <4>1, SomePlace
    <3>6. /\ it + k = LineOf(reversed, u.y) + u.x /\ line_begin = LineOf(reversed, u.y)
          /\ source + (2 + a.read) = u.at
      <4>1. LineOf(reversed, t.y) \in Int /\ t.x \in Nat
        BY <1>1, <1>3, SpotFields, LineSteps
      <4>2. (LineOf(reversed, t.y) + t.x) + k = LineOf(reversed, t.y) + (t.x + k)
        BY <1>4, <4>1
      <4>3. source + (2 + (s + (s % 2))) = t.at + 2 + s + (s % 2)
        <5> DEFINE o == s % 2
        <5>1. o \in Nat /\ source \in Nat /\ source = t.at
          BY <1>1, <2>5
        <5> HIDE DEF o
        <5>2. source + (2 + (s + o)) = t.at + 2 + s + o
          BY <2>5, <5>1
        <5> QED
          BY <5>2 DEF o
      <4> QED
        BY <2>3, <3>2, <4>2, <4>3 DEF ReadTo
    <3> HIDE DEF run
    <3>7. PutRun(run, k, u)
      <4>1. Put(run, it' = it + k /\ GoOn(2 + a.read) /\ UNCHANGED line_begin)
        BY <3>1, <3>4 DEF run
      <4> QED
        BY <3>4, <3>6, <4>1 DEF Put, PutRun, GoOn
    <3>8. Leads(t, k, u) /\ HasRun(t, k, run)
      BY <1>4, <2>2, <2>3, <3>3, <3>5 DEF Leads, HasRun
    <3> QED
      BY <1>1, <1>2, <3>7, <3>8, RunReads
  <2> QED
    BY <2>6, <2>7
<1> QED
  BY <1>5, <1>6

LEMMA AtCommand ==
    ASSUME ReadTypes, NEW F, NEW n, NEW T, NEW last, FileOf(F, n, T, last),
           NEW t \in T, ReadTo(t), source + 1 < Len(bytes)
    PROVE  /\ Byte(0) = F[t.at + 1] /\ Byte(1) = F[t.at + 2]
           /\ Byte(0) \in Nat /\ Byte(1) \in Nat
           /\ t = last => EndAt(picture, F, n, last) \/ RunAt(F, n, last)
<1>1. /\ t.at \in Nat /\ source = t.at /\ n \in Nat
      /\ Len(bytes) \in Nat /\ Len(bytes) <= n
      /\ \A i \in 1..Len(bytes) : F[i] = bytes[i] /\ F[i] \in Nat
  BY AtSpot
<1>2. t.at + 1 < Len(bytes)
  BY <1>1
<1>3. t.at + 1 \in 1..Len(bytes) /\ t.at + 2 \in 1..Len(bytes)
  BY <1>1, <1>2
<1>4. Byte(0) = bytes[t.at + 1] /\ Byte(1) = bytes[t.at + 2]
  BY <1>1 DEF Byte
<1>5. t = last => n # last.at
  BY <1>1, <1>2
<1> QED
  BY <1>1, <1>3, <1>4, <1>5 DEF FileOf

LEMMA EndOfLineReads ==
    ASSUME ReadTypes, NEW F, NEW n, NEW T, NEW last, FileOf(F, n, T, last),
           NEW t \in T, ReadTo(t), EndOfLine
    PROVE  ReadSoFar'
<1> DEFINE run == [i \in 1..LeftInLine |-> Black]
           k == IF t.x < Width THEN Width - t.x ELSE 0
<1>1. /\ phase = "read" /\ source + 1 < Len(bytes) /\ Byte(0) = 0 /\ Byte(1) = 0
      /\ Put(run, it' = ToNextRow /\ line_begin' = ToNextRow /\ GoOn(2))
  BY DEF EndOfLine, Reads
<1>2. F[t.at + 1] = 0 /\ F[t.at + 2] = 0
  BY <1>1, AtCommand
<1>3. t # last
  BY <1>1, <1>2, AtCommand DEF EndAt, RunAt, StartsRun
<1>4. PICK u \in T : u \in Spots /\ Command(bits, reversed, before, beyond, picture, F, t, u)
  BY <1>3, AtSpot
<1>5. /\ t \in Spots /\ source = t.at /\ reversed \in BOOLEAN
      /\ it = LineOf(reversed, t.y) + t.x /\ line_begin = LineOf(reversed, t.y)
  BY AtSpot DEF ReadTypes, ReadTo
<1>6. EndOfLineAt(picture, F, t, u) /\ (t.x < Width /\ t.y >= Height => beyond)
  BY <1>2, <1>4 DEF Command, Draws, EncodedAt, AbsoluteAt, DeltaAt
<1>7. /\ u.at = t.at + 2 /\ u.x = 0 /\ u.y = t.y + 1
      /\ \A p \in Between(t, u) : picture[p] = Black
  BY <1>6 DEF EndOfLineAt
<1>8. /\ t.x \in Nat /\ t.y \in Nat /\ Width \in Nat
      /\ PlaceOf(t) \in Nat /\ PlaceOf(u) \in Nat
  BY <1>4, <1>5, SpotFields, PictureSizes
<1>9. /\ k \in Nat
      /\ k > 0 => t.x + k <= Width /\ t.x < Width
      /\ InLine(t.x) + k = Width
  BY <1>8 DEF InLine
<1>10. LeftInLine = Width - t.x /\ 1..LeftInLine = 1..k
  <2> DEFINE l == LineOf(reversed, t.y)
  <2>1. l \in Int
    BY <1>5, <1>8, LineSteps
  <2>2. line_begin = l /\ it = l + t.x
    BY <1>5
  <2>3. k \in Nat /\ k = IF t.x < Width THEN Width - t.x ELSE 0
    BY <1>9
  <2> HIDE DEF l, k, run
  <2>4. LeftInLine = Width - t.x
    BY <1>8, <2>1, <2>2 DEF LeftInLine, LineEnd
  <2>5. ASSUME NEW i \in Int PROVE i \in 1..LeftInLine <=> i \in 1..k
    BY <1>8, <2>3, <2>4
  <2>6. LeftInLine \in Int
    BY <1>8, <2>4
  <2>7. 1..LeftInLine \subseteq Int /\ 1..k \subseteq Int
    BY <2>3, <2>6
  <2> QED
    BY <2>4, <2>5, <2>7
<1>11. Len(run) = k /\ \A i \in 1..k : run[i] = Black
  <2>1. run \in [1..k -> {Black}]
    BY <1>10
  <2> HIDE DEF run, k
  <2> QED
    BY <1>9, <2>1, SeqDef, LenProperties
<1> HIDE DEF run, k
<1>12. PlaceOf(u) = PlaceOf(t) + k
  <2>1. (t.y + 1) * Width = t.y * Width + 1 * Width /\ t.y * Width \in Nat
    BY <1>8
  <2>2. PlaceOf(u) = (t.y + 1) * Width + 0
    <3>1. InLine(0) = 0
      BY PictureSizes DEF InLine
    <3> QED
      BY <1>7, <3>1 DEF PlaceOf
  <2>3. PlaceOf(t) = t.y * Width + InLine(t.x) /\ InLine(t.x) \in Nat
    BY <1>8, InLineIs DEF PlaceOf
  <2> QED
    BY <1>8, <1>9, <2>1, <2>2, <2>3
<1>13. \A p \in Places : p - PlaceOf(t) + 1 \in 1..k => picture[p] = run[p - PlaceOf(t) + 1]
  <2> TAKE p \in Places
  <2>1. p \in Nat
    BY PlacesTyped
  <2> DEFINE a == PlaceOf(t)
             c == PlaceOf(u)
  <2>2. a \in Nat /\ c = a + k
    BY <1>8, <1>12
  <2>3. p \in Between(t, u) <=> a <= p /\ p < c
    BY DEF Between
  <2> HIDE DEF a, c
  <2>4. p - a + 1 \in 1..k => p \in Between(t, u)
    BY <1>9, <2>1, <2>2, <2>3
  <2> QED
    BY <1>7, <1>11, <2>4 DEF a
<1>14. ToNextRow = LineOf(reversed, u.y) /\ ToNextRow = LineOf(reversed, u.y) + u.x
  <2>1. /\ LineOf(reversed, t.y) \in Int
        /\ LineOf(reversed, t.y + 1) = IF reversed THEN LineOf(reversed, t.y) - 1 * Width
                                       ELSE LineOf(reversed, t.y) + 1 * Width
        /\ LineOf(reversed, t.y + 1) \in Int
    BY <1>5, <1>8, LineSteps
  <2>2. ToNextRow = LineOf(reversed, t.y + 1)
    BY <1>5, <1>8, <2>1 DEF ToNextRow
  <2> QED
    BY <1>7, <2>1, <2>2
<1>15. PutRun(run, k, u)
  BY <1>1, <1>5, <1>7, <1>11, <1>14 DEF Put, PutRun, GoOn
<1>16. Leads(t, k, u) /\ HasRun(t, k, run)
  BY <1>6, <1>9, <1>12, <1>13 DEF Leads, HasRun
<1> QED
  BY <1>1, <1>5, <1>15, <1>16, RunReads

LEMMA DeltaReads ==
    ASSUME ReadTypes, NEW F, NEW n, NEW T, NEW last, FileOf(F, n, T, last),
           NEW t \in T, ReadTo(t), Delta
    PROVE  ReadSoFar'
<1>1. /\ phase = "read" /\ source + 1 < Len(bytes) /\ Byte(0) = 0 /\ Byte(1) = 2
      /\ \/ /\ source + 2 + 2 < Len(bytes)
            /\ Skip(Byte(2), Byte(3)) /\ GoOn(4) /\ UNCHANGED pixels
         \/ ~(source + 2 + 2 < Len(bytes)) /\ Answer("false")
  BY DEF Delta, Reads, IsPixelInside
<1>2. F[t.at + 1] = 0 /\ F[t.at + 2] = 2
  BY <1>1, AtCommand
<1>3. t # last
  BY <1>1, <1>2, AtCommand DEF EndAt, RunAt, StartsRun
<1>4. PICK u \in T : /\ u \in Spots /\ u.at \in Nat /\ u.at <= last.at
                     /\ PlaceOf(u) \in Nat /\ PlaceOf(t) <= PlaceOf(u)
                     /\ Command(bits, reversed, before, beyond, picture, F, t, u)
  BY <1>3, AtSpot
<1>5. /\ t \in Spots /\ source = t.at /\ reversed \in BOOLEAN
      /\ it = LineOf(reversed, t.y) + t.x /\ line_begin = LineOf(reversed, t.y)
      /\ Shows(pixels, PlaceOf(t)) /\ PlaceOf(t) \in Nat /\ t.at \in Nat
      /\ t.x \in Nat /\ t.y \in Nat
  BY AtSpot, SpotFields DEF ReadTypes, ReadTo
<1>6. DeltaAt(reversed, before, picture, F, t, u)
  BY <1>2, <1>4 DEF Command, EncodedAt, AbsoluteAt, EndOfLineAt
<1>7. /\ u.at = t.at + 4 /\ u.x = t.x + F[t.at + 3] /\ u.y = t.y + F[t.at + 4]
      /\ reversed => F[t.at + 3] = 0
      /\ \A p \in Between(t, u) : picture[p] = before
  BY <1>6 DEF DeltaAt
<1>8. CASE ~(source + 2 + 2 < Len(bytes))
  <2>1. ~(ended /\ intact)
    <3> SUFFICES ASSUME ended, intact PROVE FALSE
      OBVIOUS
    <3>1. Len(bytes) = n /\ n = last.at + 2 /\ n \in Nat /\ last.at \in Nat
      BY AtSpot
    <3> QED
      BY <1>4, <1>5, <1>7, <1>8, <3>1
  <2> QED
    BY <1>1, <1>5, <1>8, <2>1, Refuses
<1>9. CASE source + 2 + 2 < Len(bytes)
  <2> DEFINE x == F[t.at + 3]
             y == F[t.at + 4]
             l == LineOf(reversed, t.y)
  <2>1. /\ Skip(Byte(2), Byte(3)) /\ pixels' = pixels
        /\ source' = source + 4 /\ UNCHANGED <<written, phase>>
    BY <1>1, <1>9 DEF GoOn
  <2>2. Byte(2) = x /\ Byte(3) = y /\ x \in Nat /\ y \in Nat
    <3>1. /\ Len(bytes) \in Nat
          /\ \A i \in 1..Len(bytes) : F[i] = bytes[i] /\ F[i] \in Nat
      BY AtSpot
    <3>2. t.at + 3 \in 1..Len(bytes) /\ t.at + 4 \in 1..Len(bytes)
      <4>1. t.at \in Nat /\ Len(bytes) \in Nat /\ t.at + 2 + 2 < Len(bytes)
        BY <1>5, <1>9, <3>1
      <4> QED
        BY <4>1
    <3>3. Byte(2) = bytes[t.at + 3] /\ Byte(3) = bytes[t.at + 4]
      BY <1>5 DEF Byte
    <3> QED
      BY <3>1, <3>2, <3>3
  <2>3. /\ l \in Int /\ y * Width \in Int
        /\ LineOf(reversed, t.y + y) = IF reversed THEN l - y * Width ELSE l + y * Width
    <3>1. t.y \in Int /\ y \in Int /\ reversed \in BOOLEAN
      BY <1>5, <2>2
    <3> HIDE DEF y
    <3> QED
      BY <3>1, LineSteps
  <2>4. /\ line_begin' = IF reversed THEN line_begin - y * Width ELSE line_begin + y * Width
        /\ it' = IF reversed THEN it - y * Width - x ELSE it + y * Width + x
    BY <2>1, <2>2 DEF Skip
  <2>5. reversed => x = 0
    BY <1>7
  <2>6. it = l + t.x /\ line_begin = l /\ u.x = t.x + x /\ u.y = t.y + y
    BY <1>5, <1>7
  <2> DEFINE w == y * Width
             v == LineOf(reversed, t.y + y)
  <2> HIDE DEF x, y, l, w, v
  <2>7. line_begin' = v /\ it' = v + (t.x + x)
    <3>1. /\ l \in Int /\ w \in Int /\ x \in Nat /\ t.x \in Nat
          /\ v = IF reversed THEN l - w ELSE l + w
          /\ line_begin' = IF reversed THEN l - w ELSE l + w
          /\ it' = IF reversed THEN (l + t.x) - w - x ELSE (l + t.x) + w + x
          /\ reversed => x = 0
      BY <1>5, <2>2, <2>3, <2>4, <2>5, <2>6 DEF w, v
    <3> QED
      BY <3>1
  <2>8. line_begin' = LineOf(reversed, u.y) /\ it' = LineOf(reversed, u.y) + u.x
    BY <2>6, <2>7 DEF v
  <2>9. Shows(pixels, PlaceOf(u))
    <3> DEFINE a == PlaceOf(t)
               c == PlaceOf(u)
    <3>1. ASSUME NEW p \in Places
          PROVE  (IF Flip(reversed, p) < a THEN picture[Flip(reversed, p)] ELSE before)
                 = IF Flip(reversed, p) < c THEN picture[Flip(reversed, p)] ELSE before
      <4> DEFINE f == Flip(reversed, p)
      <4>1. f \in Places /\ f \in Nat
        BY <1>5, FlipTyped
      <4>2. a <= f /\ f < c => picture[f] = before
        BY <1>7, <4>1 DEF Between
      <4>3. a \in Nat /\ c \in Nat /\ a <= c
        BY <1>4, <1>5
      <4> HIDE DEF f, a, c
      <4>4. (IF f < a THEN picture[f] ELSE before) = IF f < c THEN picture[f] ELSE before
        BY <4>1, <4>2, <4>3
      <4> QED
        BY <4>4 DEF f
    <3> QED
      BY <1>5, <3>1 DEF Shows
  <2>10. Shows(pixels', PlaceOf(u))
    BY <2>1, <2>9
  <2> QED
    BY <1>1, <1>4, <1>5, <1>7, <2>1, <2>8, <2>10, GoesOn
<1> QED
  BY <1>8, <1>9

\* What the end of the bitmap makes black is what has not been read.
LEMMA LeftIsUnread ==
    ASSUME reversed \in BOOLEAN, NEW t \in Spots, ReadTo(t), NEW p \in LeftInImage
    PROVE  p \in Places /\ Flip(reversed, p) >= PlaceOf(t)
<1> DEFINE f == Flip(reversed, p)
           a == PlaceOf(t)
           l == LineOf(reversed, t.y)
           w == t.y * Width
           q == p - l
           g == f - w
           i == InLine(t.x)
           m == Width * Height
<1>1. /\ p \in Places /\ it \in Places
      /\ \/ it <= p /\ p < l + Width
         \/ IF reversed THEN p < l ELSE p >= l + Width
  BY DEF LeftInImage, LineEnd, ReadTo
<1>2. it = l + t.x
  BY DEF ReadTo
<1>3. /\ f \in Nat /\ p \in Nat /\ it \in Nat
      /\ t.x \in Nat /\ t.y \in Nat /\ Width \in Nat /\ Width > 0 /\ Height \in Nat
      /\ i \in Nat /\ i <= Width /\ (t.x <= Width => i = t.x)
  BY <1>1, FlipTyped, PlacesTyped, SpotFields, PictureSizes, InLineIs
<1>4. it < m /\ m \in Nat
  <2>1. m \in Nat
    BY <1>3
  <2> QED
    BY <1>1, <2>1 DEF Places
<1>5. t.y < Height
  <2> SUFFICES ASSUME t.y >= Height PROVE FALSE
    BY <1>3
  <2>1. l \in Int /\ (reversed => l + Width <= 0) /\ (~reversed => l >= m)
    BY <1>3, LineOutside
  <2> HIDE DEF l, m
  <2> QED
    BY <1>1, <1>2, <1>3, <1>4, <2>1
<1>6. t.y \in 0..Height - 1
  BY <1>3, <1>5
<1>7. /\ l \in Nat /\ w \in Nat
      /\ q \in 0..Width - 1 <=> g \in 0..Width - 1
      /\ q \in 0..Width - 1 => q = g
      /\ f >= w + Width <=> IF reversed THEN p < l ELSE p >= l + Width
  BY <1>1, <1>6, FlipLine, PlacesTyped
<1>8. a = w + i
  BY DEF PlaceOf
<1> HIDE DEF f, a, l, w, i
<1>9. CASE it <= p /\ p < l + Width
  <2>1. q \in 0..Width - 1 /\ t.x <= q
    BY <1>2, <1>3, <1>7, <1>9
  <2>2. q = g /\ i <= q
    BY <1>3, <1>7, <2>1
  <2> HIDE DEF q
  <2> QED
    BY <1>1, <1>3, <1>7, <1>8, <2>1, <2>2 DEF f, a
<1>10. CASE IF reversed THEN p < l ELSE p >= l + Width
  <2>1. f >= w + Width
    BY <1>7, <1>10
  <2>2. f >= a
    BY <1>3, <1>7, <1>8, <2>1
  <2> QED
    BY <1>1, <2>2 DEF f, a
<1> QED
  BY <1>1, <1>9, <1>10 DEF l

\* It is all of that, where a file may end.
LEMMA UnreadIsLeft ==
    ASSUME reversed \in BOOLEAN, NEW t \in Spots, ReadTo(t), Fills(reversed, t),
           NEW p \in Places, Flip(reversed, p) >= PlaceOf(t)
    PROVE  p \in LeftInImage
<1> DEFINE f == Flip(reversed, p)
           a == PlaceOf(t)
           l == LineOf(reversed, t.y)
           w == t.y * Width
           q == p - l
           g == f - w
           i == InLine(t.x)
           m == Width * Height
<1>1. it = l + t.x /\ line_begin = l
  BY DEF ReadTo
<1>2. /\ f \in Nat /\ p \in Nat
      /\ t.x \in Nat /\ t.y \in Nat /\ Width \in Nat /\ Width > 0 /\ Height \in Nat /\ Height > 0
      /\ i \in Nat /\ i <= Width /\ (t.x <= Width => i = t.x) /\ (t.x >= Width => i = Width)
  BY FlipTyped, PlacesTyped, SpotFields, PictureSizes, InLineIs
<1>3. m \in Nat /\ f < m /\ p < m /\ Places = 0..(m - 1)
  <2>1. m \in Nat
    BY <1>2
  <2>2. f \in Places
    BY FlipTyped
  <2> QED
    BY <1>2, <2>1, <2>2 DEF Places
<1>4. a = w + i /\ f >= a
  BY DEF PlaceOf
<1>5. t.y < Height
  <2> SUFFICES ASSUME t.y >= Height PROVE FALSE
    BY <1>2
  <2>1. w \in Nat /\ w >= m
    BY <1>2, LineOutside
  <2> HIDE DEF f, a, w, i, m
  <2> QED
    BY <1>2, <1>3, <1>4, <2>1
<1>6. t.y \in 0..Height - 1
  BY <1>2, <1>5
<1>7. /\ l \in Nat /\ w \in Nat
      /\ q \in 0..Width - 1 <=> g \in 0..Width - 1
      /\ q \in 0..Width - 1 => q = g
      /\ f >= w + Width <=> IF reversed THEN p < l ELSE p >= l + Width
  BY <1>6, FlipLine, PlacesTyped
<1>8. l + Width <= m
  BY <1>6, LineInside
<1> DEFINE inside == t.x < Width
<1>9. CASE inside
  <2>1. it \in Places
    <3> HIDE DEF f, a, l, w, i, m
    <3>1. it \in Nat /\ it < m
      BY <1>1, <1>2, <1>3, <1>7, <1>8, <1>9
    <3> QED
      BY <1>3, <3>1
  <2>2. LeftInLine = Width - t.x /\ Width - t.x \in Int
    <3> HIDE DEF l
    <3> QED
      BY <1>1, <1>2, <1>7 DEF LeftInLine, LineEnd
  <2>3. Passed(LeftInLine) = Following(LeftInLine)
    <3> DEFINE n == Width - t.x
    <3>1. n \in Int /\ (n > 0 => t.y < Height /\ t.x + n <= Width)
      BY <1>2, <1>5, <2>2
    <3> HIDE DEF n
    <3>2. Passed(n) = Following(n)
      BY <3>1, PassedWithin
    <3> QED
      BY <2>2, <3>2 DEF n
  <2>4. \/ it <= p /\ p < l + Width
        \/ IF reversed THEN p < l ELSE p >= l + Width
    <3> HIDE DEF f, a, l, w, i
    <3>1. i = t.x
      BY <1>2, <1>9
    <3>2. CASE f >= w + Width
      BY <1>7, <3>2
    <3>3. CASE f < w + Width
      <4>1. g \in 0..Width - 1 /\ t.x <= g
        BY <1>2, <1>4, <1>7, <3>1, <3>3
      <4>2. q = g /\ q \in 0..Width - 1
        BY <1>7, <4>1
      <4>3. t.x <= q
        BY <4>1, <4>2
      <4> HIDE DEF g
      <4> QED
        BY <1>1, <1>2, <1>7, <4>2, <4>3
    <3> QED
      BY <1>2, <1>7, <3>2, <3>3
  <2> QED
    BY <1>1, <2>1, <2>3, <2>4 DEF LeftInImage, LineEnd
<1>10. CASE ~inside
  <2>1. i = Width
    BY <1>2, <1>10
  <2>2. f >= w + Width
    BY <1>4, <2>1
  <2>3. t.y # Height - 1
    <3> SUFFICES ASSUME t.y = Height - 1 PROVE FALSE
      OBVIOUS
    <3>1. w + Width = m
      <4>1. (Height - 1) * Width = Width * Height - Width /\ Width * Height \in Nat
        BY <1>2
      <4>2. w = Width * Height - Width
        BY <4>1
      <4> HIDE DEF w
      <4> QED
        BY <1>2, <4>1, <4>2
    <3> HIDE DEF f, w, m
    <3> QED
      BY <1>2, <1>3, <1>7, <2>2, <3>1
  <2>4. t.x = Width /\ (reversed => t.y > 0)
    <3>1. ~(t.y >= Height - 1)
      BY <1>2, <1>5, <2>3
    <3> QED
      BY <1>10, <3>1 DEF Fills
  <2>5. IF reversed THEN p < l ELSE p >= l + Width
    BY <1>7, <2>2
  <2>6. it = l + Width
    BY <1>1, <2>4
  <2>7. it \in Places
    <3>1. CASE reversed
      <4> DEFINE y == t.y - 1
      <4>1. y \in 0..Height - 1 /\ y \in Int /\ t.y \in Int
        BY <1>2, <1>5, <2>4, <3>1
      <4>2. l = (Height - 1 - t.y) * Width /\ LineOf(reversed, y) = (Height - 1 - y) * Width
        BY <3>1 DEF LineOf
      <4>3. (Height - 1 - y) * Width = (Height - 1 - t.y) * Width + Width
        <5>1. Height - 1 - y = (Height - 1 - t.y) + 1
          BY <1>2
        <5> DEFINE h == Height - 1 - t.y
        <5>2. h \in Int
          BY <1>2
        <5> HIDE DEF h
        <5>3. (h + 1) * Width = h * Width + Width
          BY <1>2, <5>2
        <5> QED
          BY <5>1, <5>3 DEF h
      <4>4. it = LineOf(reversed, y)
        BY <2>6, <4>2, <4>3
      <4> HIDE DEF y
      <4> QED
        BY <4>1, <4>4, FlipLine
    <3>2. CASE ~reversed
      <4>1. p >= l + Width
        BY <2>5, <3>2
      <4> HIDE DEF l, m
      <4>2. it \in Nat /\ it < m
        BY <1>2, <1>3, <1>7, <2>6, <4>1
      <4> QED
        BY <1>3, <4>2
    <3> QED
      BY <3>1, <3>2
  <2>8. Passed(LeftInLine) = Following(LeftInLine)
    <3>1. LeftInLine = 0
      <4> HIDE DEF l
      <4> QED
        BY <1>1, <1>2, <1>7, <2>6 DEF LeftInLine, LineEnd
    <3>2. Passed(0) = Following(0)
      BY PassedWithin
    <3> QED
      BY <3>1, <3>2
  <2> QED
    BY <1>1, <2>5, <2>7, <2>8 DEF LeftInImage, LineEnd
<1> QED
  BY <1>9, <1>10

\* What the end of the bitmap leaves.
LEMMA FilledToTheEnd ==
    ASSUME reversed \in BOOLEAN, NEW t \in Spots, ReadTo(t), Fresh(picture, Black, PlaceOf(t)),
           NEW p \in Places, NEW pixel, pixel = IF p \in LeftInImage THEN Black ELSE pixels[p]
    PROVE  /\ pixel \in {picture[Flip(reversed, p)], before}
           /\ Fills(reversed, t) => pixel = picture[Flip(reversed, p)]
<1> DEFINE f == Flip(reversed, p)
           a == PlaceOf(t)
<1>1. f \in Places /\ f \in Nat /\ a \in Nat
  BY FlipTyped, SpotFields
<1>2. pixels[p] = IF f < a THEN picture[f] ELSE before
  BY DEF ReadTo, Shows
<1>3. f >= a => picture[f] = Black
  BY <1>1 DEF Fresh
<1>4. p \in LeftInImage => f >= a
  BY LeftIsUnread
<1>5. Fills(reversed, t) /\ f >= a => p \in LeftInImage
  BY UnreadIsLeft
<1> HIDE DEF f, a
<1>6. /\ pixel \in {picture[f], before}
      /\ Fills(reversed, t) => pixel = picture[f]
  BY <1>1, <1>2, <1>3, <1>4, <1>5
<1> QED
  BY <1>6 DEF f

LEMMA EndOfBitmapReads ==
    ASSUME ReadTypes, NEW F, NEW n, NEW T, NEW last, FileOf(F, n, T, last),
           NEW t \in T, ReadTo(t), EndOfBitmap
    PROVE  ReadSoFar'
<1>1. /\ phase = "read" /\ source + 1 < Len(bytes) /\ Byte(0) = 0 /\ Byte(1) = 1
      /\ pixels' = [p \in Places |-> IF p \in LeftInImage THEN Black ELSE pixels[p]]
      /\ phase' \in {"true", "false"} /\ (source + 2 = Len(bytes) => phase' = "true")
      /\ UNCHANGED written
  BY DEF EndOfBitmap, Reads
<1>2. F[t.at + 1] = 0 /\ F[t.at + 2] = 1
  BY <1>1, AtCommand
<1>3. t = last
  <2> SUFFICES ASSUME t # last PROVE FALSE
    OBVIOUS
  <2>1. PICK u \in T : Command(bits, reversed, before, beyond, picture, F, t, u)
    BY AtSpot
  <2> QED
    BY <1>2, <2>1 DEF Command, EncodedAt, AbsoluteAt, EndOfLineAt, DeltaAt
<1>4. EndAt(picture, F, n, t)
  BY <1>1, <1>2, <1>3, AtCommand DEF RunAt, StartsRun
<1>5. t \in Spots /\ reversed \in BOOLEAN /\ Fresh(picture, Black, PlaceOf(t))
  BY <1>4, AtSpot DEF ReadTypes, EndAt
<1>6. ended /\ intact => Fills(reversed, t) /\ Len(bytes) = source + 2
  <2>1. ended /\ intact => Fills(reversed, t)
    BY <1>3 DEF FileOf
  <2>2. ended /\ intact => Len(bytes) = source + 2
    BY <1>3, AtSpot
  <2> QED
    BY <2>1, <2>2
<1>7. \A p \in Places : /\ pixels'[p] \in {picture[Flip(reversed, p)], before}
                        /\ Fills(reversed, t) => pixels'[p] = picture[Flip(reversed, p)]
  BY <1>1, <1>5, FilledToTheEnd
<1>8. Answered'
  BY <1>1, <1>6, <1>7 DEF Answered, written
<1> QED
  BY <1>8 DEF ReadSoFar

LEMMA EndOfDataReads ==
    ASSUME ReadTypes, NEW F, NEW n, NEW T, NEW last, FileOf(F, n, T, last),
           NEW t \in T, ReadTo(t), EndOfData
    PROVE  ReadSoFar'
<1>1. /\ source + 1 >= Len(bytes) /\ phase' \in {"true", "false"}
      /\ UNCHANGED <<written, pixels>>
  BY DEF EndOfData, Answer
<1>2. ~(ended /\ intact)
  <2> SUFFICES ASSUME ended, intact PROVE FALSE
    OBVIOUS
  <2>1. /\ Len(bytes) = n /\ n = last.at + 2 /\ n \in Nat /\ last.at \in Nat
        /\ t.at \in Nat /\ t.at <= last.at /\ source = t.at
    BY AtSpot
  <2> QED
    BY <1>1, <2>1
<1>3. \A p \in Places : pixels[p] \in {picture[Flip(reversed, p)], before}
  BY DEF ReadTo, Shows
<1>4. Answered'
  BY <1>1, <1>2, <1>3 DEF Answered, written
<1> QED
  BY <1>4 DEF ReadSoFar

-----------------------------------------------------------------------------
(* The inductive invariant                                                 *)

\* The decoder has not begun.
Untouched == /\ source = 0 /\ line_begin = LineOf(reversed, 0) /\ it = line_begin
             /\ pixels = [p \in Places |-> before]

RleInv == /\ FileTypes
          /\ \/ phase = "write" /\ FileWritten /\ Untouched
             \/ ReadSoFar

LEMMA StartIsASpot ==
    /\ Start \in Spots /\ Start.at = 0 /\ Start.x = 0 /\ Start.y = 0 /\ PlaceOf(Start) = 0
<1>1. Start \in Spots /\ Start.at = 0 /\ Start.x = 0 /\ Start.y = 0
  BY PictureSizes DEF Start, Spots
<1>2. PlaceOf(Start) = 0 * Width + 0
  BY <1>1, PictureSizes DEF PlaceOf, InLine
<1> QED
  BY <1>1, <1>2, PictureSizes

LEMMA RleInvInit ==
    ASSUME RleInit PROVE RleInv
<1>1. /\ bits \in {4, 8} /\ reversed \in BOOLEAN /\ before \in {Black, Stale}
      /\ phase = "write" /\ bytes = <<>> /\ pen = [x |-> 0, y |-> 0]
      /\ ended = FALSE /\ intact = TRUE /\ beyond = FALSE
      /\ picture = [p \in Places |-> before] /\ pixels = [p \in Places |-> before]
      /\ source = 0 /\ it = line_begin
      /\ line_begin = IF reversed THEN (Height - 1) * Width ELSE 0
  BY DEF RleInit
<1>2. pen \in Pens
  BY <1>1, PictureSizes DEF Pens
<1>3. bytes \in Seq(Nat) /\ Len(bytes) = 0
  BY <1>1
<1>4. FileTypes
  BY <1>1, <1>2, <1>3 DEF FileTypes
<1>5. Untouched
  <2>1. LineOf(reversed, 0) = IF reversed THEN (Height - 1 - 0) * Width ELSE 0 * Width
    BY DEF LineOf
  <2>2. Height - 1 - 0 = Height - 1 /\ 0 * Width = 0
    BY PictureSizes
  <2> QED
    BY <1>1, <2>1, <2>2 DEF Untouched
<1>6. Chain(bits, reversed, before, beyond, picture, bytes, {Start}, Start)
  BY StartIsASpot DEF Chain
<1>7. PenAt(Start, 0, pen, FALSE)
  <2>1. pen.x = 0 /\ pen.y = 0
    BY <1>1
  <2> QED
    BY <2>1, StartIsASpot DEF PenAt
<1>8. Fresh(picture, before, PlaceOf(pen))
  BY <1>1 DEF Fresh
<1>9. FileWritten
  <2>1. Start.at <= 0
    BY StartIsASpot
  <2>2. Written(bits, reversed, before, beyond, picture, bytes, 0, pen, FALSE, TRUE)
    BY <1>6, <1>7, <1>8, <2>1 DEF Written
  <2> QED
    BY <1>1, <1>3, <2>2 DEF FileWritten
<1> QED
  BY <1>1, <1>4, <1>5, <1>9 DEF RleInv

LEMMA WritingKeeps ==
    ASSUME ReadsRight, FileTypes, FileWritten, Untouched, Writing
    PROVE  RleInv'
<1>1. FileTypes' /\ FileWritten'
  <2>1. CASE \E n \in EncodedLengths, c, d \in Colours[bits] : WriteEncoded(n, c, d)
    BY <2>1, WriteEncodedKeeps
  <2>2. CASE \E run \in AbsoluteRuns[bits] : WriteAbsolute(run)
    BY <2>2, WriteAbsoluteKeeps
  <2>3. CASE WriteEndOfLine
    BY <2>3, WriteEndOfLineKeeps
  <2>4. CASE WriteEndOfBitmap
    BY <2>4, WriteEndOfBitmapKeeps
  <2>5. CASE \E s \in Skips[reversed] : WriteDelta(s[1], s[2])
    <3>1. PICK s \in Skips[reversed] : WriteDelta(s[1], s[2])
      BY <2>5
    <3>2. reversed \in BOOLEAN
      BY DEF FileTypes
    <3>3. s \in (0..255) \X (0..255) /\ (reversed => s[1] = 0)
      BY <3>2, FilesAreBytes DEF ReadsRight
    <3>4. s[1] \in Nat /\ s[2] \in Nat
      BY <3>3
    <3> QED
      BY <3>1, <3>3, <3>4, WriteDeltaKeeps
  <2> QED
    BY <2>1, <2>2, <2>3, <2>4, <2>5 DEF Writing
<1>2. /\ phase = "write"
      /\ UNCHANGED <<phase, bits, reversed, before, pixels, source, line_begin, it>>
  BY DEF Writing, WriteEncoded, WriteAbsolute, WriteEndOfLine,
         WriteEndOfBitmap, WriteDelta, Write
<1>3. Untouched'
  BY <1>2 DEF Untouched
<1> QED
  BY <1>1, <1>2, <1>3 DEF RleInv

\* The first bytes of a file.
LEMMA Prefix ==
    ASSUME NEW F \in Seq(Nat), NEW n \in DOMAIN F
    PROVE  /\ SubSeq(F, 1, n) \in Seq(Nat) /\ Len(SubSeq(F, 1, n)) = n
           /\ n \in Nat /\ Len(F) \in Nat /\ n <= Len(F)
           /\ SameBytes(SubSeq(F, 1, n), F, n)
<1>1. Len(F) \in Nat /\ n \in 1..Len(F)
  BY LenProperties
<1>2. /\ SubSeq(F, 1, n) \in Seq(Nat)
      /\ Len(SubSeq(F, 1, n)) = IF 1 <= n THEN n - 1 + 1 ELSE 0
      /\ \A i \in 1..n - 1 + 1 : SubSeq(F, 1, n)[i] = F[1 + i - 1]
  BY <1>1, SubSeqProperties
<1> QED
  BY <1>1, <1>2 DEF SameBytes

LEMMA ArriveReads ==
    ASSUME FileTypes, FileWritten, Untouched, NEW k \in DOMAIN bytes, Arrive(k)
    PROVE  RleInv'
<1>1. /\ phase' = "read" /\ bytes' = SubSeq(bytes, 1, k)
      /\ intact' = (intact /\ k = Len(bytes))
      /\ UNCHANGED <<bits, reversed, before, beyond, picture, pen, ended>>
      /\ UNCHANGED <<pixels, source, line_begin, it>>
  BY DEF Arrive
<1>2. /\ bits \in {4, 8} /\ reversed \in BOOLEAN /\ intact \in BOOLEAN /\ ended \in BOOLEAN
      /\ beyond \in BOOLEAN
      /\ bytes \in Seq(Nat)
  BY DEF FileTypes
<1>3. /\ bytes' \in Seq(Nat) /\ Len(bytes') = k
      /\ k \in Nat /\ Len(bytes) \in Nat /\ k <= Len(bytes)
      /\ SameBytes(bytes', bytes, k)
  BY <1>1, <1>2, Prefix
<1>4. FileTypes'
  BY <1>1, <1>2, <1>3 DEF FileTypes
<1>5. PICK F, n : F = bytes /\ n = Len(bytes)
  OBVIOUS
<1>6. HasBytes(F, n)
  BY <1>2, <1>5, ElementOfSeq DEF HasBytes
<1>7. Written(bits, reversed, before, beyond, picture, F, n, pen, ended, intact)
  BY <1>5 DEF FileWritten
<1>8. PICK T, last :
          /\ Chain(bits, reversed, before, beyond, picture, F, T, last)
          /\ last.at <= n
          /\ \/ PenAt(last, n, pen, ended)
             \/ EndAt(picture, F, n, last) /\ Fills(reversed, last)
             \/ ~intact /\ RunAt(F, n, last)
  BY <1>7 DEF Written
<1>9. FileOf(F, n, T, last)'
  <2>1. Chain(bits', reversed', before', beyond', picture', F, T, last)
    BY <1>1, <1>8
  <2>2. /\ n \in Nat /\ Len(bytes') <= n /\ SameBytes(bytes', F, Len(bytes'))
        /\ intact' => Len(bytes') = n
    BY <1>1, <1>3, <1>5
  <2>3. \/ n = last.at
        \/ EndAt(picture', F, n, last)
        \/ RunAt(F, n, last)
    BY <1>1, <1>8 DEF PenAt
  <2>4. ended' /\ intact' => EndAt(picture', F, n, last) /\ Fills(reversed', last)
    BY <1>1, <1>8 DEF PenAt
  <2> QED
    BY <1>6, <1>8, <2>1, <2>2, <2>3, <2>4 DEF FileOf
<1>10. Start \in T
  BY <1>8 DEF Chain
<1>11. ReadTo(Start)'
  <2>1. /\ source' = 0 /\ line_begin' = LineOf(reversed, 0) /\ it' = LineOf(reversed, 0)
        /\ pixels' = [p \in Places |-> before]
    BY <1>1 DEF Untouched
  <2>2. Shows(pixels, 0)'
    <3>1. \A p \in Places : ~(Flip(reversed, p) < 0)
      BY <1>2, FlipTyped
    <3> QED
      BY <1>1, <2>1, <3>1 DEF Shows
  <2>3. LineOf(reversed, 0) + 0 = LineOf(reversed, 0)
    BY <1>2, LineSteps
  <2> QED
    BY <1>1, <2>1, <2>2, <2>3, StartIsASpot DEF ReadTo
<1>12. ReadSoFar'
  BY <1>1, <1>9, <1>10, <1>11 DEF ReadSoFar
<1> QED
  BY <1>4, <1>12 DEF RleInv

LEMMA ReadingKeeps ==
    ASSUME FileTypes, ReadSoFar, Reading
    PROVE  RleInv'
<1>1. phase = "read" /\ UNCHANGED written
  BY DEF Reading, EndOfData, Encoded, Absolute, EndOfLine, EndOfBitmap, Delta,
         Reads, Answer, GoOn, Put
<1>2. PICK F, n, T, last : \E t \in T : FileOf(F, n, T, last) /\ ReadTo(t)
  BY <1>1 DEF ReadSoFar, Answered
<1>3. PICK t \in T : FileOf(F, n, T, last) /\ ReadTo(t)
  BY <1>2
<1>4. ReadTypes
  BY LenProperties DEF ReadTypes, FileTypes
<1>5. ReadSoFar'
  <2>1. CASE EndOfData
    BY <1>3, <1>4, <2>1, EndOfDataReads
  <2>2. CASE Encoded
    BY <1>3, <1>4, <2>2, EncodedReads
  <2>3. CASE Absolute
    BY <1>3, <1>4, <2>3, AbsoluteReads
  <2>4. CASE EndOfLine
    BY <1>3, <1>4, <2>4, EndOfLineReads
  <2>5. CASE EndOfBitmap
    BY <1>3, <1>4, <2>5, EndOfBitmapReads
  <2>6. CASE Delta
    BY <1>3, <1>4, <2>6, DeltaReads
  <2> QED
    BY <2>1, <2>2, <2>3, <2>4, <2>5, <2>6 DEF Reading
<1>6. FileTypes'
  BY <1>1 DEF FileTypes, written
<1> QED
  BY <1>5, <1>6 DEF RleInv

LEMMA RleInvStep ==
    ASSUME ReadsRight, RleInv, [RleNext]_rleVars
    PROVE  RleInv'
<1>1. CASE Writing
  <2>1. phase = "write"
    BY <1>1 DEF Writing, WriteEncoded, WriteAbsolute, WriteEndOfLine,
                WriteEndOfBitmap, WriteDelta, Write
  <2>2. FileTypes /\ FileWritten /\ Untouched
    BY <2>1 DEF RleInv, ReadSoFar, Answered
  <2> QED
    BY <1>1, <2>2, WritingKeeps
<1>2. CASE \E n \in DOMAIN bytes : Arrive(n)
  <2>1. phase = "write"
    BY <1>2 DEF Arrive
  <2>2. FileTypes /\ FileWritten /\ Untouched
    BY <2>1 DEF RleInv, ReadSoFar, Answered
  <2> QED
    BY <1>2, <2>2, ArriveReads
<1>3. CASE Reading
  <2>1. phase = "read"
    BY <1>3 DEF Reading, EndOfData, Encoded, Absolute, EndOfLine, EndOfBitmap, Delta, Reads
  <2>2. FileTypes /\ ReadSoFar
    BY <2>1 DEF RleInv
  <2> QED
    BY <1>3, <2>2, ReadingKeeps
<1>4. CASE UNCHANGED rleVars
  <2>1. FileTypes'
    BY <1>4 DEF RleInv, FileTypes, rleVars, written
  <2>2. CASE phase = "write" /\ FileWritten /\ Untouched
    BY <1>4, <2>1, <2>2 DEF RleInv, FileWritten, Untouched, rleVars, written
  <2>3. CASE ReadSoFar
    <3>1. ReadSoFar'
      BY <1>4, <2>3 DEF ReadSoFar, FileOf, ReadTo, Shows, Answered, rleVars, written
    <3> QED
      BY <2>1, <3>1 DEF RleInv
  <2> QED
    BY <2>2, <2>3 DEF RleInv
<1> QED
  BY <1>1, <1>2, <1>3, <1>4 DEF RleNext

LEMMA RleInvHolds == ASSUME ReadsRight PROVE RleSpec => []RleInv
<1>1. RleInit => RleInv
  BY RleInvInit
<1>2. RleInv /\ [RleNext]_rleVars => RleInv'
  BY RleInvStep
<1> QED
  BY <1>1, <1>2, PTL DEF RleSpec

LEMMA DrawnIs ==
    ASSUME NEW p \in Places
    PROVE  Drawn(p) = picture[Flip(reversed, p)]
  BY DEF Drawn, PlaceInPicture, Flip

(***************************************************************************)
(* RLEBase::load refuses no file that is whole (bmpDecoder.cpp:669-704),   *)
(* whatever the size of its picture, its commands, and how far they go     *)
(* past the last row, if it has none of what the decoders read wrong       *)
(* (ReadsRight).                                                           *)
(***************************************************************************)
THEOREM WholeFilesAreNotRefused == ASSUME ReadsRight PROVE RleSpec => []WholeFilesAreRead
<1>1. RleInv => WholeFilesAreRead
  BY DEF RleInv, ReadSoFar, Answered, WholeFilesAreRead
<1> QED
  BY <1>1, RleInvHolds, PTL

(***************************************************************************)
(* The image that it makes of such a file, in a new image or in a used     *)
(* one, is the picture that was drawn.                                     *)
(***************************************************************************)
THEOREM WholeFilesShowThePicture == ASSUME ReadsRight PROVE RleSpec => []DecodesPicture
<1>1. RleInv => DecodesPicture
  BY DrawnIs DEF RleInv, ReadSoFar, Answered, DecodesPicture
<1> QED
  BY <1>1, RleInvHolds, PTL

(***************************************************************************)
(* Whatever is missing from a file, and wherever a run of it is too long,  *)
(* each pixel of the image is that of the picture or what the image held   *)
(* (isPixelInsideLine refuses the run).                                    *)
(***************************************************************************)
THEOREM CutFilesShowNothingElse == ASSUME ReadsRight PROVE RleSpec => []BadFilesDrawNothingElse
<1>1. ASSUME RleInv, NEW p \in Places PROVE pixels[p] \in {Drawn(p), before}
  <2>1. Drawn(p) = picture[Flip(reversed, p)]
    BY DrawnIs
  <2>2. CASE Untouched
    BY <2>2 DEF Untouched
  <2>3. CASE ReadSoFar
    <3>1. CASE Answered
      BY <2>1, <3>1 DEF Answered
    <3>2. ASSUME NEW k, Shows(pixels, k) PROVE pixels[p] \in {picture[Flip(reversed, p)], before}
      BY <3>2 DEF Shows
    <3> QED
      BY <2>1, <2>3, <3>1, <3>2 DEF ReadSoFar, ReadTo
  <2> QED
    BY <1>1, <2>2, <2>3 DEF RleInv
<1>2. RleInv => BadFilesDrawNothingElse
  BY <1>1 DEF BadFilesDrawNothingElse
<1> QED
  BY <1>2, RleInvHolds, PTL

(***************************************************************************)
(* Of all these files only those that are upside down and draw past the    *)
(* last row lead CheckIterator to pass a pixel that is not in the          *)
(* destination (decoderCommon.h:87-91).                                    *)
(***************************************************************************)
THEOREM OutsideUpsideDownOnly == ASSUME ReadsRight PROVE RleSpec => []OutsideOnlyUpsideDown
<1>1. RleInv => OutsideOnlyUpsideDown
  BY DEF RleInv, ReadSoFar, Answered, OutsideOnlyUpsideDown
<1> QED
  BY <1>1, RleInvHolds, PTL
=============================================================================
