------------------------------ MODULE ByteOps ------------------------------
(***************************************************************************)
(* The parameters of ByteArray and ByteValues, and what an edit makes of   *)
(* the bytes it is given.  An index is the number of bytes before a place, *)
(* as in the code: byte i of s is s[i + 1].                                *)
(***************************************************************************)
EXTENDS Integers, Sequences

CONSTANTS Arrays,    \* the variables of type ByteArray
          Bytes,     \* the bytes of interest; 0 fills what grows
          Texts,     \* the runs of bytes that callers insert and read
          MaxLength, \* bound on the length of an array
          MaxSize    \* the largest SizeType, and npos

ASSUME BytesAssumption == 0 \in Bytes
ASSUME TextsAssumption == Texts \subseteq Seq(Bytes)
ASSUME SizesAssumption == MaxLength \in Nat /\ MaxSize \in Nat /\ MaxLength <= MaxSize

Before(s, i) == SubSeq(s, 1, i)
From(s, i)   == SubSeq(s, i + 1, Len(s))

Inserted(s, i, t)    == Before(s, i) \o t \o From(s, i)
Removed(s, i, n)     == Before(s, i) \o From(s, i + n)
Resized(s, n)        == [i \in 1..n |-> IF i <= Len(s) THEN s[i] ELSE 0]
Overwritten(s, i, t) == [k \in 1..Len(s) |-> IF k - i \in 1..Len(t) THEN t[k - i] ELSE s[k]]
Part(s, i, n)        == SubSeq(s, i + 1, IF i + n < Len(s) THEN i + n ELSE Len(s))

Lengths == 0..MaxLength
Sizes   == 0..MaxSize
=============================================================================
