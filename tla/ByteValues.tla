----------------------------- MODULE ByteValues -----------------------------
(***************************************************************************)
(* What tools::ByteArray promises: every array is a value of its own.  A   *)
(* copy takes the bytes its source has at that time, and an edit of one    *)
(* array changes no other.  ByteArray.tla, where arrays share buffers,     *)
(* implements this.                                                        *)
(***************************************************************************)
EXTENDS ByteOps

VARIABLE value

Becomes(a, s) == value' = [value EXCEPT ![a] = s]

Init == value = [a \in Arrays |-> <<>>]

Assign(a, b) == Becomes(a, value[b])

CopyPart(a, b, i, n) == Becomes(a, Part(value[b], i, n))

Reset(a, t) == Becomes(a, t)

Insert(a, i, t) == i <= Len(value[a]) /\ Becomes(a, Inserted(value[a], i, t))

Remove(a, i, n) == i <= Len(value[a]) /\ Becomes(a, Removed(value[a], i, n))

Resize(a, n) == Becomes(a, Resized(value[a], n))

SetChar(a, i, c) == i < Len(value[a]) /\ Becomes(a, [value[a] EXCEPT ![i + 1] = c])

Replace(a, i, t) == Becomes(a, Overwritten(value[a], i, t))

Join(a, i, b) == i \in {0, Len(value[a])} /\ Becomes(a, Inserted(value[a], i, value[b]))

Next ==
    \E a \in Arrays :
        \/ \E b \in Arrays : Assign(a, b)
        \/ \E b \in Arrays, i \in Lengths, n \in Sizes : CopyPart(a, b, i, n)
        \/ \E t \in Texts : Reset(a, t)
        \/ Reset(a, <<>>)
        \/ \E i \in Lengths, t \in Texts : Insert(a, i, t)
        \/ \E i \in Lengths, n \in Sizes : Remove(a, i, n)
        \/ \E n \in Lengths : Resize(a, n)
        \/ \E i \in Lengths, c \in Bytes : SetChar(a, i, c)
        \/ \E i \in Lengths, t \in Texts : Replace(a, i, t)
        \/ \E i \in Lengths, b \in Arrays : Join(a, i, b)

Spec == Init /\ [][Next]_value
=============================================================================
