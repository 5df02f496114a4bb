---------------------------- MODULE MCByteArray ----------------------------
\* ByteArray with three arrays and room for one more cell than they can hold.
EXTENDS ByteArray, TLC

SomeTexts == {<<1>>, <<0, 1>>}
AnyNames == Permutations(Addresses) \union Permutations(Arrays)
=============================================================================
