------------------------------ MODULE MCImages ------------------------------
\* Images over two variables, one of which keeps its buffer, for a number of
\* calls.
EXTENDS Images

CONSTANT MaxCalls \* bound on all calls, those that load an image among them

VARIABLE calls

\* A page whose bytes all differ; a row is padded with bytes that differ too.
Page(w, h, depth, align) ==
    [width |-> w, height |-> h, depth |-> depth, align |-> align,
     data |-> [k \in 1..h * ScanlineToAlign(w * depth, align) |-> 255 - 7 * k]]

SomePages == {Page(2, 3, 1, 1), Page(3, 2, 3, 1), Page(2, 1, 4, 1),
              Page(3, 2, 1, 2), Page(1, 2, 4, 2)}
SomeRects == {<<1, -1, 2, 3>>, <<-1, 0, 2, 1>>, <<5, 0, 1, 1>>}
SomeSizes == {<<6, 0>>, <<0, 1>>}

MCInit == Init /\ calls = 0
MCNext == calls < MaxCalls /\ calls' = calls + 1 /\ Next
MCSpec == MCInit /\ [][MCNext]_<<vars, calls>>
=============================================================================
