------------------------------ MODULE MCBmpRle ------------------------------
(***************************************************************************)
(* Pictures of five by three pixels: room for odd absolute runs with and   *)
(* without a byte of padding, for another run beside them, and for a line  *)
(* between the first and the last. Two deltas of two lines lead past the   *)
(* last one.                                                               *)
(***************************************************************************)
EXTENDS BmpRle, TLC

TwoColours == (4 :> {1, 15}) @@ (8 :> {0, 255})

\* The 4-bit decoder reads the runs of an odd length right.
RunsReadRight == (4 :> {<<1, 15, 15>>, <<15, 1, 1, 15, 1>>})
              @@ (8 :> {<<0, 255, 255>>, <<255, 0, 255, 255>>})

\* Upside down, a delta to the right goes to the left.
DeltasReadRight == (TRUE :> {<<0, 1>>, <<0, 2>>})
                @@ (FALSE :> {<<1, 0>>, <<2, 1>>, <<0, 2>>})

ASSUME FilesCanBeRead == ReadsRight
=============================================================================
