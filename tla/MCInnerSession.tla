--------------------------- MODULE MCInnerSession ---------------------------
(* Instances of InnerSession for TLC.  Only equality of epochs and of data *)
(* channels is ever looked at, so both may be permuted.                    *)
EXTENDS InnerSession, TLC

SessionSymmetry == Permutations(DataChannels) \union Permutations(Epochs)
=============================================================================
