---------------------------- MODULE MCG301Cipher ----------------------------
(* Instances of G301Cipher for TLC.                                        *)
EXTENDS G301Cipher, TLC

KeySymmetry == Permutations(Keys)
=============================================================================
