---------------------------- MODULE MCMkOutput ----------------------------
(* Small instances of MkOutput for TLC.                                    *)
EXTENDS MkOutput, TLC

Symmetry == Permutations(FragDeflators)
=============================================================================
