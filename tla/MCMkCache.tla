----------------------------- MODULE MCMkCache -----------------------------
(* Model checking MkCache: buffers are interchangeable, and so are threads. *)
EXTENDS MkCache, TLC

Symmetry == Permutations(Buffers) \cup Permutations(FragmentBuffers)
              \cup Permutations(FragDeflators)
=============================================================================
