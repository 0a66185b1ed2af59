-------------------------- MODULE MCPreviewRender ---------------------------
(* Two renders of two VIs of one directory: they overlap in every phase, or *)
(* the second follows the first and hits or overflows the cache of one.     *)
EXTENDS PreviewRender, TLC

CONSTANTS r1, r2, main, sub, old, new

Interchangeable == Permutations({r1, r2}) \cup Permutations({main, sub}) \cup Permutations({old, new})
=============================================================================
