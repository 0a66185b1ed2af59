-------------------------- MODULE MCPreviewWarming --------------------------
(* Two reconciliations and one opened preview: a cycle can be cancelled,    *)
(* a second begun while its render is in flight, and that disposed of.      *)
EXTENDS PreviewWarming

CONSTANTS k1, k2, p1
=============================================================================
