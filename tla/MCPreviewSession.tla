-------------------------- MODULE MCPreviewSession --------------------------
(* Three renders of any priority over two runtimes: a reuse, a replacement  *)
(* and a queue of two can all happen, with dispose() at any point.          *)
EXTENDS PreviewSession

CONSTANTS r1, r2, r3, linux, host
=============================================================================
