--------------------------- MODULE MCCommandRunner ---------------------------
(* One command of every provider, engine and time limit, cancelled before,  *)
(* during or after its run, or never; it writes any of three lines.         *)
EXTENDS CommandRunner

MCLines == {"banner", "text", "too-new"}
=============================================================================
