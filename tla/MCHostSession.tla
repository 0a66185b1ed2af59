--------------------------- MODULE MCHostSession ----------------------------
(* Three PIDs: the user's LabVIEW, the session's, and one started meanwhile. *)
EXTENDS HostSession

CONSTANTS p1, p2, p3
=============================================================================
