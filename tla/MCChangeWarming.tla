--------------------------- MODULE MCChangeWarming ---------------------------
EXTENDS ChangeWarming

CONSTANTS v1, c0, c1, MaxSpent

(* Of the settings only the runtime and the trust differ at the start (the  *)
(* others are on, and change while the system runs), and at most MaxSpent   *)
(* edits, changes of settings and manual comparisons happen in all.         *)
MCInit == Init /\ settings.on /\ settings.preview
MCNext == Next /\ spent'.edits + spent'.settings + spent'.manual <= MaxSpent

(* Only steps of Others spend, so the fairness of the others is untouched.  *)
MCFairSpec == MCInit /\ [][MCNext]_vars /\ Fairness
=============================================================================
