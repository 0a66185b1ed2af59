---------------------------- MODULE MCHostLaunch ----------------------------
(* Three launches over two ports and the unknown one. The first takes any   *)
(* code path and port, the second is a preview or a compare on any port, so *)
(* that keys and endpoints coincide, differ and disagree; the third is a    *)
(* preview on the second's port, so that a key can have a holder, a waiter  *)
(* and one that arrives while the first leaves.                             *)
EXTENDS HostLaunch

CONSTANTS l1, l2, l3, p3363, p3364

MCInit ==
    /\ Init
    /\ kind[l2] \in {"preview-host", "lvkit-compare"}
    /\ kind[l3] = "preview-host"
    /\ port[l3] = port[l2]

MCSpec == MCInit /\ [][Next]_vars /\ Fairness
=============================================================================
