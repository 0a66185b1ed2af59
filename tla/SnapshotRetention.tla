-------------------------- MODULE SnapshotRetention --------------------------
(***************************************************************************)
(* What the working-tree snapshot history of one VI promises: the last N   *)
(* distinct snapshots, newest first, where N is the limit in force when a  *)
(* snapshot is retained and 0 retains nothing.                             *)
(***************************************************************************)
EXTENDS Naturals, Sequences, FiniteSets, SequencesExt

CONSTANTS Pair,      \* working-tree snapshots, by content and base
          Limits     \* values of the retention limit

VARIABLE kept

Init == kept = << >>

(* q is newer than s in a list. *)
Newer(list, q, s) == \E i, j \in DOMAIN list : i < j /\ list[i] = q /\ list[j] = s

(* Snapshot p is retained under limit n: it comes first; of the others the *)
(* newest that fit stay, in their order.                                   *)
Retain(p, n) ==
    LET others == ToSet(kept) \ {p}
        total == 1 + Cardinality(others)
    IN /\ IsInjective(kept')
       /\ Len(kept') = IF n < total THEN n ELSE total
       /\ kept' # << >> => kept'[1] = p
       /\ \A s \in ToSet(kept') \ {p} : \A q \in others :
             Newer(kept', q, s) <=> Newer(kept, q, s)
       /\ ToSet(kept') \subseteq others \cup {p}

Next == \E p \in Pair, n \in Limits : Retain(p, n)

Spec == Init /\ [][Next]_kept
=============================================================================
