----------------------------- MODULE ListFilter ------------------------------
(***************************************************************************)
(* Array.prototype.filter, as the retention code uses it on its lists.  It *)
(* is Remove of SequencesExt for several elements, written as a recursive  *)
(* function because SelectSeq means nothing to the provers.                *)
(***************************************************************************)
EXTENDS Naturals, Sequences

(* The elements of list that are not gone, in their order. *)
Without(list, gone) ==
    LET kept[i \in 0..Len(list)] ==
          IF i = 0 THEN << >>
          ELSE IF list[i] \in gone THEN kept[i - 1] ELSE Append(kept[i - 1], list[i])
    IN  kept[Len(list)]
=============================================================================
