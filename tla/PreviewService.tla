---------------------------- MODULE PreviewService ----------------------------
(***************************************************************************)
(* What the callers of the shared preview session see of it                *)
(* (ViPreviewSessionManager): a desk that serves one render at a time, the *)
(* interactive ones before the background warms and each kind in order of  *)
(* arrival.  It is never idle while somebody waits, answers everyone once, *)
(* and once closed sends away those who wait and those who still come.     *)
(* Containers, their keys and their awaits are not seen from here.         *)
(***************************************************************************)
EXTENDS Naturals, Sequences

CONSTANTS Request,   \* the calls of renderVi
          None       \* nobody

VARIABLES prio,      \* "interactive" or "warm"
          waiting,   \* who waits, in order of arrival
          serving,   \* the request that is served, or None
          answered,  \* whose promise has settled
          closed     \* dispose() was called

vars == <<prio, waiting, serving, answered, closed>>

Init ==
    /\ prio \in [Request -> {"interactive", "warm"}]
    /\ waiting = <<>> /\ serving = None /\ answered = {} /\ closed = FALSE

AllOf(q) == {q[i] : i \in DOMAIN q}

(* In queue q, the entry at i is to be served before the one at j. *)
GoesBefore(q, i, j) ==
    \/ prio[q[i]] = "interactive" /\ prio[q[j]] = "warm"
    \/ prio[q[i]] = prio[q[j]] /\ i < j

(* Of those in q the one that goes before all others is served. *)
TakeNext(q) ==
    \/ q = <<>> /\ serving' = None /\ waiting' = q
    \/ \E i \in DOMAIN q :
          /\ \A j \in DOMAIN q \ {i} : GoesBefore(q, i, j)
          /\ serving' = q[i]
          /\ waiting' = SubSeq(q, 1, i - 1) \o SubSeq(q, i + 1, Len(q))

(* r asks for a render: it waits only for somebody who is served. *)
Ask(r) ==
    /\ r \notin answered \cup AllOf(waiting) /\ r # serving
    /\ IF closed
       THEN answered' = answered \cup {r} /\ UNCHANGED <<waiting, serving>>
       ELSE /\ UNCHANGED answered
            /\ IF serving = None
               THEN TakeNext(Append(waiting, r))
               ELSE waiting' = Append(waiting, r) /\ UNCHANGED serving
    /\ UNCHANGED <<prio, closed>>

(* Whoever is served gets a preview or an error, and the next is served. *)
Answer ==
    /\ serving # None
    /\ answered' = answered \cup {serving}
    /\ TakeNext(waiting)
    /\ UNCHANGED <<prio, closed>>

(* Those who wait are sent away; whoever is served is served to the end. *)
Close ==
    /\ ~closed /\ closed' = TRUE
    /\ answered' = answered \cup AllOf(waiting)
    /\ waiting' = <<>>
    /\ UNCHANGED <<prio, serving>>

Next == (\E r \in Request : Ask(r)) \/ Answer \/ Close

Spec == Init /\ [][Next]_vars
=============================================================================
