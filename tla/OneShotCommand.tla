--------------------------- MODULE OneShotCommand ---------------------------
(***************************************************************************)
(* What a caller of a command runner is promised: one verdict, once; a     *)
(* verdict that blames a cancellation or a time limit is given only when   *)
(* that was asked for before the verdict was due, and a command that       *)
(* completed was asked for nothing.                                        *)
(***************************************************************************)
CONSTANT None

VARIABLES asked,    \* None or the reason termination was first asked for
          due,      \* the process is over: nothing more can be asked
          verdict   \* None until the promise settles

vars == <<asked, due, verdict>>

Reasons == {"cancelled", "timeout"}

Init == asked = None /\ due = FALSE /\ verdict = None

(* The user, or the clock, wants the command to end. *)
Ask == /\ ~due /\ asked = None
       /\ asked' \in Reasons
       /\ UNCHANGED <<due, verdict>>

Ends == /\ ~due /\ due' = TRUE
        /\ UNCHANGED <<asked, verdict>>

Allowed == {"rejected"} \cup (IF asked = None THEN {"completed"} ELSE {asked})

Settle == /\ verdict = None /\ due'
          /\ verdict' \in Allowed
          /\ UNCHANGED asked

Next == Ask \/ Ends \/ Settle

Spec == Init /\ [][Next]_vars
=============================================================================
