-------------------------- MODULE ChangeWarmingState --------------------------
(***************************************************************************)
(* What the warming of changed VIs in ChangeWarming keeps, and what is     *)
(* promised of its narratives and of the runtimes it starts.               *)
(***************************************************************************)

CONSTANTS Vi,          \* the VIs of the workspace
          Content,     \* what their bytes can be
          MaxEdits,    \* saves and commits
          MaxSettings, \* changes of settings and trust
          MaxManual,   \* comparisons the user asks for
          Unread       \* a value not read yet

VARIABLES head, disk,   \* the VI at HEAD and in the working tree
          settings,     \* docker, warmOnChange, preview.enabled and trust
          decorated,    \* a decoration provider was registered at activation
          disposed,     \* the change warmer is disposed
          events,       \* file events the watcher has not delivered yet
          chain,        \* changes queued behind the running one
          link,         \* the running change
          runs,         \* the warmer's comparison and the user's
          report,       \* what lies at a VI's report path
          recorders,    \* records of narratives under way (not awaited)
          narratives,   \* the narrative cache
          spent,        \* history: edits, changes of settings, manual runs
          touched,      \* history: VIs saved since HEAD last moved under them
          excused       \* history: VIs whose own warm since the last save failed,
                        \* or was kept from, or that the user compared meanwhile

(* The plan of a change that warms nothing (ViChangeWarmPlan). *)
NoPlan == [preview |-> FALSE, compare |-> FALSE]
-----------------------------------------------------------------------------
(* A narrative describes the change it is filed under, if the run it comes *)
(* from succeeded and nobody saved the VI or compared it again before it   *)
(* was filed ("returned only while it still describes the VI's current     *)
(* HEAD-versus-working-tree change").                                      *)
UndisturbedNarrative ==
    \A n \in narratives : n.clean => n.key = <<n.key[1], n.of[1], n.of[2]>>

(* LabVIEW is never started on the host for a change unless the runtime    *)
(* was switched after the change had been planned, and never for one of    *)
(* an untrusted workspace ("Docker-only", "requires workspace trust").     *)
WarmsWithinGates ==
    /\ link.host => link.switched
    /\ runs["warm"].pc # "off" => settings.trusted
=============================================================================
