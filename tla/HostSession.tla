---------------------------- MODULE HostSession -----------------------------
(***************************************************************************)
(* The host-native warm session of VI Preview: which LabVIEW.exe processes *)
(* startHostViPreviewSession (src/src/ui/viPreviewContainerSession.ts)     *)
(* considers its own, and which one its dispose() force-kills.             *)
(*                                                                         *)
(* Processes are named by PIDs that Windows may use again.  The session    *)
(* sees them only through listHostLabviewPids, which answers [] when the   *)
(* query fails.  The session manager runs one render at a time.            *)
(***************************************************************************)
EXTENDS Integers, FiniteSets

CONSTANTS Pid,         \* the process ids
          None,        \* undefined
          QueryFails   \* may a PID query fail (and answer [])?

ASSUME PidAssumption == IsFiniteSet(Pid) /\ None \notin Pid /\ QueryFails \in BOOLEAN

VARIABLES owner,               \* who started the LabVIEW with this PID, if one runs
          basePids,            \* the PIDs found at the start of the session
          firstRenderComplete, \* ownership was (or is being) decided
          launchedPid,         \* the PID the session will reclaim
          spc,                 \* where the session is
          dpc,                 \* where its dispose() is
          preexisting,         \* history: running since before the session
          disturbed,           \* history: another party started or ended a LabVIEW
          missed               \* history: ownership was decided without a LabVIEW,
                               \* dispose() did not wait for it or for a render,
                               \* or its kill failed

processVars == <<owner, preexisting, disturbed>>
sessionVars == <<basePids, firstRenderComplete, launchedPid, spc>>
vars == <<owner, preexisting, disturbed, missed, basePids, firstRenderComplete,
          launchedPid, spc, dpc>>

Running == {p \in Pid : owner[p] # "none"}
Launched == {p \in Pid : owner[p] = "cli"}

TypeOK ==
    /\ owner \in [Pid -> {"none", "user", "cli"}]
    /\ basePids \in SUBSET Pid /\ preexisting \in SUBSET Pid
    /\ firstRenderComplete \in BOOLEAN /\ disturbed \in BOOLEAN /\ missed \in BOOLEAN
    /\ launchedPid \in Pid \cup {None}
    /\ spc \in {"none", "baseline", "ready", "staging", "rendering", "deciding"}
    /\ dpc \in {"idle", "querying", "killing", "killed", "nothing"}

Init ==
    /\ owner \in [Pid -> {"none", "user"}]
    /\ basePids = {} /\ preexisting = {}
    /\ firstRenderComplete = FALSE /\ disturbed = FALSE /\ missed = FALSE
    /\ launchedPid = None
    /\ spc = "none" /\ dpc = "idle"

(* listHostLabviewPids: the running PIDs, or none when the query fails. *)
listHostLabviewPids == {Running} \cup (IF QueryFails THEN {{}} ELSE {})

(* Mutant: the LabVIEW found at the start of the session is not looked at. *)
TheOnlyOne(base, post) ==
    IF Cardinality(post) = 1 THEN CHOOSE p \in post : TRUE ELSE None

(* selectLaunchedLabviewPid: one instance appeared where there was none.   *)
selectLaunchedLabviewPid(base, post) ==
    IF base = {} /\ Cardinality(post) = 1 THEN CHOOSE p \in post : TRUE ELSE None

(* startHostViPreviewSession asks for the PIDs that exist already. *)
StartSession ==
    /\ spc = "none"
    /\ spc' = "baseline"
    /\ preexisting' = Running
    /\ UNCHANGED <<owner, disturbed, missed, basePids, firstRenderComplete, launchedPid, dpc>>

BaselineKnown ==
    /\ spc = "baseline"
    /\ basePids' \in listHostLabviewPids
    /\ spc' = "ready"
    /\ UNCHANGED <<processVars, missed, firstRenderComplete, launchedPid, dpc>>

(* Ownership is decided by the first render that completes. *)
DecidesOwnership == ~firstRenderComplete

(* renderVi: the key is looked up and the files are staged, without a      *)
(* LabVIEW.  After dispose() only the render that was about to be the      *)
(* first can still begin.                                                  *)
RenderVi ==
    /\ spc = "ready"
    /\ dpc = "idle" \/ ~firstRenderComplete
    /\ spc' = "staging"
    /\ UNCHANGED <<processVars, missed, basePids, firstRenderComplete, launchedPid, dpc>>

(* The command: LabVIEWCLI reuses the LabVIEW it left resident, otherwise  *)
(* it reuses any or launches one.                                          *)
ExecutePreview ==
    /\ spc = "staging"
    /\ spc' = "rendering"
    /\ \/ Running # {} /\ UNCHANGED owner
       \/ /\ Launched = {}
          /\ \E p \in Pid \ Running : owner' = [owner EXCEPT ![p] = "cli"]
    /\ UNCHANGED <<preexisting, disturbed, missed, basePids, firstRenderComplete,
                   launchedPid, dpc>>

(* The render has a result: of the command, or before it came to one (a    *)
(* cached document, a blocked render, a command that starts no LabVIEW).   *)
(* The first result asks which PIDs exist now.                             *)
RenderEnds ==
    /\ spc \in {"staging", "rendering"}
    /\ firstRenderComplete' = TRUE
    /\ spc' = IF DecidesOwnership THEN "deciding" ELSE "ready"
    /\ UNCHANGED <<processVars, missed, basePids, launchedPid, dpc>>

(* The render throws, before or after its command: the ownership code is   *)
(* not reached.                                                            *)
RenderThrows ==
    /\ spc \in {"staging", "rendering"}
    /\ spc' = "ready"
    /\ UNCHANGED <<processVars, missed, basePids, firstRenderComplete, launchedPid, dpc>>

DecideOwnership ==
    /\ spc = "deciding"
    /\ \E post \in listHostLabviewPids :
          launchedPid' = selectLaunchedLabviewPid(basePids, post)
    /\ missed' = (missed \/ Running = {})
    /\ spc' = "ready"
    /\ UNCHANGED <<processVars, basePids, firstRenderComplete, dpc>>

(* dispose(): nothing to reclaim, or ask whether it still runs.  It waits  *)
(* neither for a render nor for the decision about ownership.              *)
Dispose ==
    /\ spc \notin {"none", "baseline"} /\ dpc = "idle"
    /\ dpc' = IF launchedPid = None THEN "nothing" ELSE "querying"
    /\ missed' = (missed \/ spc # "ready" \/ ~firstRenderComplete)
    /\ UNCHANGED <<processVars, sessionVars>>

DisposeChecks ==
    /\ dpc = "querying"
    /\ \E now \in listHostLabviewPids :
          dpc' = IF launchedPid \in now THEN "killing" ELSE "killed"
    /\ UNCHANGED <<processVars, missed, sessionVars>>

(* Mutant: the kill is skipped. *)
NotKilled == owner

Killed == [owner EXCEPT ![launchedPid] = "none"]

(* Stop-Process -Force on the PID, whatever runs under it by now; that it  *)
(* fails goes unnoticed.                                                   *)
Kill ==
    /\ dpc = "killing"
    /\ \/ /\ owner' = Killed
          /\ preexisting' = preexisting \ {launchedPid}
          /\ UNCHANGED missed
       \/ /\ missed' = TRUE
          /\ UNCHANGED <<owner, preexisting>>
    /\ dpc' = "killed"
    /\ UNCHANGED <<disturbed, sessionVars>>

(* The user starts LabVIEW, under any free PID. *)
UserLaunches ==
    /\ \E p \in Pid \ Running : owner' = [owner EXCEPT ![p] = "user"]
    /\ disturbed' = (disturbed \/ spc # "none")
    /\ UNCHANGED <<preexisting, missed, sessionVars, dpc>>

(* A LabVIEW is closed or crashes. *)
LabviewExits(p) ==
    /\ owner[p] # "none"
    /\ owner' = [owner EXCEPT ![p] = "none"]
    /\ preexisting' = preexisting \ {p}
    /\ disturbed' = (disturbed \/ spc # "none")
    /\ UNCHANGED <<missed, sessionVars, dpc>>

Next ==
    \/ StartSession \/ BaselineKnown
    \/ RenderVi \/ ExecutePreview \/ RenderEnds \/ RenderThrows \/ DecideOwnership
    \/ Dispose \/ DisposeChecks \/ Kill
    \/ UserLaunches \/ \E p \in Pid : LabviewExits(p)

Spec == Init /\ [][Next]_vars
-----------------------------------------------------------------------------
(* "a pre-existing user LabVIEW is never touched": what runs since before  *)
(* the session is not what dispose() is about to kill.                     *)
PreexistingSpared == dpc = "killing" => launchedPid \notin preexisting

(* Nobody else starting or closing LabVIEW, the process dispose() kills is *)
(* the one LabVIEWCLI launched for this session.                           *)
KillsOwnLabview ==
    (dpc = "killing" /\ ~disturbed) => owner[launchedPid] = "cli"

(* ... and once dispose() is over none that LabVIEWCLI launched stays,     *)
(* however the session's renders failed, reused it or were served from the *)
(* cache.  Excused are the sessions the code lets go of: a LabVIEW ran at  *)
(* the start, others started one, one was closed or crashed, the first     *)
(* result came without a LabVIEW (a later one is never owned), dispose()   *)
(* came during a render or before the ownership was decided, or its kill   *)
(* failed.                                                                 *)
ReclaimsOwnLabview ==
    (dpc \in {"killed", "nothing"} /\ basePids = {} /\ ~disturbed /\ ~missed) => Launched = {}
=============================================================================
