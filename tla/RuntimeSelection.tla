-------------------------- MODULE RuntimeSelection --------------------------
(***************************************************************************)
(* From the settings to a running comparison: which LabVIEW, or which      *)
(* container, compares two revisions.  locateComparisonRuntime             *)
(* (comparisonRuntimeLocator.ts) reads the settings, the installations,    *)
(* docker and the LabVIEW that already runs; comparisonReportAction.ts     *)
(* acquires a missing image; the runtime execution looks at the host again *)
(* before the previews of the staged pair, stops the LabVIEWs they leave,  *)
(* launches, and looks once more when the command fails.                   *)
(*                                                                         *)
(* Every await is a step, and between two steps the user may start or quit *)
(* LabVIEW, and start, stop or switch docker.  A path is an installation   *)
(* record or a tool; wording, notes and arguments are left out.            *)
(***************************************************************************)
EXTENDS Integers, FiniteSets, Sequences

CONSTANTS Year,        \* LabVIEW versions
          Supported,   \* those of 2025 and later
          Asks,        \* the settings a selection can be asked with
          Exes,        \* the LabVIEW executables a scan can find
          MaxMoves,    \* how often the surroundings change during one run
          None         \* undefined

Containers == {"windows-container", "linux-container"}
Engines == {"windows", "linux"}
Bits == {"x64", "x86"}
Providers == Containers \cup {"host-native", "unavailable"}

(* Why a selection is unavailable (blockedReason). *)
Reasons ==
    {"installed-provider-invalid", "labview-runtime-selection-required",
     "labview-version-required", "labview-bitness-required",
     "labview-version-unsupported-for-comparison-report",
     "labview-2026q1-unsupported-on-macos", "configured-labview-cli-path-missing",
     "auto-docker-installed-provider-unavailable", "docker-requires-windows-x64",
     "docker-provider-unavailable", "container-image-platform-mismatch",
     "container-image-acquisition-failed", "labview-exe-ambiguous", "labview-exe-not-found",
     "canonical-labview-cli-not-found", "comparison-tool-not-found",
     "windows-host-bitness-conflict", "windows-host-version-conflict",
     "windows-host-runtime-surface-contaminated"}

(* A session is a LabVIEW that runs; a surface is what is seen of the host. *)
Sessions == [year : Year \cup {None}, bits : Bits \cup {None}]
Surfaces == [labview : BOOLEAN, year : Year \cup {None}, bits : Bits \cup {None}, busy : BOOLEAN]

ASSUME YearAssumption == Supported \subseteq Year
ASSUME MovesAssumption == MaxMoves \in Nat
ASSUME ExesAssumption ==
    IsFiniteSet(Exes) /\ \A e \in Exes : e.year \in Year /\ e.bits \in Bits
ASSUME NoneAssumption ==
    /\ None \notin Year /\ None \notin Exes /\ None \notin Sessions /\ None \notin Surfaces
    /\ None \notin Providers \cup Reasons \cup Engines \cup Bits
    /\ None \notin {"unknown", "host", "docker", "not-required", "required", "acquired", "failed"}
ASSUME AsksAssumption ==
    Asks \subseteq [platform : {"win32", "linux", "darwin"},
                    requested : {"host", "docker", None}, invalid : BOOLEAN,
                    mode : {"auto", "host-only", "docker-only"}, strict : BOOLEAN,
                    version : Year \cup {None}, bitness : Bits \cup {None}, allow : BOOLEAN,
                    configured : {"none", "present", "missing"},
                    token : Engines \cup {None}, override : Engines \cup {None}]

VARIABLES ask,        \* the settings
          installed,  \* executables on disk
          tools,      \* comparison tools on disk
          docker,     \* what `docker info` would answer
          images,     \* engine modes whose image is present
          running,    \* the LabVIEW that runs, or None
          other,      \* other LabVIEW activity: CLI, LVCompare, a listener
          pc,         \* how far the run is
          found,      \* executables the scan found
          seenTools,  \* tools the scan found
          facts,      \* the docker probe's answer
          probes,     \* history: docker probes
          exe,        \* labviewExe
          seen,       \* the observed host surface
          sel,        \* the selection
          attached,   \* history: the LabVIEW a launched command talks to
          outcome,    \* how the run ended
          moves,      \* history: changes of the surroundings
          stale,      \* history: one of them came after the first reading
          unseen      \* history: a LabVIEW runs that no look of the run can
                      \* have identified

world == <<installed, tools, docker, images, running, other, moves, stale, unseen>>
local == <<pc, found, seenTools, facts, probes, exe, seen, sel, attached, outcome>>
vars == <<ask, world, local>>

(* Mutant: an executionMode that is set overrules the requested provider. *)
ModeOverProvider(a) ==
    IF a.mode # "auto" THEN a.mode
    ELSE IF a.requested = "host" THEN "host-only"
    ELSE IF a.requested = "docker" THEN "docker-only" ELSE "auto"

Mode(a) ==
    IF a.requested = "host" THEN "host-only"
    ELSE IF a.requested = "docker" THEN "docker-only"
    ELSE a.mode

Bitness(a) == IF a.bitness = None THEN "x64" ELSE a.bitness
Exact(a) == a.platform = "win32" /\ a.strict /\ a.version # None
NeedsProbe(a) == Mode(a) = "docker-only" \/ (a.platform = "win32" /\ Mode(a) = "auto")

(* A decision list: the first rule whose condition holds gives the answer. *)
FirstOf(rules) ==
    LET hit == {i \in DOMAIN rules : rules[i][1]}
    IN  IF hit = {} THEN None ELSE rules[CHOOSE i \in hit : \A j \in hit : i <= j][2]

(* What the settings alone refuse, in the order of the early returns. *)
GateReason(a) ==
    LET needed == a.platform = "win32" /\ a.strict /\ Mode(a) # "docker-only"
    IN  FirstOf(<<
          <<a.invalid, "installed-provider-invalid">>,
          <<needed /\ a.version = None /\ a.bitness = None, "labview-runtime-selection-required">>,
          <<needed /\ a.version = None, "labview-version-required">>,
          <<needed /\ a.bitness = None, "labview-bitness-required">>,
          <<a.version # None /\ a.version \notin Supported,
            "labview-version-unsupported-for-comparison-report">>,
          <<a.platform = "darwin", "labview-2026q1-unsupported-on-macos">>>>)

NoFacts == [cli |-> FALSE, up |-> FALSE, mode |-> None, image |-> FALSE]
Capable(f) == f.mode \in Engines
ContainerOf(m) == IF m = "linux" THEN "linux-container" ELSE "windows-container"

(* buildProviderDecisions: one entry for the container, when docker has to *)
(* do with the request, and one for the host.                              *)
ContainerRelevant(a, f, chosen) ==
    \/ a.platform = "win32" \/ a.invalid \/ chosen \in Containers
    \/ a.platform = "linux" /\ (Mode(a) = "docker-only" \/ f # NoFacts)
Decision(p, chosen) ==
    [provider |-> p, outcome |-> IF p = chosen THEN "selected" ELSE "rejected"]
Decisions(a, f, chosen) ==
    {Decision("host-native", chosen)} \cup
    (IF ContainerRelevant(a, f, chosen)
     THEN {Decision(IF a.invalid /\ a.platform = "linux" THEN "linux-container"
                    ELSE ContainerOf(f.mode), chosen)}
     ELSE {})

NoSelection ==
    [provider |-> None, reason |-> None, decisions |-> {}, exe |-> None, acquisition |-> None]

Unavailable(r) ==
    [provider |-> "unavailable", reason |-> r,
     decisions |-> Decisions(ask, facts, None), exe |-> exe, acquisition |-> None]

(* Mutant: the refused container keeps its decision. *)
KeptDecision(d) == d

(* A selected image version of the other platform (no full override of the *)
(* active platform): the would-be container is refused, decision included. *)
Mismatch(a, f) ==
    /\ a.token \in Engines /\ f.mode \in Engines
    /\ a.override # f.mode
    /\ a.token # f.mode

RefusedDecision(d) == [d EXCEPT !.outcome = "rejected"]

Container ==
    LET chosen == ContainerOf(facts.mode)
        decided == Decisions(ask, facts, chosen)
    IN  IF Mismatch(ask, facts)
        THEN [provider |-> "unavailable", reason |-> "container-image-platform-mismatch",
              decisions |-> {RefusedDecision(d) : d \in decided},
              exe |-> None, acquisition |-> None]
        ELSE [provider |-> chosen, reason |-> None, decisions |-> decided, exe |-> None,
              acquisition |-> IF facts.image THEN "not-required" ELSE "required"]

HostNative ==
    [provider |-> "host-native", reason |-> None,
     decisions |-> Decisions(ask, facts, "host-native"), exe |-> exe, acquisition |-> None]

Init ==
    /\ ask \in Asks
    /\ installed \in SUBSET {e \in Exes : ask.platform = "linux" => e.bits = "x64"}
    /\ tools \in SUBSET {"labview-cli", "lvcompare"}
    /\ docker \in {"absent", "down", "unknown"} \cup Engines
    /\ images \in {{}, Engines}
    /\ running \in {None} \cup {[year |-> e.year, bits |-> e.bits] : e \in installed}
    /\ other \in BOOLEAN
    /\ moves = 0 /\ stale = FALSE /\ unseen = FALSE
    /\ pc = "gate"
    /\ found = {} /\ seenTools = {} /\ facts = NoFacts /\ probes = 0
    /\ exe = None /\ seen = None /\ sel = NoSelection /\ attached = None /\ outcome = None
-----------------------------------------------------------------------------
(* The surroundings.  LabVIEW runs once per machine: it "refuses to start  *)
(* a second instance".  The host is looked at for the last time before the *)
(* previews, or, if the selection admits an existing session, before it is *)
(* made.                                                                   *)
LookedLast == pc \in {"relisten", "cleared", "validated", "quiesced", "launched"}

Move ==
    /\ moves < MaxMoves /\ pc # "done"
    /\ moves' = moves + 1
    /\ stale' = (stale \/ pc # "gate")
    /\ UNCHANGED <<ask, local>>

LabviewStarts ==
    /\ Move
    /\ running = None
    /\ \E e \in installed : running' = [year |-> e.year, bits |-> e.bits]
    /\ unseen' = (ask.allow \/ LookedLast)
    /\ UNCHANGED <<installed, tools, docker, images, other>>

LabviewQuits ==
    /\ Move
    /\ running # None \/ other
    /\ running' = None /\ other' = FALSE /\ unseen' = FALSE
    /\ UNCHANGED <<installed, tools, docker, images>>

DockerChanges ==
    /\ Move
    /\ docker # "absent"
    /\ docker' \in ({"down"} \cup Engines) \ {docker}
    /\ UNCHANGED <<installed, tools, images, running, other, unseen>>
-----------------------------------------------------------------------------
Select(s) == sel' = s /\ pc' = "located"

(* The early returns on the settings. *)
Gate ==
    /\ pc = "gate"
    /\ IF GateReason(ask) # None
       THEN Select(Unavailable(GateReason(ask)))
       ELSE pc' = "scan" /\ UNCHANGED sel
    /\ UNCHANGED <<ask, world, found, seenTools, facts, probes, exe, seen, attached, outcome>>

(* Configured paths, registry and documented locations, each validated on  *)
(* disk; a configured path that is missing ends the selection.             *)
Scan ==
    /\ pc = "scan"
    /\ IF ask.configured = "missing"
       THEN Select(Unavailable("configured-labview-cli-path-missing"))
            /\ UNCHANGED <<found, seenTools>>
       ELSE /\ found' = {e \in installed : ask.version # None => e.year = ask.version}
            /\ seenTools' = tools \cup (IF ask.configured = "present" THEN {"labview-cli"} ELSE {})
            /\ pc' = IF NeedsProbe(ask) THEN "probe" ELSE "host"
            /\ UNCHANGED sel
    /\ UNCHANGED <<ask, world, facts, probes, exe, seen, attached, outcome>>

(* ensureContainerAvailability, `docker info` ... *)
Probe ==
    /\ pc = "probe"
    /\ LET answers == docker \in Engines \cup {"unknown"}
       IN  facts' = [cli |-> docker # "absent", up |-> answers,
                     mode |-> IF answers THEN docker ELSE None, image |-> FALSE]
    /\ probes' = probes + 1
    /\ pc' = IF docker \in Engines THEN "inspect" ELSE "lane"
    /\ UNCHANGED <<ask, world, found, seenTools, exe, seen, sel, attached, outcome>>

(* ... and `docker image inspect` of the image of that engine. *)
Inspect ==
    /\ pc = "inspect"
    /\ facts' = [facts EXCEPT !.image = docker = facts.mode /\ docker \in images]
    /\ pc' = "lane"
    /\ UNCHANGED <<ask, world, found, seenTools, probes, exe, seen, sel, attached, outcome>>

(* With the probe's answer: auto takes docker when it is installed, and    *)
(* docker-only takes nothing else.                                         *)
LaneReason(a, f) ==
    IF Mode(a) = "auto"
    THEN FirstOf(<<<<~Capable(f), "auto-docker-installed-provider-unavailable">>>>)
    ELSE FirstOf(<<<<Bitness(a) = "x86", "docker-requires-windows-x64">>,
                   <<~Capable(f), "docker-provider-unavailable">>>>)

ChooseLane ==
    /\ pc = "lane"
    /\ IF Mode(ask) = "auto" /\ ~facts.cli
       THEN pc' = "host" /\ UNCHANGED sel
       ELSE Select(IF LaneReason(ask, facts) = None
                   THEN Container ELSE Unavailable(LaneReason(ask, facts)))
    /\ UNCHANGED <<ask, world, found, seenTools, facts, probes, exe, seen, attached, outcome>>

(* Mutant: an installation of the version is as good in the other bitness. *)
MatchingAnyBits(b) == found
Matching(b) == {e \in found : e.bits = b}

(* selectPreferredLabviewCandidate: the wanted bitness, else the other.  On *)
(* Windows with version and bitness required, exactly one of the wanted.   *)
Preferred(b) == IF Matching(b) # {} THEN Matching(b) ELSE found

HostReason ==
    IF Exact(ask)
    THEN FirstOf(<<
           <<Cardinality(Matching(Bitness(ask))) > 1, "labview-exe-ambiguous">>,
           <<Matching(Bitness(ask)) = {}, "labview-exe-not-found">>,
           <<"labview-cli" \notin seenTools, "canonical-labview-cli-not-found">>>>)
    ELSE FirstOf(<<<<found = {}, "labview-exe-not-found">>>>)

(* auto on Windows x64 goes to docker wherever the host fails, if the      *)
(* probe, made once, found an engine.                                      *)
FallsBack == ask.platform = "win32" /\ Mode(ask) = "auto" /\ Bitness(ask) = "x64" /\ Capable(facts)
OrContainer(r) == IF FallsBack THEN Container ELSE Unavailable(r)

ResolveHost ==
    /\ pc = "host"
    /\ IF HostReason # None
       THEN /\ Select(IF Exact(ask) THEN Unavailable(HostReason) ELSE OrContainer(HostReason))
            /\ UNCHANGED exe
       ELSE /\ exe' \in (IF Exact(ask) THEN Matching(Bitness(ask)) ELSE Preferred(Bitness(ask)))
            /\ pc' = IF ask.platform = "win32" THEN "observe" ELSE "decide"
            /\ UNCHANGED sel
    /\ UNCHANGED <<ask, world, found, seenTools, facts, probes, seen, attached, outcome>>

(* observeWindowsHostRuntimeSurfaceFacts: the process list and the path of *)
(* the LabVIEW in it, either of which may fail and is then passed over ... *)
Quiet == [labview |-> FALSE, year |-> None, bits |-> None, busy |-> FALSE]
Surface == [Quiet EXCEPT !.labview = running # None, !.busy = running # None \/ other]
Resolved == IF running = None THEN Surface
            ELSE [Surface EXCEPT !.year = running.year, !.bits = running.bits]

Observe ==
    /\ pc = "observe"
    /\ seen' \in {Quiet, Surface, Resolved}
    /\ unseen' = (ask.allow /\ running # None /\ seen' # Resolved)
    /\ pc' = "listen"
    /\ UNCHANGED <<ask, installed, tools, docker, images, running, other, moves, stale, found, seenTools, facts, probes, exe, sel, attached, outcome>>

(* ... then the listeners on the configured VI Server port. *)
Listen ==
    /\ pc = "listen"
    /\ \E hears \in {FALSE, running # None \/ other} :
           seen' = [seen EXCEPT !.busy = @ \/ hears]
    /\ pc' = "decide"
    /\ UNCHANGED <<ask, world, found, seenTools, facts, probes, exe, sel, attached, outcome>>

BitnessConflict(a, s) == s.bits # None /\ s.bits # Bitness(a)

VersionConflict(a, s) ==
    /\ a.strict /\ a.version # None
    /\ s.year # None /\ s.year # a.version

(* Conflicts come before the admission of an existing session. *)
SurfaceReason(a, s) ==
    FirstOf(<<<<BitnessConflict(a, s), "windows-host-bitness-conflict">>,
              <<VersionConflict(a, s), "windows-host-version-conflict">>,
              <<s.busy /\ ~a.allow, "windows-host-runtime-surface-contaminated">>>>)

ToolReason ==
    FirstOf(<<<<"labview-cli" \in seenTools, None>>,
              <<"lvcompare" \in seenTools, "canonical-labview-cli-not-found">>,
              <<TRUE, "comparison-tool-not-found">>>>)

Decide ==
    /\ pc = "decide"
    /\ LET surface == IF seen = None THEN None ELSE SurfaceReason(ask, seen)
       IN  Select(IF surface = "windows-host-runtime-surface-contaminated" THEN OrContainer(surface)
                  ELSE IF surface # None THEN Unavailable(surface)
                  ELSE IF ToolReason = None THEN HostNative
                  ELSE IF seenTools = {} THEN OrContainer(ToolReason)
                  ELSE Unavailable(ToolReason))
    /\ UNCHANGED <<ask, world, found, seenTools, facts, probes, exe, seen, attached, outcome>>
-----------------------------------------------------------------------------
(* comparisonReportAction: a container whose image is missing pulls it,    *)
(* through the daemon's socket or, when that is not reachable, the CLI.    *)
Acquire(pulled) ==
    /\ sel' = [sel EXCEPT !.acquisition = IF pulled THEN "acquired" ELSE "failed",
                          !.reason = IF pulled THEN @ ELSE "container-image-acquisition-failed"]
    /\ images' = IF pulled THEN images \cup {docker} ELSE images
    /\ pc' = "packet"

StreamPull ==
    /\ pc = "located"
    /\ sel.provider \in Containers /\ sel.acquisition = "required"
    /\ \/ \E pulled \in {FALSE, docker = facts.mode} : Acquire(pulled)
       \/ pc' = "pull" /\ UNCHANGED <<sel, images>>
    /\ UNCHANGED <<ask, installed, tools, docker, running, other, moves, stale, unseen,
                   found, seenTools, facts, probes, exe, seen, attached, outcome>>

CliPull ==
    /\ pc = "pull"
    /\ \E pulled \in {FALSE, docker = facts.mode} : Acquire(pulled)
    /\ UNCHANGED <<ask, installed, tools, docker, running, other, moves, stale, unseen,
                   found, seenTools, facts, probes, exe, seen, attached, outcome>>

NothingToAcquire ==
    /\ pc = "located"
    /\ ~(sel.provider \in Containers /\ sel.acquisition = "required")
    /\ pc' = "packet"
    /\ UNCHANGED <<ask, world, found, seenTools, facts, probes, exe, seen, sel, attached, outcome>>

End(o) == outcome' = o /\ pc' = "done"

(* deriveReportStatus and the execution plan: blocked-runtime or ready. *)
BlockedRuntime(s) ==
    s.provider = "unavailable" \/ s.reason = "container-image-acquisition-failed"

Packet ==
    /\ pc = "packet"
    /\ IF BlockedRuntime(sel) THEN End("not-available")
       ELSE pc' = "preflight" /\ UNCHANGED outcome
    /\ UNCHANGED <<ask, world, found, seenTools, facts, probes, exe, seen, sel, attached>>

(* Mutant: the look is for the selections that admit an existing session.  *)
LooksIfAdmitted == ask.platform = "win32" /\ sel.provider = "host-native" /\ ask.allow

(* Before the pass: an ini file that turns the VI Server off blocks it;    *)
(* preflightWindowsHostRuntimeSurface looks at the host again, but not for *)
(* a selection that admits an existing session, and fails with its look:   *)
(* the processes first ...                                                 *)
LooksAgain == ask.platform = "win32" /\ sel.provider = "host-native" /\ ~ask.allow

Preflight ==
    /\ pc = "preflight"
    /\ \/ sel.provider = "host-native" /\ End("vi-server-tcp-disabled")
       \/ LooksAgain /\ (running # None \/ other) /\ End("contaminated")
       \/ LooksAgain /\ End("threw")
       \/ LooksAgain /\ running = None /\ pc' = "relisten" /\ UNCHANGED outcome
       \/ ~LooksAgain /\ pc' = "cleared" /\ UNCHANGED outcome
    /\ UNCHANGED <<ask, world, found, seenTools, facts, probes, exe, seen, sel, attached>>

(* ... then the listeners, if a port is configured.                        *)
ListenAgain ==
    /\ pc = "relisten"
    /\ \/ (running # None \/ other) /\ End("contaminated")
       \/ End("threw")
       \/ pc' = "cleared" /\ UNCHANGED outcome
    /\ UNCHANGED <<ask, world, found, seenTools, facts, probes, exe, seen, sel, attached>>

SelectedLabview == [year |-> sel.exe.year, bits |-> sel.exe.bits]

(* The pass verifies the staged pair and previews it, which may leave the  *)
(* selected LabVIEW running; or rejects it.                                *)
Previews ==
    /\ pc = "cleared"
    /\ \/ End("rejected") /\ UNCHANGED running
       \/ /\ \/ UNCHANGED running
             \/ sel.provider = "host-native" /\ running = None /\ running' = SelectedLabview
          /\ pc' = "validated"
          /\ UNCHANGED outcome
    /\ UNCHANGED <<ask, installed, tools, docker, images, other, moves, stale, unseen,
                   found, seenTools, facts, probes, exe, seen, sel, attached>>

(* The teardown before the comparison: on a Windows host every LabVIEW is  *)
(* terminated, also the one that was admitted, unless the list or the kill *)
(* fails.  Then what an earlier run left is cleared and a baseline taken.  *)
Quiesce ==
    /\ pc = "validated"
    /\ \/ UNCHANGED <<running, unseen>>
       \/ /\ ask.platform = "win32" /\ sel.provider = "host-native"
          /\ running' = None /\ unseen' = FALSE
    /\ pc' = "quiesced"
    /\ UNCHANGED <<ask, installed, tools, docker, images, other, moves, stale,
                   found, seenTools, facts, probes, exe, seen, sel, attached, outcome>>

(* LabVIEWCLI talks to the LabVIEW of its bitness that runs, or starts the *)
(* selected one; it gets neither beside the other bitness.                 *)
Refused == [year |-> None, bits |-> None]
Attach ==
    IF sel.provider \in Containers THEN [year |-> None, bits |-> "x64"]
    ELSE IF running = None THEN SelectedLabview
    ELSE IF running.bits = sel.exe.bits THEN running ELSE Refused

Launch ==
    /\ pc = "quiesced"
    /\ attached' = Attach
    /\ pc' = "launched"
    /\ UNCHANGED <<ask, world, found, seenTools, facts, probes, exe, seen, sel, outcome>>

(* classifyRuntimeFailure with the process list at the exit. *)
ExitReason(ok) ==
    IF ok THEN "succeeded"
    ELSE IF ask.platform = "win32" /\ running # None /\ running.bits # Bitness(ask)
    THEN "labview-host-bitness-conflict"
    ELSE "command-exited-nonzero"

Exit ==
    /\ pc = "launched"
    /\ \E ok \in {FALSE, attached # Refused} : End(ExitReason(ok))
    /\ UNCHANGED <<ask, world, found, seenTools, facts, probes, exe, seen, sel, attached>>

Done == pc = "done" /\ UNCHANGED vars

Run == Gate \/ Scan \/ Probe \/ Inspect \/ ChooseLane \/ ResolveHost \/ Observe \/ Listen
       \/ Decide \/ StreamPull \/ CliPull \/ NothingToAcquire \/ Packet \/ Preflight \/ ListenAgain
       \/ Previews \/ Quiesce \/ Launch \/ Exit
Surroundings == LabviewStarts \/ LabviewQuits \/ DockerChanges
Next == Run \/ Surroundings \/ Done

Spec == Init /\ [][Next]_vars
-----------------------------------------------------------------------------
(* The host was read as it is, and it is still so. *)
ReadRight ==
    /\ ~stale
    /\ seen # None => seen = [Resolved EXCEPT !.busy = running # None \/ other]

TypeOK ==
    /\ ask \in Asks
    /\ installed \subseteq Exes /\ found \subseteq Exes /\ exe \in Exes \cup {None}
    /\ images \subseteq Engines
    /\ probes \in 0..1 /\ moves \in 0..MaxMoves
    /\ sel.provider \in Providers \cup {None} /\ sel.reason \in Reasons \cup {None}
    /\ attached # None => pc \in {"launched", "done"} /\ ~BlockedRuntime(sel)

(* The decisions a selection retains name what it selected and nothing     *)
(* else, whichever of the returns made it, and a selection that is         *)
(* unavailable says why (the doctor and the toasts are built from both).   *)
DecisionsAgree ==
    sel # NoSelection =>
        /\ {d.provider : d \in {e \in sel.decisions : e.outcome = "selected"}}
             = {sel.provider} \ {"unavailable"}
        /\ sel.provider = "unavailable" => sel.reason # None

(* Reference: which lane the settings ask for on this machine, and what    *)
(* there has to be in it.                                                  *)
WantsDocker(a) ==
    Mode(a) = "docker-only" \/ (a.platform = "win32" /\ Mode(a) = "auto" /\ docker # "absent")
ContainerReady(a) ==
    /\ docker \in Engines
    /\ Mode(a) = "docker-only" => Bitness(a) = "x64"
    /\ a.token \in Engines => a.token = docker \/ a.override = docker
HostReady(a) ==
    /\ \E e \in installed : a.version # None => e.year = a.version
    /\ Exact(a) => Cardinality({e \in installed : e.year = a.version /\ e.bits = Bitness(a)}) = 1
    /\ "labview-cli" \in tools \/ a.configured = "present"
    /\ a.platform = "win32" =>
          /\ running # None => /\ running.bits = Bitness(a)
                               /\ a.strict /\ a.version # None => running.year = a.version
          /\ (running # None \/ other) => a.allow

(* When nothing changes under the selection and its observations succeed,  *)
(* it finds what the settings ask for exactly when it is there: no order   *)
(* of its probes, fallbacks and early returns hides a runtime or makes one *)
(* up.                                                                     *)
SelectsWhatIsThere ==
    (sel # NoSelection /\ pc = "located" /\ ReadRight) =>
        LET usable == GateReason(ask) = None /\ ask.configured # "missing"
        IN  /\ sel.provider = "host-native" <=> usable /\ ~WantsDocker(ask) /\ HostReady(ask)
            /\ sel.provider \in Containers <=> usable /\ WantsDocker(ask) /\ ContainerReady(ask)

(* A command launched for one version and bitness talks to that LabVIEW,   *)
(* not to a session of another year and not beside one of another bitness, *)
(* unless a LabVIEW runs that was started after the last look at the       *)
(* processes (the race that classifyRuntimeFailure names), or one that the *)
(* look of a selection that admits an existing session did not identify.   *)
AttachesToTheSelected ==
    [][(attached' # attached /\ sel.provider = "host-native" /\ Exact(ask) /\ ~unseen) =>
          attached' = [year |-> ask.version, bits |-> Bitness(ask)]]_vars

(* What is launched is of the lane and of the platform asked for: no       *)
(* container for a host request, no host for a docker request, no image of *)
(* the other platform than the selected version's, none that was found     *)
(* missing and not acquired.                                               *)
NoSilentSubstitute ==
    attached # None =>
        /\ ask.requested = "host" => sel.provider = "host-native" /\ probes = 0
        /\ ask.requested = "docker" => sel.provider \in Containers
        /\ sel.provider \in Containers =>
              /\ ask.token \in Engines =>
                    \E m \in {ask.token, ask.override} : m \in Engines /\ sel.provider = ContainerOf(m)
              /\ sel.acquisition \in {"not-required", "acquired"}

=============================================================================
