-------------------------- MODULE SelectionProofs ---------------------------
(***************************************************************************)
(* Proofs about RuntimeSelection: whatever the settings, the machine and   *)
(* the moves of the user, the retained decisions agree with the selection, *)
(* the selection finds what is there, nothing is launched in its place,    *)
(* and the command talks to the LabVIEW that was selected, unless one runs *)
(* that no look of the run can have identified.                            *)
(***************************************************************************)
EXTENDS RuntimeSelection, ChangeWarmingState, FiniteSetTheorems, TLAPS

(* What the settings hold. *)
LEMMA AsksHold ==
  ASSUME NEW a \in Asks
  PROVE  /\ a.platform \in {"win32", "linux", "darwin"} /\ a.requested \in {"host", "docker", None}
         /\ a.invalid \in BOOLEAN /\ a.mode \in {"auto", "host-only", "docker-only"}
         /\ a.strict \in BOOLEAN /\ a.version \in Year \cup {None} /\ a.bitness \in Bits \cup {None}
         /\ a.allow \in BOOLEAN /\ a.configured \in {"none", "present", "missing"}
         /\ a.token \in Engines \cup {None} /\ a.override \in Engines \cup {None}
         /\ Mode(a) \in {"auto", "host-only", "docker-only"} /\ Bitness(a) \in Bits
<1>1. a \in [platform : {"win32", "linux", "darwin"},
             requested : {"host", "docker", None}, invalid : BOOLEAN,
             mode : {"auto", "host-only", "docker-only"}, strict : BOOLEAN,
             version : Year \cup {None}, bitness : Bits \cup {None}, allow : BOOLEAN,
             configured : {"none", "present", "missing"},
             token : Engines \cup {None}, override : Engines \cup {None}]
  BY AsksAssumption
<1> QED BY <1>1 DEF Mode, Bitness, Bits

(* The gate gives a reason, and lets no invalid provider pass. *)
LEMMA GateAnswers ==
  ASSUME NEW a \in Asks
  PROVE  GateReason(a) \in Reasons \cup {None} /\ (GateReason(a) = None => ~a.invalid)
<1> DEFINE needed == a.platform = "win32" /\ a.strict /\ Mode(a) # "docker-only"
           p == a.invalid
           b == needed /\ a.version = None /\ a.bitness = None
           c == needed /\ a.version = None
           d == needed /\ a.bitness = None
           e == a.version # None /\ a.version \notin Supported
           f == a.platform = "darwin"
           x == "installed-provider-invalid"
           y == "labview-runtime-selection-required"
           z == "labview-version-required"
           u == "labview-bitness-required"
           v == "labview-version-unsupported-for-comparison-report"
           w == "labview-2026q1-unsupported-on-macos"
<1>1. p \in BOOLEAN
  BY AsksHold
<1>2. b \in BOOLEAN /\ c \in BOOLEAN /\ d \in BOOLEAN /\ e \in BOOLEAN /\ f \in BOOLEAN
  OBVIOUS
<1>3. GateReason(a) = FirstOf(<<<<p, x>>, <<b, y>>, <<c, z>>, <<d, u>>, <<e, v>>, <<f, w>>>>)
  BY DEF GateReason
<1>4. FirstOf(<<<<p, x>>, <<b, y>>, <<c, z>>, <<d, u>>, <<e, v>>, <<f, w>>>>)
        = IF p THEN x ELSE IF b THEN y ELSE IF c THEN z
          ELSE IF d THEN u ELSE IF e THEN v ELSE IF f THEN w ELSE None
  <2> HIDE DEF p, b, c, d, e, f, x, y, z, u, v, w
  <2> QED BY <1>1, <1>2 DEF FirstOf
<1>5. {x, y, z, u, v, w} \subseteq Reasons
  BY DEF Reasons
<1> HIDE DEF b, c, d, e, f, x, y, z, u, v, w
<1> QED BY <1>3, <1>4, <1>5, NoneAssumption

(* The answers of the other decision lists, as the early returns they are. *)
LEMMA SurfaceAnswers ==
  ASSUME NEW a \in Asks, NEW s \in Surfaces
  PROVE  SurfaceReason(a, s) =
           IF BitnessConflict(a, s) THEN "windows-host-bitness-conflict"
           ELSE IF VersionConflict(a, s) THEN "windows-host-version-conflict"
           ELSE IF s.busy /\ ~a.allow THEN "windows-host-runtime-surface-contaminated" ELSE None
<1> DEFINE p == BitnessConflict(a, s)
           b == VersionConflict(a, s)
           c == s.busy /\ ~a.allow
           x == "windows-host-bitness-conflict"
           y == "windows-host-version-conflict"
           z == "windows-host-runtime-surface-contaminated"
<1>1. p \in BOOLEAN /\ b \in BOOLEAN /\ c \in BOOLEAN
  BY AsksHold DEF BitnessConflict, VersionConflict
<1>2. SurfaceReason(a, s) = FirstOf(<<<<p, x>>, <<b, y>>, <<c, z>>>>)
  BY DEF SurfaceReason
<1>3. FirstOf(<<<<p, x>>, <<b, y>>, <<c, z>>>>) = IF p THEN x ELSE IF b THEN y ELSE IF c THEN z ELSE None
  <2> HIDE DEF p, b, c, x, y, z
  <2> QED BY <1>1 DEF FirstOf
<1> QED BY <1>2, <1>3

LEMMA ToolAnswers ==
  ToolReason = IF "labview-cli" \in seenTools THEN None
               ELSE IF "lvcompare" \in seenTools THEN "canonical-labview-cli-not-found"
               ELSE "comparison-tool-not-found"
<1> DEFINE p == "labview-cli" \in seenTools
           b == "lvcompare" \in seenTools
           c == TRUE
           x == None
           y == "canonical-labview-cli-not-found"
           z == "comparison-tool-not-found"
<1>1. p \in BOOLEAN /\ b \in BOOLEAN /\ c \in BOOLEAN
  OBVIOUS
<1>2. ToolReason = FirstOf(<<<<p, x>>, <<b, y>>, <<c, z>>>>)
  BY DEF ToolReason
<1>3. FirstOf(<<<<p, x>>, <<b, y>>, <<c, z>>>>) = IF p THEN x ELSE IF b THEN y ELSE IF c THEN z ELSE None
  <2> HIDE DEF p, b, c, x, y, z
  <2> QED BY <1>1 DEF FirstOf
<1> QED BY <1>2, <1>3

LEMMA HostAnswers ==
  HostReason =
    IF Exact(ask)
    THEN IF Cardinality(Matching(Bitness(ask))) > 1 THEN "labview-exe-ambiguous"
         ELSE IF Matching(Bitness(ask)) = {} THEN "labview-exe-not-found"
         ELSE IF "labview-cli" \notin seenTools THEN "canonical-labview-cli-not-found" ELSE None
    ELSE IF found = {} THEN "labview-exe-not-found" ELSE None
<1> DEFINE p == Cardinality(Matching(Bitness(ask))) > 1
           b == Matching(Bitness(ask)) = {}
           c == "labview-cli" \notin seenTools
           d == found = {}
           x == "labview-exe-ambiguous"
           y == "labview-exe-not-found"
           z == "canonical-labview-cli-not-found"
<1>1. p \in BOOLEAN /\ b \in BOOLEAN /\ c \in BOOLEAN /\ d \in BOOLEAN
  OBVIOUS
<1>2. HostReason = IF Exact(ask) THEN FirstOf(<<<<p, x>>, <<b, y>>, <<c, z>>>>) ELSE FirstOf(<<<<d, y>>>>)
  BY DEF HostReason
<1>3. /\ FirstOf(<<<<p, x>>, <<b, y>>, <<c, z>>>>) = IF p THEN x ELSE IF b THEN y ELSE IF c THEN z ELSE None
      /\ FirstOf(<<<<d, y>>>>) = IF d THEN y ELSE None
  <2> HIDE DEF p, b, c, d, x, y, z
  <2> QED BY <1>1 DEF FirstOf
<1> QED BY <1>2, <1>3

LEMMA LaneAnswers ==
  ASSUME NEW a \in Asks, NEW f
  PROVE  LaneReason(a, f) =
           IF Mode(a) = "auto"
           THEN IF ~Capable(f) THEN "auto-docker-installed-provider-unavailable" ELSE None
           ELSE IF Bitness(a) = "x86" THEN "docker-requires-windows-x64"
                ELSE IF ~Capable(f) THEN "docker-provider-unavailable" ELSE None
<1> DEFINE p == ~Capable(f)
           b == Bitness(a) = "x86"
           x == "auto-docker-installed-provider-unavailable"
           y == "docker-requires-windows-x64"
           z == "docker-provider-unavailable"
<1>1. p \in BOOLEAN /\ b \in BOOLEAN
  BY DEF Capable
<1>2. LaneReason(a, f) = IF Mode(a) = "auto" THEN FirstOf(<<<<p, x>>>>) ELSE FirstOf(<<<<b, y>>, <<p, z>>>>)
  BY DEF LaneReason
<1>3. /\ FirstOf(<<<<p, x>>>>) = IF p THEN x ELSE None
      /\ FirstOf(<<<<b, y>>, <<p, z>>>>) = IF b THEN y ELSE IF p THEN z ELSE None
  <2> HIDE DEF p, b, x, y, z
  <2> QED BY <1>1 DEF FirstOf
<1> QED BY <1>2, <1>3
-----------------------------------------------------------------------------
Early == {"gate", "scan", "probe", "inspect", "lane"}
HostLane == {"host", "observe", "listen", "decide"}
Waiting == Early \cup HostLane
Passing == {"preflight", "relisten", "cleared", "validated", "quiesced", "launched"}
Chosen == {"located", "pull", "packet", "done"} \cup Passing

Fitting == {e \in installed : ask.version # None => e.year = ask.version}
AllTools == {"labview-cli", "lvcompare"}
ToolsThere == tools \cup (IF ask.configured = "present" THEN {"labview-cli"} ELSE {})

Selections ==
    [provider : Providers \cup {None}, reason : Reasons \cup {None},
     decisions : SUBSET [provider : Providers, outcome : {"selected", "rejected"}],
     exe : Exes \cup {None}, acquisition : {"not-required", "required", "acquired", "failed", None}]

(* What the variables hold. *)
Types ==
    /\ ask \in Asks /\ pc \in Waiting \cup Chosen
    /\ installed \subseteq Exes /\ found \subseteq Exes
    /\ tools \subseteq AllTools /\ seenTools \subseteq AllTools
    /\ docker \in {"absent", "down", "unknown"} \cup Engines
    /\ running \in [year : Year, bits : Bits] \cup {None}
    /\ other \in BOOLEAN /\ stale \in BOOLEAN /\ unseen \in BOOLEAN
    /\ facts \in [cli : BOOLEAN, up : BOOLEAN, mode : Engines \cup {"unknown", None}, image : BOOLEAN]
    /\ exe \in Exes \cup {None} /\ seen \in Surfaces \cup {None}
    /\ sel \in Selections /\ probes \in 0..1
    /\ images \subseteq Engines /\ moves \in 0..MaxMoves

(* How far the run is. *)
Stages ==
    /\ pc \in Waiting <=> sel = NoSelection
    /\ pc \notin {"launched", "done"} => attached = None
    /\ pc \in Waiting \ {"gate"} => GateReason(ask) = None
    /\ pc \in Waiting \ {"gate", "scan"} =>
          ask.configured # "missing" /\ found = Fitting /\ seenTools = ToolsThere
    /\ pc \in Waiting \ {"listen", "decide"} => seen = None

(* What the probe of docker answered, and when it is asked. *)
Probing ==
    /\ pc \in {"gate", "scan", "probe"} => facts = NoFacts /\ probes = 0
    /\ pc \in {"probe", "inspect", "lane"} \/ probes # 0 => NeedsProbe(ask)
    /\ ~facts.cli => facts.mode = None
    /\ (pc \in {"inspect", "lane"} /\ ~stale) =>
          /\ facts.cli <=> docker # "absent"
          /\ docker \in Engines \/ facts.mode \in Engines => facts.mode = docker
    /\ pc \in HostLane =>
          /\ facts.mode = None
          /\ NeedsProbe(ask) => Mode(ask) = "auto" /\ (~stale => docker = "absent")

(* What the host lane has settled before it decides. *)
HostChosen ==
    /\ pc \in {"observe", "listen", "decide"} =>
          HostReason = None /\ exe \in found /\ (Exact(ask) => exe.bits = Bitness(ask))
    /\ pc \in {"observe", "listen"} => ask.platform = "win32"
    /\ pc = "listen" => seen # None
    /\ pc = "decide" => (seen = None <=> ask.platform # "win32")

(* What a selection of the host, or of a container, rests on. *)
HostRests(s) ==
    s.provider = "host-native" =>
        /\ Mode(ask) # "docker-only" /\ s.exe \in Exes
        /\ Exact(ask) => s.exe.year = ask.version /\ s.exe.bits = Bitness(ask)
        /\ ask.platform = "win32" => seen # None /\ SurfaceReason(ask, seen) = None
ContainerRests(s) ==
    s.provider \in Containers =>
        /\ NeedsProbe(ask) /\ facts.mode \in Engines
        /\ s.provider = ContainerOf(facts.mode) /\ ~Mismatch(ask, facts)
        /\ s.acquisition # None

(* DecisionsAgree, of any selection. *)
Agreed(s) ==
    /\ {d.provider : d \in {e \in s.decisions : e.outcome = "selected"}} = {s.provider} \ {"unavailable"}
    /\ s.provider = "unavailable" => s.reason # None

Rests ==
    /\ sel # NoSelection => sel.provider # None /\ Agreed(sel)
    /\ HostRests(sel) /\ ContainerRests(sel)
    /\ sel.provider \in Containers =>
          /\ sel.acquisition = "failed" => sel.reason = "container-image-acquisition-failed"
          /\ pc \in {"located", "pull"} \/ sel.acquisition \in {"not-required", "acquired", "failed"}
    /\ pc = "pull" => sel.provider \in Containers
    /\ pc \in Passing \/ attached # None => ~BlockedRuntime(sel)

SelInv == Types /\ Stages /\ Probing /\ HostChosen /\ Rests
-----------------------------------------------------------------------------
(* The decisions, one by one. *)
LEMMA DecisionsHold ==
  ASSUME NEW a \in Asks, NEW f, NEW chosen
  PROVE  /\ Decisions(a, f, chosen) \in SUBSET [provider : Providers, outcome : {"selected", "rejected"}]
         /\ \A d \in Decisions(a, f, chosen) : d.outcome = "selected" <=> d.provider = chosen
BY DEF Decisions, Decision, ContainerRelevant, ContainerOf, Providers, Containers

LEMMA HostDecided ==
  ASSUME NEW a, NEW f
  PROVE  [provider |-> "host-native", outcome |-> "selected"] \in Decisions(a, f, "host-native")
BY DEF Decisions, Decision

LEMMA ContainerDecided ==
  ASSUME NEW a, NEW f, ~a.invalid
  PROVE  [provider |-> ContainerOf(f.mode), outcome |-> "selected"] \in Decisions(a, f, ContainerOf(f.mode))
BY DEF Decisions, Decision, ContainerRelevant, ContainerOf, Containers

(* What each way to end a selection gives. *)
LEMMA UnavailableIs ==
  ASSUME Types, NEW r \in Reasons
  PROVE  /\ Unavailable(r) \in Selections /\ Unavailable(r) # NoSelection
         /\ Unavailable(r).provider = "unavailable" /\ Agreed(Unavailable(r))
<1> DEFINE ds == Decisions(ask, facts, None)
<1>1. ds \in SUBSET [provider : Providers, outcome : {"selected", "rejected"}]
      /\ \A d \in ds : d.outcome # "selected"
  <2>1. /\ ds \in SUBSET [provider : Providers, outcome : {"selected", "rejected"}]
        /\ \A d \in ds : d.outcome = "selected" <=> d.provider = None
    <3>1. ask \in Asks
      BY DEF Types
    <3> HIDE DEF ds
    <3>2. ds = Decisions(ask, facts, None)
      BY DEF ds
    <3> QED BY ZenonT(60), <3>1, <3>2, DecisionsHold
  <2>2. \A d \in ds : d.provider \in Providers
    BY <2>1
  <2> QED BY <2>1, <2>2, NoneAssumption
<1> HIDE DEF ds
<1>2. Unavailable(r) = [provider |-> "unavailable", reason |-> r, decisions |-> ds, exe |-> exe,
                        acquisition |-> None]
  BY DEF Unavailable, ds
<1> QED BY <1>1, <1>2, NoneAssumption DEF Types, Selections, NoSelection, Agreed, Providers

LEMMA HostNativeIs ==
  ASSUME Types
  PROVE  /\ HostNative \in Selections /\ HostNative # NoSelection
         /\ HostNative.provider = "host-native" /\ HostNative.exe = exe /\ Agreed(HostNative)
         /\ HostNative.reason = None
<1> DEFINE ds == Decisions(ask, facts, "host-native")
<1>1. /\ ds \in SUBSET [provider : Providers, outcome : {"selected", "rejected"}]
      /\ \A d \in ds : d.outcome = "selected" <=> d.provider = "host-native"
      /\ [provider |-> "host-native", outcome |-> "selected"] \in ds
  <2>1. ask \in Asks
    BY DEF Types
  <2> HIDE DEF ds
  <2>2. ds = Decisions(ask, facts, "host-native")
    BY DEF ds
  <2>3. /\ ds \in SUBSET [provider : Providers, outcome : {"selected", "rejected"}]
        /\ \A d \in ds : d.outcome = "selected" <=> d.provider = "host-native"
    BY ZenonT(60), <2>1, <2>2, DecisionsHold
  <2>4. [provider |-> "host-native", outcome |-> "selected"] \in ds
    BY ZenonT(60), <2>2, HostDecided
  <2> QED BY <2>3, <2>4
<1> HIDE DEF ds
<1>2. HostNative = [provider |-> "host-native", reason |-> None, decisions |-> ds, exe |-> exe,
                    acquisition |-> None]
  BY DEF HostNative, ds
<1>3. {d.provider : d \in {e \in ds : e.outcome = "selected"}} = {"host-native"}
  BY <1>1
<1> QED BY <1>1, <1>2, <1>3, NoneAssumption DEF Types, Selections, NoSelection, Agreed, Providers

LEMMA ContainerIs ==
  ASSUME Types, ~ask.invalid, facts.mode \in Engines
  PROVE  /\ Container \in Selections /\ Container # NoSelection /\ Agreed(Container)
         /\ Mismatch(ask, facts) => Container.provider = "unavailable"
         /\ ~Mismatch(ask, facts) =>
               /\ Container.provider = ContainerOf(facts.mode) /\ Container.provider \in Containers
               /\ Container.acquisition \in {"not-required", "required"} /\ Container.reason = None
<1> DEFINE chosen == ContainerOf(facts.mode)
           ds == Decisions(ask, facts, chosen)
<1>1. chosen \in Containers /\ chosen \in Providers /\ chosen # "unavailable"
  BY DEF ContainerOf, Containers, Providers
<1>2. /\ ds \in SUBSET [provider : Providers, outcome : {"selected", "rejected"}]
      /\ \A d \in ds : d.outcome = "selected" <=> d.provider = chosen
      /\ [provider |-> chosen, outcome |-> "selected"] \in ds
  <2>1. chosen = ContainerOf(facts.mode) /\ ds = Decisions(ask, facts, chosen)
    OBVIOUS
  <2>2. ask \in Asks /\ ds = Decisions(ask, facts, chosen)
    BY DEF Types
  <2> HIDE DEF chosen, ds
  <2>3. /\ ds \in SUBSET [provider : Providers, outcome : {"selected", "rejected"}]
        /\ \A d \in ds : d.outcome = "selected" <=> d.provider = chosen
    <3>1. ask \in Asks /\ ds = Decisions(ask, facts, chosen)
      BY <2>2
    <3>2. /\ Decisions(ask, facts, chosen) \in SUBSET [provider : Providers, outcome : {"selected", "rejected"}]
          /\ \A d \in Decisions(ask, facts, chosen) : d.outcome = "selected" <=> d.provider = chosen
      BY <3>1, DecisionsHold
    <3> QED BY <3>1, <3>2
  <2>4. [provider |-> chosen, outcome |-> "selected"] \in ds
    BY ZenonT(60), <2>1, ContainerDecided
  <2> QED BY <2>3, <2>4
<1>3. Container = IF Mismatch(ask, facts)
                  THEN [provider |-> "unavailable", reason |-> "container-image-platform-mismatch",
                        decisions |-> {RefusedDecision(d) : d \in ds}, exe |-> None, acquisition |-> None]
                  ELSE [provider |-> chosen, reason |-> None, decisions |-> ds, exe |-> None,
                        acquisition |-> IF facts.image THEN "not-required" ELSE "required"]
  BY DEF Container
<1> HIDE DEF chosen, ds
<1>4. {RefusedDecision(d) : d \in ds} \in SUBSET [provider : Providers, outcome : {"selected", "rejected"}]
      /\ \A d \in {RefusedDecision(e) : e \in ds} : d.outcome # "selected"
  BY <1>2 DEF RefusedDecision
<1>5. {d.provider : d \in {e \in ds : e.outcome = "selected"}} = {chosen}
  BY <1>2
<1>6. CASE Mismatch(ask, facts)
  BY <1>6, <1>3, <1>4, NoneAssumption DEF Selections, NoSelection, Agreed, Providers, Reasons
<1>7. CASE ~Mismatch(ask, facts)
  <2>1. /\ Container.provider = chosen /\ Container.reason = None /\ Container.decisions = ds
        /\ Container.exe = None /\ Container.acquisition \in {"not-required", "required"}
        /\ Container \in Selections
    BY <1>7, <1>3, <1>1, <1>2 DEF Selections
  <2>2. Container # NoSelection
    BY <2>1, <1>1, NoneAssumption DEF NoSelection
  <2>3. Agreed(Container)
    BY <2>1, <1>1, <1>5, NoneAssumption DEF Agreed
  <2> QED BY <2>1, <2>2, <2>3, <1>1, <1>7 DEF chosen
<1> QED BY <1>6, <1>7
-----------------------------------------------------------------------------
Still == UNCHANGED <<ask, world, found, seenTools, facts, probes, exe, seen, attached, outcome>>

(* What does not change keeps its meaning. *)
LEMMA SameReads ==
  ASSUME UNCHANGED <<ask, installed, tools, found, seenTools>>
  PROVE  HostReason' = HostReason /\ Fitting' = Fitting /\ ToolsThere' = ToolsThere
BY DEF HostReason, Matching, Fitting, ToolsThere

(* The step that selects: the run leaves its waiting phases. *)
LEMMA Selecting ==
  ASSUME SelInv, pc \in Waiting, Still,
         NEW s \in Selections, s # NoSelection, s.provider # None, Agreed(s), Select(s),
         s.acquisition # "failed", HostRests(s), ContainerRests(s)
  PROVE  SelInv'
<1>1. sel' = s /\ pc' = "located" /\ attached = None /\ attached' = None
  BY DEF Select, SelInv, Stages, Still, Waiting, Early, HostLane
<1>2. Types'
  BY <1>1 DEF SelInv, Types, Still, world, Chosen
<1>3. Stages' /\ Probing' /\ HostChosen'
  BY <1>1 DEF SelInv, Stages, Probing, HostChosen, Still, world, Waiting, Early, HostLane
<1>4. Rests'
  BY <1>1 DEF Rests, Still, world, HostRests, ContainerRests, Passing
<1> QED BY <1>2, <1>3, <1>4 DEF SelInv

LEMMA SelectingNothing ==
  ASSUME SelInv, pc \in Waiting, Still, NEW r \in Reasons, Select(Unavailable(r))
  PROVE  SelInv'
<1>1. /\ Unavailable(r) \in Selections /\ Unavailable(r) # NoSelection
      /\ Unavailable(r).provider = "unavailable" /\ Unavailable(r).acquisition = None
      /\ Agreed(Unavailable(r))
  BY UnavailableIs DEF SelInv, Unavailable
<1>2. /\ HostRests(Unavailable(r)) /\ ContainerRests(Unavailable(r))
      /\ Unavailable(r).acquisition # "failed" /\ Unavailable(r).provider # None
  BY <1>1, NoneAssumption DEF HostRests, ContainerRests, Containers, Providers
<1> QED BY <1>1, <1>2, Selecting

LEMMA SelectingContainer ==
  ASSUME SelInv, pc \in Waiting \ {"gate"}, Still, Select(Container), NeedsProbe(ask), facts.mode \in Engines
  PROVE  SelInv'
<1>1. ~ask.invalid /\ Types
  BY GateAnswers DEF SelInv, Stages, Types
<1>2. /\ Container \in Selections /\ Container # NoSelection /\ Agreed(Container)
      /\ Mismatch(ask, facts) => Container.provider = "unavailable"
      /\ ~Mismatch(ask, facts) => Container.provider = ContainerOf(facts.mode) /\ Container.provider \in Containers
      /\ ~Mismatch(ask, facts) => Container.acquisition \in {"not-required", "required"}
  BY <1>1, ContainerIs
<1>3. Container.acquisition # "failed" /\ Container.provider # None
  BY <1>2, NoneAssumption DEF Container, Providers
<1>4. HostRests(Container) /\ ContainerRests(Container)
  BY <1>2, NoneAssumption DEF HostRests, ContainerRests, Containers
<1> QED BY <1>2, <1>3, <1>4, Selecting

LEMMA SelectingHost ==
  ASSUME SelInv, pc = "decide", Still, Select(HostNative),
         Mode(ask) # "docker-only", seen # None => SurfaceReason(ask, seen) = None
  PROVE  SelInv'
<1>1. /\ HostNative \in Selections /\ HostNative # NoSelection
      /\ HostNative.provider = "host-native" /\ HostNative.exe = exe /\ Agreed(HostNative)
  BY HostNativeIs DEF SelInv
<1>2. HostNative.acquisition # "failed" /\ HostNative.provider # None
  BY <1>1, NoneAssumption DEF HostNative, Providers
<1>3. ContainerRests(HostNative)
  BY <1>1 DEF ContainerRests, Containers
<1>4. HostRests(HostNative)
  BY <1>1 DEF HostRests, SelInv, Types, Stages, HostChosen, Fitting, Waiting, HostLane, Exact
<1> QED BY <1>1, <1>2, <1>3, <1>4, Selecting DEF Waiting, HostLane

(* In the host lane no engine is known, so auto has no docker to fall back on. *)
LEMMA NoFallback ==
  ASSUME Probing, pc \in HostLane, NEW r
  PROVE  OrContainer(r) = Unavailable(r)
BY NoneAssumption DEF Probing, OrContainer, FallsBack, Capable

(* Before the selection there is nothing it rests on. *)
LEMMA Unselected ==
  ASSUME sel = NoSelection, sel' = sel, attached = None, attached' = attached,
         pc' \notin {"pull"} \cup Passing
  PROVE  Rests'
<1>1. NoSelection.provider \notin Providers
  BY NoneAssumption DEF NoSelection
<1> QED BY <1>1 DEF Rests, HostRests, ContainerRests, Providers, Containers
-----------------------------------------------------------------------------
LEMMA SelInit == Init => SelInv
<1> SUFFICES ASSUME Init PROVE SelInv
  OBVIOUS
<1>1. running \in [year : Year, bits : Bits] \cup {None}
  BY ExesAssumption DEF Init
<1>2. NoSelection \in Selections /\ NoSelection.provider \notin Providers
  BY NoneAssumption DEF NoSelection, Selections
<1>3. Types
  <2>1. facts \in [cli : BOOLEAN, up : BOOLEAN, mode : Engines \cup {"unknown", None}, image : BOOLEAN]
    BY DEF Init, NoFacts
  <2>2. /\ installed \subseteq Exes /\ found \subseteq Exes /\ tools \subseteq AllTools /\ seenTools \subseteq AllTools
        /\ images \subseteq Engines
    BY DEF Init, AllTools
  <2>3. moves \in 0..MaxMoves /\ probes \in 0..1
    BY MovesAssumption DEF Init
  <2>4. /\ ask \in Asks /\ pc \in Waiting \cup Chosen /\ other \in BOOLEAN /\ stale \in BOOLEAN
        /\ docker \in {"absent", "down", "unknown"} \cup Engines /\ unseen \in BOOLEAN
        /\ exe \in Exes \cup {None} /\ seen \in Surfaces \cup {None} /\ sel \in Selections
    BY <1>2 DEF Init, Waiting, Early
  <2> QED BY <1>1, <2>1, <2>2, <2>3, <2>4 DEF Types
<1>4. Stages /\ Probing /\ HostChosen
  BY DEF Init, Stages, Probing, HostChosen, Waiting, Early, HostLane, NoFacts
<1>5. Rests
  BY <1>2 DEF Init, Rests, HostRests, ContainerRests, Providers, Passing
<1> QED BY <1>3, <1>4, <1>5 DEF SelInv

LEMMA SelStep == SelInv /\ [Next]_vars => SelInv'
<1> SUFFICES ASSUME SelInv, [Next]_vars PROVE SelInv'
  OBVIOUS
<1>0. Types /\ Stages /\ Probing /\ HostChosen /\ Rests /\ ask \in Asks
  BY DEF SelInv, Types
<1>1. ASSUME Gate PROVE SelInv'
  <2>1. CASE GateReason(ask) # None
    <3>1. GateReason(ask) \in Reasons
      BY <2>1, <1>0, GateAnswers
    <3>2. Select(Unavailable(GateReason(ask))) /\ pc \in Waiting /\ Still
      BY <1>1, <2>1 DEF Gate, Waiting, Early, Still, world
    <3> QED BY <3>1, <3>2, SelectingNothing
  <2>2. CASE GateReason(ask) = None
    <3>1. pc = "gate" /\ pc' = "scan" /\ sel' = sel /\ Still
      BY <1>1, <2>2 DEF Gate, Still
    <3>2. Types'
      BY <3>1, <1>0 DEF Types, Still, world, Waiting, Early
    <3>3. Stages' /\ Probing' /\ HostChosen' /\ Rests'
      BY <3>1, <2>2, <1>0 DEF Stages, Probing, HostChosen, Rests, HostRests, ContainerRests, Still, Passing,
         world, Waiting, Early, HostLane
    <3> QED BY <3>2, <3>3 DEF SelInv
  <2> QED BY <2>1, <2>2
<1>2. ASSUME Scan PROVE SelInv'
  <2>1. CASE ask.configured = "missing"
    <3>1. "configured-labview-cli-path-missing" \in Reasons
      BY DEF Reasons
    <3>2. Select(Unavailable("configured-labview-cli-path-missing")) /\ pc \in Waiting /\ Still
      BY <1>2, <2>1 DEF Scan, Waiting, Early, Still, world
    <3> QED BY <3>1, <3>2, SelectingNothing
  <2>2. CASE ask.configured # "missing"
    <3>1. /\ pc = "scan" /\ pc' = (IF NeedsProbe(ask) THEN "probe" ELSE "host") /\ sel' = sel
          /\ found' = Fitting /\ seenTools' = ToolsThere
          /\ UNCHANGED <<ask, world, facts, probes, exe, seen, attached, outcome>>
      BY <1>2, <2>2 DEF Scan, Fitting, ToolsThere
    <3>2. Fitting' = Fitting /\ ToolsThere' = ToolsThere /\ Fitting \subseteq Exes /\ ToolsThere \subseteq AllTools
      BY <3>1, <1>0 DEF Fitting, ToolsThere, Types, world, AllTools
    <3>3. Types'
      BY <3>1, <3>2, <1>0 DEF Types, world, Waiting, Early, HostLane
    <3>4. Stages' /\ Probing' /\ HostChosen' /\ Rests'
      BY <3>1, <3>2, <2>2, <1>0 DEF Stages, Probing, HostChosen, Rests, HostRests, ContainerRests, NoFacts, Passing,
         world, Waiting, Early, HostLane
    <3> QED BY <3>3, <3>4 DEF SelInv
  <2> QED BY <2>1, <2>2
<1>3. ASSUME Probe PROVE SelInv'
  <2>1. /\ pc = "probe" /\ pc' = (IF docker \in Engines THEN "inspect" ELSE "lane") /\ probes' = probes + 1
        /\ facts' = [cli |-> docker # "absent", up |-> docker \in Engines \cup {"unknown"},
                     mode |-> IF docker \in Engines \cup {"unknown"} THEN docker ELSE None, image |-> FALSE]
        /\ UNCHANGED <<ask, world, found, seenTools, exe, seen, sel, attached, outcome>>
    BY <1>3 DEF Probe
  <2>2. Types'
    <3>1. facts' \in [cli : BOOLEAN, up : BOOLEAN, mode : Engines \cup {"unknown", None}, image : BOOLEAN]
      BY <2>1
    <3>2. probes' \in 0..1 /\ pc' \in Waiting
      BY <2>1, <1>0 DEF Probing, Waiting, Early
    <3> QED BY <3>1, <3>2, <2>1, <1>0 DEF Types, world
  <2>3. HostReason' = HostReason /\ Fitting' = Fitting /\ ToolsThere' = ToolsThere
    BY <2>1, SameReads DEF world
  <2>4. Stages' /\ HostChosen'
    BY <2>1, <2>3, <1>0 DEF Stages, HostChosen, world, Waiting, Early, HostLane
  <2>5. Probing'
    BY <2>1, <1>0, NoneAssumption DEF Probing, world, Waiting, Early, HostLane, Engines
  <2>6. sel = NoSelection /\ pc' \notin {"pull"} \cup Passing /\ attached = None
    BY <2>1, <1>0 DEF Stages, Waiting, Early, Passing
  <2> QED BY <2>1, <2>2, <2>4, <2>5, <2>6, Unselected DEF SelInv
<1>4. ASSUME Inspect PROVE SelInv'
  <2>1. /\ pc = "inspect" /\ pc' = "lane"
        /\ facts' = [facts EXCEPT !.image = docker = facts.mode /\ docker \in images]
        /\ UNCHANGED <<ask, world, found, seenTools, probes, exe, seen, sel, attached, outcome>>
    BY <1>4 DEF Inspect
  <2>2. facts' \in [cli : BOOLEAN, up : BOOLEAN, mode : Engines \cup {"unknown", None}, image : BOOLEAN]
        /\ facts'.cli = facts.cli /\ facts'.mode = facts.mode
    BY <2>1, <1>0 DEF Types
  <2>3. Types'
    BY <2>1, <2>2, <1>0 DEF Types, world, Waiting, Early
  <2>4. HostReason' = HostReason /\ Fitting' = Fitting /\ ToolsThere' = ToolsThere
    BY <2>1, SameReads DEF world
  <2>5. Stages' /\ HostChosen'
    BY <2>1, <2>4, <1>0 DEF Stages, HostChosen, world, Waiting, Early, HostLane
  <2>6. Probing'
    BY <2>1, <2>2, <1>0 DEF Probing, world, Waiting, Early, HostLane
  <2>7. sel = NoSelection /\ attached = None
    BY <2>1, <1>0 DEF Stages, Waiting, Early
  <2> QED BY <2>1, <2>3, <2>5, <2>6, <2>7, Unselected DEF SelInv, Passing
<1>5. ASSUME ChooseLane PROVE SelInv'
  <2>1. pc = "lane" /\ pc \in Waiting \ {"gate"} /\ NeedsProbe(ask)
    BY <1>5, <1>0 DEF ChooseLane, Probing, Waiting, Early
  <2>2. CASE Mode(ask) = "auto" /\ ~facts.cli
    <3>1. pc' = "host" /\ sel' = sel /\ Still
      BY <1>5, <2>2 DEF ChooseLane, Still
    <3>2. Types'
      BY <3>1, <1>0 DEF Types, Still, world, Waiting, HostLane
    <3>3. HostReason' = HostReason /\ Fitting' = Fitting /\ ToolsThere' = ToolsThere
      BY <3>1, SameReads DEF Still, world
    <3>4. Stages' /\ HostChosen'
      BY <3>1, <3>3, <2>1, <1>0 DEF Stages, HostChosen, Still, world, Waiting, Early, HostLane
    <3>5. Probing'
      BY <3>1, <2>1, <2>2, <1>0, NoneAssumption DEF Probing, Still, world, Waiting, Early, HostLane
    <3>6. sel = NoSelection /\ attached = None
      BY <2>1, <1>0 DEF Stages
    <3> QED BY <3>1, <3>2, <3>4, <3>5, <3>6, Unselected DEF SelInv, Passing, Still
  <2>3. CASE ~(Mode(ask) = "auto" /\ ~facts.cli)
    <3>1. /\ Select(IF LaneReason(ask, facts) = None THEN Container ELSE Unavailable(LaneReason(ask, facts)))
          /\ Still
      BY <1>5, <2>3 DEF ChooseLane, Still, Select
    <3>2. CASE LaneReason(ask, facts) = None
      <4>1. facts.mode \in Engines
        BY <3>2, <1>0, LaneAnswers, NoneAssumption DEF Capable, Reasons
      <4> QED BY <3>1, <3>2, <4>1, <2>1, SelectingContainer
    <3>3. CASE LaneReason(ask, facts) # None
      <4>1. LaneReason(ask, facts) \in Reasons
        BY <3>3, <1>0, LaneAnswers DEF Reasons
      <4> QED BY <3>1, <3>3, <4>1, <2>1, SelectingNothing
    <3> QED BY <3>2, <3>3
  <2> QED BY <2>2, <2>3
<1>6. ASSUME ResolveHost PROVE SelInv'
  <2>0. pc = "host" /\ pc \in Waiting /\ sel = NoSelection /\ attached = None
    BY <1>6, <1>0 DEF ResolveHost, Stages, Waiting, HostLane
  <2>1. CASE HostReason # None
    <3>1. Still /\ Select(Unavailable(HostReason))
      BY <1>6, <2>1, <2>0, <1>0, NoFallback DEF ResolveHost, Still, HostLane
    <3>2. HostReason \in Reasons
      BY <2>1, HostAnswers DEF Reasons
    <3> QED BY <3>1, <3>2, <2>0, SelectingNothing
  <2>2. CASE HostReason = None
    <3>1. /\ exe' \in (IF Exact(ask) THEN Matching(Bitness(ask)) ELSE Preferred(Bitness(ask)))
          /\ pc' = (IF ask.platform = "win32" THEN "observe" ELSE "decide")
          /\ UNCHANGED <<ask, world, found, seenTools, facts, probes, seen, sel, attached, outcome>>
      BY <1>6, <2>2 DEF ResolveHost
    <3>2. exe' \in found /\ (Exact(ask) => exe'.bits = Bitness(ask))
      BY <3>1 DEF Matching, Preferred
    <3>3. Types'
      BY <3>1, <3>2, <1>0 DEF Types, world, Waiting, HostLane
    <3>4. HostReason' = HostReason /\ Fitting' = Fitting /\ ToolsThere' = ToolsThere
      BY <3>1, SameReads DEF world
    <3>5. HostChosen'
      BY <3>1, <3>2, <3>4, <2>0, <2>2, <1>0 DEF HostChosen, Stages, Waiting, HostLane, world
    <3>6. Stages' /\ Probing'
      BY <3>1, <3>4, <2>0, <1>0 DEF Stages, Probing, world, Waiting, Early, HostLane
    <3> QED BY <3>1, <3>3, <3>5, <3>6, <2>0, Unselected DEF SelInv, Passing
  <2> QED BY <2>1, <2>2
<1>7. ASSUME Observe \/ Listen PROVE SelInv'
  <2>1. /\ (pc = "observe" /\ pc' = "listen") \/ (pc = "listen" /\ pc' = "decide")
        /\ UNCHANGED <<ask, installed, tools, docker, images, running, other, moves, stale,
                       found, seenTools, facts, probes, exe, sel, attached, outcome>>
        /\ unseen' \in BOOLEAN
    BY <1>7, <1>0 DEF Observe, Listen, world, Types
  <2>2. seen' \in Surfaces
    <3>1. CASE Observe
      <4>1. Quiet \in Surfaces /\ Surface \in Surfaces
        BY <1>0 DEF Quiet, Surface, Surfaces, Types
      <4>2. Resolved \in Surfaces
        BY <4>1, <1>0 DEF Resolved, Surfaces, Types
      <4> QED BY <3>1, <4>1, <4>2 DEF Observe
    <3>2. CASE Listen
      <4>1. seen \in Surfaces /\ \E hears \in {FALSE, running # None \/ other} : seen' = [seen EXCEPT !.busy = @ \/ hears]
        BY <3>2, <1>0 DEF Listen, Types, HostChosen
      <4> QED BY <4>1 DEF Surfaces
    <3> QED BY <3>1, <3>2, <1>7
  <2>3. sel = NoSelection /\ attached = None /\ seen' # None
    BY <2>1, <2>2, <1>0, NoneAssumption DEF Stages, Waiting, HostLane
  <2>4. Types'
    BY <2>1, <2>2, <1>0 DEF Types, Waiting, HostLane
  <2>5. HostReason' = HostReason /\ Fitting' = Fitting /\ ToolsThere' = ToolsThere
    BY <2>1, SameReads
  <2>6. Stages' /\ Probing' /\ HostChosen'
    BY <2>1, <2>3, <2>5, <1>0 DEF Stages, Probing, HostChosen, Waiting, Early, HostLane
  <2> QED BY <2>1, <2>3, <2>4, <2>6, Unselected DEF SelInv, Passing
<1>8. ASSUME Decide PROVE SelInv'
  <2> DEFINE surface == IF seen = None THEN None ELSE SurfaceReason(ask, seen)
  <2>1. /\ pc = "decide" /\ pc \in Waiting /\ pc \in HostLane /\ Still
        /\ Select(IF surface = "windows-host-runtime-surface-contaminated" THEN OrContainer(surface)
                  ELSE IF surface # None THEN Unavailable(surface)
                  ELSE IF ToolReason = None THEN HostNative
                  ELSE IF seenTools = {} THEN OrContainer(ToolReason)
                  ELSE Unavailable(ToolReason))
    BY <1>8 DEF Decide, Waiting, HostLane, Still
  <2>2. surface \in Reasons \cup {None} /\ ToolReason \in Reasons \cup {None}
    BY <1>0, SurfaceAnswers, ToolAnswers DEF Types, Reasons
  <2>3. Mode(ask) # "docker-only"
    BY <2>1, <1>0 DEF Probing, NeedsProbe
  <2> HIDE DEF surface
  <2>4. CASE surface # None
    <3>1. Select(Unavailable(surface))
      BY <2>1, <2>4, <1>0, NoFallback
    <3> QED BY <3>1, <2>1, <2>2, <2>4, SelectingNothing
  <2>5. CASE surface = None /\ ToolReason = None
    <3>1. Select(HostNative)
      BY <2>1, <2>5, NoneAssumption DEF Reasons
    <3>2. seen # None => SurfaceReason(ask, seen) = None
      BY <2>5 DEF surface
    <3> QED BY <3>1, <3>2, <2>1, <2>3, SelectingHost
  <2>6. CASE surface = None /\ ToolReason # None
    <3>1. Select(Unavailable(ToolReason))
      BY <2>1, <2>6, <1>0, NoFallback, NoneAssumption DEF Reasons
    <3> QED BY <3>1, <2>1, <2>2, <2>6, SelectingNothing
  <2> QED BY <2>4, <2>5, <2>6
(* A step after the selection. *)
<1>9. ASSUME pc \in {"located", "pull", "packet"} \cup Passing, pc' \in Chosen \ {"located"},
             UNCHANGED <<ask, installed, tools, docker, images, other, moves, stale,
                         found, seenTools, facts, probes, exe, seen, sel>>,
             running' \in [year : Year, bits : Bits] \cup {None}, unseen' \in BOOLEAN,
             pc' \notin {"launched", "done"} => attached' = None,
             pc' = "pull" => sel.provider \in Containers,
             (pc' # "pull" /\ sel.provider \in Containers) =>
                 sel.acquisition \in {"not-required", "acquired", "failed"},
             (pc' \in Passing \/ attached' # None) => ~BlockedRuntime(sel)
      PROVE  SelInv'
  <2>1. Types'
    BY <1>9, <1>0 DEF Types
  <2>2. HostReason' = HostReason /\ Fitting' = Fitting /\ ToolsThere' = ToolsThere
    BY <1>9, SameReads
  <2>3. Stages' /\ Probing' /\ HostChosen'
    BY <1>9, <2>2, <1>0 DEF Stages, Probing, HostChosen, Waiting, Early, HostLane, Chosen, Passing
  <2>4. Rests'
    BY <1>9, <1>0 DEF Rests, HostRests, ContainerRests, BlockedRuntime, Chosen, Passing
  <2> QED BY <2>1, <2>3, <2>4 DEF SelInv
<1>10. ASSUME NEW pulled \in {FALSE, docker = facts.mode}, Acquire(pulled),
              pc \in {"located", "pull"}, sel.provider \in Containers,
              UNCHANGED <<ask, installed, tools, docker, running, other, moves, stale, unseen,
                          found, seenTools, facts, probes, exe, seen, attached, outcome>>
       PROVE  SelInv'
  <2>1. /\ pc' = "packet" /\ attached = None
        /\ sel' = [sel EXCEPT !.acquisition = IF pulled THEN "acquired" ELSE "failed",
                              !.reason = IF pulled THEN @ ELSE "container-image-acquisition-failed"]
        /\ images' = IF pulled THEN images \cup {docker} ELSE images
    BY <1>10, <1>0 DEF Acquire, Stages
  <2>2. /\ sel' \in Selections /\ sel'.provider = sel.provider
        /\ sel'.acquisition \in {"acquired", "failed"}
        /\ sel'.acquisition = "failed" => sel'.reason = "container-image-acquisition-failed"
    BY <2>1, <1>0 DEF Types, Selections, Reasons
  <2>3. images' \subseteq Engines
    <3>1. facts.mode \in Engines /\ images \subseteq Engines
      BY <1>10, <1>0 DEF Types, Rests, ContainerRests
    <3>2. pulled => docker = facts.mode
      BY <1>10
    <3> QED BY <2>1, <3>1, <3>2
  <2>4. Types'
    BY <2>1, <2>2, <2>3, <1>10, <1>0 DEF Types, Chosen
  <2>5. HostReason' = HostReason /\ Fitting' = Fitting /\ ToolsThere' = ToolsThere
    BY <1>10, SameReads
  <2>6. sel' # NoSelection
    BY <2>2, <1>10, NoneAssumption DEF NoSelection, Providers
  <2>7. Stages' /\ Probing' /\ HostChosen'
    BY <2>1, <2>5, <2>6, <1>10, <1>0 DEF Stages, Probing, HostChosen, Waiting, Early, HostLane, Chosen
  <2>8. Agreed(sel')
    BY <2>1, <1>10, <1>0 DEF Rests, Agreed, Containers, Types, Selections, Stages, Waiting, Early, HostLane
  <2>9. Rests'
    BY <2>1, <2>2, <2>8, <1>10, <1>0, NoneAssumption DEF Rests, HostRests, ContainerRests, Containers,
       Providers, Passing
  <2> QED BY <2>4, <2>7, <2>9 DEF SelInv
<1>11. ASSUME StreamPull PROVE SelInv'
  <2>1. /\ pc = "located" /\ sel.provider \in Containers /\ attached = None
        /\ UNCHANGED <<ask, installed, tools, docker, running, other, moves, stale, unseen,
                       found, seenTools, facts, probes, exe, seen, attached, outcome>>
        /\ \/ \E pulled \in {FALSE, docker = facts.mode} : Acquire(pulled)
           \/ pc' = "pull" /\ UNCHANGED <<sel, images>>
    BY <1>11, <1>0 DEF StreamPull, Stages
  <2>2. CASE pc' = "pull" /\ UNCHANGED <<sel, images>>
    BY <2>1, <2>2, <1>9, <1>0 DEF Chosen, Passing, Types
  <2> QED BY <2>1, <2>2, <1>10
<1>12. ASSUME CliPull PROVE SelInv'
  <2>1. pc = "pull" /\ sel.provider \in Containers
    BY <1>12, <1>0 DEF CliPull, Rests
  <2> QED BY <2>1, <1>12, <1>10 DEF CliPull
<1>13. ASSUME NothingToAcquire PROVE SelInv'
  <2>1. /\ pc = "located" /\ pc' = "packet" /\ ~(sel.provider \in Containers /\ sel.acquisition = "required")
        /\ attached = None
        /\ UNCHANGED <<ask, world, found, seenTools, facts, probes, exe, seen, sel, attached, outcome>>
    BY <1>13, <1>0 DEF NothingToAcquire, Stages
  <2>2. sel.provider \in Containers => sel.acquisition \in {"not-required", "acquired", "failed"}
    BY <2>1, <1>0 DEF Rests, ContainerRests, Types, Selections
  <2> QED BY <2>1, <2>2, <1>9, <1>0 DEF Chosen, Passing, Types, world
<1>14. ASSUME Packet PROVE SelInv'
  <2>1. /\ pc = "packet" /\ attached = None
        /\ IF BlockedRuntime(sel) THEN pc' = "done" ELSE pc' = "preflight"
        /\ UNCHANGED <<ask, world, found, seenTools, facts, probes, exe, seen, sel, attached>>
    BY <1>14, <1>0 DEF Packet, Stages, End
  <2>2. sel.provider \in Containers => sel.acquisition \in {"not-required", "acquired", "failed"}
    BY <2>1, <1>0 DEF Rests
  <2> QED BY <2>1, <2>2, <1>9, <1>0 DEF Chosen, Passing, Types, world
(* The steps of the pass, of which two may start or stop a LabVIEW. *)
<1>15. ASSUME Preflight \/ ListenAgain \/ Previews \/ Quiesce \/ Launch \/ Exit PROVE SelInv'
  <2>1. /\ pc \in Passing /\ pc' \in (Passing \cup {"done"}) \ {"preflight"}
        /\ pc' \notin {"launched", "done"} => attached' = attached /\ pc # "launched"
        /\ UNCHANGED <<ask, installed, tools, docker, images, other, moves, stale,
                       found, seenTools, facts, probes, exe, seen, sel>>
    <3>1. CASE Preflight \/ ListenAgain
      BY <3>1 DEF Preflight, ListenAgain, End, Passing, world
    <3>2. CASE Previews \/ Quiesce
      BY <3>2 DEF Previews, Quiesce, End, Passing
    <3>3. CASE Launch \/ Exit
      BY <3>3 DEF Launch, Exit, End, Passing, world
    <3> QED BY <3>1, <3>2, <3>3, <1>15
  <2>2. /\ ~BlockedRuntime(sel) /\ (pc # "launched" => attached = None)
        /\ sel.provider \in Containers => sel.acquisition \in {"not-required", "acquired", "failed"}
    BY <2>1, <1>0 DEF Rests, Stages, Passing
  <2>3. sel.provider = "host-native" => SelectedLabview \in [year : Year, bits : Bits]
    BY <1>0, ExesAssumption DEF Rests, HostRests, SelectedLabview
  <2>4. running' \in [year : Year, bits : Bits] \cup {None} /\ unseen' \in BOOLEAN
    <3>1. CASE Previews
      BY <3>1, <2>3, <1>0 DEF Previews, Types
    <3>2. CASE Quiesce
      BY <3>2, <1>0 DEF Quiesce, Types
    <3>3. CASE UNCHANGED world
      BY <3>3, <1>0 DEF world, Types
    <3> QED BY <3>1, <3>2, <3>3, <1>15 DEF Preflight, ListenAgain, Launch, Exit
  <2> QED BY <2>1, <2>2, <2>4, <1>9 DEF Chosen, Passing
<1>16. ASSUME Surroundings PROVE SelInv'
  <2>1. /\ moves < MaxMoves /\ moves' = moves + 1 /\ stale' = (stale \/ pc # "gate")
        /\ UNCHANGED <<ask, local, installed, tools, images>>
    BY <1>16 DEF Surroundings, LabviewStarts, LabviewQuits, DockerChanges, Move
  <2>2. /\ docker' \in {"absent", "down", "unknown"} \cup Engines
        /\ running' \in [year : Year, bits : Bits] \cup {None} /\ other' \in BOOLEAN /\ unseen' \in BOOLEAN
    <3>1. CASE LabviewStarts
      <4>1. PICK e \in installed : running' = [year |-> e.year, bits |-> e.bits]
        BY <3>1 DEF LabviewStarts
      <4>2. running' \in [year : Year, bits : Bits]
        BY <4>1, <1>0, ExesAssumption DEF Types
      <4>3. unseen' \in BOOLEAN
        BY <3>1, <1>0, AsksHold DEF LabviewStarts, LookedLast
      <4> QED BY <3>1, <4>2, <4>3, <1>0 DEF LabviewStarts, Types
    <3>2. CASE LabviewQuits
      BY <3>2, <1>0 DEF LabviewQuits, Types
    <3>3. CASE DockerChanges
      BY <3>3, <1>0 DEF DockerChanges, Types
    <3> QED BY <3>1, <3>2, <3>3, <1>16 DEF Surroundings
  <2>3. moves' \in 0..MaxMoves /\ stale' \in BOOLEAN
    BY <2>1, <1>0, MovesAssumption DEF Types
  <2>4. Types'
    BY <2>1, <2>2, <2>3, <1>0 DEF Types, local
  <2>5. HostReason' = HostReason /\ Fitting' = Fitting /\ ToolsThere' = ToolsThere
    BY <2>1, SameReads DEF local
  <2>6. Stages' /\ HostChosen' /\ Rests'
    BY <2>1, <2>5, <1>0 DEF Stages, HostChosen, Rests, HostRests, ContainerRests, local
  <2>7. ~stale' => ~stale /\ pc = "gate"
    BY <2>1
  <2>8. Probing'
    BY <2>1, <2>7, <1>0 DEF Probing, local, HostLane
  <2> QED BY <2>4, <2>6, <2>8 DEF SelInv
<1>17. ASSUME UNCHANGED vars PROVE SelInv'
  <2>1. UNCHANGED <<ask, world, local>>
    BY <1>17 DEF vars
  <2>2. HostReason' = HostReason /\ Fitting' = Fitting /\ ToolsThere' = ToolsThere
    BY <2>1, SameReads DEF world, local
  <2> QED BY <2>1, <2>2 DEF SelInv, Types, Stages, Probing, HostChosen, Rests, HostRests, ContainerRests,
      world, local
<1> QED BY <1>1, <1>2, <1>3, <1>4, <1>5, <1>6, <1>7, <1>8, <1>11, <1>12, <1>13, <1>14, <1>15, <1>16, <1>17
        DEF Next, Run, Done

LEMMA SelInvariant == Spec => []SelInv
BY SelInit, SelStep, PTL DEF Spec

(* The type invariant. *)
THEOREM SelectionTypes == Spec => []TypeOK
<1>1. SelInv => TypeOK
  <2> SUFFICES ASSUME SelInv PROVE TypeOK
    OBVIOUS
  <2>1. Types /\ Stages /\ Rests
    BY DEF SelInv
  <2> QED BY <2>1 DEF Types, Selections, TypeOK, Stages, Rests
<1> QED BY <1>1, SelInvariant, PTL

(* The decisions that are kept name what was selected, and a selection     *)
(* that is unavailable says why.                                           *)
THEOREM DecisionsNameTheSelection == Spec => []DecisionsAgree
<1>1. SelInv => DecisionsAgree
  BY DEF SelInv, Rests, Agreed, DecisionsAgree
<1> QED BY <1>1, SelInvariant, PTL

(* What is launched is of the lane and of the platform asked for.          *)
THEOREM NothingInItsPlace == Spec => []NoSilentSubstitute
<1>1. SelInv => NoSilentSubstitute
  <2> SUFFICES ASSUME SelInv, attached # None PROVE NoSilentSubstitute
    BY DEF NoSilentSubstitute
  <2>0. Types /\ Stages /\ Probing /\ Rests /\ ask \in Asks
    BY DEF SelInv, Types
  <2>1. /\ pc \in {"launched", "done"} /\ ~BlockedRuntime(sel) /\ sel # NoSelection
        /\ sel.provider \in {"host-native"} \cup Containers
    BY <2>0 DEF Types, Stages, Rests, BlockedRuntime, Waiting, Early, HostLane, Selections, Providers
  <2>2. ask.requested = "host" => sel.provider = "host-native" /\ probes = 0
    BY <2>0, <2>1 DEF Rests, ContainerRests, Probing, NeedsProbe, Mode
  <2>3. ask.requested = "docker" => sel.provider \in Containers
    BY <2>0, <2>1 DEF Rests, HostRests, Mode
  <2>4. ASSUME sel.provider \in Containers
        PROVE  /\ ask.token \in Engines =>
                    \E m \in {ask.token, ask.override} : m \in Engines /\ sel.provider = ContainerOf(m)
               /\ sel.acquisition \in {"not-required", "acquired"}
    <3>1. /\ facts.mode \in Engines /\ ~Mismatch(ask, facts) /\ sel.provider = ContainerOf(facts.mode)
      BY <2>4, <2>0 DEF Rests, ContainerRests
    <3>2. sel.acquisition \in {"not-required", "acquired"}
      BY <2>4, <2>0, <2>1 DEF Rests, BlockedRuntime
    <3> QED BY <3>1, <3>2 DEF Mismatch
  <2> QED BY <2>2, <2>3, <2>4 DEF NoSilentSubstitute
<1> QED BY <1>1, SelInvariant, PTL

(* A LabVIEW that runs, and is not one that no look can have identified,   *)
(* is the one that was observed, if an existing session is admitted, or    *)
(* the one that the run left itself.                                       *)
Observed == seen # None /\ seen.year = running.year /\ seen.bits = running.bits
Left == LookedLast /\ running = SelectedLabview
Identified ==
    (running # None /\ ~unseen /\ pc # "done") =>
        /\ ask.allow /\ seen # None => Observed \/ Left
        /\ ~ask.allow /\ ask.platform = "win32" /\ sel.provider = "host-native" /\ LookedLast => Left

LEMMA IdentifiedStep ==
  ASSUME SelInv, Identified, [Next]_vars
  PROVE  Identified'
<1>0. Types /\ Stages /\ HostChosen /\ ask \in Asks /\ ask.allow \in BOOLEAN
  BY AsksHold DEF SelInv, Types
(* The steps before the selection read the host, and before the pass looks *)
(* for the last time it is only the observation that counts.               *)
<1>1. CASE UNCHANGED <<ask, seen, running, unseen>> /\ ~LookedLast /\ ~LookedLast' /\ pc # "done"
  BY <1>1 DEF Identified, Observed, Left
<1>2. CASE Observe
  <2>1. /\ pc = "observe" /\ pc' = "listen" /\ seen' \in {Quiet, Surface, Resolved}
        /\ unseen' = (ask.allow /\ running # None /\ seen' # Resolved) /\ UNCHANGED <<ask, running, sel>>
    BY <1>2 DEF Observe
  <2>2. ~LookedLast'
    BY <2>1 DEF LookedLast
  <2>3. ASSUME running # None, seen' = Resolved PROVE Observed'
    <3>1. seen'.year = running.year /\ seen'.bits = running.bits
      BY <2>3 DEF Resolved, Surface, Quiet
    <3>2. Resolved \in Surfaces
      BY <1>0 DEF Resolved, Surface, Quiet, Surfaces, Types
    <3> QED BY <2>1, <2>3, <3>1, <3>2, NoneAssumption DEF Observed
  <2> QED BY <2>1, <2>2, <2>3, <1>0 DEF Identified
<1>3. CASE Listen
  <2>1. /\ pc = "listen" /\ pc' = "decide" /\ seen \in Surfaces /\ UNCHANGED <<ask, running, sel, unseen>>
        /\ \E hears \in {FALSE, running # None \/ other} : seen' = [seen EXCEPT !.busy = @ \/ hears]
    BY <1>3, <1>0 DEF Listen, world, HostChosen, Types
  <2>2. seen'.year = seen.year /\ seen'.bits = seen.bits /\ seen' \in Surfaces
    BY <2>1 DEF Surfaces
  <2>3. ~LookedLast /\ ~LookedLast'
    BY <2>1 DEF LookedLast
  <2> QED BY <2>1, <2>2, <2>3, NoneAssumption DEF Identified, Observed, Left
<1>4. CASE Preflight
  <2>1. /\ pc = "preflight" /\ UNCHANGED <<ask, running, unseen, seen, sel>>
        /\ \/ pc' = "done"
           \/ pc' = "relisten" /\ running = None
           \/ pc' = "cleared" /\ ~LooksAgain
    BY <1>4 DEF Preflight, End, world
  <2>2. ~LookedLast
    BY <2>1 DEF LookedLast
  <2> QED BY <2>1, <2>2 DEF Identified, Observed, Left, LooksAgain
<1>5. CASE LookedLast /\ LookedLast' /\ UNCHANGED <<ask, running, unseen, seen, sel>>
  BY <1>5 DEF Identified, Observed, Left, SelectedLabview, LookedLast
<1>6. CASE ListenAgain \/ Launch \/ Exit
  <2>1. (pc' = "done" \/ (LookedLast /\ LookedLast')) /\ UNCHANGED <<ask, running, unseen, seen, sel>>
    BY <1>6 DEF ListenAgain, Launch, Exit, End, LookedLast, world
  <2> QED BY <2>1, <1>5 DEF Identified
<1>7. CASE Previews
  <2>1. /\ pc' = "done" \/ (LookedLast /\ LookedLast')
        /\ UNCHANGED <<ask, unseen, seen, sel>>
        /\ running' = running \/ running' = SelectedLabview
    BY <1>7 DEF Previews, End, LookedLast
  <2>2. CASE running' = SelectedLabview
    BY <2>1, <2>2 DEF Identified, Left, SelectedLabview
  <2> QED BY <2>1, <2>2, <1>5 DEF Identified
<1>8. CASE Quiesce
  <2>1. /\ LookedLast /\ LookedLast' /\ UNCHANGED <<ask, seen, sel>>
        /\ running' = None \/ UNCHANGED <<running, unseen>>
    BY <1>8 DEF Quiesce, LookedLast
  <2> QED BY <2>1, <1>5 DEF Identified
<1>9. CASE LabviewStarts
  <2>1. unseen' = (ask.allow \/ LookedLast) /\ UNCHANGED <<ask, pc>>
    BY <1>9 DEF LabviewStarts, Move, local
  <2> QED BY <2>1, <1>0 DEF Identified, LookedLast
<1>10. CASE LabviewQuits
  BY <1>10 DEF LabviewQuits, Identified
<1>11. CASE DockerChanges \/ UNCHANGED vars
  <2>1. UNCHANGED <<ask, pc, running, unseen, seen, sel>>
    BY <1>11 DEF DockerChanges, Move, vars, world, local
  <2> QED BY <2>1 DEF Identified, Observed, Left, LookedLast, SelectedLabview
<1>12. CASE Gate \/ Scan \/ Probe \/ Inspect \/ ChooseLane \/ ResolveHost \/ Decide \/ StreamPull
            \/ CliPull \/ NothingToAcquire \/ Packet
  <2>1. UNCHANGED <<ask, seen, running, unseen>>
    BY <1>12 DEF Gate, Scan, Probe, Inspect, ChooseLane, ResolveHost, Decide, StreamPull, CliPull,
       NothingToAcquire, Packet, world
  <2>2. ~LookedLast /\ pc # "done"
    BY <1>12 DEF Gate, Scan, Probe, Inspect, ChooseLane, ResolveHost, Decide, StreamPull, CliPull,
       NothingToAcquire, Packet, LookedLast
  <2>3. ~LookedLast'
    BY <1>12 DEF Gate, Scan, Probe, Inspect, ChooseLane, ResolveHost, Decide, StreamPull, CliPull,
       NothingToAcquire, Packet, Select, Acquire, End, LookedLast
  <2> QED BY <2>1, <2>2, <2>3, <1>1
<1> QED BY <1>2, <1>3, <1>4, <1>6, <1>7, <1>8, <1>9, <1>10, <1>11, <1>12 DEF Next, Run, Surroundings, Done

(* A launch that finds no LabVIEW, or an identified one, talks to the      *)
(* selected one: the selection refused every other.                        *)
LEMMA AttachesRight ==
  ASSUME SelInv, Identified, pc = "quiesced", sel.provider = "host-native", Exact(ask), ~unseen
  PROVE  Attach = [year |-> ask.version, bits |-> Bitness(ask)]
<1>1. /\ Types /\ ask \in Asks /\ ask.platform = "win32" /\ ask.strict /\ ask.version # None
      /\ sel.exe.year = ask.version /\ sel.exe.bits = Bitness(ask)
      /\ seen \in Surfaces /\ seen # None /\ SurfaceReason(ask, seen) = None
  BY DEF SelInv, Types, Rests, HostRests, Exact
<1>2. SelectedLabview = [year |-> ask.version, bits |-> Bitness(ask)]
  BY <1>1 DEF SelectedLabview
<1>3. CASE running = None
  BY <1>2, <1>3 DEF Attach, Containers
<1>4. CASE running = SelectedLabview
  BY <1>1, <1>2, <1>4 DEF Attach, Containers
<1>5. CASE running # None /\ Observed
  <2>1. running \in [year : Year, bits : Bits]
    BY <1>1, <1>5 DEF Types
  <2>2. ~BitnessConflict(ask, seen) /\ ~VersionConflict(ask, seen)
    BY <1>1, SurfaceAnswers, NoneAssumption DEF Reasons
  <2>3. running.year = ask.version /\ running.bits = Bitness(ask)
    BY <2>1, <2>2, <1>1, <1>5, NoneAssumption DEF Observed, BitnessConflict, VersionConflict, Bits
  <2> QED BY <2>1, <2>3, <1>1, <1>5 DEF Attach, Containers
<1>6. running # None => Observed \/ Left
  BY <1>1, AsksHold DEF Identified, LookedLast
<1> QED BY <1>3, <1>4, <1>5, <1>6 DEF Left

(* A command launched for one version and bitness talks to that LabVIEW,   *)
(* not to a session of another year and not beside one of another bitness, *)
(* unless a LabVIEW runs that was started after the last look at the       *)
(* processes, or one that the look of a selection that admits an existing  *)
(* session did not identify.                                               *)
THEOREM TalksToTheSelected == Spec => AttachesToTheSelected
<1>1. Init => Identified
  BY DEF Init, Identified, LookedLast
<1>2. ASSUME SelInv, Identified, [Next]_vars, attached' # attached, sel.provider = "host-native",
             Exact(ask), ~unseen
      PROVE  attached' = [year |-> ask.version, bits |-> Bitness(ask)]
  <2>1. Launch
    BY <1>2 DEF Next, Run, Surroundings, Done, Gate, Scan, Probe, Inspect, ChooseLane, ResolveHost, Observe,
       Listen, Decide, StreamPull, CliPull, NothingToAcquire, Packet, Preflight, ListenAgain, Previews,
       Quiesce, Exit, LabviewStarts, LabviewQuits, DockerChanges, Move, vars, local
  <2> QED BY <2>1, <1>2, AttachesRight DEF Launch
<1>3. SelInv /\ Identified /\ [Next]_vars =>
        [(attached' # attached /\ sel.provider = "host-native" /\ Exact(ask) /\ ~unseen) =>
            attached' = [year |-> ask.version, bits |-> Bitness(ask)]]_vars
  BY <1>2
<1> QED BY <1>1, <1>3, SelInvariant, IdentifiedStep, PTL DEF Spec, AttachesToTheSelected
-----------------------------------------------------------------------------
(* SelectsWhatIsThere, of any selection. *)
Usable == GateReason(ask) = None /\ ask.configured # "missing"
There(s) ==
    /\ s.provider = "host-native" <=> Usable /\ ~WantsDocker(ask) /\ HostReady(ask)
    /\ s.provider \in Containers <=> Usable /\ WantsDocker(ask) /\ ContainerReady(ask)

(* It is enough to look at the state the selection is made in. *)
LEMMA SelectsRight ==
  ASSUME Still, NEW s, Select(s), ReadRight => There(s)
  PROVE  SelectsWhatIsThere'
<1>1. sel' = s /\ UNCHANGED <<ask, installed, tools, docker, running, other, stale, seen>>
  BY DEF Select, Still, world
<1>2. ReadRight' = ReadRight /\ Usable' = Usable
  BY <1>1 DEF ReadRight, Resolved, Surface, Quiet, Usable
<1>3. WantsDocker(ask)' = WantsDocker(ask) /\ HostReady(ask)' = HostReady(ask)
      /\ ContainerReady(ask)' = ContainerReady(ask)
  BY <1>1 DEF WantsDocker, HostReady, ContainerReady
<1> QED BY <1>1, <1>2, <1>3 DEF SelectsWhatIsThere, There, Usable

LEMMA RefusedRightly ==
  ASSUME SelInv, Still, NEW r \in Reasons, Select(Unavailable(r)),
         ReadRight => ~(Usable /\ ~WantsDocker(ask) /\ HostReady(ask)),
         ReadRight => ~(Usable /\ WantsDocker(ask) /\ ContainerReady(ask))
  PROVE  SelectsWhatIsThere'
<1>1. Unavailable(r).provider = "unavailable"
  BY UnavailableIs DEF SelInv
<1>2. ReadRight => There(Unavailable(r))
  BY <1>1 DEF There, Containers
<1> QED BY <1>2, SelectsRight

(* In the lane of the container it is the container that is wanted, and    *)
(* the probe's answer decides whether it is ready.                         *)
LEMMA ContainerLane ==
  ASSUME SelInv, pc = "lane", ~(Mode(ask) = "auto" /\ ~facts.cli), ~stale
  PROVE  /\ Usable /\ WantsDocker(ask)
         /\ ContainerReady(ask) <=> LaneReason(ask, facts) = None /\ ~Mismatch(ask, facts)
<1>0. Types /\ ask \in Asks
  BY DEF SelInv, Types
<1>1. Usable /\ NeedsProbe(ask) /\ (facts.cli <=> docker # "absent")
      /\ (docker \in Engines \/ facts.mode \in Engines => facts.mode = docker)
  BY DEF SelInv, Stages, Probing, Usable, Waiting, Early
<1>2. WantsDocker(ask)
  BY <1>1 DEF WantsDocker, NeedsProbe
<1>3. Mode(ask) \in {"auto", "docker-only"} /\ Bitness(ask) \in {"x64", "x86"}
  BY <1>0, <1>1, AsksHold DEF NeedsProbe, Bits
<1>4. LaneReason(ask, facts) = None <=>
        Capable(facts) /\ (Mode(ask) = "docker-only" => Bitness(ask) = "x64")
  BY <1>0, <1>3, LaneAnswers, NoneAssumption DEF Reasons
<1>5. docker \in Engines <=> Capable(facts)
  BY <1>1 DEF Capable
<1>6. Capable(facts) => (Mismatch(ask, facts) <=> ask.token \in Engines /\ ask.token # docker /\ ask.override # docker)
  BY <1>1 DEF Capable, Mismatch
<1> QED BY <1>1, <1>2, <1>4, <1>5, <1>6 DEF ContainerReady

(* In the lane of the host nothing wants docker. *)
LEMMA HostLaneIs ==
  ASSUME SelInv, pc \in HostLane, ~stale
  PROVE  Usable /\ ~WantsDocker(ask) /\ found = Fitting /\ seenTools = ToolsThere
BY DEF SelInv, Stages, Probing, Usable, Waiting, HostLane, WantsDocker, NeedsProbe

(* The installations that fit an exact ask are counted where the scan put them. *)
LEMMA ExactlyOne ==
  ASSUME SelInv, found = Fitting
  PROVE  /\ found = {} <=> ~\E e \in installed : ask.version # None => e.year = ask.version
         /\ Exact(ask) => Matching(Bitness(ask)) =
                            {e \in installed : e.year = ask.version /\ e.bits = Bitness(ask)}
         /\ Cardinality(Matching(Bitness(ask))) \in Nat
         /\ Matching(Bitness(ask)) = {} <=> Cardinality(Matching(Bitness(ask))) = 0
<1>1. IsFiniteSet(Matching(Bitness(ask)))
  <2>1. Matching(Bitness(ask)) \subseteq Exes
    BY DEF SelInv, Types, Matching
  <2> QED BY <2>1, ExesAssumption, FS_Subset
<1>2. /\ Cardinality(Matching(Bitness(ask))) \in Nat
      /\ Matching(Bitness(ask)) = {} <=> Cardinality(Matching(Bitness(ask))) = 0
  BY <1>1, FS_CardinalityType, FS_EmptySet
<1>3. found = {} <=> ~\E e \in installed : ask.version # None => e.year = ask.version
  BY DEF Fitting
<1>4. Exact(ask) => Matching(Bitness(ask)) =
                      {e \in installed : e.year = ask.version /\ e.bits = Bitness(ask)}
  BY DEF Exact, Matching, Fitting
<1> QED BY <1>2, <1>3, <1>4

(* The host resolves exactly when an installation, or the one, is there. *)
LEMMA HostResolves ==
  ASSUME SelInv, pc \in HostLane, ~stale
  PROVE  /\ HostReason = None => /\ \E e \in installed : ask.version # None => e.year = ask.version
                                 /\ Exact(ask) => Cardinality({e \in installed : e.year = ask.version
                                                                 /\ e.bits = Bitness(ask)}) = 1
         /\ HostReason # None => ~HostReady(ask)
<1>1. found = Fitting /\ seenTools = ToolsThere
  BY HostLaneIs
<1> DEFINE n == Cardinality(Matching(Bitness(ask)))
           one == {e \in installed : e.year = ask.version /\ e.bits = Bitness(ask)}
           some == \E e \in installed : ask.version # None => e.year = ask.version
<1>2. /\ n \in Nat /\ (Matching(Bitness(ask)) = {} <=> n = 0) /\ (found = {} <=> ~some)
      /\ Exact(ask) => Matching(Bitness(ask)) = one
  BY <1>1, ExactlyOne
<1>3. "labview-cli" \in seenTools <=> "labview-cli" \in tools \/ ask.configured = "present"
  BY <1>1 DEF ToolsThere
<1>4. HostReady(ask) => /\ some /\ (Exact(ask) => Cardinality(one) = 1)
                        /\ "labview-cli" \in tools \/ ask.configured = "present"
  BY DEF HostReady
<1>5. Exact(ask) => n = Cardinality(one) /\ (one # {} => some)
  BY <1>2 DEF Exact
<1> HIDE DEF one, some, n
<1>6. Exact(ask) => (HostReason = None <=> n = 1 /\ "labview-cli" \in seenTools)
  <2>1. Exact(ask) => HostReason = IF n > 1 THEN "labview-exe-ambiguous"
                                   ELSE IF Matching(Bitness(ask)) = {} THEN "labview-exe-not-found"
                                   ELSE IF "labview-cli" \notin seenTools
                                        THEN "canonical-labview-cli-not-found" ELSE None
    BY HostAnswers DEF n
  <2> QED BY <2>1, <1>2, NoneAssumption DEF Reasons
<1>7. ~Exact(ask) => (HostReason = None <=> found # {})
  BY HostAnswers, NoneAssumption DEF Reasons
<1>8. Exact(ask) /\ n = 1 => some
  BY <1>2, <1>5
<1>9. /\ HostReason = None => some /\ (Exact(ask) => Cardinality(one) = 1)
      /\ HostReason # None => ~HostReady(ask)
  BY <1>2, <1>3, <1>4, <1>5, <1>6, <1>7, <1>8
<1> QED BY <1>9 DEF one, some

(* The host as it was read is refused exactly when it is not ready. *)
LEMMA HostDecides ==
  ASSUME SelInv, pc = "decide", ReadRight
  PROVE  HostReady(ask) <=>
           (seen = None \/ SurfaceReason(ask, seen) = None) /\ "labview-cli" \in seenTools
<1>0. Types /\ ask \in Asks /\ ~stale /\ HostReason = None
  BY DEF SelInv, Types, HostChosen, ReadRight
<1>1. "labview-cli" \in seenTools <=> "labview-cli" \in tools \/ ask.configured = "present"
  BY <1>0, HostLaneIs DEF ToolsThere, HostLane
<1> DEFINE calm == /\ running # None => /\ running.bits = Bitness(ask)
                                        /\ ask.strict /\ ask.version # None => running.year = ask.version
                   /\ (running # None \/ other) => ask.allow
<1>2. HostReady(ask) <=> /\ "labview-cli" \in tools \/ ask.configured = "present"
                         /\ ask.platform = "win32" => calm
  BY <1>0, HostResolves DEF HostReady, HostLane
<1>3. seen = None <=> ask.platform # "win32"
  BY DEF SelInv, HostChosen
<1>4. ASSUME seen # None PROVE SurfaceReason(ask, seen) = None <=> calm
  <2>1. /\ seen \in Surfaces /\ seen = [Resolved EXCEPT !.busy = running # None \/ other]
        /\ ask.allow \in BOOLEAN /\ ask.strict \in BOOLEAN
    BY <1>0, <1>4, AsksHold DEF Types, ReadRight
  <2>2. SurfaceReason(ask, seen) = None <=>
          ~BitnessConflict(ask, seen) /\ ~VersionConflict(ask, seen) /\ ~(seen.busy /\ ~ask.allow)
    BY <1>0, <2>1, SurfaceAnswers, NoneAssumption DEF Reasons
  <2>3. seen.busy <=> running # None \/ other
    BY <2>1, <1>0 DEF Resolved, Surface, Quiet
  <2>4. CASE running = None
    <3>1. seen.year = None /\ seen.bits = None
      BY <2>1, <2>4 DEF Resolved, Surface, Quiet
    <3> QED BY <2>2, <2>3, <2>4, <3>1, <2>1 DEF BitnessConflict, VersionConflict
  <2>5. CASE running # None
    <3>1. /\ running.year # None /\ running.bits # None
          /\ seen.year = running.year /\ seen.bits = running.bits
      BY <2>1, <2>5, <1>0, NoneAssumption DEF Resolved, Surface, Quiet, Types, Bits
    <3> QED BY <2>2, <2>3, <2>5, <3>1, <2>1 DEF BitnessConflict, VersionConflict
  <2> QED BY <2>4, <2>5
<1> QED BY <1>1, <1>2, <1>3, <1>4

LEMMA SelectsStep ==
  ASSUME SelInv, SelectsWhatIsThere, [Next]_vars
  PROVE  SelectsWhatIsThere'
<1>0. Types /\ Stages /\ Probing /\ HostChosen /\ ask \in Asks
  BY DEF SelInv, Types
<1>1. ASSUME Gate PROVE SelectsWhatIsThere'
  <2>1. CASE GateReason(ask) # None
    <3>1. GateReason(ask) \in Reasons /\ ~Usable
      BY <2>1, <1>0, GateAnswers DEF Usable
    <3>2. Select(Unavailable(GateReason(ask))) /\ Still
      BY <1>1, <2>1 DEF Gate, Still, world
    <3> QED BY <3>1, <3>2, RefusedRightly
  <2>2. CASE GateReason(ask) = None
    BY <1>1, <2>2 DEF Gate, SelectsWhatIsThere
  <2> QED BY <2>1, <2>2
<1>2. ASSUME Scan PROVE SelectsWhatIsThere'
  <2>1. CASE ask.configured = "missing"
    <3>1. "configured-labview-cli-path-missing" \in Reasons /\ ~Usable
      BY <2>1 DEF Reasons, Usable
    <3>2. Select(Unavailable("configured-labview-cli-path-missing")) /\ Still
      BY <1>2, <2>1 DEF Scan, Still, world
    <3> QED BY <3>1, <3>2, RefusedRightly
  <2>2. CASE ask.configured # "missing"
    <3>1. pc' # "located"
      BY <1>2, <2>2 DEF Scan
    <3> QED BY <3>1 DEF SelectsWhatIsThere
  <2> QED BY <2>1, <2>2
<1>3. ASSUME ChooseLane PROVE SelectsWhatIsThere'
  <2>1. CASE Mode(ask) = "auto" /\ ~facts.cli
    BY <1>3, <2>1 DEF ChooseLane, SelectsWhatIsThere
  <2>2. CASE ~(Mode(ask) = "auto" /\ ~facts.cli)
    <3>1. /\ pc = "lane" /\ pc \in Waiting \ {"gate"} /\ Still
          /\ Select(IF LaneReason(ask, facts) = None THEN Container ELSE Unavailable(LaneReason(ask, facts)))
      BY <1>3, <2>2 DEF ChooseLane, Still, Waiting, Early
    <3>2. ReadRight => /\ Usable /\ WantsDocker(ask)
                       /\ ContainerReady(ask) <=> LaneReason(ask, facts) = None /\ ~Mismatch(ask, facts)
      BY <3>1, <2>2, ContainerLane DEF ReadRight
    <3>3. CASE LaneReason(ask, facts) = None
      <4>1. facts.mode \in Engines /\ ~ask.invalid
        BY <3>1, <3>3, <1>0, LaneAnswers, GateAnswers, NoneAssumption DEF Capable, Reasons, Stages
      <4>2. /\ Mismatch(ask, facts) => Container.provider = "unavailable"
            /\ ~Mismatch(ask, facts) => Container.provider \in Containers
        BY <4>1, <1>0, ContainerIs
      <4>3. ReadRight => There(Container)
        BY <3>2, <3>3, <4>2 DEF There, Containers
      <4> QED BY <3>1, <3>3, <4>3, SelectsRight
    <3>4. CASE LaneReason(ask, facts) # None
      <4>1. LaneReason(ask, facts) \in Reasons
        BY <3>4, <1>0, LaneAnswers DEF Reasons
      <4> QED BY <3>1, <3>2, <3>4, <4>1, RefusedRightly
    <3> QED BY <3>3, <3>4
  <2> QED BY <2>1, <2>2
<1>4. ASSUME ResolveHost PROVE SelectsWhatIsThere'
  <2>1. CASE HostReason # None
    <3>1. Still /\ Select(Unavailable(HostReason)) /\ pc \in HostLane
      BY <1>4, <2>1, <1>0, NoFallback DEF ResolveHost, Still, HostLane
    <3>2. HostReason \in Reasons
      BY <2>1, HostAnswers DEF Reasons
    <3>3. ReadRight => ~WantsDocker(ask) /\ ~HostReady(ask)
      BY <2>1, <3>1, HostLaneIs, HostResolves DEF ReadRight
    <3> QED BY <3>1, <3>2, <3>3, RefusedRightly
  <2>2. CASE HostReason = None
    <3>1. pc' # "located"
      BY <1>4, <2>2 DEF ResolveHost
    <3> QED BY <3>1 DEF SelectsWhatIsThere
  <2> QED BY <2>1, <2>2
<1>5. ASSUME Decide PROVE SelectsWhatIsThere'
  <2> DEFINE surface == IF seen = None THEN None ELSE SurfaceReason(ask, seen)
  <2>1. /\ pc = "decide" /\ pc \in HostLane /\ Still
        /\ Select(IF surface = "windows-host-runtime-surface-contaminated" THEN OrContainer(surface)
                  ELSE IF surface # None THEN Unavailable(surface)
                  ELSE IF ToolReason = None THEN HostNative
                  ELSE IF seenTools = {} THEN OrContainer(ToolReason)
                  ELSE Unavailable(ToolReason))
    BY <1>5 DEF Decide, HostLane, Still
  <2>2. surface \in Reasons \cup {None} /\ ToolReason \in Reasons \cup {None}
    BY <1>0, SurfaceAnswers, ToolAnswers DEF Types, Reasons
  <2>3. surface = None <=> seen = None \/ SurfaceReason(ask, seen) = None
    OBVIOUS
  <2>4. ToolReason = None <=> "labview-cli" \in seenTools
    BY ToolAnswers, NoneAssumption DEF Reasons
  <2>5. ReadRight => /\ Usable /\ ~WantsDocker(ask)
                     /\ HostReady(ask) <=> surface = None /\ ToolReason = None
    BY <2>1, <2>3, <2>4, HostDecides, HostLaneIs DEF ReadRight
  <2> HIDE DEF surface
  <2>6. CASE surface # None
    <3>1. Select(Unavailable(surface))
      BY <2>1, <2>6, <1>0, NoFallback
    <3> QED BY <3>1, <2>1, <2>2, <2>5, <2>6, RefusedRightly
  <2>7. CASE surface = None /\ ToolReason = None
    <3>1. Select(HostNative)
      BY <2>1, <2>7, NoneAssumption DEF Reasons
    <3>2. HostNative.provider = "host-native"
      BY <1>0, HostNativeIs
    <3>3. ReadRight => There(HostNative)
      BY <2>5, <2>7, <3>2 DEF There, Containers
    <3> QED BY <3>1, <3>3, <2>1, SelectsRight
  <2>8. CASE surface = None /\ ToolReason # None
    <3>1. Select(Unavailable(ToolReason))
      BY <2>1, <2>8, <1>0, NoFallback, NoneAssumption DEF Reasons
    <3> QED BY <3>1, <2>1, <2>2, <2>5, <2>8, RefusedRightly
  <2> QED BY <2>6, <2>7, <2>8
(* The other steps do not select, and a move makes the reading stale. *)
<1>6. CASE Probe \/ Inspect \/ Observe \/ Listen \/ CliPull \/ NothingToAcquire \/ Packet
          \/ Preflight \/ ListenAgain \/ Previews \/ Quiesce \/ Launch \/ Exit
  <2>1. pc' # "located"
    BY <1>6 DEF Probe, Inspect, Observe, Listen, CliPull, NothingToAcquire, Packet, Preflight, ListenAgain,
       Previews, Quiesce, Launch, Exit, Acquire, End
  <2> QED BY <2>1 DEF SelectsWhatIsThere
<1>7. CASE StreamPull
  <2>1. pc' # "located"
    BY <1>7 DEF StreamPull, Acquire
  <2> QED BY <2>1 DEF SelectsWhatIsThere
<1>8. ASSUME Surroundings PROVE SelectsWhatIsThere'
  <2>1. stale' = (stale \/ pc # "gate") /\ pc' = pc
    BY <1>8 DEF Surroundings, LabviewStarts, LabviewQuits, DockerChanges, Move, local
  <2> QED BY <2>1 DEF SelectsWhatIsThere, ReadRight
<1>9. ASSUME UNCHANGED vars PROVE SelectsWhatIsThere'
  <2>1. UNCHANGED <<ask, pc, sel, seen, installed, tools, docker, running, other, stale>>
    BY <1>9 DEF vars, world, local
  <2>2. /\ ReadRight' = ReadRight /\ WantsDocker(ask)' = WantsDocker(ask)
        /\ HostReady(ask)' = HostReady(ask) /\ ContainerReady(ask)' = ContainerReady(ask)
    BY <2>1 DEF ReadRight, Resolved, Surface, Quiet, WantsDocker, HostReady, ContainerReady
  <2> QED BY <2>1, <2>2 DEF SelectsWhatIsThere
<1> QED BY <1>1, <1>2, <1>3, <1>4, <1>5, <1>6, <1>7, <1>8, <1>9 DEF Next, Run, Done

(* When nothing changes under the selection and its observations succeed,  *)
(* it finds what the settings ask for exactly when it is there.            *)
THEOREM FindsWhatIsThere == Spec => []SelectsWhatIsThere
<1>1. Init => SelectsWhatIsThere
  BY DEF Init, SelectsWhatIsThere
<1> QED BY <1>1, SelInvariant, SelectsStep, PTL DEF Spec
-----------------------------------------------------------------------------
(* The warming of changed VIs.  Its runtime is asked for once, before the  *)
(* plan; what the plan was made on still holds when a link starts LabVIEW, *)
(* unless a switch intervened; and a narrative agrees with its key because *)
(* a run that is not disturbed has its VI's report path to itself.         *)
Warming == INSTANCE ChangeWarming

(* The change that is warmed, a comparison, a record of a narrative.       *)
Links == [pc : {"idle", "gate", "preview", "rendering", "compare", "load", "run"},
          vi : Vi \cup {None}, on : BOOLEAN, plan : [preview : BOOLEAN, compare : BOOLEAN],
          base : Content \cup {Unread}, sel : Content \cup {Unread},
          switched : BOOLEAN, host : BOOLEAN]
Comparisons == [pc : {"off", "asked", "staged", "running"}, vi : Vi \cup {None},
                base : Content \cup {None}, staged : Content \cup {Unread}, clean : BOOLEAN]
Records == [vi : Vi, base : Content, report : (Content \X Content) \cup {Unread},
            sel : Content \cup {Unread}, clean : BOOLEAN]

ChangeTypes ==
    /\ head \in [Vi -> Content] /\ disk \in [Vi -> Content]
    /\ settings \in [docker : BOOLEAN, on : BOOLEAN, preview : BOOLEAN, trusted : BOOLEAN]
    /\ chain \in Seq(Vi)
    /\ link \in Links /\ (link.pc # "idle" => link.vi \in Vi)
    /\ runs \in [Warming!Runner -> Comparisons]
    /\ \A r \in Warming!Runner :
          /\ runs[r].pc # "off" => runs[r].vi \in Vi /\ runs[r].base \in Content
          /\ runs[r].pc \in {"staged", "running"} => runs[r].staged \in Content
    /\ report \in [Vi -> (Content \X Content) \cup {None}]
    /\ recorders \subseteq Records

(* What a planned change was planned on. *)
Planned == {"preview", "rendering", "compare", "load", "run"}
Gated ==
    /\ link.pc = "run" <=> runs["warm"].pc # "off"
    /\ link.pc \notin Planned => ~link.host /\ link.base = Unread /\ link.sel = Unread
    /\ link.pc \in Planned => settings.docker \/ link.switched
    /\ link.plan.compare => settings.trusted
    /\ link.pc \in {"load", "run"} \/ link.base # Unread => link.plan.compare
    /\ link.host => link.switched

(* A comparison, and then a record, that nothing has disturbed still sees  *)
(* the working tree, and has the report path to itself.                    *)
Alone(v) == \A q \in Warming!Runner : runs[q].pc # "off" => runs[q].vi # v
CleanRun(r) ==
    runs[r].clean =>
        /\ runs[r].pc # "off"
        /\ runs[r].pc \in {"staged", "running"} => runs[r].staged = disk[runs[r].vi]
        /\ \A q \in Warming!Runner \ {r} : runs[q].pc # "off" => runs[q].vi # runs[r].vi
Shown(x) == IF x.report = Unread THEN report[x.vi] ELSE x.report
CleanRecord(x) ==
    x.clean =>
        /\ Shown(x) = <<x.base, disk[x.vi]>>
        /\ x.sel \in {Unread, disk[x.vi]}
        /\ Alone(x.vi)
Undisturbed ==
    /\ \A r \in Warming!Runner : CleanRun(r)
    /\ \A x \in recorders : CleanRecord(x)
    /\ UndisturbedNarrative

ChangeInv == ChangeTypes /\ Gated /\ Undisturbed
-----------------------------------------------------------------------------
(* A disturbance leaves the runs as they are, but for being clean. *)
LEMMA DisturbedIs ==
  ASSUME ChangeTypes, NEW v, Warming!Disturbed(v)
  PROVE  /\ runs' \in [Warming!Runner -> Comparisons]
         /\ \A r \in Warming!Runner :
               /\ runs'[r].pc = runs[r].pc /\ runs'[r].vi = runs[r].vi
               /\ runs'[r].base = runs[r].base /\ runs'[r].staged = runs[r].staged
               /\ runs'[r].clean => runs[r].clean /\ runs[r].vi # v
<1>1. runs' = [r \in Warming!Runner |-> IF runs[r].vi = v THEN [runs[r] EXCEPT !.clean = FALSE] ELSE runs[r]]
  BY DEF Warming!Disturbed
<1>2. ASSUME NEW r \in Warming!Runner
      PROVE  /\ runs'[r] \in Comparisons
             /\ runs'[r].pc = runs[r].pc /\ runs'[r].vi = runs[r].vi
             /\ runs'[r].base = runs[r].base /\ runs'[r].staged = runs[r].staged
             /\ runs'[r].clean => runs[r].clean /\ runs[r].vi # v
  <2>1. runs[r] \in Comparisons
    BY DEF ChangeTypes
  <2>2. runs'[r] = IF runs[r].vi = v THEN [runs[r] EXCEPT !.clean = FALSE] ELSE runs[r]
    BY <1>1
  <2> QED BY <2>1, <2>2 DEF Comparisons
<1>3. runs' \in [Warming!Runner -> Comparisons]
  BY <1>1, <1>2
<1> QED BY <1>2, <1>3

(* ... and likewise the records. *)
LEMMA RecordsDisturbed ==
  ASSUME ChangeTypes, NEW v,
         recorders' = {IF x.vi = v THEN [x EXCEPT !.clean = FALSE] ELSE x : x \in recorders}
  PROVE  /\ recorders' \subseteq Records
         /\ \A y \in recorders' : y.clean => y \in recorders /\ y.vi # v
<1> SUFFICES ASSUME NEW y \in recorders'
             PROVE  y \in Records /\ (y.clean => y \in recorders /\ y.vi # v)
  OBVIOUS
<1>1. PICK x \in recorders : y = IF x.vi = v THEN [x EXCEPT !.clean = FALSE] ELSE x
  OBVIOUS
<1>2. x \in Records
  BY DEF ChangeTypes
<1> QED BY <1>1, <1>2 DEF Records

(* A comparison is asked for: it is clean if no other is of its VI, and it *)
(* disturbs those that are.                                                *)
LEMMA AskIs ==
  ASSUME ChangeTypes, NEW r \in Warming!Runner, NEW v \in Vi, NEW b \in Content, Warming!Ask(r, v, b)
  PROVE  /\ runs' \in [Warming!Runner -> Comparisons]
         /\ runs'[r].pc = "asked" /\ runs'[r].vi = v /\ runs'[r].base = b
         /\ runs'[r].clean => \A q \in Warming!Runner : runs[q].vi # v
         /\ \A q \in Warming!Runner \ {r} :
               /\ runs'[q].pc = runs[q].pc /\ runs'[q].vi = runs[q].vi
               /\ runs'[q].base = runs[q].base /\ runs'[q].staged = runs[q].staged
               /\ runs'[q].clean => runs[q].clean /\ runs[q].vi # v
<1> DEFINE asked == [pc |-> "asked", vi |-> v, base |-> b, staged |-> Unread,
                     clean |-> \A q \in Warming!Runner : runs[q].vi # v]
<1>1. runs' = [q \in Warming!Runner |-> IF q = r THEN asked
                                        ELSE IF runs[q].vi = v THEN [runs[q] EXCEPT !.clean = FALSE]
                                        ELSE runs[q]]
  BY DEF Warming!Ask
<1>2. asked \in Comparisons
  BY DEF Comparisons
<1>3. /\ asked.pc = "asked" /\ asked.vi = v /\ asked.base = b
      /\ asked.clean <=> \A q \in Warming!Runner : runs[q].vi # v
  OBVIOUS
<1> HIDE DEF asked
<1> QED BY <1>1, <1>2, <1>3 DEF ChangeTypes, Comparisons

LEMMA ChangeInit == Warming!Init => ChangeInv
<1> SUFFICES ASSUME Warming!Init PROVE ChangeInv
  OBVIOUS
<1>1. Warming!IdleLink \in Links /\ Warming!NoRun \in Comparisons
  BY DEF Warming!IdleLink, Warming!NoRun, Warming!NoPlan, NoPlan, Links, Comparisons
<1>2. ChangeTypes
  <2>1. head \in [Vi -> Content] /\ disk \in [Vi -> Content]
    BY DEF Warming!Init
  <2>2. link \in Links /\ link.pc = "idle"
    BY <1>1 DEF Warming!Init, Warming!IdleLink
  <2>3. runs \in [Warming!Runner -> Comparisons] /\ \A r \in Warming!Runner : runs[r].pc = "off"
    BY <1>1 DEF Warming!Init, Warming!NoRun
  <2>4. chain \in Seq(Vi) /\ report \in [Vi -> (Content \X Content) \cup {None}]
        /\ recorders \subseteq Records
        /\ settings \in [docker : BOOLEAN, on : BOOLEAN, preview : BOOLEAN, trusted : BOOLEAN]
    BY DEF Warming!Init
  <2> QED BY <2>1, <2>2, <2>3, <2>4 DEF ChangeTypes
<1>3. Gated
  BY DEF Gated, Warming!Init, Warming!IdleLink, Warming!NoRun, Warming!Runner, Planned,
     Warming!NoPlan, NoPlan
<1>4. Undisturbed
  BY DEF Undisturbed, CleanRun, Warming!Init, Warming!NoRun, UndisturbedNarrative
<1> QED BY <1>2, <1>3, <1>4 DEF ChangeInv

(* A comparison that is asked for, by the link or by the user. *)
LEMMA Asking ==
  ASSUME ChangeTypes, Undisturbed, NEW r \in Warming!Runner, NEW v \in Vi, NEW b \in Content,
         Warming!Ask(r, v, b),
         recorders' = {IF x.vi = v THEN [x EXCEPT !.clean = FALSE] ELSE x : x \in recorders},
         link' \in Links, link'.pc # "idle" => link'.vi \in Vi,
         UNCHANGED <<head, disk, settings, chain, report, narratives>>
  PROVE  ChangeTypes' /\ Undisturbed'
<1>1. /\ runs' \in [Warming!Runner -> Comparisons]
      /\ runs'[r].pc = "asked" /\ runs'[r].vi = v /\ runs'[r].base = b
      /\ runs'[r].clean => \A q \in Warming!Runner : runs[q].vi # v
      /\ \A q \in Warming!Runner \ {r} :
            /\ runs'[q].pc = runs[q].pc /\ runs'[q].vi = runs[q].vi
            /\ runs'[q].base = runs[q].base /\ runs'[q].staged = runs[q].staged
            /\ runs'[q].clean => runs[q].clean /\ runs[q].vi # v
  BY AskIs
<1>2. recorders' \subseteq Records /\ \A y \in recorders' : y.clean => y \in recorders /\ y.vi # v
  BY RecordsDisturbed
<1>3. ChangeTypes'
  BY <1>1, <1>2 DEF ChangeTypes
<1>4. ASSUME NEW q \in Warming!Runner PROVE CleanRun(q)'
  BY <1>1 DEF Undisturbed, CleanRun
<1>5. ASSUME NEW y \in recorders' PROVE CleanRecord(y)'
  BY <1>1, <1>2 DEF Undisturbed, CleanRecord, Shown, Alone
<1>6. UndisturbedNarrative'
  BY DEF Undisturbed, UndisturbedNarrative
<1> QED BY <1>3, <1>4, <1>5, <1>6 DEF Undisturbed

(* What does not touch the files, the runs and the records disturbs none. *)
LEMMA UndisturbedKept ==
  ASSUME Undisturbed, UNCHANGED <<disk, runs, recorders, report, narratives>>
  PROVE  Undisturbed'
BY DEF Undisturbed, CleanRun, CleanRecord, Shown, Alone, UndisturbedNarrative

(* A step of the chain and its link, which starts and ends no comparison. *)
LEMMA LinkStep ==
  ASSUME ChangeInv, chain' \in Seq(Vi),
         link' \in Links, link'.pc # "idle" => link'.vi \in Vi,
         UNCHANGED <<head, disk, settings, runs, report, recorders, narratives>>, Gated'
  PROVE  ChangeInv'
<1>1. ChangeTypes'
  BY DEF ChangeInv, ChangeTypes
<1>2. Undisturbed'
  BY UndisturbedKept DEF ChangeInv
<1> QED BY <1>1, <1>2 DEF ChangeInv

LEMMA ChangeSteps ==
  ASSUME ChangeInv, Warming!Change
  PROVE  ChangeInv'
<1>0. /\ ChangeTypes /\ Gated /\ Undisturbed /\ link \in Links /\ chain \in Seq(Vi)
      /\ head \in [Vi -> Content] /\ disk \in [Vi -> Content]
      /\ settings \in [docker : BOOLEAN, on : BOOLEAN, preview : BOOLEAN, trusted : BOOLEAN]
      /\ link.pc # "idle" => link.vi \in Vi
  BY DEF ChangeInv, ChangeTypes
<1>1. Warming!IdleLink \in Links /\ Warming!IdleLink.pc = "idle" /\ Warming!IdleLink.host = FALSE
      /\ Warming!IdleLink.base = Unread /\ Warming!IdleLink.sel = Unread
      /\ Warming!IdleLink.plan.compare = FALSE
  BY DEF Warming!IdleLink, Warming!NoPlan, NoPlan, Links
<1>2. ASSUME link' = Warming!IdleLink, link.pc # "run", chain' = chain,
             UNCHANGED <<head, disk, settings, runs, report, recorders, narratives>>
      PROVE  ChangeInv'
  <2>1. Gated'
    BY <1>2, <1>1, <1>0 DEF Gated, Planned
  <2> QED BY <2>1, <1>2, <1>1, <1>0, LinkStep
<1>3. CASE Warming!BeginChange
  <2>1. link.pc = "idle" /\ chain # <<>> /\ chain' = Tail(chain)
        /\ UNCHANGED <<head, disk, settings, runs, report, recorders, narratives>>
        /\ link' = IF disposed THEN Warming!IdleLink
                   ELSE [Warming!IdleLink EXCEPT !.pc = "gate", !.vi = Head(chain), !.on = settings.on]
    BY <1>3 DEF Warming!BeginChange, Warming!surroundings
  <2>2. chain' \in Seq(Vi) /\ Head(chain) \in Vi
    BY <2>1, <1>0
  <2>3. link' \in Links /\ (link'.pc # "idle" => link'.vi \in Vi) /\ link'.pc \in {"idle", "gate"}
        /\ ~link'.host /\ link'.base = Unread /\ link'.sel = Unread /\ ~link'.plan.compare
    BY <2>1, <2>2, <1>1, <1>0 DEF Links
  <2>4. Gated'
    BY <2>1, <2>3, <1>0 DEF Gated, Planned
  <2> QED BY <2>1, <2>2, <2>3, <2>4, LinkStep
<1>4. CASE Warming!MakePlan
  <2>1. PICK isDocker \in {FALSE, settings.docker} :
          link' = IF Warming!resolveViChangeWarmPlan(link.on, isDocker) = NoPlan THEN Warming!IdleLink
                  ELSE [link EXCEPT !.pc = "preview",
                                    !.plan = Warming!resolveViChangeWarmPlan(link.on, isDocker),
                                    !.switched = FALSE]
    BY <1>4 DEF Warming!MakePlan, Warming!NoPlan, NoPlan
  <2>2. /\ link.pc = "gate" /\ chain' = chain
        /\ UNCHANGED <<head, disk, settings, runs, report, recorders, narratives>>
    BY <1>4 DEF Warming!MakePlan, Warming!surroundings
  <2> DEFINE plan == Warming!resolveViChangeWarmPlan(link.on, isDocker)
  <2>3. /\ plan \in [preview : BOOLEAN, compare : BOOLEAN]
        /\ plan # NoPlan => isDocker
        /\ plan.compare => settings.trusted
    BY <1>0 DEF Warming!resolveViChangeWarmPlan, Warming!NoPlan, NoPlan
  <2> HIDE DEF plan
  <2>4. CASE plan = NoPlan
    BY <2>4, <2>1, <2>2, <1>2 DEF plan
  <2>5. CASE plan # NoPlan
    <3>1. link' = [link EXCEPT !.pc = "preview", !.plan = plan, !.switched = FALSE] /\ settings.docker
      BY <2>1, <2>3, <2>5 DEF plan
    <3>2. link' \in Links /\ link'.vi \in Vi
      BY <3>1, <2>2, <2>3, <1>0 DEF Links
    <3>3. Gated'
      BY <3>1, <2>2, <2>3, <1>0 DEF Gated, Planned, Links
    <3> QED BY <3>2, <3>3, <2>2, <1>0, LinkStep
  <2> QED BY <2>4, <2>5
<1>5. CASE Warming!WarmPreview \/ Warming!PreviewEnds
  <2>1. /\ UNCHANGED <<head, disk, settings, chain, runs, report, recorders, narratives>>
        /\ \/ link.pc = "preview" /\ link' = [link EXCEPT !.pc = "rendering", !.host = @ \/ ~settings.docker]
           \/ link.pc \in {"preview", "rendering"} /\ link' = [link EXCEPT !.pc = "compare"]
    BY <1>5 DEF Warming!WarmPreview, Warming!PreviewEnds, Warming!AfterPreview, Warming!surroundings
  <2>2. link' \in Links /\ link'.vi \in Vi
    BY <2>1, <1>0 DEF Links
  <2>3. Gated'
    BY <2>1, <1>0 DEF Gated, Planned, Links
  <2> QED BY <2>1, <2>2, <2>3, <1>0, LinkStep
<1>6. CASE Warming!SkipComparison
  BY <1>6, <1>2 DEF Warming!SkipComparison, Warming!EndLink, Warming!surroundings
<1>7. CASE Warming!ReadSignature
  <2>1. /\ UNCHANGED <<head, disk, settings, chain, runs, report, recorders, narratives>>
        /\ link.pc = "compare" /\ link.plan.compare
        /\ \/ link' = [link EXCEPT !.base = head[link.vi]]
           \/ link' = [link EXCEPT !.sel = disk[link.vi]]
           \/ link' = Warming!IdleLink
    BY <1>7 DEF Warming!ReadSignature, Warming!EndLink, Warming!surroundings
  <2>2. CASE link' = Warming!IdleLink
    BY <2>1, <2>2, <1>2
  <2>3. CASE link' = [link EXCEPT !.base = head[link.vi]] \/ link' = [link EXCEPT !.sel = disk[link.vi]]
    <3>1. link' \in Links /\ link'.vi \in Vi
      BY <2>1, <2>3, <1>0 DEF Links
    <3>2. Gated'
      BY <2>1, <2>3, <1>0 DEF Gated, Planned, Links
    <3> QED BY <2>1, <3>1, <3>2, <1>0, LinkStep
  <2> QED BY <2>1, <2>2, <2>3
<1>8. CASE Warming!LookUp
  <2>1. /\ UNCHANGED <<head, disk, settings, chain, runs, report, recorders, narratives>>
        /\ link.pc = "compare" /\ link.base # Unread
        /\ link' = Warming!IdleLink \/ link' = [link EXCEPT !.pc = "load"]
    BY <1>8 DEF Warming!LookUp, Warming!EndLink, Warming!surroundings
  <2>2. CASE link' = Warming!IdleLink
    BY <2>1, <2>2, <1>2
  <2>3. CASE link' = [link EXCEPT !.pc = "load"]
    <3>1. link' \in Links /\ link'.vi \in Vi
      BY <2>1, <2>3, <1>0 DEF Links
    <3>2. Gated'
      BY <2>1, <2>3, <1>0 DEF Gated, Planned, Links
    <3> QED BY <2>1, <3>1, <3>2, <1>0, LinkStep
  <2> QED BY <2>1, <2>2, <2>3
<1>9. CASE Warming!LoadHistory
  <2>1. /\ link.pc = "load" /\ chain' = chain /\ link.vi \in Vi /\ head[link.vi] \in Content
        /\ UNCHANGED <<head, disk, settings, report, narratives>>
    BY <1>9, <1>0 DEF Warming!LoadHistory, Warming!surroundings
  <2>2. CASE link' = Warming!IdleLink /\ UNCHANGED <<runs, recorders>>
    BY <2>1, <2>2, <1>2
  <2>3. CASE /\ Warming!Ask("warm", link.vi, head[link.vi])
             /\ link' = [link EXCEPT !.pc = "run"]
             /\ recorders' = {IF x.vi = link.vi THEN [x EXCEPT !.clean = FALSE] ELSE x : x \in recorders}
    <3>1. link' \in Links /\ link'.vi \in Vi /\ link'.pc = "run"
      BY <2>1, <2>3, <1>0 DEF Links
    <3>2. runs'["warm"].pc = "asked"
      BY <2>1, <2>3, <1>0, AskIs DEF Warming!Runner
    <3>3. Gated'
      BY <2>1, <2>3, <3>1, <3>2, <1>0 DEF Gated, Planned, Links
    <3>4. ChangeTypes' /\ Undisturbed'
      BY <2>1, <2>3, <3>1, <1>0, Asking DEF Warming!Runner
    <3> QED BY <3>3, <3>4 DEF ChangeInv
  <2> QED BY <2>2, <2>3, <1>9 DEF Warming!LoadHistory, Warming!EndLink
<1> QED BY <1>3, <1>4, <1>5, <1>6, <1>7, <1>8, <1>9 DEF Warming!Change

(* A comparison goes on: the link waits, or the report path is cleared. *)
LEMMA RunGoesOn ==
  ASSUME ChangeInv, NEW r \in Warming!Runner, Warming!Stage(r) \/ Warming!Clear(r)
  PROVE  ChangeInv'
<1>0. /\ ChangeTypes /\ Gated /\ Undisturbed /\ link \in Links /\ runs \in [Warming!Runner -> Comparisons]
      /\ disk \in [Vi -> Content] /\ report \in [Vi -> (Content \X Content) \cup {None}]
      /\ runs[r] \in Comparisons /\ (link.pc # "idle" => link.vi \in Vi)
  BY DEF ChangeInv, ChangeTypes
<1>1. /\ runs[r].pc # "off" /\ runs[r].vi \in Vi /\ runs[r].base \in Content
      /\ UNCHANGED <<head, disk, settings, chain, recorders, narratives>>
  BY <1>0 DEF Warming!Stage, Warming!Clear, Warming!surroundings, ChangeTypes
<1>2. /\ runs' \in [Warming!Runner -> Comparisons]
      /\ \A q \in Warming!Runner \ {r} : runs'[q] = runs[q]
      /\ runs'[r].pc \in {"staged", "running"} /\ runs'[r].vi = runs[r].vi
      /\ runs'[r].base = runs[r].base /\ runs'[r].clean = runs[r].clean
      /\ runs'[r].staged \in Content
      /\ runs'[r].staged = disk[runs[r].vi] \/ (runs[r].pc = "staged" /\ runs'[r].staged = runs[r].staged)
  <2>1. CASE Warming!Stage(r)
    BY <2>1, <1>0, <1>1 DEF Warming!Stage, Comparisons
  <2>2. CASE Warming!Clear(r)
    BY <2>2, <1>0, <1>1 DEF Warming!Clear, Comparisons, ChangeTypes
  <2> QED BY <2>1, <2>2
<1>3. \/ report' = report
      \/ report' = [report EXCEPT ![runs[r].vi] = None]
  BY DEF Warming!Stage, Warming!Clear
<1>4. /\ link' \in Links /\ link'.pc = link.pc /\ link'.vi = link.vi
      /\ link'.base = link.base /\ link'.sel = link.sel /\ link'.plan = link.plan
      /\ link'.switched = link.switched
      /\ link'.host => link.host \/ (r = "warm" /\ ~settings.docker)
  <2>1. CASE link' = link
    BY <2>1, <1>0
  <2>2. CASE r = "warm" /\ link' = [link EXCEPT !.host = @ \/ ~settings.docker]
    BY <2>2, <1>0 DEF Links
  <2> QED BY <2>1, <2>2 DEF Warming!Stage, Warming!Clear
<1>5. ChangeTypes'
  BY <1>0, <1>1, <1>2, <1>3, <1>4 DEF ChangeTypes
<1>6. Gated'
  <2>1. runs'["warm"].pc # "off" <=> runs["warm"].pc # "off"
    BY <1>1, <1>2 DEF Warming!Runner
  <2> QED BY <2>1, <1>0, <1>1, <1>4 DEF Gated, Planned
<1>7. ASSUME NEW q \in Warming!Runner PROVE CleanRun(q)'
  BY <1>0, <1>1, <1>2 DEF Undisturbed, CleanRun
<1>8. ASSUME NEW x \in recorders' PROVE CleanRecord(x)'
  <2>1. x \in recorders /\ x \in Records
    BY <1>1, <1>0 DEF ChangeTypes
  <2>2. x.clean => x.vi # runs[r].vi
    BY <2>1, <1>0, <1>1 DEF Undisturbed, CleanRecord, Alone
  <2>3. Shown(x)' = Shown(x) \/ x.vi = runs[r].vi
    BY <2>1, <1>0, <1>3 DEF Shown, Records
  <2> QED BY <2>1, <2>2, <2>3, <1>0, <1>1, <1>2 DEF Undisturbed, CleanRecord, Alone
<1>9. UndisturbedNarrative'
  BY <1>0, <1>1 DEF Undisturbed, UndisturbedNarrative
<1> QED BY <1>5, <1>6, <1>7, <1>8, <1>9 DEF ChangeInv, Undisturbed

(* A comparison ends, with the report of what it staged or without one. *)
LEMMA RunEnds ==
  ASSUME ChangeInv, NEW r \in Warming!Runner, Warming!Succeed(r) \/ Warming!Fail(r)
  PROVE  ChangeInv'
<1>0. /\ ChangeTypes /\ Gated /\ Undisturbed /\ link \in Links /\ runs \in [Warming!Runner -> Comparisons]
      /\ disk \in [Vi -> Content] /\ report \in [Vi -> (Content \X Content) \cup {None}]
      /\ runs[r] \in Comparisons /\ (link.pc # "idle" => link.vi \in Vi) /\ recorders \subseteq Records
  BY DEF ChangeInv, ChangeTypes
<1>1. PICK v : v = runs[r].vi
  OBVIOUS
<1>2. PICK kept \in BOOLEAN :
        /\ kept => /\ runs[r].pc = "running"
                   /\ report' = [report EXCEPT ![v] = <<runs[r].base, runs[r].staged>>]
        /\ ~kept => report' = report
        /\ Warming!Concluded(r, v, kept)
  <2>1. CASE Warming!Succeed(r)
    BY <2>1, <1>1 DEF Warming!Succeed
  <2>2. CASE Warming!Fail(r)
    BY <2>2, <1>1 DEF Warming!Fail
  <2> QED BY <2>1, <2>2
<1>3. /\ runs[r].pc # "off" /\ v \in Vi /\ runs[r].base \in Content
      /\ kept => runs[r].staged \in Content
      /\ UNCHANGED <<head, disk, settings, chain, narratives>>
  BY <1>0, <1>2, <1>1 DEF Warming!Succeed, Warming!Fail, Warming!surroundings, ChangeTypes
<1>4. PICK y : y = [vi |-> v, base |-> runs[r].base, report |-> Unread, sel |-> Unread,
                    clean |-> runs[r].clean /\ kept]
  OBVIOUS
<1>5. /\ runs' = [runs EXCEPT ![r] = Warming!NoRun]
      /\ recorders' \subseteq recorders \cup {y}
      /\ link' = IF r = "warm" THEN Warming!IdleLink ELSE link
  BY <1>2, <1>4 DEF Warming!Concluded
<1>6. /\ Warming!NoRun \in Comparisons /\ Warming!NoRun.pc = "off" /\ Warming!NoRun.clean = FALSE
      /\ Warming!IdleLink \in Links /\ Warming!IdleLink.pc = "idle" /\ Warming!IdleLink.host = FALSE
      /\ Warming!IdleLink.base = Unread /\ Warming!IdleLink.sel = Unread
      /\ Warming!IdleLink.plan.compare = FALSE
  BY DEF Warming!NoRun, Warming!IdleLink, Warming!NoPlan, NoPlan, Links, Comparisons
<1>7. y \in Records
  BY <1>0, <1>3, <1>4 DEF Records, Comparisons
<1>8. /\ y.vi = v /\ y.base = runs[r].base /\ y.report = Unread /\ y.sel = Unread
      /\ y.clean <=> runs[r].clean /\ kept
  BY <1>0, <1>4 DEF Comparisons
<1>9. /\ runs' \in [Warming!Runner -> Comparisons] /\ runs'[r].pc = "off" /\ runs'[r].clean = FALSE
      /\ \A q \in Warming!Runner \ {r} : runs'[q] = runs[q]
  BY <1>0, <1>5, <1>6
<1>10. report' \in [Vi -> (Content \X Content) \cup {None}] /\ \A u \in Vi \ {v} : report'[u] = report[u]
  BY <1>0, <1>2, <1>3
<1>11. link' \in Links /\ (link'.pc # "idle" => link'.vi \in Vi)
  BY <1>0, <1>5, <1>6
<1>12. ChangeTypes'
  BY <1>0, <1>3, <1>5, <1>7, <1>9, <1>10, <1>11 DEF ChangeTypes
<1>13. Gated'
  <2>1. r # "warm" => runs'["warm"] = runs["warm"]
    BY <1>9 DEF Warming!Runner
  <2> QED BY <2>1, <1>0, <1>3, <1>5, <1>6, <1>9 DEF Gated, Planned
<1>14. ASSUME NEW q \in Warming!Runner PROVE CleanRun(q)'
  BY <1>0, <1>3, <1>9 DEF Undisturbed, CleanRun
<1>15. CleanRecord(y)'
  <2>1. SUFFICES ASSUME y.clean PROVE CleanRecord(y)'
    BY DEF CleanRecord
  <2>2. runs[r].clean /\ kept /\ runs[r].staged = disk[v]
    BY <2>1, <1>1, <1>0, <1>2, <1>8 DEF Undisturbed, CleanRun
  <2>3. report'[v] = <<runs[r].base, disk[v]>>
    BY <2>2, <1>1, <1>0, <1>2, <1>3
  <2>4. Alone(v)'
    BY <2>2, <1>1, <1>0, <1>9 DEF Undisturbed, CleanRun, Alone
  <2> QED BY <2>3, <2>4, <1>3, <1>8 DEF CleanRecord, Shown
<1>16. ASSUME NEW x \in recorders' PROVE CleanRecord(x)'
  <2>1. CASE x = y
    BY <2>1, <1>15
  <2>2. CASE x # y
    <3>1. x \in recorders /\ x \in Records
      BY <2>2, <1>5, <1>0
    <3>2. x.clean => x.vi # v
      BY <3>1, <1>1, <1>0, <1>3 DEF Undisturbed, CleanRecord, Alone
    <3>3. x.clean => Shown(x)' = Shown(x)
      BY <3>1, <3>2, <1>10 DEF Shown, Records
    <3> QED BY <3>1, <3>2, <3>3, <1>0, <1>3, <1>9 DEF Undisturbed, CleanRecord, Alone
  <2> QED BY <2>1, <2>2
<1>17. UndisturbedNarrative'
  BY <1>0, <1>3 DEF Undisturbed, UndisturbedNarrative
<1> QED BY <1>12, <1>13, <1>14, <1>16, <1>17 DEF ChangeInv, Undisturbed

(* A record reads the report, the working tree, and is filed. *)
LEMMA RecordingSteps ==
  ASSUME ChangeInv, NEW x \in recorders,
         Warming!ReadReport(x) \/ Warming!HashWorktree(x) \/ Warming!RecordNarrative(x)
  PROVE  ChangeInv'
<1>0. /\ ChangeTypes /\ Gated /\ Undisturbed /\ x \in Records /\ recorders \subseteq Records
      /\ disk \in [Vi -> Content] /\ report \in [Vi -> (Content \X Content) \cup {None}]
      /\ CleanRecord(x)
  BY DEF ChangeInv, ChangeTypes, Undisturbed
<1>1. UNCHANGED <<head, disk, settings, chain, link, runs, report>>
  BY DEF Warming!ReadReport, Warming!HashWorktree, Warming!RecordNarrative, Warming!surroundings
<1>2. /\ Gated' /\ \A q \in Warming!Runner : CleanRun(q)'
      /\ \A y \in recorders : CleanRecord(y)'
  BY <1>0, <1>1 DEF Gated, Undisturbed, CleanRun, CleanRecord, Shown, Alone
<1>3. ASSUME NEW y \in Records, CleanRecord(y), recorders' \subseteq recorders \cup {y}, UndisturbedNarrative'
      PROVE  ChangeInv'
  <2>1. ChangeTypes'
    BY <1>0, <1>1, <1>3 DEF ChangeTypes
  <2>2. CleanRecord(y)'
    BY <1>1, <1>3 DEF CleanRecord, Shown, Alone
  <2>3. \A z \in recorders' : CleanRecord(z)'
    BY <1>2, <1>3, <2>2
  <2> QED BY <1>2, <1>3, <2>1, <2>3 DEF ChangeInv, Undisturbed
<1>4. CASE narratives' = narratives
  <2>1. UndisturbedNarrative'
    BY <1>4, <1>0 DEF Undisturbed, UndisturbedNarrative
  <2>2. \/ recorders' = recorders \ {x}
        \/ report[x.vi] # None /\ x.report = Unread
             /\ recorders' = (recorders \ {x}) \cup {[x EXCEPT !.report = report[x.vi]]}
        \/ recorders' = (recorders \ {x}) \cup {[x EXCEPT !.sel = disk[x.vi]]}
    BY DEF Warming!ReadReport, Warming!HashWorktree, Warming!RecordNarrative, Warming!Dropped, Warming!Becomes
  <2>3. CASE recorders' = recorders \ {x}
    BY <2>1, <2>3, <1>0, <1>3
  <2>4. CASE report[x.vi] # None /\ x.report = Unread
             /\ recorders' = (recorders \ {x}) \cup {[x EXCEPT !.report = report[x.vi]]}
    <3> DEFINE y == [x EXCEPT !.report = report[x.vi]]
    <3>1. y \in Records /\ y.vi = x.vi /\ y.base = x.base /\ y.sel = x.sel /\ y.clean = x.clean
          /\ y.report = report[x.vi]
      BY <2>4, <1>0 DEF Records
    <3> HIDE DEF y
    <3>2. CleanRecord(y)
      BY <3>1, <2>4, <1>0 DEF CleanRecord, Shown
    <3> QED BY <3>1, <3>2, <2>1, <2>4, <1>3 DEF y
  <2>5. CASE recorders' = (recorders \ {x}) \cup {[x EXCEPT !.sel = disk[x.vi]]}
    <3> DEFINE y == [x EXCEPT !.sel = disk[x.vi]]
    <3>1. y \in Records /\ y.vi = x.vi /\ y.base = x.base /\ y.report = x.report /\ y.clean = x.clean
          /\ y.sel = disk[x.vi]
      BY <1>0 DEF Records
    <3> HIDE DEF y
    <3>2. CleanRecord(y)
      BY <3>1, <1>0 DEF CleanRecord, Shown
    <3> QED BY <3>1, <3>2, <2>1, <2>5, <1>3 DEF y
  <2> QED BY <2>2, <2>3, <2>4, <2>5
<1>5. CASE narratives' # narratives
  <2> DEFINE n == [key |-> Warming!FiledUnder(x), of |-> x.report, clean |-> x.clean]
  <2>1. /\ Unread \notin {x.report, x.sel} /\ recorders' = recorders \ {x}
        /\ narratives' \subseteq narratives \cup {n}
    BY <1>5 DEF Warming!ReadReport, Warming!HashWorktree, Warming!RecordNarrative
  <2>2. n.clean => n.key = <<n.key[1], n.of[1], n.of[2]>>
    <3>1. n.key = <<x.vi, x.base, x.sel>> /\ n.of = x.report /\ n.clean = x.clean
      BY DEF Warming!FiledUnder, Warming!computeViSemanticNarrativeCacheKey
    <3>2. x.clean => x.report = <<x.base, disk[x.vi]>> /\ x.sel = disk[x.vi]
      BY <2>1, <1>0 DEF CleanRecord, Shown
    <3> QED BY <3>1, <3>2
  <2> HIDE DEF n
  <2>3. UndisturbedNarrative'
    BY <2>1, <2>2, <1>0 DEF Undisturbed, UndisturbedNarrative
  <2> QED BY <2>1, <2>3, <1>0, <1>3
<1> QED BY <1>4, <1>5

(* What the user and the file system do. *)
LEMMA OthersSteps ==
  ASSUME ChangeInv, Warming!Others
  PROVE  ChangeInv'
<1>0. /\ ChangeTypes /\ Gated /\ Undisturbed /\ link \in Links
      /\ head \in [Vi -> Content] /\ disk \in [Vi -> Content]
      /\ settings \in [docker : BOOLEAN, on : BOOLEAN, preview : BOOLEAN, trusted : BOOLEAN]
      /\ (link.pc # "idle" => link.vi \in Vi) /\ "warm" \in Warming!Runner
  BY DEF ChangeInv, ChangeTypes, Warming!Runner
<1>1. ASSUME NEW v \in Vi, Warming!Save(v) PROVE ChangeInv'
  <2>1. PICK c \in Content : disk' = [disk EXCEPT ![v] = c]
    BY <1>1 DEF Warming!Save
  <2>2. UNCHANGED <<head, settings, chain, link, report, narratives>>
    BY <1>1 DEF Warming!Save
  <2>3. /\ runs' \in [Warming!Runner -> Comparisons]
        /\ \A r \in Warming!Runner :
              /\ runs'[r].pc = runs[r].pc /\ runs'[r].vi = runs[r].vi
              /\ runs'[r].base = runs[r].base /\ runs'[r].staged = runs[r].staged
              /\ runs'[r].clean => runs[r].clean /\ runs[r].vi # v
    BY <1>1, <1>0, DisturbedIs DEF Warming!Save
  <2>4. recorders' \subseteq Records /\ \A y \in recorders' : y.clean => y \in recorders /\ y.vi # v
    <3>1. recorders' = {IF x.vi = v THEN [x EXCEPT !.clean = FALSE] ELSE x : x \in recorders}
      BY <1>1 DEF Warming!Save, Warming!Disturbed
    <3> QED BY <3>1, <1>0, RecordsDisturbed
  <2>5. disk' \in [Vi -> Content] /\ \A u \in Vi \ {v} : disk'[u] = disk[u]
    BY <2>1, <1>0
  <2>6. ChangeTypes'
    BY <2>2, <2>3, <2>4, <2>5, <1>0 DEF ChangeTypes
  <2>7. Gated'
    BY <2>2, <2>3, <1>0 DEF Gated
  <2>8. ASSUME NEW r \in Warming!Runner PROVE CleanRun(r)'
    <3>1. runs[r].pc # "off" => runs[r].vi \in Vi
      BY <1>0 DEF ChangeTypes
    <3> QED BY <3>1, <2>3, <2>5, <1>0 DEF Undisturbed, CleanRun
  <2>9. ASSUME NEW y \in recorders' PROVE CleanRecord(y)'
    <3>1. y \in Records
      BY <2>4
    <3> QED BY <3>1, <2>2, <2>3, <2>4, <2>5, <1>0 DEF Undisturbed, CleanRecord, Shown, Alone, Records
  <2>10. UndisturbedNarrative'
    BY <2>2, <1>0 DEF Undisturbed, UndisturbedNarrative
  <2> QED BY <2>6, <2>7, <2>8, <2>9, <2>10 DEF ChangeInv, Undisturbed
<1>2. ASSUME NEW v \in Vi, Warming!Commit(v) PROVE ChangeInv'
  <2>1. head' \in [Vi -> Content]
        /\ UNCHANGED <<disk, settings, chain, link, runs, report, recorders, narratives>>
    BY <1>2, <1>0 DEF Warming!Commit
  <2>2. ChangeTypes' /\ Gated'
    BY <2>1, <1>0 DEF ChangeTypes, Gated
  <2> QED BY <2>1, <2>2, <1>0, UndisturbedKept DEF ChangeInv
<1>3. ASSUME NEW v \in Vi, Warming!CompareByHand(v) PROVE ChangeInv'
  <2>1. PICK b \in Content : Warming!Ask("manual", v, b)
    BY <1>3 DEF Warming!CompareByHand
  <2>2. /\ recorders' = {IF x.vi = v THEN [x EXCEPT !.clean = FALSE] ELSE x : x \in recorders}
        /\ UNCHANGED <<head, disk, settings, chain, link, report, narratives>>
    BY <1>3 DEF Warming!CompareByHand
  <2>3. "manual" \in Warming!Runner /\ "warm" \in Warming!Runner \ {"manual"}
    BY DEF Warming!Runner
  <2>4. ChangeTypes' /\ Undisturbed'
    BY <2>1, <2>2, <2>3, <1>0, Asking
  <2>5. runs'["warm"].pc = runs["warm"].pc
    BY <2>1, <2>3, <1>0, AskIs
  <2>6. Gated'
    BY <2>2, <2>5, <1>0 DEF Gated
  <2> QED BY <2>4, <2>6 DEF ChangeInv
<1>4. CASE Warming!ChangeSetting
  <2>1. PICK s \in DOMAIN settings :
          /\ s = "trusted" => ~settings.trusted
          /\ settings' = [settings EXCEPT ![s] = ~@]
          /\ link' = [link EXCEPT !.switched = @ \/ s = "docker"]
    BY <1>4 DEF Warming!ChangeSetting
  <2>2. UNCHANGED <<head, disk, chain, runs, report, recorders, narratives>>
    BY <1>4 DEF Warming!ChangeSetting
  <2>3. s \in {"docker", "on", "preview", "trusted"}
    BY <2>1, <1>0
  <2>4. /\ settings' \in [docker : BOOLEAN, on : BOOLEAN, preview : BOOLEAN, trusted : BOOLEAN]
        /\ settings.trusted => settings'.trusted
        /\ s # "docker" => settings'.docker = settings.docker
    BY <2>1, <2>3, <1>0
  <2>5. /\ link' \in Links /\ link'.pc = link.pc /\ link'.vi = link.vi
        /\ link'.base = link.base /\ link'.sel = link.sel /\ link'.plan = link.plan
        /\ link'.host = link.host /\ (link'.switched <=> link.switched \/ s = "docker")
    BY <2>1, <1>0 DEF Links
  <2>6. ChangeTypes'
    BY <2>2, <2>4, <2>5, <1>0 DEF ChangeTypes
  <2>7. Gated'
    BY <2>2, <2>4, <2>5, <1>0 DEF Gated
  <2> QED BY <2>2, <2>6, <2>7, <1>0, UndisturbedKept DEF ChangeInv
<1>5. CASE Warming!Dispose
  <2>1. UNCHANGED <<head, disk, settings, chain, link, runs, report, recorders, narratives>>
    BY <1>5 DEF Warming!Dispose
  <2>2. ChangeTypes' /\ Gated'
    BY <2>1, <1>0 DEF ChangeTypes, Gated
  <2> QED BY <2>1, <2>2, <1>0, UndisturbedKept DEF ChangeInv
<1> QED BY <1>1, <1>2, <1>3, <1>4, <1>5 DEF Warming!Others

LEMMA ChangeStep == ChangeInv /\ [Warming!Next]_(Warming!vars) => ChangeInv'
<1> SUFFICES ASSUME ChangeInv, [Warming!Next]_(Warming!vars) PROVE ChangeInv'
  OBVIOUS
<1>0. ChangeTypes /\ Gated /\ Undisturbed
  BY DEF ChangeInv
<1>1. ASSUME NEW v \in Vi, Warming!Note(v) PROVE ChangeInv'
  <2>1. /\ chain' = Append(chain, v)
        /\ UNCHANGED <<head, disk, settings, link, runs, report, recorders, narratives>>
    BY <1>1 DEF Warming!Note
  <2>2. ChangeTypes' /\ Gated'
    BY <2>1, <1>0 DEF ChangeTypes, Gated
  <2> QED BY <2>1, <2>2, <1>0, UndisturbedKept DEF ChangeInv
<1>2. CASE Warming!Change
  BY <1>2, ChangeSteps
<1>3. ASSUME NEW r \in Warming!Runner, Warming!Run(r) PROVE ChangeInv'
  BY <1>3, RunGoesOn, RunEnds DEF Warming!Run
<1>4. CASE Warming!Recording
  BY <1>4, RecordingSteps DEF Warming!Recording
<1>5. CASE Warming!Others
  BY <1>5, OthersSteps
<1>6. CASE UNCHANGED Warming!vars
  <2>1. UNCHANGED <<head, disk, settings, chain, link, runs, report, recorders, narratives>>
    BY <1>6 DEF Warming!vars, Warming!surroundings
  <2>2. ChangeTypes' /\ Gated'
    BY <2>1, <1>0 DEF ChangeTypes, Gated
  <2> QED BY <2>1, <2>2, <1>0, UndisturbedKept DEF ChangeInv
<1> QED BY <1>1, <1>2, <1>3, <1>4, <1>5, <1>6 DEF Warming!Next

LEMMA ChangeInvariant == Warming!Spec => []ChangeInv
BY ChangeInit, ChangeStep, PTL DEF Warming!Spec

(* The type invariant of the warming. *)
THEOREM ChangeTyping == Warming!Spec => []Warming!TypeOK
<1>1. ChangeInv => Warming!TypeOK
  BY DEF ChangeInv, ChangeTypes, Gated, Comparisons, Warming!TypeOK
<1> QED BY <1>1, ChangeInvariant, PTL

(* A narrative describes the change it is filed under, if the run it comes *)
(* from succeeded and nobody saved the VI or compared it again before it   *)
(* was filed.                                                              *)
THEOREM NarrativeOfItsChange == Warming!Spec => []UndisturbedNarrative
<1>1. ChangeInv => UndisturbedNarrative
  BY DEF ChangeInv, Undisturbed
<1> QED BY <1>1, ChangeInvariant, PTL

(* LabVIEW is never started on the host for a change unless the runtime    *)
(* was switched after the change had been planned, and never for one of an *)
(* untrusted workspace.                                                    *)
THEOREM WarmingWithinGates == Warming!Spec => []WarmsWithinGates
<1>1. ChangeInv => WarmsWithinGates
  BY DEF ChangeInv, Gated, WarmsWithinGates, Planned
<1> QED BY <1>1, ChangeInvariant, PTL
=============================================================================
