------------------------ MODULE MCRuntimeSelection ------------------------
(* The settings come in families that meet the decisions: the extension's   *)
(* own (version and bitness required), those of the tools (auto, neither    *)
(* required), docker with an image version, and the other platforms.  Two   *)
(* installations of one version and bitness, one of each neighbour.         *)
EXTENDS RuntimeSelection

Lv(y, b, n) == [year |-> y, bits |-> b, copy |-> n]
MCExes == {Lv(2025, "x64", 1), Lv(2025, "x64", 2), Lv(2025, "x86", 1), Lv(2026, "x64", 1)}

Plain == [platform |-> "win32", requested |-> None, invalid |-> FALSE, mode |-> "auto",
          strict |-> FALSE, version |-> None, bitness |-> None, allow |-> FALSE,
          configured |-> "none", token |-> None, override |-> None]

Extension ==
    {[Plain EXCEPT !.requested = r, !.strict = TRUE, !.version = v, !.bitness = b, !.allow = r # "docker"] :
        r \in {"host", "docker"}, v \in {None, 2024, 2025}, b \in {None, "x64", "x86"}}
Tool(m, v, b, s, c) ==
    [Plain EXCEPT !.mode = m, !.version = v, !.bitness = b, !.strict = s, !.configured = c]
Tools ==
    {Tool("auto", v, b, s, "none") : v \in {None, 2025}, b \in {"x64", "x86"}, s \in BOOLEAN}
    \cup {Tool("host-only", v, b, s, c) :
            v \in {None, 2025}, b \in {"x64", "x86"}, s \in BOOLEAN, c \in {"none", "present", "missing"}}
Images ==
    {[Plain EXCEPT !.requested = r, !.mode = m, !.platform = p, !.token = t, !.override = o] :
        r \in {None, "docker"}, m \in {"auto", "docker-only"}, p \in {"win32", "linux"},
        t \in Engines, o \in {None} \cup Engines}
Others ==
    {[Plain EXCEPT !.platform = p, !.requested = r, !.mode = m] :
        p \in {"linux", "darwin"}, r \in {None, "host"}, m \in {"auto", "docker-only"}}
    \cup {[Plain EXCEPT !.platform = p, !.invalid = TRUE] : p \in {"win32", "linux"}}

(* What a request never looks at is fixed, and of the two copies the first  *)
(* comes first: the other initial states behave like these.                 *)
Idle == installed = {Lv(2025, "x64", 1)} /\ tools = {"labview-cli"} /\ running = None /\ ~other
MCInit ==
    /\ Init
    /\ Lv(2025, "x64", 2) \in installed => Lv(2025, "x64", 1) \in installed
    /\ docker \notin Engines => images = {}
    /\ other => running = None
    /\ Mode(ask) = "docker-only" => Idle
    /\ Mode(ask) = "host-only" => docker = "windows" /\ images = {}
    /\ GateReason(ask) # None => Idle /\ docker = "windows" /\ images = {}

MCSpec == MCInit /\ [][Next]_vars

MCAsks == Extension \cup Tools \cup Images \cup Others
=============================================================================
