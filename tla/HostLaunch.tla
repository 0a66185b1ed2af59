----------------------------- MODULE HostLaunch -----------------------------
(***************************************************************************)
(* The launches that share the VI Server lock: a preview render            *)
(* (executeViPreview in viPreviewExecution.ts, host-native or container),  *)
(* an lvkit scan (lvkitViScanProvider.ts) and an lvkit compare             *)
(* (lvkitCompareViRevisions.ts).  Each Call of ViServerLock is one such    *)
(* launch; what the process prints, the command line it runs and the       *)
(* parsing of its output are abstracted to succeed / fail.                 *)
(***************************************************************************)
EXTENDS ViServerLock

CONSTANTS Port,         \* the VI Server ports a runtime selection can name
          NoPort,       \* portNumber is undefined
          DefaultPort,  \* 3363, the port LabVIEW listens on when none is named
          DefaultKey    \* the key "host-native:default"

ASSUME PortAssumption ==
    /\ DefaultPort \in Port
    /\ NoPort \notin Port
    /\ DefaultKey \notin Port
    /\ Key = Port \cup {DefaultKey}

VARIABLES kind,       \* which code path a launch takes
          port,       \* the port number its runtime selection carries
          phase,      \* how far it is
          exit,       \* how its process ended
          workspace,  \* its temporary directory
          outcome     \* what it reports

launchVars == <<kind, port, phase, exit, workspace, outcome>>
vars == <<lockVars, launchVars>>

Kinds == {"preview-host", "preview-container", "lvkit-scan", "lvkit-compare"}
Lvkit == {"lvkit-scan", "lvkit-compare"}
Phases == {"idle", "prepared", "queued", "running", "ran", "settled"}

(* localViServerLockKey: a known port is its own key, else the default key. *)
localViServerLockKey(p) == IF p = NoPort THEN DefaultKey ELSE p

(* Mutant: lvkit ignores the port of its runtime selection. *)
LvkitOnDefaultPort(k, p) ==
    IF k \in Lvkit THEN localViServerLockKey(DefaultPort) ELSE localViServerLockKey(p)

(* The port each path passes to it: lvkit substitutes 3363 when undefined.  *)
LockKeyOf(k, p) ==
    IF k \in Lvkit /\ p = NoPort
    THEN localViServerLockKey(DefaultPort)
    ELSE localViServerLockKey(p)

UsesLock(c) == kind[c] # "preview-container"

Init ==
    /\ kind \in [Call -> Kinds]
    /\ port \in [Call -> Port \cup {NoPort}]
    /\ LockInit
    /\ key = [c \in Call |-> LockKeyOf(kind[c], port[c])]
    /\ phase = [c \in Call |-> "idle"]
    /\ exit = [c \in Call |-> "none"]
    /\ workspace = [c \in Call |-> "none"]
    /\ outcome = [c \in Call |-> "none"]

Settle(c, o) ==
    /\ phase' = [phase EXCEPT ![c] = "settled"]
    /\ outcome' = [outcome EXCEPT ![c] = o]

(* `finally { if (tempDir) await removeDir(tempDir).catch(...) }`. *)
RemoveWorkspace(c) ==
    IF workspace[c] = "present"
    THEN \E w \in {"removed", "stuck"} : workspace' = [workspace EXCEPT ![c] = w]
    ELSE UNCHANGED workspace

(* A plan that is not ready, an invalid target, no lvkit, unreadable bytes, *)
(* or a model found in the comparison cache: nothing is launched.           *)
EndBeforeLaunch(c) ==
    /\ phase[c] = "idle"
    /\ \/ Settle(c, "blocked")
       \/ kind[c] = "lvkit-compare" /\ Settle(c, "completed")
    /\ UNCHANGED <<lockVars, kind, port, exit, workspace>>

(* makeTempDir of the lvkit paths. *)
MakeTempDir(c) ==
    /\ phase[c] = "idle"
    /\ kind[c] \in Lvkit
    /\ \/ /\ phase' = [phase EXCEPT ![c] = "prepared"]
          /\ workspace' = [workspace EXCEPT ![c] = "present"]
          /\ UNCHANGED outcome
       \/ Settle(c, "failed") /\ UNCHANGED workspace
    /\ UNCHANGED <<lockVars, kind, port, exit>>

(* Writing the VI bytes into the directory fails. *)
MaterializeFails(c) ==
    /\ phase[c] = "prepared"
    /\ Settle(c, "failed")
    /\ RemoveWorkspace(c)
    /\ UNCHANGED <<lockVars, kind, port, exit>>

(* await acquire(key), for every path but the container preview. *)
AskForSlot(c) ==
    /\ phase[c] = IF kind[c] \in Lvkit THEN "prepared" ELSE "idle"
    /\ UsesLock(c)
    /\ Acquire(c)
    /\ phase' = [phase EXCEPT ![c] = "queued"]
    /\ UNCHANGED <<kind, port, exit, workspace, outcome>>

(* The slot is granted and the process starts in the same continuation. *)
Launch(c) ==
    /\ phase[c] = "queued"
    /\ Resume(c)
    /\ phase' = [phase EXCEPT ![c] = "running"]
    /\ UNCHANGED <<kind, port, exit, workspace, outcome>>

(* A container preview runs its command without a slot. *)
LaunchContainer(c) ==
    /\ phase[c] = "idle"
    /\ ~UsesLock(c)
    /\ phase' = [phase EXCEPT ![c] = "running"]
    /\ UNCHANGED <<lockVars, kind, port, exit, workspace, outcome>>

(* Mutant: the slot is released after a success only, not in a `finally`. *)
ReleaseOnSuccess(c) ==
    IF UsesLock(c) /\ exit'[c] = "zero" THEN Release(c) ELSE UNCHANGED lockVars

ReleaseSlot(c) == IF UsesLock(c) THEN Release(c) ELSE UNCHANGED lockVars

(* The process exits (or is killed at its timeout) with a status. *)
ProcessExits(c) ==
    /\ phase[c] = "running"
    /\ \E e \in {"zero", "nonzero"} : exit' = [exit EXCEPT ![c] = e]
    /\ ReleaseSlot(c)
    /\ phase' = [phase EXCEPT ![c] = "ran"]
    /\ UNCHANGED <<kind, port, workspace, outcome>>

(* runCommand rejects: the `finally` releases; the preview propagates the  *)
(* error, the lvkit paths turn it into a typed failure.                    *)
CommandThrows(c) ==
    /\ phase[c] = "running"
    /\ Settle(c, IF kind[c] \in Lvkit THEN "failed" ELSE "threw")
    /\ RemoveWorkspace(c)
    /\ UNCHANGED <<kind, port, exit>>
    /\ ReleaseSlot(c)

(* The result is read: a nonzero exit or a missing or unparsable output is *)
(* a failure; the temporary directory goes either way.                     *)
Conclude(c) ==
    /\ phase[c] = "ran"
    /\ \/ Settle(c, "failed")
       \/ exit[c] = "zero" /\ Settle(c, "completed")
    /\ RemoveWorkspace(c)
    /\ UNCHANGED <<lockVars, kind, port, exit>>

(* Every launch has settled: nothing is left to do. *)
AllSettled == (\A c \in Call : phase[c] = "settled") /\ UNCHANGED vars

Step(c) ==
    \/ EndBeforeLaunch(c) \/ MakeTempDir(c) \/ MaterializeFails(c)
    \/ AskForSlot(c) \/ Launch(c) \/ LaunchContainer(c)
    \/ ProcessExits(c) \/ CommandThrows(c) \/ Conclude(c)

Next == (\E c \in Call : Step(c)) \/ AllSettled

Spec == Init /\ [][Next]_vars

(* Once started, a launch goes on: continuations run, and the command      *)
(* runners bound every process with a timeout.                             *)
Fairness == \A c \in Call : WF_vars(phase[c] # "idle" /\ Step(c))

FairSpec == Spec /\ Fairness
-----------------------------------------------------------------------------
(* The slot is held exactly while the process of a local launch runs: no   *)
(* process runs without it and none keeps it ("released after the launch   *)
(* completes, success or failure", viPreviewExecution.ts).                 *)
SlotHeldExactlyWhileRunning ==
    \A c \in Call : pc[c] = "held" <=> (phase[c] = "running" /\ UsesLock(c))

(* Two local processes whose keys agree never run together. *)
OneProcessPerKey ==
    \A c, d \in Call :
        (/\ phase[c] = "running" /\ phase[d] = "running"
         /\ UsesLock(c) /\ UsesLock(d) /\ key[c] = key[d]) => c = d

(* Previews on the host, lvkit scans and compares that run on one known    *)
(* port never run together. (With an unknown port they may: lvkit then     *)
(* takes the slot of 3363 and a preview that of host-native:default.)      *)
OneProcessPerPort ==
    \A c, d \in Call :
        (/\ phase[c] = "running" /\ phase[d] = "running"
         /\ UsesLock(c) /\ UsesLock(d)
         /\ port[c] = port[d] /\ port[c] # NoPort) => c = d

(* A launch that left idle settles, however the others ahead of it end. *)
EveryLaunchSettles == \A c \in Call : phase[c] # "idle" ~> phase[c] = "settled"
=============================================================================
