---------------------------- MODULE ChangeWarming ----------------------------
(***************************************************************************)
(* The warming of a VI that has just changed on disk, and the semantic     *)
(* hover it is for: the watcher and its chain (viChangeWarmerService.ts),  *)
(* the plan and the two warms (viChangeWarmScheduler.ts, extension.ts),    *)
(* the wrapper of the comparison action that records the narrative of a    *)
(* working-tree report, and the narrative cache                            *)
(* (viSemanticNarrativeCache.ts) the decoration provider asks.             *)
(*                                                                         *)
(* Every await is a step.  What a comparison does in detail is             *)
(* ComparisonRun's; here it is what the warming and the hover can see of   *)
(* it: the working tree it stages, the report path it shares with every    *)
(* other run of the VI, and how it ends.  A revision of a VI is its bytes. *)
(***************************************************************************)
EXTENDS Integers, FiniteSets, Sequences, ChangeWarmingState

CONSTANT None  \* undefined

ASSUME ContentAssumption == Unread \notin Content /\ None \notin Content

surroundings == <<head, disk, settings, decorated, disposed, events, spent, touched>>
vars == <<surroundings, chain, link, runs, report, recorders, narratives, excused>>

Runner == {"warm", "manual"}
IdleLink == [pc |-> "idle", vi |-> None, on |-> FALSE, plan |-> NoPlan,
             base |-> Unread, sel |-> Unread, switched |-> FALSE, host |-> FALSE]
NoRun == [pc |-> "off", vi |-> None, base |-> None, staged |-> Unread, clean |-> FALSE]

Init ==
    /\ \E c \in Content : head = [v \in Vi |-> c]
    /\ disk = head
    /\ settings \in [docker : BOOLEAN, on : BOOLEAN, preview : BOOLEAN, trusted : BOOLEAN]
    /\ decorated = settings.trusted
    /\ disposed = FALSE
    /\ events = [v \in Vi |-> 0]
    /\ chain = <<>> /\ link = IdleLink
    /\ runs = [r \in Runner |-> NoRun]
    /\ report = [v \in Vi |-> None]
    /\ recorders = {} /\ narratives = {}
    /\ spent = [edits |-> 0, settings |-> 0, manual |-> 0]
    /\ touched = {} /\ excused = {}

(* Marks what is under way about a VI as disturbed. *)
Disturbed(v) ==
    /\ runs' = [r \in Runner |-> IF runs[r].vi = v THEN [runs[r] EXCEPT !.clean = FALSE] ELSE runs[r]]
    /\ recorders' = {IF x.vi = v THEN [x EXCEPT !.clean = FALSE] ELSE x : x \in recorders}
-----------------------------------------------------------------------------
(* A save writes the file and raises one event or, since LabVIEW writes    *)
(* several times, more.                                                    *)
Save(v) ==
    /\ spent.edits < MaxEdits
    /\ spent' = [spent EXCEPT !.edits = @ + 1]
    /\ \E c \in Content \ {disk[v]} : disk' = [disk EXCEPT ![v] = c]
    /\ \E n \in 1..2 : events' = [events EXCEPT ![v] = @ + n]
    /\ Disturbed(v)
    /\ touched' = touched \cup {v}
    /\ excused' = IF runs["manual"].vi = v THEN excused \cup {v} ELSE excused \ {v}
    /\ UNCHANGED <<head, settings, decorated, disposed, chain, link, report, narratives>>

(* HEAD moves to what is on disk; no file changes. *)
Commit(v) ==
    /\ spent.edits < MaxEdits
    /\ head[v] # disk[v]
    /\ spent' = [spent EXCEPT !.edits = @ + 1]
    /\ head' = [head EXCEPT ![v] = disk[v]]
    /\ touched' = touched \ {v}
    /\ UNCHANGED <<disk, settings, decorated, disposed, events, chain, link, runs, report,
                   recorders, narratives, excused>>

(* The runtime, warmOnChange or preview.enabled changes, or trust is granted. *)
ChangeSetting ==
    /\ spent.settings < MaxSettings
    /\ spent' = [spent EXCEPT !.settings = @ + 1]
    /\ \E s \in DOMAIN settings :
          /\ s = "trusted" => ~settings.trusted
          /\ settings' = [settings EXCEPT ![s] = ~@]
          /\ link' = [link EXCEPT !.switched = @ \/ s = "docker"]
    /\ excused' = Vi
    /\ UNCHANGED <<head, disk, decorated, disposed, events, touched, chain, runs, report,
                   recorders, narratives>>

(* The service is disposed with the extension: its watcher goes, a queued  *)
(* change returns at once, the running one goes on.                        *)
Dispose ==
    /\ ~disposed /\ spent.settings < MaxSettings
    /\ disposed' = TRUE
    /\ UNCHANGED <<head, disk, settings, decorated, events, spent, touched, chain, link, runs,
                   report, recorders, narratives, excused>>

(* note -> onSettled: the change is chained behind those before it. *)
Note(v) ==
    /\ events[v] > 0 /\ ~disposed
    /\ events' = [events EXCEPT ![v] = @ - 1]
    /\ chain' = Append(chain, v)
    /\ UNCHANGED <<head, disk, settings, decorated, disposed, spent, touched, link, runs, report,
                   recorders, narratives, excused>>
-----------------------------------------------------------------------------
(* One link of the chain: onSettledChange.  warmOnChange is read first ... *)
BeginChange ==
    /\ link.pc = "idle" /\ chain # <<>>
    /\ chain' = Tail(chain)
    /\ link' = IF disposed THEN IdleLink
               ELSE [IdleLink EXCEPT !.pc = "gate", !.vi = Head(chain), !.on = settings.on]
    /\ UNCHANGED <<surroundings, runs, report, recorders, narratives, excused>>

(* Mutant: the runtime is not asked for. *)
PlanOnAnyRuntime(on, isDocker) ==
    [preview |-> on /\ settings.preview, compare |-> on /\ settings.trusted]

resolveViChangeWarmPlan(on, isDocker) ==
    IF on /\ isDocker
    THEN [preview |-> settings.preview, compare |-> settings.trusted]
    ELSE NoPlan

(* ... and the rest once the runtime has been resolved, which may fail.    *)
MakePlan ==
    /\ link.pc = "gate"
    /\ \E isDocker \in {FALSE, settings.docker} :
          LET plan == resolveViChangeWarmPlan(link.on, isDocker)
          IN  /\ link' = IF plan = NoPlan THEN IdleLink
                         ELSE [link EXCEPT !.pc = "preview", !.plan = plan, !.switched = FALSE]
              /\ excused' = IF plan.compare THEN excused ELSE excused \cup {link.vi}
    /\ UNCHANGED <<surroundings, chain, runs, report, recorders, narratives>>

(* warmChangedViPreview resolves the runtime again and renders through the *)
(* shared session, whatever provider it is by now.                         *)
WarmPreview ==
    /\ link.pc = "preview"
    /\ \/ link.plan.preview
          /\ link' = [link EXCEPT !.pc = "rendering", !.host = @ \/ ~settings.docker]
       \/ link' = [link EXCEPT !.pc = "compare"]
    /\ UNCHANGED <<surroundings, chain, runs, report, recorders, narratives, excused>>

(* Mutant: a render that fails ends the change. *)
GivesUp(rendered) == [link EXCEPT !.pc = IF rendered THEN "compare" ELSE "idle"]
(* "A preview-warm failure never blocks the comparison warm". *)
AfterPreview(rendered) == [link EXCEPT !.pc = "compare"]

PreviewEnds ==
    /\ link.pc = "rendering"
    /\ \E rendered \in BOOLEAN : link' = AfterPreview(rendered)
    /\ UNCHANGED <<surroundings, chain, runs, report, recorders, narratives, excused>>

EndLink == link' = IdleLink

SkipComparison ==
    /\ link.pc = "compare" /\ ~link.plan.compare
    /\ EndLink
    /\ UNCHANGED <<surroundings, chain, runs, report, recorders, narratives, excused>>

(* warmChangedViComparison: the two signatures are resolved side by side.  *)
(* No repository or an unresolved signature ends it.                       *)
ReadSignature ==
    /\ link.pc = "compare" /\ link.plan.compare
    /\ \/ link.base = Unread /\ link' = [link EXCEPT !.base = head[link.vi]] /\ UNCHANGED excused
       \/ link.sel = Unread /\ link' = [link EXCEPT !.sel = disk[link.vi]] /\ UNCHANGED excused
       \/ Unread \in {link.base, link.sel} /\ EndLink /\ excused' = excused \cup {link.vi}
    /\ UNCHANGED <<surroundings, chain, runs, report, recorders, narratives>>

computeViSemanticNarrativeCacheKey(v, base, sel) == <<v, base, sel>>
Stored(v, base, sel) ==
    {n \in narratives : n.key = computeViSemanticNarrativeCacheKey(v, base, sel)}

(* An unchanged VI and a change whose narrative is cached are not compared. *)
LookUp ==
    /\ link.pc = "compare" /\ Unread \notin {link.base, link.sel}
    /\ IF link.base = link.sel \/ Stored(link.vi, link.base, link.sel) # {}
       THEN EndLink
       ELSE link' = [link EXCEPT !.pc = "load"]
    /\ UNCHANGED <<surroundings, chain, runs, report, recorders, narratives, excused>>

(* A comparison of the working tree with a commit of the VI. *)
Ask(r, v, b) ==
    LET alone == \A q \in Runner : runs[q].vi # v
        asked == [pc |-> "asked", vi |-> v, base |-> b, staged |-> Unread, clean |-> alone]
    IN  runs' = [q \in Runner |-> IF q = r THEN asked
                                  ELSE IF runs[q].vi = v THEN [runs[q] EXCEPT !.clean = FALSE]
                                  ELSE runs[q]]

(* historyService.load: the newest commit of the VI is the base; a history *)
(* that cannot be loaded ends the change.                                  *)
LoadHistory ==
    /\ link.pc = "load"
    /\ \/ /\ Ask("warm", link.vi, head[link.vi])
          /\ link' = [link EXCEPT !.pc = "run"]
          /\ recorders' = {IF x.vi = link.vi THEN [x EXCEPT !.clean = FALSE] ELSE x : x \in recorders}
          /\ UNCHANGED excused
       \/ EndLink /\ excused' = excused \cup {link.vi} /\ UNCHANGED <<runs, recorders>>
    /\ UNCHANGED <<surroundings, chain, report, narratives>>

(* The user compares the working tree with any commit. *)
CompareByHand(v) ==
    /\ runs["manual"] = NoRun /\ spent.manual < MaxManual /\ settings.trusted
    /\ spent' = [spent EXCEPT !.manual = @ + 1]
    /\ \E b \in Content : Ask("manual", v, b)
    /\ recorders' = {IF x.vi = v THEN [x EXCEPT !.clean = FALSE] ELSE x : x \in recorders}
    /\ excused' = excused \cup {v}
    /\ UNCHANGED <<head, disk, settings, decorated, disposed, events, touched, chain, link, report,
                   narratives>>
-----------------------------------------------------------------------------
(* The runtime is located and the working tree staged ... *)
Stage(r) ==
    /\ runs[r].pc = "asked"
    /\ runs' = [runs EXCEPT ![r].pc = "staged", ![r].staged = disk[runs[r].vi]]
    /\ link' = IF r = "warm" THEN [link EXCEPT !.host = @ \/ ~settings.docker] ELSE link
    /\ UNCHANGED <<surroundings, chain, report, recorders, narratives, excused>>

(* ... the report at the path is cleared before the command, and one that   *)
(* cannot be removed is left where it is ...                               *)
Clear(r) ==
    /\ runs[r].pc = "staged"
    /\ runs' = [runs EXCEPT ![r].pc = "running"]
    /\ report' \in {report, [report EXCEPT ![runs[r].vi] = None]}
    /\ UNCHANGED <<surroundings, chain, link, recorders, narratives, excused>>

(* The wrapper of comparisonReportAction: whatever the outcome, a result   *)
(* with a report path has its narrative recorded, and is not kept waiting. *)
Concluded(r, v, ok) ==
    /\ runs' = [runs EXCEPT ![r] = NoRun]
    /\ recorders' = IF ~decorated THEN recorders
                    ELSE recorders \cup {[vi |-> v, base |-> runs[r].base, report |-> Unread,
                                          sel |-> Unread, clean |-> runs[r].clean /\ ok]}
    /\ link' = IF r = "warm" THEN IdleLink ELSE link
    /\ excused' = IF ok THEN excused ELSE excused \cup {v}

(* The command succeeds, and its report describes what was staged. *)
Succeed(r) ==
    /\ runs[r].pc = "running"
    /\ report' = [report EXCEPT ![runs[r].vi] = <<runs[r].base, runs[r].staged>>]
    /\ Concluded(r, runs[r].vi, TRUE)
    /\ UNCHANGED <<surroundings, chain, narratives>>

(* It fails, or the run was blocked, cancelled or stopped before it. *)
Fail(r) ==
    /\ runs[r].pc # "off"
    /\ Concluded(r, runs[r].vi, FALSE)
    /\ UNCHANGED <<surroundings, chain, report, narratives>>

(* The recorder reads the report and hashes the working tree, in any order. *)
Becomes(x, y) == recorders' = (recorders \ {x}) \cup {y}
Dropped(x) == recorders' = recorders \ {x} /\ excused' = excused \cup {x.vi}

ReadReport(x) ==
    /\ x.report = Unread
    /\ \/ report[x.vi] # None /\ Becomes(x, [x EXCEPT !.report = report[x.vi]]) /\ UNCHANGED excused
       \/ Dropped(x)
    /\ UNCHANGED <<surroundings, chain, link, runs, report, narratives>>

HashWorktree(x) ==
    /\ x.sel = Unread
    /\ \/ Becomes(x, [x EXCEPT !.sel = disk[x.vi]]) /\ UNCHANGED excused
       \/ Dropped(x)
    /\ UNCHANGED <<surroundings, chain, link, runs, report, narratives>>

hasDifferences(shown) == shown[1] # shown[2]

(* Mutant: the narrative is filed under HEAD instead of the base compared. *)
FiledUnderHead(x) == computeViSemanticNarrativeCacheKey(x.vi, head[x.vi], x.sel)
FiledUnder(x) == computeViSemanticNarrativeCacheKey(x.vi, x.base, x.sel)

(* A report without differences leaves no narrative, and a write that      *)
(* fails is swallowed.                                                     *)
RecordNarrative(x) ==
    /\ Unread \notin {x.report, x.sel}
    /\ \/ /\ hasDifferences(x.report)
          /\ narratives' = {n \in narratives : n.key # FiledUnder(x)}
                           \cup {[key |-> FiledUnder(x), of |-> x.report, clean |-> x.clean]}
          /\ recorders' = recorders \ {x}
          /\ UNCHANGED excused
       \/ ~hasDifferences(x.report) /\ recorders' = recorders \ {x} /\ UNCHANGED <<narratives, excused>>
       \/ hasDifferences(x.report) /\ Dropped(x) /\ UNCHANGED narratives
    /\ UNCHANGED <<surroundings, chain, link, runs, report>>

Change == BeginChange \/ MakePlan \/ WarmPreview \/ PreviewEnds \/ SkipComparison
          \/ ReadSignature \/ LookUp \/ LoadHistory
Run(r) == Stage(r) \/ Clear(r) \/ Succeed(r) \/ Fail(r)
Recording == \E x \in recorders : ReadReport(x) \/ HashWorktree(x) \/ RecordNarrative(x)
Others == (\E v \in Vi : Save(v) \/ Commit(v) \/ CompareByHand(v)) \/ ChangeSetting \/ Dispose
Next == (\E v \in Vi : Note(v)) \/ Change \/ (\E r \in Runner : Run(r)) \/ Recording \/ Others

Spec == Init /\ [][Next]_vars

(* Events are delivered, continuations run, and every render and command   *)
(* is bounded by a timeout.                                                *)
Fairness ==
    /\ \A v \in Vi : WF_vars(Note(v))
    /\ WF_vars(Change) /\ WF_vars(Recording)
    /\ \A r \in Runner : WF_vars(Run(r))

FairSpec == Spec /\ Fairness
-----------------------------------------------------------------------------
TypeOK ==
    /\ head \in [Vi -> Content] /\ disk \in [Vi -> Content]
    /\ chain \in Seq(Vi)
    /\ \A r \in Runner : runs[r].pc \in {"off", "asked", "staged", "running"}
    /\ link.pc = "run" <=> runs["warm"].pc # "off"
    /\ \A v \in Vi : report[v] = None \/ report[v] \in Content \X Content

(* A saved change of a VI gets its summary: however many                   *)
(* changes are queued before it and whatever they run into, if nothing of  *)
(* its own comparison fails, the user does not compare it meanwhile (the   *)
(* two would share the report path) and the settings stay.  The preview    *)
(* may fail.                                                               *)
Changed(v, b, c) == v \in touched /\ head[v] = b /\ disk[v] = c /\ b # c
Steady(v) ==
    /\ v \notin excused /\ decorated /\ ~disposed
    /\ settings.docker /\ settings.on /\ settings.trusted
SummaryArrives ==
    \A v \in Vi, b \in Content, c \in Content :
        Changed(v, b, c) ~>
            \/ ~(Changed(v, b, c) /\ Steady(v))
            \/ \E n \in narratives : n.key = <<v, b, c>>
=============================================================================
