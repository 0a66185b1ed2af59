---------------------------- MODULE ComparisonRun ----------------------------
(***************************************************************************)
(* Comparison runs of one VI: ensureComparisonReportEvidence of            *)
(* src/src/reporting/comparisonReportAction.ts, the host execution of      *)
(* comparisonReportRuntimeExecution.ts, the preview pipeline it drives     *)
(* (comparisonPreviewPipeline.ts), the archive of a finished run           *)
(* (dashboard/comparisonReportArchive.ts) and the narrative that           *)
(* extension.ts caches from the report of a working-tree run.              *)
(*                                                                         *)
(* The staging directory and the report belong to the VI, not to the run:  *)
(* runs share them, and several may be live (the panel, the dashboard and  *)
(* the background warmer all start them). The report stands for all the    *)
(* files a run leaves beside it (packet, metadata, stdout, stderr).        *)
(* In a container the runtime is the Linux one on a Linux host, which      *)
(* executes from a copy of its own; otherwise it is LabVIEW on Windows.    *)
(* A cancellation shows where the code looks at the token or is ended by   *)
(* it: each place has it among its outcomes.                               *)
(***************************************************************************)
EXTENDS Integers, FiniteSets

CONSTANTS Run,          \* comparison requests
          Commit,       \* retained revisions
          Worktree,     \* the WORKTREE sentinel
          Pair,         \* the pairs that are compared: [base, selected]
          MaxVersion,   \* bound: contents the VI on disk takes
          None

Version == 1..MaxVersion
Revision == Commit \cup {Worktree}
Side == {"left", "right"}

ASSUME ComparisonAssumption ==
    /\ Worktree \notin Commit /\ None \notin Revision \cup Version /\ None \notin Pair
    /\ Commit \cap Version = {}
    /\ Pair \subseteq [base : Commit, selected : Revision]
    /\ MaxVersion \in Nat \ {0}

VARIABLES container,    \* the runtime is a container; never changes
          disturbed,    \* history: two runs were live at once, or an old report stayed
          pc, pair,
          content,      \* the selected side's bytes, once they are staged
          previewed,    \* the sides whose preview cycle has run
          rendered,     \* the sides whose preview rendered
          state,        \* runtimeExecutionState
          reportExists,
          status,       \* of UNSTAGING
          staged,       \* staged VI files, named by side and revision
          executed,     \* the report where the command writes it
          report,       \* the report at the retained path
          archive,      \* archived evidence of each comparison
          narrative,    \* cached narrative of each pair of contents
          worktree      \* the content of the VI on disk

run == <<pair, content, previewed, rendered, state, reportExists, status>>
disk == <<staged, executed, report, archive, narrative, worktree>>
vars == <<container, disturbed, pc, run, disk>>

Comparison == Commit \X (Commit \cup Version)

(* A report names the revisions it compared and the bytes it saw. *)
Report == [pair : Pair, of : Comparison]
Archived == [reportExists : BOOLEAN, report : Report \cup {None}]

ASSUME NoneAssumption == None \notin Report \cup Archived

Pc == {"idle", "prepare", "trees", "blobs", "context", "stage", "left", "right", "clear", "command",
       "finalize", "unstage", "rethrow", "archive", "source", "return", "done"}

TypeOK ==
    /\ container \in BOOLEAN /\ disturbed \in BOOLEAN
    /\ pc \in [Run -> Pc] /\ pair \in [Run -> Pair \cup {None}]
    /\ content \in [Run -> Commit \cup Version \cup {None}]
    /\ previewed \in [Run -> SUBSET Side] /\ rendered \in [Run -> SUBSET Side]
    /\ state \in [Run -> {"not-run", "not-available", "failed", "ran", "succeeded"}]
    /\ reportExists \in [Run -> BOOLEAN]
    /\ status \in [Run -> {"none", "removed", "failed"}]
    /\ staged \subseteq Side \X Revision
    /\ executed \in Report \cup {None} /\ report \in Report \cup {None}
    /\ archive \in [Comparison -> Archived \cup {None}]
    /\ narrative \in [Commit \X Version -> Report \cup {None}]
    /\ worktree \in Version

Live(r) == pc[r] \notin {"idle", "done"}
Files(r) == {<<"left", pair[r].base>>, <<"right", pair[r].selected>>}
Own(r) == [pair |-> pair[r], of |-> <<pair[r].base, content[r]>>]

Goto(r, p) == pc' = [pc EXCEPT ![r] = p]
(* The run's evidence is settled as s, with a report or without. *)
Settled(r, s, exists) == /\ state' = [state EXCEPT ![r] = s]
                         /\ reportExists' = [reportExists EXCEPT ![r] = exists]
Fails(r) == Settled(r, "failed", FALSE)

Init ==
    /\ container \in BOOLEAN /\ disturbed = FALSE
    /\ pc = [r \in Run |-> "idle"] /\ pair = [r \in Run |-> None]
    /\ content = [r \in Run |-> None]
    /\ previewed = [r \in Run |-> {}] /\ rendered = [r \in Run |-> {}]
    /\ state = [r \in Run |-> "not-run"] /\ reportExists = [r \in Run |-> FALSE]
    /\ status = [r \in Run |-> "none"]
    /\ staged = {} /\ executed = None /\ report = None
    /\ archive = [c \in Comparison |-> None]
    /\ narrative = [c \in Commit \X Version |-> None]
    /\ worktree = 1

Request(r) ==
    /\ pc[r] = "idle" /\ Goto(r, "prepare")
    /\ \E p \in Pair : pair' = [pair EXCEPT ![r] = p]
    /\ disturbed' = (disturbed \/ \E s \in Run : Live(s))
    /\ UNCHANGED <<container, content, previewed, rendered, state, reportExists, status, disk>>

EditVi ==
    /\ worktree < MaxVersion /\ worktree' = worktree + 1
    /\ UNCHANGED <<container, disturbed, pc, run, staged, executed, report, archive, narrative>>

(* Preflight, runtime selection and the packet. A cancelled run that has a  *)
(* packet returns its paths, one that has none returns nothing.             *)
Prepare(r) ==
    /\ pc[r] = "prepare"
    /\ \/ \E p \in {"done", "return", IF container THEN "blobs" ELSE "trees"} :
            Goto(r, p) /\ UNCHANGED <<state, reportExists>>
       \/ Settled(r, "not-available", FALSE) /\ Goto(r, "archive")
    /\ UNCHANGED <<container, disturbed, pair, content, previewed, rendered, status, disk>>

(* On the host both revision trees are checked out first, or that fails. *)
Trees(r) ==
    /\ pc[r] = "trees"
    /\ \/ Goto(r, "blobs") /\ UNCHANGED <<state, reportExists>>
       \/ Goto(r, "archive") /\ Fails(r)
    /\ UNCHANGED <<container, disturbed, pair, content, previewed, rendered, status, disk>>

(* The bytes of the selected side; the working tree's are read from disk.   *)
SelectedContent(p) == IF p.selected = Worktree THEN worktree ELSE p.selected

(* The compared blobs are read and written into the staging directory. *)
Blobs(r) ==
    /\ pc[r] = "blobs"
    /\ \/ /\ content' = [content EXCEPT ![r] = SelectedContent(pair[r])]
          /\ staged' = staged \cup Files(r)
          /\ Goto(r, "context") /\ UNCHANGED <<state, reportExists>>
       \/ /\ \E f \in SUBSET {<<"left", pair[r].base>>} : staged' = staged \cup f
          /\ Fails(r) /\ Goto(r, "archive") /\ UNCHANGED content
    /\ UNCHANGED <<container, disturbed, pair, previewed, rendered, status,
                   executed, report, archive, narrative, worktree>>

(* A container's directory is prepared with copies of its own, or that     *)
(* fails; on the host a running LabVIEW or a closed VI Server blocks the    *)
(* run. Either ends the run before the pipeline, and so does an exception.  *)
Context(r) ==
    /\ pc[r] = "context"
    /\ \/ \E p \in {"stage", "done"} : Goto(r, p) /\ UNCHANGED <<state, reportExists>>
       \/ /\ Settled(r, IF container THEN "failed" ELSE "not-available", FALSE)
          /\ Goto(r, "archive")
    /\ UNCHANGED <<container, disturbed, pair, content, previewed, rendered, status, disk>>

(* STAGING only verifies that the pair is there. *)
Stage(r) ==
    /\ pc[r] = "stage"
    /\ IF Files(r) \subseteq staged
         THEN Goto(r, "left") /\ UNCHANGED <<state, reportExists>>
         ELSE Goto(r, "unstage") /\ Fails(r)
    /\ UNCHANGED <<container, disturbed, pair, content, previewed, rendered, status, disk>>

(* VALIDATION *)
Admits(r, sides) == sides = Side

SwallowsIt == "done"
(* Where an error thrown inside the pass leads: to the clean-up, then out. *)
AfterThrow == "rethrow"

(* One preview cycle, and after the second the verdict on both. *)
Preview(r, s) ==
    /\ pc[r] = s
    /\ previewed' = [previewed EXCEPT ![r] = @ \cup {s}]
    /\ \/ \E ok \in {{}, {s}} :
            LET sides == rendered[r] \cup ok IN
              /\ rendered' = [rendered EXCEPT ![r] = sides]
              /\ CASE s = "left" -> Goto(r, "right") /\ UNCHANGED <<state, reportExists>>
                   [] s = "right" /\ Admits(r, sides) ->
                        Goto(r, "clear") /\ UNCHANGED <<state, reportExists>>
                   [] OTHER -> Goto(r, "unstage") /\ Fails(r)
       \/ Goto(r, AfterThrow) /\ UNCHANGED <<rendered, state, reportExists>>
    /\ UNCHANGED <<container, disturbed, pair, content, status, disk>>

NothingCleared(old) == old
(* clearStaleExecutedReportArtifacts *)
Cleared(old) == None

(* A removal that fails is swallowed, and the old report stays. *)
ClearStale(r) ==
    /\ pc[r] = "clear" /\ Goto(r, "command")
    /\ \/ executed' = Cleared(executed) /\ report' = Cleared(report) /\ UNCHANGED disturbed
       \/ <<executed, report>> # <<None, None>> /\ disturbed' = TRUE /\ UNCHANGED <<executed, report>>
    /\ UNCHANGED <<container, run, staged, archive, narrative, worktree>>

(* CreateComparisonReport ends, or is killed: it may have written a report  *)
(* whatever its exit code, if its inputs are still there. Or the launch     *)
(* fails, or keeping its output does and the pass throws. There is one      *)
(* attempt only.                                                            *)
CommandEnds(r) ==
    /\ pc[r] = "command"
    /\ \/ \E wrote \in BOOLEAN, ok \in BOOLEAN :
            /\ wrote \/ ok => container \/ Files(r) \subseteq staged
            /\ executed' = IF wrote THEN Own(r) ELSE executed
            /\ report' = IF wrote /\ ~container THEN Own(r) ELSE report
            /\ state' = [state EXCEPT ![r] = IF ok THEN "ran" ELSE "failed"]
            /\ Goto(r, "finalize") /\ UNCHANGED reportExists
       \/ Fails(r) /\ Goto(r, "unstage") /\ UNCHANGED <<executed, report>>
       \/ Goto(r, AfterThrow) /\ UNCHANGED <<state, reportExists, executed, report>>
    /\ UNCHANGED <<container, disturbed, pair, content, previewed, rendered, status,
                   staged, archive, narrative, worktree>>

(* finalizeExecutedReport: the report of a failed command must name the     *)
(* run's files, then a container's report is copied to the retained path,   *)
(* and the copy may fail.                                                   *)
Finalize(r) ==
    /\ pc[r] = "finalize" /\ Goto(r, "unstage")
    /\ LET rejected == executed # None /\ state[r] = "failed" /\ executed.pair # pair[r]
           exists == executed # None /\ ~rejected
       IN \/ /\ Settled(r, IF exists /\ state[r] = "ran" THEN "succeeded" ELSE "failed", exists)
             /\ executed' = IF rejected THEN None ELSE executed
             /\ report' = IF exists THEN executed ELSE IF rejected THEN None ELSE report
          \/ container /\ exists /\ Fails(r) /\ UNCHANGED <<executed, report>>
    /\ UNCHANGED <<container, disturbed, pair, content, previewed, rendered, status,
                   staged, archive, narrative, worktree>>

LeftCounts(failed) == IF \E f \in failed : f[1] = "left" THEN "failed" ELSE "removed"
UnstageStatus(failed) == IF failed = {} THEN "removed" ELSE "failed"

(* UNSTAGING owns the clean-up: the run's two staged files are removed one  *)
(* by one, then the whole staging directory, which may leave some files of  *)
(* other runs and is not reported.                                          *)
Unstage(r) ==
    /\ pc[r] \in {"unstage", "rethrow"}
    /\ \E failed \in SUBSET (staged \cap Files(r)), kept \in SUBSET staged :
            /\ kept \cap Files(r) \subseteq failed /\ staged' = kept
            /\ status' = [status EXCEPT ![r] = UnstageStatus(failed)]
    /\ Goto(r, IF pc[r] = "unstage" THEN "archive" ELSE "done")
    /\ UNCHANGED <<container, disturbed, pair, content, previewed, rendered, state,
                   reportExists, executed, report, archive, narrative, worktree>>

CurrentId(r) ==
    <<pair[r].base, IF pair[r].selected = Worktree THEN worktree ELSE pair[r].selected>>
(* The archive is addressed by the content that was staged. *)
ArchiveId(r) ==
    <<pair[r].base, IF pair[r].selected = Worktree THEN content[r] ELSE pair[r].selected>>

(* A working-tree run has an identity once its execution context was ready: *)
(* on the host as soon as it has staged, in a container when it has passed  *)
(* through the pipeline.                                                    *)
HasSnapshotId(r) == IF container THEN status[r] # "none" ELSE content[r] # None
CanArchive(r) == pair[r].selected # Worktree \/ HasSnapshotId(r)

Shelf(c) == IF archive[c] = None THEN [reportExists |-> FALSE, report |-> None] ELSE archive[c]

(* A run that was not cancelled is archived: the report is copied if there  *)
(* is one, then the source record is written; either may fail, and a copy   *)
(* made stays.                                                              *)
CopyToArchive(r) ==
    /\ pc[r] = "archive"
    /\ \/ /\ CanArchive(r) /\ Goto(r, "source")
          /\ archive' = IF report = None THEN archive
                        ELSE [archive EXCEPT ![ArchiveId(r)] =
                                [Shelf(ArchiveId(r)) EXCEPT !.report = report]]
       \/ Goto(r, "return") /\ UNCHANGED archive
    /\ UNCHANGED <<container, disturbed, run, staged, executed, report, narrative, worktree>>

WriteSourceRecord(r) ==
    /\ pc[r] = "source" /\ Goto(r, "return")
    /\ \/ archive' = [archive EXCEPT ![ArchiveId(r)] =
                        [Shelf(ArchiveId(r)) EXCEPT !.reportExists = reportExists[r]]]
       \/ UNCHANGED archive
    /\ UNCHANGED <<container, disturbed, run, staged, executed, report, narrative, worktree>>

(* A returned working-tree run has the report at the retained path read     *)
(* into the narrative of what is on disk now.                               *)
Return(r) ==
    /\ pc[r] = "return" /\ Goto(r, "done")
    /\ narrative' = IF pair[r].selected = Worktree /\ report # None
                      THEN [narrative EXCEPT ![<<pair[r].base, worktree>>] = report]
                      ELSE narrative
    /\ UNCHANGED <<container, disturbed, run, staged, executed, report, archive, worktree>>

Step(r) ==
    \/ Prepare(r) \/ Trees(r) \/ Blobs(r) \/ Context(r) \/ Stage(r)
    \/ \E s \in Side : Preview(r, s)
    \/ ClearStale(r) \/ CommandEnds(r) \/ Finalize(r) \/ Unstage(r)
    \/ CopyToArchive(r) \/ WriteSourceRecord(r) \/ Return(r)

AllDone == (\A r \in Run : pc[r] = "done") /\ UNCHANGED vars

Next == EditVi \/ AllDone \/ \E r \in Run : Request(r) \/ Step(r)

Spec == Init /\ [][Next]_vars
----------------------------------------------------------------------------
(* The comparison command is launched only for a run whose two previews     *)
(* have rendered, whatever other runs do to the shared directory.           *)
OnlyPreviewedPairsRun == \A r \in Run :
    pc[r] \in {"clear", "command", "finalize"} => rendered[r] = Side

(* A file in the staging directory is always some run's that has not        *)
(* successfully unstaged: no run leaves its inputs behind a "removed".      *)
StagedFilesAreOwned == \A f \in staged : \E r \in Run :
    /\ pair[r] # None /\ f \in Files(r) /\ status[r] # "removed"

(* Once a preview cycle has begun the run never ends without UNSTAGING,     *)
(* also when a boundary throws.                                             *)
AlwaysUnstages == \A r \in Run :
    previewed[r] # {} /\ pc[r] \in {"archive", "done"} => status[r] # "none"

(* Unless runs overlap or an old report resists its removal, a run that     *)
(* ends with a report has its own: the report at the retained path is of    *)
(* its pair and of the bytes it staged.                                     *)
ReportIsItsOwn == ~disturbed => \A r \in Run :
    reportExists[r] /\ pc[r] \in {"unstage", "archive", "source"} => report = Own(r)

(* Likewise, when such a run writes the source record that claims a report, *)
(* what lies beside it is the report of the comparison it is filed under,   *)
(* edits since the staging notwithstanding.                                 *)
ArchiveIsItsOwn == ~disturbed => \A r \in Run :
    pc[r] = "source" /\ reportExists[r] =>
        LET filed == archive[ArchiveId(r)] IN
          filed # None /\ filed.report # None /\ filed.report.of = ArchiveId(r)

(* A cached narrative describes the pair of contents it is keyed by. *)
NarrativeIsOfItsKey == \A c \in Commit \X Version :
    narrative[c] # None => narrative[c].of = c
=============================================================================
