------------------------ MODULE ComparisonRunProofs ------------------------
(* Proofs about ComparisonRun, for any number of runs of a VI, any pairs    *)
(* and any number of edits.                                                 *)
EXTENDS ComparisonRun, TLAPS

Before == {"idle", "prepare", "trees", "blobs", "context", "stage", "left"}
Pass == {"right", "clear", "command", "finalize", "unstage", "rethrow"}
After == {"archive", "source", "return", "done"}

(* What a run has done by the point it has reached. *)
Progress == \A r \in Run :
    /\ IF pc[r] = "idle" THEN pair[r] = None ELSE pair[r] \in Pair
    /\ pc[r] \in Before => previewed[r] = {}
    /\ pc[r] \in Before \cup Pass => status[r] = "none"
    /\ pc[r] \in {"context", "stage", "left"} \cup Pass => content[r] # None
    /\ pc[r] \in After /\ previewed[r] # {} => status[r] # "none"
    /\ status[r] # "none" => content[r] # None
    /\ pc[r] = "source" => CanArchive(r)

RunInvariant == TypeOK /\ Progress /\ OnlyPreviewedPairsRun /\ StagedFilesAreOwned

(* A committed side is staged as it was asked for, and only a run that has  *)
(* staged its pair claims a report.                                         *)
Faithful == \A r \in Run :
    /\ content[r] # None /\ pair[r].selected # Worktree => content[r] = pair[r].selected
    /\ reportExists[r] => content[r] # None
    /\ pc[r] = "idle" => content[r] = None

(* The run that is live, from the command on, finds nothing in the shared   *)
(* directories but what it wrote.                                           *)
HoldsItsOwn(r) ==
    /\ pc[r] = "command" => executed = None /\ report = None
    /\ pc[r] = "finalize" => executed \in {None, Own(r)} /\ report \in {None, Own(r)}
    /\ pc[r] \in {"unstage", "archive", "source"} /\ reportExists[r] => report = Own(r)
    /\ pc[r] = "source" /\ reportExists[r] =>
          archive[ArchiveId(r)] # None /\ archive[ArchiveId(r)].report = Own(r)

(* Runs that take turns: at most one is live, and what it finds is its own. *)
Turns == ~disturbed => /\ \A r, s \in Run : Live(r) /\ Live(s) => r = s
                       /\ \A r \in Run : HoldsItsOwn(r)

(* The report of a run that has staged its pair names that pair's contents. *)
LEMMA OwnIsReport ==
    ASSUME TypeOK, NEW r \in Run, pair[r] \in Pair, content[r] # None
    PROVE  Own(r) \in Report
<1>1. pair[r].base \in Commit BY ComparisonAssumption
<1>2. content[r] \in Commit \cup Version BY DEF TypeOK
<1> QED BY <1>1, <1>2 DEF Own, Report, Comparison

(* The archive of a run that may be archived is that of some comparison. *)
LEMMA ArchiveIdIsComparison ==
    ASSUME TypeOK, Progress, NEW r \in Run, pair[r] \in Pair, CanArchive(r)
    PROVE  ArchiveId(r) \in Comparison
<1>1. pair[r].base \in Commit /\ pair[r].selected \in Commit \cup {Worktree}
  BY ComparisonAssumption DEF Revision
<1>2. CASE pair[r].selected = Worktree
  <2>1. content[r] # None BY <1>2 DEF CanArchive, HasSnapshotId, Progress
  <2>2. content[r] \in Commit \cup Version BY <2>1 DEF TypeOK
  <2> QED BY <1>1, <1>2, <2>2 DEF ArchiveId, Comparison
<1>3. CASE pair[r].selected # Worktree
  BY <1>1, <1>3 DEF ArchiveId, Comparison
<1> QED BY <1>2, <1>3

Outcome == {"not-run", "not-available", "failed", "ran", "succeeded"}

(* A step that moves a run to some program point, settles its evidence or
   not, and changes nothing else, keeps the types. *)
LEMMA OutcomeStep ==
    ASSUME TypeOK, NEW r \in Run,
           \E p \in Pc : Goto(r, p),
           \/ UNCHANGED <<state, reportExists>>
           \/ \E o \in Outcome, b \in BOOLEAN : Settled(r, o, b),
           UNCHANGED <<container, disturbed, pair, content, previewed, rendered, status, disk>>
    PROVE  TypeOK'
<1>1. pc' \in [Run -> Pc] BY DEF TypeOK, Goto
<1>2. state' \in [Run -> Outcome] /\ reportExists' \in [Run -> BOOLEAN]
  BY DEF TypeOK, Settled, Outcome
<1> QED BY <1>1, <1>2 DEF TypeOK, Outcome, disk

(* Every step keeps the types. *)
LEMMA TypeStep == TypeOK /\ Progress /\ [Next]_vars => TypeOK'
<1> SUFFICES ASSUME TypeOK, Progress, [Next]_vars PROVE TypeOK'
  OBVIOUS
<1>1. ASSUME NEW r \in Run, Request(r) PROVE TypeOK'
  BY <1>1 DEF TypeOK, Request, Goto, Pc, disk
<1>2. ASSUME NEW r \in Run, Prepare(r) PROVE TypeOK'
  <2>1. \E p \in Pc : Goto(r, p) BY <1>2 DEF Prepare, Pc
  <2>2. \/ UNCHANGED <<state, reportExists>>
        \/ \E o \in Outcome, b \in BOOLEAN : Settled(r, o, b)
    BY <1>2 DEF Prepare, Outcome
  <2>3. UNCHANGED <<container, disturbed, pair, content, previewed, rendered, status, disk>>
    BY <1>2 DEF Prepare
  <2> QED BY <2>1, <2>2, <2>3, OutcomeStep
<1>3. ASSUME NEW r \in Run, Trees(r) PROVE TypeOK'
  <2>1. \E p \in Pc : Goto(r, p) BY <1>3 DEF Trees, Pc
  <2>2. \/ UNCHANGED <<state, reportExists>>
        \/ \E o \in Outcome, b \in BOOLEAN : Settled(r, o, b)
    BY <1>3 DEF Trees, Outcome, Fails
  <2>3. UNCHANGED <<container, disturbed, pair, content, previewed, rendered, status, disk>>
    BY <1>3 DEF Trees
  <2> QED BY <2>1, <2>2, <2>3, OutcomeStep
<1>4. ASSUME NEW r \in Run, Blobs(r) PROVE TypeOK'
  <2>1. pair[r] \in Pair BY <1>4 DEF Blobs, Progress
  <2>2. pair[r].base \in Commit /\ pair[r].selected \in Commit \cup {Worktree}
    BY <2>1, ComparisonAssumption DEF Revision
  <2>3. SelectedContent(pair[r]) \in Commit \cup Version
    BY <2>2 DEF SelectedContent, TypeOK
  <2>4. Files(r) \subseteq Side \X Revision /\ {<<"left", pair[r].base>>} \subseteq Side \X Revision
    BY <2>2 DEF Files, Side, Revision
  <2>5. staged' \subseteq Side \X Revision
    BY <1>4, <2>4 DEF Blobs, TypeOK
  <2>6. content' \in [Run -> Commit \cup Version \cup {None}]
    BY <1>4, <2>3 DEF Blobs, TypeOK
  <2> QED BY <1>4, <2>5, <2>6 DEF TypeOK, Blobs, Goto, Settled, Fails, Pc
<1>5. ASSUME NEW r \in Run, Context(r) PROVE TypeOK'
  <2>1. \E p \in Pc : Goto(r, p) BY <1>5 DEF Context, Pc
  <2>2. \/ UNCHANGED <<state, reportExists>>
        \/ \E o \in Outcome, b \in BOOLEAN : Settled(r, o, b)
    BY <1>5 DEF Context, Outcome
  <2>3. UNCHANGED <<container, disturbed, pair, content, previewed, rendered, status, disk>>
    BY <1>5 DEF Context
  <2> QED BY <2>1, <2>2, <2>3, OutcomeStep
<1>6. ASSUME NEW r \in Run, Stage(r) PROVE TypeOK'
  <2>1. \E p \in Pc : Goto(r, p) BY <1>6 DEF Stage, Pc
  <2>2. \/ UNCHANGED <<state, reportExists>>
        \/ \E o \in Outcome, b \in BOOLEAN : Settled(r, o, b)
    BY <1>6 DEF Stage, Outcome, Fails
  <2>3. UNCHANGED <<container, disturbed, pair, content, previewed, rendered, status, disk>>
    BY <1>6 DEF Stage
  <2> QED BY <2>1, <2>2, <2>3, OutcomeStep
<1>7. ASSUME NEW r \in Run, NEW s \in Side, Preview(r, s) PROVE TypeOK'
  <2>1. previewed' \in [Run -> SUBSET Side] BY <1>7 DEF Preview, TypeOK
  <2>2. rendered' \in [Run -> SUBSET Side] BY <1>7 DEF Preview, TypeOK
  <2>3. pc' \in [Run -> Pc]
    BY <1>7 DEF Preview, TypeOK, Goto, AfterThrow, Pc, Side
  <2>4. /\ state' \in [Run -> {"not-run", "not-available", "failed", "ran", "succeeded"}]
        /\ reportExists' \in [Run -> BOOLEAN]
    BY <1>7 DEF Preview, TypeOK, Settled, Fails, Side
  <2> QED BY <1>7, <2>1, <2>2, <2>3, <2>4 DEF TypeOK, Preview, disk
<1>8. ASSUME NEW r \in Run, ClearStale(r) PROVE TypeOK'
  BY <1>8 DEF TypeOK, ClearStale, Cleared, Goto, Pc, run
<1>9. ASSUME NEW r \in Run, CommandEnds(r) PROVE TypeOK'
  <2>1. Own(r) \in Report BY <1>9, OwnIsReport DEF CommandEnds, Progress, Pass
  <2> QED BY <1>9, <2>1 DEF TypeOK, CommandEnds, Goto, Settled, Fails, AfterThrow, Pc
<1>10. ASSUME NEW r \in Run, Finalize(r) PROVE TypeOK'
  BY <1>10 DEF TypeOK, Finalize, Goto, Settled, Fails, Pc
<1>11. ASSUME NEW r \in Run, Unstage(r) PROVE TypeOK'
  BY <1>11 DEF TypeOK, Unstage, UnstageStatus, Goto, Pc
<1>12. ASSUME NEW r \in Run, CopyToArchive(r) PROVE TypeOK'
  <2>1. CanArchive(r) => ArchiveId(r) \in Comparison
    BY <1>12, ArchiveIdIsComparison DEF CopyToArchive, Progress
  <2>2. CanArchive(r) => Shelf(ArchiveId(r)) \in Archived
    BY <2>1 DEF TypeOK, Shelf, Archived
  <2>3. archive' \in [Comparison -> Archived \cup {None}]
    BY <1>12, <2>1, <2>2 DEF TypeOK, CopyToArchive, Archived
  <2> QED BY <1>12, <2>3 DEF TypeOK, CopyToArchive, Goto, Pc, run
<1>13. ASSUME NEW r \in Run, WriteSourceRecord(r) PROVE TypeOK'
  <2>1. ArchiveId(r) \in Comparison
    BY <1>13, ArchiveIdIsComparison DEF WriteSourceRecord, Progress
  <2>2. Shelf(ArchiveId(r)) \in Archived
    BY <2>1 DEF TypeOK, Shelf, Archived
  <2>3. archive' \in [Comparison -> Archived \cup {None}]
    BY <1>13, <2>1, <2>2 DEF TypeOK, WriteSourceRecord, Archived
  <2> QED BY <1>13, <2>3 DEF TypeOK, WriteSourceRecord, Goto, Pc, run
<1>14. ASSUME NEW r \in Run, Return(r) PROVE TypeOK'
  <2>1. narrative' \in [Commit \X Version -> Report \cup {None}]
    BY <1>14 DEF TypeOK, Return
  <2> QED BY <1>14, <2>1 DEF TypeOK, Return, Goto, Pc, run
<1>15. CASE EditVi
  <2>1. worktree' \in Version
    BY <1>15, ComparisonAssumption DEF TypeOK, EditVi, Version
  <2> QED BY <1>15, <2>1 DEF TypeOK, EditVi, run
<1>16. CASE UNCHANGED vars
  BY <1>16 DEF TypeOK, vars, run, disk
<1> QED BY <1>1, <1>2, <1>3, <1>4, <1>5, <1>6, <1>7, <1>8, <1>9, <1>10, <1>11, <1>12, <1>13,
           <1>14, <1>15, <1>16 DEF Next, Step, AllDone

(* Every step keeps what a run has done by the point it has reached. *)
LEMMA ProgressStep == TypeOK /\ Progress /\ [Next]_vars => Progress'
<1> SUFFICES ASSUME TypeOK, Progress, [Next]_vars PROVE Progress'
  OBVIOUS
<1> USE ComparisonAssumption DEF Before, Pass, After
<1>1. ASSUME NEW r \in Run, Request(r) PROVE Progress'
  BY <1>1 DEF TypeOK, Progress, CanArchive, HasSnapshotId, Request, Goto
<1>2. ASSUME NEW r \in Run, Prepare(r) PROVE Progress'
  <2>1. /\ pc' = [pc EXCEPT ![r] = pc'[r]]
        /\ pc'[r] \in {"done", "return", "blobs", "trees", "archive"}
    BY <1>2 DEF TypeOK, Prepare, Goto
  <2>2. UNCHANGED <<container, pair, content, previewed, status>> /\ pc[r] = "prepare"
    BY <1>2 DEF Prepare
  <2> QED BY <2>1, <2>2 DEF TypeOK, Progress, CanArchive, HasSnapshotId
<1>3. ASSUME NEW r \in Run, Trees(r) PROVE Progress'
  <2>1. /\ pc' = [pc EXCEPT ![r] = pc'[r]]
        /\ pc'[r] \in {"blobs", "archive"}
    BY <1>3 DEF TypeOK, Trees, Goto
  <2>2. UNCHANGED <<container, pair, content, previewed, status>> /\ pc[r] = "trees"
    BY <1>3 DEF Trees
  <2> QED BY <2>1, <2>2 DEF TypeOK, Progress, CanArchive, HasSnapshotId
<1>4. ASSUME NEW r \in Run, Blobs(r) PROVE Progress'
  <2>1. SelectedContent(pair[r]) # None
    <3>1. pair[r].selected \in Commit \cup {Worktree}
      BY <1>4, ComparisonAssumption DEF Blobs, Progress, Revision
    <3> QED BY <3>1, ComparisonAssumption DEF SelectedContent, TypeOK, Revision
  <2>2. CASE content' = [content EXCEPT ![r] = SelectedContent(pair[r])] /\ Goto(r, "context")
    BY <1>4, <2>1, <2>2 DEF TypeOK, Progress, CanArchive, HasSnapshotId, Blobs, Goto
  <2>3. CASE UNCHANGED content /\ Goto(r, "archive")
    BY <1>4, <2>3 DEF TypeOK, Progress, CanArchive, HasSnapshotId, Blobs, Goto
  <2> QED BY <1>4, <2>2, <2>3 DEF Blobs
<1>5. ASSUME NEW r \in Run, Context(r) PROVE Progress'
  <2>1. /\ pc' = [pc EXCEPT ![r] = pc'[r]]
        /\ pc'[r] \in {"stage", "done", "archive"}
    BY <1>5 DEF TypeOK, Context, Goto
  <2>2. UNCHANGED <<container, pair, content, previewed, status>> /\ pc[r] = "context"
    BY <1>5 DEF Context
  <2> QED BY <2>1, <2>2 DEF TypeOK, Progress, CanArchive, HasSnapshotId
<1>6. ASSUME NEW r \in Run, Stage(r) PROVE Progress'
  <2>1. /\ pc' = [pc EXCEPT ![r] = pc'[r]]
        /\ pc'[r] \in {"left", "unstage"}
    BY <1>6 DEF TypeOK, Stage, Goto
  <2>2. UNCHANGED <<container, pair, content, previewed, status>> /\ pc[r] = "stage"
    BY <1>6 DEF Stage
  <2> QED BY <2>1, <2>2 DEF TypeOK, Progress, CanArchive, HasSnapshotId
<1>7. ASSUME NEW r \in Run, NEW s \in Side, Preview(r, s) PROVE Progress'
  <2>1. /\ pc' = [pc EXCEPT ![r] = pc'[r]]
        /\ pc'[r] \in {"right", "clear", "unstage", "rethrow"}
    <3>1. CASE Goto(r, AfterThrow) BY <3>1 DEF Goto, AfterThrow, TypeOK
    <3>2. CASE s = "left" BY <1>7, <3>1, <3>2 DEF Preview, Goto, TypeOK
    <3>3. CASE s = "right" BY <1>7, <3>1, <3>3 DEF Preview, Goto, TypeOK
    <3> QED BY <3>2, <3>3 DEF Side
  <2>2. /\ UNCHANGED <<container, pair, content, status>>
        /\ previewed' = [previewed EXCEPT ![r] = @ \cup {s}]
        /\ pc[r] \in {"left", "right"}
    BY <1>7 DEF Preview, Side
  <2> QED BY <2>1, <2>2 DEF TypeOK, Progress, CanArchive, HasSnapshotId
<1>8. ASSUME NEW r \in Run, ClearStale(r) PROVE Progress'
  BY <1>8 DEF TypeOK, Progress, CanArchive, HasSnapshotId, ClearStale, Goto, run
<1>9. ASSUME NEW r \in Run, CommandEnds(r) PROVE Progress'
  BY <1>9 DEF TypeOK, Progress, CanArchive, HasSnapshotId, CommandEnds, Goto, AfterThrow
<1>10. ASSUME NEW r \in Run, Finalize(r) PROVE Progress'
  BY <1>10 DEF TypeOK, Progress, CanArchive, HasSnapshotId, Finalize, Goto
<1>11. ASSUME NEW r \in Run, Unstage(r) PROVE Progress'
  <2>1. /\ status' = [status EXCEPT ![r] = status'[r]]
        /\ status'[r] \in {"removed", "failed"}
    BY <1>11 DEF TypeOK, Unstage, UnstageStatus
  <2>2. /\ pc' = [pc EXCEPT ![r] = pc'[r]]
        /\ pc[r] \in {"unstage", "rethrow"} /\ pc'[r] \in {"archive", "done"}
    BY <1>11 DEF TypeOK, Unstage, Goto
  <2>3. UNCHANGED <<container, pair, content, previewed>>
    BY <1>11 DEF Unstage
  <2> QED BY <2>1, <2>2, <2>3 DEF TypeOK, Progress, CanArchive, HasSnapshotId
<1>12. ASSUME NEW r \in Run, CopyToArchive(r) PROVE Progress'
  BY <1>12 DEF TypeOK, Progress, CanArchive, HasSnapshotId, CopyToArchive, Goto, run
<1>13. ASSUME NEW r \in Run, WriteSourceRecord(r) PROVE Progress'
  BY <1>13 DEF TypeOK, Progress, CanArchive, HasSnapshotId, WriteSourceRecord, Goto, run
<1>14. ASSUME NEW r \in Run, Return(r) PROVE Progress'
  BY <1>14 DEF TypeOK, Progress, CanArchive, HasSnapshotId, Return, Goto, run
<1>15. CASE EditVi
  BY <1>15 DEF TypeOK, Progress, CanArchive, HasSnapshotId, EditVi, run
<1>16. CASE UNCHANGED vars
  BY <1>16 DEF TypeOK, Progress, CanArchive, HasSnapshotId, vars, run, disk
<1> QED BY <1>1, <1>2, <1>3, <1>4, <1>5, <1>6, <1>7, <1>8, <1>9, <1>10, <1>11, <1>12, <1>13,
           <1>14, <1>15, <1>16 DEF Next, Step, AllDone

(* Every step keeps OnlyPreviewedPairsRun. *)
LEMMA PreviewedStep ==
    TypeOK /\ OnlyPreviewedPairsRun /\ [Next]_vars => OnlyPreviewedPairsRun'
<1> SUFFICES ASSUME TypeOK, OnlyPreviewedPairsRun, [Next]_vars PROVE OnlyPreviewedPairsRun'
  OBVIOUS
<1>1. ASSUME NEW r \in Run, Request(r) PROVE OnlyPreviewedPairsRun'
  BY <1>1 DEF TypeOK, OnlyPreviewedPairsRun, Request, Goto
<1>2. ASSUME NEW r \in Run, Prepare(r) PROVE OnlyPreviewedPairsRun'
  BY <1>2 DEF TypeOK, OnlyPreviewedPairsRun, Prepare, Goto
<1>3. ASSUME NEW r \in Run, Trees(r) PROVE OnlyPreviewedPairsRun'
  BY <1>3 DEF TypeOK, OnlyPreviewedPairsRun, Trees, Goto
<1>4. ASSUME NEW r \in Run, Blobs(r) PROVE OnlyPreviewedPairsRun'
  BY <1>4 DEF TypeOK, OnlyPreviewedPairsRun, Blobs, Goto
<1>5. ASSUME NEW r \in Run, Context(r) PROVE OnlyPreviewedPairsRun'
  BY <1>5 DEF TypeOK, OnlyPreviewedPairsRun, Context, Goto
<1>6. ASSUME NEW r \in Run, Stage(r) PROVE OnlyPreviewedPairsRun'
  BY <1>6 DEF TypeOK, OnlyPreviewedPairsRun, Stage, Goto
<1>7. ASSUME NEW r \in Run, NEW s \in Side, Preview(r, s) PROVE OnlyPreviewedPairsRun'
  BY <1>7 DEF TypeOK, OnlyPreviewedPairsRun, Preview, Goto, AfterThrow, Settled, Fails, Admits
<1>8. ASSUME NEW r \in Run, ClearStale(r) PROVE OnlyPreviewedPairsRun'
  BY <1>8 DEF TypeOK, OnlyPreviewedPairsRun, ClearStale, Goto, run
<1>9. ASSUME NEW r \in Run, CommandEnds(r) PROVE OnlyPreviewedPairsRun'
  BY <1>9 DEF TypeOK, OnlyPreviewedPairsRun, CommandEnds, Goto, AfterThrow
<1>10. ASSUME NEW r \in Run, Finalize(r) PROVE OnlyPreviewedPairsRun'
  BY <1>10 DEF TypeOK, OnlyPreviewedPairsRun, Finalize, Goto
<1>11. ASSUME NEW r \in Run, Unstage(r) PROVE OnlyPreviewedPairsRun'
  BY <1>11 DEF TypeOK, OnlyPreviewedPairsRun, Unstage, Goto
<1>12. ASSUME NEW r \in Run, CopyToArchive(r) PROVE OnlyPreviewedPairsRun'
  BY <1>12 DEF TypeOK, OnlyPreviewedPairsRun, CopyToArchive, Goto, run
<1>13. ASSUME NEW r \in Run, WriteSourceRecord(r) PROVE OnlyPreviewedPairsRun'
  BY <1>13 DEF TypeOK, OnlyPreviewedPairsRun, WriteSourceRecord, Goto, run
<1>14. ASSUME NEW r \in Run, Return(r) PROVE OnlyPreviewedPairsRun'
  BY <1>14 DEF TypeOK, OnlyPreviewedPairsRun, Return, Goto, run
<1>15. CASE EditVi
  BY <1>15 DEF TypeOK, OnlyPreviewedPairsRun, EditVi, run
<1>16. CASE UNCHANGED vars
  BY <1>16 DEF TypeOK, OnlyPreviewedPairsRun, vars, run, disk
<1> QED BY <1>1, <1>2, <1>3, <1>4, <1>5, <1>6, <1>7, <1>8, <1>9, <1>10, <1>11, <1>12, <1>13,
           <1>14, <1>15, <1>16 DEF Next, Step, AllDone

(* Every step keeps StagedFilesAreOwned: only Blobs adds files, and it adds *)
(* the run's own; only Unstage gives files up, and it removes them.         *)
LEMMA OwnedStep ==
    TypeOK /\ Progress /\ StagedFilesAreOwned /\ [Next]_vars => StagedFilesAreOwned'
<1> SUFFICES ASSUME TypeOK, Progress, StagedFilesAreOwned, [Next]_vars, NEW f \in staged'
             PROVE  \E q \in Run : pair'[q] # None /\ f \in Files(q)' /\ status'[q] # "removed"
  BY DEF StagedFilesAreOwned
<1> DEFINE Owned == \E q \in Run : pair'[q] # None /\ f \in Files(q)' /\ status'[q] # "removed"
<1>1. ASSUME NEW r \in Run, Request(r) PROVE Owned
  <2>1. f \in staged /\ UNCHANGED status BY <1>1 DEF Request, disk
  <2>2. PICK q \in Run : pair[q] # None /\ f \in Files(q) /\ status[q] # "removed"
    BY <2>1 DEF StagedFilesAreOwned
  <2>3. q # r BY <1>1, <2>2 DEF Request, Progress
  <2>4. pair'[q] = pair[q] BY <1>1, <2>3 DEF Request, TypeOK
  <2> QED BY <2>1, <2>2, <2>4 DEF Files
<1>2. ASSUME NEW r \in Run, Blobs(r) PROVE Owned
  <2>1. UNCHANGED <<pair, status>> BY <1>2 DEF Blobs
  <2>2. pair[r] # None /\ status[r] = "none"
    BY <1>2, ComparisonAssumption DEF Blobs, Progress, Before
  <2>3. f \in staged \/ f \in Files(r) BY <1>2 DEF Blobs, Files
  <2>4. CASE f \in Files(r) BY <2>1, <2>2, <2>4 DEF Files
  <2>5. CASE f \in staged BY <2>1, <2>5 DEF StagedFilesAreOwned, Files
  <2> QED BY <2>3, <2>4, <2>5
<1>3. ASSUME NEW r \in Run, Unstage(r) PROVE Owned
  <2>1. PICK failed \in SUBSET (staged \cap Files(r)), kept \in SUBSET staged :
          /\ kept \cap Files(r) \subseteq failed /\ staged' = kept
          /\ status' = [status EXCEPT ![r] = UnstageStatus(failed)]
    BY <1>3 DEF Unstage
  <2>2. UNCHANGED pair /\ pair[r] # None
    BY <1>3, ComparisonAssumption DEF Unstage, Progress
  <2>3. CASE f \in Files(r)
    <3>1. status'[r] = "failed" BY <2>1, <2>3 DEF UnstageStatus, TypeOK
    <3> QED BY <2>2, <2>3, <3>1 DEF Files
  <2>4. CASE f \notin Files(r)
    <3>1. PICK q \in Run : pair[q] # None /\ f \in Files(q) /\ status[q] # "removed"
      BY <2>1 DEF StagedFilesAreOwned
    <3>2. status'[q] = status[q] BY <2>1, <2>4, <3>1 DEF TypeOK
    <3> QED BY <2>2, <3>1, <3>2 DEF Files
  <2> QED BY <2>3, <2>4
<1>4. ASSUME UNCHANGED <<staged, pair, status>> PROVE Owned
  BY <1>4 DEF StagedFilesAreOwned, Files
<1>5. ASSUME NEW r \in Run, Step(r), ~Blobs(r), ~Unstage(r)
      PROVE  UNCHANGED <<staged, pair, status>>
  BY <1>5 DEF Step, Prepare, Trees, Context, Stage, Preview, ClearStale, CommandEnds, Finalize,
              CopyToArchive, WriteSourceRecord, Return, run, disk
<1>6. EditVi \/ AllDone \/ UNCHANGED vars => UNCHANGED <<staged, pair, status>>
  BY DEF EditVi, AllDone, vars, run, disk
<1> QED BY <1>1, <1>2, <1>3, <1>4, <1>5, <1>6 DEF Next

(* Every step keeps Faithful. *)
LEMMA FaithfulStep == TypeOK /\ Progress /\ Faithful /\ [Next]_vars => Faithful'
<1> SUFFICES ASSUME TypeOK, Progress, Faithful, [Next]_vars PROVE Faithful'
  OBVIOUS
<1>1. ASSUME NEW r \in Run, Request(r) PROVE Faithful'
  <2>1. content[r] = None /\ ~reportExists[r] BY <1>1 DEF Request, Faithful, TypeOK
  <2>2. UNCHANGED <<content, reportExists>> BY <1>1 DEF Request
  <2>3. \A q \in Run \ {r} : pc'[q] = pc[q] /\ pair'[q] = pair[q]
    BY <1>1 DEF Request, Goto, TypeOK
  <2> QED BY <2>1, <2>2, <2>3 DEF Faithful
<1>2. ASSUME NEW r \in Run, Blobs(r) PROVE Faithful'
  <2>1. UNCHANGED pair /\ pc'[r] # "idle" /\ \A q \in Run \ {r} : pc'[q] = pc[q]
    BY <1>2 DEF Blobs, Goto, TypeOK
  <2>2. \/ content' = [content EXCEPT ![r] = SelectedContent(pair[r])] /\ UNCHANGED reportExists
        \/ UNCHANGED content /\ reportExists' = [reportExists EXCEPT ![r] = FALSE]
    BY <1>2 DEF Blobs, Fails, Settled
  <2>3. pair[r] \in Pair /\ pair[r].selected \in Commit \cup {Worktree}
    BY <1>2, ComparisonAssumption DEF Blobs, Progress, Revision
  <2>4. SelectedContent(pair[r]) # None
    BY <2>3, ComparisonAssumption DEF SelectedContent, TypeOK, Revision
  <2>5. pair[r].selected # Worktree => SelectedContent(pair[r]) = pair[r].selected
    BY DEF SelectedContent
  <2> QED BY <2>1, <2>2, <2>4, <2>5 DEF Faithful, TypeOK
<1>3. ASSUME NEW r \in Run, Finalize(r) PROVE Faithful'
  <2>1. content[r] # None /\ UNCHANGED <<pair, content>>
    BY <1>3 DEF Finalize, Progress, Pass
  <2>2. \A q \in Run \ {r} : reportExists'[q] = reportExists[q] /\ pc'[q] = pc[q]
    BY <1>3 DEF Finalize, Settled, Fails, Goto, TypeOK
  <2>3. pc'[r] # "idle" BY <1>3 DEF Finalize, Goto, TypeOK
  <2> QED BY <2>1, <2>2, <2>3 DEF Faithful
<1>4. ASSUME UNCHANGED <<pair, content>>, \A q \in Run : pc'[q] = "idle" => pc[q] = "idle",
             \A q \in Run : reportExists'[q] => reportExists[q]
      PROVE  Faithful'
  BY <1>4 DEF Faithful
<1>5. ASSUME NEW r \in Run, Step(r), ~Blobs(r), ~Finalize(r) PROVE Faithful'
  <2>1. UNCHANGED <<pair, content>>
    BY <1>5 DEF Step, Prepare, Trees, Context, Stage, Preview, ClearStale, CommandEnds, Unstage,
                CopyToArchive, WriteSourceRecord, Return, run
  <2>2. \E p \in Pc \ {"idle"} : Goto(r, p)
    BY <1>5 DEF Step, Prepare, Trees, Context, Stage, Preview, ClearStale, CommandEnds, Unstage,
                CopyToArchive, WriteSourceRecord, Return, AfterThrow, Pc
  <2>3. UNCHANGED reportExists \/ reportExists' = [reportExists EXCEPT ![r] = FALSE]
    BY <1>5 DEF Step, Prepare, Trees, Context, Stage, Preview, ClearStale, CommandEnds, Unstage,
                CopyToArchive, WriteSourceRecord, Return, Fails, Settled, run
  <2> QED BY <2>1, <2>2, <2>3, <1>4 DEF Goto, TypeOK
<1>6. EditVi \/ AllDone \/ UNCHANGED vars => UNCHANGED <<pc, pair, content, reportExists>>
  BY DEF EditVi, AllDone, vars, run
<1> QED BY <1>1, <1>2, <1>3, <1>4, <1>5, <1>6 DEF Next

(* A run that holds nothing yet claims nothing of the shared directories. *)
Bare == {"idle", "prepare", "trees", "blobs", "context", "stage", "left", "right", "clear",
         "rethrow", "return", "done"}

(* Every step keeps the turns: the run that is live keeps what it holds, the *)
(* others hold nothing.                                                     *)
LEMMA TurnsStep == TypeOK /\ Progress /\ Faithful /\ Turns /\ [Next]_vars => Turns'
<1> SUFFICES ASSUME TypeOK, Progress, Faithful, Turns, [Next]_vars, ~disturbed'
             PROVE  /\ \A r, s \in Run : Live(r)' /\ Live(s)' => r = s
                    /\ \A r \in Run : HoldsItsOwn(r)'
  BY DEF Turns
<1>1. ASSUME NEW r \in Run, pc'[r] \in Bare PROVE HoldsItsOwn(r)'
  BY <1>1 DEF HoldsItsOwn, Bare
<1>2. ASSUME NEW r \in Run, Request(r)
      PROVE  /\ \A q, s \in Run : Live(q)' /\ Live(s)' => q = s
             /\ \A q \in Run : HoldsItsOwn(q)'
  <2>1. \A q \in Run : ~Live(q) BY <1>2 DEF Request
  <2>2. pc'[r] = "prepare" /\ \A q \in Run \ {r} : pc'[q] = pc[q]
    BY <1>2 DEF Request, Goto, TypeOK
  <2>3. \A q \in Run \ {r} : pc'[q] \in {"idle", "done"} BY <2>1, <2>2 DEF Live
  <2> QED BY <2>2, <2>3, <1>1 DEF Live, Bare
<1>3. ASSUME NEW r \in Run, Step(r), ~disturbed => HoldsItsOwn(r)'
      PROVE  /\ \A q, s \in Run : Live(q)' /\ Live(s)' => q = s
             /\ \A q \in Run : HoldsItsOwn(q)'
  <2>1. Live(r) /\ \E p \in Pc : Goto(r, p)
    BY <1>3 DEF Step, Prepare, Trees, Blobs, Context, Stage, Preview, ClearStale, CommandEnds,
                Finalize, Unstage, CopyToArchive, WriteSourceRecord, Return, AfterThrow, Pc, Live, Side
  <2>2. ~disturbed
    BY <1>3 DEF Step, Prepare, Trees, Blobs, Context, Stage, Preview, ClearStale, CommandEnds,
                Finalize, Unstage, CopyToArchive, WriteSourceRecord, Return
  <2>3. \A q \in Run \ {r} : ~Live(q) /\ pc'[q] = pc[q]
    BY <2>1, <2>2 DEF Turns, Goto, TypeOK
  <2>4. \A q \in Run \ {r} : pc'[q] \in {"idle", "done"} BY <2>3 DEF Live
  <2> QED BY <1>1, <1>3, <2>2, <2>4 DEF Live, Bare
<1>4. ASSUME NEW r \in Run, Step(r), ~disturbed, pc'[r] \notin Bare PROVE HoldsItsOwn(r)'
  <2>1. HoldsItsOwn(r) BY <1>4 DEF Turns
  <2>2. ASSUME pc'[r] \in {"unstage", "archive"}, ~reportExists'[r] PROVE HoldsItsOwn(r)'
    BY <2>2 DEF HoldsItsOwn
  <2>3. CASE Prepare(r) \/ Trees(r) \/ Blobs(r) \/ Context(r) \/ Stage(r)
    <3>1. pc'[r] \in {"unstage", "archive"} /\ ~reportExists'[r]
      BY <1>4, <2>3 DEF Prepare, Trees, Blobs, Context, Stage, Goto, Settled, Fails, TypeOK, Bare
    <3> QED BY <3>1, <2>2
  <2>4. ASSUME NEW s \in Side, Preview(r, s) PROVE HoldsItsOwn(r)'
    <3>1. pc'[r] \in {"unstage", "archive"} /\ ~reportExists'[r]
      <4>1. CASE Goto(r, "unstage") /\ Fails(r) BY <4>1 DEF Goto, Fails, Settled, TypeOK
      <4>2. CASE Goto(r, AfterThrow) \/ Goto(r, "right") \/ Goto(r, "clear")
        BY <1>4, <4>2 DEF Goto, AfterThrow, TypeOK, Bare
      <4> QED BY <2>4, <4>1, <4>2 DEF Preview, Side
    <3> QED BY <3>1, <2>2
  <2>5. CASE ClearStale(r)
    <3>1. executed' = None /\ report' = None /\ pc'[r] = "command"
      BY <1>4, <2>5 DEF ClearStale, Cleared, Goto, TypeOK
    <3> QED BY <3>1 DEF HoldsItsOwn
  <2>6. CASE CommandEnds(r)
    <3>1. UNCHANGED <<pair, content>> /\ pc[r] = "command" BY <2>6 DEF CommandEnds
    <3>2. Own(r)' = Own(r) /\ executed = None /\ report = None BY <2>1, <3>1 DEF HoldsItsOwn, Own
    <3>3. CASE Goto(r, "unstage") /\ Fails(r)
      BY <2>2, <3>3 DEF Goto, Fails, Settled, TypeOK
    <3>4. CASE Goto(r, "finalize") /\ executed' \in {executed, Own(r)} /\ report' \in {report, Own(r)}
      BY <3>2, <3>4 DEF HoldsItsOwn, Goto, TypeOK
    <3>5. ~Goto(r, AfterThrow) BY <1>4 DEF Goto, AfterThrow, TypeOK, Bare
    <3> QED BY <2>6, <3>3, <3>4, <3>5 DEF CommandEnds
  <2>7. CASE Finalize(r)
    <3>1. UNCHANGED <<pair, content>> /\ pc[r] = "finalize" /\ pc'[r] = "unstage"
      BY <2>7 DEF Finalize, Goto, TypeOK
    <3>2. Own(r)' = Own(r) /\ executed \in {None, Own(r)} BY <2>1, <3>1 DEF HoldsItsOwn, Own
    <3>3. executed # None => executed.pair = pair[r] BY <3>2 DEF Own
    <3>4. reportExists'[r] => executed # None /\ report' = executed
      BY <2>7, <3>3 DEF Finalize, Settled, Fails, TypeOK
    <3> QED BY <3>1, <3>2, <3>4 DEF HoldsItsOwn
  <2>8. CASE Unstage(r)
    <3>1. UNCHANGED <<pair, content, reportExists, report, archive>> BY <2>8 DEF Unstage
    <3>2. pc[r] = "unstage" /\ pc'[r] = "archive"
      BY <1>4, <2>8 DEF Unstage, Goto, TypeOK, Bare
    <3> QED BY <2>1, <3>1, <3>2 DEF HoldsItsOwn, Own
  <2>9. CASE CopyToArchive(r)
    <3>1. UNCHANGED <<pair, content, reportExists, report>> /\ pc[r] = "archive"
      BY <2>9 DEF CopyToArchive, run
    <3>2. pc'[r] = "source" /\ CanArchive(r) BY <1>4, <2>9 DEF CopyToArchive, Goto, TypeOK, Bare
    <3>3. Own(r)' = Own(r) /\ ArchiveId(r)' = ArchiveId(r) BY <3>1 DEF Own, ArchiveId
    <3>4. ArchiveId(r) \in Comparison
      BY <2>9, <3>2, ArchiveIdIsComparison DEF CopyToArchive, Progress
    <3>5. reportExists[r] => report = Own(r) BY <2>1, <3>1 DEF HoldsItsOwn
    <3>6. report # None =>
            archive' = [archive EXCEPT ![ArchiveId(r)] = [Shelf(ArchiveId(r)) EXCEPT !.report = report]]
      BY <2>9, <3>2 DEF CopyToArchive, Goto, TypeOK
    <3>7. reportExists[r] => Own(r) \in Report
      <4>1. reportExists[r] => content[r] # None BY DEF Faithful
      <4>2. pair[r] \in Pair BY <3>1 DEF Progress
      <4> QED BY <4>1, <4>2, OwnIsReport
    <3>8. ASSUME reportExists[r]
          PROVE  archive'[ArchiveId(r)] # None /\ archive'[ArchiveId(r)].report = Own(r)
      <4>1. report = Own(r) /\ report # None BY <3>5, <3>7, <3>8, NoneAssumption
      <4>2. archive'[ArchiveId(r)] = [Shelf(ArchiveId(r)) EXCEPT !.report = report]
        BY <3>4, <3>6, <4>1 DEF TypeOK
      <4>3. Shelf(ArchiveId(r)) \in Archived BY <3>4 DEF Shelf, TypeOK, Archived
      <4>4. report \in Report BY <3>7, <3>8, <4>1
      <4>5. archive'[ArchiveId(r)] \in Archived BY <4>2, <4>3, <4>4 DEF Archived
      <4> QED BY <4>1, <4>2, <4>3, <4>5, NoneAssumption DEF Archived
    <3> QED BY <3>1, <3>2, <3>3, <3>5, <3>8 DEF HoldsItsOwn
  <2>10. CASE WriteSourceRecord(r) \/ Return(r)
    BY <1>4, <2>10 DEF WriteSourceRecord, Return, Goto, TypeOK, Bare
  <2> QED BY <1>4, <2>3, <2>4, <2>5, <2>6, <2>7, <2>8, <2>9, <2>10 DEF Step
<1>5. CASE EditVi \/ AllDone \/ UNCHANGED vars
  <2>1. UNCHANGED <<disturbed, pc, pair, content, reportExists, executed, report, archive>>
    BY <1>5 DEF EditVi, AllDone, vars, run, disk
  <2> QED BY <2>1 DEF Turns, Live, HoldsItsOwn, Own, ArchiveId
<1> QED BY <1>1, <1>2, <1>3, <1>4, <1>5 DEF Next

LEMMA InitInvariant == Init => RunInvariant
<1> SUFFICES ASSUME Init PROVE RunInvariant
  OBVIOUS
<1>1. TypeOK
  <2>1. worktree \in Version BY ComparisonAssumption DEF Init, Version
  <2> QED BY <2>1 DEF Init, TypeOK, Pc
<1>2. Progress BY DEF Init, Progress, Pass, After
<1>3. OnlyPreviewedPairsRun BY DEF Init, OnlyPreviewedPairsRun
<1>4. StagedFilesAreOwned BY DEF Init, StagedFilesAreOwned
<1> QED BY <1>1, <1>2, <1>3, <1>4 DEF RunInvariant

(* The invariant holds for any number of runs, pairs and edits. *)
THEOREM InvariantHolds == Spec => []RunInvariant
<1>1. RunInvariant /\ [Next]_vars => RunInvariant'
  BY TypeStep, ProgressStep, PreviewedStep, OwnedStep DEF RunInvariant
<1> QED BY InitInvariant, <1>1, PTL DEF Spec

(* Every value of the state has its type. *)
THEOREM TypeCorrect == Spec => []TypeOK
<1>1. RunInvariant => TypeOK BY DEF RunInvariant
<1> QED BY InvariantHolds, <1>1, PTL

(* The comparison command runs only after both previews rendered, however   *)
(* many runs share the directory.                                           *)
THEOREM PreviewGate == Spec => []OnlyPreviewedPairsRun
<1>1. RunInvariant => OnlyPreviewedPairsRun BY DEF RunInvariant
<1> QED BY InvariantHolds, <1>1, PTL

(* No staged file outlives the runs that staged it unless they failed to    *)
(* remove it and said so.                                                   *)
THEOREM StagingIsOwned == Spec => []StagedFilesAreOwned
<1>1. RunInvariant => StagedFilesAreOwned BY DEF RunInvariant
<1> QED BY InvariantHolds, <1>1, PTL

(* A run that began a preview cycle passes through UNSTAGING before it      *)
(* ends, whatever threw.                                                    *)
THEOREM CleanUpOwned == Spec => []AlwaysUnstages
<1>1. RunInvariant => AlwaysUnstages
  BY DEF RunInvariant, Progress, AlwaysUnstages, After
<1> QED BY InvariantHolds, <1>1, PTL

(* What TurnsStep needs: the invariant, faithfulness and the turns together. *)
TurnsInvariant == RunInvariant /\ Faithful /\ Turns

LEMMA TurnsHold == Spec => []TurnsInvariant
<1>1. Init => TurnsInvariant
  <2> SUFFICES ASSUME Init PROVE Faithful /\ Turns
    BY InitInvariant DEF TurnsInvariant
  <2>1. \A r \in Run : pc[r] = "idle" /\ content[r] = None /\ ~reportExists[r] BY DEF Init
  <2> QED BY <2>1 DEF Faithful, Turns, Live, HoldsItsOwn
<1>2. TurnsInvariant /\ [Next]_vars => TurnsInvariant'
  BY TypeStep, ProgressStep, PreviewedStep, OwnedStep, FaithfulStep, TurnsStep
  DEF TurnsInvariant, RunInvariant
<1> QED BY <1>1, <1>2, PTL DEF Spec

(* Of runs that take turns, each one that ends with a report has its own at *)
(* the path they share, whatever the earlier ones left there.               *)
THEOREM OwnReport == Spec => []ReportIsItsOwn
<1>1. TurnsInvariant => ReportIsItsOwn
  BY DEF TurnsInvariant, Turns, HoldsItsOwn, ReportIsItsOwn
<1> QED BY TurnsHold, <1>1, PTL

(* And it files that report under the contents it compared, however the VI  *)
(* was edited since it was staged.                                          *)
THEOREM OwnArchive == Spec => []ArchiveIsItsOwn
<1>1. ASSUME TurnsInvariant, ~disturbed, NEW r \in Run, pc[r] = "source", reportExists[r]
      PROVE  LET filed == archive[ArchiveId(r)] IN
               filed # None /\ filed.report # None /\ filed.report.of = ArchiveId(r)
  <2>1. archive[ArchiveId(r)] # None /\ archive[ArchiveId(r)].report = Own(r)
    BY <1>1 DEF TurnsInvariant, Turns, HoldsItsOwn
  <2>2. content[r] # None /\ (pair[r].selected # Worktree => content[r] = pair[r].selected)
    BY <1>1 DEF TurnsInvariant, Faithful
  <2>3. Own(r).of = ArchiveId(r) BY <2>2 DEF Own, ArchiveId
  <2>4. pair[r] \in Pair BY <1>1 DEF TurnsInvariant, RunInvariant, Progress
  <2>5. Own(r) # None
    BY <1>1, <2>2, <2>4, OwnIsReport, NoneAssumption DEF TurnsInvariant, RunInvariant
  <2> QED BY <2>1, <2>3, <2>5
<1>2. TurnsInvariant => ArchiveIsItsOwn BY <1>1 DEF ArchiveIsItsOwn
<1> QED BY TurnsHold, <1>2, PTL
=============================================================================
