--------------------------- MODULE SnapshotArchive ---------------------------
(***************************************************************************)
(* The retained working-tree comparisons of one VI: archiving a run        *)
(* (comparisonReportArchive.ts), the retention index (worktreeSnapshot-    *)
(* Index.ts) and the dashboard that reads both (multiReportDashboard.ts).  *)
(*                                                                         *)
(* Nothing locks the files: runs of several panels interleave at every     *)
(* await, and the extension host may end between any two steps. A file is  *)
(* written in place, so the index is torn while it is being written.       *)
(***************************************************************************)
EXTENDS Naturals, Sequences, FiniteSets, SequencesExt, ListFilter

CONSTANTS Pair,      \* snapshots, each with its content-addressed pair
          Run,       \* calls of archiveComparisonReportSource
          Limits,    \* values of worktreeSnapshotRetentionLimit
          None

ASSUME LimitsAssumption == Limits \subseteq Nat
ASSUME NoneAssumption == None \notin Pair /\ None \notin Run

VARIABLES index,     \* worktree-snapshots.json; torn, it still means its last whole list
          shelf,     \* the archive directory of each pair
          run,       \* the archiving calls
          reader,    \* one build of the dashboard's snapshot entries
          orderly,   \* history: no overlap, no failure and no crash so far
          lone       \* history: the last call, while nothing has overlapped it

vars == <<index, shelf, run, reader, orderly, lone>>

Empty == [dir |-> FALSE, report |-> FALSE, record |-> "none"]
Busy == {"copying", "recording", "listing", "opening", "writing", "collecting"}
InFlight == {r \in Run : run[r].pc \in Busy}
Archived == {p \in Pair : shelf[p].dir}
Listed == ToSet(index.list)

TypeOK ==
    /\ index \in [state : {"absent", "torn", "whole"}, list : Seq(Pair)]
    /\ shelf \in [Pair -> [dir : BOOLEAN, report : BOOLEAN, record : {"none", "torn", "report", "bare"}]]
    /\ run \in [Run -> [pc : Busy \cup {"idle", "done", "failed", "gone"}, pair : Pair \cup {None},
                        limit : Nat, made : BOOLEAN, seen : Seq(Pair), todo : Seq(Pair), clash : BOOLEAN]]
    /\ reader \in [pc : {"idle", "walking", "parsing", "built", "threw", "gone"},
                   list : Seq(Pair), raced : BOOLEAN]
    /\ orderly \in BOOLEAN /\ lone \in Run \cup {None}

NotStarted == [pc |-> "idle", pair |-> None, limit |-> 0, made |-> FALSE,
               seen |-> << >>, todo |-> << >>, clash |-> FALSE]

Init ==
    /\ index = [state |-> "absent", list |-> << >>]
    /\ shelf = [p \in Pair |-> Empty]
    /\ run = [r \in Run |-> NotStarted]
    /\ reader = [pc |-> "idle", list |-> << >>, raced |-> FALSE]
    /\ orderly = TRUE /\ lone = None

At(r, label) == run[r].pc = label
-----------------------------------------------------------------------------
(* archiveComparisonReportSource, for a record with a snapshot identity and *)
(* the limit set at that moment. The comparison may have made no report.    *)
Start(r) ==
    /\ At(r, "idle")
    /\ \E p \in Pair, n \in Limits, m \in BOOLEAN :
          run' = [run EXCEPT ![r] = [@ EXCEPT !.pc = "copying", !.pair = p, !.limit = n, !.made = m]]
    /\ lone' = IF InFlight = {} THEN r ELSE None
    /\ orderly' = (orderly /\ InFlight = {})
    /\ UNCHANGED <<index, shelf, reader>>

(* mkdir and copyIfExists: a file an earlier run left is not removed. *)
Copy(r) ==
    /\ At(r, "copying")
    /\ LET p == run[r].pair IN
       shelf' = [shelf EXCEPT ![p] = [@ EXCEPT !.dir = TRUE, !.report = shelf[p].report \/ run[r].made]]
    /\ run' = [run EXCEPT ![r].pc = "recording"]
    /\ UNCHANGED <<index, reader, orderly, lone>>

(* The source record, if the directory is still there. *)
WriteRecord(r) ==
    /\ At(r, "recording") /\ shelf[run[r].pair].dir
    /\ shelf' = [shelf EXCEPT ![run[r].pair].record = IF run[r].made THEN "report" ELSE "bare"]
    /\ run' = [run EXCEPT ![r] = [@ EXCEPT !.pc = "listing", !.made = FALSE]]
    /\ UNCHANGED <<index, reader, orderly, lone>>

(* An index that is missing or does not parse is an empty one. *)
Parsed == IF index.state = "whole" THEN index.list ELSE << >>

ReadIndex(r) ==
    /\ At(r, "listing")
    /\ run' = [run EXCEPT ![r] = [@ EXCEPT !.pc = "opening", !.seen = Parsed]]
    /\ UNCHANGED <<index, shelf, reader, orderly, lone>>

(* writeFile empties the file, later its content is there. *)
OpenIndex(r) ==
    /\ At(r, "opening")
    /\ index' = [index EXCEPT !.state = "torn"]
    /\ run' = [q \in Run |->
                 [run[q] EXCEPT !.pc = IF q = r THEN "writing" ELSE @,
                                !.clash = @ \/ (q # r /\ At(q, "writing"))
                                            \/ (q = r /\ \E s \in Run \ {r} : At(s, "writing"))]]
    /\ UNCHANGED <<shelf, reader, orderly, lone>>

(* appendWorktreeSnapshotRecord: newest first, once each, cut to the limit. *)
Appended(list, p) == Without(list, {p}) \o <<p>>                     \* mutant
Repeated(list, p) == <<p>> \o list                                   \* mutant
Ordered(list, p) == <<p>> \o Without(list, {p})
First(n, list) == SubSeq(list, 1, IF n < Len(list) THEN n ELSE Len(list))
OneTooMany(list, p, n) == First(n + 1, Ordered(list, p))             \* mutant
Kept(list, p, n) == First(n, Ordered(list, p))
OneTooFew(list, p, n) == SubSeq(Ordered(list, p), n + 2, Len(Ordered(list, p)))   \* mutant
Evicted(list, p, n) == SubSeq(Ordered(list, p), n + 1, Len(Ordered(list, p)))

(* Two writers of one file may leave a mixture of their texts. *)
CloseIndex(r) ==
    /\ At(r, "writing")
    /\ \E state \in {"whole"} \cup (IF run[r].clash THEN {"torn"} ELSE {}) :
          index' = [state |-> state, list |-> Kept(run[r].seen, run[r].pair, run[r].limit)]
    /\ run' = [run EXCEPT ![r] = [@ EXCEPT !.pc = "collecting", !.seen = << >>, !.clash = FALSE,
                                  !.todo = Evicted(run[r].seen, run[r].pair, run[r].limit)]]
    /\ UNCHANGED <<shelf, reader, orderly, lone>>

(* The directory of the next evicted pair is removed; the dashboard, if it *)
(* is being built, has something taken away under it.                      *)
Collect(r) ==
    /\ At(r, "collecting") /\ run[r].todo # << >>
    /\ shelf' = [shelf EXCEPT ![Head(run[r].todo)] = Empty]
    /\ run' = [run EXCEPT ![r].todo = Tail(@)]
    /\ reader' = [reader EXCEPT !.raced = @ \/ reader.pc \in {"walking", "parsing"}]
    /\ UNCHANGED <<index, orderly, lone>>

Finish(r) ==
    /\ At(r, "collecting") /\ run[r].todo = << >>
    /\ run' = [run EXCEPT ![r].pc = "done"]
    /\ UNCHANGED <<index, shelf, reader, orderly, lone>>

(* Any of its file operations throws: 'retained-archive-write-failed'. *)
Fails(r) ==
    /\ r \in InFlight
    /\ run' = [run EXCEPT ![r] = [NotStarted EXCEPT !.pc = "failed"]]
    /\ orderly' = FALSE
    /\ UNCHANGED <<index, shelf, reader, lone>>

(* The extension host ends; a source record it was writing may be torn. *)
Crash ==
    /\ InFlight # {} \/ reader.pc \in {"walking", "parsing"}
    /\ run' = [r \in Run |-> IF r \in InFlight THEN [NotStarted EXCEPT !.pc = "gone"] ELSE run[r]]
    /\ \E torn \in SUBSET {run[r].pair : r \in {q \in InFlight : At(q, "recording")}} :
          shelf' = [p \in Pair |-> IF p \in torn /\ shelf[p].dir THEN [shelf[p] EXCEPT !.record = "torn"]
                                   ELSE shelf[p]]
    /\ reader' = IF reader.pc \in {"walking", "parsing"} THEN [reader EXCEPT !.pc = "gone", !.list = << >>] ELSE reader
    /\ orderly' = FALSE
    /\ UNCHANGED <<index, lone>>
-----------------------------------------------------------------------------
(* buildRetainedWorktreeSnapshotEntries *)

BeginBuild ==
    /\ reader.pc = "idle"
    /\ reader' = [reader EXCEPT !.pc = "walking", !.list = Parsed]
    /\ UNCHANGED <<index, shelf, run, orderly, lone>>

MissingOnly == {"none"}                 \* mutant
Unreadable == {"none", "torn"}

(* The next snapshot: skipped without a readable source record; parsed when *)
(* its record and its report are there; an entry without report otherwise.  *)
Visit ==
    /\ reader.pc = "walking" /\ reader.list # << >>
    /\ LET s == shelf[Head(reader.list)] IN
       reader' =
            IF s.record \in Unreadable THEN [reader EXCEPT !.list = Tail(@)]
            ELSE IF s.record = "torn" THEN [reader EXCEPT !.pc = "threw"]
            ELSE IF s.record = "report" /\ s.report THEN [reader EXCEPT !.pc = "parsing"]
            ELSE [reader EXCEPT !.list = Tail(@)]
    /\ UNCHANGED <<index, shelf, run, orderly, lone>>

(* The report is read outside any try: it may be gone by now. *)
Parse ==
    /\ reader.pc = "parsing"
    /\ reader' = IF shelf[Head(reader.list)].report
                 THEN [reader EXCEPT !.pc = "walking", !.list = Tail(@)]
                 ELSE [reader EXCEPT !.pc = "threw"]
    /\ UNCHANGED <<index, shelf, run, orderly, lone>>

Built ==
    /\ reader.pc = "walking" /\ reader.list = << >>
    /\ reader' = [reader EXCEPT !.pc = "built"]
    /\ UNCHANGED <<index, shelf, run, orderly, lone>>

Idle == InFlight = {} /\ reader.pc \notin {"walking", "parsing"} /\ UNCHANGED vars

Next ==
    \/ \E r \in Run : \/ Start(r) \/ Copy(r) \/ WriteRecord(r) \/ ReadIndex(r) \/ OpenIndex(r)
                      \/ CloseIndex(r) \/ Collect(r) \/ Finish(r) \/ Fails(r)
    \/ Crash \/ BeginBuild \/ Visit \/ Parse \/ Built \/ Idle

Spec == Init /\ [][Next]_vars
-----------------------------------------------------------------------------
(* A snapshot is listed once, however the runs overlap and die: comparing  *)
(* unchanged content again is idempotent.                                  *)
ListedOnce == IsInjective(index.list)

(* As long as runs take turns and nothing fails, the index and the disk    *)
(* agree whenever nobody is at work: every listed snapshot is archived, and *)
(* no archive is left that the dashboard cannot find.                      *)
DiskMatchesIndex ==
    orderly /\ InFlight = {} => Archived = Listed /\ \A p \in Listed : shelf[p].record \in {"report", "bare"}

(* Recovery: whatever earlier runs, failures and crashes left, a run that  *)
(* nothing overlaps leaves its own snapshot first in a readable index, with *)
(* a readable record, unless retention is off.                             *)
LoneRunRetains ==
    lone # None /\ At(lone, "done") /\ run[lone].limit > 0 =>
        /\ index.state = "whole" /\ index.list # << >>
        /\ Head(index.list) = run[lone].pair
        /\ shelf[run[lone].pair].record \in {"report", "bare"}

(* The dashboard survives what crashes leave behind: only a directory that *)
(* a run removes during the build can make it throw.                       *)
DashboardIsFailSoft == reader.pc = "threw" => reader.raced

(* As long as runs take turns and nothing fails, the index is the history  *)
(* that SnapshotRetention promises: it changes only as its Next does, with *)
(* the pair and the limit of the run that writes.                          *)
Store == INSTANCE SnapshotRetention WITH kept <- index.list
Retains == \E r \in Run : At(r, "writing") /\ Store!Retain(run[r].pair, run[r].limit)
ImplementsRetention == Store!Init /\ [][orderly => Store!Next /\ Retains]_(index.list)
=============================================================================
