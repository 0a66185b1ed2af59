--------------------------- MODULE CommandRunner ---------------------------
(***************************************************************************)
(* One attempt to run the comparison command: the two command runners of   *)
(* comparisonReportRuntimeExecution.ts (spawn with process observation for *)
(* the host, execFile for containers), and executeAttempt, which turns     *)
(* what they return into the attempt's state and failure reason.           *)
(*                                                                         *)
(* The child, its pipes, the user and other programs move on their own;    *)
(* each event handler of the extension host is one step. Text is a set of  *)
(* telling lines. A tasklist snapshot is taken when the query answers.     *)
(***************************************************************************)
EXTENDS Integers

CONSTANTS None,
          Lines     \* the telling lines the command may write

(* LabVIEWCLI's banner and other text on stdout, causes of failure on stderr. *)
ASSUME LinesAssumption == Lines \subseteq {"banner", "text", "too-new", "no-connection"}

VARIABLES plan,        \* provider, engine and whether a timeout is set; fixed
          token,       \* the user has cancelled
          child,       \* the operating system's view of the process
          exit,        \* how it ended
          written,     \* the lines it has written
          report,      \* it has written the report
          labview,     \* the LabVIEW that runs on the host, by bitness
          pc,          \* of the runner
          read,        \* stdout and stderr as received
          asked,       \* terminationRequested with the flag it set
          timer, subscribed,
          bannerObs, exitObs,   \* process observations
          verdict,     \* how the runner's promise settles
          result       \* the attempt's state and reason

host == <<token, child, exit, written, report, labview>>
runner == <<pc, read, asked, timer, subscribed, bannerObs, exitObs, verdict>>
vars == <<plan, host, runner, result>>

Bitness == {"none", "selected", "other"}
Snapshot == [labview : Bitness, cli : BOOLEAN]
(* An observation was never started, runs, failed, or is a snapshot. *)
NoObs == [state |-> "none", seen |-> None]
Pending == [state |-> "pending", seen |-> None]
Failed == [state |-> "failed", seen |-> None]
Seen(s) == [state |-> "seen", seen |-> s]
Nothing == [state |-> "nothing", seen |-> None]      \* not Windows: no process list
Observation == {NoObs, Pending, Failed, Nothing} \cup {Seen(s) : s \in Snapshot}

Reasons == {"command-cancelled", "command-timed-out", "command-spawn-failed", "command-exited-nonzero",
            "report-file-not-generated", "lvcompare-exited-zero-without-report",
            "labview-cli-log-only-no-labview-through-exit", "labview-cli-log-only-no-labview-at-banner-snapshot",
            "labview-cli-exited-nonzero-log-only-no-report", "labview-vi-version-too-new",
            "labview-cli-connection-failed", "labview-host-bitness-conflict", "report-finalize-failed"}

ASSUME NoneAssumption == None \notin Reasons \cup {"completed", "cancelled", "timeout", "rejected"}

Plans == [container : BOOLEAN, windows : BOOLEAN, engine : {"labview-cli", "lvcompare"}, bounded : BOOLEAN]

TypeOK ==
    /\ plan \in Plans
    /\ token \in BOOLEAN /\ report \in BOOLEAN /\ subscribed \in BOOLEAN
    /\ child \in {"none", "starting", "running", "ended"}
    /\ exit \in {"none", "zero", "nonzero", "signal"}
    /\ written \subseteq Lines /\ read \subseteq written
    /\ labview \in Bitness
    /\ pc \in {"idle", "live", "exited", "observing", "settled", "concluded"}
    /\ asked \in {None, "cancelled", "timeout"}
    /\ timer \in {"off", "armed"}
    /\ bannerObs \in Observation /\ exitObs \in Observation
    /\ verdict \in {None, "completed", "cancelled", "timeout", "rejected"}
    /\ result \in [state : {"none", "succeeded", "failed"}, reason : Reasons \cup {None}]

(* buildDefaultRunCommand and resolveEffectiveCommandTimeoutMs: a container *)
(* runs LabVIEWCLI without observation, and only a headless LabVIEW of a    *)
(* Linux host has a time limit.                                             *)
Init ==
    /\ plan \in Plans
    /\ plan.bounded => ~plan.container /\ ~plan.windows
    /\ plan.engine = "lvcompare" => plan.windows /\ ~plan.container
    /\ token \in BOOLEAN /\ child = "none" /\ exit = "none" /\ written = {} /\ report = FALSE
    /\ labview \in Bitness
    /\ pc = "idle" /\ read = {} /\ asked = None /\ timer = "off" /\ subscribed = FALSE
    /\ bannerObs = NoObs /\ exitObs = NoObs /\ verdict = None
    /\ result = [state |-> "none", reason |-> None]
-----------------------------------------------------------------------------
(* The environment. *)

LabviewChanges ==
    /\ pc # "concluded" /\ plan.windows /\ ~plan.container
    /\ labview' \in Bitness \ {labview}
    /\ UNCHANGED <<plan, token, child, exit, written, report, runner, result>>

Writes ==
    /\ child = "running"
    /\ \/ \E l \in Lines \ written : written' = written \cup {l} /\ UNCHANGED report
       \/ ~report /\ report' = TRUE /\ UNCHANGED written
    /\ UNCHANGED <<plan, token, child, exit, labview, runner, result>>

(* The process ends by itself or by a signal: SIGKILL, if it was sent in time. *)
ChildEnds ==
    /\ child = "running" /\ child' = "ended"
    /\ exit' \in {"zero", "nonzero", "signal"}
    /\ UNCHANGED <<plan, token, written, report, labview, runner, result>>
-----------------------------------------------------------------------------
(* The runner. *)

LastReason(why) == why      \* mutant
(* requestTermination: the first reason wins; the child is killed, from    *)
(* then on it ends in bounded time.                                        *)
Requested(why) == IF asked = None THEN why ELSE asked

Begin ==
    /\ pc = "idle" /\ pc' = "live"
    /\ child' = "starting"
    /\ subscribed' = TRUE
    /\ timer' = IF plan.bounded THEN "armed" ELSE "off"
    /\ asked' = IF token THEN Requested("cancelled") ELSE asked
    /\ UNCHANGED <<plan, token, exit, written, report, labview, read, bannerObs, exitObs, verdict, result>>

(* `observationStarted` lets one observation start. *)
Started(obs) == IF obs = NoObs THEN Pending ELSE obs

(* 'spawn': LVCompare prints nothing, so it is observed at once. *)
Spawned ==
    /\ child = "starting" /\ child' = "running"
    /\ bannerObs' = IF ~plan.container /\ plan.engine = "lvcompare" THEN Started(bannerObs) ELSE bannerObs
    /\ UNCHANGED <<plan, token, exit, written, report, labview,
                   pc, read, asked, timer, subscribed, exitObs, verdict, result>>

StillArmed == timer         \* mutant
Disarmed == "off"
(* The timer and the subscription go as soon as the process is over. *)
Released == timer' = Disarmed /\ subscribed' = FALSE

(* 'error': it could not be started, or, on the host, not be killed (then   *)
(* it stays); execFile still calls a cancelled command cancelled.           *)
ErrorEvent ==
    /\ pc = "live"
    /\ \/ child = "starting" /\ child' = "ended"
       \/ asked # None /\ child = "running" /\ ~plan.container /\ UNCHANGED child
    /\ Released
    /\ pc' = "settled"
    /\ verdict' = IF plan.container /\ asked # None THEN asked ELSE "rejected"
    /\ UNCHANGED <<plan, token, exit, written, report, labview, read, asked, bannerObs, exitObs, result>>

(* 'data': the banner of LabVIEWCLI starts the observation. *)
Data ==
    /\ pc = "live" /\ read # written /\ read' = written
    /\ bannerObs' = IF ~plan.container /\ "banner" \in written THEN Started(bannerObs) ELSE bannerObs
    /\ UNCHANGED <<plan, host, pc, asked, timer, subscribed, exitObs, verdict, result>>

TimerFires ==
    /\ timer = "armed" /\ timer' = "off"
    /\ asked' = Requested("timeout")
    /\ UNCHANGED <<plan, host, pc, read, subscribed, bannerObs, exitObs, verdict, result>>

(* onCancellationRequested, if anybody still listens. *)
Cancel ==
    /\ ~token /\ token' = TRUE
    /\ asked' = IF subscribed THEN Requested("cancelled") ELSE asked
    /\ UNCHANGED <<plan, child, exit, written, report, labview,
                   pc, read, timer, subscribed, bannerObs, exitObs, verdict, result>>

(* observeWindowsRuntimeProcesses: the process list answers, or fails. *)
Answers(obs) ==
    IF plan.windows
    THEN \/ obs' = Failed
         \/ \E cli \in BOOLEAN : /\ child = "running" /\ plan.engine = "labview-cli" => cli
                                 /\ obs' = Seen([labview |-> labview, cli |-> cli])
    ELSE obs' = Nothing

BannerObserved ==
    /\ bannerObs = Pending /\ Answers(bannerObs)
    /\ UNCHANGED <<plan, host, pc, read, asked, timer, subscribed, exitObs, verdict, result>>

EndDelivered == child = "ended" /\ exit # "none"

(* 'exit' on the host: settled from now on; what is still in the pipes is lost. *)
ExitEvent ==
    /\ pc = "live" /\ ~plan.container /\ EndDelivered
    /\ pc' = "exited" /\ Released
    /\ UNCHANGED <<plan, host, read, asked, bannerObs, exitObs, verdict, result>>

(* Mutant: the failure of the first observation is not caught. *)
ObserveUnlessFailed ==
    /\ pc = "exited" /\ bannerObs \notin {Pending, Failed}
    /\ pc' = "observing"
    /\ exitObs' = IF bannerObs = NoObs THEN NoObs ELSE Pending
    /\ UNCHANGED <<plan, host, read, asked, timer, subscribed, bannerObs, verdict, result>>

(* The first observation is awaited, then the one at exit is started. *)
ObserveExit ==
    /\ pc = "exited" /\ bannerObs # Pending
    /\ pc' = "observing"
    /\ exitObs' = IF bannerObs = NoObs THEN NoObs ELSE Pending
    /\ UNCHANGED <<plan, host, read, asked, timer, subscribed, bannerObs, verdict, result>>

ExitObserved ==
    /\ exitObs = Pending /\ Answers(exitObs)
    /\ UNCHANGED <<plan, host, pc, read, asked, timer, subscribed, bannerObs, verdict, result>>

(* A failed observation rejects, and so does an end without a code that    *)
(* nobody asked for; the flags are passed on beside whatever code there is. *)
Verdict ==
    IF Failed \in {bannerObs, exitObs} \/ (asked = None /\ exit = "signal") THEN "rejected"
    ELSE IF asked = None THEN "completed" ELSE asked

SettleFromExit ==
    /\ pc = "observing" /\ exitObs # Pending
    /\ pc' = "settled" /\ verdict' = Verdict
    /\ UNCHANGED <<plan, host, read, asked, timer, subscribed, bannerObs, exitObs, result>>

(* execFile's callback: everything written has been received; a cancelled  *)
(* command is cancelled whatever it returned, and one that was killed by    *)
(* somebody else has no code.                                               *)
Callback ==
    /\ pc = "live" /\ plan.container /\ EndDelivered
    /\ pc' = "settled" /\ read' = written /\ Released
    /\ verdict' = Verdict
    /\ UNCHANGED <<plan, host, asked, bannerObs, exitObs, result>>
-----------------------------------------------------------------------------
(* The attempt. *)

(* No LabVIEW beside LabVIEWCLI in an observation. *)
CliAlone(obs) == obs.state = "seen" /\ obs.seen.cli /\ obs.seen.labview = "none"

LogOnly == read = {"banner"}

(* classifyRuntimeFailure *)
Classified ==
    CASE exit = "zero" ->
           IF plan.engine = "lvcompare" /\ ~report THEN "lvcompare-exited-zero-without-report"
           ELSE "report-file-not-generated"
      [] exit # "zero" /\ ~report /\ plan.engine = "labview-cli" /\ LogOnly ->
           IF CliAlone(bannerObs) /\ CliAlone(exitObs) THEN "labview-cli-log-only-no-labview-through-exit"
           ELSE IF CliAlone(bannerObs) THEN "labview-cli-log-only-no-labview-at-banner-snapshot"
           ELSE "labview-cli-exited-nonzero-log-only-no-report"
      [] OTHER ->
           IF "too-new" \in read THEN "labview-vi-version-too-new"
           ELSE IF plan.engine = "labview-cli" /\ "no-connection" \in read THEN "labview-cli-connection-failed"
           ELSE IF exitObs.state = "seen" /\ exitObs.seen.labview = "other" THEN "labview-host-bitness-conflict"
           ELSE "command-exited-nonzero"

(* A cancelled LabVIEWCLI that had already logged Error 66 failed by that. *)
CancelledReason ==
    {"command-cancelled"} \cup
    (IF plan.engine = "labview-cli" /\ "banner" \in read THEN {"command-exited-nonzero"} ELSE {})

(* Mutant: the flags are not tested. *)
SuccessByCode == exit = "zero" /\ report
Succeeded == verdict = "completed" /\ exit = "zero" /\ report

Success == [state |-> "succeeded", reason |-> None]
Failure(reasons) == {[state |-> "failed", reason |-> r] : r \in reasons}

(* Retaining the output, the observation and the diagnostics, or finalizing *)
(* the report, may throw; the catch path knows only the latter.             *)
Outcomes ==
    IF verdict = "rejected" THEN Failure({"command-spawn-failed"})
    ELSE Failure({"command-spawn-failed"} \cup (IF report THEN {"report-finalize-failed"} ELSE {}))
         \cup IF Succeeded THEN {Success}
              ELSE Failure(CASE verdict = "cancelled" -> CancelledReason
                             [] verdict = "timeout" -> {"command-timed-out"}
                             [] OTHER -> {Classified})

Conclude ==
    /\ pc = "settled" /\ pc' = "concluded"
    /\ result' \in Outcomes
    /\ UNCHANGED <<plan, host, read, asked, timer, subscribed, bannerObs, exitObs, verdict>>

Over == pc = "concluded" /\ UNCHANGED vars

Handler == Begin \/ Spawned \/ ErrorEvent \/ Data \/ TimerFires \/ BannerObserved \/ ExitEvent
           \/ ObserveExit \/ ExitObserved \/ SettleFromExit \/ Callback \/ Conclude

Next == LabviewChanges \/ Writes \/ ChildEnds \/ Cancel \/ Handler \/ Over

Spec == Init /\ [][Next]_vars

(* Events are delivered, queries answer, and a killed process ends. *)
Fairness ==
    /\ WF_vars(Spawned) /\ WF_vars(Data) /\ WF_vars(TimerFires)
    /\ WF_vars(BannerObserved) /\ WF_vars(ExitObserved)
    /\ WF_vars(ExitEvent) /\ WF_vars(ObserveExit) /\ WF_vars(SettleFromExit)
    /\ WF_vars(Callback) /\ WF_vars(Conclude)
    /\ WF_vars(asked # None /\ ChildEnds)

FairSpec == Spec /\ Fairness
-----------------------------------------------------------------------------
(* Observation aside, a runner is one-shot: one verdict, given for what was *)
(* asked before the process was over and never changed.                     *)
Abstract == INSTANCE OneShotCommand WITH due <- pc \notin {"idle", "live"}
ImplementsOneShot == Abstract!Spec

(* Once the process is over nothing the runner armed is left to act: no    *)
(* timer, no listener, so no later kill of a process that is not its child. *)
NothingLeftArmed ==
    pc \notin {"idle", "live"} => timer = "off" /\ ~subscribed

(* The conclusion agrees with what happened to the process: success needs  *)
(* a clean exit, a report and nobody who asked to stop; no answer blames   *)
(* the user or the clock unless it was they; and a command that did its     *)
(* work fails only by what was done with its output.                        *)
ConclusionIsTrue ==
    /\ result.state = "succeeded" => exit = "zero" /\ report /\ asked = None
    /\ result.reason = "command-cancelled" => asked = "cancelled" /\ token
    /\ result.reason = "command-timed-out" => asked = "timeout" /\ plan.bounded
    /\ result.state = "failed" /\ asked = None /\ exit = "zero" /\ report =>
          result.reason \in {"command-spawn-failed", "report-finalize-failed"}

(* A command that is cancelled or runs out of time is concluded. *)
TerminationConcludes == asked # None ~> pc = "concluded"
=============================================================================
