------------------------- MODULE CommandRunnerProofs -------------------------
(***************************************************************************)
(* The command runners keep the promise of OneShotCommand, and the         *)
(* attempt's conclusion is true, for every set of lines a command writes.  *)
(***************************************************************************)
EXTENDS CommandRunner, TLAPS

Finished == {"exited", "observing", "settled", "concluded"}

(* What the runner's own state says about who asked and who listens. *)
Asking ==
    /\ pc \in {"idle", "live"} \cup Finished
    /\ asked \in {None, "cancelled", "timeout"}
    /\ asked = "cancelled" => token
    /\ asked = "timeout" => plan.bounded
    /\ pc = "idle" => asked = None /\ child = "none"
    /\ subscribed => pc = "live"
    /\ timer \in {"off", "armed"}
    /\ timer = "armed" => pc = "live" /\ plan.bounded
    /\ token \in BOOLEAN /\ subscribed \in BOOLEAN

(* The verdict comes with the settlement and blames what was asked. *)
Judging ==
    /\ pc \in {"settled", "concluded"} <=> verdict # None
    /\ verdict \in {None, "completed", "rejected", "cancelled", "timeout"}
    /\ verdict = "completed" => asked = None
    /\ verdict \in {"cancelled", "timeout"} => asked = verdict

(* From the settlement on the process is over, or it is one that could not *)
(* be killed: its exit and its report no longer change a good answer.      *)
Process ==
    /\ exit # "none" => child = "ended"
    /\ pc \in {"exited", "observing"} => child = "ended"
    /\ verdict = "completed" => child = "ended"
    /\ pc \in Finished /\ asked = None => child = "ended"

Blameless == {"command-spawn-failed", "report-finalize-failed"}

Concluding ==
    /\ pc # "concluded" => result.state = "none" /\ result.reason = None
    /\ result.state = "succeeded" => verdict = "completed" /\ exit = "zero" /\ report
    /\ result.reason = "command-cancelled" => verdict = "cancelled"
    /\ result.reason = "command-timed-out" => verdict = "timeout"
    /\ result.state = "failed" =>
          \/ result.reason \in Blameless
          \/ asked # None
          \/ ~(exit = "zero" /\ report)

RunnerInv == Asking /\ Judging /\ Process /\ Concluding

(* What the classifier blames is never the user or the clock. *)
LEMMA ClassifiedBlames ==
    Classified \notin {"command-cancelled", "command-timed-out"}
<1>1. CASE exit = "zero"
  BY <1>1 DEF Classified
<1>2. CASE exit # "zero"
  BY <1>2 DEF Classified
<1> QED BY <1>1, <1>2

(* An outcome is a success of a completed command or a failure for its verdict. *)
LEMMA OutcomeShape ==
    ASSUME RunnerInv, NEW o \in Outcomes, verdict # None
    PROVE  \/ o = Success /\ Succeeded
           \/ o.state = "failed" /\ o.reason \in Blameless
           \/ /\ o.state = "failed" /\ ~Succeeded
              /\ \/ verdict = "cancelled" /\ o.reason \in CancelledReason
                 \/ verdict = "timeout" /\ o.reason = "command-timed-out"
                 \/ verdict = "completed" /\ o.reason = Classified
<1>1. CASE verdict = "rejected"
  BY <1>1 DEF Outcomes, Failure, Blameless
<1>2. CASE verdict # "rejected"
  <2>1. CASE o = Success /\ Succeeded
    BY <2>1
  <2>2. CASE o \in Failure({"command-spawn-failed"} \cup (IF report THEN {"report-finalize-failed"} ELSE {}))
    BY <2>2 DEF Failure, Blameless
  <2>3. CASE ~Succeeded /\ o \in Failure(CASE verdict = "cancelled" -> CancelledReason
                                           [] verdict = "timeout" -> {"command-timed-out"}
                                           [] OTHER -> {Classified})
    <3>1. CASE verdict = "cancelled"
      BY <2>3, <3>1 DEF Failure
    <3>2. CASE verdict = "timeout"
      BY <2>3, <3>2 DEF Failure
    <3>3. CASE verdict = "completed"
      BY <2>3, <3>3 DEF Failure
    <3> QED BY <1>2, <3>1, <3>2, <3>3 DEF RunnerInv, Judging
  <2> QED BY <1>2, <2>1, <2>2, <2>3 DEF Outcomes
<1> QED BY <1>1, <1>2

(* The invariant holds at first. *)
LEMMA InitInv == Init => RunnerInv
<1> SUFFICES ASSUME Init PROVE RunnerInv
  OBVIOUS
<1> USE NoneAssumption DEF Finished, Reasons
<1>1. Asking
  BY DEF Init, Asking
<1>2. Judging
  BY DEF Init, Judging
<1>3. Process
  BY DEF Init, Process
<1>4. Concluding
  BY DEF Init, Concluding
<1> QED BY <1>1, <1>2, <1>3, <1>4 DEF RunnerInv

(* Every step of the environment and the runner keeps it. *)
LEMMA StepInv == RunnerInv /\ [Next]_vars => RunnerInv'
<1> SUFFICES ASSUME RunnerInv, [Next]_vars PROVE RunnerInv'
  OBVIOUS
<1> USE NoneAssumption DEF RunnerInv, Asking, Judging, Process, Concluding, Finished, Blameless, Reasons
<1>1. CASE LabviewChanges
  BY <1>1 DEF LabviewChanges, runner
<1>2. CASE Writes
  BY <1>2 DEF Writes, runner
<1>3. CASE ChildEnds
  BY <1>3 DEF ChildEnds, runner
<1>4. CASE Cancel
  BY <1>4 DEF Cancel, Requested
<1>5. CASE Begin
  BY <1>5 DEF Begin, Requested
<1>6. CASE Spawned
  BY <1>6 DEF Spawned
<1>7. CASE ErrorEvent
  BY <1>7 DEF ErrorEvent, Released, Disarmed
<1>8. CASE Data
  BY <1>8 DEF Data, host
<1>9. CASE TimerFires
  BY <1>9 DEF TimerFires, host, Requested
<1>10. CASE BannerObserved
  BY <1>10 DEF BannerObserved, host
<1>11. CASE ExitEvent
  BY <1>11 DEF ExitEvent, host, Released, Disarmed, EndDelivered
<1>12. CASE ObserveExit
  BY <1>12 DEF ObserveExit, host
<1>13. CASE ExitObserved
  BY <1>13 DEF ExitObserved, host
<1>14. CASE SettleFromExit
  BY <1>14 DEF SettleFromExit, host, Verdict
<1>15. CASE Callback
  BY <1>15 DEF Callback, host, Verdict, Released, Disarmed, EndDelivered
<1>16. CASE Conclude
  <2>1. verdict # None /\ result' \in Outcomes /\ pc' = "concluded"
    BY <1>16 DEF Conclude
  <2>2. UNCHANGED <<plan, host, read, asked, timer, subscribed, verdict>>
    BY <1>16 DEF Conclude
  <2>3. Asking' /\ Judging' /\ Process'
    BY <1>16, <2>2 DEF Conclude, host
  <2>4. Concluding'
    <3>1. CASE result' = Success /\ Succeeded
      BY <2>1, <2>2, <3>1 DEF Success, Succeeded, host
    <3>2. CASE result'.state = "failed" /\ result'.reason \in Blameless
      BY <2>1, <2>2, <3>2 DEF host
    <3>3. CASE /\ result'.state = "failed" /\ ~Succeeded
               /\ \/ verdict = "cancelled" /\ result'.reason \in CancelledReason
                  \/ verdict = "timeout" /\ result'.reason = "command-timed-out"
                  \/ verdict = "completed" /\ result'.reason = Classified
      BY <2>1, <2>2, <3>3, ClassifiedBlames DEF CancelledReason, Succeeded, host
    <3> QED BY <2>1, OutcomeShape, <3>1, <3>2, <3>3
  <2> QED BY <2>3, <2>4
<1>17. CASE UNCHANGED vars
  BY <1>17 DEF vars, host, runner
<1> QED
  BY <1>1, <1>2, <1>3, <1>4, <1>5, <1>6, <1>7, <1>8, <1>9, <1>10, <1>11, <1>12, <1>13,
     <1>14, <1>15, <1>16, <1>17 DEF Next, Handler, Over

(* The invariant of every behaviour: who asked, who listens, what the      *)
(* verdict blames and what the process can still do.                       *)
THEOREM RunnerInvariant == Spec => []RunnerInv
  BY InitInv, StepInv, PTL DEF Spec

(* After the process is over no timer and no listener of the runner is left. *)
THEOREM NothingStaysArmed == Spec => []NothingLeftArmed
<1>1. RunnerInv => NothingLeftArmed
  BY DEF RunnerInv, Asking, NothingLeftArmed
<1> QED BY <1>1, RunnerInvariant, PTL

(* The conclusion of an attempt agrees with the process, the user and the  *)
(* clock, whatever order their events came in.                             *)
THEOREM ConclusionsAreTrue == Spec => []ConclusionIsTrue
<1>1. RunnerInv => ConclusionIsTrue
  BY NoneAssumption DEF RunnerInv, Asking, Judging, Concluding, Blameless, Reasons, ConclusionIsTrue
<1> QED BY <1>1, RunnerInvariant, PTL

(* A step of a runner is a step of the one-shot command, or none of its. *)
LEMMA StepRefines == RunnerInv /\ [Next]_vars => [Abstract!Next]_(Abstract!vars)
<1> SUFFICES ASSUME RunnerInv, [Next]_vars PROVE [Abstract!Next]_(Abstract!vars)
  OBVIOUS
<1> USE NoneAssumption DEF RunnerInv, Asking, Judging, Finished, Reasons, Abstract!Next, Abstract!vars,
      Abstract!Ask, Abstract!Ends, Abstract!Settle, Abstract!Allowed, Abstract!Reasons
<1>1. CASE LabviewChanges
  BY <1>1 DEF LabviewChanges, runner
<1>2. CASE Writes
  BY <1>2 DEF Writes, runner
<1>3. CASE ChildEnds
  BY <1>3 DEF ChildEnds, runner
<1>4. CASE Cancel
  BY <1>4 DEF Cancel, Requested
<1>5. CASE Begin
  BY <1>5 DEF Begin, Requested
<1>6. CASE Spawned
  BY <1>6 DEF Spawned
<1>7. CASE ErrorEvent
  BY <1>7 DEF ErrorEvent
<1>8. CASE Data
  BY <1>8 DEF Data
<1>9. CASE TimerFires
  BY <1>9 DEF TimerFires, Requested
<1>10. CASE BannerObserved
  BY <1>10 DEF BannerObserved
<1>11. CASE ExitEvent
  BY <1>11 DEF ExitEvent
<1>12. CASE ObserveExit
  BY <1>12 DEF ObserveExit
<1>13. CASE ExitObserved
  BY <1>13 DEF ExitObserved
<1>14. CASE SettleFromExit
  BY <1>14 DEF SettleFromExit, Verdict
<1>15. CASE Callback
  BY <1>15 DEF Callback, Verdict
<1>16. CASE Conclude
  BY <1>16 DEF Conclude
<1>17. CASE UNCHANGED vars
  BY <1>17 DEF vars, runner
<1> QED
  BY <1>1, <1>2, <1>3, <1>4, <1>5, <1>6, <1>7, <1>8, <1>9, <1>10, <1>11, <1>12, <1>13,
     <1>14, <1>15, <1>16, <1>17 DEF Next, Handler, Over

(* Both runners give one verdict, once, and blame only what was asked for  *)
(* before the process was over: they implement the one-shot command.       *)
THEOREM RunnersAreOneShot == Spec => ImplementsOneShot
<1>1. Init => Abstract!Init
  BY DEF Init, Abstract!Init
<1> QED
  BY <1>1, RunnerInvariant, StepRefines, PTL DEF Spec, ImplementsOneShot, Abstract!Spec
-----------------------------------------------------------------------------
(* The types that the argument above does without: the process, what it    *)
(* wrote and what of it was read, the observations and the conclusion.     *)
Texts ==
    /\ plan \in Plans /\ report \in BOOLEAN /\ labview \in Bitness
    /\ child \in {"none", "starting", "running", "ended"}
    /\ exit \in {"none", "zero", "nonzero", "signal"}
    /\ written \subseteq Lines /\ read \subseteq written
    /\ bannerObs \in Observation /\ exitObs \in Observation
    /\ result \in [state : {"none", "succeeded", "failed"}, reason : Reasons \cup {None}]

(* Whatever the process, its output and the observations, the classifier   *)
(* has one of its reasons.                                                 *)
LEMMA ClassifiedReason == Classified \in Reasons
<1>1. CASE exit = "zero"
  BY <1>1 DEF Classified, Reasons
<1>2. CASE exit # "zero" /\ ~report /\ plan.engine = "labview-cli" /\ LogOnly
  BY <1>2 DEF Classified, Reasons
<1>3. CASE exit # "zero" /\ ~(~report /\ plan.engine = "labview-cli" /\ LogOnly)
  BY <1>3 DEF Classified, Reasons
<1> QED BY <1>1, <1>2, <1>3

(* What a process list can answer is an observation. *)
LEMMA AnswerIsObservation ==
  ASSUME labview \in Bitness, NEW obs, obs \in Observation
  PROVE  Started(obs) \in Observation /\ Pending \in Observation /\ NoObs \in Observation
         /\ Failed \in Observation /\ Nothing \in Observation
         /\ \A cli \in BOOLEAN : Seen([labview |-> labview, cli |-> cli]) \in Observation
<1>1. \A cli \in BOOLEAN : [labview |-> labview, cli |-> cli] \in Snapshot
  BY DEF Snapshot
<1> QED BY <1>1 DEF Observation, Started

LEMMA TextsStep == RunnerInv /\ Texts /\ [Next]_vars => Texts'
<1> SUFFICES ASSUME RunnerInv, Texts, [Next]_vars PROVE Texts'
  OBVIOUS
<1>0. /\ Started(bannerObs) \in Observation /\ Pending \in Observation
      /\ NoObs \in Observation /\ Failed \in Observation /\ Nothing \in Observation
      /\ \A cli \in BOOLEAN : Seen([labview |-> labview, cli |-> cli]) \in Observation
  BY AnswerIsObservation DEF Texts
<1>1. CASE LabviewChanges \/ Writes \/ ChildEnds \/ Cancel
  BY <1>1 DEF LabviewChanges, Writes, ChildEnds, Cancel, runner, Texts
<1>2. CASE Begin \/ ErrorEvent \/ Data \/ Spawned
  BY <1>0, <1>2 DEF Begin, ErrorEvent, Data, Spawned, host, Texts
<1>3. CASE TimerFires \/ ExitEvent \/ SettleFromExit \/ Callback
  BY <1>3 DEF TimerFires, ExitEvent, SettleFromExit, Callback, host, Texts
<1>4. CASE BannerObserved
  BY <1>0, <1>4 DEF BannerObserved, Answers, host, Texts
<1>5. CASE ObserveExit
  BY <1>0, <1>5 DEF ObserveExit, host, Texts
<1>6. CASE ExitObserved
  BY <1>0, <1>6 DEF ExitObserved, Answers, host, Texts
<1>7. CASE Conclude
  <2>1. verdict # None /\ result' \in Outcomes
    BY <1>7, NoneAssumption DEF Conclude, RunnerInv, Judging
  <2>2. \E s \in {"none", "succeeded", "failed"} : \E why : result' = [state |-> s, reason |-> why]
    BY <2>1 DEF Outcomes, Failure, Success
  <2>3. result'.reason \in Reasons \cup {None}
    BY <2>1, OutcomeShape, ClassifiedReason DEF Success, Blameless, CancelledReason, Reasons
  <2>4. result' \in [state : {"none", "succeeded", "failed"}, reason : Reasons \cup {None}]
    BY <2>2, <2>3
  <2> QED BY <1>7, <2>4 DEF Conclude, host, Texts
<1>8. CASE UNCHANGED vars
  BY <1>8 DEF vars, host, runner, Texts
<1> QED BY <1>1, <1>2, <1>3, <1>4, <1>5, <1>6, <1>7, <1>8 DEF Next, Handler, Over

(* An attempt has its types: nothing is read that was not written, every   *)
(* observation is one, and what is concluded has one of the known reasons. *)
THEOREM RunnerTypes == Spec => []TypeOK
<1>1. Init => Texts
  <2> SUFFICES ASSUME Init PROVE Texts
    OBVIOUS
  <2>1. bannerObs \in Observation /\ exitObs \in Observation
    BY DEF Init, Observation
  <2>2. result \in [state : {"none", "succeeded", "failed"}, reason : Reasons \cup {None}]
    BY DEF Init
  <2> QED BY <2>1, <2>2 DEF Init, Texts
<1>2. RunnerInv /\ Texts => TypeOK
  BY DEF RunnerInv, Asking, Judging, Finished, Texts, TypeOK
<1> QED BY <1>1, <1>2, RunnerInvariant, TextsStep, PTL DEF Spec
=============================================================================
