------------------------- MODULE HostSessionProofs --------------------------
(***************************************************************************)
(* What dispose() of a host session may kill, when PID queries never fail, *)
(* for every set of PIDs: a LabVIEW that runs since before the session is  *)
(* in basePids, and ownership requires basePids to be empty.               *)
(***************************************************************************)
EXTENDS HostSession, FiniteSetTheorems, TLAPS

Unstarted == spc \in {"none", "baseline"}

(* The inductive invariant. *)
OwnershipInv ==
    /\ TypeOK
    /\ preexisting \subseteq Running
    /\ spc = "none" => preexisting = {} /\ ~disturbed
    /\ Unstarted => launchedPid = None /\ dpc = "idle" /\ ~firstRenderComplete
    /\ spc = "deciding" => firstRenderComplete /\ launchedPid = None
    /\ ~Unstarted => preexisting \subseteq basePids
    /\ launchedPid # None => basePids = {} /\ firstRenderComplete
    /\ dpc \in {"querying", "killing", "killed"} => launchedPid # None
    /\ ~disturbed /\ spc # "none" => \A p \in Running : owner[p] = "cli" \/ p \in preexisting
    /\ ~disturbed /\ launchedPid # None /\ dpc # "killed" => Running = {launchedPid}
    /\ ~disturbed /\ ~missed /\ dpc = "killed" => Launched = {}
    /\ \A p, q \in Launched : p = q
    /\ dpc # "idle" /\ ~missed => spc = "ready" /\ firstRenderComplete
    /\ dpc = "nothing" /\ ~missed => launchedPid = None
    /\ firstRenderComplete /\ spc # "deciding" /\ basePids = {} /\ ~disturbed /\ ~missed
          => launchedPid # None

(* Something is selected if and only if it is the only process and none    *)
(* was there at the start.                                                 *)
LEMMA SelectProperties ==
  ASSUME NEW base, NEW post \in SUBSET Pid
  PROVE  LET l == selectLaunchedLabviewPid(base, post)
         IN  /\ l \in Pid \cup {None} /\ (l # None => base = {} /\ post = {l})
             /\ (base = {} /\ \E p \in Pid : post = {p}) => l # None
<1>1. CASE base = {} /\ Cardinality(post) = 1
  <2>1. IsFiniteSet(post)
    BY PidAssumption, FS_Subset
  <2>2. PICK x : post = {x}
    BY <1>1, <2>1, FS_Singleton
  <2> QED BY <1>1, <2>2, PidAssumption DEF selectLaunchedLabviewPid
<1>2. CASE ~(base = {} /\ Cardinality(post) = 1)
  <2>1. \A p : Cardinality({p}) = 1
    BY FS_Singleton
  <2> QED BY <1>2, <2>1 DEF selectLaunchedLabviewPid
<1> QED BY <1>1, <1>2

(* The invariant, when queries are answered. *)
LEMMA OwnershipInvariant ==
  ASSUME ~QueryFails
  PROVE  Spec => []OwnershipInv
<1> USE PidAssumption
<1>0. listHostLabviewPids = {Running}
  BY DEF listHostLabviewPids
<1>1. Init => OwnershipInv
  BY DEF Init, OwnershipInv, TypeOK, Unstarted, Running, Launched
<1>2. OwnershipInv /\ [Next]_vars => OwnershipInv'
  <2> SUFFICES ASSUME OwnershipInv, [Next]_vars PROVE OwnershipInv'
    OBVIOUS
  <2> USE DEF processVars, sessionVars
  <2>1. CASE StartSession
    BY <2>1 DEF StartSession, OwnershipInv, TypeOK, Unstarted, Running, Launched
  <2>2. CASE BaselineKnown
    BY <1>0, <2>2 DEF BaselineKnown, OwnershipInv, TypeOK, Unstarted, Running, Launched
  <2>3. CASE RenderVi
    BY <2>3 DEF RenderVi, OwnershipInv, TypeOK, Unstarted, Running, Launched
  <2>4. CASE ExecutePreview
    <3>1. /\ spc = "staging" /\ spc' = "rendering"
          /\ UNCHANGED <<preexisting, disturbed, missed, basePids, firstRenderComplete,
                         launchedPid, dpc>>
      BY <2>4 DEF ExecutePreview
    <3>2. CASE UNCHANGED owner
      <4>1. Running' = Running /\ Launched' = Launched
        BY <3>2 DEF Running, Launched
      <4> QED BY <4>1, <3>1, <3>2 DEF OwnershipInv, TypeOK, Unstarted
    <3>3. ASSUME Launched = {}, NEW p \in Pid \ Running, owner' = [owner EXCEPT ![p] = "cli"]
          PROVE  OwnershipInv'
      <4>1. owner' \in [Pid -> {"none", "user", "cli"}] /\ owner'[p] = "cli" /\ owner[p] = "none"
            /\ \A o \in Pid \ {p} : owner'[o] = owner[o]
        BY <3>3 DEF OwnershipInv, TypeOK, Running
      <4>2. Running' = Running \cup {p} /\ Launched' = {p}
        BY <3>3, <4>1 DEF Running, Launched
      <4>3. ~disturbed /\ launchedPid # None => dpc = "killed" /\ missed
        <5>1. ~disturbed /\ launchedPid # None /\ dpc # "killed"
              => launchedPid \in Running /\ preexisting = {}
          BY <3>1 DEF OwnershipInv, Unstarted
        <5>2. ~disturbed /\ launchedPid # None /\ dpc # "killed" => launchedPid \in Launched
          BY <3>1, <5>1 DEF OwnershipInv, Launched, Running
        <5> QED BY <3>1, <3>3, <5>2 DEF OwnershipInv
      <4>4. ~disturbed => \A o \in Running' : owner'[o] = "cli" \/ o \in preexisting
        BY <3>1, <4>1, <4>2 DEF OwnershipInv, Running
      <4>5. preexisting \subseteq Running'
        BY <4>2 DEF OwnershipInv
      <4> QED BY <3>1, <4>1, <4>2, <4>3, <4>4, <4>5 DEF OwnershipInv, TypeOK, Unstarted
    <3> QED BY <2>4, <3>2, <3>3 DEF ExecutePreview
  <2>5. CASE RenderEnds \/ RenderThrows
    <3>1. /\ spc \in {"staging", "rendering"} /\ spc' \in {"ready", "deciding"}
          /\ UNCHANGED <<owner, preexisting, disturbed, missed, basePids, launchedPid, dpc>>
          /\ firstRenderComplete' \in {firstRenderComplete, TRUE}
          /\ spc' = "deciding" => firstRenderComplete' /\ ~firstRenderComplete
          /\ spc' = "ready" => firstRenderComplete' = firstRenderComplete
      BY <2>5 DEF RenderEnds, RenderThrows, DecidesOwnership, OwnershipInv, TypeOK
    <3>2. Running' = Running /\ Launched' = Launched
      BY <3>1 DEF Running, Launched
    <3>3. TypeOK' /\ (dpc = "idle" \/ missed) /\ ~Unstarted /\ ~Unstarted'
      BY <3>1 DEF OwnershipInv, TypeOK, Unstarted
    <3>4. spc' = "deciding" => launchedPid' = None
      BY <3>1 DEF OwnershipInv
    <3> HIDE DEF Unstarted
    <3> QED BY <3>1, <3>2, <3>3, <3>4 DEF OwnershipInv
  <2>6. CASE DecideOwnership
    <3>1. /\ spc = "deciding" /\ spc' = "ready"
          /\ launchedPid' = selectLaunchedLabviewPid(basePids, Running)
          /\ missed' = (missed \/ Running = {})
          /\ UNCHANGED <<owner, preexisting, disturbed, basePids, firstRenderComplete, dpc>>
      BY <1>0, <2>6 DEF DecideOwnership
    <3>2. /\ launchedPid' \in Pid \cup {None}
          /\ launchedPid' # None => basePids = {} /\ Running = {launchedPid'}
          /\ (basePids = {} /\ \E p \in Pid : Running = {p}) => launchedPid' # None
      <4>1. Running \in SUBSET Pid
        BY DEF Running
      <4> QED BY <3>1, <4>1, SelectProperties
    <3>3. launchedPid = None /\ firstRenderComplete /\ dpc \in {"idle", "nothing"}
      BY <3>1 DEF OwnershipInv, TypeOK
    <3>4. basePids = {} /\ ~disturbed /\ ~missed' => launchedPid' # None
      <4> SUFFICES ASSUME basePids = {}, ~disturbed, ~missed' PROVE launchedPid' # None
        OBVIOUS
      <4>1. PICK p \in Running : TRUE
        BY <3>1 DEF OwnershipInv, TypeOK
      <4>2. preexisting = {}
        BY <3>1 DEF OwnershipInv, Unstarted
      <4>3. \A o \in Running : o \in Launched
        BY <3>1, <4>2 DEF OwnershipInv, Launched, Running
      <4>4. Running = {p} /\ p \in Pid
        BY <4>1, <4>3 DEF OwnershipInv, Running
      <4> QED BY <3>2, <4>4
    <3>5. Running' = Running /\ Launched' = Launched /\ missed' \in BOOLEAN
      BY <3>1 DEF Running, Launched, OwnershipInv, TypeOK
    <3>6. dpc # "idle" => missed'
      BY <3>1 DEF OwnershipInv, TypeOK
    <3> QED BY <3>1, <3>2, <3>3, <3>4, <3>5, <3>6 DEF OwnershipInv, TypeOK, Unstarted
  <2>7. CASE Dispose
    BY <2>7 DEF Dispose, OwnershipInv, TypeOK, Unstarted, Running, Launched
  <2>8. CASE DisposeChecks
    <3>1. dpc = "querying" /\ dpc' = (IF launchedPid \in Running THEN "killing" ELSE "killed")
          /\ UNCHANGED <<processVars, missed, sessionVars>>
      BY <1>0, <2>8 DEF DisposeChecks
    <3>2. ~disturbed => launchedPid \in Running
      BY <3>1 DEF OwnershipInv
    <3> QED BY <3>1, <3>2 DEF OwnershipInv, TypeOK, Unstarted, Running, Launched
  <2>9. CASE Kill /\ UNCHANGED missed /\ owner' = Killed /\ preexisting' = preexisting \ {launchedPid}
    <3>1. launchedPid \in Pid /\ owner' = [owner EXCEPT ![launchedPid] = "none"]
          /\ preexisting' = preexisting \ {launchedPid} /\ dpc = "killing" /\ dpc' = "killed"
          /\ UNCHANGED <<disturbed, missed, sessionVars>>
      BY <2>9 DEF Kill, Killed, OwnershipInv, TypeOK
    <3>2. owner' \in [Pid -> {"none", "user", "cli"}] /\ owner'[launchedPid] = "none"
          /\ \A o \in Pid \ {launchedPid} : owner'[o] = owner[o]
      BY <3>1 DEF OwnershipInv, TypeOK
    <3>3. ~disturbed => Running' = {}
      BY <3>1, <3>2 DEF OwnershipInv, Running
    <3> QED BY <3>1, <3>2, <3>3 DEF OwnershipInv, TypeOK, Unstarted, Running, Launched
  <2>10. CASE Kill /\ missed' /\ UNCHANGED <<owner, preexisting>>
    BY <2>10 DEF Kill, OwnershipInv, TypeOK, Unstarted, Running, Launched
  <2>11. CASE UserLaunches
    BY <2>11 DEF UserLaunches, OwnershipInv, TypeOK, Unstarted, Running, Launched
  <2>12. ASSUME NEW p \in Pid, LabviewExits(p) PROVE OwnershipInv'
    BY <2>12 DEF LabviewExits, OwnershipInv, TypeOK, Unstarted, Running, Launched
  <2>13. CASE UNCHANGED vars
    BY <2>13 DEF vars, OwnershipInv, TypeOK, Unstarted, Running, Launched
  <2> QED BY <2>1, <2>2, <2>3, <2>4, <2>5, <2>6, <2>7, <2>8, <2>9, <2>11, <2>12, <2>13, <2>10 DEF Next, Kill
<1> QED BY <1>1, <1>2, PTL DEF Spec

(* A LabVIEW that ran before the session is never the one to be killed.    *)
THEOREM HostPreexistingSpared ==
  ASSUME ~QueryFails
  PROVE  Spec => []PreexistingSpared
<1>1. OwnershipInv => PreexistingSpared
  BY DEF OwnershipInv, PreexistingSpared, Unstarted
<1> QED BY <1>1, OwnershipInvariant, PTL

(* Left alone, dispose() kills the process LabVIEWCLI launched ...         *)
THEOREM HostKillsOwnLabview ==
  ASSUME ~QueryFails
  PROVE  Spec => []KillsOwnLabview
<1>1. OwnershipInv => KillsOwnLabview
  <2> SUFFICES ASSUME OwnershipInv, dpc = "killing", ~disturbed
               PROVE  owner[launchedPid] = "cli"
    BY DEF KillsOwnLabview
  <2>1. launchedPid # None /\ basePids = {} /\ spc # "none" /\ ~Unstarted
    BY DEF OwnershipInv, Unstarted
  <2>2. launchedPid \in Running /\ preexisting = {}
    BY <2>1 DEF OwnershipInv
  <2> QED BY <2>1, <2>2 DEF OwnershipInv
<1> QED BY <1>1, OwnershipInvariant, PTL

(* ... and leaves none behind that the session was in time to own.         *)
THEOREM HostReclaimsOwnLabview ==
  ASSUME ~QueryFails
  PROVE  Spec => []ReclaimsOwnLabview
<1>1. OwnershipInv => ReclaimsOwnLabview
  BY DEF OwnershipInv, ReclaimsOwnLabview
<1> QED BY <1>1, OwnershipInvariant, PTL
-----------------------------------------------------------------------------
(* What is left when queries may fail. *)
AnyAnswerInv ==
    /\ TypeOK
    /\ spc \in {"none", "baseline"} => launchedPid = None /\ dpc = "idle"
    /\ spc = "deciding" => launchedPid = None
    /\ spc = "deciding" => firstRenderComplete
    /\ launchedPid # None => basePids = {} /\ firstRenderComplete
    /\ dpc \in {"querying", "killing", "killed"} => launchedPid # None

(* Whether or not the PID queries answer, the session has its types, and   *)
(* dispose() kills one process at most: the one it selected, and only if   *)
(* it knew of no LabVIEW at its start.                                     *)
THEOREM HostKillsTheSelected ==
  Spec => [](TypeOK /\ (dpc = "killing" => launchedPid \in Pid /\ basePids = {}))
<1> USE PidAssumption DEF processVars, sessionVars
<1>1. Init => AnyAnswerInv
  BY DEF Init, AnyAnswerInv, TypeOK
<1>2. AnyAnswerInv /\ [Next]_vars => AnyAnswerInv'
  <2> SUFFICES ASSUME AnyAnswerInv, [Next]_vars PROVE AnyAnswerInv'
    OBVIOUS
  <2>1. \A pids \in listHostLabviewPids : pids \in SUBSET Pid
    BY DEF listHostLabviewPids, Running
  <2>2. CASE StartSession \/ RenderVi \/ RenderEnds \/ RenderThrows
    BY <2>2 DEF StartSession, RenderVi, RenderEnds, RenderThrows, DecidesOwnership, AnyAnswerInv, TypeOK, Running
  <2>3. CASE Dispose
    BY <2>3 DEF Dispose, AnyAnswerInv, TypeOK
  <2>4. CASE DisposeChecks
    <3>1. dpc = "querying" /\ dpc' \in {"killing", "killed"} /\ UNCHANGED <<processVars, missed, sessionVars>>
      BY <2>4 DEF DisposeChecks
    <3> QED BY <3>1 DEF AnyAnswerInv, TypeOK
  <2>5. CASE BaselineKnown
    BY <2>1, <2>5 DEF BaselineKnown, AnyAnswerInv, TypeOK
  <2>6. CASE ExecutePreview
    BY <2>6 DEF ExecutePreview, AnyAnswerInv, TypeOK
  <2>7. CASE DecideOwnership
    <3>1. PICK post \in SUBSET Pid : launchedPid' = selectLaunchedLabviewPid(basePids, post)
      BY <2>1, <2>7 DEF DecideOwnership
    <3>2. launchedPid' \in Pid \cup {None} /\ (launchedPid' # None => basePids = {})
      BY <3>1, SelectProperties
    <3> QED BY <2>7, <3>2 DEF DecideOwnership, AnyAnswerInv, TypeOK
  <2>8. CASE Kill \/ UserLaunches \/ \E p \in Pid : LabviewExits(p)
    BY <2>8 DEF Kill, Killed, UserLaunches, LabviewExits, AnyAnswerInv, TypeOK
  <2>9. CASE UNCHANGED vars
    BY <2>9 DEF vars, AnyAnswerInv, TypeOK
  <2> QED BY <2>2, <2>3, <2>4, <2>5, <2>6, <2>7, <2>8, <2>9 DEF Next
<1>3. AnyAnswerInv => TypeOK /\ (dpc = "killing" => launchedPid \in Pid /\ basePids = {})
  BY DEF AnyAnswerInv, TypeOK
<1> QED BY <1>1, <1>2, <1>3, PTL DEF Spec
=============================================================================
