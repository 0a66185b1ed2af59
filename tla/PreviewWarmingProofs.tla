------------------------ MODULE PreviewWarmingProofs ------------------------
(***************************************************************************)
(* The warmer keeps one live cycle and one indicator, whatever overlaps.   *)
(* The argument: a cycle that is not cancelled holds the current token,    *)
(* and the latch is set while it runs, so no second one begins; and the    *)
(* indicator is cleared whenever the latch is, so the live cycle's own     *)
(* is the only one there can be.                                           *)
(***************************************************************************)
EXTENDS PreviewWarming, TLAPS

(* What the argument needs of the types. *)
WarmerTypes ==
    /\ disposed \in BOOLEAN /\ hasRunThisSession \in BOOLEAN /\ doneTimer \in BOOLEAN
    /\ cycleToken \in Cycle \cup {None} /\ statusItem \in Cycle \cup {None}
    /\ pc \in [Cycle -> {"idle", "asking", "done"} \cup Running]
    /\ cancelled \in [Cycle -> BOOLEAN]
    /\ item \in [Cycle -> {"none", "shown", "disposed"}]

Unlatched == ~hasRunThisSession => statusItem = None
Unshown == \A c \in Cycle : Live(c) /\ pc[c] # "rendering" => statusItem = None
OwnIndicator == \A c \in Cycle : Live(c) /\ pc[c] = "rendering" => statusItem = c

(* The inductive invariant. *)
WarmerInv ==
    /\ WarmerTypes
    /\ OneLiveCycle /\ NoLeakedIndicator /\ TimerIsItsOwn
    /\ Unlatched /\ Unshown /\ OwnIndicator

(* Cancelling leaves no live cycle, no indicator and no timer; what awaits *)
(* may at most be given up in the same step.                               *)
LEMMA CancelKeeps ==
  ASSUME WarmerInv, CancelCurrentCycle,
         disposed' \in BOOLEAN, disposed => disposed',
         NEW k \in Cycle,
         pc' \in {pc, [pc EXCEPT ![k] = "done"], [pc EXCEPT ![k] = "asking"]}
  PROVE  WarmerInv'
<1> USE WarmingAssumption DEF WarmerInv, WarmerTypes
<1>1. /\ cycleToken' = None /\ statusItem' = None
      /\ hasRunThisSession' = FALSE /\ doneTimer' = FALSE
  BY DEF CancelCurrentCycle, Disarmed
<1>2. /\ cancelled' \in [Cycle -> BOOLEAN]
      /\ \A c \in Cycle : cancelled[c] \/ c = cycleToken => cancelled'[c]
  BY DEF CancelCurrentCycle
<1>3. /\ item' \in [Cycle -> {"none", "shown", "disposed"}]
      /\ \A c \in Cycle : item'[c] # "shown"
  BY DEF CancelCurrentCycle, Retired, Disposing, NoLeakedIndicator
<1>4. /\ pc' \in [Cycle -> {"idle", "asking", "done"} \cup Running]
      /\ \A c \in Cycle : pc'[c] \in Running => pc[c] \in Running
  BY DEF Running
<1>5. \A c \in Cycle : ~Live(c)'
  BY <1>2, <1>4 DEF Live, Stopped, OneLiveCycle
<1> QED BY <1>1, <1>2, <1>3, <1>4, <1>5
        DEF OneLiveCycle, NoLeakedIndicator, TimerIsItsOwn, Unlatched, Unshown, OwnIndicator

(* Beginning: the latch was down, so nothing else is live. *)
LEMMA BeginKeeps ==
  ASSUME WarmerInv, NEW c \in Cycle, pc[c] = "asking", Begin(c), UNCHANGED disposed
  PROVE  WarmerInv'
<1> USE WarmingAssumption DEF WarmerInv, WarmerTypes
<1>1. CASE Refused
  <2>1. pc' = [pc EXCEPT ![c] = "done"] /\ UNCHANGED warmer
    BY <1>1 DEF Begin
  <2>2. \A d \in Cycle : Live(d)' => Live(d) /\ pc'[d] = pc[d]
    BY <2>1 DEF Live, Stopped, Running, warmer
  <2> QED BY <2>1, <2>2
          DEF warmer, Running, OneLiveCycle, NoLeakedIndicator, TimerIsItsOwn, Unlatched, Unshown, OwnIndicator
<1>2. CASE ~Refused
  <2>1. /\ hasRunThisSession = FALSE /\ statusItem = None /\ doneTimer = FALSE
        /\ \A d \in Cycle : ~Live(d)
    BY <1>2 DEF Refused, Unlatched, TimerIsItsOwn, OneLiveCycle
  <2>2. /\ hasRunThisSession' = TRUE
        /\ cycleToken' = IF mode = "off" THEN None ELSE c
        /\ pc' = [pc EXCEPT ![c] = IF mode = "off" THEN "done" ELSE "resolving"]
        /\ UNCHANGED <<doneTimer, statusItem, cancelled, item>>
    BY <1>2 DEF Begin
  <2>3. \A d \in Cycle : Live(d)' => d = c /\ cycleToken' = c /\ pc'[c] = "resolving"
    BY <2>1, <2>2 DEF Live, Stopped, Running
  <2> QED BY <2>1, <2>2, <2>3
          DEF Running, OneLiveCycle, NoLeakedIndicator, TimerIsItsOwn, Unlatched, Unshown, OwnIndicator
<1> QED BY <1>1, <1>2

(* A trigger that comes to nothing changes nothing of the warmer. *)
LEMMA TriggerKeeps ==
  ASSUME WarmerInv, NEW c \in Cycle, pc[c] \in {"idle", "asking"}, NEW to \in {"asking", "done"},
         pc' = [pc EXCEPT ![c] = to], UNCHANGED <<warmer, disposed>>
  PROVE  WarmerInv'
<1> USE WarmingAssumption DEF WarmerInv, WarmerTypes
<1>1. \A d \in Cycle : Live(d)' => Live(d) /\ pc'[d] = pc[d]
  BY DEF Live, Stopped, Running, warmer
<1> QED BY <1>1
        DEF warmer, Running, OneLiveCycle, NoLeakedIndicator, TimerIsItsOwn, Unlatched, Unshown, OwnIndicator

(* The end of a cycle: its token is dropped only if it is the current one. *)
LEMMA EndKeeps ==
  ASSUME WarmerInv, NEW c \in Cycle, pc[c] \in Running, Ended(c),
         UNCHANGED <<disposed, hasRunThisSession, statusItem, cancelled>>,
         \/ UNCHANGED <<doneTimer, item>>
         \/ statusItem # None /\ ~Stopped(c) /\ pc[c] = "rendering" /\ doneTimer' = TRUE /\ UNCHANGED item
         \/ item' = Disposing(statusItem) /\ UNCHANGED doneTimer
  PROVE  WarmerInv'
<1> USE WarmingAssumption DEF WarmerInv, WarmerTypes
<1>1. /\ pc' = [pc EXCEPT ![c] = "done"]
      /\ cycleToken' = IF cycleToken = c THEN None ELSE cycleToken
  BY DEF Ended
<1>2. \A d \in Cycle : Live(d)' => d # c /\ Live(d) /\ pc'[d] = pc[d]
  BY <1>1 DEF Live, Stopped, Running
<1>3. /\ item' \in [Cycle -> {"none", "shown", "disposed"}]
      /\ \A d \in Cycle : item'[d] = "shown" => item[d] = "shown"
  BY DEF Disposing
<1>4. doneTimer' \in BOOLEAN /\ TimerIsItsOwn'
  <2>1. CASE UNCHANGED doneTimer
    BY <1>1, <2>1 DEF TimerIsItsOwn
  <2>2. CASE statusItem # None /\ ~Stopped(c) /\ pc[c] = "rendering" /\ doneTimer' = TRUE
    <3>1. statusItem = c
      BY <2>2 DEF OwnIndicator, Live, Running
    <3> QED BY <1>1, <2>2, <3>1 DEF TimerIsItsOwn
  <2> QED BY <2>1, <2>2
<1> QED BY <1>1, <1>2, <1>3, <1>4
        DEF Running, OneLiveCycle, NoLeakedIndicator, Unlatched, Unshown, OwnIndicator

LEMMA ReconcilesKeeps ==
  ASSUME WarmerInv, NEW k \in Reconcile, Reconciles(k)
  PROVE  WarmerInv'
<1>0. k \in Cycle /\ pc[k] = "idle" /\ UNCHANGED disposed
  BY DEF Reconciles, Cycle
<1>1. CASE pc' = [pc EXCEPT ![k] = "asking"] /\ UNCHANGED warmer
  BY <1>0, <1>1, TriggerKeeps
<1>2. CASE pc' = [pc EXCEPT ![k] = "done"] /\ CancelCurrentCycle
  <2>1. disposed' \in BOOLEAN /\ (disposed => disposed')
    BY <1>0 DEF WarmerInv, WarmerTypes
  <2> QED BY <1>0, <1>2, <2>1, CancelKeeps
<1> QED BY <1>1, <1>2 DEF Reconciles

LEMMA WarmerInvariant == Spec => []WarmerInv
<1>1. Init => WarmerInv
  <2> SUFFICES ASSUME Init PROVE WarmerInv
    OBVIOUS
  <2>1. \A c \in Cycle : pc[c] \in {"idle", "asking", "done"} /\ item[c] = "none"
    BY DEF Init
  <2>2. WarmerTypes
    BY DEF Init, WarmerTypes, Running
  <2>3. ~doneTimer /\ statusItem = None
    BY DEF Init
  <2> QED BY <2>1, <2>2, <2>3 DEF WarmerInv, OneLiveCycle, NoLeakedIndicator,
     TimerIsItsOwn, Unlatched, Unshown, OwnIndicator, Live, Running
<1>2. WarmerInv /\ [Next]_vars => WarmerInv'
  <2> SUFFICES ASSUME WarmerInv, [Next]_vars PROVE WarmerInv'
    OBVIOUS
  <2>1. ASSUME NEW k \in Reconcile, ToggleEnabled(k) \/ SwitchProvider(k) \/ GrantTrust(k)
        PROVE  WarmerInv'
    BY <2>1, ReconcilesKeeps DEF ToggleEnabled, SwitchProvider, GrantTrust
  <2>2. ASSUME NEW k \in Reconcile, Reconciled(k) PROVE WarmerInv'
    <3>0. k \in Cycle /\ pc[k] = "asking" /\ UNCHANGED disposed
      BY <2>2 DEF Reconciled, Cycle
    <3>1. CASE Begin(k)
      BY <3>0, <3>1, BeginKeeps
    <3>2. CASE CancelCurrentCycle /\ pc' = [pc EXCEPT ![k] = "done"]
      <4>1. disposed' \in BOOLEAN /\ (disposed => disposed')
        BY <3>0 DEF WarmerInv, WarmerTypes
      <4> QED BY <3>0, <3>2, <4>1, CancelKeeps
    <3>3. CASE pc' = [pc EXCEPT ![k] = "done"] /\ UNCHANGED warmer
      BY <3>0, <3>3, TriggerKeeps
    <3> QED BY <2>2, <3>1, <3>2, <3>3 DEF Reconciled
  <2>3. ASSUME NEW p \in Preview, OpenPreview(p) PROVE WarmerInv'
    BY <2>3, TriggerKeeps DEF OpenPreview, Cycle
  <2>4. ASSUME NEW p \in Preview, PreviewOpened(p) PROVE WarmerInv'
    <3>0. p \in Cycle /\ pc[p] = "asking" /\ UNCHANGED disposed
      BY <2>4 DEF PreviewOpened, Cycle
    <3>1. CASE Begin(p)
      BY <3>0, <3>1, BeginKeeps
    <3>2. CASE pc' = [pc EXCEPT ![p] = "done"] /\ UNCHANGED warmer
      BY <3>0, <3>2, TriggerKeeps
    <3> QED BY <2>4, <3>1, <3>2 DEF PreviewOpened
  <2>5. ASSUME NEW c \in Cycle, RuntimeResolved(c) PROVE WarmerInv'
    <3>0. pc[c] = "resolving" /\ UNCHANGED <<disposed, hasRunThisSession, doneTimer, statusItem, cancelled, item>>
      BY <2>5 DEF RuntimeResolved
    <3>1. CASE pc' = [pc EXCEPT ![c] = "finding"] /\ UNCHANGED cycleToken
      <4>1. \A d \in Cycle : /\ Live(d)' <=> Live(d)
                             /\ pc'[d] = "rendering" <=> pc[d] = "rendering"
        BY <3>0, <3>1 DEF Live, Stopped, Running, WarmerInv, WarmerTypes
      <4>2. TimerIsItsOwn'
        BY <3>0, <3>1 DEF WarmerInv, WarmerTypes, TimerIsItsOwn
      <4>3. WarmerTypes'
        BY <3>0, <3>1 DEF WarmerInv, WarmerTypes, Running
      <4> QED BY <3>0, <3>1, <4>1, <4>2, <4>3
              DEF WarmerInv, OneLiveCycle, NoLeakedIndicator, Unlatched, Unshown, OwnIndicator
    <3>2. CASE Ended(c)
      <4>1. pc[c] \in Running
        BY <3>0 DEF Running
      <4> QED BY <3>0, <3>2, <4>1, EndKeeps
    <3> QED BY <2>5, <3>1, <3>2 DEF RuntimeResolved
  <2>6. ASSUME NEW c \in Cycle, FilesFound(c) PROVE WarmerInv'
    <3>0. pc[c] = "finding" /\ UNCHANGED <<disposed, hasRunThisSession, doneTimer, cancelled>>
      BY <2>6 DEF FilesFound
    <3>1. CASE /\ ~Stopped(c) /\ pc' = [pc EXCEPT ![c] = "rendering"] /\ statusItem' = c
               /\ item' = [item EXCEPT ![c] = "shown"] /\ UNCHANGED cycleToken
      <4> USE WarmingAssumption DEF WarmerInv, WarmerTypes
      <4>1. Live(c) /\ statusItem = None /\ cycleToken = c /\ hasRunThisSession /\ doneTimer = FALSE
        BY <3>0, <3>1 DEF Live, Running, Unshown, OneLiveCycle, TimerIsItsOwn
      <4>2. \A d \in Cycle : Live(d)' => d = c
        BY <3>0, <3>1, <4>1 DEF Live, Stopped, Running, OneLiveCycle
      <4>3. \A d \in Cycle : item'[d] = "shown" => d = c
        BY <3>1, <4>1 DEF NoLeakedIndicator
      <4>4. WarmerTypes'
        BY <3>0, <3>1 DEF Running
      <4> QED BY <3>0, <3>1, <4>1, <4>2, <4>3, <4>4
              DEF OneLiveCycle, NoLeakedIndicator, TimerIsItsOwn, Unlatched, Unshown, OwnIndicator
    <3>2. CASE Ended(c) /\ UNCHANGED <<statusItem, item>>
      <4>1. pc[c] \in Running
        BY <3>0 DEF Running
      <4> QED BY <3>0, <3>2, <4>1, EndKeeps
    <3> QED BY <2>6, <3>1, <3>2 DEF FilesFound
  <2>7. ASSUME NEW c \in Cycle, RenderEnds(c) PROVE WarmerInv'
    <3>0. pc[c] = "rendering" /\ UNCHANGED <<disposed, hasRunThisSession, statusItem, cancelled>>
      BY <2>7 DEF RenderEnds
    <3>1. CASE UNCHANGED <<pc, cycleToken, doneTimer, item>>
      BY <3>0, <3>1 DEF WarmerInv, WarmerTypes, OneLiveCycle, NoLeakedIndicator, TimerIsItsOwn,
         Unlatched, Unshown, OwnIndicator, Live, Stopped
    <3>2. CASE /\ Ended(c)
               /\ IF statusItem # None /\ ~Stopped(c)
                  THEN doneTimer' = Armed /\ UNCHANGED item
                  ELSE item' = Disposing(statusItem) /\ UNCHANGED doneTimer
      <4>1. pc[c] \in Running
        BY <3>0 DEF Running
      <4>2. \/ statusItem # None /\ ~Stopped(c) /\ doneTimer' = TRUE /\ UNCHANGED item
            \/ item' = Disposing(statusItem) /\ UNCHANGED doneTimer
        BY <3>2 DEF Armed
      <4> QED BY <3>0, <3>2, <4>1, <4>2, EndKeeps
    <3> QED BY <2>7, <3>1, <3>2 DEF RenderEnds
  <2>8. CASE SetMode \/ AtRest \/ UNCHANGED vars
    BY <2>8 DEF SetMode, AtRest, vars, warmer, WarmerInv, WarmerTypes, OneLiveCycle,
       NoLeakedIndicator, TimerIsItsOwn, Unlatched, Unshown, OwnIndicator, Live, Stopped
  <2>9. CASE TimerFires
    <3>1. \A c \in Cycle : /\ Live(c)' <=> Live(c)
                           /\ item'[c] = "shown" => item[c] = "shown"
      BY <2>9 DEF TimerFires, Live, Stopped, Disposing, WarmerInv, WarmerTypes
    <3>2. WarmerTypes'
      BY <2>9 DEF TimerFires, Disposing, WarmerInv, WarmerTypes
    <3> QED BY <2>9, <3>1, <3>2 DEF TimerFires, WarmerInv, OneLiveCycle, NoLeakedIndicator,
            TimerIsItsOwn, Unlatched, Unshown, OwnIndicator
  <2>10. CASE Dispose
    <3>1. PICK k : k \in Cycle \/ Cycle = {}
      OBVIOUS
    <3>2. CASE k \in Cycle
      <4>1. CancelCurrentCycle /\ disposed' \in BOOLEAN /\ (disposed => disposed') /\ UNCHANGED pc
        BY <2>10 DEF Dispose
      <4> QED BY <3>2, <4>1, CancelKeeps
    <3>3. CASE Cycle = {}
      BY <2>10, <3>3, WarmingAssumption DEF Dispose, CancelCurrentCycle, Disarmed, Retired, Disposing,
         WarmerInv, WarmerTypes, OneLiveCycle, NoLeakedIndicator, TimerIsItsOwn, Unlatched,
         Unshown, OwnIndicator
    <3> QED BY <3>1, <3>2, <3>3
  <2> QED BY <2>1, <2>2, <2>3, <2>4, <2>5, <2>6, <2>7, <2>8, <2>9, <2>10 DEF Next
<1> QED BY <1>1, <1>2, PTL DEF Spec

(* Two cycles that are not cancelled never run together, and cancelWarming *)
(* always reaches the one that does.                                       *)
THEOREM WarmingOneLiveCycle == Spec => []OneLiveCycle
<1>1. WarmerInv => OneLiveCycle
  BY DEF WarmerInv
<1> QED BY <1>1, WarmerInvariant, PTL

(* No indicator is left that neither cancelWarming nor the timer retires. *)
THEOREM WarmingNoLeakedIndicator == Spec => []NoLeakedIndicator
<1>1. WarmerInv => NoLeakedIndicator
  BY DEF WarmerInv
<1> QED BY <1>1, WarmerInvariant, PTL

(* The timer never retires the indicator of a cycle that still runs. *)
THEOREM WarmingTimerIsItsOwn == Spec => []TimerIsItsOwn
<1>1. WarmerInv => TimerIsItsOwn
  BY DEF WarmerInv
<1> QED BY <1>1, WarmerInvariant, PTL

(***************************************************************************)
(* What a cycle has rendered and the step it has reached: nothing before   *)
(* its files are found, and short of them all while a render is in flight. *)
(* With the types the argument above did not need.                         *)
(***************************************************************************)
Settings ==
    /\ enabled \in BOOLEAN /\ provider \in {"docker", "host"}
    /\ mode \in {"docker-only", "always", "off"} /\ trusted \in BOOLEAN
    /\ runtime \in [Cycle -> {"docker", "host", None}]

Counting ==
    /\ total \in [Cycle -> 0..MaxFiles] /\ completed \in [Cycle -> 0..MaxFiles]
    /\ line \in Seq(Cycle)
    /\ text \in [Cycle -> 0..100]
    /\ \A c \in Cycle :
          /\ pc[c] \in {"idle", "asking", "resolving", "finding"} => completed[c] = 0
          /\ pc[c] = "rendering" => completed[c] < total[c]

(* A percentage is one. *)
LEMMA PercentIsOne ==
  ASSUME NEW n \in Nat, NEW of \in Nat \ {0}, n <= of
  PROVE  computeWarmPercent(n, of) \in 0..100
<1>1. n * 100 <= of * 100
  OBVIOUS
<1> DEFINE q == (n * 100) \div of
<1>2. q \in Int /\ of * q <= n * 100 /\ n * 100 < of * q + of
  OBVIOUS
<1>3. q >= 0
  OBVIOUS
<1>4. q <= 100
  OBVIOUS
<1> QED BY <1>2, <1>3, <1>4 DEF computeWarmPercent

Before == {"idle", "asking", "resolving", "finding"}

(* A step that renders nothing counts nothing, if no cycle goes back. *)
LEMMA CountKept ==
  ASSUME Counting, UNCHANGED loops,
         \A c \in Cycle : /\ pc'[c] = "rendering" => pc[c] = "rendering"
                          /\ pc'[c] \in Before => pc[c] \in Before
  PROVE  Counting'
BY DEF Counting, loops, Before

LEMMA Counts == Spec => [](Settings /\ Counting)
<1>1. Init => Settings /\ Counting
  <2> SUFFICES ASSUME Init PROVE Settings /\ Counting
    OBVIOUS
  <2>1. Settings
    BY DEF Init, Settings
  <2>2. \A c \in Cycle : pc[c] # "rendering"
    BY DEF Init
  <2>3. line = <<>> /\ line \in Seq(Cycle)
    BY DEF Init
  <2>4. 0 \in 0..MaxFiles /\ 0 \in 0..100
    BY WarmingAssumption
  <2> QED BY <2>1, <2>2, <2>3, <2>4 DEF Init, Counting
<1>2. Settings /\ Counting /\ WarmerInv /\ [Next]_vars => Settings' /\ Counting'
  <2> SUFFICES ASSUME Settings, Counting, WarmerTypes, [Next]_vars PROVE Settings' /\ Counting'
    BY DEF WarmerInv
  <2>1. ASSUME NEW k \in Reconcile, ToggleEnabled(k) \/ SwitchProvider(k) \/ GrantTrust(k)
        PROVE  Settings' /\ Counting'
    <3>1. k \in Cycle /\ pc[k] = "idle" /\ Reconciles(k) /\ UNCHANGED loops
      BY <2>1 DEF ToggleEnabled, SwitchProvider, GrantTrust, Reconciles, Cycle
    <3>2. \/ pc' = [pc EXCEPT ![k] = "asking"] /\ runtime' = [runtime EXCEPT ![k] = provider']
          \/ pc' = [pc EXCEPT ![k] = "done"] /\ UNCHANGED runtime
      BY <3>1 DEF Reconciles
    <3>3. /\ enabled' \in BOOLEAN /\ provider' \in {"docker", "host"}
          /\ mode' \in {"docker-only", "always", "off"} /\ trusted' \in BOOLEAN
      BY <2>1 DEF ToggleEnabled, SwitchProvider, GrantTrust, Settings
    <3>4. Settings'
      BY <3>2, <3>3 DEF Settings
    <3>5. Counting'
      BY <3>1, <3>2, CountKept DEF WarmerTypes, Before
    <3> QED BY <3>4, <3>5
  <2>2. ASSUME NEW c \in Cycle, pc[c] = "asking", UNCHANGED <<settings, loops>>,
               Begin(c) \/ (pc' = [pc EXCEPT ![c] = "done"] /\ UNCHANGED runtime)
        PROVE  Settings' /\ Counting'
    <3>1. /\ pc' \in {[pc EXCEPT ![c] = "done"], [pc EXCEPT ![c] = "resolving"]}
          /\ runtime' \in {runtime, [runtime EXCEPT ![c] = provider], [runtime EXCEPT ![c] = None]}
      BY <2>2 DEF Begin
    <3>2. Settings'
      BY <2>2, <3>1 DEF Settings, settings
    <3>3. Counting'
      BY <2>2, <3>1, CountKept DEF WarmerTypes, Before
    <3> QED BY <3>2, <3>3
  <2>3. ASSUME NEW k \in Reconcile, Reconciled(k) PROVE Settings' /\ Counting'
    BY <2>2, <2>3 DEF Reconciled, Cycle
  <2>4. ASSUME NEW p \in Preview, PreviewOpened(p) PROVE Settings' /\ Counting'
    BY <2>2, <2>4 DEF PreviewOpened, Cycle
  <2>5. ASSUME NEW p \in Preview, OpenPreview(p) PROVE Settings' /\ Counting'
    <3>1. p \in Cycle /\ pc[p] = "idle" /\ pc' = [pc EXCEPT ![p] = "asking"]
      BY <2>5 DEF OpenPreview, Cycle
    <3>2. Settings'
      BY <2>5 DEF OpenPreview, Settings, settings
    <3>3. Counting'
      BY <2>5, <3>1, CountKept DEF OpenPreview, WarmerTypes, Before
    <3> QED BY <3>2, <3>3
  <2>6. ASSUME NEW c \in Cycle, RuntimeResolved(c) PROVE Settings' /\ Counting'
    <3>1. /\ pc[c] = "resolving"
          /\ pc' \in {[pc EXCEPT ![c] = "finding"], [pc EXCEPT ![c] = "done"]}
      BY <2>6 DEF RuntimeResolved, Ended
    <3>2. Settings'
      BY <2>6 DEF RuntimeResolved, Settings, settings
    <3>3. Counting'
      BY <2>6, <3>1, CountKept DEF RuntimeResolved, WarmerTypes, Before
    <3> QED BY <3>2, <3>3
  <2>7. ASSUME NEW c \in Cycle, FilesFound(c) PROVE Settings' /\ Counting'
    <3>1. Settings'
      BY <2>7 DEF FilesFound, Settings, settings
    <3>2. CASE Ended(c) /\ UNCHANGED <<total, line>>
      BY <2>7, <3>1, <3>2, CountKept DEF FilesFound, Ended, loops, WarmerTypes, Before
    <3>3. CASE /\ \E n \in 1..MaxFiles : total' = [total EXCEPT ![c] = n]
               /\ pc' = [pc EXCEPT ![c] = "rendering"]
               /\ line' = Append(line, c)
      <4>1. PICK n \in 1..MaxFiles : total' = [total EXCEPT ![c] = n]
        BY <3>3
      <4>2. pc[c] = "finding" /\ completed[c] = 0 /\ UNCHANGED <<completed, text>>
        BY <2>7 DEF FilesFound, Counting
      <4>3. line' \in Seq(Cycle)
        BY <3>3 DEF Counting
      <4>4. total' \in [Cycle -> 0..MaxFiles] /\ total'[c] > 0
        BY <4>1, WarmingAssumption DEF Counting
      <4> QED BY <3>1, <3>3, <4>1, <4>2, <4>3, <4>4 DEF Counting, WarmerTypes
    <3> QED BY <2>7, <3>1, <3>2, <3>3 DEF FilesFound
  <2>8. ASSUME NEW c \in Cycle, RenderEnds(c) PROVE Settings' /\ Counting'
    <3>1. Settings'
      BY <2>8 DEF RenderEnds, Settings, settings
    <3>2. /\ pc[c] = "rendering" /\ line # <<>> /\ Head(line) = c /\ UNCHANGED total
          /\ completed' = [completed EXCEPT ![c] = @ + 1]
      BY <2>8 DEF RenderEnds
    <3>3. completed[c] \in Nat /\ total[c] \in Nat /\ MaxFiles \in Nat
          /\ completed[c] < total[c] /\ total[c] <= MaxFiles
      BY <3>2, WarmingAssumption DEF Counting
    <3>4. /\ completed'[c] = completed[c] + 1
          /\ completed' \in [Cycle -> 0..MaxFiles]
      BY <3>2, <3>3 DEF Counting
    <3>5. text' \in [Cycle -> 0..100]
      <4>1. completed'[c] \in Nat /\ total[c] \in Nat \ {0} /\ completed'[c] <= total[c]
        BY <3>3, <3>4
      <4>2. computeWarmPercent(completed'[c], total[c]) \in 0..100
        BY <4>1, PercentIsOne
      <4> HIDE DEF computeWarmPercent
      <4> QED BY <2>8, <4>2 DEF RenderEnds, Counting
    <3>6. Tail(line) \in Seq(Cycle)
      BY <3>2 DEF Counting
    <3>7. line' \in Seq(Cycle)
      BY <2>8, <3>6 DEF RenderEnds
    <3>8. \/ completed'[c] < total[c] /\ UNCHANGED pc
          \/ pc' = [pc EXCEPT ![c] = "done"]
      BY <2>8 DEF RenderEnds, Ended
    <3>9. \A d \in Cycle :
             /\ pc'[d] \in Before => completed'[d] = 0
             /\ pc'[d] = "rendering" => completed'[d] < total'[d]
      BY <3>2, <3>3, <3>4, <3>8 DEF Counting, WarmerTypes, Before
    <3> QED BY <3>1, <3>2, <3>4, <3>5, <3>7, <3>9 DEF Counting, Before
  <2>9. CASE SetMode
    BY <2>9, CountKept DEF SetMode, Settings
  <2>10. CASE TimerFires \/ Dispose \/ AtRest \/ UNCHANGED vars
    <3>1. UNCHANGED <<settings, loops, pc, runtime>>
      BY <2>10 DEF TimerFires, Dispose, AtRest, vars
    <3> QED BY <3>1, CountKept DEF Settings, settings
  <2> QED BY <2>1, <2>3, <2>4, <2>5, <2>6, <2>7, <2>8, <2>9, <2>10 DEF Next
<1> QED BY <1>1, <1>2, WarmerInvariant, PTL DEF Spec

(* Whatever is begun, cancelled and rendered, the state of the warming has *)
(* its types: no more is rendered than was found, and what the indicator   *)
(* shows is a percentage.                                                  *)
THEOREM WarmingTypes == Spec => []TypeOK
<1>1. WarmerInv /\ Settings /\ Counting => TypeOK
  BY DEF WarmerInv, WarmerTypes, Settings, Counting, TypeOK
<1> QED BY <1>1, WarmerInvariant, Counts, PTL

(* A cancelled or disposed cycle ends with the render in flight: whatever  *)
(* the order of its awaits and of the cancellation, it starts no other.    *)
THEOREM WarmingStops == Spec => StopsAfterItsRender
<1> DEFINE Obeys(c) == Stopped(c) /\ pc[c] \in Running /\ (pc'[c] # pc[c] \/ completed'[c] # completed[c])
                         => pc'[c] = "done"
<1>1. WarmerInv /\ Settings /\ Counting /\ [Next]_vars => [\A c \in Cycle : Obeys(c)]_vars
  <2> SUFFICES ASSUME WarmerTypes, completed \in [Cycle -> 0..MaxFiles], Next, NEW c \in Cycle,
                      Stopped(c), pc[c] \in Running
               PROVE  \/ pc'[c] = pc[c] /\ completed'[c] = completed[c]
                      \/ pc'[c] = "done"
    BY DEF WarmerInv, Counting
  <2>1. ASSUME NEW k \in Reconcile, ToggleEnabled(k) \/ SwitchProvider(k) \/ GrantTrust(k)
        PROVE  pc'[c] = pc[c] /\ completed'[c] = completed[c]
    <3>1. pc[k] = "idle" /\ UNCHANGED completed
          /\ pc' \in {[pc EXCEPT ![k] = "asking"], [pc EXCEPT ![k] = "done"]}
      BY <2>1 DEF ToggleEnabled, SwitchProvider, GrantTrust, Reconciles, loops
    <3> QED BY <3>1 DEF WarmerTypes, Running
  <2>2. ASSUME NEW k \in Cycle, Reconciled(k) \/ PreviewOpened(k) \/ OpenPreview(k)
        PROVE  pc'[c] = pc[c] /\ completed'[c] = completed[c]
    <3>1. /\ pc[k] \in {"idle", "asking"} /\ UNCHANGED completed
          /\ pc' \in {[pc EXCEPT ![k] = "asking"], [pc EXCEPT ![k] = "done"], [pc EXCEPT ![k] = "resolving"]}
      BY <2>2 DEF Reconciled, PreviewOpened, OpenPreview, Begin, loops
    <3> QED BY <3>1 DEF WarmerTypes, Running
  <2>3. ASSUME NEW d \in Cycle, RuntimeResolved(d) \/ FilesFound(d)
        PROVE  pc'[c] = "done" \/ (pc'[c] = pc[c] /\ completed'[c] = completed[c])
    <3>1. UNCHANGED completed
          /\ (Stopped(d) => pc' = [pc EXCEPT ![d] = "done"])
          /\ pc' \in {[pc EXCEPT ![d] = "done"], [pc EXCEPT ![d] = "finding"], [pc EXCEPT ![d] = "rendering"]}
      BY <2>3 DEF RuntimeResolved, FilesFound, Ended, loops
    <3> QED BY <3>1 DEF WarmerTypes
  <2>4. ASSUME NEW d \in Cycle, RenderEnds(d)
        PROVE  pc'[c] = "done" \/ (pc'[c] = pc[c] /\ completed'[c] = completed[c])
    <3>1. /\ completed' = [completed EXCEPT ![d] = @ + 1]
          /\ (Stopped(d) => pc' = [pc EXCEPT ![d] = "done"])
          /\ pc' \in {pc, [pc EXCEPT ![d] = "done"]}
      BY <2>4 DEF RenderEnds, Ended, isCancelled
    <3> QED BY <3>1 DEF WarmerTypes
  <2>5. CASE SetMode \/ TimerFires \/ Dispose \/ AtRest
    BY <2>5 DEF SetMode, TimerFires, Dispose, AtRest, loops, vars
  <2> QED BY <2>1, <2>2, <2>3, <2>4, <2>5 DEF Next, Cycle
<1> QED BY <1>1, WarmerInvariant, Counts, PTL DEF Spec, StopsAfterItsRender
=============================================================================
