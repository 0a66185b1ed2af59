--------------------------- MODULE PreviewWarming ---------------------------
(***************************************************************************)
(* Background warming of the VI-preview cache: reconcilePreviewWarming of  *)
(* src/src/extension.ts, which starts and cancels it as the settings       *)
(* change, over the warmer of src/src/ui/viPreviewCacheWarmerService.ts    *)
(* and the loop of src/src/reporting/viPreview/viPreviewCacheWarmer.ts.    *)
(*                                                                         *)
(* A warm cycle is begun by one reconciliation or by one opened preview,   *)
(* each begins at most one, and the cycle is named by what began it.       *)
(* Everything up to an `await` is one step; the awaited events are the     *)
(* resolution of the runtime, the search for files and the end of a warm   *)
(* render, and warm renders end in the order the session queue took them.  *)
(***************************************************************************)
EXTENDS Integers, Sequences, FiniteSets

CONSTANTS Reconcile,  \* the calls of reconcilePreviewWarming
          Preview,    \* the previews that are opened
          MaxFiles,   \* bound: VIs of the workspace
          None        \* undefined

Cycle == Reconcile \cup Preview

ASSUME WarmingAssumption ==
    Reconcile \cap Preview = {} /\ None \notin Cycle /\ MaxFiles \in Nat

VARIABLES enabled,     \* viHistorySuite.preview.enabled
          provider,    \* the runtime the settings select
          mode,        \* viHistorySuite.preview.backgroundWarming
          trusted,     \* the workspace is trusted
          disposed, hasRunThisSession, cycleToken, doneTimer,
          statusItem,  \* the indicator, named by the cycle that made it
          pc,          \* where each trigger and then its cycle is
          runtime,     \* the provider it is resolving or has resolved
          cancelled,   \* token.cancelled of each cycle
          total, completed,
          line,        \* the cycles whose warm render is in flight, in order
          item, text   \* each indicator, and the percentage it shows

settings == <<enabled, provider, mode, trusted>>
warmer == <<hasRunThisSession, cycleToken, doneTimer, statusItem, cancelled, item>>
loops == <<total, completed, line, text>>
vars == <<settings, warmer, loops, disposed, pc, runtime>>

Running == {"resolving", "finding", "rendering"}
Stopped(c) == disposed \/ cancelled[c]
Live(c) == pc[c] \in Running /\ ~Stopped(c)

TypeOK ==
    /\ enabled \in BOOLEAN /\ provider \in {"docker", "host"}
    /\ mode \in {"docker-only", "always", "off"} /\ trusted \in BOOLEAN
    /\ disposed \in BOOLEAN /\ hasRunThisSession \in BOOLEAN /\ doneTimer \in BOOLEAN
    /\ cycleToken \in Cycle \cup {None} /\ statusItem \in Cycle \cup {None}
    /\ pc \in [Cycle -> {"idle", "asking", "done"} \cup Running]
    /\ runtime \in [Cycle -> {"docker", "host", None}]
    /\ cancelled \in [Cycle -> BOOLEAN]
    /\ total \in [Cycle -> 0..MaxFiles] /\ completed \in [Cycle -> 0..MaxFiles]
    /\ line \in Seq(Cycle)
    /\ item \in [Cycle -> {"none", "shown", "disposed"}]
    /\ text \in [Cycle -> 0..100]

(* Activation reconciles once; nothing is warming yet. *)
Init ==
    /\ enabled \in BOOLEAN /\ provider \in {"docker", "host"}
    /\ mode \in {"docker-only", "always", "off"} /\ trusted \in BOOLEAN
    /\ disposed = FALSE /\ hasRunThisSession = FALSE /\ doneTimer = FALSE
    /\ cycleToken = None /\ statusItem = None
    /\ \E k \in Reconcile :
          /\ pc = [c \in Cycle |-> IF c # k THEN "idle"
                                   ELSE IF trusted /\ enabled THEN "asking" ELSE "done"]
          /\ runtime = [c \in Cycle |-> IF c = k THEN provider ELSE None]
    /\ cancelled = [c \in Cycle |-> FALSE]
    /\ total = [c \in Cycle |-> 0] /\ completed = [c \in Cycle |-> 0]
    /\ line = <<>>
    /\ item = [c \in Cycle |-> "none"] /\ text = [c \in Cycle |-> 0]

Disposing(c) == IF c = None THEN item ELSE [item EXCEPT ![c] = "disposed"]

Retired == Disposing(statusItem)
Disarmed == FALSE

(* cancelCurrentCycle *)
CancelCurrentCycle ==
    /\ cancelled' = IF cycleToken = None THEN cancelled
                    ELSE [cancelled EXCEPT ![cycleToken] = TRUE]
    /\ cycleToken' = None
    /\ hasRunThisSession' = FALSE
    /\ doneTimer' = Disarmed
    /\ item' = Retired
    /\ statusItem' = None

(* Mutant: a cycle that is running is no reason not to begin another. *)
OnlyIfDisposed == disposed

Refused == disposed \/ hasRunThisSession

shouldWarmViPreviewProvider(p, m) == m = "always" \/ (m = "docker-only" /\ p # "host")

(* begin: unless refused, the latch is set and `run` starts, up to its     *)
(* first await.  In mode `off` it returns at once and the token is dropped. *)
(* Mode and provider are both read now, so what they decide is known now:  *)
(* runtime is None where the cycle will find its provider is not warmed.   *)
Begin(c) ==
    IF Refused
    THEN pc' = [pc EXCEPT ![c] = "done"] /\ UNCHANGED <<warmer, runtime>>
    ELSE /\ hasRunThisSession' = TRUE
         /\ cycleToken' = IF mode = "off" THEN None ELSE c
         /\ pc' = [pc EXCEPT ![c] = IF mode = "off" THEN "done" ELSE "resolving"]
         /\ runtime' = [runtime EXCEPT ![c] =
                           IF shouldWarmViPreviewProvider(provider, mode) THEN provider ELSE None]
         /\ UNCHANGED <<doneTimer, statusItem, cancelled, item>>

(* reconcilePreviewWarming, up to its await: warming is cancelled in an    *)
(* untrusted workspace or when previews are off, otherwise the runtime is  *)
(* resolved from the settings as they are now.                             *)
Reconciles(k) ==
    /\ k \in Reconcile /\ pc[k] = "idle"
    /\ IF trusted' /\ enabled'
       THEN /\ pc' = [pc EXCEPT ![k] = "asking"]
            /\ runtime' = [runtime EXCEPT ![k] = provider']
            /\ UNCHANGED warmer
       ELSE /\ pc' = [pc EXCEPT ![k] = "done"]
            /\ CancelCurrentCycle
            /\ UNCHANGED runtime
    /\ UNCHANGED <<loops, disposed>>

(* The settings that are listened to change, or trust is granted. *)
ToggleEnabled(k) ==
    ~disposed /\ enabled' = ~enabled /\ UNCHANGED <<provider, mode, trusted>> /\ Reconciles(k)
SwitchProvider(k) ==
    /\ ~disposed /\ provider' \in {"docker", "host"} \ {provider}
    /\ UNCHANGED <<enabled, mode, trusted>>
    /\ Reconciles(k)
GrantTrust(k) ==
    ~disposed /\ ~trusted /\ trusted' = TRUE /\ UNCHANGED <<enabled, provider, mode>> /\ Reconciles(k)

(* The warming mode changes: nothing listens to it. *)
SetMode ==
    /\ ~disposed /\ mode' \in {"docker-only", "always", "off"} \ {mode}
    /\ UNCHANGED <<enabled, provider, trusted, warmer, loops, disposed, pc, runtime>>

(* The runtime of a reconciliation resolves: a container starts warming,   *)
(* a host or no usable runtime cancels it, and an error changes nothing.   *)
Reconciled(k) ==
    /\ k \in Reconcile /\ pc[k] = "asking"
    /\ \/ runtime[k] = "docker" /\ Begin(k)
       \/ CancelCurrentCycle /\ pc' = [pc EXCEPT ![k] = "done"] /\ UNCHANGED runtime
       \/ pc' = [pc EXCEPT ![k] = "done"] /\ UNCHANGED <<warmer, runtime>>
    /\ UNCHANGED <<settings, loops, disposed>>

(* resolveCustomEditor: previews are on and the workspace is trusted ... *)
OpenPreview(p) ==
    /\ p \in Preview /\ pc[p] = "idle" /\ ~disposed /\ enabled /\ trusted
    /\ pc' = [pc EXCEPT ![p] = "asking"]
    /\ UNCHANGED <<settings, warmer, loops, disposed, runtime>>

(* ... and when the document is shown warming begins, or the render failed. *)
PreviewOpened(p) ==
    /\ p \in Preview /\ pc[p] = "asking"
    /\ \/ Begin(p)
       \/ pc' = [pc EXCEPT ![p] = "done"] /\ UNCHANGED <<warmer, runtime>>
    /\ UNCHANGED <<settings, loops, disposed>>

(* The cycle ends and drops its token, if it still is the current one. *)
Ended(c) ==
    /\ pc' = [pc EXCEPT ![c] = "done"]
    /\ cycleToken' = IF cycleToken = c THEN None ELSE cycleToken

(* The runtime of the cycle resolves, and the cycle goes on if it may.     *)
RuntimeResolved(c) ==
    /\ pc[c] = "resolving"
    /\ \/ /\ ~Stopped(c) /\ runtime[c] # None
          /\ pc' = [pc EXCEPT ![c] = "finding"]
          /\ UNCHANGED cycleToken
       \/ Ended(c)  \* stopped, not warmed, no usable runtime, or an error
    /\ UNCHANGED <<settings, loops, disposed, runtime, hasRunThisSession, doneTimer,
                   statusItem, cancelled, item>>

(* findFiles returns: with VIs to warm the indicator is made and the first *)
(* render is queued.  The VI the user opened is not among them.            *)
FilesFound(c) ==
    /\ pc[c] = "finding"
    /\ \/ /\ ~Stopped(c)
          /\ \E n \in 1..MaxFiles : total' = [total EXCEPT ![c] = n]
          /\ pc' = [pc EXCEPT ![c] = "rendering"]
          /\ line' = Append(line, c)
          /\ statusItem' = c
          /\ item' = [item EXCEPT ![c] = "shown"]
          /\ UNCHANGED cycleToken
       \/ /\ Ended(c)
          /\ UNCHANGED <<total, line, statusItem, item>>
    /\ UNCHANGED <<settings, disposed, runtime, hasRunThisSession, doneTimer,
                   cancelled, completed, text>>

(* Floor(completed / total * 100), for a cycle with files. *)
computeWarmPercent(n, of) == (n * 100) \div of

(* Mutant: the token of the cycle is not polled. *)
OnlyDisposal(c) == disposed

isCancelled(c) == Stopped(c)

(* Mutant: the completed indicator is not given its timer. *)
NeverRetired == doneTimer

Armed == TRUE

(* A warm render ends: the percentage of its cycle is written to whatever  *)
(* indicator there is.  The next render is queued unless the cycle is      *)
(* cancelled or complete; then a cycle that was not cancelled arms the     *)
(* timer of the indicator, and one that was disposes of the indicator.     *)
RenderEnds(c) ==
    /\ line # <<>> /\ Head(line) = c /\ pc[c] = "rendering"
    /\ completed' = [completed EXCEPT ![c] = @ + 1]
    /\ text' = IF statusItem = None THEN text
               ELSE [text EXCEPT ![statusItem] = computeWarmPercent(completed'[c], total[c])]
    /\ \/ /\ completed'[c] < total[c] /\ ~isCancelled(c)
          /\ line' = Append(Tail(line), c)
          /\ UNCHANGED <<pc, cycleToken, doneTimer, item>>
       \/ /\ completed'[c] = total[c] \/ isCancelled(c)
          /\ Ended(c)
          /\ line' = Tail(line)
          /\ IF statusItem # None /\ ~Stopped(c)
             THEN doneTimer' = Armed /\ UNCHANGED item
             ELSE item' = Disposing(statusItem) /\ UNCHANGED doneTimer
    /\ UNCHANGED <<settings, disposed, runtime, hasRunThisSession, statusItem, cancelled, total>>

(* The completed indicator is retired. *)
TimerFires ==
    /\ doneTimer
    /\ doneTimer' = FALSE
    /\ item' = Disposing(statusItem)
    /\ UNCHANGED <<settings, loops, disposed, pc, runtime, hasRunThisSession, cycleToken,
                   statusItem, cancelled>>

Dispose ==
    /\ ~disposed /\ disposed' = TRUE
    /\ CancelCurrentCycle
    /\ UNCHANGED <<settings, loops, pc, runtime>>

(* Nothing is awaited. *)
AtRest == (\A c \in Cycle : pc[c] \in {"idle", "done"}) /\ ~doneTimer /\ UNCHANGED vars

Resolves(c) == Reconciled(c) \/ PreviewOpened(c) \/ RuntimeResolved(c) \/ FilesFound(c) \/ RenderEnds(c)

Next ==
    \/ \E k \in Reconcile : \/ ToggleEnabled(k) \/ SwitchProvider(k) \/ GrantTrust(k)
                             \/ Reconciled(k)
    \/ \E p \in Preview : OpenPreview(p) \/ PreviewOpened(p)
    \/ \E c \in Cycle : RuntimeResolved(c) \/ FilesFound(c) \/ RenderEnds(c)
    \/ SetMode \/ TimerFires \/ Dispose \/ AtRest

Spec == Init /\ [][Next]_vars

(* What is awaited settles, and a timer that is armed fires. *)
FairSpec == Spec /\ (\A c \in Cycle : WF_vars(Resolves(c))) /\ WF_vars(TimerFires)

(***************************************************************************)
(* A cancelled cycle goes on until its render ends, so a new cycle may run *)
(* beside it; but two cycles that are not cancelled never run together,    *)
(* and the one that does is the one cancelWarming would cancel.            *)
(***************************************************************************)
OneLiveCycle == \A c \in Cycle : Live(c) => cycleToken = c /\ hasRunThisSession

(* No indicator is left in the status bar that nobody can dispose of: the  *)
(* one that is shown is the one cancelWarming and the timer retire.        *)
NoLeakedIndicator == \A c \in Cycle : item[c] = "shown" => statusItem = c

(* The timer of a completed cycle never retires the indicator of a later   *)
(* one: while it is armed, the indicator belongs to a cycle that ended.    *)
TimerIsItsOwn == doneTimer => statusItem # None /\ pc[statusItem] = "done"

(* A cancelled or disposed cycle ends with the render in flight: whatever  *)
(* it awaits, it neither goes on to another wait nor starts another render. *)
StopsAfterItsRender ==
    [][\A c \in Cycle :
          Stopped(c) /\ pc[c] \in Running /\ (pc'[c] # pc[c] \/ completed'[c] # completed[c])
             => pc'[c] = "done"]_vars

(* The indicator never outstays its cycle: it is retired in the end,       *)
(* whether the cycle completes, is cancelled or is disposed of.            *)
IndicatorRetired == \A c \in Cycle : item[c] = "shown" ~> item[c] = "disposed"
=============================================================================
