--------------------------- MODULE PreviewSession ---------------------------
(***************************************************************************)
(* The shared warm-session manager of VI Preview                           *)
(* (src/src/ui/viPreviewSessionManager.ts) over the container sessions it  *)
(* starts and removes (src/src/ui/viPreviewContainerSession.ts).           *)
(*                                                                         *)
(* One element of Request is one call of renderVi.  Everything up to an    *)
(* `await` is one step; the awaited events are the start of a container,   *)
(* its removal and the end of a render.  A request starts at most one      *)
(* session, so a session is named by the request that started it.          *)
(***************************************************************************)
EXTENDS Integers, Sequences, FiniteSets

CONSTANTS Request,     \* the calls of renderVi
          RuntimeKey,  \* viPreviewSessionKey of the runtimes they ask for
          None         \* undefined

ASSUME RequestAssumption == IsFiniteSet(Request) /\ None \notin Request

VARIABLES prio,         \* "interactive" or "warm"
          rkey,         \* the session key of the request's runtime
          queue,        \* the waiters not started yet
          running,      \* a render is in progress
          disposed,     \* dispose() was called
          session,      \* the manager's live session
          startPromise, \* the session whose start is pending
          rpc,          \* where each request is
          on,           \* the session a request removes, awaits or renders on
          container,    \* the container of each session
          dpc,          \* where dispose() is
          dtarget       \* the session dispose() awaits

vars == <<prio, rkey, queue, running, disposed, session, startPromise,
          rpc, on, container, dpc, dtarget>>
disposerVars == <<disposed, dpc, dtarget>>

InFlight == {"replacing", "starting", "rendering"}
Settled == {"resolved", "rejected"}
Requests(ps) == {r \in Request : rpc[r] \in ps}
Entries(q) == {q[i] : i \in DOMAIN q}

(* The key of the live session is that of the request that started it. *)
sessionKey == IF session = None THEN None ELSE rkey[session]

TypeOK ==
    /\ prio \in [Request -> {"interactive", "warm"}]
    /\ rkey \in [Request -> RuntimeKey]
    /\ queue \in Seq(Request)
    /\ running \in BOOLEAN /\ disposed \in BOOLEAN
    /\ session \in Request \cup {None}
    /\ startPromise \in Request \cup {None}
    /\ rpc \in [Request -> {"idle", "queued"} \cup InFlight \cup Settled]
    /\ on \in [Request -> Request \cup {None}]
    /\ container \in [Request -> {"none", "booting", "up", "removing", "gone", "left"}]
    /\ dpc \in {"idle", "awaitStart", "closing", "done"}
    /\ dtarget \in Request \cup {None}

Init ==
    /\ prio \in [Request -> {"interactive", "warm"}]
    /\ rkey \in [Request -> RuntimeKey]
    /\ queue = <<>> /\ running = FALSE /\ disposed = FALSE
    /\ session = None /\ startPromise = None
    /\ rpc = [r \in Request |-> "idle"]
    /\ on = [r \in Request |-> None]
    /\ container = [r \in Request |-> "none"]
    /\ dpc = "idle" /\ dtarget = None

(* Mutant: the last interactive request first. *)
NextIsLatest(q) ==
    LET I == {i \in DOMAIN q : prio[q[i]] = "interactive"}
    IN  IF I = {} THEN 1 ELSE CHOOSE i \in I : \A j \in I : j <= i

(* selectNextRender: the first interactive request, else the first of all. *)
selectNextRender(q) ==
    LET I == {i \in DOMAIN q : prio[q[i]] = "interactive"}
    IN  IF I = {} THEN 1 ELSE CHOOSE i \in I : \A j \in I : i <= j

SpliceOut(q, i) == SubSeq(q, 1, i - 1) \o SubSeq(q, i + 1, Len(q))

(* startViPreviewSession is called: its container is being created. *)
StartSession(r, c, st) ==
    /\ startPromise' = r
    /\ container' = [c EXCEPT ![r] = "booting"]
    /\ rpc' = [st EXCEPT ![r] = "starting"]
    /\ on' = [on EXCEPT ![r] = r]

(* The live session is returned and the request renders on it. *)
RenderOnLive(r, c, st) ==
    /\ session # None
    /\ rpc' = [st EXCEPT ![r] = "rendering"]
    /\ on' = [on EXCEPT ![r] = session]
    /\ container' = c
    /\ startPromise' = None
    /\ UNCHANGED session

(* Mutant: the key is not compared and any live session is reused. *)
EnsureAny(r, c, st) ==
    \/ RenderOnLive(r, c, st)
    \/ session = None /\ StartSession(r, c, st) /\ UNCHANGED session

(* ensureSession, up to its first await: reuse the live session, remove a  *)
(* session of another key, or start one.                                   *)
EnsureSession(r, c, st) ==
    \/ sessionKey = rkey[r] /\ RenderOnLive(r, c, st)
    \/ /\ session # None /\ sessionKey # rkey[r]
       /\ rpc' = [st EXCEPT ![r] = "replacing"]
       /\ on' = [on EXCEPT ![r] = session]
       /\ container' = [c EXCEPT ![session] = "removing"]
       /\ session' = None
       /\ startPromise' = None
    \/ session = None /\ StartSession(r, c, st) /\ UNCHANGED session

(* The early returns of pump. *)
NothingToPump(q, busy) == busy \/ disposed \/ q = <<>>

(* pump() with queue q, containers c and requests st: take the next        *)
(* request unless one is running or the manager is disposed, and run       *)
(* ensureSession up to its await in the same turn.                         *)
Pump(q, busy, c, st) ==
    IF NothingToPump(q, busy)
    THEN /\ queue' = q /\ running' = busy /\ rpc' = st /\ container' = c
         /\ startPromise' = IF busy THEN startPromise ELSE None
         /\ UNCHANGED <<session, on>>
    ELSE LET i == selectNextRender(q)
         IN  /\ queue' = SpliceOut(q, i) /\ running' = TRUE
             /\ EnsureSession(q[i], c, st)

(* Mutant: the `finally` forgets to pump. *)
FinishOnly(r, c, how) ==
    /\ rpc' = [rpc EXCEPT ![r] = how] /\ running' = FALSE
    /\ container' = c /\ startPromise' = None
    /\ UNCHANGED <<queue, session, on>>

(* The `finally` of a render: settle it, clear `running`, pump again. *)
Finish(r, c, how) == Pump(queue, FALSE, c, [rpc EXCEPT ![r] = how])

(* renderVi: rejected once disposed, otherwise queued and pumped. *)
RenderVi(r) ==
    /\ rpc[r] = "idle"
    /\ \/ /\ disposed
          /\ rpc' = [rpc EXCEPT ![r] = "rejected"]
          /\ UNCHANGED <<queue, running, session, startPromise, on, container>>
       \/ /\ ~disposed
          /\ Pump(Append(queue, r), running, container, [rpc EXCEPT ![r] = "queued"])
    /\ UNCHANGED <<prio, rkey, disposerVars>>

(* docker rm -f returns, fails or times out, which nobody looks at: the    *)
(* container is gone, or left behind for good.                             *)
RemovalEnds(s) ==
    /\ container[s] = "removing"
    /\ \E c \in {"gone", "left"} : container' = [container EXCEPT ![s] = c]
    /\ UNCHANGED <<prio, rkey, queue, running, session, startPromise, rpc, on, disposerVars>>

(* Mutant: the new session does not wait for the removal of the old one. *)
RemovalRequested(s) == container[s] \in {"removing", "gone", "left"}

(* The removal is over, whatever came of it. *)
Removed(s) == container[s] \in {"gone", "left"}

(* ensureSession after `await disposeSessionOnly()`: start a new session,  *)
(* whatever happened meanwhile (`disposed` is not read again).             *)
ReplacedThenStart(r) ==
    /\ rpc[r] = "replacing"
    /\ Removed(on[r])
    /\ StartSession(r, container, rpc)
    /\ UNCHANGED <<prio, rkey, queue, running, session, disposerVars>>

(* docker run and the hardening are over: the `.then` publishes the        *)
(* session and the request that awaited it renders on it.                  *)
SessionStarts(s) ==
    /\ startPromise = s /\ rpc[s] = "starting"
    /\ container' = [container EXCEPT ![s] = "up"]
    /\ session' = s
    /\ startPromise' = None
    /\ rpc' = [rpc EXCEPT ![s] = "rendering"]
    /\ UNCHANGED <<prio, rkey, queue, running, on, disposerVars>>

(* Mutant: the `.catch` does not clear the start promise. *)
StartFailureKept(s) ==
    /\ startPromise = s /\ rpc[s] = "starting"
    /\ rpc' = [rpc EXCEPT ![s] = "rejected"]
    /\ running' = FALSE
    /\ container' = [container EXCEPT ![s] = "none"]
    /\ UNCHANGED <<prio, rkey, queue, session, startPromise, on, disposerVars>>

(* docker run fails or times out, having created no container or one that  *)
(* nobody removes: the `.catch` clears the start promise and the request   *)
(* that awaited it is rejected.                                            *)
SessionStartFails(s) ==
    /\ startPromise = s /\ rpc[s] = "starting"
    /\ \E c \in {"none", "left"} : Finish(s, [container EXCEPT ![s] = c], "rejected")
    /\ UNCHANGED <<prio, rkey, disposerVars>>

(* The render on a session ends: a result (a failed one included) resolves *)
(* the request, a thrown error rejects it.                                 *)
RenderEnds(r) ==
    /\ rpc[r] = "rendering"
    /\ \E how \in Settled : Finish(r, container, how)
    /\ UNCHANGED <<prio, rkey, disposerVars>>

(* dispose() of a session: docker rm once, a second call returns at once;  *)
(* dispose() of the manager then awaits it or is done.                     *)
DisposeSession(s) ==
    IF s # None /\ container[s] = "up"
    THEN /\ container' = [container EXCEPT ![s] = "removing"]
         /\ dpc' = "closing" /\ dtarget' = s
    ELSE /\ dpc' = "done" /\ dtarget' = None /\ UNCHANGED container

(* Mutant: a start that is pending is not waited for. *)
ForgetPendingStart == FALSE

StartIsPending == startPromise # None

(* dispose(), up to its first await: the waiters are rejected; a pending   *)
(* start is awaited, otherwise the live session is removed.                *)
Dispose ==
    /\ dpc = "idle"
    /\ disposed' = TRUE
    /\ queue' = <<>>
    /\ rpc' = [r \in Request |-> IF r \in Entries(queue) THEN "rejected" ELSE rpc[r]]
    /\ IF StartIsPending
       THEN /\ dpc' = "awaitStart" /\ dtarget' = startPromise
            /\ UNCHANGED <<session, container>>
       ELSE DisposeSession(session) /\ session' = None
    /\ UNCHANGED <<prio, rkey, running, startPromise, on>>

(* The awaited start settled: a session that started is disposed, after a  *)
(* failure there is nothing but the (empty) live session to dispose.       *)
DisposeAfterStart ==
    /\ dpc = "awaitStart"
    /\ startPromise # dtarget
    /\ IF container[dtarget] = "up"
       THEN DisposeSession(dtarget) /\ UNCHANGED session
       ELSE DisposeSession(session) /\ session' = None
    /\ UNCHANGED <<prio, rkey, queue, running, disposed, startPromise, rpc, on>>

(* The awaited removal is over: disposeSessionOnly() for what is left.     *)
DisposeAfterRemoval ==
    /\ dpc = "closing"
    /\ Removed(dtarget)
    /\ DisposeSession(session) /\ session' = None
    /\ UNCHANGED <<prio, rkey, queue, running, disposed, startPromise, rpc, on>>

(* Everything has come to rest. *)
AtRest ==
    /\ \A r \in Request : rpc[r] \in Settled
    /\ dpc = "done" /\ UNCHANGED vars

Disposing == Dispose \/ DisposeAfterStart \/ DisposeAfterRemoval

Next ==
    \/ \E r \in Request :
          \/ RenderVi(r) \/ ReplacedThenStart(r) \/ RenderEnds(r)
          \/ SessionStarts(r) \/ SessionStartFails(r) \/ RemovalEnds(r)
    \/ Disposing \/ AtRest

Spec == Init /\ [][Next]_vars

(* Docker commands return (docker() bounds each by EXEC_TIMEOUT_MS), and   *)
(* continuations of settled promises run.  Nobody has to call renderVi or  *)
(* dispose.                                                                *)
Fairness ==
    /\ \A r \in Request :
          /\ WF_vars(RemovalEnds(r))
          /\ WF_vars(SessionStarts(r) \/ SessionStartFails(r))
          /\ WF_vars(ReplacedThenStart(r))
          /\ WF_vars(RenderEnds(r))
    /\ WF_vars(DisposeAfterStart \/ DisposeAfterRemoval)

FairSpec == Spec /\ Fairness
-----------------------------------------------------------------------------
(* Renders are serialized: one request at a time is past the queue, and    *)
(* `running` says so ("concurrent operations are never issued").           *)
OneRenderAtATime ==
    /\ \A r, s \in Requests(InFlight) : r = s
    /\ running <=> Requests(InFlight) # {}

(* One warm runtime: of two containers that exist one is left over from a  *)
(* docker command that failed.  The manager itself never starts a          *)
(* container beside one that boots, that runs or whose removal it has yet  *)
(* to see the end of.                                                      *)
Exists(s) == container[s] \in {"booting", "up", "removing", "left"}
OneContainerAtATime ==
    \A s, t \in Request :
        (s # t /\ Exists(s) /\ Exists(t)) => "left" \in {container[s], container[t]}

(* A render runs on a container of its own runtime, and that container is  *)
(* up unless the whole manager is being disposed.                          *)
RendersOnItsRuntime ==
    \A r \in Requests({"rendering"}) :
        /\ on[r] # None /\ rkey[on[r]] = rkey[r]
        /\ disposed \/ container[on[r]] = "up"

(* Who may have a container in which state: what the proofs induct on.     *)
(* A session that is up is the published one; one that boots is the start  *)
(* promise of the request in flight; one that is being removed is awaited  *)
(* by the request that replaces it or by dispose().                        *)
ContainersOwned ==
    \A s \in Request :
        /\ container[s] = "up" => session = s
        /\ container[s] = "booting" <=> startPromise = s
        /\ container[s] = "booting" <=> rpc[s] = "starting"
        /\ container[s] = "removing" =>
              \/ \E r \in Request : rpc[r] = "replacing" /\ on[r] = s
              \/ dpc = "closing" /\ dtarget = s
        /\ rpc[s] \in {"idle", "queued", "replacing"} => container[s] = "none"
        /\ rpc[s] = "starting" => on[s] = s
        /\ rpc[s] = "replacing" =>
              /\ on[s] # None /\ container[on[s]] \in {"removing", "gone", "left"}
              /\ session = None /\ dpc \in {"idle", "done"}

(* What dispose() can find at each of its awaits. *)
DisposalStages ==
    /\ disposed <=> dpc # "idle"
    /\ session # None =>
          \/ container[session] = "up"
          \/ disposed /\ container[session] \in {"removing", "gone", "left"}
             /\ dpc = "closing" /\ dtarget = session
    /\ dpc = "awaitStart" => dtarget # None /\ startPromise \in {dtarget, None}
    /\ dpc = "closing" =>
          /\ dtarget # None /\ container[dtarget] \in {"removing", "gone", "left"}
          /\ startPromise = None
          /\ session \in {dtarget, None}

(* The queue holds each waiting request exactly once, never survives       *)
(* disposal, and never waits for nothing.                                  *)
QueueAccounted ==
    /\ Entries(queue) = Requests({"queued"})
    /\ \A i, j \in DOMAIN queue : queue[i] = queue[j] => i = j
    /\ disposed => queue = <<>>
    /\ queue # <<>> => running

(* A warm request never starts past a waiting interactive one, and a       *)
(* request never starts past an earlier waiting one of its own priority.   *)
Overtakes(r, s) ==
    \/ prio[r] = "warm" /\ prio[s] = "interactive"
    \/ /\ prio[r] = prio[s]
       /\ \E i, j \in DOMAIN queue : i < j /\ queue[i] = s /\ queue[j] = r
NoOvertaking ==
    [][\A r, s \in Requests({"queued"}) :
          (rpc'[r] \in InFlight /\ rpc'[s] = "queued") => ~Overtakes(r, s)]_vars

(* Seen from its callers the manager is the one-at-a-time service of       *)
(* PreviewService, whatever happens to the containers behind it: the       *)
(* request in flight is the one that is served, those settled were         *)
(* answered, and every await of the manager but the last is a stutter.     *)
InService ==
    IF Requests(InFlight) = {} THEN None
    ELSE CHOOSE r \in Request : rpc[r] \in InFlight

Service == INSTANCE PreviewService
           WITH waiting <- queue, serving <- InService,
                answered <- Requests(Settled), closed <- disposed

ImplementsService == Service!Spec

(* Every request settles, whether it renders, fails or is cut off.         *)
EveryRequestSettles == \A r \in Request : rpc[r] = "queued" ~> rpc[r] \in Settled

(* dispose() returns. *)
DisposeReturns == disposed ~> dpc = "done"

(* "The session container and scratch are removed on disposal" (srs.md):   *)
(* once dispose() is over no container boots or runs that docker was never *)
(* asked to remove.                                                        *)
NothingSurvivesDispose ==
    dpc = "done" => \A s \in Request : container[s] \notin {"booting", "up"}

(* As long as all requests ask for one runtime, so that no session is ever *)
(* replaced: dispose() returns when every container, also one that was     *)
(* still starting, is gone or left over from a docker command that failed. *)
DisposeReclaims ==
    /\ \A r, s \in Request : rkey[r] = rkey[s]
    /\ dpc = "done"
    => \A s \in Request : Exists(s) => container[s] = "left"
=============================================================================
