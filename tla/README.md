# VI History Suite in TLA+

A verification development of the VI History Suite, the VS Code extension that
shows the history of LabVIEW VIs, renders previews of them and compares their
revisions with LabVIEW on the host or in a container. The modules model the
parts of it that run concurrently, share files and processes, and can be
cancelled or fail half way: the code where the order of steps decides whether
the answer is right. Paths below are relative to the repository root, whose
TypeScript lives in `src/src/`.

## How to run it

```
tlc -workers 2 -config HostLaunch.cfg MCHostLaunch.tla        # a model-checking run
tlapm HostLaunchProofs.tla                                     # the proofs of a module
```

`PROJECT.json` lists the runs with the properties each one checks, the line
ranges every definition translates, a mutation of the code for each property,
the hazards and the theorems. A run marked `violation` is expected to fail: it
states what a comment or a requirement of the repository says and finds a
behaviour of the code that contradicts it (see *Findings*).

## 1. The system

VS Code loads one extension host process. All of the extension's code shares
its single thread: what interleaves is the code between two `await`s, with the
child processes it started, the files both use, other VS Code windows on the
same storage, and the user.

| Component | State it keeps | Operations | Interacts with | Modelled in |
|---|---|---|---|---|
| VI Server acquisition lock (`reporting/runtime/localViServerAcquisitionLock.ts`) | per endpoint key: tail of a promise chain, depth | `acquire`, `release`, `isBusy`, `waitingCount` | every launch of a host LabVIEW | `ViServerLock`, run through `HostLaunch` |
| Host launches (`reporting/viPreview/viPreviewExecution.ts`, `semantic/lvkit/*`) | the running process, a temporary workspace | preview, lvkit scan, lvkit compare | the lock, LabVIEW | `HostLaunch` |
| Preview session manager (`ui/viPreviewSessionManager.ts`) | warm session and its key, pending start, queue, `running`, `disposed` | `renderVi`, `dispose` | container and host sessions, editor, warmers | `PreviewSession`, `PreviewService` |
| Preview host session (`ui/viPreviewContainerSession.ts`) | baseline PIDs, `launchedPid`, `firstRenderComplete` | start, render, dispose | LabVIEW processes of the host, the user | `HostSession` |
| File render and cache (`viPreviewFileRender.ts`, `viPreviewCache.ts`) | cache directory, a workspace per render | `renderViPreviewForFile`, `get`, `set`, eviction | working tree, other renders and windows | `PreviewRender` |
| Background warming (`ui/viPreviewCacheWarmerService.ts`, `viPreviewCacheWarmer.ts`) | cycle token, status item, timer, `hasRunThisSession` | start, cancel, preview opened, dispose | settings and trust (`extension.ts`), session manager | `PreviewWarming` |
| Comparison run (`comparisonReportAction.ts`, `comparisonReportRuntimeExecution.ts`, `comparisonPreviewPipeline.ts`, `dashboard/comparisonReportArchive.ts`) | staging directory, materialized trees, report, archive, narrative, all per VI | compare a pair, cancel, archive | Git, LabVIEW or docker, panel, dashboard, warmer | `ComparisonRun` |
| Changed-VI warming (`viChangeWarmScheduler.ts`, `ui/viChangeWarmerService.ts`) | a promise chain, `disposed` | file change, dispose | previews, comparisons, narrative cache | `ChangeWarming` |
| Worktree snapshot index (`dashboard/worktreeSnapshotIndex.ts`) | index file, archive directories | append with keep-last-N | archive, dashboard | `SnapshotArchive`, `SnapshotRetention` |
| Command runner (`runComparisonCommandPlanWithObservation`) | one child process, timer, cancellation, observations | run, cancel, time out | LabVIEWCLI, docker, the process list | `CommandRunner`, `OneShotCommand` |
| Preview-cache exchange (`viPreviewCacheBundle.ts`, `viPreviewCacheExchange.ts`, `cli/`) | bundles, releases | build, verify, import, publish, fetch | cache directory | planned |
| LabVIEWCLI.ini hardening (`reporting/runtime/labviewCliIni.ts`) | ini file and backup | apply | overlapping runs | planned |
| Availability and Git notices (`ui/runtimeAvailabilityNotice.ts`, `ui/gitPrerequisiteNotice.ts`) | in-flight flag, cached detection and daemon mode | refresh, settings change | settings, docker probe | planned |
| Runtime selection (`comparisonRuntimeLocator.ts`, `tooling/runtimeAutoDetect.ts`) | none of its own; it reads settings, disk, docker and processes one after the other | locate, acquire an image, launch | host, docker daemon, comparison run | `RuntimeSelection` |
| History command and panel (`commands/`, `ui/historyPanel*.ts`, `services/`) | open panel, last action | open, message handlers | all of the above | no (see *Not modelled*) |
| Dashboard (`dashboard/`) | dashboard record | build over pairs | archive, comparison run | `SnapshotArchive` (retained snapshots) |
| Semantic comparison and MCP (`semantic/`, `mcp/`) | model and narrative caches | compare, review, classify | reports, lvkit | `ComparisonRun`, `ChangeWarming` (narrative only) |
| Tooling (`tooling/`), mirror (`reporting/mirror/`), diagnostics, Git adapter, domain, scenarios, docs, scripts, C# tools, VM harness | see `PROJECT.json` | | | not modelled |

What is hard about it: state that is read before an `await` and used after it
(the session manager's `disposed`, the warming reconciliation's settings);
clean-up that must happen whichever step fails (slots, workspaces, containers,
revision trees); directories and files that belong to a VI but are used by runs
that overlap; caches whose key is computed at one time and whose contents at
another; ownership of a LabVIEW process inferred from two PID queries; queues
and single-flight guards that must neither lose a request nor serve two.

What makes each part correct:

* **lock**: one holder per key, first come first served, the exact depth,
  nobody waits forever while holders release;
* **launches**: the slot is held exactly while the process runs, whatever fails,
  and every launch settles;
* **session manager**: one render at a time, and one container but for those a
  failed docker command left, on the right runtime, interactive first; every
  request settles; `dispose` has asked for the removal of every container;
* **host session**: a LabVIEW of the user is never killed; its own is reclaimed,
  unless the code has let go of it (sections 2 and 6);
* **render**: a document is never served for other bytes or another VI; the
  cache keeps its bound, and what escapes an eviction is counted by the next;
* **warming**: one live cycle, cancelled means stopped, the indicator is right;
* **comparison**: a run that says it has a report has its own; what is archived
  or narrated is of the pair it is filed under; nothing is compared that was not
  validated; every pass unstages;
* **command runner**: one verdict, a true one, and nothing left armed after it;
* **snapshots**: the last N, listed once, on disk exactly while listed, and
  recovered by the next run after any crash;
* **selection**: what the settings ask for is found when it is there, nothing
  stands in for it, and the command talks to the LabVIEW that was selected, or
  to one that was started after the last look at the host;
* **change warming**: a saved change gets its summary, the summary is of that
  change, and no LabVIEW runs outside the gates.

## 2. Modules

The main modules are written for proofs as well as for TLC: constants with
named assumptions, one action per step between two awaits, no recursive
operators. `MC<Module>.tla` names the model values of a run. `<Module>Proofs.tla`
holds the theorems; two of the proof modules are about two components each, so
the state and the promises of one of the two stand in a module of their own
that does not define `Next`: `PreviewRenderState` (which `PreviewRender` and
`RetentionProofs` extend; its `Nothing` is the other modules' `None`) and
`ChangeWarmingState` (`ChangeWarming` and `SelectionProofs`).

### ViServerLock

`tails` and `depth` are the two maps of `createLocalViServerAcquisitionLock`,
`resolved` the settled promises; a call is one `acquire` with the promise
(`prev`) it awaits. `Acquire` is the synchronous part up to the await, `Resume`
the continuation once the predecessor's promise is settled, `Release` the first
call of the returned closure, `ReleaseAgain` any later one. `NoCall` is the
initially resolved promise.

### HostLaunch

Extends the lock and runs every kind of launch through it: a preview on the host or in a container, an lvkit
scan, an lvkit compare. `UsesLock` and `LockKeyOf` say which launch takes a slot
and under which key; `exit`/`outcome` are the ways a process ends.
`LaunchesImplementLock` proves that the launches use the lock as its
specification demands.

### PreviewSession and PreviewService

The manager's closure variables are `queue`, `running`, `disposed`, `session`,
`sessionKey`; `rpc`, `on` and `prio` describe each `renderVi` request, `dpc` and
`dtarget` the call of `dispose`, and `container` the life of each session's
container. Every `await` in `ensureSession`, `pump` and `dispose` separates two
actions. A session is named by the request that started it. A docker command
may fail: a `docker run` that fails or times out at its client, and a
`docker rm -f` whose failure `dispose` of the session swallows, may each leave
the container (`left`), which nothing removes from then on. `OneContainerAtATime`
and `DisposeReclaims` excuse such containers, and no others.

`PreviewService` is the same manager as `renderVi`'s callers see it: who waits,
who is served, who was answered, and whether it is closed. `Ask`, `Answer` and
`Close` are its only steps, and who is served next is said by an order on the
entries (`GoesBefore`), not by a search. `ImplementsService` is the refinement:
the queue is the waiting line, the request in flight the one served, and every
other await of the manager a stutter.

### HostSession

The PIDs of the host with their owner (the user, LabVIEWCLI, nobody) on one
side; `basePids`, `firstRenderComplete`, `launchedPid` of the session on the
other. PIDs are reused. `QueryFails` allows the PID query to answer `[]`.
A render (`RenderVi`) first looks its key up and stages its files (`staging`);
only then does it come to a LabVIEWCLI that launches or reuses a LabVIEW
(`ExecutePreview`). It may end or throw before or after that: a cached document
is a result without a LabVIEW, and the first result decides the ownership.
`missed` remembers that this decision was made without a LabVIEW, or that
`dispose` came while a render was under way or before the decision, or that its
kill failed; in these sessions the code can leave a LabVIEW behind, and `ReclaimsOwnLabview` says so.

### PreviewRender

A render hashes the files of its staging plan one by one, looks its key up,
copies the files one by one, runs LabVIEW, signs, stores and evicts, while
`Edit` changes files. Digests are the bytes themselves (no collisions); `Torn`
is an entry being written. Every file operation may fail: a failed write leaves
its torn document, a directory that cannot be listed is not evicted from, a file
whose time cannot be read counts as the oldest, and a removal that fails leaves
its document. A cache without a limit (`maxEntries <= 0`, the warm worker) shares
the directory: any set may end without an eviction. `spared` is the history of
what thus escaped since the directory was last listed. `MaxEntries` is the one
positive limit; caches with different positive limits on one directory are not
modelled.

### PreviewWarming

`Reconciles`/`Reconciled` are the two halves of `reconcilePreviewWarming` of
`extension.ts`, `PreviewOpened` the editor's notification, `Begin` and
`CancelCurrentCycle` the service's synchronous functions, and
`RuntimeResolved`, `FilesFound`, `RenderEnds` the continuations of a cycle.

### ComparisonRun

A run goes through `pc`: prepare, trees and blobs (the host's check-out and the
compared files), context (the container's directory or the host's preflight),
the states of the pipeline (stage, left, right, clear/command/finalize,
unstage), archive, source record, return. What runs share is a variable without
a run: `staged`, `executed` (where the command writes), `report` (the retained
path), `archive`, `narrative`, and `worktree`, the VI on disk, which `EditVi`
changes. A report carries what it is of, so that the properties can tell whose
report lies at a path. `disturbed` remembers that runs overlapped or an old
report resisted its removal; `container` picks the provider of a behaviour.

### OneShotCommand and CommandRunner

`OneShotCommand` is what a caller of a runner is promised: one verdict, once,
that blames a cancellation or the clock only if that was asked for before the
process was over. `CommandRunner` is both runners (`spawn` with observation for
the host, `execFile` for containers) and `executeAttempt` around them. The
child, its output, other programs and the user move on their own; each event
handler is an action (`Data`, `ExitEvent`, `ErrorEvent`, `TimerFires`,
`Cancel`, `BannerObserved`, `ExitObserved`). `asked` is `terminationRequested`
with its flag, `verdict` how the promise settles, `result` the attempt's state
and reason. `ImplementsOneShot` is the refinement (`INSTANCE ... WITH`).

### SnapshotRetention and SnapshotArchive

`SnapshotRetention` is keep-last-N as a relation between lists. In
`SnapshotArchive` a `run` is one `archiveComparisonReportSource`: copy, source
record, read the index, write it (`OpenIndex` truncates it, `CloseIndex` makes
it whole), remove what was evicted. Runs interleave at every await, any step
may fail, and `Crash` ends the host with all its runs, leaving what is on disk.
`reader` is one build of the dashboard's snapshot entries. `Parsed`, `Ordered`,
`Kept` and `Evicted` are the index's pure functions, on `Without` of
`ListFilter` (a `filter` written so that it can be proved about). `orderly` and `lone`
remember whether runs overlapped, failed or crashed.

### RuntimeSelection

One request from settings (`ask`) to a launched command (`attached`): the early
returns of `locateComparisonRuntime` (`GateReason`), the scan, the docker probe
and its image inspection, the lanes, the exact or preferred host LabVIEW, the
observation of processes and listeners (which may fail and is then passed
over), the pull of a missing image over the socket or the CLI, the packet's
gate, the second look at processes and listeners (`Preflight`, `ListenAgain`),
the staged previews, which may leave a LabVIEW (`Previews`), the teardown and
clearing before the comparison (`Quiesce`), the command (`Launch`), and the exit.
The host, docker and the running LabVIEW change between any two steps
(`LabviewStarts`, `LabviewQuits`, `DockerChanges`); `unseen` remembers that a
LabVIEW runs that was started after the last look, or that the look of a
selection that admits existing sessions could not identify. `Decisions` are the provider decisions kept for the user;
the reference definitions in front of `SelectsWhatIsThere` say what the
settings mean, independent of the order of the code's checks.

### ChangeWarming

File events of a `Save` are delivered (`Note`) to the promise `chain`; `link` is
the change being handled by `onSettledChange`: gate, plan, preview, signatures,
cache lookup, history, comparison. `runs` are the warmer's comparison and one
the user asks for; as in `ComparisonRun` they share the report path of the VI.
`recorders` are the narratives being recorded, which nobody awaits.
`settings` and `decorated` are the gates, the latter fixed at activation.
`touched`, `excused`, `switched` and `clean` are history for the properties.

## 3. Runs

| Run | Bounds | Shows |
|---|---|---|
| `launch` | 3 launches, 2 ports or none | order, slot spans process, one process per known port, launches settle |
| `session` | 3 requests, 2 runtimes (equal or not) | refinement of `PreviewService`; one container but for what a failed docker command left, the right runtime, order, disposal and liveness of the session manager |
| `session_leak` (violation) | the same | a container started after `dispose` |
| `host_session` | 3 PIDs, queries answered | who is spared; what is reclaimed, and which sessions alone may leak |
| `render` | 2 renders, 2 VIs, 2 contents, 1 edit, cache of 1 | content addressing, targets, signatures, cache bound over failing and unlimited evictions |
| `warming` | 2 reconciliations, 1 preview, 2 files | cycles, cancellation, indicator |
| `comparison` | 2 runs, in sequence or overlapping, host or container, 2 pairs, 1 edit | staging, unstaging; own report and archive for runs that do not overlap |
| `comparison_narrative` (violation) | 2 runs, no edit | an earlier pair's report becomes the narrative |
| `command` | 1 command, 3 lines of output, every provider, engine and limit | one true verdict; refinement of `OneShotCommand`; termination concludes |
| `evidence` | 3 archiving calls, 2 snapshots, limits 0 to 2, crashes, 1 dashboard | index, disk and recovery; refinement of `SnapshotRetention` |
| `selection` | 4 families of settings, up to 4 installations, 1 change of the surroundings | what is selected, why, and what the command meets after the looks, the previews and the teardown |
| `change_warming` | 1 VI, 2 contents, 2 of: saves and commits, settings, a comparison by hand; disposal at any time | summaries arrive, describe their change, and stay behind the gates |

Why these bounds are enough to be of use: a lock key has a holder, a waiter
behind it and one that arrives while the first leaves with three calls, and two
ports and the unknown one make keys coincide, differ and disagree. A manager
needs one request being rendered, one queued and one that overtakes it. A cache
of one entry evicts at the second render. Two comparison runs are the least that
can disturb one another, and two pairs (committed, working tree) the least that
differ; the edit falls between any two steps. A command is alone by the
runner's construction, and three lines are a banner, harmless text and a cause
of failure. Three archiving calls over two snapshots repeat one, evict one and
overlap; a limit of 0, 1 and 2 are none, fewer than there are and all. In a
selection the four installations are the wanted one, its double, the other
bitness and the other year; one change is enough for what was read to be stale.
One VI suffices for the change warming, as changes of different VIs meet only
in the chain; a save raises one or two events, so changes queue behind one
another, and two edits put a second save or a commit inside the first's
warming; a settings change in place of an edit is one inside a warming. Where
a theorem exists the bound does not matter for it.

Each module also has a type invariant `TypeOK`. It is among no run's properties,
which are kept for what can go wrong, because it is a theorem everywhere: `LockTyping`
(which the launches inherit), `SessionTyping`, `HostKillsTheSelected`,
`RenderTyping`, `WarmingTypes`, `TypeCorrect`, `RunnerTypes`, `SnapshotTypes`,
`SelectionTypes` and `ChangeTyping`. The exclusion and the counts of the lock, one
render at a time, the accounts of the queue, the preview gate, the indicator's
and the timer's ownership, and that the host session kills only its own are not
in a run either: their theorems hold for every instance.

## 4. Fairness

Weak fairness is assumed of the steps the JavaScript event loop takes once
they are enabled (continuations of settled promises, timers, delivered file
events), of file operations, and of processes the code bounds with a timeout or
kills. It is not assumed of the user (requests, edits, settings, cancellation,
disposal). In `CommandRunner` a process is only assumed to end once it has been
asked to: `TerminationConcludes` is about cancelled and timed-out commands, and
rests on `tasklist` answering (the code gives that query no time limit, so this is
assumed of the operating system) and on a killed process ending. In `ChangeWarming` comparisons and renders end,
because each has a time limit there, well or badly.
`ComparisonRun`, `PreviewRender`, `SnapshotArchive` and `RuntimeSelection` state
no liveness: a comparison command may run without a time limit, and the host may
end at any step. Lock holders release because every launch's process ends or is
timed out and the release is in a `finally` (this is itself checked in `launch`).

## 5. Proofs

All proofs are checked by TLAPS for every value of the constants that satisfies
the named assumptions.

* **HostLaunchProofs.** For the lock the inductive invariant `QueueInvariant`
  says that the active calls of a key form a chain: each waiter's `prev` is its
  immediate predecessor in order of arrival, the tail is the last of them, and
  only the head's predecessor is resolved. Mutual exclusion alone is not
  inductive: a promise that is resolved too early shows only one step later.
  From it follow `MutualExclusion`, `Fifo`, `TailExact` and `DepthExact`.
  `LaunchesImplementLock`: initial states map to initial states of the lock and
  every launch step is a lock step or a stutter, so the lock's theorems hold for
  the launches; with `SlotHeldExactlyWhileRunning` it gives `OneProcessPerKey`,
  and with the key of each code path `OneProcessPerPort`.
* **PreviewSessionProofs.** `SessionInvariant` records, for each state of a
  request and of `dispose`, which container exists and who owns it. Needed
  because `OneContainerAtATime` depends on the removal of the old session having
  ended before the start of the next, which is a fact about `session`,
  `sessionKey` and the request's stage together. `pump` runs in the middle of
  other steps, so the invariant is an operator on the values `pump` is called
  with (`Good`), re-established once for all callers. A container that a failed
  docker command left is neither the session's nor a start's, so the invariant
  only says that nobody refers to it again: the theorems on containers are about
  all the others. `NoOvertaking` is proved
  for queues of any length. `DisposeReclaims` needs one more invariant,
  `Reclaimed`: while all requests ask for one runtime no session is replaced,
  so what boots is the start `dispose` awaits, and what is up the session it
  then removes: what exists when it returns is what a failed command left. `SessionImplementsService` maps every step to one of
  `PreviewService`; `PumpTakesNext` shows that the first interactive entry, or
  else the first, is the one that goes before all others.
* **HostSessionProofs.** The invariant relates `basePids` to the processes
  alive since the start: with answered queries the selected PID is not in it.
  The theorems on ownership assume `~QueryFails`, since without answers they
  are false (section 6). `HostReclaimsOwnLabview` rests on there being one launched
  LabVIEW at most while nothing is `disturbed`: the process that the first result finds
  is then the one launched, unless there was none yet (`missed`), and it is still
  there when `dispose` asks. `HostKillsTheSelected` does not, and says what is left:
  one process at most is killed, the selected one, and none is selected if the
  session knew of a LabVIEW at its start.
* **PreviewWarmingProofs.** A cycle that is not cancelled is the one
  `cycleToken` holds; a shown indicator is held by `statusItem`. `WarmingTypes`
  adds `Counting`: a cycle that renders has rendered fewer files than it found,
  so the percentage it shows is one. `WarmingStops` is the action property
  `StopsAfterItsRender`.
* **ComparisonRunProofs.** `RunInvariant` is the type invariant, `Progress` (for
  each point a run has reached: what it has staged, previewed and unstaged),
  `OnlyPreviewedPairsRun` and `StagedFilesAreOwned`. `Progress` is needed because
  neither `StagedFilesAreOwned` (a run that adds files must not have unstaged
  already) nor `AlwaysUnstages` (which it implies) is inductive alone, and because
  the types of the report and of the archive rest on a staged run having content.
  `None` is assumed to be no revision, content or pair.
  `OwnReport` and `OwnArchive` are about runs that take turns. They rest on
  `Faithful` (what a run has staged is what it was asked for) and `Turns` (while
  nothing has disturbed the runs one at most is live, and from its command on it
  finds in the shared directories only what it wrote itself). `Turns` says
  nothing once `disturbed` is set, which is what makes it inductive.
* **CommandRunnerProofs.** `RunnerInv` relates the runner's state to who asked
  and who listens (`Asking`), to the verdict (`Judging`) and to what an attempt
  may conclude. `NothingStaysArmed` and `ConclusionsAreTrue` follow from it;
  `RunnersAreOneShot` is the refinement: an initial state maps to an initial
  state of `OneShotCommand`, every step to a step or a stutter. The invariant is
  needed for it because a runner settles from flags that were set events ago.
  It holds for every set of lines a command may write.
* **RetentionProofs.** First the filter: `Without` keeps what is not gone, once
  and in its order, which is proved by following its recursive function to the
  least index where it could fail. `SnapshotListedOnce` needs `ListInv`, because
  a list read by one run is written after another has changed the file:
  what every run holds must be free of doubles, not only the file.
  `DashboardFailSoft` rests on `DashboardInv`, `LoneRunIsRetained` on `LoneInv`
  (the run nothing overlaps is the only one at work, and where it stands),
  `OrderlyDisk` on `OrderlyInv` (the directories are the listed ones, give or take
  what the one run at work has just added or is about to remove).
  `RetentionImplemented` then needs only that cutting the list to the limit is
  `Retain` (`CutRetains`). For the cache, `Stages` says what a render has hashed,
  found and copied by each point, `Unedited` that without an edit since its start
  all of this is the working tree; `KeyedContent` and `SignatureOfTheFrame` follow.
  `CacheBounded` needs `ListedEnough`: at every moment the documents fit the limit
  that no eviction has selected, no set is about to list, and that are not
  `spared`. A listing starts the count anew: whatever was spared before it is
  among what it selects from.
* **SelectionProofs.** `SelInv` follows one request: its types, what each stage
  has established (`Stages`), what the docker probe may say (`Probing`), which
  LabVIEW was chosen (`HostChosen`) and what holds at the end (`Rests`). A gate or
  a choice that the code writes as a list of early returns is equal to the first
  rule that applies, the least index by `CHOOSE`; each list has a lemma that says
  what it answers. `FindsWhatIsThere` compares all this with the reference
  definitions, for surroundings that stay as they were read. In the host's lane
  no engine is known, so automatic mode's fallback from the host to docker
  (`comparisonRuntimeLocator.ts:930-933`) is never taken: the proof needs that and
  shows it. `TalksToTheSelected` is an action property of `Launch`. It needs
  `Identified`: a LabVIEW that runs, and is not `unseen`, is the observed one or
  the one the previews left; the selection has refused every other, and a look
  that passes has found none. Assumed of the constants: the settings have the fields the code
  reads, installations have a year and a bitness, `None` is none of these.
  `ChangeInv` for the change warming: `Gated` carries the gates from the planning
  of a change to its LabVIEW, and `Undisturbed` follows the content compared from
  its staging through the report to the narrative while nobody saves the VI or
  compares it.

Three refinements by `INSTANCE ... WITH`, each proved and checked in a run:
`PreviewSession` implements `PreviewService` (`session`), `CommandRunner` implements
`OneShotCommand` (`command`), and `SnapshotArchive` implements `SnapshotRetention`,
with the pair and the limit of the run that writes, as long as runs take turns
(`evidence`). A fourth by EXTENDS: the launches implement the lock.

Only model-checked: everything that says *eventually* (`EveryLaunchSettles`,
`EveryRequestSettles`, `DisposeReturns`, `IndicatorRetired`,
`TerminationConcludes`, `SummaryArrives`), because liveness under fairness is
outside what the prover does. Every other property of a passing run is a theorem.

## 6. Findings

Two have a run marked `violation`; `PROJECT.json` quotes the line it contradicts.

1. `session_leak`: `dispose` during the replacement of a session lets the
   replacement start afterwards.
2. `comparison_narrative`: the report of an earlier pair is cached as the
   narrative of a run that produced none.

Further disagreements between the code and its own text, met while modelling.
They have no run, and the properties above are stated so that they allow them:

* *Host session*: after one failed PID query a LabVIEW of the user is taken for
  the session's and killed (`viPreviewContainerSession.ts:289`; line 236 says "a
  pre-existing user LabVIEW is never touched"), and so is a LabVIEW the user
  starts between the baseline and the end of the first render. On the other side
  a session whose first result comes from the cache (`viPreviewFileRender.ts:209-214`)
  has decided its ownership (`viPreviewContainerSession.ts:317`) before there was a
  LabVIEW, and never reclaims the one a later render launches; and a `dispose`
  while files are being staged lets LabVIEWCLI launch one after it. A kill that
  fails goes unnoticed (276).
* *Preview cache*: an edit between hashing and copying stores a rendering of
  other bytes under the key of the old ones (`viPreviewFileRender.ts:267`;
  `viPreviewCache.ts:33` says the key "never returns a stale render for edited
  inputs"). Failed listings and removals are swallowed, so the directory may stay
  beyond its limit until the next set; a write that fails half way leaves a torn
  document that later lookups serve.
* *Warming*: previews turned off while a reconciliation awaits the runtime are
  warmed all the same (`extension.ts:523`, against the comment at 502), and a
  cancelled cycle may hide its successor's indicator.
* *Session manager*: a `docker rm -f` that fails or times out is swallowed and
  its exit code not looked at (`viPreviewContainerSession.ts:225`), so the next
  container starts beside the old one, or `dispose` returns with it up (srs.md:4490
  says it is removed); a `docker run` that fails at its client may leave one too.
  Its header promises an idle disposal there is no code for;
  its key leaves out the container's LabVIEW path and the connect timeout.
* *Lock*: an lvkit compare without a port locks 3363, not the default slot its
  comment names.
* *Comparison*: of overlapping runs one archives the other's report; an old
  report that cannot be removed is taken for the new one; a later run of an
  archived comparison that makes no report copies whatever lies at the shared
  path over the archived one (`comparisonReportArchive.ts:217`); revision trees stay
  when a run ends before UNSTAGING; and the comment of
  `comparisonReportRuntimeExecutionWorktreeSnapshot.ts` (33-37) describes a
  retention that the snapshot history has since replaced.
* *Command*: a process list that cannot be read fails a command that has
  finished well, with the reason `command-spawn-failed`
  (`comparisonReportRuntimeExecution.ts:4213`, caught at 1626).
* *Snapshots*: a failed removal of an evicted snapshot reports the new one as
  `retained-archive-write-failed`; overlapping archives lose records and leave
  directories nothing lists; the report of a retained entry is parsed without a
  guard (`multiReportDashboard.ts:1087`), so one removed meanwhile fails the
  whole dashboard.
* *Selection*: the extension always admits an existing LabVIEW
  (`comparisonReportSettingsReaders.ts:43`), so the look before the pass never
  happens for it; the teardown before the comparison
  (`comparisonReportRuntimeExecution.ts:1757-1774`) then terminates every LabVIEW of
  the host, the admitted session of the user included. A LabVIEW of another year
  and the selected bitness that starts after the last look (or survives a teardown
  that fails) is attached to without notice, which VHS-REQ-653 blocks at selection;
  of the race after the preflight the classification of a failed command names
  only a different bitness (`runtimeFailureClassification.ts:109-128`). On Windows
  the fallbacks from the host to a container in automatic mode cannot be reached:
  with a usable docker the lane before them has returned.
* *Change warming*: the watcher's comment says events are "debounced per path"
  and the scheduler's that they are "absorbed by ... single-flight
  serialization"; each of them queues a full warm. A report without differences
  is never cached, so every event compares again. The narrative is recorded
  without being awaited, under the content read after the run: a save during the
  run files the summary of the earlier bytes under the later ones, which the next
  change then skips as cached. The hover exists only if the workspace was trusted
  at activation, so after a later grant LabVIEW runs and nothing is recorded. A
  provider switched after the plan is used although the feature is Docker-only.

## 7. Not modelled

Formatting, HTML, argument vectors, the parsing of reports and of lvkit's
output, Git's own behaviour, docker's and LabVIEW's (they appear as steps that
succeed, fail or end late), release scripts, C# tools and the VM harness. They
are most of the repository's lines, so the modules cover a small share of it:
what is concurrent, shared or cancellable, and the decisions it depends on.

* `ComparisonRun`: Windows interop, the opt-out without a preview validator, and
  a docker container that survives its killed client.
* `CommandRunner`: the retry of an attempt and the wording of diagnostics.
* `RuntimeSelection`: where the registry and the documented paths point, a
  configured `labviewExePath`, and what the settings CLI detects by itself.
* `ChangeWarming`: the inside of a render and of a comparison, and a command
  that succeeds without writing the report it was asked for.
* The history panel: its page sends a comparison or a preview request and each
  handler is one await; the one hazard seen, writing to the page of a panel that
  was closed meanwhile (`openViHistoryCommand.ts:879`), shows without a model.

`PROJECT.json` lists every component with the reason.

## 8. Plan

The modules above are done. Next, most important first:

1. `IniHardening`: overlapping read-backup-replace of LabVIEWCLI.ini, with its
   restore.
2. `CacheExchange`: manifest, verification, import plan and choice of a release
   as operators checked over bounded inputs, then two machines exchanging.
3. `AvailabilityWatcher`: the in-flight guard, the cached daemon mode and
   out-of-band probes; the settings CLI's safe restore.
4. Compositions: `ComparisonRun` with `HostSession` (the teardown that kills
   every LabVIEW) and with `CommandRunner` (late reports of killed clients).
5. Proofs: those of the modules above; that overlapping launches, with the
   lock, serve each endpoint as one queue (an abstract server of LabVIEW requests);
   an abstract cache that `PreviewRender` implements while nobody edits.
