# NeuroCAD: TLA+ models and proofs

TLA+ modules that model the stateful parts of NeuroCAD, TLC configurations that
check them on small instances, and TLAPS proofs about them for every instance.
Run the tools in this directory:

    tlc -workers 2 -config JobDaemonSafety.cfg MCJobDaemon.tla
    tlapm JobDaemonProofs.tla

`PROJECT.json` lists the components, the runs, for every property a mutation of
the code that breaks it, the source lines of every definition, the hazards the
properties are for, the disagreements found, and the theorems.

## 1. The system

NeuroCAD turns an English request into a validated CAD program and files made
from it. `neurocad_cli.py` routes commands; the pipeline
*prompt -> design graph -> canonical IR -> validation -> OpenSCAD -> STL -> mesh
checks* is a chain of functions without state. State and concurrency are in the
parts around it:

| component | state it keeps | operations | interacts with | what is hard | what makes it correct |
|---|---|---|---|---|---|
| job daemon (`core/daemon.py`: `JobStore`, `DaemonRuntime`) | one JSON record per job, a bounded in-memory queue, worker threads | submit, cancel, retry, show, list, ping, shutdown; `_worker`; `recover` | request threads and workers share the store and the queue; `generate_artifacts` publishes directories | compare-and-set races, a full queue, crashes between any two writes, store errors, stop while jobs run | a job runs at most once, is settled, is never stranded; output matches record |
| daemon startup and restart (`serve`, `start_daemon`, `cmd_daemon`, `core/service.py`) | socket file, pid file, processes | start, stop, restart; serve; service manager | ping over the socket; records left by the previous process | several processes, stale files, timeouts | one reachable daemon; interrupted jobs settled once |
| generation (`core/generation.py`, `core/artifacts.py`, `publish_directory_noreplace`) | staging directory, output directory, one module global | stage, build, verify, publish, clean up | called by the daemon's threads and the CLI | crash at any step, existing destination, compiler time limits, threads that share the global | all or nothing; what is published verifies and its manifest is true |
| project bundles (`core/workflow.py`) | staging and bundle directories | build, verify | project revisions, compiler | tampering between build and verify, interrupts | verify accepts exactly what build wrote |
| browser server (`core/demo_server.py`, `core/mesh_preview.py`) | request slots, one compiler lock, expiring STL cache | generate, compile, download | HTTP threads | overload, contention, eviction and expiry | bounded slots are returned; a page's downloads live and die together |
| workbench (`core/workbench.py`, JavaScript) | draft, current request, pending proposal, downloads | generate, preview and apply an edit, open a project | asynchronous answers of the server | late and failed answers | no answer to an older request replaces newer work |
| agent workspace (`core/agentic.py`, `core/agent_workbench.py`) | `project.json`, snapshots, draft files, event log | run (plan, one snapshot per component), read | model provider, a concurrent reader | failure in mid-run, two runs, mixed files | a reader sees one revision; history names completed ones |
| evaluation ledger (`core/evaluation_ledger.py`) | manifest, outcome files, summary | run a schedule, audit | external evaluation | crash, duplicate or missing outcome | the audit accepts a ledger exactly when a run wrote it |
| project revisions (`core/project.py`, `core/edit_language.py`, `core/conversational_parser.py`) | revision, change history, saved proposal | parse, update, edit, propose, review, apply | workbench, bundles, language front ends | a history undone through overlapping fields; a proposal applied after something changed | exactly the histories of edits parse; what is applied was reviewed |
| Gmsh supervision (`core/gmsh_process.py`) | worker process, workspace, receipt | mesh a STEP file | subprocess, publication | timeout and kill, partial receipts | no mesh is published that the receipt does not describe |
| mesh checks (`core/topology.py`, `core/mesh_geometry.py`, `verify_stl`) | none | count edges, components, orientation | generation | boundary cases of counting | equal to the definition of a closed, oriented surface |
| canonical IR (`core/ir.py`, `core/ir_parser.py`) | none | parse, validate a program; bounds of its nodes | every front end; generation, which holds a mesh to the bounds | any graph of nodes in a file; bounds through groups, mirrored scales and turns | exactly the bounded forests pass; recursion ends; exact bounds are exact |
| configuration (`core/config.py`) | one file | load, write | CLI, daemon | first use twice at once | strict round trip |

The language front ends, the requirement and feature representations, the
exporters, the exact CAD back ends, manufacturing, physics, the handoff
integrations and the research runners are sequential translations or numerical
code. `PROJECT.json` lists each with the reason it is not modelled. `legacy/`,
`research/`, `paper/`, `publication/`, `audits/`, `release/` and
`docs/verification/` are archives and evidence, not program.

## 2. Plan

All nine items are built; each has a section below.

| | modules | of | runs | proved |
|---|---|---|---|---|
| 1 | JobLifecycle, JobDaemon | the durable job daemon, and the lifecycle it implements | `daemon_safety`, `daemon_live`, `lost_cancel`, `terminal_overwritten` | safety, refinement |
| 2 | DaemonHandover | several daemon processes, commands and the service manager on one state directory | `shared_directory`, `handover_live`, `handover_restart`, `handover_busy` | safety |
| 3 | AtomicDirectory, ArtifactPublication | generations, bundles and Gmsh meshes that publish directories, and the promise they implement | `delivery`, `publication_renderer` | safety, refinement |
| 4 | Workbench | the browser page against late answers | `delivery` | safety |
| 5 | MeshDownloads | connections, compiler slot and download store of the browser server | `mesh_downloads` | safety |
| 6 | AgentWorkspace | revisions, checkpoints and drafts of agent runs, and the page that polls them | `shared_directory` | safety |
| 7 | EvaluationLedger, ProjectHistory | what an audit and a project file accept | `documents` | safety |
| 8 | MeshSolid, MeshTopology | which mesh passes as one solid, and mesh topology against definitions by enumeration | `documents` | safety (MeshSolid) |
| 9 | ProgramTree | the nodes of a CAD program: hierarchy, bounds | `documents` | safety |

Components that share no state are checked in one run where they ask for the same
kind of check: `shared_directory` (2 and 6), `delivery` (3 and 4) and `documents` (7 to
9). Their MC modules join the components so that a behaviour is one of one of them;
sections 4, 5 and 12 say how.

A component that another one calls is its contract there: JobDaemon uses a
generation that publishes everything or nothing, which is what ArtifactPublication
shows of `generate_artifacts`; DaemonHandover uses JobDaemon's records with one
worker; Workbench uses a server that answers anything or nothing.

Type invariants, `SourceIsDraft` of the page and `PublishedVerifies` are proved for
every instance and not repeated in the runs, except that the types are part of
`OneExecution` and `SlotsAccounted`.

The proofs of a component are in a module named after it; those of EvaluationLedger,
ProjectHistory, ProgramTree and MeshSolid, which the run `documents` also checks together,
are in `DocumentsProofs`. `InductionTheorems` has what they share: a set that has 0 and with each
number the next has them all (`SetInduction`, from `LeastNumber`), and a function that is
defined by recursion exists and has its values where it should (`Recursion`,
`RecursionType`); the same along ranks, for facts and functions of things that look only
at things of greater rank (`RankInduction`, `RankRecursion`), as a node looks at its
children. An induction is made over the set of things for which a fact holds, never over
an operator, which no installed prover could instantiate.

Left out: proofs about MeshTopology (section 13 says why); several clients in the run
`shared_directory` (the theorems have any number); the external evaluation.

## 3. JobDaemon

### State and actions

| in the module | in `core/daemon.py` |
|---|---|
| `record`, `parent`, `output` | `status` and `retried_from` of each file under `state_root/jobs`; the directories under `output_root` |
| `phase` | the main thread: no process, `start_workers`, `serve_forever`, `stop_workers` |
| `queue`, `backlog` | `DaemonRuntime.queue`; the part of `recover()`'s result not yet put in it |
| `wpc`, `wjob` | each worker thread's place in `_worker` and its `job_id` |
| `hpc`, `hjob` | each request thread's place in `submit`, `retry` or `cancel`, and its job |
| `runs`, `refused`, `abandoned`, `residue` | history, read only by the properties |

A step is what one thread does from one operation of the store or the queue to
the next. `JobStore` holds its lock for one `write`, `read` or `transition`, so
these are the atomic operations; `Transition` is the compare-and-set. `Take` to
`RecordFailure` follow `_worker`, one action per store operation, and an `...Error`
action for each update that may raise (a full disk): inside the job's `try` it
goes to the `except` block, outside it ends the thread. `Submit`, `PutQueued`,
`WriteRefused` are `submit` (record first, queue second, and for a full queue a
second, unconditional write); `Retry` is the read of the old record in `retry`,
`SubmitRetry` the write of the new one, which goes on as a submit; `ReadForCancel`, `CancelQueued`, `CancelRunning` are
`cancel` with its recursion. `Crash` and `Exit` lose everything volatile;
`Start` and `EnqueueRecovered` are `recover()` and the loop around it.

Abstractions, and why they hide nothing:
- `recover()` is one step: the workers wait on an empty queue and no request is
  served until `start_workers` returns. The loop that puts the recovered jobs in the
  queue is not: the workers run by then.
- Job identifiers are numbers. `recover()` orders jobs by file name; within one
  second the names are random, so `Submit` may take any fresh number.
- `server_close` and `_stopping.set` are one step `Stop`. Request threads are not
  joined, so requests accepted before may still act while the daemon drains.
- The look at `_stopping` after `queue.get` and the compare-and-set to running are
  one step: a stop between them is a stop after them.
- Reads of a record succeed. A submit whose first write fails has no
  effect; a retry whose write fails, or that finds the daemon stopping, just ends.
- `generate_artifacts` is its contract: it publishes the whole directory or
  nothing; section 5 opens it.
- `residue` collects the jobs whose directory outlives its worker: the process died
  or the update failed between publication and `succeeded`, or
  `rmtree(ignore_errors=True)` removed nothing. The code accepts these.

### Properties

- `RunsAtMostOnce`: over any crashes and restarts no job is started twice.
- `RunningIsHeld`: while a process is up, a running record has exactly one worker
  that will settle it, unless a store error ended that worker.
- `QueuedIsReachable`: while the daemon serves, a queued record is in the queue, in
  the recovery loop or in a thread's hands; none is stranded, except by a store error.
- `OutputMatchesRecord`: a succeeded job has its output, and output without success
  belongs to a worker or is residue; in particular a cancelled job's is removed.
- `RefusedNeverRuns`: a job refused for a full queue never runs, also not after a
  restart has read its record.
- `RetriedIsFinished`: the parent of a retry is finished and stays so.
- `ImplementsLifecycle`: the daemon implements `JobLifecycle`, under the mapping
  that a job is on offer until its submit is answered: each job moves only along
  absent, offered, queued, running, cancellation_requested and one final status.
- Liveness, for a daemon that eventually stays up: `QueuedProgress`,
  `RunningProgress`, and `CancelAnswered` (cancel does not start over forever).

Fairness (`FairSpec`): each worker and each request thread that can step does (the
scheduler runs threads; every subprocess of a generation has a time limit; the
store's lock is held for one file operation), and the main thread goes through
recovery. No request, stop, crash or start is ever obliged to happen.

### Runs

| run | instance | shows |
|---|---|---|
| `daemon_safety` | 2 jobs, 2 workers, 2 handlers, queue of 1, store errors | all safety properties and the refinement, about 162 000 states |
| `daemon_live` | 2 jobs, 1 worker, 2 handlers, queue of 1 | the liveness properties, about 93 000 states |
| `lost_cancel` | 2 jobs, 2 workers, 1 handler | **violated**: `CancellationResolves` |
| `terminal_overwritten` | 2 jobs, 1 worker, 2 handlers | **violated**: `TerminalIsFinal` |

Two jobs and a queue of one place make the queue full while a worker is busy, let
recovery overflow, let a job be retried, and let two handlers race over one job and
over the last place. Two workers race for one job after a restart. Identifiers are
used once, so that the number of jobs bounds the run. Three jobs were checked once
for the refinement and gave the same answer. Threads are interchangeable
(symmetry, safety runs only); jobs are not, recovery orders them. The liveness run
leaves store errors out: a worker that died of one does not come back, which the
safety properties account for with `abandoned`.

`lost_cancel`: a generation fails; `_worker` tries `cancellation_requested ->
cancelled`, finds `running`; now a client's cancel moves the record to
`cancellation_requested` and is answered; `_worker` tries `running -> failed`, fails,
does not look, and goes on. The record stays as it is until a restart.
`terminal_overwritten`: `submit` has written the record and finds the queue full; a
cancel sets the record cancelled and is answered; `submit` writes its own copy as
failed.

### Proofs

`JobDaemonProofs` proves `Spec => []TypeOK` (`TypeCorrect`), and `RunsAtMostOnce`,
`RunningIsHeld`, `RefusedNeverRuns` and `RetriedIsFinished`, for every set of jobs
(numbers), workers and handlers and
every queue capacity, from the module's ASSUMEs only. None of the four is inductive.
The invariant `IInv` adds why they hold:
- `RunsCounted`: a queued record has never been started, so starting it counts to one;
- `OfferIsPrivate`: a job whose submit is not answered is in nobody else's hands and
  has not run, so refusing it cannot hit a job that runs;
- `WorkIsKnown`: whatever is queued or held has a record, so a fresh identifier is
  nobody's work;
- `ExecutionOnRecord`: a job in a worker's hands is recorded running or cancelling,
  and no two workers hold one job;
- `RetryIsFinished`: what a retry has read as finished stays so until it writes the new
  record (`FinishedStays`: no step leaves a final status, except the second write of a refused
  submit, which is final too);
- `DownIsEmpty`: with no process there is no thread.

Lemmas `WorkerShapes` and `HandlerShapes` reduce the twenty-four actions of the
threads to nine effects on that state (`Began`, `Dropped`, `Stayed`, `Left`, ...); each
effect keeps each part. TLC checked `IInv` on the instance of `daemon_safety` first.

`NoJobStranded` proves `QueuedIsReachable` on top of `IInv`: a record becomes
queued only in `Offers` and stays on its way (`OnItsWay`) through every effect; a
worker that puts down a queued job does so in a stopping daemon or because of a
store error. `OutputAccounted` proves `OutputMatchesRecord`, which needs
`OutputAtWork` (what each place in `_worker` says about the output directory), and
`DaemonImplementsLifecycle` the refinement `ImplementsLifecycle`: every step moves each job along `Moves` or not
at all, a job on offer being moved by the handler that offers it only.

## 4. DaemonHandover

| in the module | in the code |
|---|---|
| `pc` | each process's place in `serve()`: ping, unlink a stale socket, bind, recover, serve, close, drain, unlink the socket, exit |
| `cpc`, `child` | each command's place in `start_daemon` (ping, unlink, spawn, wait for an answer, terminate or kill after 30 s, unlink) or in `daemon stop`, `daemon restart`, `setup`, `setup --repair`, `uninstall`; the process it spawned |
| `unit` | the service of `core/service.py`: inactive, due to be started, or the process it runs |
| `socket` | the process that the socket file leads to; `None` when there is no file. The file of a dead process stays |
| `record`, `output`, `queue`, `step`, `work` | the jobs, as in JobDaemon, with one worker in each process and no cancellation |
| `interrupted`, `overlooked`, `crashes` | history |

Each ping, unlink, bind, spawn and signal is a step of its own, so that every other
process may act between any two. The compare-and-set of `JobStore` is a read and a write,
because its lock is inside one process. `recover()` is one step, and so is a request;
JobDaemon opens them.

**Readiness.** `daemon_is_ready` may err in one direction. A yes (`Answers`) means that the
process behind the socket accepts requests. A no is possible at any time and of any daemon:
the ping has 0.2 s, and its answer is made from all job records. A start that is told no
goes on (`GoesOnBeside`) and may do so beside a daemon that is at work (`"busy"`), that
is going down and has closed its socket (`"closing"`), or that another start is bringing up
(`"starting"`). The history variable `overlooked` says that this has happened; the
constant `Overlook` says which of the three may happen in a run, and is all of them unless
a run is to show what one of them does.

**Service and commands** share the state directory. `setup` enables the service and then
starts a daemon itself if none answers, a prompt or `daemon start` starts one beside an
installed service. The service starts a process again after a failure or crash and not
after an exit that was asked for (`Fails`, `Exit`; `Restart=on-failure`,
`KeepAlive`/`SuccessfulExit`). The second of two processes, whose ping is answered or whose bind
fails, exits with an error and so is started again, until the first is gone. A SIGTERM
before `serve_forever` kills the process, which systemd counts as clean; later `serve()`
returns. `"kill"` in `Command` is a SIGTERM from anybody else. Of launchd only the
restarting is modelled, which is the same.

Properties. The code cannot promise that a serving daemon is reachable, that only a dead
daemon's job is recorded as interrupted, or that a job is executed once, because a start may
overlook a daemon. What holds is that nothing else breaks these:
- `OneReachableDaemon`: until a start overlooks a daemon, a daemon that serves has its socket
  file, whatever crashes, interrupted commands, deadlines and restarts come together;
- `OneRecovery`: until then a job recorded as interrupted is in no process's hands, and the
  record is final;
- `OneExecution`: until then no two processes execute one job (and all variables have their
  types, always);
- `QueuedSurvives`: with a service that is not stopped any more, what is queued gets its
  turn although daemons die;
- `CommandEnds`: every command ends, by an answer, its child's death or a deadline.

| run | instance | shows |
|---|---|---|
| `shared_directory` | 2 processes, 1 client, 1 job, all commands, service, a crash | the three safety properties, about 690 000 states of the run |
| `handover_live` | the same without `start` and `kill`, jobs or stopping commands | `QueuedSurvives`, `CommandEnds`, about 352 000 states |
| `handover_restart` | `start` and `restart`, only `"closing"` overlooked, no crash | **violated**: `ServingIsReachable` |
| `handover_busy` | one client that starts, only `"busy"` overlooked, no crash | **violated**: `InterruptedMeansStopped` |

`handover_restart`: `restart` sees the old daemon's closed socket and starts the new one; the
old one, which has drained by now, unlinks the new one's socket file. The new daemon serves
and nobody can reach it. `handover_busy`: a daemon has a running job and does not answer a ping
within 0.2 s; `start_daemon` unlinks its socket file and starts a second one, which records
the running job as interrupted while the first still works on it. A third way, two starts at
once of which neither sees the other, is `"starting"`; in `shared_directory` it needs the
service's process and a command, and the properties are conditional on it as on the others.

Bounds: two process slots (a slot is reused after its process is gone, so that any
number of processes follow each other and two overlap), one client beside the service, one
job. A crash can hit a daemon at work, going down or coming up. Two crashes, and so a crash during
the recovery from one, were checked once (1.04 million states), as well as two clients with all commands and
`Overlook = {}` (about 157 000 states); with any numbers the theorems below have it.

`MCSharedDirectory` joins DaemonHandover with AgentWorkspace (section 8): daemons on their
state directory and agent runs on their workspace are the two places where processes that
know nothing of each other write to one directory. They share no state, and one moves only
while the other is in its initial state. The agent runs may all end, so deadlock is not checked
there; `handover_live` checks it for the handover.

In `handover_live` a behaviour has either jobs or commands that stop daemons (`given` in
`MCHandoverLive`): no command waits for a job, and no step of `Fairness` is left out.
Without that bound, and for `QueuedSurvives` alone, `setup` with `stop` (682 000 states) and
`setup` with `disable` (481 000) were checked once, and for `CommandEnds` alone all commands
without jobs (25 300 states).

Fairness (`FairSpec`): processes go through `serve()` and do their work, commands go on,
waits and polls reach their deadline, and systemd restarts what failed (the start
limit of systemd is not modelled). Nothing obliges a request, a command, a stop or a crash to
happen. A no to a ping is never obliged either, but allowed for ever, and so `QueuedSurvives`
has premises:
- at some time the service is due to be started and from then on no command stops daemons
  (`ServiceStays`), and nobody else sends a SIGTERM, since a daemon that was asked to stop is
  not started again;
- start commands give up finitely often: each terminates its own child, perhaps with the
  jobs;
- no start overlooks a daemon, or that daemon's queue may be out of reach.

Under these premises the daemon that died may be any: the service's own, which is
restarted, or one that a command started and beside which the service's process has been
failing and coming back.

`DaemonHandoverProofs` proves the types and the three safety properties (`TypeCorrect`,
`AlwaysReachable`, `InterruptedOnce`, `ExecutedByOne`) for any numbers of processes, clients,
jobs and crashes, with service and commands of all kinds at once; nothing is assumed but the
module's ASSUMEs. They follow from `IInv`, whose first two parts hold always and whose others
hold until a daemon is overlooked:
- `WorkerIsUp`: only a process that has come up has a job; `ChildIsUp`: a command knows its
  child until that is gone;
- `OneProcess`: one process at most is past its own ping, so that the compare-and-set of
  `JobStore` is alone;
- `OneStart`, `OwnChild`: one command at most is past its ping, and then a process past its ping is
  the command's own child. So an unlink by a command hits its own child's file or a dead one;
- `HoldsSocket`: from bind to the closing of the socket the file is the process's own;
- `Interrupted`: what `recover()` settled stays failed and is in nobody's hands.
`NothingOverlooked` says what a start that overlooks nothing knows: no process is past its ping
and no command is. `ServeKeeps` and `CommandKeeps` keep the parts through the steps of
processes and commands. TLC checked `IInv` on the two
processes and the client of `shared_directory`.

## 5. ArtifactPublication

The three producers of artifact directories (`generate_artifacts`,
`build_project_bundle`, `GmshProcessBackend.mesh_step`) have one shape: look whether the
destination exists, make a private directory beside it, fill it, write the manifest
last, rename it without replacing anything, clean up on an error.

| in the module | in the code |
|---|---|
| `pc`, `asked` | each call's place, its kind and the formats it was asked for |
| `staging` | its staging directory: the files, those the manifest declares, the renderer it names |
| `native` | `_NATIVE_RENDER_AVAILABLE`, one for all threads of a process |
| `worker` | the Gmsh process of a call |
| `dest` | what each destination holds and who published it |

Each exception in the `try` is `Fail`, each `KeyboardInterrupt` `Interrupt` (a bundle
catches only `Exception`; a generation may be hit between `mkdtemp` and its `try`; a
cleanup is not protected), a dying process `Crash`, which takes all its calls with it and
leaves the mesh worker running. A file is its name, and a hash the name of what was
hashed. Two things are assumed: `rmtree(ignore_errors=True)` removes the directory
unless it is interrupted, and OpenSCAD and Gmsh only write where they are told.
A retry is another call, with a staging directory of its own.

Properties:
- `ImplementsAtomicDirectory`: together the calls implement `AtomicDirectory`: a
  destination gets the complete, verifying output of one call in one step, it is never
  replaced, and a caller that is told "published" or "failed" is told the truth. A
  caller that is interrupted after the rename learns nothing although its directory is
  published.
- `WorkspaceIsHeld`: a staging directory outlives its call only after an interrupt or a
  crash, a mesh worker only after a crash: nobody writes into a directory that was
  published or cleaned up.
- `RendererIsTrue`: the manifest names the renderer that drew the preview, if no
  process makes two calls (proved, see below).
- `CallsEnd`: every call ends. Fairness: each call goes on (`Work`), because what it waits
  for runs under a timeout; nothing is assumed of the mesh worker itself.

The run `delivery` races two commands, each in a process of its own, of any kinds, for
one destination (about 90 600 states of the run): one loses the early check or the rename, and
either may fail, be interrupted or die anywhere. More calls add no new conflict, each
meeting only what is at its destination. The system stops when both have ended, so deadlock
is not checked.

`MCDelivery` joins the race with the page of section 6: both are places where results come
out, and they share no state. The race moves while the page is at rest, its first
validation failed (`PageAtRest`); the page moves while no call has been made (`Unasked`).
The fairness of `DeliverySpec` is that of each, where it may move.

`publication_renderer` runs two generations in two threads of one daemon, and
`RendererIsTrue` is **violated**: one thread draws its preview natively, the other's
native rendering fails and sets the module global to `wireframe`, and the first writes
the global into its manifest.

`ArtifactPublicationProofs` proves `WorkspaceIsHeld`, the refinement and that what is
published verifies (`PublishedVerifies`), for any calls, destinations and processes. The
invariant `IInv` says what is in a staging directory at each place in the code
(`Staged`), so that what reaches the rename verifies, and that a destination belongs to
the call that published it (`Owns`, `Shelf`). `RendererTrue` proves `RendererIsTrue`
under `OneCallEach`: no process makes two calls. The daemon's threads break exactly that.

## 6. Workbench

The page of `core/workbench.py`. A step is one event handler or one continuation of
an async function: the browser runs either to its next `await` without interruption.

| in the module | in the script |
|---|---|
| `mode`, `source`, `drafts`, `unsaved` | `activeMode` (and `type.value`), `source.value`, `drafts`, `unsavedModes` |
| `generation`, `pending` | the variables of the same name; `pending` by its `id` |
| `locked` | the `disabled` flags that `setBusy` sets |
| `flying` | the calls of `run`, `openProject`, `previewEdit` that have not returned, each with what it was made from |
| `output` | what `render` last put on show, with its downloads; `project` identifies the object `currentProject` |
| `proposal` | `editProposal`: its `base`, the text edited from and to |
| `chosen` | `fileInput.value`; a change event needs a different file |
| `agreed` | history: the unsaved drafts of the last question the user said yes to |

`Invalidate`, `Begin`, `RenderResult`, `IsCurrent` and `Finish` are the functions of (nearly)
the same names, and the actions are composed of them as the handlers are. `Late` is
the continuation of any request that is no longer current: an aborted `fetch`, or an
answer that was already on its way. The server answers what it likes or not at all;
only the empty text is never valid. `setBusy` reads `currentProject` before
`markDirty` clears it, so `locked` is computed from the old `output` there.
Left out: wording, focus, the links and metrics of a result, the size limit (a
rejection), and the contents of instruction and reason.

Properties:
- `OutputIsCurrent`: whatever order answers, failures and edits come in, the result on
  show was made from the mode and text on show.
- `ProposalIsFresh`: a proposal under review edits the project on show.
- `ControlsMatch`: buttons are locked exactly while a current request is in flight, and
  what is on show can be worked on otherwise.
- `SourceIsDraft` (proved only): the input on show is the draft of its mode.
- `UnsavedSurvives`: an unsaved draft is replaced by typing, by a reviewed revision of
  itself, or after the user agreed to lose that very draft, however long ago the
  question was asked.
- `OutputSurvivesFailure`: validated output is never lost to a failed compilation
  (docs/ARCHITECTURE.md:28), nor to a file that does not open or an edit that is refused.
- `ControlsReturn`: every request gives the controls back or is superseded. Fairness:
  some request in flight goes on, because each has a timer that aborts it and the
  browser runs every continuation; the user is never obliged to do anything.

The run `delivery` has three modes, one of them without a project in its result, two
texts beside the empty one, and `MaxGeneration` = 4: four requests or invalidations
between two loads of the page, which reach validate, propose, apply and one
more request over the applied revision, or four requests in flight at once; about
37 000 states of the run. `Reload` starts the count again, so the page never stops. Without the
third mode the run was also done with five (141 000 states).

`WorkbenchProofs` proves all of these but `ControlsReturn`, for every set of texts and
modes and every `MaxGeneration`. The invariant `IInv` adds two things to the
properties: `Numbered` (no request has a number yet to come, and at most one is
current) and `CurrentFits` (what the current request was made from is unchanged: the
input for a validation, the shown project for an edit, the agreement for a file being
opened). Every handler either takes a new number, which leaves no old request
current (`InvalidateKeeps`, `BeginKeeps`), or is the end of the current request
(`FinishKeeps`), so nothing that a current request depends on changes under it.

## 7. MeshDownloads

`DemoServer.process_request` takes a slot for each connection or turns it away; the
thread of the connection compiles under one process-wide slot, publishes its meshes in
`MeshDownloadStore`, answers, shuts the connection and gives its slot back.

| in the module | in the code |
|---|---|
| `slots`, `compiler` | `_worker_slots`, `_COMPILER_SLOT` |
| `pc`, `meshes` | the thread of each connection and the sizes of the parts it compiled |
| `files` | `MeshDownloadStore._files` in its order: part, size, time left |
| `newest` | history: what was published last |

The accepting thread is alone, so one connection at a time is between its slot and its
thread (`Accept`, then `StartThread` or `StartFails`). `Publish` is the whole of
`MeshDownloadStore.publish` under its lock: what expired goes, then the oldest until
there is room. A request that changes no state is `Answer`, whatever it says.

- `SlotsAccounted`: every slot is free or held by a connection that will give it back, on
  every path, the compiler slot by the one that compiles (with the types of all variables).
- `BytesBounded`: the store never exceeds its bytes.
- `NewestIsWhole`: the parts published last all stay until they expire.
- `RequestsEnd`: every connection ends and gives its slot back. Fairness: each thread goes
  on, because socket reads and writes and OpenSCAD have timeouts.

The run `mesh_downloads` has three connections for two slots, models of one and two parts
of size 1 or 2 in a store of 3, and a lifetime of two ticks (about 30 100 states): a third
connection meets a full server, an enclosure can exceed the store or evict one, two or
three files of different ages.

`MeshDownloadsProofs` proves the three invariants, for any connections, slots, sizes,
capacity and lifetime. Threads and store hardly meet, and `Inductive` is proved in two halves.
`ThreadsOK` counts: as many slots are taken as connections have one, and the compiler is
taken exactly while its owner compiles. `StoreOK` needs what the recursive sums and filters
do to a list of files: `Sum` of a list put together, or shortened at either end; `Expired`
keeps order and adds no bytes, and keeps the end of the list whole while that has not
expired; `Evicted` leaves files that fit, whatever is asked for, because taking all away is
one of its choices.

## 8. AgentWorkspace

`AgentWorkspace.run` reads `project.json` once, numbers its revision after it, and writes
for each component the files of a checkpoint, `project.json`, and the three draft files;
at the end `project.json` again with the completed revision in its history. Nothing keeps
two runs apart. Every file is replaced atomically, so `snapshot` and `draft` hold the run
that wrote each (the runs' plans differ; a recorded SHA-256 tells who it was of). `run`
holds the local variables of each run, `page` what the live page fetched and drew.
`Raise` is any exception, interrupt or crash: what has been written stays. History
variables: `completed`, `overlapped`, `clashed`. `events.jsonl`, which is only displayed,
and temporary files left by a crash are not modelled.

- `CheckpointMatches`: the checkpoint that `project.json` names is on disk as hashed,
  whatever other runs do, unless two were making that very revision at once.
- `CompletedIsKept`: runs that follow one another, however many of them fail, lose neither
  the latest completed revisions in the history nor any checkpoint of them.
- `DraftIsWhole`: under `draft_complete` the three draft files are of one stage, the last
  (docs/AGENT_STUDIO.md:6).
- `PageIsCurrent`: the page redraws when it must: revision and stage identify the geometry.

The last three hold for runs that follow each other. With two runs going at once they do
not: the later run may take the revision number of the earlier one, and `project.json` may
go back. The documents promise nothing for that case.

The run `shared_directory` has three runs, at most two at once, plans of one or two
components, two of the three files of a stage (enough for every order of writes between
two runs), three revisions and a history of two: about 1.16 million states of the run. Three runs
are a completed one, a failed one that used up a number, and one after it.

`AgentWorkspaceProofs` proves all four for any numbers. `CheckpointMatches` needs: two runs
that make one revision are known to clash (`Clash`), what a run has checkpointed so far is
there unless they do (`Staged`), and only the run that recorded a revision may still be
making it (`Owner`). The others need the invariant `Sequential` of runs that do not overlap:
revisions only grow (`Ahead`, `Earlier`), the last entries of a history are those of the
last completed runs (`Remembered`), and the drafts are whole under `draft_complete`
(`Building`, `Whole`).

## 9. EvaluationLedger

`run_scheduled_evaluation` writes the manifest, one record per sample and the summary,
none of them over an existing file; a write may raise before or after the file has got its
name. The outcome of an executor that raises, or whose counts contradict each other, is
an error; a record that could not be written is in the summary only. `Change` and `Forge`
are what may happen to the files afterwards, or at any time: one is lost, damaged or
replaced, or a whole ledger made up. A document is its value, and so is its SHA-256.
`Verified` is `audit_scheduled_evaluation` without, `Anchored` with the hashes of manifest
and summary kept outside.

- `AuditIsExact`: the audit accepts exactly the directories an undisturbed run could have left.
- `AnchoredIsTrue`: an undamaged finished ledger passes, also one with failed writes; one
  that passes with the hashes kept outside tells what the executor returned; and
  `valid_for_inference` means that each sample was measured against some requirement and
  its record is there.

`DocumentsProofs` proves both, for every schedule, every set of results and any
number of changes. The invariant `LInv` says that the rows follow the schedule and hold
what was measured, that what was hashed is what the rows say was persisted, and that
without changes the disk holds what was hashed. The instance has two samples, three
results (a pass, nothing measured, a pass its counts contradict) and one change.

## 10. ProjectHistory

A project file holds a specification, its revision and every change since revision 1. The
commands run one at a time: `Create` (interpret with `--project-output`), `EditField`,
`EditText`, `Understand` (a proposal in a file), `Apply` (review and apply it), and between
them somebody may change a file by hand. The specification is a wall, a lid and cutouts
with the rules of `validate_enclosure_spec` that tie them together: an opening in the lid
needs a lid, wall and clearance together need room. `Parses` is `parse_project`, which
undoes the history from its end; `Tried`, `Candidate` and `Reviewed` are
`validate_edit_payload` and `apply_proposal`.

- `HistoryIsExact`: a file parses exactly if some valid specification becomes the recorded
  one by the recorded changes, each leaving it valid. The fields overlap (`lid` and
  `lid.clearance_mm`), and the code never looks for the first specification.
- `AppliedIsReviewed`: what is applied is what was shown, to the project it was shown for:
  each action can be seen in the result, what was to be kept is kept, and nothing changes
  that no action names, also when the project or the proposal changed in between.

One exception is part of `AppliedIsReviewed`: an action on a cutout that changes nothing
does not count (conversational_parser.py:288). `docs/CONVERSATION_QUANTITIES.md:15` has
conflicting instructions yield no candidate, without exception: stated without it,
`AppliedIsReviewed` is violated, because "move a" to where it is and "remove a", or "move a"
elsewhere, pass as one proposal, of which only the second can be seen.

Bounds: two cutouts, one of them in the lid; dimensions 0 to 2; two starts, four cutout lists
(one names a cutout twice), nine instructions; two changes, which are every pair of
overlapping fields, and two actions in a proposal; one file changed by hand, in one place.
Left out: source text, reasons and evidence, proposals with questions (`Apply` refuses
them), and the limit of 1 MiB, which is checked when a project is read and not when it
is written. A hand-written `before` is one of the canonical values.

`DocumentsProofs` proves both properties, for any starts, values, lists of cutouts (also
ones that name a cutout twice), instructions, revisions and actions. The invariant
`HistoryInv` says that a project file and a proposal have the shape of such files, valid or
not, whoever wrote them, and that what was applied passed `Reviewed`; TLC checked it on
the instance of `documents` first.

`HistoryExact`: a field can be read and written back (`FieldLaws`: what is put is got;
putting back what was got changes nothing; of two puts the last one counts). So undoing a
change and making it are the same relation between two specifications (`UndoesIsMakes`),
whatever fields overlap, and a way back through the whole history (`Back`) is a way forth
(`Forth`). `ParsesIsBack` shows that the loop of `parse_project` accepts a file exactly if
there is a way back, `OutcomesAreForth` that the definition of `HistoryIsExact` has the
specifications to which there is a way forth, each by induction over the number of changes.

`ReviewedApplied`: an instruction changes its own field only (`OthersStay`) and can be seen
in what it gives it (`ValueOfIs`, `HoldsAfter`). `OneMoreAction` is the step of an induction
over the actions of a proposal with the invariant `Changed` and `Seen`: a field that was
touched has the value recorded for it, any other the one it had in the project; and an
action that cannot be seen any more is one on cutouts that could be seen in the project.
An action that meets a field touched before leaves the specification as it is, which is
why the check on `touched` makes order irrelevant, and why an action that does not touch is
exempt: that is the exception above, now with its proof that there is no other.

## 11. MeshSolid and MeshTopology

MeshSolid has the decision of `verify_stl` on the connections of a mesh (`IsSolid`): its own
union of faces over edges of two (`Find`, `Unified`, `OverSide`, `BodiesJoined`), trimesh's
two tests, and the search of `analyze_triangle_complex` for singular edges and vertices
(`Link`, `LinkIsManifold`, `BadVertices`, `SingularEdges`). A behaviour loads one mesh face
by face, leaves some out and turns some round. MeshTopology has the rest of
`analyze_triangle_complex` (`Union`, `Rank`, `Search`, `Component`, `Report`), on the same
meshes.

- `ReportIsExact`: the Betti numbers are those counted over all sets of vertices and faces;
  the verdicts on each component (manifold, orientable, rims, genus) are true of its
  vertices and faces; and the two agree.
- `SolidIsExact`: a mesh passes exactly if it is one closed surface, wound one way, that
  touches itself nowhere.

In MeshSolid a loop is a recursive function. `find` has no bound in the code; `Find` has as many turns as
half the items, because a turn halves the path, and the proof shows that it has ended by
then. The search of `_link_is_manifold` has as many rounds as the link has vertices,
likewise. `FindRoot` of MeshTopology is the other `find`, that of `_UnionFind`.

Meshes: two tetrahedra on a common face, with any of the nine triangles missing and up to
two turned (discs, fans, a Moebius band, an edge of three faces); the projective plane;
two tetrahedra that touch in a corner; a sphere with two points made one; a torus. They
are each kind of surface and of singularity the code distinguishes. Coordinates, and
with them self-intersections, are left out; `is_watertight` and `is_winding_consistent` of
trimesh are modelled from their use.

`DocumentsProofs` proves `SolidIsExact` for meshes of any size. The assumption
`MeshesAssumption` is that triangles have three corners and no two of them the same three:
others are refused (topology.py:97-101).

- `MeshInductive`: the faces are triangles of the mesh, wound one way or the other, in their
  order (`MeshInv`, which TLC checked first); without that order two faces might be one
  triangle, and an edge of two faces would say nothing.
- `BodiesAre`: union-find is right. `IsForestOf` has, besides the parents, what they stand
  for: the root of each face, and a height, less on the way up to no parent and below the
  size of its tree. Halving keeps it (`HalvedKeeps`), and so does hanging a root under
  another (`UnifiedKeeps`); two levels a turn are enough for `Find` (`FindIs`). `JoinedOver`
  adds that the roots split no set of faces that is closed under edges of two, and that
  each edge looked at lies in one tree; after the last edge, there is one body exactly if
  no set but none and all is closed.
- `WoundIs`: where no two faces have the same corners, two faces on each edge with opposite
  signs are the same as each side being met once, the other way round.
- `ReachedIs`: the search of a link finds the least set that no edge leaves. So a link
  passes if it is connected with one or two neighbours everywhere (`ManifoldIsPath`), and
  in a watertight mesh, where all have two (`LinkDegree`), exactly then (`CycleIsManifold`).
- `SolidExact`: one body is one surface (`BodyIsSurface`); the other way round, faces that
  meet in a vertex are of one body because its link is connected and each edge has two
  faces (`AcrossEdge`, `SurfaceIsBody`). This is where a mesh that touches itself in a
  corner differs.

## 12. ProgramTree

`program_from_dict` reads a program node by node (`ReadNode`), then its roots
(`ReadRoots`), and `validate_program` walks it: `BeginRoot` is a turn of its loop over the
roots, `TakeTop` one of the loop over the stack (`Visit`), and `walk` has the stack, the
path (`visiting`), what has been left (`visited`) and the two errors the walk can report.
When the walk has ended, `Faults` has the codes of all errors about the hierarchy,
`GeometryIsSafe` is the condition under which the recursive functions `program_node_bounds`
(`NodeBounds`) and `program_bounds_are_exact` (`Exact`) are called, `ProgramIsValid` the
answer. A program read in part is one too, without roots; no walk begins before the roots
are read.

- `HierarchyIsExact`: no error is found exactly if the nodes have levels from the roots
  down to the limit, each but the roots in one place and one level below it; and whatever
  else is wrong with a program, recursion over its nodes begins only where it ends.
- `BoundsAreTrue`: no solid reaches beyond its bounds; where they are called exact, it
  reaches all of them (generation holds the compiled mesh to them); an intersection
  that is refused for its bounds is empty. A solid is the set of its cells.

The second part of `HierarchyIsExact` bounds the recursion by the number of nodes, and by
the limit only if no root has a parent, because the code does no more: `root_has_parent`
is not among the errors that keep geometry from being computed (ir.py:435), and a node
that was visited first as a root is not visited again on a longer way, so that the limit
is not noticed. With the nodes of a long chain as roots, each listed before the ones above
it, and an intersection on top, `validate_program` raises RecursionError from
`program_node_bounds` where it would reject the program for its roots.
`tests/test_ir.py:224` (`test_deep_hierarchy_is_bounded_without_recursion_error`) tests
the chain with one root only.

Instances: any three nodes, the second of which may bear the name of the first, with at
most two children, any one or two roots and a limit of two (loops, shared, missing,
repeated and unreachable nodes, too deep by one); and a box, a ball beside it, in it or
across it, a group of the two of each kind, moved, turned and scaled by (-1, 2), and a
turned group of that and a small box. Space is a plane of unit cells and rotations are
quarter turns: each axis is treated alike, and at other angles the code claims exactness
of boxes only. Constraints, parameters, identifiers and metadata are left out.

`DocumentsProofs` proves both properties for every program: any number of nodes, in any
order, under any ids and with any children, any roots and limit, any whole transform with
scales that are not zero. The one assumption, `DraftsAssumption`, is what `program_from_dict`
and the checks on one node (`_primitive_errors`, ir.py:361-371) leave: an operation of the
four, sizes above zero. A ball of one cell is excluded because a ball lacks its corners
and would have no cell left, which is the grid's fault.

- `TreeInductive`: `TreeInv` is inductive. Its heart is `WalkInv`, what a walk stopped at
  any turn tells: the entries to be left are the path, in order and by levels
  (`PathIsOnStack`, `LeftInOrder`, `DepthsAreLevels`); a node on the path or left has each
  child left, on the stack above it, or reported (`ChildrenAreDue`), and so for the roots
  begun (`RootsAreDue`); and in a forest a node is met once, at its level (`ForestsAreClean`).
  One lemma has the loop over the stack (`VisitKeeps`), one the loop over the roots
  (`RootKeeps`). TLC checked `TreeInv` on the run before it was proved.
- `HierarchyExact`: a walk that has ended without an error leaves in an order in which
  children come before parents, so that nothing leads back; the depths at which nodes were
  entered are the levels (`AcceptedIsForest`, `SafeEnds`). The other way, in a forest a
  node is met in its one place and at its level, so that nothing is reported
  (`ForestIsAccepted`).
- `BoundsTrue`: geometry that is safe grounds the nodes: ranks increase towards the
  children (`Grounded`), from the levels that `HierarchyExact` gives. So there is induction
  over nodes, and the recursive functions `NodeBounds`, `Solid` and `Exact` are shown to
  satisfy their equations, which TLA+ does not give for nothing (`BoundsAre`, `SolidAre`,
  `ExactAre`). A transform is treated an axis at a time (`SeenAs`, `TransformIs`,
  `WithinIs`): it carries what is within bounds (`BoundsCarry`) and a lowest or highest
  cell to another (`CellsBehind`, `ReachCarry`). By induction no solid leaves its bounds
  (`SolidInBounds`) and one called exact reaches every side (`SolidReachesBounds`).

### The run `documents`

Sections 9 to 12 share no state and each runs one command at a time. `MCDocuments` joins
them in one run whose behaviours are those of one of the four, from one initial state:
about 474 500 states, a minute and a half. Every behaviour ends, so deadlock is not checked.

## 13. Only model-checked, and not modelled

Checked by TLC only: every liveness property (`QueuedProgress`, `RunningProgress`,
`CancelAnswered`, `QueuedSurvives`, `CommandEnds`, `CallsEnd`, `RequestsEnd`,
`ControlsReturn`), which is out of the prover's reach under fairness; and
`ReportIsExact` of MeshTopology, which has RECURSIVE operators and whose proof needs the
linear algebra of F2 and the classification of surfaces.

Not modelled, by reason (`PROJECT.json` lists every component):
- Real numbers: geometry, exact CAD, physics, mathematics, manufacturing, the enclosure's
  measurements and `mesh_geometry.py`. The values decide nothing about state.
- Text to values and back: the language front ends, the requirement and feature
  representations and their validation, OpenSCAD export, the handoff formats. Sequential, without state.
- Batch programs over fixed inputs: benchmarks, research runners, performance.
- Files nobody else reads or that do not meet the rest: `daemon.pid`, log rotation, the
  service definitions, the configuration file, `events.jsonl`.
- `legacy/python/cad_master_kernel_legacy_broken.py`, `research/` and the other archives,
  which no program of the repository runs.
