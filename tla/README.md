# KeireEngine, specified

TLA+ modules, TLC runs and TLAPS proofs about the concurrent and failure-prone parts of KeireEngine.
The source is the reference: each definition translates the lines that `PROJECT.json` names under `map`.

## The system

KeireEngine is a C++ game engine with an editor, a project hub and an installer. What follows are its
components as the source divides them; `PROJECT.json` lists each with its files and its status.

| component | state it keeps | operations | hard behaviour | what makes it correct |
|---|---|---|---|---|
| job scheduler (`KeireCore/Source/Jobs`) | per job: status, remaining dependencies, dependents, failure, cancellation flag, completion functions; per scheduler: four counters, submission mutex, registry, last strict simulation job; per scope: its jobs | `Submit`, `ContinueWith`, `ParallelFor`, `Wait`, `Cancel`, `OnComplete`, `JobScope::{Submit,Cancel,Wait}`, `SetDeterministicSimulation`, `Close`; workers take and execute | critical sections of several jobs interleave; every thread may finish a job; waits that execute other jobs | no job before its dependencies; one end per job; failures reach dependents; every job ends; `Close` and `JobScope::Wait` drain |
| job queues (same file) | deques per priority, per worker and per lane | push, pop from either end, steal | owner and thief at different ends, promotion by age | no job lost or run twice; bounded overtaking |
| project file transactions (`Project/ProjectFileTransaction.cpp`) and the settings document (`Editor/ProjectSettingsDocument.cpp`) | staged, backed-up and published files, the journal's state; the document's baseline and pending values | open, save, import, close; stage, publish, roll back, recover, clean up | a crash or an error at any file operation; other programs that write the files | all settings files old or all new; no change by others overwritten; a failed save can be retried |
| layers (`Layer.cpp`) | the records from the bottom to the top, the overlays' start, pending operations | push and remove inside and outside of callbacks; attach, update, dispatch, detach; activate, boundaries, deactivate | callbacks that change the vector being walked; an `OnAttach` that throws; shutdown | every operation takes effect once, at a boundary; each layer attached once and detached before it is destroyed |
| events (`Event.cpp`) | listeners by priority, the event queue, the depth of dispatches | subscribe, disconnect, dispatch, enqueue, drain, close | nested dispatches over a list that changes; other threads enqueue and disconnect; callbacks that throw or close the bus | each listener called once, in order, none after it left; accepted events delivered in order, at most once |
| frame loop, time (`Application.cpp`, `Time.cpp`) | running state, accumulator | frame, close, fixed steps | exceptions of layers, long frames | bounded steps; orderly shutdown |
| managed code (`Scripting`) | generation of loaded assemblies | prepare, commit, roll back a reload | failure half-way | instances and generation agree |
| installation transactions (`KeireHubRuntime/Source/InstallTransaction.cpp`, run by `KeireInstallWorker`) | locator, owner marker, journal, stage and backup trees, receipts, registration | install, upgrade, repair, commit, recover, uninstall | a crash or an error between any two renames; users who change installed files; a commit that comes late, or never | the installation is of one version or absent; the previous one recoverable until the commit; users' files untouched |
| hub workers and tasks (`KeireHubRuntime`, `KeireHubWorker`) | the task store; per task a control, a status and a result file; detached processes | queue, pause, resume, retry, cancel, dismiss; dispatch, poll, reconcile; the phases of a worker | the hub and its workers stop independently; files written by one side and read by the other at any time; workers that are late or never start | tasks at work share nothing; what was completed stays so; no worker is forgotten untold; every task ends |
| streaming residency (`Streaming/StreamingSystem.cpp`, range reads of `Assets/AssetSystem.cpp`) | slots with generations, free list, active requests, statistics by class; queued reads | request, pump, evict by the owner; cancel, release, pin, touch, close by any thread; the workers' reads | handles that are stale; reads that end late; closing in between | a handle reaches its own request only; bytes are accounted for; budgets kept; every request ends |
| asset database (`Assets`) | catalog, loaded assets | load, mutate, cook | answers to superseded requests | what is loaded is what was last asked for |
| scenes, rendering, physics, animation, effects, audio, user interface, services | large | numeric or presentational | | out of scope |

The job scheduler serves the asset system, physics, streaming, shader compilation and the managed runtime:
they submit descriptions with dependencies and wait, give completion functions, or put their jobs in a
scope that they drain when they close. Layers and events run on the main thread under the frame loop, which also pumps the streaming system;
the streaming system waits for the range reads of the asset system, and is closed before it.
Project transactions and installations share no memory with the rest; their state is the file system. The settings document
is the one client of the settings transaction.

## Modules

| module | models |
|---|---|
| `JobSystem` | the scheduler: jobs, handles, scopes, worker threads, shutdown |
| `JobSystemProperties` | its properties, the invariant `DependencyInv`, and the refinement mapping to `JobContract` |
| `JobContract` | what users may rely on while nothing is cancelled: no threads, queues, mutexes or counters |
| `JobQueue` | the deques behind a lane: priorities, aging, stealing |
| `MCJobSystem` | the job shapes and symmetry of the runs |
| `JobInvariants` | the other inductive invariants, which the proofs need |
| `JobSystemProofs` | theorems about `JobSystem`: types, dependencies, execution, failures, counters, draining, order, callbacks, the contract |
| `JobQueueProofs` | theorems about `JobQueue` |
| `SettingsTransaction` | saving and recovering the project settings as one group of files |
| `SettingsProperties` | its properties and the refinement mapping to `SettingsStore` |
| `SettingsStore` | what saving amounts to: all files that nobody else changed, in one step |
| `MCSettings` | the symmetry of its runs |
| `SettingsProofs` | theorems about `SettingsTransaction` |
| `InstallTransaction` | the install worker: install, upgrade, repair, commit, recovery, uninstall of a product |
| `InstallProperties`, `MCInstall` | its properties, and the two versions of its runs |
| `InstallProofs` | theorems about `InstallTransaction` |
| `LayerStack`, `LayerProperties` | the layer stack with its callbacks, and its properties |
| `LayerProofs` | theorems about `LayerStack` |
| `EventBus`, `EventProperties` | the event bus with its callbacks and the other threads, and its properties |
| `EventProofs` | theorems about `EventBus` |
| `StreamingSystem`, `StreamingProperties`, `MCStreaming` | streaming requests, residency and eviction, the handle table and the range reads; properties; instance |
| `StreamingProofs` | theorems about `StreamingSystem` |
| `HubTasks`, `HubTaskProperties`, `MCHubTasks` | the hub's package tasks, their coordinator and the worker processes; properties; instance |
| `HubTaskProofs` | theorems about `HubTasks` |

### JobSystem

Every thread has a stack of calls in progress, innermost first. A frame says which function (`op`), where in
it (`at`) and its local variables: the job, the list a loop still has to go through (`todo`), the completion
functions `FinishJob` has taken, the status and exception to give. An action is one critical section, or one
atomic store, of the call on top of a stack, so two actions of a call are separated exactly where the code
releases a mutex. Since `FinishJob` calls `Enqueue` and itself, `Wait` calls `Execute`, and a job function may
call `Wait`, `Submit` and `Close`, the stack is what makes every nesting of these a behaviour.

| code | model |
|---|---|
| `JobState::Status`, `Description`, `Dependents`, `RemainingDependencies` | `status`, `shape` and `deps`, `dependents`, `blockedBy` (the dependencies counted, not their number) |
| `DependencyRegistrationComplete`, `CancellationRequested`, `Function`, `CompletionCallbacksFinished` | the sets `registered`, `cancelRequested`, `hasFunction`, `callbacksDone` |
| `Failure`, `DependencyFailure` | `failure`, `depFailure`: the job that threw, or `None` |
| `Outstanding`, `Waiting`, `Queued`, `Running` | `count`, as integers: a transient value below zero is -1 rather than 2^64-1 |
| `SubmissionMutex` | `submitter` |
| job's mutex held by `Submit` over its loop | `Unlocked`: others wait for it; all other critical sections are single actions |
| queues of a lane | `queue[lane]`, a set: any ready job may be next; `JobQueue` has the order |
| `Wake.wait_for(20 ms)` of an idle worker | nothing: an idle worker may always look at its lane |
| `Completion.wait` | the place `"sleep"` of a wait, which it leaves only when the job is complete |
| function of a job | `shape`: the jobs it waits for, whether it closes the system, which jobs it submits; `BodyReturns`, `BodyThrows` |
| `LastDeterministicSimulation.lock()` | `Unreferenced`: a finished job that nothing refers to may have been destroyed, the choice is free |

Steps that the code has and the model does not. `Submit` adds itself to `Outstanding` before it compares with the capacity and
takes itself away when refused (`JobSystem.cpp:618`): under `SubmissionMutex`, so no other `Submit` sees the excess, only `Statistics()` may.
A registry that cannot grow refuses the job in the same way, and a refusal leaves nothing behind. `JobScope::Submit` looks at the scope before it takes that mutex (`:931`);
a scope cancelled in between is one cancelled before the job is put on its list, which the model has. The neighbouring counters of `Enqueue`
(`:158`) and of `FinishJob` (`:205`) change in one step each, so a reader that falls between two of them is not in the model.

Left out: waits with a timeout (they return without an effect on the scheduler), the totals of `Statistics()`,
job names, scratch memory, and the registry's compaction (it drops expired references only). A scheduler has
at most one scope, and at most `JobCount` jobs are ever submitted: that is the bound of every run.

### JobQueue

A job is its submission sequence number. `Submit` draws the number, `Enqueue` puts the job in one of the
places some time later, so deques are not sorted. `PopQueue` is translated with its comparison of effective
priorities (`Effective`, `Beats`) and its two ends (`FromBack`). `TryTakeCompute` looks at the deques of several
workers one after the other; the model makes that one step. A job that another thread puts in a deque the thief
has passed would make the thief miss it or steal while its own deque has work, which changes who runs a job,
not which jobs are in the deques.

### JobContract and the refinement

`JobContract` has a state per job (`Pending`, `Running`, how it ended), what it needs and how often each
completion function ran. `ImplementsContract` maps `Waiting` and `Queued` to `Pending` and hides everything
else. Steps of the scheduler that the contract cannot see, such as registering a dependency, taking a job
from a queue or settling counters, are stutters. Its liveness half says that a job whose needs are over is started or
skipped, that a started job ends, and that a completion function that may run does.

### SettingsTransaction

One thread, the editor's, walks through `Project::Open`, `ProjectSettingsDocument` and the functions of
`ProjectFileTransaction.cpp`; the project lock and the interprocess mutex keep every other editor out. `pc` is the
next file operation, `task` the call it belongs to (opening, the recovery that precedes a retried save,
publication, the cleanup after it), `at` the file a loop has reached. An action is one operation that changes a file, so a
crash or an error can fall between any two; loops that only read are one action (the module's header says why).

| code | model |
|---|---|
| the files under `ProjectSettings`, in the order of `SettingsNames` | `disk` |
| `Library/ProjectSettingsSave/active`, its `i.backup` and `i.staged` | `directory`, `backup`, `staged`; what a crash left of a write there is `litter` |
| `journal.json`: its state and the digests | `journal`, with contents for digests |
| `m_FileBaseline`, the five values of the document | `baseline`, `pending` |
| an exception | `Throw`: where the exception of the current step is caught, and what is done there |
| `RemoveUnpreparedSettingsStaging`, its literal 4 | the first cleanup, `CleanedPayloads` |
| `RemoveCompletedSettingsJournals` | the second cleanup |
| the preflight and the loop of `Rollback` | `Preflight`; `Recheck` and `Restore`, two steps because others may write in between |
| the settings that the workspace reads for `OpenImpl` | `Supply`, before `Load` |

Two history variables have no counterpart: `touched` (files others changed since they last matched a
baseline) and `raced` (the file in hand was changed since the editor looked at it). Fsync and power loss are not modelled: what was written stays written, as the
documentation says. All contents parse, opening without exclusive access changes nothing and is left out, and so is the
material policy of the same functions.

`SettingsStore` has three variables: the files, the document's values, and which files others disturbed. Its mapping
shows the originals while a journal is prepared and the disk otherwise, so the one step that changes what it
sees is `Commit`; staging, publication, rollback, recovery, errors and crashes are stutters.

### InstallTransaction

The disk is three trees (destination, stage, backup), each with files and a receipt, the registration, and the
transaction's own books: locator, owner marker, journal, temporaries. `pc` is the next file operation of the worker,
`memory` its copy of the journal, `held` the receipt whose inventory it works through and `todo` the files left of it. One
step is one rename, removal or publication; a copy (`RestoreReceipt`) is two, because it creates the file before it has
the content, so a crash can leave a torn receipt. `Crash` and `Fail` may come between any two steps, and `Edit`, a user who
changes or deletes an installed file, at any time.

| code | model |
|---|---|
| `InstallTransactionJournal` | `journal` on the disk, `memory` in the worker |
| receipts | the version they describe; `Package` says what each version holds at each path |
| `MoveReceiptInventory` forward and backward, `RestoreBackup`, `RemoveActivatedFiles` | `MoveToBackup`, `Activate`, `RemoveInstallation`; `RestoreFiles`; a step per file |
| `VerifyFile` before each move or removal | the guards `CanMove`, `CanDeactivate` |
| `RecoverExisting` at the head of every request | `RecoverExisting` with `resume`: the request goes on after the recovery |
| `PreserveOriginalFailure` | `Abandon`: roll back or leave it, by how far the transaction has come |
| `CleanupTransaction` | `Inspected`, `Removable`, then `RemoveCleanupTree`, `RemoveBooks` |
| the worker's commands (`KeireInstallWorker/Source/Main.cpp`) | `Start`, `Proceed`, `Return` |

One worker runs at a time: the installer holds a mutex (`Installer/Windows/KeireHub.nsi:51`). Reads, writes and removals of
the registration are atomic. Left out: the migration of legacy installations, shell integrations, empty directories,
path safety, and the content of the stage as it is filled (`StagePackage` is one step; an interruption inside it is one
before or after, since recovery discards the stage as a whole). The creation of the transaction's directories and owner marker
is one step, and so is the removal of its root and locator: in between there is a locator without owner and journal, which recovery refuses as it refuses the
locator before the first and after the removal of the owner marker, states that the model has. A commit fails before it begins when the shell integrations do, and an
uninstall without a registration returns after its recovery without a change, which is no error in the code (`Main.cpp:377`) and a refusal in the model. `edited` and `disturbed` are history: the paths that a user
has changed, and whether an interruption fell at one of the places that recovery is known to refuse or to misread (see
"What the runs found"); the invariants exempt just these.

### LayerStack

`frames` are the layers' callbacks in progress, innermost last: `OnAttach` from a push or a boundary, `OnDetach`, updates,
events. A callback may dispatch, ask for pushes and removals, return or throw. Which index or iterator a traversal
holds while its callback runs is in the frame, so a change of the vector under it is visible (`CursorsValid`). `ApplyPending`
is a few steps, because the callbacks of existing layers and of each operation run between them (`boundary`, `batch`).

Left out: null layers and calls from another thread (they throw and change nothing), pushes and dispatches by `OnDetach`
after the shutdown has begun to reach layers that were never attached, and exceptions of `OnDetach`, which is `noexcept`. Other
exceptions than those of `OnAttach` end the traversal they leave, and the application with it (`failed`).

### EventBus

`frames` are the owner's calls in progress: dispatches with the listener they have reached, drains with the events they have
taken, a `Close` between its critical sections. Listeners are their registration numbers. Other threads are inside `TryEnqueue`
between its first look at `open` and the mutex, or disconnect a listener in one step. `DispatchQueued` takes the queue and dispatches
it event by event.

Left out: statistics, calls from a wrong thread, the destruction of what a callback has captured, an allocation that fails in
`Subscribe`, payload conversion. `events` and `delivered` are history: what was accepted and whose dispatch has begun.

### StreamingSystem

A step is one critical section of the streaming system's mutex; `Pump` is two, since it releases the mutex before
`EvictToBudgets`, and `pumping` says that the owner is in between. `slots`, `free` and `active` are the handle table and the list of
requests; `operations` are the range reads, with the place of their job: queued, reading, leaving (the read is over, the queue
still counts it), over, or dropped when the asset system closes before they start. Handles are never forgotten (`issued`): every call may
come with any handle ever returned, so stale ones are the normal case. The asset system's `Close` cancels the reads one
by one, then the queued jobs, then waits.

Left out: retired bytes and audio underruns (two counters that nothing else reads), latency and memory reports, the lookup of
segments, an `Emplace` that fails (its storage is reserved), a refusal by the job system, and the rest of the asset system.
Sums and generations do not saturate in the model; subtractions stop at zero as in the code. `Pump` takes the results of all reads in one step: a result that
arrives behind the look at its record is one of the next `Pump`, where the code might still take it if its record comes later.

### HubTasks

`pc` is the place of the coordinator's thread in its loop: it polls the journals task by task, status first (`PollStatus`) and then the result
(`PollResult`), reconciles, takes requests, and dispatches. The worker processes write between any two of these steps.

| code | model |
|---|---|
| `HubTaskStore`, its tasks in the order in which they were queued | `store`: state, worker, whether a failure may be retried; `Absent` before, `Dismissed` after |
| `control.json`, `status.json`, `result.json` of a task | `control`, `status`, `result`: each is replaced atomically |
| `HubTaskManager::Dispatchable` | `Dispatchable`: in the order of creation time and Id (`Earlier`), which need not be that of the queue; apart from the active and the already chosen |
| `ApplyStatus`, `ApplyResult`, `FailTask` | the same names; `seen` is the status that `PollResult` finds in the coordinator's hands |
| `ReconcileWorkers`, `HasPendingWorkerResult`, `CheckLaunchTimeouts` | `Reconciled`, `Abandoned`; `Reconcile`, in which any launch may be late |
| `m_Launching`, `m_VerifiedDownloads` and its like | `launching`, `completed`: lost when the hub stops, the second restored by `HubStarts` |
| `ProcessCommands` | an action per request; it has its effect when the coordinator takes it, not when the user makes it |
| a detached worker | `process`: its task and place. A phase ends with a look at the control; the status that opens the next one, the last status and the result are steps of their own |

The hub and its workers die independently: `HubStops`, `WorkerDies`, `WorkerFails`, a launch that fails. Left out: progress, failing file
operations of the coordinator, process identifiers that are used again, what an installation does after its download (`InstallTransaction` has that), and
the refusal of a second task for an installation, which reads a snapshot: in the model `Dispatchable` alone keeps such tasks apart. The commits to the store and
the journals that one step of the coordinator writes (several phases caught up with in `ApplyStatus`, the journals and the entry of a request) are one: the hub
does not stop between them.
`doubled` is history: the tasks whose journals were made new while a worker of theirs still lived.

## Runs

| run | question | instance |
|---|---|---|
| `JobJoin` | dependencies, failures, cancellation and out-of-memory around a submission | 3 jobs in both lanes, 1 + 1 pool threads, 2 clients that submit and cancel |
| `JobShutdown` | scope and system shutdown, liveness | 3 jobs, one of which may close the system or submit and await another; a client that closes, cancels, waits |
| `JobImplements` | the contract, with liveness, and the order of strict simulation | 3 simulation jobs of which the third may await the others, capacity 2, 2 workers, a completion function, the mode switched at any time |
| `JobStealing` | the queues | 4 jobs, 2 workers, 2 priorities, aging every 2 submissions |
| `SettingsSave` | errors and crashes at any step, changes by others at any time | 2 files, 3 contents or none, a cleanup that knows one file fewer than there are |
| `Install` | every request in any order, over faults; liveness of recovery | 2 versions with 3 paths, of which one differs, one is in one version only, one is the same; 2 faults |
| `Layers` | deferred operations, callbacks, exceptions, shutdown | 3 layers or overlays, 2 requests that wait, callbacks nested two deep |
| `Events` | dispatches, drains, disconnection, closing | 2 listeners of one type, 2 event types, 2 priorities, 1 producer, queue of 2, 3 queued events, dispatches two deep |
| `Streaming` | residency, stale handles, statistics, eviction, closing; liveness | 3 requests in 2 slots, queue of 2, 1 reader, two residents are over a budget |
| `HubTasks` | requests, deaths and stops around the journals; liveness | 2 tasks that share a package or an installation, 1 place for downloads, 2 launches, 1 request besides pauses, 1 fault |
| `CloseDeadlock`, `InstallRollback` | one sentence of the documentation or the tests each, which the code does not keep | the smallest that shows it |

Why the bounds are enough. Two dependencies and one dependent are the smallest set in which the order of two ends
around one registration matters, and with a third job in a chain a failure has to pass through a job
that never ran. A second client is the second thread that may hold a job's handle while the first
submits. One compute worker and one blocking worker already give two threads that finish jobs at the same time;
`JobImplements` has three. Symmetry is used for clients in `JobJoin` only, which has no
liveness property and whose configuration names no client. With
capacity 2 and three jobs the limit is met. In `JobStealing` a deque holds up to four jobs, more than the
aging window, and two workers are one thief and one victim. The property `AgingBoundsBypass` allows newcomers
of `priority * AgingSubmissions` submissions (less the two that separate a submission from the
moment a deque counts it): its mutant measures age by the wrong end of a deque and is caught by this instance.

`SettingsSave` needs no bound but the numbers of files and contents: saves, failures, crashes and foreign
changes are unlimited. Two files are the smallest group that can be half published, with one loop turn left on
either side; with three contents a foreign one differs from the original and the replacement. The theorems below cover every
other number.

`Install` bounds the faults, not the requests: any number of installs, commits, recoveries and uninstalls follow each
other. Two faults are a transaction that is interrupted and whose recovery is interrupted too, or a user's edit in either.
Three paths are one that an upgrade replaces, one that it adds (and a downgrade drops) and the marker, which is
verified apart. `Layers` has a layer below, between and above the one that changes; two nested callbacks are a traversal inside
the traversal that must survive it. In `Events` two listeners are the one being called and the one that
a callback inserts before or behind it, or disconnects; with three events and a queue of two the queue is full, and a drain has a rest while
a callback queues more or drains again. Both listeners have a type, which one of the two events has not; with generic ones besides, the
instance has 5,936,268 states and the properties hold on them as well. `Streaming` uses one of its two slots a second time while old handles remain, meets the capacity
of table and queue; its requests have one size, of which two fit the first budget and exceed the second. In `HubTasks` the two tasks are one that waits
for what the other holds, by package or by installation; two launches are a task whose worker is replaced, or a worker for each task; one fault is
a death of a worker, a failure, or a restart of the hub that finds workers at work. The safety properties were also explored with two requests and
two faults (26 million states), with nothing new.

`CHECK_DEADLOCK FALSE` in the job runs: when every job is over and no client makes another call, the system rests.
That nothing is stuck half-way is what the liveness properties say. In `Layers`, `Events` and `Streaming` the bounds
on layers, events and requests end a behaviour after the program has shut down. The type invariants of the jobs, the
settings, the installation and the hub are not
run but proved, and with them that `Outstanding` keeps to the capacity.

### Fairness

`Fairness` of `JobSystem` is weak fairness of each thread's own steps: a thread that is inside a call, or a worker that
finds a job, goes on. The code justifies it by the operating system's scheduler, by the 20 ms poll of idle
workers, and by mutexes that are held for finite sections only; no action needs strong fairness, because no
step a waiting thread needs is disabled again and again by others in a way that could last (the jobs are finitely
many). Job functions and completion functions are assumed to return. `Request`, the calls of user code,
gets none: a client is never obliged to do anything.

The shapes of `JobShutdown` exclude one thing: a function that waits for a job of the *other* lane, or for one
that such a job holds back. `CloseDeadlock` shows what happens then when the system closes.

`Install` assumes that a worker that runs goes on, and that recovery is requested again and again while the worker is idle, as
every installer and hub request begins with it. `Streaming` assumes that the asset workers go on with some read (weak fairness of
all of them together), and that the owner pumps every frame (`Application.cpp:448`) and finishes what it has begun. `Layers` and `Events` have
no liveness property: what their callbacks do is up to the client.

`HubTasks` assumes weak fairness of the coordinator's own steps, whose loop has a thread to itself and waits at most for its next poll, and of each
worker's operation, which its timeouts and retries bound. `SF(LaunchTimesOut)` is the clock: a launch that is looked at again and again is in the end older
than `WorkerStartupTimeout`. It is strong because the look happens at one place of the loop only. Requests, faults and the start of
the hub get none; `TasksEnd` asks nothing of a hub that is down.

## What the runs found

Each of these is a `violation` run with the sentence it contradicts quoted in `PROJECT.json`.

- `CloseDeadlock`: `Close` joins the workers before it ends the queued jobs that a worker may be waiting for.
- `InstallRollback`: a rollback whose cleanup was interrupted runs again by the journal's phase, takes the restored
  receipt for the new one, and removes the installation that it had restored (`InstallTransaction.cpp:629`).

### Met while modelling

These observations have no run of their own.

Installation. A transaction that is interrupted after its locator and before its first journal is refused by
`RecoverExisting`, and with it every later request (`InstallTransaction.cpp:1231`). A torn receipt in the destination, and a temporary
document that a crash left beside the journal, stop recovery or cleanup in the same way; the installation is consistent each
time. `RecoveryCompletes` states the cases in which a recovery does finish.

Settings. The cleanup of an interrupted staging knows four payloads (`ProjectFileTransaction.cpp:184`), the settings have become
five: a failure between `4.staged` and the journal leaves a file that every later save, and the recovery on opening,
refuses as unknown. The workspace reads two of the settings files before the document captures its baseline
(`EditorWorkspaceLayer.cpp:888`): a change by another program in between is in the baseline but not in the document, and the next save
overwrites it. A crash while a file is written into the staging directory leaves a temporary file there, which blocks staging like any
unknown file.

Layers. If `OnAttach` asks for the removal of its own layer and the client removes the layer once more before the next
boundary, the second call erases the request of the first (`Layer.cpp:175`) and both report success: the layer stays.
`RequestsSettle` exempts such layers (`repeated`).

Events. A callback's exception that leaves `DispatchQueued` drops the events that the drain had taken; a drain inside
a drain overtakes it; a listener that another thread disconnects may be called once more. `AcceptedOnce` and
`DeliveredInOrder` say exactly so.

Hub. A worker that was launched and has written no status yet is launched again by a hub that restarts, and `Resume` after `Paused`, or `Retry` after a
timeout, is accepted while the worker has yet to end (`HubWorkerCoordinator.cpp:667`), although the tests have a case "live workers
remain authoritative and are not relaunched" (`HubWorkerCoordinatorTests.cpp:968`). Two workers then share one task's files. TLC found the
worst of it: the first worker's late `Paused` overwrites the `Completed` of the second; the task stays in Verifying for ever, each poll reports "Worker
paused from an invalid task phase", and the result makes reconciliation take the worker for alive. The properties except such tasks (`doubled`). A
worker that is at Verifying when the hub first reads its status is failed for an unexpected phase (`:782`), and one
that ends between the hub's look for the status and for the result is failed for a result without status, though it has completed. A requeued download whose dead
worker's status remains is failed when it may not be dispatched just then, where `Docs/Architecture.md:416` promises that it is
queued. `Cancel` of a queued task makes it Cancelled at once, while a worker already launched for it that completes without a look at
its control publishes what it has. `Dispatchable` does not look at `m_Launching` (`HubTaskManager.cpp:27`), and `Dispatch` skips only the same task, so a
task that comes before another may be dispatched while the other's worker has been launched and has not reported: a paused one that is resumed, one that
waited for a third task, one created in the same second with a lesser Id. "Tasks that overlap a package are not dispatched together, and mutations
sharing an installation ID are serialized" (`Docs/Architecture.md:415`) holds of one round of dispatches and of claimed tasks, and so
`OverlapsKeptApart` states it; in this case both processes run until the status of one is refused. The run reaches it: its second pair is
dispatched in the other order than queued. A file of the coordinator that cannot be prepared fails the task without telling a living worker
(`HubWorkerCoordinator.cpp:729`). `SubmitQueue` does not see the commands between the swap of the queue and the next snapshot, so its
refusal of a second task for an installation can miss one; `Dispatchable` still keeps them apart.

Jobs. A dependent that requires success runs although a dependency was cancelled, unless the cancellation came last
(`JobSystem.cpp:231` records the null exception of a cancelled job), while `Docs/Architecture.md:391` says that cancellation propagates. A
worker in `Wait` that finds no work sleeps without a limit (`:515`): work that becomes ready later is not executed by it, and
with one worker by nobody. Newcomers in a worker's own deque overtake an aged job elsewhere without a bound (`:317`).
Strict simulation keeps a chain of dependencies; when a link is cancelled while its
predecessor is unfinished, its successor may overtake the predecessor (`JobImplements` cancels nothing). A registration that
throws marks the job registered, and a dependency that ends before `FinishJob` claims the job queues it with the
dependencies attached so far (`DependenciesFirst` exempts such jobs). A failure that precedes `Submit` is recorded whatever the policy
(`JobSystem.cpp:668`), one that follows only if the policy requires success (`:228`), so an `ObserveCompletion` job
reports a failure after it has succeeded in one order and not in the other. And `Queued` may be decremented by a
worker's `FinishJob` before `Enqueue`, which has set the status, increments it, so `Statistics()` may report a huge
number of queued jobs; `CountersAgree` states exactly by how much the counters and the states may differ.

## Proofs

`JobSystemProofs` first proves, for any number of jobs, threads, clients, completion functions, any capacity and any
shapes (under `JobSystemAssumption`, which says only what kind of value each constant is):

- `TypeCorrect`: every field stays in range, among them `Outstanding <= QueueCapacity` (a `Submit` about to be refused apart);
- `QueuedAfterDependencies`: `DependenciesFirst`;
- `DependencyInvariant`: the inductive invariant that both follow from.

`DependenciesFirst` is not inductive, because the reason why a job may be queued lies in calls in progress. `DependencyInv`
says of each frame, on whatever stack and however deep, what it may assume about its job: a `Submit` that has gone through
some dependencies has each of them over or in `blockedBy` (`Attached`), and it is the only `Submit`; an
`Enqueue` about to publish and an `Execute` have a job that nothing blocks (`Ready`); a `FinishJob` past its claim has a
job that is over; nobody refers to a job that has no number yet. Together with `JobsOK` (queued and running
jobs are `Ready`, registered jobs `Attached`) it is preserved because status only progresses to an end, `blockedBy` shrinks only by
jobs that are over, and `registered` only grows. These three facts are `Progress`; `ProgressBelow` shows once
that a step with `Progress` leaves every frame but the one that moves justified, and the lemma of an action
then concerns its own frame only. `SteadyStep` and `StackOnly` are the shorter way for the many actions that
change no status. TLC checked `DependencyInv` on the instances of `JobJoin` and `JobShutdown` before it was proved.

`MayRunOut`, the jobs whose registration may throw, are exempt from the theorem as they are from
`DependenciesFirst`.

Its second part, from "Places" on, starts from `DependencyInvariant`, under the same assumption and for all values of the constants:

- `FunctionsOutliveCalls`: `FunctionOutlivesCall`;
- `FailuresStopDependents` and `FailuresOriginate`: `FailureStopsDependents`, `FailureOriginates`;
- `CloseDrainsJobs` and `ScopeDrainsJobs`: `CloseDrains`, `ScopeDrains`;
- `CountersAreExact`: `CountersAgree`;
- `StrictJobsInOrder`: while nothing disturbs the strict jobs, `StrictOrder`;
- `CallbacksRunOnce`: no completion function runs twice, and none of a job that is not over;
- `SchedulerKeepsContract`: as long as the system is calm, every step is one of `JobContract` or none.

None is inductive, and always because the missing half is in the middle of some thread's stack. Each has therefore an
invariant that says who is responsible for a job at each moment, and shows that responsibility is handed on
and never shared. `ExecutionInvariant`: a job that nothing blocks and that is registered is claimed by exactly one call or queue: the `Submit`
or `FinishJob` about to enqueue it, then the queue, then the `Execute` that has taken it, then a `FinishJob` before its own
claim. It gives the function's lifetime at once. `FailureInvariant` follows the exception along that chain, from the
`Execute` that catches it to the last dependent it is noted for. `CountInvariant` writes each counter as the number of
such claims, by cardinalities of sets of jobs; `DrainInvariant` says that what a scope or a close still waits for is
counted, `OrderInvariant` that the chain of predecessors between strict jobs never breaks. `Undisturbed` says that
no strict job has been cancelled and no registration of one has thrown: a cancelled strict job is over at once,
and lets its successors overtake those that it waited for, which is what the code does. `CallbackInvariant` says which `FinishJob` has taken a job's completion functions and which
of them it still has to call. The contract's liveness is not part of the theorem.

`JobQueueProofs` proves, for any lanes, priorities and number of jobs (under `JobQueueAssumption`), `QueueInvariant`, from it
`EachJobTakenOnce` (`EachJobOnce`) and `AgingBounds` (`AgingBoundsBypass`). A job that waits is at one position of one deque,
and no other is there. The bound on bypasses is about the choice of a priority: nothing is taken from a shared
queue before a waiting job unless it counts for more than the front of the job's deque, or as much and is older. Something younger is
therefore taken only while that front has not aged to `Critical`, and then its arrival lies in a window after the job's. Minima and
the pigeon-hole principle are inductions; since the provers cannot use the library's induction theorems, they take a smallest
counterexample, by the well-foundedness of strict inclusion between finite sets (`LeastNumber`).

`SettingsProofs` proves, for any number of files, any contents and either setting of the three flags (under
`SettingsAssumption`):

- `SaveIsAllOrNothing`, `BackupsSurvive`, `BaselineStaysTrue`: the invariants `AllOrNothing`, `BackupsKept`, `BaselineHolds`;
- `ForeignEditsSurvive`: the action property `ForeignEditsKept`;
- `TransactionImplementsStore`: every step maps to a step of `SettingsStore` or to none; and `TransactionTyped`.

All follow from `TransactionInvariant`. Its invariant adds to the properties what each place in the code knows: where a
journal can be prepared (`JournalInStep`), how far staging, publication and rollback have come (`Staging`, `Progress`), that the
baseline is the journal's original while a save is open (`Agreement`), and that what was seen is still there unless `raced`
(`Watched`). `AllOrNothing` alone is not inductive: that the commit finds every file replaced depends on how the loop got
there, and that a rollback restores the originals depends on backups no cleanup has touched. `TypeOK` is proved apart from the
rest, with the flags for Zenon and everything else for SMT. TLC checked the invariant on the instance of `SettingsSave` first.

`InstallProofs` proves, for any number of files, any versions and packages, and any number of faults (under
`PathAssumption`, `ValueAssumption`, `PackageAssumption`, `BoundAssumption` and `JournalAssumption`):

- `TypeCorrect`: the type invariant;
- `CommittedHolds`: the action property `CommittedStays`, after the commit only the cleanup is left to do;
- `ForeignStays`: `ForeignKept`, no step removes or replaces a file that a user has written;
- `BackupStays`: `BackupKept`, a file leaves the backup only for the destination, unless the transaction has committed.

- `AllOrNothingHolds`, `PreviousStaysRecoverable`, `DecisionsHold`: `AllOrNothing`, `PreviousRecoverable` and the action property `DecisionHolds`,
  which are about what a crash and a later recovery leave.

The first four follow from `InstallInvariant`, whose parts say what the worker may assume at each place: that the request,
the journal in memory and the receipt in hand are there and are of the kind that the step needs (`RequestKnown`, `JournalKnown`,
`ReceiptKnown`), that trees and journal exist only inside of an open transaction (`Opened`), that a committed journal
meets the worker only in recovery, commit and cleanup (`CommittedPlaces`), and what the backup can hold (`BackedUp`). The last two are why the properties are
not inductive by themselves: that the cleanup removes a backup with nothing in it, unless committed, depends on the restoration having gone
through the whole inventory, which depends on the backup holding only files of the receipt beside it, and that on the
order in which files and receipt were moved there. TLC checked the invariant on the instance of `Install` first.

The last three need `RecoveryInvariant`, which adds for every place where the worker can crash what the next
recovery relies on. Path by path, the previous installation is either in the destination or in the backup
(`OldApart`, `OldReceipt`) until the journal says that the backup has been moved. From then on it is whole in the backup, and the
destination holds nothing but new files (`DeepKept`, with `OldSaved` and `NewPartly`). A rollback first empties the destination of
those (`Vacant`) and then restores file by file; a commit leaves the new files and their receipt in place (`CommittedStands`). The parts are
named for the stage of the worker that they speak about: `BackupGoes`, `RemovalGoes`, `ActivationGoes`, `WritesGo`, `RollbackGoes`, `RestorationGoes`,
`CleanupGoes`; `JournalsAgree` relates the journal in memory to the one on disk, `Untouched` says that nothing has moved before the journal
allows it. The lemma `Rests` shows that what any of these stages leaves when it is interrupted suffices for the recovery to
start from. Interruptions that somebody else has `disturbed`, with files of their own in the way, are exempt as they are from the
properties. TLC checked `RecoveryInv` on the 978,295 states of the instance of `Install` before it was proved.

`LayerProofs` proves, for any number of layers and any depth (under `BoundsAssumption`): `LayerInvariant` and from it
`CursorsStayValid` (`CursorsValid`), `LayersLive` (`LifeOfLayers`) and `RequestsDoSettle` (`RequestsSettle`). Only dispatches
nest, so every question about what runs now is one about the outermost callback (`Root`): it decides whether layers can move, and while a
dispatch is outermost nothing does, so that all cursors below stay at their layers. That a layer is attached once
rests on an addition being the first request for its layer, and that the overlays stay behind on `Base`, the layers that are none. The answers to the requests
are right in every state (`AnswersHold`), and a step of a boundary only applies what had been asked before it began (`BoundariesWait`).

`HubTaskProofs` proves, for any number of tasks, of places for downloads, of launches, requests and faults, and any order of creation (under
`CountAssumption` and `ShapeAssumption`):

- `TypeCorrect`: the type invariant;
- `OverlapsApart`: `OverlapsKeptApart`, with `TasksApart` for its half about states, `ActiveApart`;
- `StraysTold` and `CompletionsKept`: `StraysAreTold`, `CompletionsRemembered`;
- `CompletionsStand`: the action property `CompletionsWin`;
- `JournalsKept`: the inductive invariant of the last three.

`ActiveApart` is inductive with the types, because a task is claimed only while it is dispatchable, and the scan of the queue has compared it with every claimed
task and every earlier dispatchable one. `Dispatchable` names its set by what holds of it: a task is in it exactly if it can start beside the earlier ones
in it. `CreatedOrder` says that `Earlier` is a total order, and `GreedyExists` and `DispatchableGreedy` that there is such a set.
`OverlapsApart` needs in addition that only a dispatch launches (`LaunchedByDispatch`).

`HubInv` says of every task outside `doubled` that at most one process lives for it, and that a status on the disk is then that process's (`WorkerInv`); that
a result has the status it belongs to (`ResultInv`); that a claimed task and what the hub has just read name the worker of the status on the disk (`ClaimInv`, `SeenInv`); and that
completed tasks have their result on the disk and in the coordinator (`DoneInv`). `WorkerInv` also says that a worker that may still stop is awaited, followed or told
to cancel, which is `StraysAreTold`.

`StreamingProofs` proves, for any classes, sizes, budgets, capacities and numbers of readers and requests (under
`StreamingAssumption`):

- `HandlesStay`, `ReadsStayAwaited`: `HandlesStayTheirs`, `ReadsAreAwaited`, from `TableInvariant`;
- `StatisticsStayRight`: `StatisticsAgree`, with `StatisticsInv`;
- `EvictionTakesLeast`: the action property `EvictsLeastRecent`;
- `EndedStayEnded`: `EndedStays`, the half of `RequestsEnd` that is about single steps.

That a handle reaches its own request only is not inductive: it rests on every handle returned being another one, and that on
the generation of a slot that is free being beyond those of all handles issued for it (`IssuedOK`). The invariant of the reads (`ReadsOK`)
adds that one which no worker has taken is not over (`QueuedReads`): the reads that nobody awaits stay cancelled until they leave the queue. `TouchesOK`, by which no two
requests have been touched at the same time, makes "least recent" mean one request.

The statistics are sums over the slots of a class, and each operation moves one request from one sum to another: `RequestedAgrees`
and its like say so once, for any sums, and the lemma of an operation finds which of them is its own. `Pump` and
`EvictToBudgets` go over a set of requests, as folds. An induction is out of reach, so the proofs take the fold for a function on the
subsets that adds one member at a time, which exists (`CombinesExist`), and consider a smallest subset on which the claim fails
(`SmallestSet`). For the eviction, the victims are a beginning of the candidates in the order of their touches, because what is left over
the budget only shrinks as more are taken (`SumGrows`). TLC checked `TableInv` and `StatisticsInv` on the instance of `Streaming`.

`EventProofs` proves, for any types, priorities, threads, capacity of the queue, number of listeners and depth (under `BusAssumption`):

- `TraversalsDoStay`: `TraversalsStay`;
- `EventsTakenOnce`: `AcceptedOnce`;
- `ListenersCalledInOrder`: the action property `DeliveredInOrder`, all three conjuncts;
- `BusInvariant`: the inductive invariant, `ListInv` and `QueueInv`, from which they follow.

`ListInv` adds to `TraversalsStay` why it lasts: the list is sorted and holds everybody who is connected (`ListOK`), every
call below the innermost one is in a callback or between two events of a drain (`StackOK`), so that only the innermost one can have
a listener that it has found and not called yet (`FoundOK`), and a bus that is closed has nobody connected or is in the middle of the `Close` that
disconnects them (`ClosingOK`). Because the list is sorted, what lies ahead of a traversal's iterator is exactly what is due by
priority and registration (`AheadIsDue`), wherever new listeners have been inserted meanwhile. `QueueInv` says that the queue and what the drains
have left are the pieces of one increasing list of events, the outer drains first and the queue last: an event is taken once because
numbers in different pieces differ, and in order because the head of the innermost drain is the least of what is in the queue or in its own drain; only outer drains can hold an earlier one,
which is the exception that the property makes.

What `FinishDispatch` leaves of the list is a fold over it (`Connected`); as for the sums of `Streaming`, a smallest counterexample takes the place of
an induction (`ConnectedKeeps`). TLC checked `ListInv` and `QueueInv` on the 5,936,268 states of the instance of `Events` with generic listeners before they were proved.

Every safety invariant and every action property that a run checks is a theorem. Only model-checked, on the instances above: the
liveness properties, the liveness half of `ImplementsContract` and of `RequestsEnd` included (the prover handles neither fairness
nor `ENABLED`).

## Not modelled

- Frame loop and time: `Application.cpp` is sequential code that calls its services in a fixed order; what can go wrong in it
  is in the layers, the events and the streaming, whose models contain the calls it makes. The accumulator is floating-point arithmetic.
- Managed code generations: the script system runs on its owner's thread only (`ScriptSystemLifecycle.cpp:154` refuses any other), and what can fail
  half-way through a reload is the managed runtime, which is not in the repository's C++ code.
- Of the hub, the downloads themselves, their signatures and the services they ask.
- Asset database: except for the range reads. Its mutations stage and publish files in the manner of the settings
  transaction, which is modelled.
- The asset worker's protocol is encoding; rendering, physics, animation, effects, water and audio compute with floating-point numbers and
  call graphics and audio interfaces; scenes are tables driven by them; user interface, editor panels, hub front end, services and
  packaging are presentation, web sites and scripts.

The share of the code that the map covers is small for this reason: the repository is mostly numeric and presentational code, and
the modules stand for those parts in which an order of steps matters.
