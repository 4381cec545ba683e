------------------------------- MODULE HubTasks -------------------------------
(***************************************************************************)
(* Package tasks of the project hub: the coordinator                       *)
(* (src/KeireHubRuntime/Source/HubWorkerCoordinator.cpp) with its task     *)
(* manager and store, and the detached worker processes                    *)
(* (src/KeireHubWorker/Source/Main.cpp) that download, install and remove. *)
(*                                                                         *)
(* The two sides share files only: per task a control that the hub writes, *)
(* a status and a result that workers write.  Each file is replaced        *)
(* atomically.  The store and these files outlive the hub; the workers do  *)
(* as well.  The coordinator is one thread that goes through the same      *)
(* steps over and over; a request of the user waits in m_Commands without  *)
(* an effect, so it arrives here when the coordinator takes it.            *)
(*                                                                         *)
(* Left out: progress, failing file operations of the coordinator (in      *)
(* PollJournals and Dispatch they fail the task without a word to a worker *)
(* that lives), process identifiers that are used again, and the refusal   *)
(* of a task whose installation has one already (SubmitQueue reads a       *)
(* snapshot for that; here Dispatchable alone keeps tasks apart).  The hub *)
(* stops between two steps of its coordinator, never between the commits   *)
(* and the journals of one.  What an installation does after its download  *)
(* is one phase, Installing; a repair is an installation.                  *)
(***************************************************************************)
EXTENDS Naturals, FiniteSets

CONSTANTS
    TaskCount,        \* tasks are numbered in the order they are queued
    Shapes,           \* what each task is, by choice: kind, packages, target, created
    MaximumDownloads, \* MaximumConcurrentDownloads
    MaxLaunches,      \* bound on the worker processes ever launched
    MaxRequests,      \* bound on the user's requests, pauses apart
    MaxFaults,        \* bound on deaths of workers, failures and stops of the hub
    None

Tasks == 1..TaskCount
Launches == 1..MaxLaunches   \* also the process identifiers

(* What a status or a result can say; a Fatal failure may not be retried. *)
Words ==
    {"Downloading", "Verifying", "Installing", "Removing", "Paused", "Completed", "Failed", "Fatal", "Cancelled"}

ASSUME CountAssumption ==
    /\ TaskCount \in Nat \ {0} /\ MaximumDownloads \in 1..8
    /\ MaxLaunches \in Nat /\ MaxRequests \in Nat /\ MaxFaults \in Nat
    /\ None \notin Nat \cup Words \cup [state : Words, worker : Nat]
ASSUME ShapeAssumption ==
    \A s \in Shapes, t \in Tasks :
        /\ s[t].kind \in {"Download", "Install", "Remove"}
        /\ s[t].kind = "Remove" <=> s[t].packages = {}
        /\ s[t].kind = "Download" <=> s[t].target = None
        /\ s[t].created \in Tasks /\ \A u \in Tasks \ {t} : s[u].created # s[t].created

VARIABLES
    shape,
    \* What the hub keeps on the disk, and what it shares with the workers.
    store,       \* per task its state, its worker, whether its failure may be retried
    status,      \* per task the last status: a state, and the process that wrote it
    result,      \* per task the result: how the operation ended
    control,     \* per task what its worker is told
    \* The coordinator.
    pc,          \* its place in Run
    at,          \* the task that PollJournals has reached
    seen,        \* the status it has read of that task
    ready,       \* it has reconciled the workers once
    launching,   \* m_Launching
    completed,   \* m_VerifiedDownloads, m_CompletedEditorInstalls and -Removals
    \* The worker processes.
    process,     \* per launch its task, its place, the outcome it is to report
    \* Bounds, and what the properties remember.
    requests, faults,
    doubled      \* tasks whose journals were made new while a worker of theirs lived

journals == <<status, result, control>>
hub == <<pc, at, seen, ready, launching, completed>>
ghosts == <<requests, faults, doubled>>
vars == <<shape, store, journals, hub, process, ghosts>>

Stored(t) == store[t].state \notin {"Absent", "Dismissed"}
IsTerminal(state) == state \in {"Completed", "Failed", "Cancelled"}
Active(t) == store[t].state \in {"Downloading", "Verifying", "Installing", "Removing", "Cancelling"}

(* WorkerPhases, the states in which a claimed task follows its worker. *)
PhaseIndex == [Downloading |-> 1, Verifying |-> 2, Installing |-> 3, Removing |-> 4]
Phases == DOMAIN PhaseIndex

InitialState(t) == IF shape[t].kind = "Remove" THEN "Removing" ELSE "Downloading"

(* Two tasks that share a package, or change the same installation. *)
Overlap(t, u) ==
    \/ shape[t].packages \cap shape[u].packages # {}
    \/ shape[t].target # None /\ shape[t].target = shape[u].target

(* By CreatedUnixSeconds, then by Id: neither a second that two tasks share   *)
(* nor a clock that is set back keeps the order in which they were queued.    *)
Earlier(t, u) == shape[t].created < shape[u].created

Entry(state, worker) == [state |-> state, worker |-> worker, retry |-> FALSE]
Failed(retry) == [state |-> "Failed", worker |-> None, retry |-> retry]
Unclaimed(state) == Entry(state, None)

Init ==
    /\ shape \in Shapes
    /\ \E n \in 1..TaskCount :
          store = [t \in Tasks |-> Unclaimed(IF t <= n THEN "Queued" ELSE "Absent")]
    /\ status = [t \in Tasks |-> None] /\ result = [t \in Tasks |-> None]
    /\ control = [t \in Tasks |-> "Continue"]
    /\ pc = "down" /\ at = 0 /\ seen = None /\ ready = FALSE
    /\ launching = {} /\ completed = {}
    /\ process = [w \in {} |-> None]
    /\ requests = 0 /\ faults = 0 /\ doubled = {}

Fault == faults < MaxFaults /\ faults' = faults + 1
Live(w) == process[w].place # "gone"
WorkersOf(t) == {w \in DOMAIN process : process[w].task = t /\ Live(w)}

(* What holds its packages and its installation, by the state alone. *)
LockedUnlessCancelling == {t \in Tasks : Active(t) /\ store[t].state # "Cancelling"}
Locked == {t \in Tasks : Active(t)}

(* HubTaskManager::Dispatchable: the queued tasks that may start, the earlier *)
(* first, each apart from all that are active or chosen before it.            *)
Downloads == {t \in Tasks : store[t].state = "Downloading"}
Starts(t, before) ==
    /\ store[t].state = "Queued"
    /\ \A u \in before \cup Locked : ~Overlap(t, u)
    /\ InitialState(t) = "Downloading" =>
          Cardinality(Downloads \cup {u \in before : InitialState(u) = "Downloading"}) < MaximumDownloads

Dispatchable ==
    CHOOSE chosen \in SUBSET Tasks :
        \A t \in Tasks : t \in chosen <=> Starts(t, {u \in chosen : Earlier(u, t)})

(***************************************************************************)
(* PollJournals, one task after the other: the status first, then the      *)
(* result; the worker may write between the two.                           *)
(***************************************************************************)

NextStored(t) == {u \in Tasks : u > t /\ Stored(u) /\ \A v \in Tasks : v > t /\ Stored(v) => u <= v}

(* The poll goes on behind t, or is over. *)
PollAfter(t) ==
    /\ seen' = None
    /\ IF NextStored(t) = {} THEN pc' = "reconcile" /\ at' = 0
                             ELSE pc' = "poll" /\ at' \in NextStored(t)

(* FailTask: the worker, if there is one, is told to stop; a paused task    *)
(* cannot fail.                                                             *)
FailTaskSilently(t) ==
    IF store[t].state = "Paused" THEN UNCHANGED <<store, launching, control>>
    ELSE /\ store' = [store EXCEPT ![t] = Failed(TRUE)]
         /\ launching' = launching \ {t} /\ UNCHANGED control

FailTask(t) ==
    /\ control' = [control EXCEPT ![t] = "Cancel"]
    /\ IF store[t].state = "Paused" THEN UNCHANGED <<store, launching>>
       ELSE /\ store' = [store EXCEPT ![t] = Failed(TRUE)]
            /\ launching' = launching \ {t}

(* ApplyStatus. *)
ApplyStatus(t, s) ==
    LET state == store[t].state
        enter(entry) == store' = [store EXCEPT ![t] = entry] /\ UNCHANGED <<control, launching>>
        ignore == UNCHANGED <<store, control, launching>>
    IN IF store[t].worker \notin {None, s.worker} THEN FailTask(t)
       ELSE CASE state = "Queued" /\ IsTerminal(s.state) -> ignore
              [] state = "Queued" /\ ~IsTerminal(s.state) ->
                    IF t \in Dispatchable /\ s.state = InitialState(t)
                    THEN /\ store' = [store EXCEPT ![t] = Entry(s.state, s.worker)]
                         /\ launching' = launching \ {t} /\ UNCHANGED control
                    ELSE FailTask(t)
              [] state = "Cancelling" -> ignore
              [] state \in Phases /\ s.state = "Paused" ->
                    IF state = "Downloading" THEN enter(Unclaimed("Paused")) ELSE ignore
              [] state \in Phases /\ s.state \in Phases ->
                    IF PhaseIndex[s.state] > PhaseIndex[state]
                    THEN enter(Entry(s.state, store[t].worker)) ELSE ignore
              [] state \in Phases /\ IsTerminal(s.state) -> ignore
              [] state = "Paused" -> IF s.state \in Phases THEN FailTask(t) ELSE ignore

PollStatus ==
    /\ pc = "poll"
    /\ IF IsTerminal(store[at].state)
       THEN /\ launching' = IF result[at] # None THEN launching \ {at} ELSE launching
            /\ PollAfter(at)
            /\ UNCHANGED <<store, control>>
       ELSE /\ seen' = status[at] /\ pc' = "result" /\ at' = at
            /\ IF status[at] = None THEN UNCHANGED <<store, control, launching>>
                                    ELSE ApplyStatus(at, status[at])
    /\ UNCHANGED <<shape, status, result, ready, completed, process, ghosts>>

(* ApplyResult for a task that is claimed, or paused. *)
Outcome(entry, outcome) ==
    CASE entry.state = "Cancelling" -> Unclaimed(IF outcome = "Completed" THEN "Completed" ELSE "Cancelled")
      [] entry.state \in Phases /\ outcome = "Completed" -> Unclaimed("Completed")
      [] entry.state = "Downloading" /\ outcome = "Paused" -> Unclaimed("Paused")
      [] outcome = "Cancelled" -> Unclaimed("Cancelled")
      [] entry.state \in Phases /\ outcome \in {"Failed", "Fatal"} -> Failed(outcome = "Failed")
      [] OTHER -> entry   \* a protocol error, which is only reported

ApplyResult(t, outcome) ==
    LET claimable == /\ seen # None /\ t \in Dispatchable
                     /\ seen.state = InitialState(t) \/ IsTerminal(seen.state)
        settle(entry) ==
            /\ store' = [store EXCEPT ![t] = Outcome(entry, outcome)]
            /\ completed' = IF Outcome(entry, outcome).state = "Completed" THEN completed \cup {t} ELSE completed
            /\ launching' = launching \ {t}
            /\ UNCHANGED control
    IN CASE IsTerminal(store[t].state) ->
              launching' = launching \ {t} /\ UNCHANGED <<store, control, completed>>
         [] store[t].state = "Queued" /\ ~claimable -> FailTask(t) /\ UNCHANGED completed
         [] store[t].state = "Queued" /\ claimable -> settle(Entry(InitialState(t), seen.worker))
         [] OTHER -> settle(store[t])

PollResult ==
    /\ pc = "result"
    /\ IF result[at] = None THEN UNCHANGED <<store, control, launching, completed>>
                            ELSE ApplyResult(at, result[at])
    /\ PollAfter(at)
    /\ UNCHANGED <<shape, status, result, ready, process, ghosts>>

(***************************************************************************)
(* The rest of the coordinator's loop.                                     *)
(***************************************************************************)

(* Whatever comes next, PollJournals starts from the first stored task. *)
PollFirst == PollAfter(0)

(* ReconcileWorkers and HasPendingWorkerResult: a claimed task whose worker *)
(* is dead and has left no result.  The probe of the process comes first,   *)
(* so no result appears between the two.                                    *)
AbandonedWithoutWorker(t) == Active(t) /\ ~Live(store[t].worker)

AbandonedButCancelling(t) ==
    Active(t) /\ ~Live(store[t].worker) /\ result[t] = None /\ store[t].state # "Cancelling"

Abandoned(t) == Active(t) /\ ~Live(store[t].worker) /\ result[t] = None

Reconciled ==
    [t \in Tasks |->
        IF ~Abandoned(t) THEN store[t]
        ELSE CASE store[t].state = "Downloading" -> Unclaimed("Queued")
               [] store[t].state = "Cancelling" -> Unclaimed("Cancelled")
               [] OTHER -> Failed(TRUE)]

(* When the hub starts; PollJournals follows once more. *)
ReconcileFirst ==
    /\ pc = "reconcile" /\ ~ready
    /\ store' = Reconciled
    /\ ready' = TRUE
    /\ PollFirst
    /\ UNCHANGED <<shape, journals, launching, completed, process, ghosts>>

(* In the loop: Reconcile, and CheckLaunchTimeouts behind it, for which any  *)
(* of the launches may be older than WorkerStartupTimeout.  One step: what   *)
(* workers do between the two they may as well do before or after both.      *)
Reconcile ==
    /\ pc = "reconcile" /\ ready
    /\ \E late \in SUBSET launching :
          LET failing == {t \in late : Reconciled[t].state = "Queued"} IN
          /\ store' = [t \in Tasks |-> IF t \in failing THEN Failed(TRUE) ELSE Reconciled[t]]
          /\ control' = [t \in Tasks |-> IF t \in failing THEN "Cancel" ELSE control[t]]
          /\ launching' = launching \ late
    /\ pc' = "commands"
    /\ UNCHANGED <<shape, status, result, at, seen, ready, completed, process, ghosts>>

(* Dispatch.  A launch may fail; all of them do once MaxLaunches are used.  *)
(* The failures before it, of files, are left out.                         *)
Dispatch ==
    /\ pc = "commands"
    /\ \E started \in SUBSET (Dispatchable \ launching) :
          LET due == Dispatchable \ launching
              used == Cardinality(DOMAIN process)
              pid(t) == used + Cardinality({u \in started : u <= t})
          IN
          /\ used + Cardinality(started) <= MaxLaunches
          /\ IF started = due \/ used + Cardinality(due) > MaxLaunches THEN UNCHANGED faults ELSE Fault
          /\ store' = [t \in Tasks |-> IF t \in due \ started THEN Failed(TRUE) ELSE store[t]]
          /\ status' = [t \in Tasks |-> IF t \in due THEN None ELSE status[t]]
          /\ result' = [t \in Tasks |-> IF t \in due THEN None ELSE result[t]]
          /\ control' = [t \in Tasks |-> IF t \in due THEN "Continue" ELSE control[t]]
          /\ process' = [w \in DOMAIN process \cup {pid(t) : t \in started} |->
                            IF w \in DOMAIN process THEN process[w]
                            ELSE [task |-> CHOOSE t \in started : pid(t) = w, place |-> "start", outcome |-> None]]
          /\ launching' = launching \cup started
          /\ doubled' = doubled \cup {t \in due : WorkersOf(t) # {}}
    /\ PollFirst
    /\ UNCHANGED <<shape, ready, completed, requests>>

(***************************************************************************)
(* ProcessCommands: the requests of the user that it does not refuse.      *)
(***************************************************************************)

Request == pc = "commands" /\ requests < MaxRequests /\ requests' = requests + 1
OnlyStore == UNCHANGED <<shape, status, result, hub, process, faults, doubled>>

(* The state of t changes, its journals are as new (Queue, ResetForDispatch). *)
Enqueue(t) ==
    /\ store' = [store EXCEPT ![t] = Unclaimed("Queued")]
    /\ status' = [status EXCEPT ![t] = None] /\ result' = [result EXCEPT ![t] = None]
    /\ control' = [control EXCEPT ![t] = "Continue"]
    /\ doubled' = IF WorkersOf(t) # {} THEN doubled \cup {t} ELSE doubled
    /\ UNCHANGED <<shape, hub, process, faults>>

Queue(t) ==
    /\ Request
    /\ store[t].state = "Absent" /\ \A u \in Tasks : u < t => store[u].state # "Absent"
    /\ Enqueue(t)

Pause(t) ==
    /\ pc = "commands" /\ control[t] # "Pause"
    /\ store[t].state = "Downloading"
    /\ control' = [control EXCEPT ![t] = "Pause"]
    /\ UNCHANGED <<store, requests>> /\ OnlyStore

Resume(t) ==
    /\ Request
    /\ store[t].state = "Paused" /\ t \notin launching
    /\ Enqueue(t)

Retry(t) ==
    /\ Request
    /\ store[t].state = "Failed" /\ store[t].retry /\ t \notin launching
    /\ Enqueue(t)

Cancel(t) ==
    /\ Request
    /\ Stored(t) /\ ~IsTerminal(store[t].state)
    /\ control' = [control EXCEPT ![t] = "Cancel"]
    /\ store' = [store EXCEPT ![t] =
                    IF @.state \in {"Queued", "Paused"} THEN Unclaimed("Cancelled")
                                                        ELSE Entry("Cancelling", @.worker)]
    /\ OnlyStore

(* OwnsRetryableRemovalRecovery: such a task is only hidden. *)
Dismissible(t) == IsTerminal(store[t].state) /\ ~(shape[t].kind = "Remove" /\ store[t].retry)

Dismiss(t) ==
    /\ Request
    /\ Dismissible(t)
    /\ store' = [store EXCEPT ![t] = Unclaimed("Dismissed")]
    /\ UNCHANGED control /\ OnlyStore

ClearFinished ==
    /\ Request
    /\ \E t \in Tasks : Dismissible(t)
    /\ store' = [t \in Tasks |-> IF Dismissible(t) THEN Unclaimed("Dismissed") ELSE store[t]]
    /\ UNCHANGED control /\ OnlyStore

Requests ==
    \/ \E t \in Tasks : Queue(t) \/ Pause(t) \/ Resume(t) \/ Retry(t) \/ Cancel(t) \/ Dismiss(t)
    \/ ClearFinished

(***************************************************************************)
(* The hub starts, restores what was completed, and stops at any time.     *)
(***************************************************************************)

(* RestoreCompletedOperations. *)
RestoredDownloads ==
    {t \in Tasks : store[t].state = "Completed" /\ result[t] = "Completed" /\ shape[t].kind = "Download"}

Restored == {t \in Tasks : store[t].state = "Completed" /\ result[t] = "Completed"}

HubStarts ==
    /\ pc = "down"
    /\ completed' = Restored
    /\ PollFirst
    /\ UNCHANGED <<shape, store, journals, ready, launching, process, ghosts>>

HubStops ==
    /\ pc # "down"
    /\ Fault
    /\ pc' = "down" /\ at' = 0 /\ seen' = None /\ ready' = FALSE
    /\ launching' = {} /\ completed' = {}
    /\ UNCHANGED <<shape, store, journals, process, requests, doubled>>

(***************************************************************************)
(* The worker processes.                                                   *)
(***************************************************************************)

KindOf(w) == shape[process[w].task].kind
Publish(w, state) == status' = [status EXCEPT ![process[w].task] = [state |-> state, worker |-> w]]
Enter(w, place) == process' = [process EXCEPT ![w].place = place]
Leave(w) == process' = [process EXCEPT ![w].place = "gone", ![w].outcome = None]
Finish(w, outcome) == process' = [process EXCEPT ![w].place = "end", ![w].outcome = outcome] /\ UNCHANGED status
OnlyWorker == UNCHANGED <<shape, store, control, hub, ghosts>>

(* The phase after each; the operation is carried out in the last one. *)
NextPhase(kind, place) ==
    CASE place = "Downloading" -> IF kind = "Install" THEN "Installing" ELSE "Verifying"
      [] place \in {"Installing", "Removing"} -> "publishing"

(* A phase ends with a look at the control, but for the digest of a download. *)
Looks(w) == process[w].place \in Phases \ {"Verifying"}
Told(w) ==
    LET told == control[process[w].task] IN
    CASE told = "Cancel" -> "Cancelled"
      [] told = "Pause" /\ process[w].place = "Downloading" -> "Paused"
      [] OTHER -> "Continue"

WorkerStarts(w) ==
    /\ process[w].place = "start"
    /\ Publish(w, InitialState(process[w].task)) /\ Enter(w, InitialState(process[w].task))
    /\ UNCHANGED result /\ OnlyWorker

(* The last look of a phase, and the status that opens the next.  "publishing" *)
(* is entered under the status of the phase before it.                         *)
WorkerAdvances(w) ==
    /\ Looks(w)
    /\ IF Told(w) # "Continue" THEN Finish(w, Told(w))
       ELSE LET next == NextPhase(KindOf(w), process[w].place) IN
            /\ Enter(w, next)
            /\ IF next = "publishing" THEN UNCHANGED status ELSE Publish(w, next)
    /\ UNCHANGED result /\ OnlyWorker

(* The operation is carried out; or it was, before this worker began: the     *)
(* package is cached, the installation published, the root removed.           *)
WorkerCompletes(w) ==
    /\ \/ process[w].place \in {"Verifying", "publishing"}
       \/ process[w].place = InitialState(process[w].task)
    /\ Finish(w, "Completed")
    /\ UNCHANGED result /\ OnlyWorker

(* An error ends the operation; some errors may not be retried. *)
WorkerFails(w) ==
    /\ process[w].place \in Phases \cup {"publishing"}
    /\ faults < MaxFaults /\ faults' = faults + 1
    /\ \E outcome \in {"Failed", "Fatal"} : Finish(w, outcome)
    /\ UNCHANGED <<shape, store, result, control, hub, requests, doubled>>

(* CompleteInstall, WriteStopped and WriteFailure: the status, then the result. *)
WorkerReports(w) ==
    /\ process[w].place = "end"
    /\ Publish(w, IF process[w].outcome = "Fatal" THEN "Failed" ELSE process[w].outcome) /\ Enter(w, "result")
    /\ UNCHANGED result /\ OnlyWorker

WorkerWritesResult(w) ==
    /\ process[w].place = "result"
    /\ result' = [result EXCEPT ![process[w].task] = process[w].outcome]
    /\ Leave(w)
    /\ UNCHANGED status /\ OnlyWorker

WorkerDies(w) ==
    /\ Live(w)
    /\ Fault
    /\ Leave(w)
    /\ UNCHANGED <<shape, store, journals, hub, requests, doubled>>

Work(w) == WorkerStarts(w) \/ WorkerAdvances(w) \/ WorkerCompletes(w) \/ WorkerReports(w) \/ WorkerWritesResult(w)
Coordinate == PollStatus \/ PollResult \/ ReconcileFirst \/ Reconcile \/ Dispatch

Next ==
    \/ Coordinate \/ Requests \/ HubStarts \/ HubStops
    \/ \E w \in DOMAIN process : Work(w) \/ WorkerFails(w) \/ WorkerDies(w)

Spec == Init /\ [][Next]_vars

(* The coordinator goes on by itself, the clock runs, and so does a worker. *)
LaunchTimesOut(t) == t \in launching /\ Reconcile /\ t \notin launching'
FairSpec ==
    /\ Spec
    /\ WF_vars(Coordinate)
    /\ \A t \in Tasks : SF_vars(LaunchTimesOut(t))
    /\ \A w \in Launches : WF_vars(w \in DOMAIN process /\ Work(w))
=============================================================================
