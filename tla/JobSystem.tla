------------------------------ MODULE JobSystem ------------------------------
(***************************************************************************)
(* The job scheduler of KeireCore (KeireCore/Source/Jobs/JobSystem.cpp).   *)
(*                                                                         *)
(* Threads run C++ calls; a call is a frame on its thread's stack and each *)
(* action is one critical section (or one atomic store) of that call, so   *)
(* every interleaving that the per-job mutexes allow is a behaviour.       *)
(*                                                                         *)
(* Abstractions:                                                           *)
(*  - a lane's queues are one set: any ready job of the lane may be taken  *)
(*    next (the order is the subject of module JobQueue);                  *)
(*  - Dependents and RemainingDependencies are sets: a handle listed twice *)
(*    is counted twice and discounted twice in the same loop;              *)
(*  - an exception is named by the job whose body threw it;                *)
(*  - sleeping workers poll every 20 ms, so an idle worker may always look *)
(*    at its lane, while JobHandle::Wait sleeps with no time limit;        *)
(*  - at most one JobScope exists;                                         *)
(*  - the totals kept for Statistics() only are left out.                  *)
(*                                                                         *)
(* A few definitions are preceded by a variant with a longer name and one  *)
(* mistake in it, which no specification uses: PROJECT.json pairs each     *)
(* with the property that would notice the mistake.                        *)
(***************************************************************************)
EXTENDS Integers, Sequences, FiniteSets

CONSTANTS
    JobCount,        \* jobs are numbered in the order of NextId
    Workers,         \* compute worker threads
    BlockingWorkers, \* threads of the blocking lane
    Clients,         \* other threads that hold handles
    QueueCapacity,   \* JobSystemSpecification::QueueCapacity
    Deterministic,   \* JobSystemSpecification::DeterministicSimulation
    Shapes,          \* Shapes[j]: the descriptions job j may be submitted with
    ClientCalls,     \* which JobHandle, JobScope and JobSystem calls clients make
    Callbacks,       \* completion functions clients may pass to OnComplete
    MayThrow,        \* jobs whose body may throw
    MayRunOut        \* jobs whose registration may run out of memory

Jobs == 1..JobCount
None == 0
Pool == Workers \cup BlockingWorkers
Threads == Pool \cup Clients

Statuses == {"Unsubmitted", "Waiting", "Queued", "Running", "Succeeded", "Failed", "Cancelled"}
IsTerminal(s) == s \in {"Succeeded", "Failed", "Cancelled"}

(* JobDescription, and what the function does besides computing: the jobs   *)
(* it waits for, whether it closes the system, and the job whose body       *)
(* submits it (None for a client).                                          *)
Shape == [lane: {"Compute", "Blocking"}, policy: {"RequireSuccess", "ObserveCompletion"},
          needs: SUBSET Jobs, simulation: BOOLEAN, scoped: BOOLEAN,
          awaits: SUBSET Jobs, closes: BOOLEAN, parent: Jobs \cup {None}]

ASSUME JobSystemAssumption ==
    /\ JobCount \in Nat /\ QueueCapacity \in Nat \ {0}
    /\ Deterministic \in BOOLEAN
    /\ Workers \cap BlockingWorkers = {} /\ Pool \cap Clients = {}
    /\ Shapes \in [Jobs -> SUBSET Shape]
    /\ ClientCalls \subseteq {"wait", "cancel", "onComplete", "cancelScope", "waitScope", "close",
                               "setDeterministic"}
    /\ MayThrow \subseteq Jobs /\ MayRunOut \subseteq Jobs

VARIABLES
    next,            \* NextId
    shape,           \* JobState::Description
    deps,            \* Description.Dependencies with the predecessor that strict simulation adds,
                     \* kept as history when FinishJob clears the vector
    status,          \* JobState::Status
    blockedBy,       \* the dependencies RemainingDependencies counts
    dependents,      \* JobState::Dependents
    registered,      \* jobs with DependencyRegistrationComplete
    cancelRequested, \* jobs with CancellationRequested
    failure,         \* JobState::Failure
    depFailure,      \* JobState::DependencyFailure
    hasFunction,     \* jobs whose Function is not empty
    callbacks,       \* JobState::CompletionCallbacks
    callbacksDone,   \* jobs with CompletionCallbacksFinished
    queue,           \* lane -> queued jobs
    count,           \* Outstanding, Waiting, Queued and Running
    accepting,       \* Accepting
    submitter,       \* thread that owns SubmissionMutex
    deterministic,   \* DeterministicSimulation
    lastSimulation,  \* LastDeterministicSimulation
    strict,          \* history: the jobs submitted under strict simulation
    scopeJobs,       \* ScopeState::Jobs
    scopeCancelled,  \* ScopeState::Cancelled
    stop,            \* pool threads whose stop was requested
    exited,          \* pool threads that left their main loop
    asked,           \* history: the job each completion function was given to
    delivered,       \* history: how often each completion function ran
    stack            \* thread -> calls in progress, innermost first

jobVars   == <<next, shape, deps, registered, lastSimulation, strict>>
linkVars  == <<blockedBy, dependents>>
stateVars == <<status, failure, depFailure, hasFunction>>
callVars  == <<callbacks, callbacksDone, asked, delivered>>
scopeVars == <<scopeJobs, scopeCancelled>>
poolVars  == <<accepting, stop, exited, deterministic>>
vars == <<jobVars, linkVars, stateVars, callVars, scopeVars, poolVars,
          cancelRequested, queue, count, submitter, stack>>

Frame == [op: {"submit", "enqueue", "finish", "execute", "wait", "cancel", "notify",
               "cancelScope", "waitScope", "close"},
          at: {"register", "return", "claim", "publish", "settle", "release", "begin", "call",
               "body", "check", "sleep", "look", "collect", "each", "flag", "sweep"},
          job: Jobs \cup {None}, status: Statuses, was: Statuses, cause: Jobs \cup {None},
          todo: SUBSET Jobs, calls: SUBSET Callbacks]

DataType ==
    /\ next \in 1..(JobCount + 1)
    /\ shape \in [Jobs -> Shape] /\ deps \in [Jobs -> SUBSET Jobs]
    /\ status \in [Jobs -> Statuses]
    /\ blockedBy \in [Jobs -> SUBSET Jobs] /\ dependents \in [Jobs -> SUBSET Jobs]
    /\ registered \subseteq Jobs /\ cancelRequested \subseteq Jobs /\ hasFunction \subseteq Jobs
    /\ failure \in [Jobs -> Jobs \cup {None}] /\ depFailure \in [Jobs -> Jobs \cup {None}]
    /\ callbacks \in [Jobs -> SUBSET Callbacks] /\ callbacksDone \subseteq Jobs
    /\ queue \in [{"Compute", "Blocking"} -> SUBSET Jobs]
    /\ count \in [{"Outstanding", "Waiting", "Queued", "Running"} -> Int]
    /\ count["Outstanding"] <= QueueCapacity
    /\ accepting \in BOOLEAN /\ stop \subseteq Pool /\ exited \subseteq Pool
    /\ submitter \subseteq Threads
    /\ deterministic \in BOOLEAN /\ lastSimulation \in Jobs \cup {None} /\ strict \subseteq Jobs
    /\ scopeJobs \subseteq Jobs /\ scopeCancelled \in BOOLEAN
    /\ asked \in [Callbacks -> Jobs \cup {None}] /\ delivered \in [Callbacks -> Nat]

StackType == stack \in [Threads -> Seq(Frame)]
TypeOK == DataType /\ StackType

-----------------------------------------------------------------------------
(* Stack discipline: calling, stepping within a call, returning. *)

Call(op, at, j) == [op |-> op, at |-> at, job |-> j, status |-> "Unsubmitted",
                    was |-> "Unsubmitted", cause |-> None, todo |-> {}, calls |-> {}]
FinishCallBlamingTheJob(j, s, e) == [Call("finish", "claim", j) EXCEPT !.status = s, !.cause = j]
FinishCall(j, s, e) == [Call("finish", "claim", j) EXCEPT !.status = s, !.cause = e]

OnlyStackChanges == UNCHANGED <<jobVars, linkVars, stateVars, callVars, scopeVars, poolVars,
                                cancelRequested, queue, count, submitter>>

Top(t) == Head(stack[t])
At(t, op, at) == stack[t] # <<>> /\ Top(t).op = op /\ Top(t).at = at
Enter(t, f) == stack' = [stack EXCEPT ![t] = <<f>> \o @]
Become(t, f) == stack' = [stack EXCEPT ![t] = <<f>> \o Tail(@)]
BecomeAndEnter(t, f, g) == stack' = [stack EXCEPT ![t] = <<g, f>> \o Tail(@)]
Return(t) == stack' = [stack EXCEPT ![t] = Tail(@)]

InBody(t, j) == At(t, "execute", "body") /\ Top(t).job = j
Idle(t) == t \in Clients /\ stack[t] = <<>>

(* Job j's mutex is held over several steps only while Submit registers j. *)
Unlocked(j) == \A t \in Threads : At(t, "submit", "register") => Top(t).job # j

(* JobHandle::IsComplete *)
Complete(j) == IsTerminal(status[j]) /\ j \in callbacksDone

(* JobHandle::Result().Failure *)
ResultFailure(j) == IF failure[j] # None THEN failure[j] ELSE depFailure[j]

(* Submit returned a handle to j: it neither is in progress nor has thrown. *)
HasHandle(j) ==
    /\ status[j] # "Unsubmitted"
    /\ ~(status[j] = "Cancelled" /\ failure[j] = j)
    /\ \A t \in Threads : \A i \in DOMAIN stack[t] :
           stack[t][i].op = "submit" => stack[t][i].job # j

(* No shared_ptr keeps finished job j: a weak_ptr to it may have expired.   *)
UnreferencedAtAnyTime(j) == TRUE
Unreferenced(j) ==
    /\ Complete(j) /\ \A lane \in DOMAIN queue : j \notin queue[lane]
    /\ \A k \in Jobs : j \notin dependents[k] /\ (j \in deps[k] => IsTerminal(status[k]))
    /\ \A t \in Threads : \A i \in DOMAIN stack[t] :
           stack[t][i].job # j /\ j \notin stack[t][i].todo

Lane(j) == shape[j].lane
ScopeStops(j) == shape[j].scoped /\ scopeCancelled
RequiresSuccess(j) == shape[j].policy = "RequireSuccess"
(* RemainingDependencies == 0 && DependencyRegistrationComplete *)
ReadyOnceRegistered(j, blocked) == j \in registered
Ready(j, blocked) == blocked[j] = {} /\ j \in registered

(* What the dependencies say once all are over: a failure, now or earlier.  *)
DependenciesStopByLast(j, unsuccessful, recorded) == RequiresSuccess(j) /\ unsuccessful
DependenciesStop(j, unsuccessful, recorded) ==
    RequiresSuccess(j) /\ (unsuccessful \/ recorded # None)

HasRoom == count["Outstanding"] < QueueCapacity

StillPendingAlways(j) == TRUE
StillPending(j) == status[j] \in {"Waiting", "Queued", "Running"}

(* What a cancellation may end at once: Cancel, JobScope::Cancel and Close. *)
CancelEndsRunning(s) == s \in {"Waiting", "Queued", "Running"}
CancelEnds(s) == s \in {"Waiting", "Queued"}
ScopeCancelEndsRunning(s) == s \in {"Waiting", "Queued", "Running"}
ScopeCancelEnds(s) == s = "Waiting"
CloseEndsWaiting(s) == s = "Waiting"
CloseEnds(s) == ~(s = "Running" \/ IsTerminal(s))

Add(counters, key, n) == [counters EXCEPT ![key] = @ + n]

Init ==
    /\ next = 1
    /\ shape = [j \in Jobs |-> [lane |-> "Compute", policy |-> "RequireSuccess", needs |-> {},
                                simulation |-> FALSE, scoped |-> FALSE, awaits |-> {},
                                closes |-> FALSE, parent |-> None]]
    /\ deps = [j \in Jobs |-> {}]
    /\ status = [j \in Jobs |-> "Unsubmitted"]
    /\ blockedBy = [j \in Jobs |-> {}] /\ dependents = [j \in Jobs |-> {}]
    /\ registered = {} /\ cancelRequested = {} /\ hasFunction = {}
    /\ failure = [j \in Jobs |-> None] /\ depFailure = [j \in Jobs |-> None]
    /\ callbacks = [j \in Jobs |-> {}] /\ callbacksDone = {}
    /\ queue = [lane \in {"Compute", "Blocking"} |-> {}]
    /\ count = [key \in {"Outstanding", "Waiting", "Queued", "Running"} |-> 0]
    /\ accepting = TRUE /\ submitter = {}
    /\ deterministic = Deterministic /\ lastSimulation = None /\ strict = {}
    /\ scopeJobs = {} /\ scopeCancelled = FALSE
    /\ stop = {} /\ exited = {}
    /\ asked = [c \in Callbacks |-> None] /\ delivered = [c \in Callbacks |-> 0]
    /\ stack = [t \in Threads |-> <<>>]

-----------------------------------------------------------------------------
(* JobSchedulerState::Submit, under SubmissionMutex until it returns. *)

SubmitBegin(t, sh) ==
    /\ next <= JobCount /\ sh \in Shapes[next]
    /\ IF sh.parent = None THEN Idle(t) ELSE InBody(t, sh.parent)
    /\ \A d \in sh.needs : HasHandle(d)
    /\ sh.scoped => ~scopeCancelled
    /\ submitter = {} /\ accepting /\ HasRoom
    /\ LET j == next
           isStrict == deterministic /\ sh.simulation
       IN \E before \in SUBSET {lastSimulation} :
            /\ IF isStrict /\ lastSimulation # None
               THEN before = {} => Unreferenced(lastSimulation)
               ELSE before = {}
            /\ deps' = [deps EXCEPT ![j] = sh.needs \cup before]
            /\ Enter(t, [Call("submit", "register", j) EXCEPT !.todo = sh.needs \cup before])
            /\ IF isStrict THEN lastSimulation' = j /\ strict' = strict \cup {j}
                           ELSE UNCHANGED <<lastSimulation, strict>>
            /\ next' = j + 1
            /\ shape' = [shape EXCEPT ![j] = sh]
            /\ status' = [status EXCEPT ![j] = "Waiting"]
            /\ hasFunction' = hasFunction \cup {j}
    /\ count' = Add(Add(count, "Outstanding", 1), "Waiting", 1)
    /\ submitter' = {t}
    /\ UNCHANGED <<registered, linkVars, failure, depFailure, callVars, scopeVars, poolVars,
                   cancelRequested, queue>>

(* One turn of the loop over Dependencies, under both jobs' mutexes. *)
RegisterDependency(t, d) ==
    /\ At(t, "submit", "register") /\ d \in Top(t).todo
    /\ Become(t, [Top(t) EXCEPT !.todo = @ \ {d}])
    /\ LET j == Top(t).job IN
       \/ status[d] = "Succeeded" /\ UNCHANGED <<linkVars, depFailure>>
       \/ /\ status[d] \in {"Failed", "Cancelled"}
          /\ depFailure' = [depFailure EXCEPT ![j] = IF @ # None THEN @ ELSE ResultFailure(d)]
          /\ UNCHANGED linkVars
       \/ /\ StillPending(d)
          /\ dependents' = [dependents EXCEPT ![d] = @ \cup {j}]
          /\ blockedBy' = [blockedBy EXCEPT ![j] = @ \cup {d}]
          /\ UNCHANGED depFailure
    /\ UNCHANGED <<jobVars, status, failure, hasFunction, callVars, scopeVars, poolVars,
                   cancelRequested, queue, count, submitter>>

(* The rest of the registration: the scope, then what becomes of the job. *)
RegisterDone(t) ==
    /\ At(t, "submit", "register") /\ Top(t).todo = {}
    /\ LET j == Top(t).job
           back == Call("submit", "return", j)
           cancel == ScopeStops(j) \/ DependenciesStop(j, FALSE, depFailure[j])
       IN /\ registered' = registered \cup {j}
          /\ scopeJobs' = IF shape[j].scoped THEN scopeJobs \cup {j} ELSE scopeJobs
          /\ cancelRequested' = IF ScopeStops(j) THEN cancelRequested \cup {j} ELSE cancelRequested
          /\ IF blockedBy[j] # {} THEN Become(t, back)
             ELSE IF cancel THEN BecomeAndEnter(t, back, FinishCall(j, "Cancelled", depFailure[j]))
             ELSE BecomeAndEnter(t, back, Call("enqueue", "claim", j))
    /\ UNCHANGED <<next, shape, deps, lastSimulation, strict, linkVars, stateVars, callVars,
                   scopeCancelled, poolVars, queue, count, submitter>>

(* The catch (...) of the registration: FinishJob and rethrow. *)
RegisterThrows(t) ==
    /\ At(t, "submit", "register") /\ Top(t).job \in MayRunOut
    /\ registered' = registered \cup {Top(t).job}
    /\ BecomeAndEnter(t, Call("submit", "return", Top(t).job),
                      FinishCall(Top(t).job, "Cancelled", Top(t).job))
    /\ UNCHANGED <<next, shape, deps, lastSimulation, strict, linkVars, stateVars, callVars,
                   scopeVars, poolVars, cancelRequested, queue, count, submitter>>

SubmitReturn(t) ==
    /\ At(t, "submit", "return")
    /\ submitter' = {}
    /\ Return(t)
    /\ UNCHANGED <<jobVars, linkVars, stateVars, callVars, scopeVars, poolVars,
                   cancelRequested, queue, count>>

-----------------------------------------------------------------------------
(* Enqueue: the status under the job's mutex, then the counters and the queue. *)

EnqueueClaim(t) ==
    /\ At(t, "enqueue", "claim")
    /\ LET j == Top(t).job IN
       IF status[j] = "Waiting" /\ Ready(j, blockedBy)
       THEN status' = [status EXCEPT ![j] = "Queued"] /\ Become(t, [Top(t) EXCEPT !.at = "publish"])
       ELSE Return(t) /\ UNCHANGED status
    /\ UNCHANGED <<jobVars, linkVars, failure, depFailure, hasFunction, callVars, scopeVars,
                   poolVars, cancelRequested, queue, count, submitter>>

EnqueuePublish(t) ==
    /\ At(t, "enqueue", "publish")
    /\ count' = Add(Add(count, "Waiting", -1), "Queued", 1)
    /\ queue' = [queue EXCEPT ![Lane(Top(t).job)] = @ \cup {Top(t).job}]
    /\ Return(t)
    /\ UNCHANGED <<jobVars, linkVars, stateVars, callVars, scopeVars, poolVars,
                   cancelRequested, submitter>>

-----------------------------------------------------------------------------
(* FinishJob: claim the job, settle the counters, release the dependents one *)
(* by one, then run the completion functions until none is left.             *)

FinishClaim(t) ==
    /\ At(t, "finish", "claim")
    /\ LET j == Top(t).job IN
       IF IsTerminal(status[j])
       THEN Return(t) /\ UNCHANGED <<stateVars, dependents>>
       ELSE /\ status' = [status EXCEPT ![j] = Top(t).status]
            /\ failure' = [failure EXCEPT ![j] = Top(t).cause]
            /\ hasFunction' = hasFunction \ {j}
            /\ dependents' = [dependents EXCEPT ![j] = {}]
            /\ Become(t, [Top(t) EXCEPT !.at = "settle", !.was = status[j], !.todo = dependents[j]])
            /\ UNCHANGED depFailure
    /\ UNCHANGED <<jobVars, blockedBy, callVars, scopeVars, poolVars,
                   cancelRequested, queue, count, submitter>>

(* The counter that a finished job leaves. *)
CountedAsRunning(f) == "Running"
CountedAs(f) == f.was

FinishSettle(t) ==
    /\ At(t, "finish", "settle")
    /\ count' = Add(Add(count, CountedAs(Top(t)), -1), "Outstanding", -1)
    /\ Become(t, [Top(t) EXCEPT !.at = "release"])
    /\ UNCHANGED <<jobVars, linkVars, stateVars, callVars, scopeVars, poolVars,
                   cancelRequested, queue, submitter>>

FinishRelease(t, d) ==
    /\ At(t, "finish", "release") /\ d \in Top(t).todo /\ Unlocked(d)
    /\ LET rest == [Top(t) EXCEPT !.todo = @ \ {d}]
           unsuccessful == Top(t).status # "Succeeded"
       IN IF IsTerminal(status[d]) \/ blockedBy[d] = {}
          THEN Become(t, rest) /\ UNCHANGED <<blockedBy, depFailure>>
          ELSE /\ blockedBy' = [blockedBy EXCEPT ![d] = @ \ {Top(t).job}]
               /\ depFailure' = IF unsuccessful /\ RequiresSuccess(d) /\ depFailure[d] = None
                                THEN [depFailure EXCEPT ![d] = Top(t).cause] ELSE depFailure
               /\ LET cancel == \/ d \in cancelRequested
                                \/ DependenciesStop(d, unsuccessful, depFailure'[d])
                  IN IF ~Ready(d, blockedBy') THEN Become(t, rest)
                     ELSE IF cancel
                     THEN BecomeAndEnter(t, rest, FinishCall(d, "Cancelled", depFailure'[d]))
                     ELSE BecomeAndEnter(t, rest, Call("enqueue", "claim", d))
    /\ UNCHANGED <<jobVars, dependents, status, failure, hasFunction, callVars, scopeVars, poolVars,
                   cancelRequested, queue, count, submitter>>

FinishCallbacks(t) ==
    /\ At(t, "finish", "release") /\ Top(t).todo = {} /\ Top(t).calls = {}
    /\ LET j == Top(t).job IN
       IF callbacks[j] = {}
       THEN callbacksDone' = callbacksDone \cup {j} /\ Return(t) /\ UNCHANGED callbacks
       ELSE /\ callbacks' = [callbacks EXCEPT ![j] = {}]
            /\ Become(t, [Top(t) EXCEPT !.calls = callbacks[j]])
            /\ UNCHANGED callbacksDone
    /\ UNCHANGED <<jobVars, linkVars, stateVars, asked, delivered, scopeVars, poolVars,
                   cancelRequested, queue, count, submitter>>

(* A completion function runs, from FinishJob or at once from OnComplete. *)
RunCallback(t, c) ==
    /\ stack[t] # <<>> /\ c \in Top(t).calls
    /\ delivered' = [delivered EXCEPT ![c] = @ + 1]
    /\ IF Top(t).op = "notify" THEN Return(t) ELSE Become(t, [Top(t) EXCEPT !.calls = @ \ {c}])
    /\ UNCHANGED <<jobVars, linkVars, stateVars, callbacks, callbacksDone, asked, scopeVars, poolVars,
                   cancelRequested, queue, count, submitter>>

-----------------------------------------------------------------------------
(* Worker threads: take a job of their lane, execute it, leave on request. *)

TakesFrom(w) == IF w \in Workers THEN "Compute" ELSE "Blocking"

Take(w) ==
    /\ w \in Pool \ (stop \cup exited) /\ stack[w] = <<>>
    /\ \E j \in queue[TakesFrom(w)] :
          /\ queue' = [queue EXCEPT ![TakesFrom(w)] = @ \ {j}]
          /\ Enter(w, Call("execute", "begin", j))
    /\ UNCHANGED <<jobVars, linkVars, stateVars, callVars, scopeVars, poolVars,
                   cancelRequested, count, submitter>>

WorkerExit(w) ==
    /\ w \in stop \ exited /\ stack[w] = <<>>
    /\ exited' = exited \cup {w}
    /\ UNCHANGED <<jobVars, linkVars, stateVars, callVars, scopeVars, accepting, stop, deterministic,
                   cancelRequested, queue, count, submitter, stack>>

(* The locked block of Execute; a queue may still hold a job that is over. *)
ExecuteBegin(t) ==
    /\ At(t, "execute", "begin")
    /\ LET j == Top(t).job
           run == j \notin cancelRequested /\ ~ScopeStops(j)
       IN IF IsTerminal(status[j])
          THEN Return(t) /\ UNCHANGED <<status, count>>
          ELSE /\ status' = [status EXCEPT ![j] = "Running"]
               /\ count' = Add(Add(count, "Queued", -1), "Running", 1)
               /\ Become(t, IF run THEN [Top(t) EXCEPT !.at = "call"]
                                   ELSE FinishCall(j, "Cancelled", None))
    /\ UNCHANGED <<jobVars, linkVars, failure, depFailure, hasFunction, callVars, scopeVars,
                   poolVars, cancelRequested, queue, submitter>>

(* job->Function(context), outside the mutex: a FinishJob that came between *)
(* has emptied the function, and calling it throws std::bad_function_call.  *)
ExecuteCall(t) ==
    /\ At(t, "execute", "call")
    /\ LET j == Top(t).job IN
       Become(t, IF j \in hasFunction
                 THEN [Top(t) EXCEPT !.at = "body", !.todo = shape[j].awaits]
                 ELSE FinishCall(j, "Failed", j))
    /\ OnlyStackChanges

BodyWaits(t, k) ==
    /\ At(t, "execute", "body") /\ k \in Top(t).todo /\ HasHandle(k)
    /\ BecomeAndEnter(t, [Top(t) EXCEPT !.todo = @ \ {k}], Call("wait", "check", k))
    /\ OnlyStackChanges

BodyReturns(t) ==
    /\ At(t, "execute", "body")
    /\ \A k \in Top(t).todo : ~HasHandle(k)
    /\ shape[Top(t).job].closes => ~accepting
    /\ LET j == Top(t).job
           cancelled == j \in cancelRequested \/ ScopeStops(j)
       IN Become(t, FinishCall(j, IF cancelled THEN "Cancelled" ELSE "Succeeded", None))
    /\ OnlyStackChanges

BodyThrows(t) ==
    /\ At(t, "execute", "body") /\ Top(t).job \in MayThrow
    /\ Become(t, FinishCall(Top(t).job, "Failed", Top(t).job))
    /\ OnlyStackChanges

-----------------------------------------------------------------------------
(* JobHandle *)

(* One turn of Wait's loop: a compute worker executes a job that is ready,   *)
(* and sleeps on Completion as soon as it finds none.                        *)
CanHelp(t) == t \in Workers /\ queue["Compute"] # {}

WaitCheck(t) ==
    /\ At(t, "wait", "check")
    /\ \/ Complete(Top(t).job) /\ Return(t) /\ UNCHANGED queue
       \/ /\ ~Complete(Top(t).job) /\ CanHelp(t)
          /\ \E j \in queue["Compute"] :
                /\ queue' = [queue EXCEPT !["Compute"] = @ \ {j}]
                /\ Enter(t, Call("execute", "begin", j))
       \/ /\ ~Complete(Top(t).job) /\ ~CanHelp(t)
          /\ Become(t, [Top(t) EXCEPT !.at = "sleep"]) /\ UNCHANGED queue
    /\ UNCHANGED <<jobVars, linkVars, stateVars, callVars, scopeVars, poolVars,
                   cancelRequested, count, submitter>>

WaitWake(t) ==
    /\ At(t, "wait", "sleep") /\ Complete(Top(t).job)
    /\ Return(t)
    /\ OnlyStackChanges

ClientWaits(t, j) ==
    /\ "wait" \in ClientCalls /\ Idle(t) /\ HasHandle(j)
    /\ Enter(t, Call("wait", "check", j))
    /\ OnlyStackChanges

AnswersAtOnce(j) == j \in callbacksDone

OnComplete(t, j, c) ==
    /\ "onComplete" \in ClientCalls /\ Idle(t) /\ HasHandle(j) /\ asked[c] = None
    /\ asked' = [asked EXCEPT ![c] = j]
    /\ IF AnswersAtOnce(j)
       THEN Enter(t, [Call("notify", "call", j) EXCEPT !.calls = {c}]) /\ UNCHANGED callbacks
       ELSE callbacks' = [callbacks EXCEPT ![j] = @ \cup {c}] /\ UNCHANGED stack
    /\ UNCHANGED <<jobVars, linkVars, stateVars, callbacksDone, delivered, scopeVars, poolVars,
                   cancelRequested, queue, count, submitter>>

(* Cancel stores the request, reads the status and then acts on it. *)
Cancel(t, j) ==
    /\ "cancel" \in ClientCalls /\ Idle(t) /\ HasHandle(j)
    /\ cancelRequested' = cancelRequested \cup {j}
    /\ Enter(t, Call("cancel", "look", j))
    /\ UNCHANGED <<jobVars, linkVars, stateVars, callVars, scopeVars, poolVars,
                   queue, count, submitter>>

CancelLook(t) ==
    /\ At(t, "cancel", "look")
    /\ IF CancelEnds(status[Top(t).job])
       THEN Become(t, FinishCall(Top(t).job, "Cancelled", None)) ELSE Return(t)
    /\ OnlyStackChanges

-----------------------------------------------------------------------------
(* JobScope *)

ScopeCancel(t) ==
    /\ "cancelScope" \in ClientCalls /\ Idle(t)
    /\ scopeCancelled' = TRUE
    /\ Enter(t, Call("cancelScope", "collect", None))
    /\ UNCHANGED <<jobVars, linkVars, stateVars, callVars, scopeJobs, poolVars,
                   cancelRequested, queue, count, submitter>>

ScopeWait(t) ==
    /\ "waitScope" \in ClientCalls /\ Idle(t)
    /\ Enter(t, Call("waitScope", "collect", None))
    /\ OnlyStackChanges

ScopeCollect(t) ==
    /\ At(t, "cancelScope", "collect") \/ At(t, "waitScope", "collect")
    /\ Become(t, [Top(t) EXCEPT !.at = "each", !.todo = scopeJobs])
    /\ OnlyStackChanges

ScopeCancelFlag(t, j) ==
    /\ At(t, "cancelScope", "each") /\ j \in Top(t).todo
    /\ cancelRequested' = cancelRequested \cup {j}
    /\ BecomeAndEnter(t, [Top(t) EXCEPT !.todo = @ \ {j}], Call("cancelScope", "look", j))
    /\ UNCHANGED <<jobVars, linkVars, stateVars, callVars, scopeVars, poolVars,
                   queue, count, submitter>>

ScopeCancelLook(t) ==
    /\ At(t, "cancelScope", "look")
    /\ IF ScopeCancelEnds(status[Top(t).job])
       THEN Become(t, FinishCall(Top(t).job, "Cancelled", None)) ELSE Return(t)
    /\ OnlyStackChanges

ScopeWaitEach(t, j) ==
    /\ At(t, "waitScope", "each") /\ j \in Top(t).todo
    /\ BecomeAndEnter(t, [Top(t) EXCEPT !.todo = @ \ {j}], Call("wait", "check", j))
    /\ OnlyStackChanges

ScopeReturn(t) ==
    /\ At(t, "cancelScope", "each") \/ At(t, "waitScope", "each")
    /\ Top(t).todo = {}
    /\ Return(t)
    /\ OnlyStackChanges

-----------------------------------------------------------------------------
(* JobSystem *)

SetDeterministicSimulation(t) ==
    /\ "setDeterministic" \in ClientCalls /\ Idle(t)
    /\ deterministic' = ~deterministic
    /\ UNCHANGED <<jobVars, linkVars, stateVars, callVars, scopeVars, accepting, stop, exited,
                   cancelRequested, queue, count, submitter, stack>>

(* Close by a client, or by a body on a pool thread: a second one returns. *)
Close(t) ==
    /\ \/ "close" \in ClientCalls /\ Idle(t)
       \/ At(t, "execute", "body") /\ shape[Top(t).job].closes
    /\ submitter = {} /\ accepting
    /\ accepting' = FALSE
    /\ Enter(t, [Call("close", "flag", None) EXCEPT !.todo = 1..(next - 1)])
    /\ UNCHANGED <<jobVars, linkVars, stateVars, callVars, scopeVars, stop, exited, deterministic,
                   cancelRequested, queue, count, submitter>>

CloseFlag(t, j) ==
    /\ At(t, "close", "flag") /\ j \in Top(t).todo
    /\ cancelRequested' = cancelRequested \cup {j}
    /\ Become(t, [Top(t) EXCEPT !.todo = @ \ {j}])
    /\ UNCHANGED <<jobVars, linkVars, stateVars, callVars, scopeVars, poolVars,
                   queue, count, submitter>>

CloseRequestComputeStop(t, w) ==
    /\ At(t, "close", "flag") /\ Top(t).todo = {} /\ w \in Workers \ stop
    /\ stop' = stop \cup {w}
    /\ UNCHANGED <<jobVars, linkVars, stateVars, callVars, scopeVars, accepting, exited, deterministic,
                   cancelRequested, queue, count, submitter, stack>>
CloseRequestStop(t, w) ==
    /\ At(t, "close", "flag") /\ Top(t).todo = {} /\ w \in Pool \ stop
    /\ stop' = stop \cup {w}
    /\ UNCHANGED <<jobVars, linkVars, stateVars, callVars, scopeVars, accepting, exited, deterministic,
                   cancelRequested, queue, count, submitter, stack>>

(* Every thread joined, or all detached when one of them closes. *)
Joined(t) == t \in Pool \/ exited = Pool

CloseJoin(t) ==
    /\ At(t, "close", "flag") /\ Top(t).todo = {} /\ stop = Pool /\ Joined(t)
    /\ Become(t, [Top(t) EXCEPT !.at = "sweep", !.todo = 1..(next - 1)])
    /\ OnlyStackChanges

CloseSweep(t, j) ==
    /\ At(t, "close", "sweep") /\ j \in Top(t).todo
    /\ LET rest == [Top(t) EXCEPT !.todo = @ \ {j}] IN
       IF CloseEnds(status[j]) THEN BecomeAndEnter(t, rest, FinishCall(j, "Cancelled", None))
       ELSE Become(t, rest)
    /\ OnlyStackChanges

CloseReturn(t) ==
    /\ At(t, "close", "sweep") /\ Top(t).todo = {}
    /\ Return(t)
    /\ OnlyStackChanges

-----------------------------------------------------------------------------
(* A step that thread t takes of its own accord, once it is inside a call. *)
Step(t) ==
    \/ \E d \in Jobs : \/ RegisterDependency(t, d) \/ FinishRelease(t, d) \/ BodyWaits(t, d)
                      \/ ScopeCancelFlag(t, d) \/ ScopeWaitEach(t, d)
                      \/ CloseFlag(t, d) \/ CloseSweep(t, d)
    \/ \E c \in Callbacks : RunCallback(t, c)
    \/ \E w \in Pool : CloseRequestStop(t, w)
    \/ RegisterDone(t) \/ RegisterThrows(t) \/ SubmitReturn(t)
    \/ EnqueueClaim(t) \/ EnqueuePublish(t)
    \/ FinishClaim(t) \/ FinishSettle(t) \/ FinishCallbacks(t)
    \/ Take(t) \/ WorkerExit(t) \/ ExecuteBegin(t) \/ ExecuteCall(t)
    \/ BodyReturns(t) \/ BodyThrows(t) \/ (stack[t] # <<>> /\ Close(t))
    \/ WaitCheck(t) \/ WaitWake(t) \/ CancelLook(t)
    \/ ScopeCollect(t) \/ ScopeCancelLook(t) \/ ScopeReturn(t)
    \/ CloseJoin(t) \/ CloseReturn(t)

(* A call that a thread's user code may or may not make. *)
Request(t) ==
    \/ \E sh \in UNION {Shapes[j] : j \in Jobs} : SubmitBegin(t, sh)
    \/ \E j \in Jobs : ClientWaits(t, j) \/ Cancel(t, j) \/ \E c \in Callbacks : OnComplete(t, j, c)
    \/ ScopeCancel(t) \/ ScopeWait(t) \/ SetDeterministicSimulation(t)
    \/ (Idle(t) /\ Close(t))

Next == \E t \in Threads : Step(t) \/ Request(t)

Spec == Init /\ [][Next]_vars

(* Every thread that can run does, and bodies and completion functions end; *)
(* nothing obliges a client to make a call.                                 *)
Fairness == \A t \in Threads : WF_vars(Step(t))
FairSpec == Spec /\ Fairness

=============================================================================
