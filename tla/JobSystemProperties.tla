------------------------- MODULE JobSystemProperties -------------------------
(***************************************************************************)
(* What the job scheduler of JobSystem promises the code that uses it.     *)
(***************************************************************************)
EXTENDS JobSystem

(* The calls in progress: a thread and a depth on its stack, the outermost  *)
(* call at depth 1, so that a call keeps its place while others come and go. *)
Places == UNION {{t} \X DOMAIN stack[t] : t \in Threads}
FrameOf(c) == stack[c[1]][Len(stack[c[1]]) + 1 - c[2]]
Calls(op) == {c \in Places : FrameOf(c).op = op}

(* The function of job j is running on some thread, however deep in waits. *)
Executes(j) == \E c \in Calls("execute") : FrameOf(c).at = "body" /\ FrameOf(c).job = j

(* Job k is a dependency of j, directly or through other jobs. *)
Precedes(k, j) == \E n \in 1..JobCount : \E path \in [1..(n + 1) -> Jobs] :
    path[1] = k /\ path[n + 1] = j /\ \A i \in 1..n : path[i] \in deps[path[i + 1]]

-----------------------------------------------------------------------------
(* Safety *)

(* "A dependent cannot become runnable until its entire immutable dependency *)
(* set is attached" (Docs/Architecture.md:403): a job that was queued or     *)
(* started has left registration and all its dependencies are over, whatever *)
(* the order in which they finished around Submit's loop. Registrations that *)
(* threw leave dependencies out and are exempt.                              *)
RunnableAfterDependencies(j) ==
    status[j] \in {"Queued", "Running"} =>
        j \in registered /\ \A d \in deps[j] : IsTerminal(status[d])
DependenciesFirst == \A j \in Jobs \ MayRunOut : RunnableAfterDependencies(j)

(* A job that requires success never runs after a dependency that threw, or  *)
(* that was itself cancelled because of an exception: neither when the       *)
(* exception came before Submit nor when other dependencies finish later.    *)
FailureStopsDependents == \A j \in Jobs \ MayRunOut :
    Executes(j) /\ RequiresSuccess(j) =>
        \A d \in deps[j] : IsTerminal(status[d]) => failure[d] = None

(* Failure propagates "without hiding the originating exception"             *)
(* (Docs/Architecture.md:391): the exception a job reports is its own or was *)
(* thrown by a job that it depends on, however many jobs it went through.    *)
FailureOriginates == \A j \in Jobs : LET e == ResultFailure(j) IN
    e # None => /\ failure[e] = e /\ (status[e] = "Failed" \/ e \in MayRunOut)
                /\ e = j \/ Precedes(e, j)

(* The four counters say what the jobs' states say, up to the calls that     *)
(* have changed a state and not yet the counters, or the other way round.    *)
CountersAgree ==
    LET settling(s) == Cardinality({c \in Calls("finish") :
                                       FrameOf(c).at = "settle" /\ FrameOf(c).was \in s})
        publishing == Cardinality({c \in Calls("enqueue") : FrameOf(c).at = "publish"})
        inState(s) == Cardinality({j \in Jobs : status[j] \in s})
        live == {"Waiting", "Queued", "Running"}
    IN /\ count["Outstanding"] = inState(live) + settling(live)
       /\ count["Waiting"] = inState({"Waiting"}) + settling({"Waiting"}) + publishing
       /\ count["Queued"] = inState({"Queued"}) + settling({"Queued"}) - publishing
       /\ count["Running"] = inState({"Running"}) + settling({"Running"})

(* "Strict simulation domains use submission order" (Docs/Architecture.md:   *)
(* 402): when a strict simulation job executes, every earlier one is over    *)
(* and its function has returned.                                            *)
StrictOrder == \A j, k \in strict :
    k < j /\ Executes(j) => IsTerminal(status[k]) /\ ~Executes(k)

(* When Close has returned, a job is unfinished or its function runs only    *)
(* while some pool thread is still busy, which a Close from outside the pool *)
(* rules out by joining: nothing that waited in a queue or for a dependency  *)
(* is forgotten.                                                             *)
CloseDrains ==
    ~accepting /\ Calls("close") = {}
        => \A j \in Jobs : StillPending(j) \/ Executes(j) => \E t \in Pool : stack[t] # <<>>

(* A job function is never pulled from under its worker: from the call to    *)
(* its return the job is Running and still owns the function. A Cancel or a  *)
(* Close that read an older status and finishes the job late must not reach  *)
(* a job that has started: "only the worker writes the array until job       *)
(* completion" (Docs/Scripting/Cookbook.md:567).                             *)
FunctionOutlivesCall == \A j \in Jobs \ MayRunOut :
    Executes(j) => status[j] = "Running" /\ j \in hasFunction

(* JobScope "supplies the cancellation-and-drain boundary" (Docs/            *)
(* Architecture.md:392): once the scope is cancelled and the jobs that its   *)
(* Wait waits for are complete, no function of the scope runs or will run. A *)
(* job whose registration threw is not among the scope's jobs and is exempt. *)
ScopeDrains ==
    scopeCancelled /\ (\A j \in scopeJobs : Complete(j)) =>
        \A j \in Jobs \ MayRunOut : shape[j].scoped => ~Executes(j)

-----------------------------------------------------------------------------
(* Liveness, under Fairness *)

(* Every job that was submitted comes to an end, completion functions        *)
(* included, whatever its dependencies do and whoever cancels it.            *)
EveryJobCompletes == \A j \in Jobs : (status[j] = "Waiting") ~> Complete(j)

(* A client that waits for a job or a scope, or closes the system, is freed. *)
ClientsReturn == \A t \in Clients : (stack[t] # <<>>) ~> (stack[t] = <<>>)

-----------------------------------------------------------------------------
(* Why DependenciesFirst holds: the inductive invariant of its proof. *)

(* Of j's dependencies, those that Submit has been through and that are not  *)
(* over still block j.                                                       *)
Attached(j, ahead) == \A d \in deps[j] \ ahead : IsTerminal(status[d]) \/ d \in blockedBy[j]

Known == {j \in Jobs : j < next}
WithoutJob == {"collect", "each", "flag", "sweep"}
FrameOK(t, f) ==
    /\ f.at \notin WithoutJob => f.job \in Jobs
    /\ f.op = "submit" => submitter = {t} /\ f.job \in Known
    /\ f.op = "submit" /\ f.at = "register" => f.job \notin registered /\ Attached(f.job, f.todo)
    /\ f.op = "finish" => f.job \in Known /\ IsTerminal(f.status)
    /\ f.op = "close" => f.todo \subseteq Known
    /\ f.op = "finish" /\ f.at # "claim" => IsTerminal(status[f.job])
    /\ f.op = "execute" \/ f.at = "publish" => f.job \in Jobs /\ Ready(f.job, blockedBy)

StackOK == \A t \in Threads : \A i \in DOMAIN stack[t] : FrameOK(t, stack[t][i])
OneSubmit == \A t \in Threads : \A i, k \in DOMAIN stack[t] :
    stack[t][i].op = "submit" /\ stack[t][k].op = "submit" => i = k

(* A job enters a queue, and its worker, with nothing left that blocks it;   *)
(* nothing attached to a job is forgotten before it is over; and no job is   *)
(* touched before it is submitted.                                           *)
JobsOK ==
    /\ \A j \in Jobs : status[j] \in {"Queued", "Running"} => Ready(j, blockedBy)
    /\ \A lane \in {"Compute", "Blocking"} : \A j \in queue[lane] : Ready(j, blockedBy)
    /\ \A j \in registered \ MayRunOut : Attached(j, {})
    /\ \A j \in Jobs \ Known : status[j] = "Unsubmitted" /\ blockedBy[j] = {} /\ j \notin registered

DependencyInv == TypeOK /\ StackOK /\ OneSubmit /\ JobsOK

-----------------------------------------------------------------------------
(* The contract: Waiting and Queued are one state for a user. *)

Contract == INSTANCE JobContract WITH
    Nobody <- None,
    state <- [j \in Jobs |-> IF status[j] \in {"Waiting", "Queued"} THEN "Pending" ELSE status[j]],
    needs <- deps,
    tolerant <- {j \in Jobs : status[j] # "Unsubmitted" /\ ~RequiresSuccess(j)},
    told <- delivered

(* Every step of the scheduler is a step of JobContract or invisible to it,  *)
(* and under Fairness each job and completion function gets its turn, while  *)
(* functions may throw and nobody cancels or closes.                         *)
ImplementsContract == Contract!FairSpec

=============================================================================
