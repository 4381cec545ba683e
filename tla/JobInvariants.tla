---------------------------- MODULE JobInvariants ----------------------------
(***************************************************************************)
(* The inductive invariants of the job scheduler, on which the proofs of   *)
(* its properties rest: what holds between any two steps of any threads.   *)
(***************************************************************************)
EXTENDS JobSystemProperties, FiniteSets

-----------------------------------------------------------------------------
(* Why a function outlives its call. *)

Lanes == {"Compute", "Blocking"}

(* Someone asked for j's cancellation, and nothing takes that back.          *)
Stopped(j) == j \in cancelRequested \/ ScopeStops(j)

(* Becoming ready makes one call that carries its job to its start or to its *)
(* end: it is passed on from FinishJob or Submit to Enqueue, to the queue,   *)
(* to Execute and to FinishJob. The calls of FinishJob that a cancellation   *)
(* makes come on top of that and are not counted.                            *)
Claims(f) == f.op = "finish" /\ f.at = "claim"
Carries(f) == \/ f.op \in {"enqueue", "execute"}
              \/ Claims(f) /\ f.job \notin MayRunOut /\ ~Stopped(f.job)
Started(f) == f.op = "execute" /\ f.at # "begin"
IsQueued(j) == \E lane \in Lanes : j \in queue[lane]
QueuedOrOver(j) == status[j] = "Queued" \/ IsTerminal(status[j])

(* Where each call can be.                                                   *)
AtPoint(f) ==
    /\ f.op = "submit" => f.at \in {"register", "return"}
    /\ f.op = "enqueue" => f.at \in {"claim", "publish"}
    /\ f.op = "finish" => f.at \in {"claim", "settle", "release"}
    /\ f.op = "execute" => f.at \in {"begin", "call", "body"}
    /\ f.op = "wait" => f.at \in {"check", "sleep"}
    /\ f.op = "notify" => f.at = "call"
    /\ f.op = "cancel" => f.at = "look"
    /\ f.op = "cancelScope" => f.at \in {"collect", "each", "look"}
    /\ f.op = "waitScope" => f.at \in {"collect", "each"}
    /\ f.op = "close" => f.at \in {"flag", "sweep"}
    /\ f.op \in {"finish", "notify"} \/ f.calls = {}

CallOK(f) ==
    /\ AtPoint(f)
    /\ f.at = "look" => f.job \in cancelRequested
    /\ f.op = "close" => ~accepting
    /\ f.op = "close" /\ f.at = "flag" => Known \subseteq cancelRequested \cup f.todo
    /\ f.op = "close" /\ f.at = "sweep" => f.todo \subseteq cancelRequested
    /\ Carries(f) => Ready(f.job, blockedBy) /\ ~IsQueued(f.job)
    /\ f.at \in {"publish", "begin"} => QueuedOrOver(f.job)
    /\ Started(f) => \/ status[f.job] = "Running"
                     \/ f.job \in MayRunOut /\ IsTerminal(status[f.job])

CallsOK == \A c \in Places : CallOK(FrameOf(c))
OneCarrier == \A c, e \in Places :
    Carries(FrameOf(c)) /\ Carries(FrameOf(e)) /\ FrameOf(c).job = FrameOf(e).job => c = e
NoLateFinish == \A c, e \in Places :
    Started(FrameOf(c)) /\ Claims(FrameOf(e)) /\ FrameOf(c).job = FrameOf(e).job
        => FrameOf(c).job \in MayRunOut
StatesOK ==
    /\ \A j \in Jobs : j \in hasFunction <=> StillPending(j)
    /\ \A j \in Known : status[j] # "Unsubmitted"
    /\ \A lane \in Lanes : \A j \in queue[lane] : lane = Lane(j) /\ QueuedOrOver(j)

ExecutionInv == DependencyInv /\ CallsOK /\ OneCarrier /\ NoLateFinish /\ StatesOK

-----------------------------------------------------------------------------
(* Who is told of a failure. *)

(* Job k is a dependency of j, directly or through jobs submitted between.   *)
Reaches(k, j) == \E n \in 1..(j - k) : \E path \in [1..(n + 1) -> Jobs] :
    path[1] = k /\ path[n + 1] = j /\ \A i \in 1..n : path[i] \in deps[path[i + 1]]

(* The exception e was thrown by job e, or by its Submit; and what j may say *)
(* of it.                                                                    *)
Origin(e) == failure[e] = e /\ (status[e] = "Failed" \/ e \in MayRunOut)
Blames(j, e) == e # None => Origin(e) /\ (e = j \/ Reaches(e, j))

(* Of j's dependencies, those that Submit has been through and that have     *)
(* failed have told j, or still have it on the list they go through.         *)
Noted(j, ahead) == j \notin MayRunOut /\ RequiresSuccess(j) =>
    \A d \in deps[j] \ ahead : IsTerminal(status[d]) /\ failure[d] # None =>
        depFailure[j] # None \/ d \in blockedBy[j]
MayStart(j) == RequiresSuccess(j) => depFailure[j] = None

BlameOK(f) ==
    /\ f.op = "submit" /\ f.at = "register" => f.todo \subseteq deps[f.job] /\ Noted(f.job, f.todo)
    /\ Claims(f) => \/ /\ f.cause = f.job
                       /\ f.status = "Failed" \/ (f.job \in MayRunOut /\ f.status = "Cancelled")
                    \/ Blames(f.job, f.cause) /\ f.status # "Failed"
    /\ Claims(f) /\ f.cause # None => f.status # "Succeeded"
    /\ f.op = "finish" /\ ~Claims(f) => /\ f.status = status[f.job] /\ f.cause = failure[f.job]
                                        /\ \A d \in f.todo : f.job \in deps[d]
    /\ f.op \in {"enqueue", "execute"} => MayStart(f.job)
CausesOK == \A c \in Places : BlameOK(FrameOf(c))

FailuresOK ==
    /\ \A j \in Jobs : Blames(j, failure[j]) /\ Blames(j, depFailure[j])
    /\ \A j \in Jobs : failure[j] # None => status[j] \in {"Failed", "Cancelled"}
    /\ \A d \in Jobs : \A j \in dependents[d] : d \in deps[j]
    /\ \A j \in Jobs : deps[j] \subseteq 1..(j - 1)
    /\ \A j \in Jobs \ Known : deps[j] = {} /\ depFailure[j] = None
    /\ lastSimulation \in Known \cup {None}
    /\ \A j \in registered : Noted(j, {})
    /\ \A lane \in Lanes : \A j \in queue[lane] : MayStart(j)

FailureInv == ExecutionInv /\ CausesOK /\ FailuresOK

-----------------------------------------------------------------------------
(* What a Close or a cancelled scope leaves behind. *)

IsSettled(j) == status[j] \notin {"Waiting", "Queued"}
Sweeps(f) == f.op = "close" /\ f.at = "sweep"

(* Job functions run on the pool's threads only, and a Running job is in the *)
(* hands of one of them: it runs there, or is on its way to FinishJob.       *)
Runs(f) == Started(f) \/ Claims(f)
Ending(c, j) == c \in Places /\ Claims(FrameOf(c)) /\ FrameOf(c).job = j
PoolOK == \A c \in Places : FrameOf(c).op = "execute" => c[1] \in Pool
RunsOK == \A j \in Jobs : status[j] = "Running" =>
    \E c \in Places : c[1] \in Pool /\ FrameOf(c).job = j /\ Runs(FrameOf(c))

(* Of the jobs that Close's last loop has been through, none still waits or  *)
(* is queued, except the one whose FinishJob the loop is calling; and nothing*)
(* waits or is queued once the loop is done.                                 *)
SweepOK == \A c \in Places : Sweeps(FrameOf(c)) =>
    \A j \in Known \ FrameOf(c).todo : IsSettled(j) \/ Ending(<<c[1], c[2] + 1>>, j)
NoClose == \A c \in Places : FrameOf(c).op # "close"
DrainOK == ~accepting /\ NoClose => \A j \in Jobs : IsSettled(j)

(* A job of the scope that Submit is done with is on the scope's list.       *)
ScopeOK == \A j \in registered \ MayRunOut : shape[j].scoped => j \in scopeJobs

DrainParts == PoolOK /\ RunsOK /\ SweepOK /\ DrainOK /\ ScopeOK
DrainInv == ExecutionInv /\ DrainParts

-----------------------------------------------------------------------------
(* What the counters count. *)

Live == {"Waiting", "Queued", "Running"}
InState(s) == {j \in Jobs : status[j] \in s}

(* Calls that have changed a state and not yet the counters, or the other    *)
(* way round.                                                                *)
Settles(f) == f.op = "finish" /\ f.at = "settle"
Publishes(f) == f.op = "enqueue" /\ f.at = "publish"
SettlingCalls == {c \in Places : Settles(FrameOf(c))}
SettlingFrom(s) == {c \in Places : Settles(FrameOf(c)) /\ FrameOf(c).was \in s}
Publishing == {c \in Places : Publishes(FrameOf(c))}

CallsCounted ==
    /\ IsFiniteSet(SettlingCalls) /\ IsFiniteSet(Publishing)
    /\ \A c \in Places : Settles(FrameOf(c)) => FrameOf(c).was \in Live
CountsAre ==
    /\ count["Outstanding"] = Cardinality(InState(Live)) + Cardinality(SettlingFrom(Live))
    /\ count["Waiting"] = Cardinality(InState({"Waiting"})) + Cardinality(SettlingFrom({"Waiting"}))
                          + Cardinality(Publishing)
    /\ count["Queued"] = Cardinality(InState({"Queued"})) + Cardinality(SettlingFrom({"Queued"}))
                         - Cardinality(Publishing)
    /\ count["Running"] = Cardinality(InState({"Running"})) + Cardinality(SettlingFrom({"Running"}))
CountsOK == CallsCounted /\ CountsAre
CountInv == ExecutionInv /\ CountsOK

-----------------------------------------------------------------------------
(* Why strict simulation jobs keep their order. *)

(* Nobody asked for the cancellation of a strict job, or of its scope, and   *)
(* no registration of one threw.                                             *)
Undisturbed == \A j \in strict : j \notin MayRunOut /\ ~Stopped(j)

(* Between a strict job and any earlier one there is a strict job that it    *)
(* depends on or that was over when it was submitted: the predecessor that   *)
(* Submit adds, unless the weak pointer to it has expired.                   *)
Linked(j, k) == \E m \in strict : k <= m /\ m < j /\ (m \in deps[j] \/ IsTerminal(status[m]))
LinksOK ==
    /\ strict \subseteq Known /\ lastSimulation \in strict \cup {None}
    /\ \A k \in strict : k <= lastSimulation
    /\ \A j, k \in strict : k < j => Linked(j, k)

(* Only what comes after jobs that are over leaves the state Waiting.        *)
OrderOK == \A j, k \in strict : k < j /\ status[j] # "Waiting" => IsTerminal(status[k])
OrderInv == ExecutionInv /\ LinksOK /\ (Undisturbed => OrderOK)

-----------------------------------------------------------------------------
(* Why jobs keep the contract, while nobody cancels or closes and no         *)
(* registration throws. *)

Calm == cancelRequested = {} /\ ~scopeCancelled /\ accepting /\ MayRunOut = {}

(* FinishJob ends a job that ran, or one that waits and was told of a        *)
(* failure, with that failure as the cause.                                  *)
EndOK(f) == Claims(f) =>
    IF f.status = "Cancelled"
    THEN RequiresSuccess(f.job) /\ f.cause # None /\ depFailure[f.job] # None /\ status[f.job] = "Waiting"
    ELSE status[f.job] = "Running"
FramesEnd == \A c \in Places : EndOK(FrameOf(c))

(* A job that did not succeed says why, is told of failures by dependencies  *)
(* that did not succeed, and waits until Submit is done with it.             *)
Unhappy(s) == s \in {"Failed", "Cancelled"}
ReasonsOK ==
    /\ \A j \in Jobs : Unhappy(status[j]) => failure[j] # None
    /\ \A j \in Jobs : depFailure[j] # None => \E d \in deps[j] : Unhappy(status[d])
    /\ \A j \in Jobs \cap Known : j \notin registered => status[j] = "Waiting"
ContractInv == FailureInv /\ FramesEnd /\ ReasonsOK

-----------------------------------------------------------------------------
(* Each completion function is kept by its job or by the one call that is to *)
(* run it, or has run; a call runs it only when its job is over.             *)

HandedOut(c) == asked[c] \in Jobs /\ delivered[c] = 0
Due(c) == HandedOut(c) /\ IsTerminal(status[asked[c]])
KeptByJobs == \A j \in Jobs : \A c \in callbacks[j] : HandedOut(c) /\ asked[c] = j
KeptByCalls == \A h \in Places : \A c \in FrameOf(h).calls : Due(c) /\ \A j \in Jobs : c \notin callbacks[j]
KeptOnce == \A h, i \in Places : \A c \in FrameOf(h).calls : c \in FrameOf(i).calls => h = i
RanOnce == \A c \in Callbacks :
    \/ delivered[c] = 0
    \/ delivered[c] = 1 /\ asked[c] \in Jobs /\ IsTerminal(status[asked[c]])
DoneWhenOver == \A j \in callbacksDone : IsTerminal(status[j])
CallbacksOK == KeptByJobs /\ KeptByCalls /\ KeptOnce /\ RanOnce /\ DoneWhenOver
CallbackInv == ExecutionInv /\ CallbacksOK

=============================================================================
