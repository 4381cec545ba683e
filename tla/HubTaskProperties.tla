--------------------------- MODULE HubTaskProperties ---------------------------
(* What the hub promises of its package tasks, whatever the user asks, when    *)
(* the hub stops and a worker dies.  Where a property excepts doubled tasks,   *)
(* the code can have two workers on one task, and the two then disturb each   *)
(* other's journals: README.md, "Met while modelling".                         *)
EXTENDS HubTasks

(* The claimed tasks share no package and no installation, and no more of     *)
(* them download than may, however tasks are requeued, resumed and found at   *)
(* work by a hub that starts.                                                 *)
ActiveApart ==
    /\ \A t, u \in Tasks : t # u /\ Active(t) /\ Active(u) => ~Overlap(t, u)
    /\ Cardinality(Downloads) <= MaximumDownloads

(* A worker is launched neither beside a claimed task that overlaps its own   *)
(* nor together with another such worker.                                     *)
LaunchedApart ==
    \A t \in launching' \ launching : \A u \in Tasks \ {t} :
        Overlap(t, u) => ~Active(u) /\ ~Active(u)' /\ u \notin launching' \ launching

(* "Tasks that overlap a package are not dispatched together, and mutations   *)
(* sharing an installation ID are serialized" (Docs/Architecture.md:415), as  *)
(* far as the code keeps it: Dispatchable does not look at m_Launching, so a  *)
(* task that comes before another may be launched while the other's worker,   *)
(* launched earlier, has not reported yet. Only one of the two is claimed.    *)
OverlapsKeptApart == []ActiveApart /\ [][LaunchedApart]_vars

(* A worker that lives and may still stop is the one its task awaits or       *)
(* follows, or is told to cancel: the hub gives a task up (a timeout, a       *)
(* protocol error, a cancellation) no earlier than it has told the worker,    *)
(* as long as its files can be read and written.                             *)
StraysAreTold ==
    \A w \in DOMAIN process :
        LET t == process[w].task IN
        \/ t \in doubled \/ ~(process[w].place = "start" \/ Looks(w))
        \/ store[t].state = "Queued" \/ store[t].worker = w \/ control[t] = "Cancel"

(* What a worker has completed is never undone in the store: once the result  *)
(* of a claimed task says so, the task is neither queued again nor failed nor *)
(* cancelled, though the worker is dead and a cancellation was asked for      *)
(* ("completed is the only truthful persisted state",                         *)
(* HubTaskStore.cpp:298).                                                     *)
CompletionsWin ==
    [][\A t \in Tasks : Active(t) /\ result[t] = "Completed" /\ t \notin doubled
                           => store'[t].state \notin {"Queued", "Paused", "Failed", "Cancelled"}]_vars

(* The results that the hub offers are those of the tasks it calls completed, *)
(* also after it has stopped and started.                                     *)
CompletionsRemembered ==
    pc # "down" => \A t \in Tasks \ doubled :
        /\ store[t].state = "Completed" => t \in completed
        /\ t \in completed => store[t].state \in {"Completed", "Dismissed"}

(* While the hub runs, every task that is queued or at work is in the end      *)
(* completed, failed, cancelled or paused: no worker that dies, is late or     *)
(* never starts, and no task before it in the queue, can prevent that.         *)
Settled(t) == store[t].state = "Paused" \/ IsTerminal(store[t].state)
TasksEnd == \A t \in Tasks : Stored(t) /\ ~Settled(t) ~> Settled(t) \/ pc = "down" \/ doubled # {}
=============================================================================
