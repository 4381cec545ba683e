----------------------------- MODULE HubTaskProofs -----------------------------
(***************************************************************************)
(* Theorems about HubTasks, for every number of tasks, launches, requests  *)
(* and faults.                                                             *)
(***************************************************************************)
EXTENDS HubTaskProperties, FiniteSetTheorems, WellFoundedInduction, TLAPS

States ==
    {"Absent", "Dismissed", "Queued", "Paused", "Completed", "Failed", "Cancelled", "Cancelling"} \cup Phases
Outcomes == {"Completed", "Paused", "Cancelled", "Failed", "Fatal"}
Statuses == [state : Phases \cup {"Completed", "Failed", "Cancelled", "Paused"}, worker : Launches]
Places == {"start", "publishing", "end", "result", "gone"} \cup Phases

(* What is on the disk. *)
DiskOK ==
    /\ shape \in Shapes
    /\ store \in [Tasks -> [state : States, worker : Launches \cup {None}, retry : BOOLEAN]]
    /\ status \in [Tasks -> Statuses \cup {None}]
    /\ result \in [Tasks -> Outcomes \cup {None}]
    /\ control \in [Tasks -> {"Continue", "Pause", "Cancel"}]

(* What the coordinator has; the task that it polls is a stored one. *)
CoordinatorOK ==
    /\ pc \in {"down", "poll", "result", "reconcile", "commands"}
    /\ at \in 0..TaskCount
    /\ pc \in {"poll", "result"} => at \in Tasks /\ Stored(at)
    /\ seen \in Statuses \cup {None}
    /\ launching \subseteq Tasks /\ completed \subseteq Tasks /\ doubled \subseteq Tasks

(* The worker processes; one that is to report has an outcome. *)
WorkersOK ==
    /\ DOMAIN process \subseteq Launches
    /\ process \in [DOMAIN process -> [task : Tasks, place : Places, outcome : Outcomes \cup {None}]]
    /\ \A w \in DOMAIN process : process[w].place \in {"end", "result"} => process[w].outcome \in Outcomes

(* The type invariant. *)
TypeOK == DiskOK /\ CoordinatorOK /\ WorkersOK /\ ready \in BOOLEAN

(***************************************************************************)
(* Dispatchable is the choice that it describes.                           *)
(***************************************************************************)

Created(t) == shape[t].created
Greedy(n, chosen) ==
    /\ chosen \subseteq Tasks /\ \A u \in chosen : Created(u) <= n
    /\ \A t \in Tasks : Created(t) <= n => (t \in chosen <=> Starts(t, {u \in chosen : Earlier(u, t)}))

(* The order of creation is one of all tasks. *)
LEMMA CreatedOrder ==
    ASSUME TypeOK
    PROVE  \A t \in Tasks : Created(t) \in Tasks /\ \A u \in Tasks \ {t} : Earlier(t, u) \/ Earlier(u, t)
<1>1. shape \in Shapes
  BY DEF TypeOK, DiskOK
<1>2. ASSUME NEW t \in Tasks PROVE Created(t) \in Tasks /\ \A u \in Tasks \ {t} : Created(u) # Created(t)
  BY <1>1, ShapeAssumption DEF Created
<1>. QED  BY <1>2, CountAssumption DEF Created, Earlier, Tasks

(* When those up to n in this order have a choice, those up to n + 1 have one. *)
LEMMA GreedyGrows ==
    ASSUME TypeOK, NEW n \in Nat, NEW chosen, Greedy(n, chosen)
    PROVE  \E c : Greedy(n + 1, c)
<1> DEFINE new == {m \in Tasks : Created(m) = n + 1 /\ Starts(m, chosen)}
           c == chosen \cup new
<1>1. \A t \in Tasks : Created(t) \in Nat
  BY CreatedOrder, CountAssumption DEF Tasks
<1>2. \A u, t \in Tasks : Earlier(u, t) <=> Created(u) < Created(t)
  BY DEF Earlier, Created
<1>3. chosen \subseteq Tasks /\ \A u \in chosen : Created(u) <= n
  BY DEF Greedy
<1>4. c \subseteq Tasks /\ \A u \in c : Created(u) <= n + 1
  BY <1>1, <1>3
<1>5. ASSUME NEW t \in Tasks, Created(t) <= n + 1
      PROVE  {u \in c : Earlier(u, t)} = {u \in chosen : Earlier(u, t)}
  <2>1. \A u \in new : ~Earlier(u, t)
    BY <1>1, <1>2, <1>5
  <2>. QED  BY <2>1
<1>6. ASSUME NEW t \in Tasks, Created(t) <= n + 1
      PROVE  t \in c <=> Starts(t, {u \in c : Earlier(u, t)})
  <2>1. CASE Created(t) <= n
    <3>1. t \in c <=> t \in chosen
      BY <1>1, <2>1
    <3>. HIDE DEF c
    <3>. QED  BY <1>5, <1>6, <2>1, <3>1 DEF Greedy
  <2>2. CASE Created(t) = n + 1
    <3>1. {u \in chosen : Earlier(u, t)} = chosen
      BY <1>1, <1>2, <1>3, <2>2
    <3>2. t \notin chosen
      BY <1>1, <1>3, <2>2
    <3>3. t \in c <=> Starts(t, chosen)
      BY <2>2, <3>2
    <3>. HIDE DEF c
    <3>. QED  BY <1>5, <1>6, <3>1, <3>3
  <2>. QED  BY <1>1, <1>6, <2>1, <2>2
<1>. HIDE DEF c
<1>7. Greedy(n + 1, c)
  BY <1>4, <1>6 DEF Greedy
<1>. QED  BY <1>7

(* By induction over the initial segments of the tasks. *)
LEMMA GreedyExists ==
    ASSUME TypeOK
    PROVE  \E chosen : Greedy(TaskCount, chosen)
<1> DEFINE Bad == {n \in 0..TaskCount : ~\E c : Greedy(n, c)}
           Segments == {1..n : n \in Bad}
<1>. USE CountAssumption
<1>1. SUFFICES ASSUME Bad # {} PROVE FALSE
  OBVIOUS
<1>2. Segments \subseteq FiniteSubsetsOf(Tasks) /\ Segments # {}
  <2>1. \A n \in 0..TaskCount : 1..n \subseteq Tasks /\ IsFiniteSet(1..n)
    BY FS_Interval DEF Tasks
  <2>. QED  BY <2>1, <1>1 DEF FiniteSubsetsOf
<1>3. \E x \in Segments : \A y \in Segments : <<y, x>> \notin StrictSubsetOrdering(Tasks)
  <2>. HIDE DEF Segments
  <2>. QED  BY <1>2, FS_StrictSubsetOrderingWellFounded, WFMin
<1>4. PICK n \in Bad : \A m \in Bad : <<1..m, 1..n>> \notin StrictSubsetOrdering(Tasks)
  BY <1>3
<1>5. n # 0
  <2>1. \A t \in Tasks : ~(Created(t) <= 0)
    BY CreatedOrder DEF Tasks
  <2>2. Greedy(0, {})
    BY <2>1 DEF Greedy
  <2>. QED  BY <2>2
<1>6. n - 1 \notin Bad
  <2>1. <<1..(n - 1), 1..n>> \in StrictSubsetOrdering(Tasks)
    BY <1>5 DEF StrictSubsetOrdering, Tasks
  <2>. QED  BY <2>1, <1>4
<1>7. \E c : Greedy(n - 1, c)
  BY <1>5, <1>6
<1>8. \E c : Greedy(n - 1 + 1, c)
  BY <1>5, <1>7, GreedyGrows
<1>9. n - 1 + 1 = n
  OBVIOUS
<1>. QED  BY <1>8, <1>9

LEMMA DispatchableGreedy ==
    ASSUME TypeOK
    PROVE  /\ Dispatchable \subseteq Tasks
           /\ \A t \in Tasks : t \in Dispatchable <=> Starts(t, {u \in Dispatchable : Earlier(u, t)})
<1> DEFINE Chosen(c) == \A t \in Tasks : t \in c <=> Starts(t, {u \in c : Earlier(u, t)})
<1>1. \E c \in SUBSET Tasks : Chosen(c)
  <2>1. PICK c : Greedy(TaskCount, c)
    BY GreedyExists
  <2>2. \A t \in Tasks : Created(t) <= TaskCount
    BY CreatedOrder, CountAssumption DEF Tasks
  <2>. QED  BY <2>1, <2>2 DEF Greedy
<1>2. Dispatchable = CHOOSE c \in SUBSET Tasks : Chosen(c)
  BY DEF Dispatchable
<1>. HIDE DEF Chosen
<1>3. Dispatchable \in SUBSET Tasks /\ Chosen(Dispatchable)
  BY <1>1, <1>2
<1>. QED  BY <1>3 DEF Chosen

(***************************************************************************)
(* The type invariant.                                                     *)
(***************************************************************************)

LEMMA InitTyped == Init => TypeOK
<1>. SUFFICES ASSUME Init PROVE TypeOK
  OBVIOUS
<1>. USE CountAssumption
<1>1. DiskOK
  BY DEF Init, DiskOK, Unclaimed, Entry, States
<1>2. CoordinatorOK
  BY DEF Init, CoordinatorOK, Tasks
<1>3. WorkersOK
  BY DEF Init, WorkersOK
<1>4. ready \in BOOLEAN
  BY Zenon DEF Init
<1>. QED  BY <1>1, <1>2, <1>3, <1>4 DEF TypeOK

(* The poll goes on with a stored task, if what follows t stays stored. *)
LEMMA PollAfterTyped ==
    ASSUME NEW t \in 0..TaskCount, PollAfter(t), CoordinatorOK,
           \A u \in Tasks : u > t /\ Stored(u) => Stored(u)',
           launching' \subseteq Tasks, completed' \subseteq Tasks, doubled' \subseteq Tasks
    PROVE  CoordinatorOK'
<1>. USE CountAssumption
<1>1. seen' \in Statuses \cup {None}
  BY DEF PollAfter
<1>2. CASE NextStored(t) = {}
  <2>1. pc' = "reconcile" /\ at' = 0
    BY <1>2 DEF PollAfter
  <2>. QED  BY <1>1, <2>1 DEF CoordinatorOK
<1>3. CASE NextStored(t) # {}
  <2>1. pc' = "poll" /\ at' \in NextStored(t)
    BY <1>3 DEF PollAfter
  <2>2. at' \in Tasks /\ at' > t /\ at' \in {u \in Tasks : Stored(u)}
    BY <2>1 DEF NextStored
  <2>3. PICK u \in Tasks : u = at' /\ u > t /\ Stored(u)
    BY <2>2
  <2>4. Stored(u)'
    BY <2>3
  <2>5. at' \in Tasks /\ Stored(at)'
    BY <2>3, <2>4 DEF Stored
  <2>6. at' \in 0..TaskCount
    BY <2>5 DEF Tasks
  <2>. QED  BY <1>1, <2>1, <2>5, <2>6 DEF CoordinatorOK
<1>. QED  BY <1>2, <1>3

(* What ApplyStatus and ApplyResult do to the task that is polled. *)
EntryOK(entry) == entry \in [state : States, worker : Launches \cup {None}, retry : BOOLEAN]
Kept(state) == state \in States \ {"Absent", "Dismissed"}

LEMMA EntriesTyped ==
    ASSUME NEW state \in States, NEW worker \in Launches \cup {None}, NEW retry \in BOOLEAN
    PROVE  /\ EntryOK(Entry(state, worker)) /\ Entry(state, worker).state = state
           /\ Entry(state, worker).worker = worker
           /\ EntryOK(Unclaimed(state)) /\ Unclaimed(state).state = state /\ Unclaimed(state).worker = None
           /\ EntryOK(Failed(retry)) /\ Failed(retry).state = "Failed" /\ Failed(retry).worker = None
BY DEF EntryOK, Entry, Unclaimed, Failed, States

(* A task that is polled, or reconciled, gets this entry: it stays stored,     *)
(* and it is at work only if it was or was dispatchable.                       *)
Working == Phases \cup {"Cancelling"}
Follows(t, entry) ==
    /\ EntryOK(entry) /\ entry.state \notin {"Absent", "Dismissed"}
    /\ entry.state \in Working => Active(t) \/ t \in Dispatchable
    /\ entry.state = "Downloading" =>
          \/ store[t].state = "Downloading"
          \/ t \in Dispatchable /\ InitialState(t) = "Downloading"

(* What every step of PollStatus and PollResult leaves. *)
Polled(t) ==
    /\ \E entry : Follows(t, entry) /\ store' = [store EXCEPT ![t] = entry]
    /\ control' \in {control, [control EXCEPT ![t] = "Cancel"]}
    /\ launching' \subseteq launching

LEMMA PhasesAre == Phases = {"Downloading", "Verifying", "Installing", "Removing"}
BY DEF Phases, PhaseIndex

LEMMA Unmoved ==
    ASSUME DiskOK, NEW t \in Tasks, Stored(t), store' = store,
           control' \in {control, [control EXCEPT ![t] = "Cancel"]}, launching' \subseteq launching
    PROVE  Polled(t)
<1>1. Follows(t, store[t])
  BY PhasesAre DEF DiskOK, Follows, EntryOK, Stored, Working, Active
<1>2. store' = [store EXCEPT ![t] = store[t]]
  BY DEF DiskOK
<1>. QED  BY <1>1, <1>2 DEF Polled

LEMMA FailTaskPolled ==
    ASSUME DiskOK, NEW t \in Tasks, Stored(t), FailTask(t)
    PROVE  Polled(t)
<1>1. CASE store[t].state = "Paused"
  BY <1>1, Unmoved DEF FailTask
<1>2. CASE store[t].state # "Paused"
  <2>1. EntryOK(Failed(TRUE)) /\ Failed(TRUE).state = "Failed"
    BY DEF EntryOK, Failed, States
  <2>2. Follows(t, Failed(TRUE))
    BY <2>1, PhasesAre DEF Follows, Working
  <2>. QED  BY <1>2, <2>2 DEF FailTask, Polled
<1>. QED  BY <1>1, <1>2

LEMMA ApplyStatusCases ==
    ASSUME DiskOK, NEW t \in Tasks, Stored(t), ~IsTerminal(store[t].state), NEW s \in Statuses, ApplyStatus(t, s)
    PROVE  \/ FailTask(t)
           \/ UNCHANGED <<store, control, launching>>
           \/ /\ store[t].state = "Queued" /\ t \in Dispatchable /\ s.state = InitialState(t)
              /\ store' = [store EXCEPT ![t] = Entry(s.state, s.worker)]
              /\ launching' = launching \ {t} /\ UNCHANGED control
           \/ /\ s.state = "Paused" /\ store' = [store EXCEPT ![t] = Unclaimed("Paused")]
              /\ UNCHANGED <<control, launching>>
           \/ /\ store[t].state \in Phases /\ s.state \in Phases /\ PhaseIndex[s.state] > PhaseIndex[store[t].state]
              /\ store' = [store EXCEPT ![t] = Entry(s.state, store[t].worker)]
              /\ UNCHANGED <<control, launching>>
<1>1. store[t].state \in {"Queued", "Cancelling", "Paused"} \cup Phases
  BY DEF DiskOK, States, Stored, IsTerminal
<1>2. s.state \in Phases \cup {"Paused"} \/ IsTerminal(s.state)
  BY DEF Statuses, IsTerminal
<1>. QED  BY <1>1, <1>2, PhasesAre DEF ApplyStatus, IsTerminal

LEMMA ApplyStatusPolled ==
    ASSUME DiskOK, NEW t \in Tasks, Stored(t), ~IsTerminal(store[t].state), NEW s \in Statuses, ApplyStatus(t, s)
    PROVE  Polled(t)
<1>1. ASSUME NEW entry, Follows(t, entry), store' = [store EXCEPT ![t] = entry], control' = control, launching' \subseteq launching
      PROVE  Polled(t)
  BY <1>1 DEF Polled
<1>2. s.state \in States /\ s.worker \in Launches /\ store[t].worker \in Launches \cup {None}
  BY PhasesAre DEF Statuses, States, DiskOK
<1>3. CASE FailTask(t)
  BY <1>3, FailTaskPolled
<1>4. CASE UNCHANGED <<store, control, launching>>
  BY <1>4, Unmoved
<1>5. CASE /\ store[t].state = "Queued" /\ t \in Dispatchable /\ s.state = InitialState(t)
           /\ store' = [store EXCEPT ![t] = Entry(s.state, s.worker)]
           /\ launching' = launching \ {t} /\ UNCHANGED control
  <2>1. Follows(t, Entry(s.state, s.worker))
    BY <1>2, <1>5, EntriesTyped, FALSE \in BOOLEAN DEF Follows, InitialState
  <2>. QED  BY <1>1, <1>5, <2>1
<1>6. CASE /\ s.state = "Paused" /\ store' = [store EXCEPT ![t] = Unclaimed("Paused")]
           /\ UNCHANGED <<control, launching>>
  <2>1. Follows(t, Unclaimed("Paused"))
    BY PhasesAre, EntriesTyped, "Paused" \in States, FALSE \in BOOLEAN DEF Follows, Working, States
  <2>. QED  BY <1>1, <1>6, <2>1
<1>7. CASE /\ store[t].state \in Phases /\ s.state \in Phases /\ PhaseIndex[s.state] > PhaseIndex[store[t].state]
           /\ store' = [store EXCEPT ![t] = Entry(s.state, store[t].worker)]
           /\ UNCHANGED <<control, launching>>
  <2>1. s.state # "Downloading"
    BY <1>7, PhasesAre DEF PhaseIndex
  <2>2. Follows(t, Entry(s.state, store[t].worker))
    BY <1>2, <1>7, <2>1, PhasesAre, EntriesTyped, FALSE \in BOOLEAN DEF Follows, Active
  <2>. QED  BY <1>1, <1>7, <2>2
<1>. QED  BY <1>3, <1>4, <1>5, <1>6, <1>7, ApplyStatusCases

LEMMA OutcomeFollows ==
    ASSUME NEW t \in Tasks, NEW entry, Follows(t, entry), NEW outcome \in Outcomes
    PROVE  Follows(t, Outcome(entry, outcome))
<1>1. \/ \E state \in {"Completed", "Cancelled", "Paused"} : Outcome(entry, outcome) = Unclaimed(state)
      \/ \E retry \in BOOLEAN : Outcome(entry, outcome) = Failed(retry)
      \/ Outcome(entry, outcome) = entry
  <2>1. (outcome = "Failed") \in BOOLEAN
    OBVIOUS
  <2>2. \/ Outcome(entry, outcome) = Unclaimed("Completed")
        \/ Outcome(entry, outcome) = Unclaimed("Cancelled")
        \/ Outcome(entry, outcome) = Unclaimed("Paused")
        \/ Outcome(entry, outcome) = Failed(outcome = "Failed")
        \/ Outcome(entry, outcome) = entry
    <3>1. CASE entry.state = "Cancelling" /\ outcome = "Completed"
      BY <3>1 DEF Outcome
    <3>2. CASE entry.state = "Cancelling" /\ outcome # "Completed"
      BY <3>2 DEF Outcome
    <3>3. CASE entry.state # "Cancelling"
      BY <3>3, Zenon DEF Outcome
    <3>. QED  BY <3>1, <3>2, <3>3
  <2>. QED  BY <2>1, <2>2, Zenon
<1>2. ASSUME NEW state \in {"Completed", "Cancelled", "Paused"} PROVE Follows(t, Unclaimed(state))
  BY PhasesAre, FALSE \in BOOLEAN DEF Follows, Working, EntryOK, Unclaimed, Entry, States
<1>3. ASSUME NEW retry \in BOOLEAN PROVE Follows(t, Failed(retry))
  BY PhasesAre DEF Follows, Working, EntryOK, Failed, States
<1>. QED  BY <1>1, <1>2, <1>3

Settle(t, entry, outcome) ==
    /\ store' = [store EXCEPT ![t] = Outcome(entry, outcome)]
    /\ completed' = IF Outcome(entry, outcome).state = "Completed" THEN completed \cup {t} ELSE completed
    /\ launching' = launching \ {t}
    /\ UNCHANGED control

LEMMA ApplyResultCases ==
    ASSUME NEW t \in Tasks, NEW outcome \in Outcomes, ApplyResult(t, outcome)
    PROVE  \/ launching' = launching \ {t} /\ UNCHANGED <<store, control, completed>>
           \/ FailTask(t) /\ UNCHANGED completed /\ store[t].state = "Queued"
           \/ /\ seen # None /\ t \in Dispatchable /\ store[t].state = "Queued"
              /\ Settle(t, Entry(InitialState(t), seen.worker), outcome)
           \/ Settle(t, store[t], outcome) /\ ~IsTerminal(store[t].state)
BY Zenon DEF ApplyResult, Settle

LEMMA ApplyResultPolled ==
    ASSUME DiskOK, completed \subseteq Tasks, seen \in Statuses \cup {None},
           NEW t \in Tasks, Stored(t), NEW outcome \in Outcomes, ApplyResult(t, outcome)
    PROVE  Polled(t) /\ completed' \subseteq completed \cup {t}
<1>2. CASE launching' = launching \ {t} /\ UNCHANGED <<store, control, completed>>
  BY <1>2, Unmoved
<1>3. CASE FailTask(t) /\ UNCHANGED completed
  BY <1>3, FailTaskPolled
<1>4. ASSUME NEW entry, Follows(t, entry), Settle(t, entry, outcome)
      PROVE  Polled(t) /\ completed' \subseteq completed \cup {t}
  <2>1. Follows(t, Outcome(entry, outcome))
    BY <1>4, OutcomeFollows
  <2>. QED  BY <1>4, <2>1 DEF Polled, Settle
<1>5. CASE seen # None /\ t \in Dispatchable /\ Settle(t, Entry(InitialState(t), seen.worker), outcome)
  <2>1. seen.worker \in Launches
    BY <1>5 DEF Statuses
  <2>2. EntryOK(Entry(InitialState(t), seen.worker)) /\ Entry(InitialState(t), seen.worker).state = InitialState(t)
    BY <2>1, PhasesAre, FALSE \in BOOLEAN DEF EntryOK, Entry, States, InitialState
  <2>3. Follows(t, Entry(InitialState(t), seen.worker))
    BY <1>5, <2>2 DEF Follows, InitialState
  <2>. QED  BY <1>4, <1>5, <2>3
<1>6. CASE Settle(t, store[t], outcome)
  <2>1. Follows(t, store[t])
    BY PhasesAre DEF DiskOK, Follows, EntryOK, Stored, Working, Active
  <2>. QED  BY <1>4, <1>6, <2>1
<1>. QED  BY <1>2, <1>3, <1>5, <1>6, ApplyResultCases

(* What a step of the poll leaves is well typed. *)
LEMMA PolledTyped ==
    ASSUME DiskOK, NEW t \in Tasks, Polled(t), UNCHANGED <<shape, status, result>>
    PROVE  DiskOK' /\ \A u \in Tasks : Stored(u) \/ u = t => Stored(u)'
<1>1. PICK entry : Follows(t, entry) /\ store' = [store EXCEPT ![t] = entry]
  BY DEF Polled
<1>2. store' \in [Tasks -> [state : States, worker : Launches \cup {None}, retry : BOOLEAN]]
  BY <1>1 DEF DiskOK, Follows, EntryOK
<1>3. control' \in [Tasks -> {"Continue", "Pause", "Cancel"}]
  BY DEF Polled, DiskOK
<1>4. \A u \in Tasks : Stored(u) \/ u = t => Stored(u)'
  BY <1>1 DEF Stored, Follows, DiskOK
<1>. QED  BY <1>2, <1>3, <1>4 DEF DiskOK

(* A step after which nothing is at work that was not, but for one            *)
(* dispatchable task, and nothing downloads that did not, but for the same.    *)
Advances == \E t \in Tasks : \A u \in Tasks :
    /\ Active(u)' => Active(u) \/ (u = t /\ t \in Dispatchable)
    /\ store[u]'.state = "Downloading" =>
          \/ store[u].state = "Downloading"
          \/ u = t /\ t \in Dispatchable /\ InitialState(t) = "Downloading"

LEMMA PolledAdvances ==
    ASSUME DiskOK, NEW t \in Tasks, Polled(t)
    PROVE  Advances
<1>1. PICK entry : Follows(t, entry) /\ store' = [store EXCEPT ![t] = entry]
  BY DEF Polled
<1>2. \A u \in Tasks : store[u]' = IF u = t THEN entry ELSE store[u]
  BY <1>1 DEF DiskOK
<1>3. \A u \in Tasks : Active(u)' <=> store[u]'.state \in {"Downloading", "Verifying", "Installing", "Removing", "Cancelling"}
  BY DEF Active
<1>. QED  BY <1>1, <1>2, <1>3, PhasesAre DEF Advances, Follows, Working, Active

(* Tasks whose entry is as it was, or no longer at work. *)
LEMMA RestingAdvances ==
    ASSUME \A u \in Tasks : store[u]'.state \in {store[u].state, "Absent", "Dismissed", "Queued", "Paused", "Completed", "Failed", "Cancelled"}
    PROVE  Advances
<1>1. 1 \in Tasks
  BY CountAssumption DEF Tasks
<1>2. \A u \in Tasks : Active(u)' => Active(u)
  BY DEF Active
<1>. QED  BY <1>1, <1>2 DEF Advances

LEMMA PollStatusPolled ==
    ASSUME TypeOK, PollStatus
    PROVE  at \in Tasks /\ at \in 0..TaskCount /\ Stored(at) /\ Polled(at)
<1>. USE DEF TypeOK
<1>1. at \in Tasks /\ at \in 0..TaskCount /\ Stored(at)
  BY DEF PollStatus, CoordinatorOK
<1>2. CASE IsTerminal(store[at].state)
  BY <1>1, <1>2, Unmoved DEF PollStatus
<1>3. CASE ~IsTerminal(store[at].state) /\ status[at] = None
  BY <1>1, <1>3, Unmoved DEF PollStatus
<1>4. CASE ~IsTerminal(store[at].state) /\ status[at] # None
  <2>1. status[at] \in Statuses
    BY <1>1, <1>4 DEF DiskOK
  <2>. QED  BY <1>1, <1>4, <2>1, ApplyStatusPolled DEF PollStatus
<1>. QED  BY <1>1, <1>2, <1>3, <1>4

LEMMA PollResultPolled ==
    ASSUME TypeOK, PollResult
    PROVE  at \in Tasks /\ at \in 0..TaskCount /\ Stored(at) /\ Polled(at) /\ completed' \subseteq completed \cup {at}
<1>. USE DEF TypeOK
<1>1. at \in Tasks /\ at \in 0..TaskCount /\ Stored(at)
  BY DEF PollResult, CoordinatorOK
<1>2. CASE result[at] = None
  BY <1>1, <1>2, Unmoved DEF PollResult
<1>3. CASE result[at] # None
  <2>1. result[at] \in Outcomes
    BY <1>1, <1>3 DEF DiskOK
  <2>. QED  BY <1>1, <1>3, <2>1, ApplyResultPolled DEF PollResult, CoordinatorOK
<1>. QED  BY <1>1, <1>2, <1>3

LEMMA PollStatusSafe ==
    ASSUME TypeOK, PollStatus
    PROVE  TypeOK' /\ Advances
<1>. USE DEF TypeOK
<1>1. at \in Tasks /\ at \in 0..TaskCount /\ Stored(at)
  BY PollStatusPolled
<1>2. UNCHANGED <<shape, status, result, ready, completed, process, doubled>>
  BY DEF PollStatus, ghosts
<1>3. Polled(at)
  BY PollStatusPolled
<1>4. DiskOK' /\ \A u \in Tasks : Stored(u) \/ u = at => Stored(u)'
  BY <1>1, <1>2, <1>3, PolledTyped
<1>5. launching' \subseteq Tasks /\ completed' \subseteq Tasks /\ doubled' \subseteq Tasks
  BY <1>2, <1>3 DEF Polled, CoordinatorOK
<1>6. CoordinatorOK'
  <2>1. CASE IsTerminal(store[at].state)
    <3>1. PollAfter(at)
      BY <2>1 DEF PollStatus
    <3>. QED  BY <1>1, <1>4, <1>5, <3>1, PollAfterTyped
  <2>2. CASE ~IsTerminal(store[at].state)
    <3>1. pc' = "result" /\ at' = at /\ seen' = status[at]
      BY <2>2 DEF PollStatus
    <3>2. Stored(at)'
      BY <1>1, <1>4, <3>1 DEF Stored
    <3>3. status[at] \in Statuses \cup {None}
      BY <1>1 DEF DiskOK
    <3>. QED  BY <1>1, <1>5, <3>1, <3>2, <3>3 DEF CoordinatorOK
  <2>. QED  BY <2>1, <2>2
<1>7. WorkersOK' /\ ready' \in BOOLEAN
  BY <1>2 DEF WorkersOK
<1>. QED  BY <1>1, <1>3, <1>4, <1>6, <1>7, PolledAdvances

LEMMA PollResultSafe ==
    ASSUME TypeOK, PollResult
    PROVE  TypeOK' /\ Advances
<1>. USE DEF TypeOK
<1>1. at \in Tasks /\ at \in 0..TaskCount /\ Stored(at)
  BY PollResultPolled
<1>2. UNCHANGED <<shape, status, result, ready, process, doubled>>
  BY DEF PollResult, ghosts
<1>3. Polled(at) /\ completed' \subseteq completed \cup {at}
  BY PollResultPolled
<1>4. DiskOK' /\ \A u \in Tasks : Stored(u) \/ u = at => Stored(u)'
  BY <1>1, <1>2, <1>3, PolledTyped
<1>5. launching' \subseteq Tasks /\ completed' \subseteq Tasks /\ doubled' \subseteq Tasks
  BY <1>1, <1>2, <1>3 DEF Polled, CoordinatorOK
<1>6. CoordinatorOK'
  BY <1>1, <1>4, <1>5, PollAfterTyped DEF PollResult
<1>7. WorkersOK' /\ ready' \in BOOLEAN
  BY <1>2 DEF WorkersOK
<1>. QED  BY <1>1, <1>3, <1>4, <1>6, <1>7, PolledAdvances

LEMMA ReconciledRests ==
    ASSUME DiskOK
    PROVE  /\ Reconciled \in [Tasks -> [state : States, worker : Launches \cup {None}, retry : BOOLEAN]]
           /\ \A t \in Tasks :
                 \/ Reconciled[t] = store[t]
                 \/ Active(t) /\ Reconciled[t].state \in {"Queued", "Cancelled", "Failed"}
<1>1. \A t \in Tasks :
         /\ Reconciled[t] = IF ~Abandoned(t) THEN store[t]
                            ELSE CASE store[t].state = "Downloading" -> Unclaimed("Queued")
                                   [] store[t].state = "Cancelling" -> Unclaimed("Cancelled")
                                   [] OTHER -> Failed(TRUE)
  BY DEF Reconciled
<1>2. \A state \in {"Queued", "Cancelled"} : EntryOK(Unclaimed(state)) /\ Unclaimed(state).state = state
  BY DEF EntryOK, Unclaimed, Entry, States
<1>3. EntryOK(Failed(TRUE)) /\ Failed(TRUE).state = "Failed"
  BY DEF EntryOK, Failed, States
<1>4. ASSUME NEW t \in Tasks
      PROVE  /\ EntryOK(Reconciled[t])
             /\ \/ Reconciled[t] = store[t]
                \/ Active(t) /\ Reconciled[t].state \in {"Queued", "Cancelled", "Failed"}
  <2>1. CASE ~Abandoned(t)
    <3>1. Reconciled[t] = store[t]
      BY <1>1, <2>1
    <3>2. EntryOK(store[t])
      BY DEF DiskOK, EntryOK
    <3>. QED  BY <3>1, <3>2
  <2>2. CASE Abandoned(t)
    <3>1. Active(t)
      BY <2>2 DEF Abandoned
    <3>. QED  BY <1>1, <1>2, <1>3, <2>2, <3>1
  <2>. QED  BY <2>1, <2>2
<1>5. Reconciled = [t \in Tasks |-> Reconciled[t]]
  BY DEF Reconciled
<1>. QED  BY <1>4, <1>5 DEF EntryOK

LEMMA ReconcileFirstSafe ==
    ASSUME TypeOK, ReconcileFirst
    PROVE  TypeOK' /\ Advances
<1>. USE DEF TypeOK
<1>1. /\ UNCHANGED <<shape, status, result, control, launching, completed, process, doubled>>
      /\ store' = Reconciled
  BY DEF ReconcileFirst, journals, ghosts
<1>2. DiskOK'
  BY <1>1, ReconciledRests DEF DiskOK
<1>3. \A u \in Tasks : Stored(u) => Stored(u)'
  BY <1>1, ReconciledRests DEF Stored
<1>4. CoordinatorOK'
  <2>1. PollAfter(0) /\ 0 \in 0..TaskCount
    BY CountAssumption DEF ReconcileFirst, PollFirst
  <2>. QED  BY <1>1, <1>3, <2>1, PollAfterTyped DEF CoordinatorOK
<1>5. WorkersOK'
  BY <1>1 DEF WorkersOK
<1>6. ready' \in BOOLEAN
  BY Zenon DEF ReconcileFirst
<1>7. Advances
  BY <1>1, ReconciledRests, RestingAdvances
<1>. QED  BY <1>2, <1>4, <1>5, <1>6, <1>7

LEMMA ReconcileSafe ==
    ASSUME TypeOK, Reconcile
    PROVE  TypeOK' /\ Advances
<1>. USE DEF TypeOK
<1>1. UNCHANGED <<shape, status, result, at, seen, ready, completed, process, doubled>> /\ pc' = "commands"
  BY DEF Reconcile, ghosts
<1>2. PICK late \in SUBSET launching :
         LET failing == {t \in late : Reconciled[t].state = "Queued"} IN
         /\ store' = [t \in Tasks |-> IF t \in failing THEN Failed(TRUE) ELSE Reconciled[t]]
         /\ control' = [t \in Tasks |-> IF t \in failing THEN "Cancel" ELSE control[t]]
         /\ launching' = launching \ late
  BY DEF Reconcile
<1>3. EntryOK(Failed(TRUE)) /\ Failed(TRUE).state = "Failed"
  BY DEF EntryOK, Failed, States
<1>4. DiskOK'
  BY <1>1, <1>2, <1>3, ReconciledRests DEF DiskOK, EntryOK
<1>5. CoordinatorOK'
  BY <1>1, <1>2 DEF CoordinatorOK
<1>6. WorkersOK' /\ ready' \in BOOLEAN
  BY <1>1 DEF WorkersOK
<1>7. \A u \in Tasks : store[u]' = Failed(TRUE) \/ store[u]' = Reconciled[u]
  BY <1>2
<1>8. Advances
  BY <1>3, <1>7, ReconciledRests, RestingAdvances
<1>. QED  BY <1>4, <1>5, <1>6, <1>8

LEMMA DispatchSafe ==
    ASSUME TypeOK, Dispatch
    PROVE  TypeOK' /\ Advances
<1>. USE DEF TypeOK
<1>. USE CountAssumption
<1>1. UNCHANGED <<shape, ready, completed>> /\ PollAfter(0) /\ 0 \in 0..TaskCount
  BY DEF Dispatch, PollFirst
<1>. DEFINE Due == Dispatchable \ launching
            Used == Cardinality(DOMAIN process)
            Pid(started, t) == Used + Cardinality({u \in started : u <= t})
<1>2. PICK started \in SUBSET Due :
         /\ Used + Cardinality(started) <= MaxLaunches
         /\ store' = [t \in Tasks |-> IF t \in Due \ started THEN Failed(TRUE) ELSE store[t]]
         /\ status' = [t \in Tasks |-> IF t \in Due THEN None ELSE status[t]]
         /\ result' = [t \in Tasks |-> IF t \in Due THEN None ELSE result[t]]
         /\ control' = [t \in Tasks |-> IF t \in Due THEN "Continue" ELSE control[t]]
         /\ process' = [w \in DOMAIN process \cup {Pid(started, t) : t \in started} |->
                           IF w \in DOMAIN process THEN process[w]
                           ELSE [task |-> CHOOSE t \in started : Pid(started, t) = w, place |-> "start", outcome |-> None]]
         /\ launching' = launching \cup started
         /\ doubled' = doubled \cup {t \in Due : WorkersOf(t) # {}}
  BY DEF Dispatch
<1>3. EntryOK(Failed(TRUE)) /\ Failed(TRUE).state = "Failed"
  BY DEF EntryOK, Failed, States
<1>4. DiskOK'
  BY <1>1, <1>2, <1>3 DEF DiskOK, EntryOK
<1>5. \A u \in Tasks : store[u]' = store[u] \/ store[u]'.state = "Failed"
  BY <1>2, <1>3
<1>6. Due \subseteq Tasks
  BY DispatchableGreedy
<1>7. CoordinatorOK'
  <2>1. \A u \in Tasks : Stored(u) => Stored(u)'
    BY <1>5 DEF Stored
  <2>2. launching' \subseteq Tasks /\ completed' \subseteq Tasks /\ doubled' \subseteq Tasks
    BY <1>1, <1>2, <1>6 DEF CoordinatorOK
  <2>. QED  BY <1>1, <2>1, <2>2, PollAfterTyped
<1>8. WorkersOK'
  <2>1. IsFiniteSet(started) /\ IsFiniteSet(DOMAIN process)
    <3>1. IsFiniteSet(Tasks) /\ IsFiniteSet(Launches)
      BY FS_Interval DEF Tasks, Launches
    <3>. QED  BY <1>6, <3>1, FS_Subset DEF WorkersOK
  <2>2. Used \in Nat /\ Cardinality(started) \in Nat
    BY <2>1, FS_CardinalityType
  <2>3. ASSUME NEW t \in started PROVE Pid(started, t) \in Launches
    <3>. DEFINE Before == {u \in started : u <= t}
    <3>1. IsFiniteSet(Before) /\ Cardinality(Before) <= Cardinality(started)
      BY <2>1, FS_Subset
    <3>2. Cardinality(Before) \in Nat
      BY <3>1, FS_CardinalityType
    <3>3. t \in Before
      BY <1>6 DEF Tasks
    <3>4. Cardinality(Before) # 0
      BY <3>1, <3>3, FS_EmptySet
    <3>. HIDE DEF Before
    <3>5. Used + Cardinality(Before) \in Launches
      BY <1>2, <2>2, <3>1, <3>2, <3>4 DEF Launches
    <3>. QED  BY <3>5 DEF Before
  <2>. HIDE DEF Pid
  <2>4. DOMAIN process' \subseteq Launches
    BY <1>2, <2>3 DEF WorkersOK
  <2>5. ASSUME NEW w \in DOMAIN process'
        PROVE  /\ process'[w] \in [task : Tasks, place : Places, outcome : Outcomes \cup {None}]
               /\ process'[w].place \in {"end", "result"} => process'[w].outcome \in Outcomes
    <3>1. CASE w \in DOMAIN process
      BY <1>2, <3>1 DEF WorkersOK
    <3>2. CASE w \notin DOMAIN process
      <4>1. PICK t \in started : Pid(started, t) = w
        BY <1>2, <3>2
      <4>2. (CHOOSE u \in started : Pid(started, u) = w) \in started
        BY <4>1
      <4>3. process'[w] = [task |-> CHOOSE u \in started : Pid(started, u) = w, place |-> "start", outcome |-> None]
        BY <1>2, <3>2
      <4>4. (CHOOSE u \in started : Pid(started, u) = w) \in Tasks
        BY <1>6, <4>2
      <4>. QED  BY <4>3, <4>4 DEF Places
    <3>. QED  BY <3>1, <3>2
  <2>6. process' = [w \in DOMAIN process' |-> process'[w]]
    BY <1>2
  <2>. QED  BY <2>4, <2>5, <2>6 DEF WorkersOK
<1>9. ready' \in BOOLEAN
  BY <1>1
<1>10. Advances
  BY <1>5, RestingAdvances
<1>. QED  BY <1>4, <1>7, <1>8, <1>9, <1>10

(* The requests: one entry of the store, one control. *)
LEMMA EnqueueSafe ==
    ASSUME TypeOK, NEW t \in Tasks, Enqueue(t), pc = "commands"
    PROVE  TypeOK' /\ Advances
<1>1. EntryOK(Unclaimed("Queued")) /\ Unclaimed("Queued").state = "Queued"
  BY DEF EntryOK, Unclaimed, Entry, States
<1>2. DiskOK'
  BY <1>1 DEF TypeOK, DiskOK, EntryOK, Enqueue
<1>3. CoordinatorOK'
  BY DEF TypeOK, CoordinatorOK, Enqueue, hub
<1>4. WorkersOK' /\ ready' \in BOOLEAN
  BY DEF TypeOK, WorkersOK, Enqueue, hub
<1>5. \A u \in Tasks : store[u]' = store[u] \/ store[u]'.state = "Queued"
  BY <1>1 DEF TypeOK, DiskOK, Enqueue
<1>6. Advances
  BY <1>5, RestingAdvances
<1>. QED  BY <1>2, <1>3, <1>4, <1>6 DEF TypeOK

(* The requests that change the store and the controls only. *)
LEMMA OnlyStoreTyped ==
    ASSUME TypeOK, OnlyStore, pc = "commands",
           store' \in [Tasks -> [state : States, worker : Launches \cup {None}, retry : BOOLEAN]],
           control' \in [Tasks -> {"Continue", "Pause", "Cancel"}]
    PROVE  TypeOK'
<1>1. DiskOK'
  BY DEF TypeOK, DiskOK, OnlyStore
<1>2. CoordinatorOK'
  BY DEF TypeOK, CoordinatorOK, OnlyStore, hub
<1>3. WorkersOK' /\ ready' \in BOOLEAN
  BY DEF TypeOK, WorkersOK, OnlyStore, hub
<1>. QED  BY <1>1, <1>2, <1>3 DEF TypeOK

LEMMA PauseSafe ==
    ASSUME TypeOK, NEW t \in Tasks, Pause(t)
    PROVE  TypeOK' /\ Advances
<1>1. TypeOK'
  BY OnlyStoreTyped DEF TypeOK, DiskOK, Pause
<1>2. Advances
  BY RestingAdvances DEF Pause
<1>. QED  BY <1>1, <1>2

LEMMA CancelSafe ==
    ASSUME TypeOK, NEW t \in Tasks, Cancel(t)
    PROVE  TypeOK' /\ Advances
<1>. DEFINE entry == IF store[t].state \in {"Queued", "Paused"} THEN Unclaimed("Cancelled")
                     ELSE Entry("Cancelling", store[t].worker)
<1>1. store' = [store EXCEPT ![t] = entry] /\ OnlyStore /\ control' = [control EXCEPT ![t] = "Cancel"] /\ pc = "commands"
  BY DEF Cancel, Request
<1>2. /\ EntryOK(Unclaimed("Cancelled")) /\ Unclaimed("Cancelled").state = "Cancelled"
      /\ EntryOK(Entry("Cancelling", store[t].worker)) /\ Entry("Cancelling", store[t].worker).state = "Cancelling"
  BY DEF EntryOK, Unclaimed, Entry, States, TypeOK, DiskOK
<1>3. store' \in [Tasks -> [state : States, worker : Launches \cup {None}, retry : BOOLEAN]]
  BY <1>1, <1>2 DEF EntryOK, TypeOK, DiskOK
<1>4. control' \in [Tasks -> {"Continue", "Pause", "Cancel"}]
  BY <1>1 DEF TypeOK, DiskOK
<1>5. store[t].state \in {"Queued", "Paused", "Cancelling"} \cup Phases
  BY DEF Cancel, Stored, IsTerminal, TypeOK, DiskOK, States
<1>6. store[t].state \notin {"Queued", "Paused"} => Active(t)
  BY <1>5, PhasesAre DEF Active
<1>7. \A u \in Tasks : store[u]' = IF u = t THEN entry ELSE store[u]
  BY <1>1 DEF TypeOK, DiskOK
<1>8. Advances
  <2>. HIDE DEF entry
  <2>1. entry.state \in {"Cancelled", "Cancelling"} /\ (entry.state = "Cancelling" => Active(t))
    BY <1>2, <1>6 DEF entry
  <2>. QED  BY <1>7, <2>1 DEF Advances, Active
<1>. QED  BY <1>1, <1>3, <1>4, <1>8, OnlyStoreTyped

LEMMA DismissSafe ==
    ASSUME TypeOK, (\E t \in Tasks : Dismiss(t)) \/ ClearFinished
    PROVE  TypeOK' /\ Advances
<1>1. EntryOK(Unclaimed("Dismissed")) /\ Unclaimed("Dismissed").state = "Dismissed"
  BY DEF EntryOK, Unclaimed, Entry, States
<1>2. OnlyStore /\ control' = control /\ pc = "commands"
  BY DEF Dismiss, ClearFinished, Request
<1>3. /\ store' \in [Tasks -> [state : States, worker : Launches \cup {None}, retry : BOOLEAN]]
      /\ \A u \in Tasks : store[u]' = store[u] \/ store[u]'.state = "Dismissed"
  BY <1>1 DEF EntryOK, TypeOK, DiskOK, Dismiss, ClearFinished
<1>4. Advances
  BY <1>3, RestingAdvances
<1>5. control' \in [Tasks -> {"Continue", "Pause", "Cancel"}]
  BY <1>2 DEF TypeOK, DiskOK
<1>. QED  BY <1>2, <1>3, <1>4, <1>5, OnlyStoreTyped

LEMMA RequestsSafe ==
    ASSUME TypeOK, Requests
    PROVE  TypeOK' /\ Advances
<1>1. ASSUME NEW t \in Tasks, Queue(t) \/ Resume(t) \/ Retry(t) PROVE TypeOK' /\ Advances
  BY <1>1, EnqueueSafe DEF Queue, Resume, Retry, Request
<1>. QED  BY <1>1, PauseSafe, CancelSafe, DismissSafe DEF Requests

LEMMA HubSafe ==
    ASSUME TypeOK, HubStarts \/ HubStops
    PROVE  TypeOK' /\ Advances
<1>. USE DEF TypeOK
<1>1. UNCHANGED <<shape, store, status, result, control, process, doubled>>
  BY DEF HubStarts, HubStops, journals, ghosts
<1>2. DiskOK' /\ WorkersOK'
  BY <1>1 DEF DiskOK, WorkersOK
<1>3. Advances
  BY <1>1, RestingAdvances
<1>4. CASE HubStarts
  <2>1. PollAfter(0) /\ 0 \in 0..TaskCount /\ UNCHANGED <<ready, launching>> /\ completed' = Restored
    BY <1>4, CountAssumption DEF HubStarts, PollFirst
  <2>2. Restored \subseteq Tasks
    BY DEF Restored
  <2>3. \A u \in Tasks : Stored(u) => Stored(u)'
    BY <1>1 DEF Stored
  <2>4. CoordinatorOK'
    BY <1>1, <2>1, <2>2, <2>3, PollAfterTyped DEF CoordinatorOK
  <2>. QED  BY <1>2, <1>3, <2>1, <2>4
<1>5. CASE HubStops
  <2>1. CoordinatorOK'
    BY <1>1, <1>5, CountAssumption DEF HubStops, CoordinatorOK
  <2>2. ready' \in BOOLEAN
    BY <1>5, Zenon DEF HubStops
  <2>. QED  BY <1>2, <1>3, <2>1, <2>2
<1>. QED  BY <1>4, <1>5

(* The workers change their journals, and themselves. *)
LEMMA ProcessTyped ==
    ASSUME WorkersOK, NEW w \in DOMAIN process, NEW place \in Places, NEW outcome \in Outcomes \cup {None},
           place \in {"end", "result"} => outcome \in Outcomes,
           process' = [process EXCEPT ![w].place = place, ![w].outcome = outcome]
    PROVE  WorkersOK'
BY DEF WorkersOK

LEMMA FinishTyped ==
    ASSUME WorkersOK, NEW w \in DOMAIN process, NEW outcome \in Outcomes, Finish(w, outcome)
    PROVE  WorkersOK'
<1>1. "end" \in Places
  BY DEF Places
<1>. QED  BY <1>1, ProcessTyped DEF Finish

LEMMA EnterTyped ==
    ASSUME WorkersOK, NEW w \in DOMAIN process, NEW place \in Places, Enter(w, place),
           place \in {"end", "result"} => process[w].outcome \in Outcomes
    PROVE  WorkersOK'
BY DEF WorkersOK, Enter

LEMMA LeaveTyped ==
    ASSUME WorkersOK, NEW w \in DOMAIN process, Leave(w)
    PROVE  WorkersOK'
<1>1. "gone" \in Places
  BY DEF Places
<1>. QED  BY <1>1, ProcessTyped DEF Leave

LEMMA PublishTyped ==
    ASSUME DiskOK, WorkersOK, NEW w \in DOMAIN process, NEW state, Publish(w, state),
           state \in Phases \cup {"Completed", "Failed", "Cancelled", "Paused"}
    PROVE  status' \in [Tasks -> Statuses \cup {None}]
<1>1. process[w].task \in Tasks /\ w \in Launches
  BY DEF WorkersOK
<1>2. [state |-> state, worker |-> w] \in Statuses
  BY <1>1 DEF Statuses
<1>. QED  BY <1>1, <1>2 DEF Publish, DiskOK

LEMMA WorkerTyped ==
    ASSUME TypeOK, NEW w \in DOMAIN process, Work(w) \/ WorkerFails(w) \/ WorkerDies(w)
    PROVE  /\ WorkersOK'
           /\ status' \in [Tasks -> Statuses \cup {None}]
           /\ result' \in [Tasks -> Outcomes \cup {None}]
<1>. USE DEF TypeOK
<1>. DEFINE NoStatus == status' \in [Tasks -> Statuses \cup {None}]
            NoResult == result' \in [Tasks -> Outcomes \cup {None}]
<1>2. status' = status => NoStatus
  BY DEF DiskOK
<1>3. result' = result => NoResult
  BY DEF DiskOK
<1>. HIDE DEF NoStatus, NoResult
<1>4. CASE WorkerStarts(w)
  <2>1. InitialState(process[w].task) \in Phases
    BY PhasesAre DEF InitialState
  <2>2. WorkersOK'
    BY <1>4, <2>1, PhasesAre, EnterTyped DEF WorkerStarts, Places
  <2>. QED  BY <1>3, <1>4, <2>1, <2>2, PublishTyped DEF WorkerStarts, NoStatus, NoResult
<1>5. CASE WorkerAdvances(w)
  <2>1. NoResult
    BY <1>3, <1>5 DEF WorkerAdvances
  <2>2. CASE Told(w) # "Continue"
    <3>1. Told(w) \in Outcomes
      BY <2>2 DEF Told, Outcomes
    <3>2. Finish(w, Told(w))
      BY <1>5, <2>2 DEF WorkerAdvances
    <3>3. NoStatus
      BY <1>2, <3>2 DEF Finish
    <3>. QED  BY <2>1, <3>1, <3>2, <3>3, FinishTyped DEF NoStatus, NoResult
  <2>3. CASE Told(w) = "Continue"
    <3>. DEFINE next == NextPhase(KindOf(w), process[w].place)
    <3>1. next \in {"Installing", "Verifying", "publishing"}
      BY <1>5, PhasesAre DEF WorkerAdvances, Looks, NextPhase
    <3>2. Enter(w, next) /\ (IF next = "publishing" THEN UNCHANGED status ELSE Publish(w, next))
      BY <1>5, <2>3 DEF WorkerAdvances
    <3>. HIDE DEF next
    <3>3. WorkersOK'
      BY <3>1, <3>2, PhasesAre, EnterTyped DEF Places
    <3>4. NoStatus
      BY <1>2, <3>1, <3>2, PhasesAre, PublishTyped DEF NoStatus
    <3>. QED  BY <2>1, <3>3, <3>4 DEF NoStatus, NoResult
  <2>. QED  BY <2>2, <2>3
<1>6. CASE WorkerCompletes(w)
  <2>1. Finish(w, "Completed") /\ status' = status /\ result' = result
    BY <1>6 DEF WorkerCompletes, Finish
  <2>2. WorkersOK'
    BY <2>1, FinishTyped DEF Outcomes
  <2>. QED  BY <1>2, <1>3, <2>1, <2>2 DEF NoStatus, NoResult
<1>7. CASE WorkerReports(w)
  <2>. DEFINE state == IF process[w].outcome = "Fatal" THEN "Failed" ELSE process[w].outcome
  <2>1. process[w].outcome \in Outcomes
    BY <1>7 DEF WorkerReports, WorkersOK
  <2>2. state \in {"Completed", "Failed", "Cancelled", "Paused"}
    BY <2>1 DEF Outcomes
  <2>3. Publish(w, state) /\ Enter(w, "result") /\ result' = result
    BY <1>7 DEF WorkerReports
  <2>. HIDE DEF state
  <2>4. WorkersOK'
    BY <2>1, <2>3, EnterTyped DEF Places
  <2>. QED  BY <1>3, <2>2, <2>3, <2>4, PublishTyped DEF NoStatus, NoResult
<1>8. CASE WorkerWritesResult(w)
  <2>1. process[w].outcome \in Outcomes /\ process[w].task \in Tasks
    BY <1>8 DEF WorkerWritesResult, WorkersOK
  <2>2. result' \in [Tasks -> Outcomes \cup {None}]
    BY <1>8, <2>1 DEF WorkerWritesResult, DiskOK
  <2>. QED  BY <1>2, <1>8, <2>2, LeaveTyped DEF WorkerWritesResult, NoStatus
<1>9. CASE WorkerFails(w)
  <2>1. \E outcome \in {"Failed", "Fatal"} : Finish(w, outcome)
    BY <1>9 DEF WorkerFails
  <2>2. status' = status /\ result' = result
    BY <1>9 DEF WorkerFails, Finish
  <2>3. WorkersOK'
    BY <2>1, FinishTyped DEF Outcomes
  <2>. QED  BY <1>2, <1>3, <2>2, <2>3 DEF NoStatus, NoResult
<1>10. CASE WorkerDies(w)
  <2>1. Leave(w) /\ status' = status /\ result' = result
    BY <1>10 DEF WorkerDies, journals
  <2>. QED  BY <1>2, <1>3, <2>1, LeaveTyped DEF NoStatus, NoResult
<1>. QED  BY <1>4, <1>5, <1>6, <1>7, <1>8, <1>9, <1>10 DEF Work

LEMMA WorkerSafe ==
    ASSUME TypeOK, NEW w \in DOMAIN process, Work(w) \/ WorkerFails(w) \/ WorkerDies(w)
    PROVE  TypeOK' /\ Advances
<1>. USE DEF TypeOK
<1>1. UNCHANGED <<shape, store, control, pc, at, seen, ready, launching, completed, doubled>>
  BY DEF Work, WorkerStarts, WorkerAdvances, WorkerCompletes, WorkerReports, WorkerWritesResult, WorkerFails, WorkerDies,
         OnlyWorker, hub, ghosts, journals
<1>2. DiskOK' /\ WorkersOK'
  BY <1>1, WorkerTyped DEF DiskOK
<1>3. CoordinatorOK' /\ ready' \in BOOLEAN
  BY <1>1 DEF CoordinatorOK, Stored
<1>4. Advances
  BY <1>1, RestingAdvances
<1>. QED  BY <1>2, <1>3, <1>4

(***************************************************************************)
(* The theorems.                                                           *)
(***************************************************************************)

(* What a step does to the hub and its workers is well typed, and it puts no   *)
(* more than one task to work, a dispatchable one.                             *)
LEMMA StepSafe ==
    ASSUME TypeOK, [Next]_vars
    PROVE  TypeOK' /\ Advances /\ shape' = shape
<1>1. CASE UNCHANGED vars
  <2>1. TypeOK'
    BY <1>1 DEF vars, journals, hub, ghosts, TypeOK, DiskOK, CoordinatorOK, WorkersOK, Stored
  <2>2. Advances /\ shape' = shape
    BY <1>1, RestingAdvances DEF vars
  <2>. QED  BY <2>1, <2>2
<1>2. CASE Next
  <2>1. TypeOK' /\ Advances
    BY <1>2, PollStatusSafe, PollResultSafe, ReconcileFirstSafe, ReconcileSafe, DispatchSafe, RequestsSafe, HubSafe,
       WorkerSafe DEF Next, Coordinate
  <2>2. shape' = shape
    BY <1>2 DEF Next, Coordinate, PollStatus, PollResult, ReconcileFirst, Reconcile, Dispatch, Requests, Queue, Resume,
           Retry, Enqueue, Pause, Cancel, Dismiss, ClearFinished, OnlyStore, HubStarts, HubStops, Work, WorkerStarts,
           WorkerAdvances, WorkerCompletes, WorkerReports, WorkerWritesResult, WorkerFails, WorkerDies, OnlyWorker
  <2>. QED  BY <2>1, <2>2
<1>. QED  BY <1>1, <1>2

(* Every variable stays in range; a task that is polled is a stored one.       *)
THEOREM TypeCorrect == Spec => []TypeOK
<1>1. TypeOK /\ [Next]_vars => TypeOK'
  BY StepSafe
<1>. QED  BY <1>1, InitTyped, PTL DEF Spec

(* At any time the claimed tasks share no package and no installation, and no  *)
(* more of them download than may (HubTaskManager.cpp:21), for every queue.    *)
THEOREM TasksApart == Spec => []ActiveApart
<1>1. Init => ActiveApart
  <2>. SUFFICES ASSUME Init PROVE ActiveApart
    OBVIOUS
  <2>1. \A t \in Tasks : store[t].state \in {"Queued", "Absent"}
    BY DEF Init, Unclaimed, Entry
  <2>2. \A t \in Tasks : ~Active(t)
    BY <2>1 DEF Active
  <2>3. Downloads = {}
    BY <2>1 DEF Downloads
  <2>4. Cardinality(Downloads) <= MaximumDownloads
    BY <2>3, FS_EmptySet, CountAssumption
  <2>. QED  BY <2>2, <2>4 DEF ActiveApart
<1>2. TypeOK /\ ActiveApart /\ [Next]_vars => ActiveApart'
  <2>. SUFFICES ASSUME TypeOK, ActiveApart, [Next]_vars PROVE ActiveApart'
    OBVIOUS
  <2>1. Advances /\ shape' = shape
    BY StepSafe
  <2>2. PICK t \in Tasks : \A u \in Tasks :
           /\ Active(u)' => Active(u) \/ (u = t /\ t \in Dispatchable)
           /\ store[u]'.state = "Downloading" =>
                 \/ store[u].state = "Downloading"
                 \/ u = t /\ t \in Dispatchable /\ InitialState(t) = "Downloading"
    BY <2>1 DEF Advances
  <2>. DEFINE before == {u \in Dispatchable : Earlier(u, t)}
  <2>3. t \in Dispatchable => Starts(t, before)
    BY DispatchableGreedy
  <2>. HIDE DEF before
  <2>4. \A u, v \in Tasks : Overlap(u, v)' = Overlap(u, v) /\ (Overlap(u, v) => Overlap(v, u))
    BY <2>1 DEF Overlap
  <2>5. t \in Dispatchable => \A u \in Tasks : Active(u) => ~Overlap(t, u)
    BY <2>3 DEF Starts, Locked
  <2>6. ASSUME NEW u \in Tasks, NEW v \in Tasks, u # v, Active(u)', Active(v)'
        PROVE  ~Overlap(u, v)'
    <3>1. CASE Active(u) /\ Active(v)
      BY <2>4, <2>6, <3>1 DEF ActiveApart
    <3>2. CASE ~Active(u)
      BY <2>2, <2>4, <2>5, <2>6, <3>2
    <3>3. CASE ~Active(v)
      BY <2>2, <2>4, <2>5, <2>6, <3>3
    <3>. QED  BY <3>1, <3>2, <3>3
  <2>7. (Cardinality(Downloads) <= MaximumDownloads)'
    <3>1. IsFiniteSet(Tasks) /\ MaximumDownloads \in Nat
      BY CountAssumption, FS_Interval DEF Tasks
    <3>2. IsFiniteSet(Downloads) /\ Cardinality(Downloads) \in Nat
      BY <3>1, FS_Subset, FS_CardinalityType DEF Downloads
    <3>3. CASE Downloads' \subseteq Downloads
      <4>1. Cardinality(Downloads') <= Cardinality(Downloads) /\ Cardinality(Downloads') \in Nat
        BY <3>2, <3>3, FS_Subset, FS_CardinalityType
      <4>2. Cardinality(Downloads) <= MaximumDownloads
        BY DEF ActiveApart
      <4>. QED  BY <3>1, <3>2, <4>1, <4>2, CountAssumption
    <3>4. CASE ~(Downloads' \subseteq Downloads)
      <4>1. t \in Dispatchable /\ InitialState(t) = "Downloading" /\ Downloads' \subseteq Downloads \cup {t}
        BY <2>2, <3>4 DEF Downloads
      <4>. DEFINE Taken == Downloads \cup {u \in before : InitialState(u) = "Downloading"}
      <4>2. Cardinality(Taken) < MaximumDownloads
        BY <2>3, <4>1 DEF Starts
      <4>3. Taken \subseteq Tasks
        BY DispatchableGreedy DEF before, Downloads
      <4>4. IsFiniteSet(Taken) /\ Cardinality(Taken) \in Nat
        BY <3>1, <4>3, FS_Subset, FS_CardinalityType
      <4>5. Downloads' \subseteq Taken \cup {t}
        BY <4>1
      <4>. HIDE DEF Taken
      <4>6. IsFiniteSet(Taken \cup {t}) /\ Cardinality(Taken \cup {t}) <= Cardinality(Taken) + 1
        BY <4>4, FS_AddElement
      <4>7. Cardinality(Taken \cup {t}) \in Nat
        BY <4>6, FS_CardinalityType
      <4>8. Cardinality(Downloads') <= Cardinality(Taken \cup {t}) /\ Cardinality(Downloads') \in Nat
        BY <4>5, <4>6, FS_Subset, FS_CardinalityType
      <4>. QED  BY <3>1, <4>2, <4>4, <4>6, <4>7, <4>8, CountAssumption
    <3>. QED  BY <3>3, <3>4
  <2>. QED  BY <2>6, <2>7 DEF ActiveApart
<1>. QED  BY <1>1, <1>2, InitTyped, StepSafe, TypeCorrect, PTL DEF Spec

(* Nothing but Dispatch launches a worker.                                     *)
LEMMA LaunchedByDispatch ==
    ASSUME TypeOK, Next, ~Dispatch
    PROVE  launching' \subseteq launching
<1>1. CASE PollStatus \/ PollResult
  BY <1>1, PollStatusPolled, PollResultPolled DEF Polled
<1>2. CASE ReconcileFirst \/ Reconcile \/ HubStarts \/ HubStops
  BY <1>2 DEF ReconcileFirst, Reconcile, HubStarts, HubStops
<1>3. CASE Requests
  BY <1>3 DEF Requests, Queue, Resume, Retry, Enqueue, Pause, Cancel, Dismiss, ClearFinished, OnlyStore, hub
<1>4. ASSUME NEW w \in DOMAIN process, Work(w) \/ WorkerFails(w) \/ WorkerDies(w) PROVE launching' \subseteq launching
  BY <1>4 DEF Work, WorkerStarts, WorkerAdvances, WorkerCompletes, WorkerReports, WorkerWritesResult, WorkerFails,
         WorkerDies, OnlyWorker, hub
<1>. QED  BY <1>1, <1>2, <1>3, <1>4 DEF Next, Coordinate

(* Dispatch launches dispatchable tasks, and claims none.                      *)
LEMMA DispatchLaunches ==
    ASSUME TypeOK, Dispatch
    PROVE  launching' \ launching \subseteq Dispatchable /\ \A u \in Tasks : Active(u)' => Active(u)
<1>1. PICK started \in SUBSET (Dispatchable \ launching) :
         /\ store' = [t \in Tasks |-> IF t \in (Dispatchable \ launching) \ started THEN Failed(TRUE) ELSE store[t]]
         /\ launching' = launching \cup started
  BY DEF Dispatch
<1>2. \A u \in Tasks : store[u]' = store[u] \/ store[u]'.state = "Failed"
  BY <1>1 DEF Failed
<1>. QED  BY <1>1, <1>2 DEF Active

(* At any time the claimed tasks are apart, and a worker is launched neither   *)
(* beside a claimed task that overlaps its own nor together with another such  *)
(* worker, for every queue and in whatever order its tasks were created.       *)
THEOREM OverlapsApart == Spec => OverlapsKeptApart
<1>1. TypeOK /\ [Next]_vars => [LaunchedApart]_vars
  <2>. SUFFICES ASSUME TypeOK, Next, Dispatch, NEW t \in launching' \ launching,
                       NEW u \in Tasks \ {t}, Overlap(t, u)
                PROVE  ~Active(u) /\ ~Active(u)' /\ u \notin launching' \ launching
    BY LaunchedByDispatch DEF LaunchedApart
  <2>1. t \in Dispatchable /\ t \in Tasks
    BY DispatchLaunches, DispatchableGreedy
  <2>2. \A v \in Dispatchable : \A x \in Tasks :
           (Active(x) \/ (x \in Dispatchable /\ Earlier(x, v))) => ~Overlap(v, x)
    BY DispatchableGreedy DEF Starts, Locked
  <2>3. ~Active(u) /\ ~Active(u)'
    BY <2>1, <2>2, DispatchLaunches
  <2>4. Overlap(u, t)
    BY DEF Overlap
  <2>5. u \notin Dispatchable
    BY <2>1, <2>2, <2>4, CreatedOrder
  <2>. QED  BY <2>3, <2>5, DispatchLaunches
<1>. QED  BY <1>1, TypeCorrect, TasksApart, PTL DEF Spec, OverlapsKeptApart

(***************************************************************************)
(* What the workers, the journals and the store know of each other, as     *)
(* long as a task has one worker at a time.                                *)
(***************************************************************************)

Closing(outcome) == IF outcome = "Fatal" THEN "Failed" ELSE outcome
MayStop(w) == process[w].place = "start" \/ Looks(w)

(* A worker that lives is the only one, all the journals are from it, it is    *)
(* the worker of its task, and it has closed its status before the result.     *)
(* What could still stop is awaited, followed or told.                         *)
WorkerInv(t) == \A w \in WorkersOf(t) :
    /\ \A v \in WorkersOf(t) : v = w
    /\ result[t] = None
    /\ status[t] # None => status[t].worker = w
    /\ Active(t) => store[t].worker = w
    /\ status[t] # None /\ status[t].state \notin Phases => process[w].place = "result"
    /\ process[w].place = "result" => status[t] # None /\ status[t].state = Closing(process[w].outcome)
    /\ MayStop(w) => store[t].state = "Queued" \/ Active(t) \/ control[t] = "Cancel"

(* The result is of the worker that wrote the status, which is the task's.     *)
ResultInv(t) == result[t] # None => status[t] # None /\ status[t].state = Closing(result[t])
ClaimInv(t) == Active(t) /\ status[t] # None => status[t].worker = store[t].worker
SeenInv(t) == pc = "result" /\ at = t /\ seen # None => status[t] # None /\ seen.worker = status[t].worker

(* What is completed has its result on the disk, and in the coordinator.       *)
DoneInv(t) ==
    /\ store[t].state = "Completed" => result[t] = "Completed"
    /\ pc # "down" => /\ store[t].state = "Completed" => t \in completed
                      /\ t \in completed => store[t].state \in {"Completed", "Dismissed"}

TaskInv(t) == WorkerInv(t) /\ ResultInv(t) /\ ClaimInv(t) /\ SeenInv(t) /\ DoneInv(t)
HubInv == \A t \in Tasks \ doubled : TaskInv(t)

LEMMA ProcessSame ==
    ASSUME process' = process, NEW t \in Tasks
    PROVE  /\ WorkersOf(t)' = WorkersOf(t)
           /\ \A w \in WorkersOf(t) : MayStop(w)' <=> MayStop(w)
BY DEF WorkersOf, Live, MayStop, Looks

(* The workers and the journals are as they were, the store may have moved.    *)
LEMMA StoreMoved ==
    ASSUME NEW t \in Tasks, WorkerInv(t), ResultInv(t), ClaimInv(t),
           process' = process, status'[t] = status[t], result'[t] = result[t],
           Active(t)' => \/ Active(t) /\ store'[t].worker = store[t].worker
                         \/ status[t] # None /\ store'[t].worker = status[t].worker,
           \A w \in WorkersOf(t) : MayStop(w) => store'[t].state = "Queued" \/ Active(t)' \/ control'[t] = "Cancel"
    PROVE  WorkerInv(t)' /\ ResultInv(t)' /\ ClaimInv(t)'
<1>1. ResultInv(t)'
  BY DEF ResultInv
<1>2. ClaimInv(t)'
  BY DEF ClaimInv
<1>3. ASSUME NEW w \in WorkersOf(t)
      PROVE  /\ \A v \in WorkersOf(t) : v = w
             /\ result'[t] = None
             /\ status'[t] # None => status'[t].worker = w
             /\ Active(t)' => store'[t].worker = w
             /\ status'[t] # None /\ status'[t].state \notin Phases => process'[w].place = "result"
             /\ process'[w].place = "result" => status'[t] # None /\ status'[t].state = Closing(process'[w].outcome)
             /\ MayStop(w)' => store'[t].state = "Queued" \/ Active(t)' \/ control'[t] = "Cancel"
  <2>1. MayStop(w)' <=> MayStop(w)
    BY ProcessSame
  <2>. QED  BY <2>1 DEF WorkerInv
<1>4. WorkerInv(t)'
  BY <1>3, ProcessSame DEF WorkerInv
<1>. QED  BY <1>1, <1>2, <1>4

LEMMA NothingMoved ==
    ASSUME NEW t \in Tasks, WorkerInv(t), ResultInv(t), ClaimInv(t),
           process' = process, status'[t] = status[t], result'[t] = result[t],
           store'[t] = store[t], control'[t] = control[t]
    PROVE  WorkerInv(t)' /\ ResultInv(t)' /\ ClaimInv(t)'
<1>1. Active(t)' <=> Active(t)
  BY DEF Active
<1>2. \A w \in WorkersOf(t) : MayStop(w) => store[t].state = "Queued" \/ Active(t) \/ control[t] = "Cancel"
  BY DEF WorkerInv
<1>. QED  BY <1>1, <1>2, StoreMoved

(* What a poll of another task leaves. *)
LEMMA PolledOthers ==
    ASSUME DiskOK, NEW u \in Tasks, Polled(u), NEW t \in Tasks, t # u
    PROVE  store'[t] = store[t] /\ control'[t] = control[t]
BY DEF Polled, DiskOK

LEMMA FailedTask ==
    ASSUME DiskOK, NEW t \in Tasks, Stored(t), FailTask(t)
    PROVE  /\ control'[t] = "Cancel" /\ ~Active(t)'
           /\ store'[t] = store[t] \/ store'[t].state = "Failed"
<1>1. Failed(TRUE).state = "Failed"
  BY DEF Failed
<1>2. (store'[t] = store[t] /\ store[t].state = "Paused") \/ store'[t] = Failed(TRUE)
  BY DEF FailTask, DiskOK
<1>3. control'[t] = "Cancel"
  BY DEF FailTask, DiskOK
<1>. QED  BY <1>1, <1>2, <1>3 DEF Active

LEMMA PollStatusKeeps ==
    ASSUME TypeOK, HubInv, PollStatus, NEW t \in Tasks \ doubled
    PROVE  TaskInv(t)'
<1>1. WorkerInv(t) /\ ResultInv(t) /\ ClaimInv(t) /\ DoneInv(t)
  BY DEF HubInv, TaskInv
<1>2. UNCHANGED <<status, result, completed, process>> /\ pc = "poll"
  BY DEF PollStatus
<1>3. DiskOK /\ at \in Tasks /\ Stored(at) /\ Polled(at)
  BY PollStatusPolled DEF TypeOK
<1>4. pc' = "result" => at' = at /\ seen' = status[at]
  BY DEF PollStatus, PollAfter
<1>5. SeenInv(t)'
  BY <1>2, <1>4 DEF SeenInv
<1>6. CASE store'[t] = store[t] /\ control'[t] = control[t]
  <2>1. DoneInv(t)'
    BY <1>1, <1>2, <1>6 DEF DoneInv
  <2>. QED  BY <1>1, <1>2, <1>5, <1>6, <2>1, NothingMoved DEF TaskInv
<1>7. CASE t # at
  BY <1>3, <1>6, <1>7, PolledOthers
<1>8. CASE t = at /\ (IsTerminal(store[t].state) \/ status[t] = None)
  BY <1>6, <1>8 DEF PollStatus
<1>9. CASE t = at /\ ~IsTerminal(store[t].state) /\ status[t] # None
  <2>. DEFINE s == status[t]
  <2>1. s \in Statuses /\ ApplyStatus(t, s)
    BY <1>3, <1>9 DEF PollStatus, DiskOK
  <2>2. t \notin completed /\ store[t].state # "Completed"
    BY <1>1, <1>2, <1>3, <1>9 DEF DoneInv, IsTerminal, Stored
  <2>3. ASSUME store'[t].state # "Completed" PROVE DoneInv(t)'
    BY <1>2, <2>2, <2>3 DEF DoneInv
  <2>4. ASSUME NEW state \in States, NEW worker \in Launches, store' = [store EXCEPT ![t] = Entry(state, worker)]
        PROVE  store'[t].state = state /\ store'[t].worker = worker
    BY <1>3, <2>4 DEF DiskOK, Entry
  <2>5. CASE FailTask(t)
    <3>1. control'[t] = "Cancel" /\ ~Active(t)' /\ store'[t].state # "Completed"
      BY <1>3, <1>9, <2>2, <2>5, FailedTask
    <3>. QED  BY <1>1, <1>2, <1>5, <2>3, <3>1, StoreMoved DEF TaskInv
  <2>6. CASE UNCHANGED <<store, control, launching>>
    BY <1>6, <2>6
  <2>7. CASE /\ store[t].state = "Queued" /\ t \in Dispatchable /\ s.state = InitialState(t)
             /\ store' = [store EXCEPT ![t] = Entry(s.state, s.worker)]
             /\ launching' = launching \ {t} /\ UNCHANGED control
    <3>1. s.state \in Phases /\ s.state \in States /\ s.worker \in Launches
      BY <2>1, <2>7, PhasesAre DEF InitialState, Statuses, States
    <3>2. store'[t].state = s.state /\ store'[t].worker = s.worker
      BY <2>4, <2>7, <3>1
    <3>3. Active(t)' /\ store'[t].state # "Completed"
      BY <3>1, <3>2, PhasesAre DEF Active
    <3>. QED  BY <1>1, <1>2, <1>5, <1>9, <2>3, <3>2, <3>3, StoreMoved DEF TaskInv
  <2>8. CASE /\ s.state = "Paused" /\ store' = [store EXCEPT ![t] = Unclaimed("Paused")]
             /\ UNCHANGED <<control, launching>>
    <3>1. store'[t].state = "Paused"
      BY <1>3, <2>8 DEF DiskOK, Unclaimed, Entry
    <3>2. \A w \in WorkersOf(t) : ~MayStop(w)
      <4>1. \A w \in WorkersOf(t) : process[w].place = "result"
        BY <1>1, <1>9, <2>8, PhasesAre DEF WorkerInv
      <4>. QED  BY <4>1, PhasesAre DEF MayStop, Looks
    <3>3. ~Active(t)' /\ store'[t].state # "Completed"
      BY <3>1 DEF Active
    <3>. QED  BY <1>1, <1>2, <1>5, <2>3, <3>2, <3>3, StoreMoved DEF TaskInv
  <2>9. CASE /\ store[t].state \in Phases /\ s.state \in Phases /\ PhaseIndex[s.state] > PhaseIndex[store[t].state]
             /\ store' = [store EXCEPT ![t] = Entry(s.state, store[t].worker)]
             /\ UNCHANGED <<control, launching>>
    <3>1. store'[t].state = s.state /\ store'[t].worker = store[t].worker
      BY <1>3, <2>9 DEF DiskOK, Entry
    <3>2. Active(t) /\ Active(t)' /\ store'[t].state # "Completed"
      BY <2>9, <3>1, PhasesAre DEF Active
    <3>. QED  BY <1>1, <1>2, <1>5, <2>3, <3>1, <3>2, StoreMoved DEF TaskInv
  <2>. QED  BY <1>3, <1>9, <2>1, <2>5, <2>6, <2>7, <2>8, <2>9, ApplyStatusCases
<1>. QED  BY <1>7, <1>8, <1>9

LEMMA PollResultKeeps ==
    ASSUME TypeOK, HubInv, PollResult, NEW t \in Tasks \ doubled
    PROVE  TaskInv(t)'
<1>1. WorkerInv(t) /\ ResultInv(t) /\ ClaimInv(t) /\ SeenInv(t) /\ DoneInv(t)
  BY DEF HubInv, TaskInv
<1>2. UNCHANGED <<status, result, process>> /\ pc = "result" /\ pc' # "result"
  BY DEF PollResult, PollAfter
<1>3. DiskOK /\ at \in Tasks /\ Stored(at) /\ Polled(at) /\ completed' \subseteq completed \cup {at}
  BY PollResultPolled DEF TypeOK
<1>4. SeenInv(t)'
  BY <1>2 DEF SeenInv
<1>5. CASE store'[t] = store[t] /\ control'[t] = control[t] /\ (t \in completed' <=> t \in completed)
  <2>1. DoneInv(t)'
    BY <1>1, <1>2, <1>5 DEF DoneInv
  <2>. QED  BY <1>1, <1>2, <1>4, <1>5, <2>1, NothingMoved DEF TaskInv
<1>6. completed \subseteq completed'
  <2>1. CASE result[at] = None
    BY <2>1 DEF PollResult
  <2>2. CASE result[at] # None
    <3>1. result[at] \in Outcomes /\ ApplyResult(at, result[at])
      BY <1>3, <2>2 DEF PollResult, DiskOK
    <3>. QED  BY <1>3, <3>1, ApplyResultCases DEF Settle
  <2>. QED  BY <2>1, <2>2
<1>7. CASE t # at
  BY <1>3, <1>5, <1>6, <1>7, PolledOthers
<1>8. CASE t = at /\ result[t] = None
  BY <1>5, <1>8 DEF PollResult
<1>9. CASE t = at /\ result[t] # None
  <2>. DEFINE outcome == result[t]
  <2>1. outcome \in Outcomes /\ ApplyResult(t, outcome)
    BY <1>3, <1>9 DEF PollResult, DiskOK
  <2>2. WorkersOf(t) = {}
    BY <1>1, <1>9 DEF WorkerInv
  <2>3. CASE launching' = launching \ {t} /\ UNCHANGED <<store, control, completed>>
    BY <1>5, <2>3
  <2>4. CASE FailTask(t) /\ UNCHANGED completed /\ store[t].state = "Queued"
    <3>1. ~Active(t)' /\ store'[t].state # "Completed"
      BY <1>3, <1>9, <2>4, FailedTask
    <3>2. DoneInv(t)'
      BY <1>1, <1>2, <2>4, <3>1 DEF DoneInv
    <3>. QED  BY <1>1, <1>2, <1>4, <2>2, <3>1, <3>2, StoreMoved DEF TaskInv
  <2>5. ASSUME NEW entry, Settle(t, entry, outcome), entry.state # "Completed", t \notin completed,
               entry.state \in Working => \/ Active(t) /\ entry.worker = store[t].worker
                                          \/ status[t] # None /\ entry.worker = status[t].worker
        PROVE  TaskInv(t)'
    <3>1. store'[t] = Outcome(entry, outcome)
      BY <1>3, <2>5 DEF Settle, DiskOK
    <3>2. \/ Outcome(entry, outcome).state \in {"Cancelled", "Paused", "Failed"}
          \/ Outcome(entry, outcome).state = "Completed" /\ outcome = "Completed"
          \/ Outcome(entry, outcome) = entry
      BY <2>1 DEF Outcome, Unclaimed, Entry, Failed
    <3>3. Active(t)' => entry.state \in Working /\ store'[t] = entry
      BY <3>1, <3>2, PhasesAre DEF Active, Working
    <3>4. DoneInv(t)'
      BY <1>2, <2>5, <3>1, <3>2 DEF DoneInv, Settle
    <3>. QED  BY <1>1, <1>2, <1>4, <2>2, <2>5, <3>3, <3>4, StoreMoved DEF TaskInv
  <2>6. CASE /\ seen # None /\ t \in Dispatchable /\ store[t].state = "Queued"
             /\ Settle(t, Entry(InitialState(t), seen.worker), outcome)
    <3>1. status[t] # None /\ seen.worker = status[t].worker
      BY <1>1, <1>2, <1>9, <2>6 DEF SeenInv
    <3>2. t \notin completed
      BY <1>1, <1>2, <2>6 DEF DoneInv
    <3>3. Entry(InitialState(t), seen.worker).state # "Completed" /\ Entry(InitialState(t), seen.worker).worker = seen.worker
      BY DEF Entry, InitialState
    <3>. QED  BY <2>5, <2>6, <3>1, <3>2, <3>3
  <2>7. CASE Settle(t, store[t], outcome) /\ ~IsTerminal(store[t].state)
    <3>1. t \notin completed /\ store[t].state # "Completed"
      BY <1>1, <1>2, <1>3, <1>9, <2>7 DEF DoneInv, IsTerminal, Stored
    <3>2. store[t].state \in Working => Active(t)
      BY PhasesAre DEF Working, Active
    <3>. QED  BY <2>5, <2>7, <3>1, <3>2
  <2>. QED  BY <2>1, <2>3, <2>4, <2>6, <2>7, ApplyResultCases
<1>. QED  BY <1>7, <1>8, <1>9

(* Reconciliation, and the timeouts behind it, touch tasks whose worker is     *)
(* dead, or tell the worker.                                                   *)
LEMMA ReconcileKeeps ==
    ASSUME TypeOK, HubInv, ReconcileFirst \/ Reconcile, NEW t \in Tasks \ doubled
    PROVE  TaskInv(t)'
<1>1. WorkerInv(t) /\ ResultInv(t) /\ ClaimInv(t) /\ DoneInv(t) /\ DiskOK
  BY DEF HubInv, TaskInv, TypeOK
<1>2. UNCHANGED <<status, result, completed, process>> /\ pc = "reconcile" /\ pc' # "result"
  BY DEF ReconcileFirst, Reconcile, PollFirst, PollAfter, journals
<1>3. SeenInv(t)'
  BY <1>2 DEF SeenInv
<1>4. \/ store'[t] = Reconciled[t] /\ control'[t] = control[t]
      \/ store'[t] = Failed(TRUE) /\ control'[t] = "Cancel" /\ Reconciled[t].state = "Queued"
  <2>1. CASE ReconcileFirst
    BY <2>1 DEF ReconcileFirst, journals
  <2>2. CASE Reconcile
    <3>1. PICK late \in SUBSET launching :
             LET failing == {u \in late : Reconciled[u].state = "Queued"} IN
             /\ store' = [u \in Tasks |-> IF u \in failing THEN Failed(TRUE) ELSE Reconciled[u]]
             /\ control' = [u \in Tasks |-> IF u \in failing THEN "Cancel" ELSE control[u]]
      BY <2>2 DEF Reconcile
    <3>. QED  BY <3>1
  <2>. QED  BY <2>1, <2>2
<1>5. \/ Reconciled[t] = store[t]
      \/ Abandoned(t) /\ Active(t) /\ Reconciled[t].state \in {"Queued", "Cancelled", "Failed"}
  <2>1. Abandoned(t) \/ Reconciled[t] = store[t]
    BY DEF Reconciled
  <2>. QED  BY <1>1, <2>1, ReconciledRests
<1>6. Failed(TRUE).state = "Failed"
  BY DEF Failed
<1>7. DoneInv(t)'
  <2>1. store'[t].state = "Completed" => store[t].state = "Completed"
    BY <1>4, <1>5, <1>6
  <2>2. t \in completed => store'[t] = store[t]
    <3>1. t \in completed => store[t].state \in {"Completed", "Dismissed"}
      BY <1>1, <1>2 DEF DoneInv
    <3>2. store[t].state \in {"Completed", "Dismissed"} => ~Active(t)
      BY DEF Active
    <3>. QED  BY <1>4, <1>5, <3>1, <3>2
  <2>. QED  BY <1>1, <1>2, <2>1, <2>2 DEF DoneInv
<1>8. CASE store'[t] = store[t] /\ control'[t] = control[t]
  BY <1>1, <1>2, <1>3, <1>7, <1>8, NothingMoved DEF TaskInv
<1>9. CASE Abandoned(t) /\ store'[t].state \in {"Queued", "Cancelled", "Failed"}
  <2>1. WorkersOf(t) = {}
    BY <1>1, <1>9 DEF WorkerInv, Abandoned, WorkersOf
  <2>2. ~Active(t)'
    BY <1>9 DEF Active
  <2>. QED  BY <1>1, <1>2, <1>3, <1>7, <2>1, <2>2, StoreMoved DEF TaskInv
<1>10. CASE store'[t].state = "Failed" /\ control'[t] = "Cancel"
  <2>1. ~Active(t)'
    BY <1>10 DEF Active
  <2>. QED  BY <1>1, <1>2, <1>3, <1>7, <1>10, <2>1, StoreMoved DEF TaskInv
<1>. QED  BY <1>4, <1>5, <1>6, <1>8, <1>9, <1>10

(* A task whose journals are made new has no worker, or is doubled.            *)
LEMMA JournalsNew ==
    ASSUME NEW t \in Tasks, status'[t] = None, result'[t] = None, ~Active(t)', pc' # "result",
           store'[t].state # "Completed", t \notin completed',
           \A w \in WorkersOf(t)' : /\ \A v \in WorkersOf(t)' : v = w
                                   /\ process'[w].place = "start" /\ store'[t].state = "Queued"
    PROVE  TaskInv(t)'
<1>1. WorkerInv(t)'
  BY DEF WorkerInv
<1>. QED  BY <1>1 DEF TaskInv, ResultInv, ClaimInv, SeenInv, DoneInv

LEMMA DispatchKeeps ==
    ASSUME TypeOK, HubInv, Dispatch, NEW t \in Tasks \ doubled'
    PROVE  TaskInv(t)'
<1>. DEFINE Due == Dispatchable \ launching
            Used == Cardinality(DOMAIN process)
            Pid(started, u) == Used + Cardinality({v \in started : v <= u})
<1>1. PICK started \in SUBSET Due :
         /\ store' = [u \in Tasks |-> IF u \in Due \ started THEN Failed(TRUE) ELSE store[u]]
         /\ status' = [u \in Tasks |-> IF u \in Due THEN None ELSE status[u]]
         /\ result' = [u \in Tasks |-> IF u \in Due THEN None ELSE result[u]]
         /\ control' = [u \in Tasks |-> IF u \in Due THEN "Continue" ELSE control[u]]
         /\ process' = [w \in DOMAIN process \cup {Pid(started, u) : u \in started} |->
                           IF w \in DOMAIN process THEN process[w]
                           ELSE [task |-> CHOOSE u \in started : Pid(started, u) = w, place |-> "start", outcome |-> None]]
         /\ doubled' = doubled \cup {u \in Due : WorkersOf(u) # {}}
  BY DEF Dispatch
<1>. HIDE DEF Pid
<1>2. t \notin doubled /\ WorkerInv(t) /\ ResultInv(t) /\ ClaimInv(t) /\ DoneInv(t) /\ DiskOK /\ WorkersOK
  BY <1>1 DEF HubInv, TaskInv, TypeOK
<1>3. pc = "commands" /\ pc' \notin {"result", "down"} /\ completed' = completed
  BY DEF Dispatch, PollFirst, PollAfter
<1>4. ASSUME NEW w \in WorkersOf(t)'
      PROVE  \/ w \in WorkersOf(t) /\ process'[w] = process[w]
             \/ t \in started /\ w = Pid(started, t) /\ process'[w].place = "start"
  <2>1. w \in DOMAIN process' /\ process'[w].task = t /\ process'[w].place # "gone"
    BY DEF WorkersOf, Live
  <2>2. CASE w \in DOMAIN process
    <3>1. process'[w] = process[w]
      BY <1>1, <2>2
    <3>. QED  BY <2>1, <2>2, <3>1 DEF WorkersOf, Live
  <2>3. CASE w \notin DOMAIN process
    <3>1. PICK u \in started : Pid(started, u) = w
      BY <1>1, <2>1, <2>3
    <3>2. (CHOOSE v \in started : Pid(started, v) = w) \in started /\ Pid(started, CHOOSE v \in started : Pid(started, v) = w) = w
      BY <3>1
    <3>3. process'[w] = [task |-> CHOOSE v \in started : Pid(started, v) = w, place |-> "start", outcome |-> None]
      BY <1>1, <2>1, <2>3
    <3>. QED  BY <2>1, <3>2, <3>3
  <2>. QED  BY <2>2, <2>3
<1>5. CASE t \in Due
  <2>1. WorkersOf(t) = {} /\ store[t].state = "Queued"
    BY <1>1, <1>2, <1>5, DispatchableGreedy DEF Starts
  <2>2. store'[t].state = (IF t \in started THEN "Queued" ELSE "Failed") /\ status'[t] = None /\ result'[t] = None
    BY <1>1, <1>5, <2>1 DEF Failed
  <2>3. ~Active(t)' /\ store'[t].state # "Completed"
    BY <2>2 DEF Active
  <2>4. t \notin completed'
    BY <1>2, <1>3, <2>1 DEF DoneInv
  <2>5. \A w \in WorkersOf(t)' : t \in started /\ w = Pid(started, t) /\ process'[w].place = "start"
    BY <1>4, <2>1
  <2>. QED  BY <1>3, <2>2, <2>3, <2>4, <2>5, JournalsNew
<1>6. CASE t \notin Due
  <2>1. store'[t] = store[t] /\ status'[t] = status[t] /\ result'[t] = result[t] /\ control'[t] = control[t]
    BY <1>1, <1>6
  <2>2. \A w \in WorkersOf(t)' : w \in WorkersOf(t) /\ process'[w] = process[w]
    BY <1>4, <1>6
  <2>3. Active(t)' <=> Active(t)
    BY <2>1 DEF Active
  <2>4. \A w \in WorkersOf(t)' : MayStop(w)' <=> MayStop(w)
    BY <2>2 DEF MayStop, Looks
  <2>5. WorkerInv(t)'
    BY <1>2, <2>1, <2>2, <2>3, <2>4 DEF WorkerInv
  <2>6. ResultInv(t)' /\ ClaimInv(t)' /\ SeenInv(t)' /\ DoneInv(t)'
    BY <1>2, <1>3, <2>1, <2>3 DEF ResultInv, ClaimInv, SeenInv, DoneInv
  <2>. QED  BY <2>5, <2>6 DEF TaskInv
<1>. QED  BY <1>5, <1>6

LEMMA EnqueueKeeps ==
    ASSUME TypeOK, HubInv, NEW u \in Tasks, Enqueue(u), pc = "commands", store[u].state \notin {"Completed", "Dismissed"},
           NEW t \in Tasks \ doubled'
    PROVE  TaskInv(t)'
<1>1. t \notin doubled /\ WorkerInv(t) /\ ResultInv(t) /\ ClaimInv(t) /\ DoneInv(t) /\ DiskOK
  BY DEF HubInv, TaskInv, TypeOK, Enqueue
<1>2. UNCHANGED <<pc, completed, process>>
  BY DEF Enqueue, hub
<1>3. CASE t = u
  <2>1. store'[t].state = "Queued" /\ status'[t] = None /\ result'[t] = None
    BY <1>1, <1>3 DEF Enqueue, DiskOK, Unclaimed, Entry
  <2>2. WorkersOf(t) = {}
    BY <1>3 DEF Enqueue
  <2>3. ~Active(t)' /\ t \notin completed'
    BY <1>1, <1>2, <1>3, <2>1 DEF Active, DoneInv
  <2>. QED  BY <1>2, <2>1, <2>2, <2>3, ProcessSame, JournalsNew
<1>4. CASE t # u
  <2>1. store'[t] = store[t] /\ status'[t] = status[t] /\ result'[t] = result[t] /\ control'[t] = control[t]
    BY <1>1, <1>4 DEF Enqueue, DiskOK
  <2>2. SeenInv(t)' /\ DoneInv(t)'
    BY <1>1, <1>2, <2>1 DEF SeenInv, DoneInv
  <2>. QED  BY <1>1, <1>2, <2>1, <2>2, NothingMoved DEF TaskInv
<1>. QED  BY <1>3, <1>4

(* The requests that change neither a journal of a worker nor the coordinator. *)
LEMMA OnlyStoreKeeps ==
    ASSUME HubInv, OnlyStore, pc = "commands", NEW t \in Tasks \ doubled,
           \/ store'[t] = store[t] /\ control'[t] = control[t]
           \/ store'[t] = store[t] /\ Active(t) /\ store[t].state # "Completed"
           \/ store'[t].state = "Dismissed" /\ IsTerminal(store[t].state) /\ control'[t] = control[t]
           \/ /\ control'[t] = "Cancel" /\ Stored(t) /\ ~IsTerminal(store[t].state)
              /\ \/ store'[t].state = "Cancelled"
                 \/ Active(t) /\ store'[t].state = "Cancelling" /\ store'[t].worker = store[t].worker
    PROVE  TaskInv(t)'
<1>1. WorkerInv(t) /\ ResultInv(t) /\ ClaimInv(t) /\ DoneInv(t)
  BY DEF HubInv, TaskInv
<1>2. UNCHANGED <<status, result, pc, completed, process>>
  BY DEF OnlyStore, hub
<1>3. SeenInv(t)'
  BY <1>2 DEF SeenInv
<1>4. Active(t)' => Active(t) /\ store'[t].worker = store[t].worker
  BY DEF Active
<1>5. DoneInv(t)'
  BY <1>1, <1>2 DEF DoneInv, IsTerminal, Stored
<1>6. ASSUME NEW w \in WorkersOf(t), MayStop(w)
      PROVE  store'[t].state = "Queued" \/ Active(t)' \/ control'[t] = "Cancel"
  <2>1. store[t].state = "Queued" \/ Active(t) \/ control[t] = "Cancel"
    BY <1>1, <1>6 DEF WorkerInv
  <2>2. IsTerminal(store[t].state) => store[t].state # "Queued" /\ ~Active(t)
    BY DEF IsTerminal, Active
  <2>3. store'[t] = store[t] => (Active(t)' <=> Active(t))
    BY DEF Active
  <2>. QED  BY <2>1, <2>2, <2>3
<1>. QED  BY <1>1, <1>2, <1>3, <1>4, <1>5, <1>6, StoreMoved DEF TaskInv

LEMMA RequestsKeep ==
    ASSUME TypeOK, HubInv, Requests, NEW t \in Tasks \ doubled'
    PROVE  TaskInv(t)'
<1>1. CASE \E u \in Tasks : Queue(u) \/ Resume(u) \/ Retry(u)
  BY <1>1, EnqueueKeeps DEF Queue, Resume, Retry, Request
<1>2. ASSUME NEW u \in Tasks, Pause(u) PROVE TaskInv(t)'
  <2>1. store' = store /\ OnlyStore /\ pc = "commands" /\ doubled' = doubled
    BY <1>2 DEF Pause, OnlyStore
  <2>2. t # u => control'[t] = control[t]
    BY <1>2 DEF Pause, TypeOK, DiskOK
  <2>3. Active(u) /\ store[u].state # "Completed"
    BY <1>2 DEF Pause, Active
  <2>. QED  BY <2>1, <2>2, <2>3, OnlyStoreKeeps
<1>3. ASSUME NEW u \in Tasks, Cancel(u) PROVE TaskInv(t)'
  <2>1. OnlyStore /\ pc = "commands" /\ doubled' = doubled /\ Stored(u) /\ ~IsTerminal(store[u].state)
    BY <1>3 DEF Cancel, Request, OnlyStore
  <2>2. t # u => store'[t] = store[t] /\ control'[t] = control[t]
    BY <1>3 DEF Cancel, TypeOK, DiskOK
  <2>3. control'[u] = "Cancel"
    BY <1>3 DEF Cancel, TypeOK, DiskOK
  <2>4. store'[u] = IF store[u].state \in {"Queued", "Paused"} THEN Unclaimed("Cancelled") ELSE Entry("Cancelling", store[u].worker)
    BY <1>3 DEF Cancel, TypeOK, DiskOK
  <2>5. store[u].state \notin {"Queued", "Paused"} => Active(u)
    BY <2>1, PhasesAre DEF Active, Stored, IsTerminal, TypeOK, DiskOK, States
  <2>6. \/ store'[u].state = "Cancelled"
        \/ Active(u) /\ store'[u].state = "Cancelling" /\ store'[u].worker = store[u].worker
    BY <2>4, <2>5 DEF Unclaimed, Entry
  <2>. QED  BY <2>1, <2>2, <2>3, <2>6, OnlyStoreKeeps
<1>4. CASE (\E u \in Tasks : Dismiss(u)) \/ ClearFinished
  <2>1. OnlyStore /\ pc = "commands" /\ doubled' = doubled /\ control' = control
    BY <1>4 DEF Dismiss, ClearFinished, Request, OnlyStore
  <2>2. \/ store'[t] = store[t]
        \/ store'[t] = Unclaimed("Dismissed") /\ Dismissible(t)
    BY <1>4 DEF Dismiss, ClearFinished, TypeOK, DiskOK
  <2>3. Unclaimed("Dismissed").state = "Dismissed" /\ (Dismissible(t) => IsTerminal(store[t].state))
    BY DEF Unclaimed, Entry, Dismissible
  <2>. QED  BY <2>1, <2>2, <2>3, OnlyStoreKeeps
<1>. QED  BY <1>1, <1>2, <1>3, <1>4 DEF Requests

LEMMA HubKeeps ==
    ASSUME TypeOK, HubInv, HubStarts \/ HubStops, NEW t \in Tasks \ doubled
    PROVE  TaskInv(t)'
<1>1. WorkerInv(t) /\ ResultInv(t) /\ ClaimInv(t) /\ DoneInv(t)
  BY DEF HubInv, TaskInv
<1>2. UNCHANGED <<store, status, result, control, process>> /\ pc' # "result"
  BY DEF HubStarts, HubStops, journals, PollFirst, PollAfter
<1>3. SeenInv(t)'
  BY <1>2 DEF SeenInv
<1>4. DoneInv(t)'
  <2>1. CASE HubStarts
    <3>1. completed' = Restored
      BY <2>1 DEF HubStarts
    <3>. QED  BY <1>1, <1>2, <3>1 DEF DoneInv, Restored
  <2>2. CASE HubStops
    <3>1. pc' = "down"
      BY <2>2 DEF HubStops
    <3>. QED  BY <1>1, <1>2, <3>1 DEF DoneInv
  <2>. QED  BY <2>1, <2>2
<1>. QED  BY <1>1, <1>2, <1>3, <1>4, NothingMoved DEF TaskInv

(* One worker goes to another place, and may write in a journal of its task.   *)
Steps(w) ==
    /\ DOMAIN process' = DOMAIN process
    /\ \A v \in DOMAIN process : v # w => process'[v] = process[v]
    /\ process'[w].task = process[w].task
Moves(w) ==
    /\ Steps(w)
    /\ UNCHANGED <<store, control, pc, at, seen, completed, doubled>>
    /\ \A u \in Tasks : u # process[w].task => status'[u] = status[u] /\ result'[u] = result[u]

LEMMA ElsewhereKeeps ==
    ASSUME HubInv, NEW w \in DOMAIN process, Moves(w), NEW t \in Tasks \ doubled, t # process[w].task
    PROVE  TaskInv(t)'
<1>1. WorkerInv(t) /\ ResultInv(t) /\ ClaimInv(t) /\ SeenInv(t) /\ DoneInv(t)
  BY DEF HubInv, TaskInv
<1>2. status'[t] = status[t] /\ result'[t] = result[t] /\ UNCHANGED <<store, control, pc, at, seen, completed>>
  BY DEF Moves
<1>3. WorkersOf(t)' = WorkersOf(t) /\ w \notin WorkersOf(t)
  BY DEF Moves, Steps, WorkersOf, Live
<1>4. \A v \in WorkersOf(t) : process'[v] = process[v]
  BY <1>3 DEF Moves, Steps, WorkersOf
<1>5. \A v \in WorkersOf(t) : MayStop(v)' <=> MayStop(v)
  BY <1>4 DEF MayStop, Looks
<1>6. Active(t)' <=> Active(t)
  BY <1>2 DEF Active
<1>7. WorkerInv(t)'
  BY <1>1, <1>2, <1>3, <1>4, <1>5, <1>6 DEF WorkerInv
<1>8. ResultInv(t)' /\ ClaimInv(t)' /\ SeenInv(t)' /\ DoneInv(t)'
  BY <1>1, <1>2, <1>6 DEF ResultInv, ClaimInv, SeenInv, DoneInv
<1>. QED  BY <1>7, <1>8 DEF TaskInv

(* What WorkerInv says of a worker that lives. *)
LEMMA OwnTask ==
    ASSUME TypeOK, HubInv, NEW w \in DOMAIN process, Live(w), process[w].task \notin doubled
    PROVE  LET t == process[w].task IN
           /\ t \in Tasks /\ TaskInv(t) /\ w \in WorkersOf(t)
           /\ \A v \in WorkersOf(t) : v = w
           /\ result[t] = None
           /\ status[t] # None => status[t].worker = w
           /\ Active(t) => store[t].worker = w
           /\ status[t] # None /\ status[t].state \notin Phases => process[w].place = "result"
           /\ process[w].place = "result" => status[t] # None /\ status[t].state = Closing(process[w].outcome)
           /\ MayStop(w) => store[t].state = "Queued" \/ Active(t) \/ control[t] = "Cancel"
<1>1. process[w].task \in Tasks
  BY DEF TypeOK, WorkersOK
<1>2. TaskInv(process[w].task)
  BY <1>1 DEF HubInv
<1>3. w \in WorkersOf(process[w].task)
  BY DEF WorkersOf
<1>. QED  BY <1>1, <1>2, <1>3 DEF TaskInv, WorkerInv

(* The worker goes on; it publishes a phase, its end, or nothing.              *)
LEMMA GoesOn ==
    ASSUME TypeOK, HubInv, NEW w \in DOMAIN process, Live(w), Moves(w), NEW t \in Tasks \ doubled,
           t = process[w].task, result'[t] = result[t],
           \/ status'[t] = status[t]
           \/ status'[t] # None /\ status'[t].worker = w,
           status'[t] # None /\ status'[t].state \notin Phases => process'[w].place = "result",
           process'[w].place = "result" => status'[t] # None /\ status'[t].state = Closing(process'[w].outcome),
           MayStop(w)' => MayStop(w)
    PROVE  TaskInv(t)'
<1>1. /\ TaskInv(t)
      /\ \A v \in WorkersOf(t) : v = w
      /\ result[t] = None
      /\ status[t] # None => status[t].worker = w
      /\ Active(t) => store[t].worker = w
      /\ MayStop(w) => store[t].state = "Queued" \/ Active(t) \/ control[t] = "Cancel"
  BY OwnTask
<1>2. UNCHANGED <<store, control, pc, at, seen, completed>>
  BY DEF Moves
<1>3. Active(t)' <=> Active(t)
  BY <1>2 DEF Active
<1>4. \A v \in WorkersOf(t)' : v = w
  BY <1>1 DEF Moves, Steps, WorkersOf, Live
<1>5. result'[t] = None /\ (status'[t] # None => status'[t].worker = w)
  BY <1>1
<1>6. Active(t)' => store'[t].worker = w
  BY <1>1, <1>2, <1>3
<1>7. MayStop(w)' => store'[t].state = "Queued" \/ Active(t)' \/ control'[t] = "Cancel"
  BY <1>1, <1>2, <1>3
<1>8. WorkerInv(t)'
  BY <1>4, <1>5, <1>6, <1>7 DEF WorkerInv
<1>9. ResultInv(t)' /\ ClaimInv(t)'
  BY <1>5, <1>6 DEF ResultInv, ClaimInv
<1>10. SeenInv(t)'
  BY <1>1, <1>2, <1>5 DEF SeenInv, TaskInv
<1>11. DoneInv(t)'
  BY <1>1, <1>2 DEF DoneInv, TaskInv
<1>. QED  BY <1>8, <1>9, <1>10, <1>11 DEF TaskInv

(* The worker is gone, with a result that fits its last status, or without.    *)
LEMMA GoesAway ==
    ASSUME TypeOK, HubInv, NEW w \in DOMAIN process, Live(w), Moves(w), NEW t \in Tasks \ doubled,
           t = process[w].task, process'[w].place = "gone", status'[t] = status[t],
           \/ result'[t] = result[t]
           \/ status[t] # None /\ status[t].state = Closing(result'[t])
    PROVE  TaskInv(t)'
<1>1. /\ TaskInv(t)
      /\ \A v \in WorkersOf(t) : v = w
      /\ result[t] = None
  BY OwnTask
<1>2. UNCHANGED <<store, control, pc, at, seen, completed>>
  BY DEF Moves
<1>3. Active(t)' <=> Active(t)
  BY <1>2 DEF Active
<1>4. WorkersOf(t)' = {}
  BY <1>1 DEF Moves, Steps, WorkersOf, Live
<1>5. WorkerInv(t)'
  BY <1>4 DEF WorkerInv
<1>6. ResultInv(t)' /\ ClaimInv(t)' /\ SeenInv(t)'
  BY <1>1, <1>2, <1>3 DEF ResultInv, ClaimInv, SeenInv, TaskInv
<1>7. DoneInv(t)'
  <2>1. None # "Completed"
    BY CountAssumption DEF Words
  <2>2. store[t].state # "Completed"
    BY <1>1, <2>1 DEF DoneInv, TaskInv
  <2>. QED  BY <1>1, <1>2, <2>2 DEF DoneInv, TaskInv
<1>. QED  BY <1>5, <1>6, <1>7 DEF TaskInv

LEMMA Published ==
    ASSUME TypeOK, NEW w \in DOMAIN process, NEW state \in Phases \cup {"Completed", "Failed", "Cancelled", "Paused"},
           Publish(w, state)
    PROVE  /\ \A u \in Tasks : u # process[w].task => status'[u] = status[u]
           /\ status'[process[w].task] # None
           /\ status'[process[w].task].worker = w /\ status'[process[w].task].state = state
<1>1. process[w].task \in Tasks /\ w \in Nat
  BY CountAssumption DEF TypeOK, WorkersOK, Launches
<1>2. state \in Words
  BY PhasesAre DEF Words
<1>4. [state |-> state, worker |-> w] \in [state : Words, worker : Nat]
  BY <1>1, <1>2
<1>5. [state |-> state, worker |-> w] # None
  BY <1>4, CountAssumption
<1>. QED  BY <1>1, <1>5 DEF Publish, TypeOK, DiskOK

(* How Enter moves a worker. *)
LEMMA Entered ==
    ASSUME TypeOK, NEW w \in DOMAIN process, NEW place, Enter(w, place)
    PROVE  Steps(w) /\ process'[w].place = place /\ process'[w].outcome = process[w].outcome
BY DEF Steps, Enter, TypeOK, WorkersOK

LEMMA WorkerKeeps ==
    ASSUME TypeOK, HubInv, NEW w \in DOMAIN process, Work(w) \/ WorkerFails(w) \/ WorkerDies(w)
    PROVE  HubInv'
<1>1. PICK task \in Tasks : task = process[w].task
  BY DEF TypeOK, WorkersOK
<1>2. UNCHANGED <<store, control, pc, at, seen, completed, doubled>>
  BY DEF Work, WorkerStarts, WorkerAdvances, WorkerCompletes, WorkerReports, WorkerWritesResult, WorkerFails, WorkerDies,
         OnlyWorker, hub, ghosts, journals
<1>3. ASSUME NEW t \in Tasks \ doubled', HubInv, t # task, Moves(w)
      PROVE  TaskInv(t)'
  BY <1>1, <1>2, <1>3, ElsewhereKeeps
<1>4. ASSUME Moves(w), task \notin doubled => TaskInv(task)'
      PROVE  HubInv'
  <2>. SUFFICES ASSUME NEW t \in Tasks \ doubled' PROVE TaskInv(t)'
    BY DEF HubInv
  <2>. QED  BY <1>2, <1>3, <1>4
<1>5. ASSUME NEW outcome, Finish(w, outcome), result' = result, process[w].place \in Phases \cup {"publishing"}
      PROVE  HubInv'
  <2>1. status' = status /\ process' = [process EXCEPT ![w].place = "end", ![w].outcome = outcome]
    BY <1>5 DEF Finish
  <2>2. Moves(w) /\ process'[w].place = "end"
    <3>1. Steps(w) /\ process'[w].place = "end"
      BY <2>1 DEF Steps, TypeOK, WorkersOK
    <3>. QED  BY <1>1, <1>2, <1>5, <2>1, <3>1 DEF Moves
  <2>3. Live(w) /\ ~MayStop(w)'
    BY <1>5, <2>2, PhasesAre DEF Live, MayStop, Looks
  <2>4. ASSUME task \notin doubled PROVE TaskInv(task)'
    <3>1. status[task] # None /\ status[task].state \notin Phases => process[w].place = "result"
      BY <1>1, <2>3, <2>4, OwnTask
    <3>2. process[w].place # "result"
      BY <1>5, PhasesAre
    <3>. QED  BY <1>1, <1>5, <2>1, <2>2, <2>3, <2>4, <3>1, <3>2, GoesOn
  <2>. QED  BY <1>4, <2>2, <2>4
<1>6. ASSUME NEW place \in Phases, Enter(w, place), Publish(w, place), result' = result, MayStop(w)
      PROVE  HubInv'
  <2>1. /\ \A u \in Tasks : u # task => status'[u] = status[u]
        /\ status'[task] # None /\ status'[task].worker = w /\ status'[task].state = place
    BY <1>1, <1>6, Published
  <2>2. Moves(w) /\ process'[w].place = place
    BY <1>1, <1>2, <1>6, <2>1, Entered DEF Moves
  <2>3. Live(w)
    BY <1>6, PhasesAre DEF Live, MayStop, Looks
  <2>4. process'[w].place # "result"
    BY <2>2, PhasesAre
  <2>5. ASSUME task \notin doubled PROVE TaskInv(task)'
    BY <1>1, <1>6, <2>1, <2>2, <2>3, <2>4, <2>5, GoesOn
  <2>. QED  BY <1>4, <2>2, <2>5
<1>7. ASSUME Leave(w), Live(w), status' = status,
             \A u \in Tasks : u # task => result'[u] = result[u],
             \/ result'[task] = result[task]
             \/ process[w].place = "result" /\ result'[task] = process[w].outcome
      PROVE  HubInv'
  <2>1. process' = [process EXCEPT ![w].place = "gone", ![w].outcome = None]
    BY <1>7 DEF Leave
  <2>2. Moves(w) /\ process'[w].place = "gone"
    <3>1. Steps(w) /\ process'[w].place = "gone"
      BY <2>1 DEF Steps, TypeOK, WorkersOK
    <3>. QED  BY <1>1, <1>2, <1>7, <2>1, <3>1 DEF Moves
  <2>3. ASSUME task \notin doubled PROVE TaskInv(task)'
    <3>1. process[w].place = "result" => status[task] # None /\ status[task].state = Closing(process[w].outcome)
      BY <1>1, <1>7, <2>3, OwnTask
    <3>. QED  BY <1>1, <1>7, <2>2, <2>3, <3>1, GoesAway
  <2>. QED  BY <1>4, <2>2, <2>3
<1>8. CASE WorkerStarts(w)
  <2>1. InitialState(task) \in Phases
    BY PhasesAre DEF InitialState
  <2>2. MayStop(w) /\ Publish(w, InitialState(task)) /\ Enter(w, InitialState(task)) /\ result' = result
    BY <1>1, <1>8 DEF WorkerStarts, MayStop
  <2>. QED  BY <1>6, <2>1, <2>2
<1>9. CASE WorkerAdvances(w)
  <2>. DEFINE next == NextPhase(KindOf(w), process[w].place)
  <2>1. process[w].place \in Phases /\ MayStop(w) /\ result' = result
    BY <1>9 DEF WorkerAdvances, Looks, MayStop
  <2>2. CASE Told(w) # "Continue"
    BY <1>5, <1>9, <2>1, <2>2 DEF WorkerAdvances
  <2>3. CASE Told(w) = "Continue"
    <3>1. next \in {"Installing", "Verifying", "publishing"}
      BY <1>9, PhasesAre DEF WorkerAdvances, Looks, NextPhase
    <3>2. Enter(w, next) /\ (IF next = "publishing" THEN UNCHANGED status ELSE Publish(w, next))
      BY <1>9, <2>3 DEF WorkerAdvances
    <3>. HIDE DEF next
    <3>3. CASE next # "publishing"
      BY <1>6, <2>1, <3>1, <3>2, <3>3, PhasesAre
    <3>4. CASE next = "publishing"
      <4>1. Moves(w) /\ process'[w].place = "publishing"
        BY <1>1, <1>2, <2>1, <3>2, <3>4, Entered DEF Moves
      <4>2. Live(w) /\ ~MayStop(w)' /\ process[w].place # "result"
        BY <2>1, <4>1, PhasesAre DEF Live, MayStop, Looks
      <4>3. ASSUME task \notin doubled PROVE TaskInv(task)'
        <5>1. status[task] # None /\ status[task].state \notin Phases => process[w].place = "result"
          BY <1>1, <4>2, <4>3, OwnTask
        <5>. QED  BY <1>1, <2>1, <3>2, <3>4, <4>1, <4>2, <4>3, <5>1, GoesOn
      <4>. QED  BY <1>4, <4>1, <4>3
    <3>. QED  BY <3>3, <3>4
  <2>. QED  BY <2>2, <2>3
<1>10. CASE WorkerCompletes(w)
  <2>1. process[w].place \in Phases \cup {"publishing"}
    BY <1>10, PhasesAre DEF WorkerCompletes, InitialState
  <2>. QED  BY <1>5, <1>10, <2>1 DEF WorkerCompletes
<1>11. CASE WorkerFails(w)
  BY <1>5, <1>11 DEF WorkerFails
<1>12. CASE WorkerReports(w)
  <2>. DEFINE state == Closing(process[w].outcome)
  <2>1. process[w].outcome \in Outcomes
    BY <1>12 DEF WorkerReports, TypeOK, WorkersOK
  <2>2. state \in {"Completed", "Failed", "Cancelled", "Paused"}
    BY <2>1 DEF Outcomes, Closing
  <2>3. Publish(w, state) /\ Enter(w, "result") /\ result' = result /\ Live(w)
    BY <1>12 DEF WorkerReports, Closing, Live
  <2>4. /\ \A u \in Tasks : u # task => status'[u] = status[u]
        /\ status'[task] # None /\ status'[task].worker = w /\ status'[task].state = state
    <3>. HIDE DEF state
    <3>. QED  BY <1>1, <2>2, <2>3, Published
  <2>5. Moves(w) /\ process'[w].place = "result" /\ process'[w].outcome = process[w].outcome
    BY <1>1, <1>2, <2>3, <2>4, Entered DEF Moves
  <2>6. ~MayStop(w)'
    BY <2>5, PhasesAre DEF MayStop, Looks
  <2>7. ASSUME task \notin doubled PROVE TaskInv(task)'
    BY <1>1, <2>3, <2>4, <2>5, <2>6, <2>7, GoesOn
  <2>. QED  BY <1>4, <2>5, <2>7
<1>13. CASE WorkerWritesResult(w)
  <2>1. \A u \in Tasks : result'[u] = IF u = task THEN process[w].outcome ELSE result[u]
    BY <1>1, <1>13 DEF WorkerWritesResult, TypeOK, DiskOK
  <2>2. Leave(w) /\ Live(w) /\ status' = status /\ process[w].place = "result"
    BY <1>13 DEF WorkerWritesResult, Live
  <2>. QED  BY <1>1, <1>7, <2>1, <2>2
<1>14. CASE WorkerDies(w)
  BY <1>7, <1>14 DEF WorkerDies, journals
<1>. QED  BY <1>8, <1>9, <1>10, <1>11, <1>12, <1>13, <1>14 DEF Work

(***************************************************************************)
(* The invariant, and what follows.                                        *)
(***************************************************************************)

LEMMA InitInv == Init => HubInv
<1>. SUFFICES ASSUME Init, NEW t \in Tasks PROVE TaskInv(t)
  BY DEF HubInv
<1>1. store[t].state \in {"Queued", "Absent"}
  BY DEF Init, Unclaimed, Entry
<1>2. status[t] = None /\ result[t] = None /\ WorkersOf(t) = {} /\ pc = "down"
  BY DEF Init, WorkersOf
<1>3. ~Active(t) /\ store[t].state # "Completed"
  BY <1>1 DEF Active
<1>. QED  BY <1>2, <1>3 DEF TaskInv, WorkerInv, ResultInv, ClaimInv, SeenInv, DoneInv

LEMMA InvKept ==
    ASSUME TypeOK, HubInv, [Next]_vars
    PROVE  HubInv'
<1>1. CASE UNCHANGED vars
  <2>1. UNCHANGED <<store, status, result, control, pc, at, seen, completed, process, doubled>>
    BY <1>1 DEF vars, journals, hub, ghosts
  <2>. SUFFICES ASSUME NEW t \in Tasks \ doubled PROVE TaskInv(t)'
    BY <2>1 DEF HubInv
  <2>2. WorkerInv(t) /\ ResultInv(t) /\ ClaimInv(t) /\ SeenInv(t) /\ DoneInv(t)
    BY DEF HubInv, TaskInv
  <2>3. SeenInv(t)' /\ DoneInv(t)'
    BY <2>1, <2>2 DEF SeenInv, DoneInv
  <2>. QED  BY <2>1, <2>2, <2>3, NothingMoved DEF TaskInv
<1>2. ASSUME NEW w \in DOMAIN process, Work(w) \/ WorkerFails(w) \/ WorkerDies(w) PROVE HubInv'
  BY <1>2, WorkerKeeps
<1>3. ASSUME NEW t \in Tasks \ doubled', Coordinate \/ Requests \/ HubStarts \/ HubStops
      PROVE  TaskInv(t)'
  <2>1. CASE PollStatus
    BY <1>3, <2>1, PollStatusKeeps DEF PollStatus, ghosts
  <2>2. CASE PollResult
    BY <1>3, <2>2, PollResultKeeps DEF PollResult, ghosts
  <2>3. CASE ReconcileFirst \/ Reconcile
    BY <1>3, <2>3, ReconcileKeeps DEF ReconcileFirst, Reconcile, ghosts
  <2>4. CASE Dispatch
    BY <1>3, <2>4, DispatchKeeps
  <2>5. CASE Requests
    BY <1>3, <2>5, RequestsKeep
  <2>6. CASE HubStarts \/ HubStops
    BY <1>3, <2>6, HubKeeps DEF HubStarts, HubStops, ghosts
  <2>. QED  BY <1>3, <2>1, <2>2, <2>3, <2>4, <2>5, <2>6 DEF Coordinate
<1>4. CASE Coordinate \/ Requests \/ HubStarts \/ HubStops
  BY <1>3, <1>4 DEF HubInv
<1>. QED  BY <1>1, <1>2, <1>4 DEF Next

(* Outside the doubled tasks, one worker lives per task and its journals are   *)
(* from it: the inductive invariant behind the theorems below.                 *)
THEOREM JournalsKept == Spec => []HubInv
<1>1. Init => HubInv
  BY InitInv
<1>2. TypeOK /\ HubInv /\ [Next]_vars => HubInv'
  BY InvKept
<1>. QED  BY <1>1, <1>2, TypeCorrect, PTL DEF Spec

(* Nothing that a living worker does escapes the hub: ProcessResult and        *)
(* CheckLaunchTimeouts tell a worker to cancel before they give it up.         *)
THEOREM StraysTold == Spec => []StraysAreTold
<1>1. TypeOK /\ HubInv => StraysAreTold
  <2>. SUFFICES ASSUME TypeOK, HubInv, NEW w \in DOMAIN process, process[w].task \notin doubled, MayStop(w)
                PROVE  LET t == process[w].task IN
                       store[t].state = "Queued" \/ store[t].worker = w \/ control[t] = "Cancel"
    BY DEF StraysAreTold, MayStop
  <2>1. Live(w)
    BY PhasesAre DEF MayStop, Looks, Live
  <2>. QED  BY <2>1, OwnTask
<1>. QED  BY <1>1, TypeCorrect, JournalsKept, PTL

(* RestoreCompletedOperations and ApplyResult between them offer the results   *)
(* of the completed tasks, and of no others.                                   *)
THEOREM CompletionsKept == Spec => []CompletionsRemembered
<1>1. HubInv => CompletionsRemembered
  BY DEF HubInv, TaskInv, DoneInv, CompletionsRemembered
<1>. QED  BY <1>1, JournalsKept, PTL

(* What CompletionsWin says of one step and one task. *)
LEMMA CompletionStands ==
    ASSUME TypeOK, HubInv, [Next]_vars,
           NEW t \in Tasks, Active(t), result[t] = "Completed", t \notin doubled
    PROVE  store'[t].state \notin {"Queued", "Paused", "Failed", "Cancelled"}
<1>1. DiskOK /\ ResultInv(t) /\ ClaimInv(t)
  BY DEF TypeOK, HubInv, TaskInv
<1>2. result[t] # None
  BY CountAssumption DEF Words
<1>3. status[t] # None /\ status[t].state = "Completed" /\ status[t].worker = store[t].worker
  BY <1>1, <1>2 DEF ResultInv, ClaimInv, Closing
<1>4. store[t].state \in Working /\ store[t].state \in Phases \cup {"Cancelling"}
  BY PhasesAre DEF Active, Working
<1>5. store[t].state \notin {"Absent", "Queued", "Paused", "Failed", "Cancelled", "Completed", "Dismissed"}
  BY DEF Active
<1>6. CASE store'[t] = store[t]
  BY <1>5, <1>6
<1>7. CASE PollStatus
  <2>1. CASE at # t
    BY <1>1, <1>6, <1>7, <2>1, PollStatusPolled, PolledOthers
  <2>2. CASE at = t
    <3>1. ~IsTerminal(store[t].state) /\ IsTerminal(status[t].state)
      BY <1>3, <1>5 DEF IsTerminal
    <3>2. ApplyStatus(t, status[t])
      BY <1>3, <1>7, <2>2, <3>1 DEF PollStatus
    <3>3. UNCHANGED store
      BY <1>3, <1>4, <3>1, <3>2, PhasesAre DEF ApplyStatus, IsTerminal
    <3>. QED  BY <1>6, <3>3
  <2>. QED  BY <2>1, <2>2
<1>8. CASE PollResult
  <2>1. CASE at # t
    BY <1>1, <1>6, <1>8, <2>1, PollResultPolled, PolledOthers
  <2>2. CASE at = t
    <3>1. ApplyResult(t, "Completed")
      BY <1>2, <1>8, <2>2 DEF PollResult
    <3>2. UNCHANGED store \/ Settle(t, store[t], "Completed")
      BY <1>5, <3>1, ApplyResultCases DEF Outcomes
    <3>3. CASE Settle(t, store[t], "Completed")
      <4>1. Outcome(store[t], "Completed") = Unclaimed("Completed")
        BY <1>4, PhasesAre DEF Outcome
      <4>2. store'[t] = Unclaimed("Completed")
        BY <1>1, <3>3, <4>1 DEF Settle, DiskOK
      <4>. QED  BY <4>2 DEF Unclaimed, Entry
    <3>. QED  BY <1>6, <3>2, <3>3
  <2>. QED  BY <2>1, <2>2
<1>9. CASE ReconcileFirst \/ Reconcile
  <2>1. Reconciled[t] = store[t]
    BY <1>2 DEF Reconciled, Abandoned
  <2>2. store'[t] = Reconciled[t] \/ Reconciled[t].state = "Queued"
    BY <1>9, <2>1 DEF ReconcileFirst, Reconcile
  <2>. QED  BY <1>5, <1>6, <2>1, <2>2
<1>10. CASE Dispatch
  <2>1. t \notin Dispatchable
    BY <1>5, DispatchableGreedy DEF Starts
  <2>2. store'[t] = store[t]
    BY <1>10, <2>1 DEF Dispatch
  <2>. QED  BY <1>6, <2>2
<1>11. ASSUME NEW u \in Tasks, Queue(u) \/ Pause(u) \/ Resume(u) \/ Retry(u) \/ Dismiss(u)
       PROVE  store'[t] = store[t]
  <2>1. CASE Pause(u)
    BY <2>1 DEF Pause
  <2>2. CASE Queue(u) \/ Resume(u) \/ Retry(u)
    <3>1. u # t
      BY <1>5, <2>2 DEF Queue, Resume, Retry
    <3>. QED  BY <1>1, <2>2, <3>1 DEF Queue, Resume, Retry, Enqueue, DiskOK
  <2>3. CASE Dismiss(u)
    <3>1. u # t
      BY <1>5, <2>3 DEF Dismiss, Dismissible, IsTerminal
    <3>. QED  BY <1>1, <2>3, <3>1 DEF Dismiss, DiskOK
  <2>. QED  BY <1>11, <2>1, <2>2, <2>3
<1>12. ASSUME NEW u \in Tasks, Cancel(u)
       PROVE  store'[t] = store[t] \/ store'[t].state = "Cancelling"
  <2>1. CASE u # t
    BY <1>1, <1>12, <2>1 DEF Cancel, DiskOK
  <2>2. CASE u = t
    <3>1. store'[t] = Entry("Cancelling", store[t].worker)
      BY <1>1, <1>5, <1>12, <2>2 DEF Cancel, DiskOK
    <3>. QED  BY <3>1 DEF Entry
  <2>. QED  BY <2>1, <2>2
<1>13. CASE ClearFinished
  <2>1. ~Dismissible(t)
    BY <1>5 DEF Dismissible, IsTerminal
  <2>2. store'[t] = store[t]
    BY <1>13, <2>1 DEF ClearFinished
  <2>. QED  BY <1>6, <2>2
<1>14. CASE Requests
  BY <1>6, <1>11, <1>12, <1>13, <1>14 DEF Requests
<1>15. CASE HubStarts \/ HubStops
  BY <1>6, <1>15 DEF HubStarts, HubStops
<1>16. ASSUME NEW w \in DOMAIN process, Work(w) \/ WorkerFails(w) \/ WorkerDies(w)
       PROVE  store' = store
  BY <1>16 DEF Work, WorkerStarts, WorkerAdvances, WorkerCompletes, WorkerReports, WorkerWritesResult, WorkerFails, WorkerDies,
         OnlyWorker
<1>17. CASE UNCHANGED vars
  BY <1>6, <1>17 DEF vars
<1>. QED  BY <1>6, <1>7, <1>8, <1>9, <1>10, <1>14, <1>15, <1>16, <1>17 DEF Next, Coordinate

(* ApplyStatus, ApplyResult, Reconcile and Cancel leave an installation that   *)
(* its worker has completed to become completed.                               *)
THEOREM CompletionsStand == Spec => CompletionsWin
<1>1. TypeOK /\ HubInv /\ [Next]_vars =>
         [\A t \in Tasks : Active(t) /\ result[t] = "Completed" /\ t \notin doubled
                              => store'[t].state \notin {"Queued", "Paused", "Failed", "Cancelled"}]_vars
  BY CompletionStands
<1>. QED  BY <1>1, TypeCorrect, JournalsKept, PTL DEF Spec, CompletionsWin

=============================================================================
