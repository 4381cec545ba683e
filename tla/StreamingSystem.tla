---------------------------- MODULE StreamingSystem ----------------------------
(***************************************************************************)
(* The residency of streamed assets                                        *)
(* (src/KeireCore/Source/Streaming/StreamingSystem.cpp), the table of its     *)
(* handles (KeireInternal/StableHandleTable.h), and the range reads of the   *)
(* asset system that it waits for (src/KeireCore/Source/Assets/AssetSystem.cpp). *)
(*                                                                         *)
(* The owner thread requests, pumps and evicts; any thread cancels,         *)
(* releases, pins, touches and closes, with a handle that may long be stale; *)
(* the asset workers read.  Each step is one critical section.              *)
(***************************************************************************)
EXTENDS Integers, SequencesExt

CONSTANTS
    Class,
    Size,               \* what a request may ask for: [cpu |-> bytes, gpu |-> bytes]
    Budget,             \* of each class: [cpu |-> bytes, gpu |-> bytes], 0 is no limit
    EvictionThreshold,  \* in percent of the budget
    EvictionTarget,     \* in percent of the budget
    MaximumRequests,
    QueueCapacity,      \* of the asset system
    Readers,            \* the workers that read
    MaxIssued,          \* bound on the requests that are ever made
    MaxSequence,        \* bound on the clock of requests and touches
    None

(* Requested is the state inside of Request only. *)
ResidencyState == {"Loading", "Resident", "Evicted", "Failed", "Cancelled"}
RequestRecord ==
    [id : Nat, class : Class, size : Size, pinned : BOOLEAN, state : ResidencyState, touch : Nat]

ASSUME StreamingAssumption ==
    /\ Size \subseteq [cpu : Nat \ {0}, gpu : Nat] /\ Budget \in [Class -> [cpu : Nat, gpu : Nat]]
    /\ EvictionThreshold \in Nat /\ EvictionTarget \in Nat \ {0}
    /\ EvictionThreshold >= 100 /\ EvictionTarget < EvictionThreshold
    /\ MaximumRequests \in Nat \ {0} /\ QueueCapacity \in Nat \ {0} /\ Readers \in Nat \ {0}
    /\ MaxIssued \in Nat /\ MaxSequence \in Nat
    /\ None \notin RequestRecord

VARIABLES
    slots,       \* m_Slots: a record or None, and the generation
    free,        \* m_Free
    active,      \* Active: the handles in the order of the requests
    statistics,  \* by class
    sequence,    \* Sequence: the clock of LastTouch
    open,
    pumping,     \* the owner is in Pump, before EvictToBudgets
    issued,      \* the handles that Request has returned
    operations,  \* the AssetStreamOperation of each request, and where its job is
    queueSize,   \* QueueSize of the asset system
    assets       \* the asset system: "open", "closing" (by the owner) or "closed"

table == <<slots, free, active>>
reads == <<operations, queueSize, assets>>
vars == <<table, statistics, sequence, open, pumping, issued, reads>>

Zero == [requested |-> 0, inFlight |-> 0, cpu |-> 0, gpu |-> 0, requests |-> 0, completed |-> 0,
         cancelled |-> 0, failures |-> 0, evictions |-> 0]

Init ==
    /\ slots = <<>> /\ free = <<>> /\ active = <<>> /\ statistics = [c \in Class |-> Zero]
    /\ sequence = 0 /\ open = TRUE /\ pumping = FALSE /\ issued = <<>>
    /\ operations = <<>> /\ queueSize = 0 /\ assets = "open"

Less(a, b) == IF a > b THEN a - b ELSE 0

(***************************************************************************)
(* The table of handles.                                                   *)
(***************************************************************************)

Matches(h) ==
    /\ h.slot \in DOMAIN slots
    /\ slots[h.slot].generation = h.generation /\ slots[h.slot].record # None
RecordOf(h) == slots[h.slot].record
StateOf(h) == IF Matches(h) THEN RecordOf(h).state ELSE "Stale"

Emplace(record) ==
    IF free = <<>>
    THEN slots' = Append(slots, [record |-> record, generation |-> 1]) /\ UNCHANGED free
    ELSE slots' = [slots EXCEPT ![Last(free)].record = record] /\ free' = Front(free)
NewHandle ==
    IF free = <<>> THEN [slot |-> Len(slots) + 1, generation |-> 1]
                   ELSE [slot |-> Last(free), generation |-> slots[Last(free)].generation]

ErasedInPlace(slot) == [record |-> None, generation |-> slot.generation]
Erased(slot) == [record |-> None, generation |-> slot.generation + 1]

(***************************************************************************)
(* The operations of the asset system.                                     *)
(***************************************************************************)

IsTerminalButCancelled(state) == state \in {"Succeeded", "Failed"}
IsTerminal(state) == state \in {"Succeeded", "Failed", "Cancelled"}

(* AssetStreamOperation::Cancel, for several of them. *)
CancelledOperations(ids) ==
    [id \in DOMAIN operations |->
        IF id \notin ids THEN operations[id]
        ELSE [operations[id] EXCEPT !.cancel = TRUE,
                                    !.state = IF @ = "Queued" THEN "Cancelled" ELSE @]]

(* ReadRangeAsync and QueueStream. *)
ReadRangeAsync ==
    /\ assets = "open" /\ queueSize < QueueCapacity
    /\ operations' = Append(operations, [state |-> "Queued", cancel |-> FALSE, job |-> "queued"])
    /\ queueSize' = queueSize + 1
    /\ UNCHANGED assets

(* RunStreamJob, up to the read, and after it. *)
StartRead(id) ==
    /\ operations[id].job = "queued"
    /\ Cardinality({i \in DOMAIN operations : operations[i].job \in {"reading", "leaving"}}) < Readers
    /\ operations' = [operations EXCEPT ![id] =
           IF @.cancel THEN [@ EXCEPT !.state = "Cancelled", !.job = "leaving"]
                       ELSE [@ EXCEPT !.state = "Reading", !.job = "reading"]]
    /\ UNCHANGED <<table, statistics, sequence, open, pumping, issued, queueSize, assets>>

FinishRead(id) ==
    /\ operations[id].job = "reading"
    /\ \E result \in {IF operations[id].cancel THEN "Cancelled" ELSE "Succeeded", "Failed"} :
          operations' = [operations EXCEPT ![id].state = result, ![id].job = "leaving"]
    /\ UNCHANGED <<table, statistics, sequence, open, pumping, issued, queueSize, assets>>

Freed(id) == Less(queueSize, 1)

(* The end of the job, whatever became of the read. *)
LeaveQueue(id) ==
    /\ operations[id].job = "leaving"
    /\ operations' = [operations EXCEPT ![id].job = "over"]
    /\ queueSize' = Freed(id)
    /\ UNCHANGED <<table, statistics, sequence, open, pumping, issued, assets>>

(* AssetSystem::Close cancels the reads, then the jobs of its scope, of      *)
(* which those that have not started never run, and waits for the others.    *)
CloseAssets ==
    /\ ~pumping /\ assets = "open"
    /\ assets' = "closing"
    /\ UNCHANGED <<table, statistics, sequence, open, pumping, issued, operations, queueSize>>

Unaware == {id \in DOMAIN operations : ~IsTerminal(operations[id].state) /\ ~operations[id].cancel}
AbortRead(id) ==
    /\ assets = "closing" /\ id \in Unaware
    /\ operations' = CancelledOperations({id})
    /\ UNCHANGED <<table, statistics, sequence, open, pumping, issued, queueSize, assets>>

DropJob(id) ==
    /\ assets = "closing" /\ Unaware = {} /\ operations[id].job = "queued"
    /\ operations' = [operations EXCEPT ![id].job = "dropped"]
    /\ UNCHANGED <<table, statistics, sequence, open, pumping, issued, queueSize, assets>>

AssetsClosed ==
    /\ assets = "closing" /\ Unaware = {}
    /\ \A id \in DOMAIN operations : operations[id].job \in {"over", "dropped"}
    /\ assets' = "closed"
    /\ UNCHANGED <<table, statistics, sequence, open, pumping, issued, operations, queueSize>>

(***************************************************************************)
(* The statistics of a class.                                              *)
(***************************************************************************)

Requested(s, size) ==
    [s EXCEPT !.requested = @ + size.cpu, !.inFlight = @ + size.cpu, !.requests = @ + 1]
Cancelled(s, size) ==
    [s EXCEPT !.inFlight = Less(@, size.cpu), !.requested = Less(@, size.cpu), !.cancelled = @ + 1]
CompletedTwice(s, size) ==
    [s EXCEPT !.cpu = @ + size.cpu, !.gpu = @ + size.gpu, !.completed = @ + 1]
Completed(s, size) ==
    [s EXCEPT !.inFlight = Less(@, size.cpu), !.cpu = @ + size.cpu, !.gpu = @ + size.gpu, !.completed = @ + 1]
Failed(s, size) ==
    [s EXCEPT !.inFlight = Less(@, size.cpu), !.requested = Less(@, size.cpu), !.failures = @ + 1]
Dropped(s, size) ==
    [s EXCEPT !.cpu = Less(@, size.cpu), !.gpu = Less(@, size.gpu), !.requested = Less(@, size.cpu)]
Evicted(s, size) == [Dropped(s, size) EXCEPT !.evictions = @ + 1]

(***************************************************************************)
(* Requests                                                                *)
(***************************************************************************)

InUse == Len(active)

Request(class, size, pinned) ==
    LET record == [id |-> Len(issued) + 1, class |-> class, size |-> size, pinned |-> pinned,
                   state |-> "Loading", touch |-> sequence + 1]
    IN /\ ~pumping /\ open /\ Len(issued) < MaxIssued /\ sequence < MaxSequence
       /\ InUse < MaximumRequests
       /\ ReadRangeAsync
       /\ Emplace(record)
       /\ active' = Append(active, NewHandle)
       /\ issued' = Append(issued, NewHandle)
       /\ statistics' = [statistics EXCEPT ![class] = Requested(@, size)]
       /\ sequence' = sequence + 1
       /\ UNCHANGED <<open, pumping>>

Cancel(h) ==
    /\ StateOf(h) = "Loading"
    /\ operations' = CancelledOperations({RecordOf(h).id})
    /\ slots' = [slots EXCEPT ![h.slot].record.state = "Cancelled"]
    /\ statistics' = [statistics EXCEPT ![RecordOf(h).class] = Cancelled(@, RecordOf(h).size)]
    /\ UNCHANGED <<free, active, sequence, open, pumping, issued, queueSize, assets>>

(* active holds each handle once. *)
Without(h) == RemoveAt(active, CHOOSE i \in DOMAIN active : active[i] = h)

UnreadNone(h) == {}
Unread(h) == {RecordOf(h).id}

Release(h) ==
    /\ Matches(h)
    /\ \/ /\ StateOf(h) = "Loading"
          /\ operations' = CancelledOperations(Unread(h))
          /\ statistics' = [statistics EXCEPT ![RecordOf(h).class] = Cancelled(@, RecordOf(h).size)]
       \/ /\ StateOf(h) = "Resident"
          /\ statistics' = [statistics EXCEPT ![RecordOf(h).class] = Dropped(@, RecordOf(h).size)]
          /\ UNCHANGED operations
       \/ StateOf(h) \notin {"Loading", "Resident"} /\ UNCHANGED <<operations, statistics>>
    /\ active' = Without(h)
    /\ slots' = [slots EXCEPT ![h.slot] = Erased(@)]
    /\ free' = Append(free, h.slot)
    /\ UNCHANGED <<sequence, open, pumping, issued, queueSize, assets>>

SetPinned(h, pinned) ==
    /\ Matches(h)
    /\ slots' = [slots EXCEPT ![h.slot].record.pinned = pinned]
    /\ UNCHANGED <<free, active, statistics, sequence, open, pumping, issued, reads>>

Touch(h) ==
    /\ Matches(h) /\ sequence < MaxSequence
    /\ slots' = [slots EXCEPT ![h.slot].record.touch = sequence + 1]
    /\ sequence' = sequence + 1
    /\ UNCHANGED <<free, active, statistics, open, pumping, issued, reads>>

(***************************************************************************)
(* Pump and EvictToBudgets                                                 *)
(***************************************************************************)

Result(id) == operations[id].state
Awaited(record) == record # None /\ record.state = "Loading"
Ready(slot) == Awaited(slot.record) /\ IsTerminal(Result(slot.record.id))

Arrived(record) ==
    [record EXCEPT !.state = IF Result(record.id) = "Succeeded" THEN "Resident" ELSE Result(record.id)]
Arrival(s, record) ==
    CASE Result(record.id) = "Succeeded" -> Completed(s, record.size)
      [] Result(record.id) = "Failed" -> Failed(s, record.size)
      [] Result(record.id) = "Cancelled" -> Cancelled(s, record.size)

Pump ==
    /\ ~pumping /\ open /\ assets # "closing"
    /\ slots' = [i \in DOMAIN slots |->
                    IF Ready(slots[i]) THEN [slots[i] EXCEPT !.record = Arrived(@)] ELSE slots[i]]
    /\ statistics' =
          FoldLeft(LAMBDA s, h : IF Ready(slots[h.slot])
                                 THEN [s EXCEPT ![RecordOf(h).class] = Arrival(@, RecordOf(h))] ELSE s,
                   statistics, active)
    /\ pumping' = TRUE
    /\ UNCHANGED <<free, active, sequence, open, issued, reads>>

Scaled(bytes, percent) == (bytes * percent) \div 100
Within(budget, bytes, percent) == budget = 0 \/ bytes <= Scaled(budget, percent)
WithinBudget(c, cpu, gpu, percent) ==
    Within(Budget[c].cpu, cpu, percent) /\ Within(Budget[c].gpu, gpu, percent)

Evictable(c, record) ==
    record # None /\ record.class = c /\ record.state = "Resident" /\ ~record.pinned
Candidates(c) == {i \in DOMAIN slots : Evictable(c, slots[i].record)}

EarlierNewest(i, j) == slots[i].record.touch > slots[j].record.touch
Earlier(i, j) == slots[i].record.touch < slots[j].record.touch

(* What a class keeps when the candidates before one of them are gone. *)
Left(c, gone) == FoldSet(LAMBDA i, s : Evicted(s, slots[i].record.size), statistics[c], gone)

(* The sorted candidates are evicted until the class is within its target. *)
Victims(c) ==
    IF WithinBudget(c, statistics[c].cpu, statistics[c].gpu, EvictionThreshold) THEN {}
    ELSE {i \in Candidates(c) :
             LET left == Left(c, {j \in Candidates(c) : Earlier(j, i)})
             IN ~WithinBudget(c, left.cpu, left.gpu, EvictionTarget)}

EvictToBudgets ==
    /\ (pumping \/ open) /\ assets # "closing"
    /\ pumping' = FALSE
    /\ \/ /\ open
          /\ slots' = [i \in DOMAIN slots |->
                          IF \E c \in Class : i \in Victims(c)
                          THEN [slots[i] EXCEPT !.record.state = "Evicted"] ELSE slots[i]]
          /\ statistics' = [c \in Class |-> Left(c, Victims(c))]
       \/ ~open /\ UNCHANGED <<slots, statistics>>
    /\ UNCHANGED <<free, active, sequence, open, issued, reads>>

(***************************************************************************)
(* Close                                                                   *)
(***************************************************************************)

Loading(c) == {h \in ToSet(active) : StateOf(h) = "Loading" /\ RecordOf(h).class = c}

Close ==
    /\ open
    /\ open' = FALSE
    /\ operations' = CancelledOperations({RecordOf(h).id : h \in UNION {Loading(c) : c \in Class}})
    /\ slots' = [i \in DOMAIN slots |-> IF slots[i].record # None THEN Erased(slots[i]) ELSE slots[i]]
    /\ free' = free \o [i \in DOMAIN active |-> active[i].slot]
    /\ active' = <<>>
    /\ statistics' = [c \in Class |->
           [statistics[c] EXCEPT !.requested = 0, !.inFlight = 0, !.cpu = 0, !.gpu = 0,
                                 !.cancelled = @ + Cardinality(Loading(c))]]
    /\ UNCHANGED <<sequence, pumping, issued, queueSize, assets>>

-----------------------------------------------------------------------------

Worker(id) == StartRead(id) \/ FinishRead(id) \/ LeaveQueue(id)

AssetWorkers == \E id \in DOMAIN operations : Worker(id)
OwnerCloses == AssetsClosed \/ \E id \in DOMAIN operations : AbortRead(id) \/ DropJob(id)

Next ==
    \/ \E class \in Class, size \in Size, pinned \in BOOLEAN : Request(class, size, pinned)
    \/ \E h \in ToSet(issued) : Cancel(h) \/ Release(h) \/ Touch(h)
    \/ \E h \in ToSet(issued), pinned \in BOOLEAN : SetPinned(h, pinned)
    \/ Pump \/ EvictToBudgets \/ Close
    \/ AssetWorkers \/ CloseAssets \/ OwnerCloses

(* The asset workers go on with some read, and the owner with its frame:    *)
(* it pumps again and again (Application.cpp:448), evicts what it must,      *)
(* and finishes closing the asset system once it has begun.                 *)
Owner == Pump \/ (pumping /\ EvictToBudgets) \/ OwnerCloses
Fairness == WF_vars(AssetWorkers) /\ WF_vars(Owner)

Spec == Init /\ [][Next]_vars
FairSpec == Spec /\ Fairness
=============================================================================
