------------------------------ MODULE JobQueue -------------------------------
(***************************************************************************)
(* The ready queues behind JobSystem's two lanes: one deque per priority   *)
(* in every worker, in the injection queue and in the blocking queue, and  *)
(* PopQueue's choice between priorities, which promotes a deque by one     *)
(* priority for every AgingSubmissions jobs submitted after its front.     *)
(*                                                                         *)
(* A job is its submission Sequence. A job may be enqueued long after it   *)
(* was submitted, when its dependencies finish, so a deque need not be in  *)
(* submission order. Each call holds the mutex of the deques it looks at;  *)
(* TryTakeCompute looks at several and is one step here.                   *)
(***************************************************************************)
EXTENDS Naturals, Sequences, FiniteSets

CONSTANTS
    WorkerCount,      \* JobSystemSpecification::WorkerCount
    PriorityCount,    \* priorities, 0 is Critical
    AgingSubmissions, \* JobSystemSpecification::PriorityAgingSubmissions
    MaxSequence,      \* bound: how many jobs are ever submitted
    UsedPlaces        \* where jobs are enqueued

Workers == 0..(WorkerCount - 1)
Priorities == 0..(PriorityCount - 1)
InjectionQueue == WorkerCount
Blocking == WorkerCount + 1
Places == 0..Blocking
Sequences == 1..MaxSequence

ASSUME JobQueueAssumption ==
    /\ WorkerCount \in Nat \ {0} /\ PriorityCount \in Nat \ {0}
    /\ AgingSubmissions \in Nat \ {0} /\ MaxSequence \in Nat
    /\ UsedPlaces \subseteq Places

VARIABLES
    nextSequence, \* NextSequence
    priority,     \* Description.Priority of the submitted jobs
    queues,       \* place -> priority -> deque, front first
    arrival,      \* history: NextSequence when a job was enqueued, 0 before
    taken         \* history: the jobs taken so far, with the place each came from

vars == <<nextSequence, priority, queues, arrival, taken>>

Init ==
    /\ nextSequence = 1
    /\ priority = [j \in Sequences |-> 0]
    /\ queues = [place \in Places |-> [p \in Priorities |-> <<>>]]
    /\ arrival = [j \in Sequences |-> 0]
    /\ taken = {}

-----------------------------------------------------------------------------
(* PopQueue *)

Nonempty(deques) == {p \in Priorities : deques[p] # <<>>}
Empty(deques) == Nonempty(deques) = {}

(* The priority p counts as, by the age of its front. *)
EffectiveByBack(deques, p) ==
    LET promotions == (nextSequence - deques[p][Len(deques[p])]) \div AgingSubmissions
    IN IF promotions >= p THEN 0 ELSE p - promotions
Effective(deques, p) ==
    LET promotions == (nextSequence - Head(deques[p])) \div AgingSubmissions
    IN IF promotions >= p THEN 0 ELSE p - promotions

(* Of two priorities that count the same, the one with the older front. *)
Beats(deques, p, q) ==
    \/ Effective(deques, p) < Effective(deques, q)
    \/ Effective(deques, p) = Effective(deques, q) /\ Head(deques[p]) <= Head(deques[q])

Selected(deques) == CHOOSE p \in Nonempty(deques) : \A q \in Nonempty(deques) : Beats(deques, p, q)

(* A worker's own deque gives its newest job, unless it was promoted. *)
FromBack(deques, local) == local /\ Effective(deques, Selected(deques)) = Selected(deques)

PopQueueMixed(place, local) ==
    LET deques == queues[place]
        p == Selected(deques)
        q == deques[p]
    IN /\ ~Empty(deques)
       /\ taken' = taken \cup {<<IF FromBack(deques, local) THEN q[Len(q)] ELSE Head(q), place>>}
       /\ queues' = [queues EXCEPT ![place][p] = IF local THEN SubSeq(q, 1, Len(q) - 1) ELSE Tail(q)]
       /\ UNCHANGED <<nextSequence, priority, arrival>>
PopQueue(place, local) ==
    LET deques == queues[place]
        p == Selected(deques)
        q == deques[p]
        back == FromBack(deques, local)
    IN /\ ~Empty(deques)
       /\ taken' = taken \cup {<<IF back THEN q[Len(q)] ELSE Head(q), place>>}
       /\ queues' = [queues EXCEPT ![place][p] = IF back THEN SubSeq(q, 1, Len(q) - 1) ELSE Tail(q)]
       /\ UNCHANGED <<nextSequence, priority, arrival>>

-----------------------------------------------------------------------------
Submit(p) ==
    /\ nextSequence <= MaxSequence
    /\ priority' = [priority EXCEPT ![nextSequence] = p]
    /\ nextSequence' = nextSequence + 1
    /\ UNCHANGED <<queues, arrival, taken>>

(* The last part of Enqueue. *)
Enqueue(j, place) ==
    /\ j < nextSequence /\ arrival[j] = 0 /\ place \in UsedPlaces
    /\ arrival' = [arrival EXCEPT ![j] = nextSequence]
    /\ queues' = [queues EXCEPT ![place][priority[j]] = Append(@, j)]
    /\ UNCHANGED <<nextSequence, priority, taken>>

TakeLocal(w) == PopQueue(w, TRUE)
TakeInjected(w) == Empty(queues[w]) /\ PopQueue(InjectionQueue, FALSE)

(* The other workers in turn, starting after the thief. *)
Victim(w, offset) == (w + offset) % WorkerCount
Steal(w, offset) ==
    /\ Empty(queues[w]) /\ Empty(queues[InjectionQueue])
    /\ \A nearer \in 1..(offset - 1) : Empty(queues[Victim(w, nearer)])
    /\ PopQueue(Victim(w, offset), FALSE)

TryTakeCompute(w) ==
    TakeLocal(w) \/ TakeInjected(w) \/ \E offset \in 1..(WorkerCount - 1) : Steal(w, offset)
TryTakeBlocking == PopQueue(Blocking, FALSE)

Next ==
    \/ \E p \in Priorities : Submit(p)
    \/ \E j \in Sequences, place \in Places : Enqueue(j, place)
    \/ \E w \in Workers : TryTakeCompute(w)
    \/ TryTakeBlocking

Spec == Init /\ [][Next]_vars

-----------------------------------------------------------------------------
JobsOf(q) == {q[i] : i \in DOMAIN q}
Holds(place, j) == \E p \in Priorities : j \in JobsOf(queues[place][p])

(* Jobs submitted after j had been enqueued and yet taken before it. *)
Overtakers(j, places) ==
    {k \in Sequences : k >= arrival[j] /\ \E place \in places : <<k, place>> \in taken}

(* Once every deque counts as Critical, no newcomer overtakes: whatever      *)
(* priorities are submitted and however late and out of order they were      *)
(* enqueued, only newcomers of a short window after its arrival are taken    *)
(* from the injection or the blocking queue before a job that waits there.   *)
Window(j) == priority[j] * AgingSubmissions
AgingBoundsBypass == \A place \in {InjectionQueue, Blocking} : \A j \in Sequences :
    Holds(place, j) => \A k \in Overtakers(j, {place}) : k + 3 <= arrival[j] + Window(j)

(* No job is lost, duplicated or executed by two workers: once enqueued it   *)
(* is in one place of one deque or has been taken, never both, although the  *)
(* owner takes from one end, thieves from the other and promotion changes    *)
(* the end that the owner uses.                                              *)
EachJobOnce == \A j \in Sequences : arrival[j] # 0 =>
    LET spots == {s \in Places \X Priorities \X Sequences :
                     s[3] \in DOMAIN queues[s[1]][s[2]] /\ queues[s[1]][s[2]][s[3]] = j}
    IN Cardinality(spots) + Cardinality({place \in Places : <<j, place>> \in taken}) = 1

=============================================================================
