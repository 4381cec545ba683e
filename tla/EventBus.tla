------------------------------- MODULE EventBus -------------------------------
(***************************************************************************)
(* The event bus (src/KeireCore/Source/Event.cpp).  Its owner thread         *)
(* subscribes, dispatches, drains the queue and closes the bus, and does so  *)
(* again inside of the callbacks that a dispatch calls; other threads put    *)
(* events in the queue and disconnect listeners at any moment.               *)
(*                                                                         *)
(* The owner's calls in progress are `frames`, the innermost last.  Code of  *)
(* the client runs when there is none or the innermost one is a dispatch     *)
(* that is calling a listener.                                             *)
(***************************************************************************)
EXTENDS Naturals, FiniteSets, SequencesExt

CONSTANTS
    Type,           \* the types of events
    Generic,        \* what a generic listener listens to
    Kind,           \* what the listeners of an instance listen to
    Priority,
    Producer,       \* the other threads that enqueue
    QueueCapacity,
    MaxListeners,   \* bound on the listeners that ever subscribe
    MaxEvents,      \* bound on the events that are ever accepted by the queue
    MaxDepth        \* bound on the dispatches that are nested

ASSUME BusAssumption ==
    /\ Generic \notin Type /\ Kind \subseteq Type \cup {Generic} /\ Priority \subseteq Nat
    /\ QueueCapacity \in Nat \ {0}
    /\ MaxListeners \in Nat /\ MaxEvents \in Nat /\ MaxDepth \in Nat \ {0}

VARIABLES
    subscriptions,  \* by Sequence: what a listener listens to, and its priority
    listeners,      \* m_Listeners: the sequence numbers, in the order of calling
    active,         \* the listeners in m_ListenerLookup, whose Active is set
    open,
    queue,          \* m_Queue
    frames,
    producers,      \* the type with which a thread is inside TryEnqueue, or Generic
    \* What the properties remember.
    events,         \* the types of the events that were accepted, by number
    delivered,      \* the numbers whose dispatch has begun
    thrown,         \* an exception has left a DispatchQueued
    raced           \* another thread has disconnected the listener that is about to be called

books == <<subscriptions, listeners>>
history == <<thrown, raced>>
vars == <<books, active, open, queue, frames, producers, events, delivered, history>>

Listener == 1..MaxListeners

Init ==
    /\ subscriptions = <<>> /\ listeners = <<>> /\ active = {} /\ open = TRUE
    /\ queue = <<>> /\ frames = <<>> /\ producers = [p \in Producer |-> Generic]
    /\ events = <<>> /\ delivered = {} /\ thrown = FALSE /\ raced = FALSE

Top == Last(frames)
In(operation) == frames # <<>> /\ Top.op = operation
AtStep(step) == In("dispatch") /\ Top.step = step
UserCode == frames = <<>> \/ AtStep("call")
Replace(frame) == frames' = Append(Front(frames), frame)
Depth(stack) == Cardinality({i \in DOMAIN stack : stack[i].op = "dispatch"})

(***************************************************************************)
(* Subscribing and disconnecting.                                          *)
(***************************************************************************)

Before(id, other) ==
    \/ subscriptions[id].priority > subscriptions[other].priority
    \/ subscriptions[id].priority = subscriptions[other].priority /\ id < other

(* The first listener of a lower priority, or the end. *)
InsertPositionFirst(priority) == 1
InsertPosition(priority) ==
    Min({i \in DOMAIN listeners : subscriptions[listeners[i]].priority < priority} \cup {Len(listeners) + 1})

Subscribe(kind, priority) ==
    LET id == Len(subscriptions) + 1
    IN /\ UserCode /\ open /\ id <= MaxListeners
       /\ subscriptions' = Append(subscriptions, [kind |-> kind, priority |-> priority])
       /\ listeners' = InsertAt(listeners, InsertPosition(priority), id)
       /\ active' = active \cup {id}
       /\ UNCHANGED <<open, queue, frames, producers, events, delivered, history>>

(* EventSubscription::Disconnect leaves the listener in the list. *)
Disconnect(id) ==
    /\ UserCode /\ id \in active
    /\ active' = active \ {id}
    /\ UNCHANGED <<books, open, queue, frames, producers, events, delivered, history>>

DisconnectByOther(id) ==
    /\ id \in active
    /\ active' = active \ {id}
    /\ raced' = (raced \/ (AtStep("found") /\ Top.at = id))
    /\ UNCHANGED <<books, open, queue, frames, producers, events, delivered, thrown>>

(***************************************************************************)
(* Dispatch                                                                *)
(***************************************************************************)

(* maximumSequence is read before the first listener is called. *)
Enter(type) ==
    Append(frames, [op |-> "dispatch", type |-> type, max |-> Len(subscriptions),
                    at |-> 0, step |-> "seek"])

Dispatch(type) ==
    /\ UserCode /\ open /\ Depth(frames) < MaxDepth
    /\ frames' = Enter(type)
    /\ UNCHANGED <<books, active, open, queue, producers, events, delivered, history>>

Matches(id) == id <= Top.max /\ id \in active /\ subscriptions[id].kind \in {Generic, Top.type}

Position(id) == CHOOSE i \in DOMAIN listeners : listeners[i] = id
Ahead == {i \in DOMAIN listeners : (Top.at = 0 \/ Position(Top.at) < i) /\ Matches(listeners[i])}

Connected == FoldLeft(LAMBDA list, id : IF id \in active THEN Append(list, id) ELSE list, <<>>, listeners)
PruneAlways(stack) == Connected
Prune(stack) == IF Depth(stack) = 0 THEN Connected ELSE listeners
FinishDispatch(stack) ==
    /\ frames' = stack
    /\ listeners' = Prune(stack)
    /\ UNCHANGED subscriptions

(* The loop finds its next listener; it calls it in a step of its own,       *)
(* because another thread may disconnect it in between.                      *)
Seek ==
    /\ AtStep("seek")
    /\ \/ /\ Ahead # {}
          /\ Replace([Top EXCEPT !.at = listeners[Min(Ahead)], !.step = "found"])
          /\ UNCHANGED books
       \/ Ahead = {} /\ FinishDispatch(Front(frames))
    /\ UNCHANGED <<active, open, queue, producers, events, delivered, history>>

Call ==
    /\ AtStep("found")
    /\ Replace([Top EXCEPT !.step = "call"])
    /\ raced' = FALSE
    /\ UNCHANGED <<books, active, open, queue, producers, events, delivered, thrown>>

(* A callback continues, or has handled the event. *)
Return ==
    /\ AtStep("call")
    /\ \/ Replace([Top EXCEPT !.step = "seek"]) /\ UNCHANGED books
       \/ FinishDispatch(Front(frames))
    /\ UNCHANGED <<active, open, queue, producers, events, delivered, history>>

(* An exception leaves the dispatch, and the DispatchQueued that called it;  *)
(* the client's code below may catch it or be left by it in turn.            *)
Throw ==
    LET below == Front(frames)
        drained == below # <<>> /\ Last(below).op = "drain"
    IN /\ AtStep("call")
       /\ FinishDispatch(IF drained THEN Front(below) ELSE below)
       /\ thrown' = (thrown \/ drained)
       /\ UNCHANGED <<active, open, queue, producers, events, delivered, raced>>

(***************************************************************************)
(* The queue.                                                              *)
(***************************************************************************)

HasRoom == Len(queue) < QueueCapacity

Admits == open

(* Under the queue's mutex. *)
Accept(type) ==
    \/ /\ Admits /\ HasRoom /\ Len(events) < MaxEvents
       /\ events' = Append(events, type)
       /\ queue' = Append(queue, Len(events) + 1)
    \/ ~(Admits /\ HasRoom) /\ UNCHANGED <<events, queue>>

(* TryEnqueue looks whether the bus is open before it takes the mutex. *)
TryEnqueue(p, type) ==
    /\ producers[p] = Generic /\ open
    /\ producers' = [producers EXCEPT ![p] = type]
    /\ UNCHANGED <<books, active, open, queue, frames, events, delivered, history>>

EnqueueLocked(p) ==
    /\ producers[p] # Generic
    /\ Accept(producers[p])
    /\ producers' = [producers EXCEPT ![p] = Generic]
    /\ UNCHANGED <<books, active, open, frames, delivered, history>>

TryEnqueueByOwner(type) ==
    /\ UserCode /\ open
    /\ Accept(type)
    /\ UNCHANGED <<books, active, open, frames, producers, delivered, history>>

TakenFirst == <<Head(queue)>>
Taken == queue

(* All that is queued now, and nothing that is queued while it is drained. *)
DispatchQueued ==
    /\ UserCode /\ open /\ queue # <<>> /\ Depth(frames) < MaxDepth
    /\ frames' = Append(frames, [op |-> "drain", rest |-> Taken])
    /\ queue' = <<>>
    /\ UNCHANGED <<books, active, open, producers, events, delivered, history>>

(* The next event of a drain; once the bus is closed the others are none.    *)
DrainNext ==
    /\ In("drain")
    /\ \/ /\ Top.rest # <<>> /\ open
          /\ frames' = Append(Front(frames) \o <<[Top EXCEPT !.rest = Tail(@)]>>,
                              Last(Enter(events[Head(Top.rest)])))
          /\ delivered' = delivered \cup {Head(Top.rest)}
       \/ /\ Top.rest = <<>> \/ ~open
          /\ frames' = Front(frames)
          /\ UNCHANGED delivered
    /\ UNCHANGED <<books, active, open, queue, producers, events, history>>

(***************************************************************************)
(* Close                                                                   *)
(***************************************************************************)

Close ==
    /\ UserCode /\ open
    /\ open' = FALSE
    /\ frames' = Append(frames, [op |-> "close", step |-> "listeners"])
    /\ UNCHANGED <<books, active, queue, producers, events, delivered, history>>

CloseListeners ==
    /\ In("close") /\ Top.step = "listeners"
    /\ active' = {}
    /\ Replace([Top EXCEPT !.step = "queue"])
    /\ UNCHANGED <<books, open, queue, producers, events, delivered, history>>

Cleared == IF Depth(frames) = 0 THEN <<>> ELSE listeners

CloseQueue ==
    /\ In("close") /\ Top.step = "queue"
    /\ queue' = <<>>
    /\ listeners' = Cleared
    /\ frames' = Front(frames)
    /\ UNCHANGED <<subscriptions, active, open, producers, events, delivered, history>>

-----------------------------------------------------------------------------

Next ==
    \/ \E kind \in Kind, priority \in Priority : Subscribe(kind, priority)
    \/ \E id \in Listener : Disconnect(id) \/ DisconnectByOther(id)
    \/ \E type \in Type : Dispatch(type) \/ TryEnqueueByOwner(type)
    \/ \E p \in Producer, type \in Type : TryEnqueue(p, type)
    \/ \E p \in Producer : EnqueueLocked(p)
    \/ Seek \/ Call \/ Return \/ Throw
    \/ DispatchQueued \/ DrainNext
    \/ Close \/ CloseListeners \/ CloseQueue

Spec == Init /\ [][Next]_vars
=============================================================================
