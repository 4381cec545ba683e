---------------------------- MODULE EventProperties ----------------------------
(* What the event bus promises. *)
EXTENDS EventBus

Dispatches == {i \in DOMAIN frames : frames[i].op = "dispatch"}
Drains == {i \in DOMAIN frames : frames[i].op = "drain"}
Closed == ~open /\ ~\E i \in DOMAIN frames : frames[i].op = "close"   \* Close has returned

(* A dispatch that a callback returns to finds its listener still in the     *)
(* list that it walks by iterator, whatever was subscribed, disconnected,    *)
(* dispatched or closed inside of it ("without invalidating traversal",      *)
(* Docs/RuntimeLifecycle.md:115); no connected listener has left the list,   *)
(* and after Close nobody is connected, nor kept once no dispatch runs.      *)
TraversalsStay ==
    /\ \A i \in Dispatches : frames[i].at # 0 => frames[i].at \in ToSet(listeners)
    /\ active \subseteq ToSet(listeners)
    /\ Closed => active = {} /\ (Dispatches = {} => listeners = <<>>)

(* An accepted event waits in one place, or its dispatch has begun; it is    *)
(* lost only when the bus closes or a callback's exception ends a drain.     *)
(* Once Close has returned none is accepted or waits in the queue ("inert",  *)
(* Docs/RuntimeLifecycle.md:119), whoever has seen the bus open before.      *)
Places == {0} \cup Drains
List(i) == IF i = 0 THEN queue ELSE frames[i].rest
Waiting == UNION {ToSet(List(i)) : i \in Places}
AcceptedOnce ==
    /\ \A i \in Places : IsInjective(List(i)) /\ ToSet(List(i)) \cap delivered = {}
    /\ \A i, k \in Places : i # k => ToSet(List(i)) \cap ToSet(List(k)) = {}
    /\ DOMAIN events = Waiting \cup delivered \/ ~open \/ thrown
    /\ Closed => queue = <<>>

(* Every dispatch, at any depth, finds its listeners by priority and then    *)
(* registration, each once, none that subscribed after it began, and passes  *)
(* over none that stays connected, whatever its callbacks and other threads  *)
(* did to the list.                                                          *)
Due(f) ==
    {id \in active : /\ id <= f.max /\ subscriptions[id].kind \in {Generic, f.type}
                     /\ f.at = 0 \/ Before(f.at, id)}
ListenersInOrder ==
    AtStep("seek") /\ frames' # frames =>
        IF Len(frames') = Len(frames)
        THEN /\ Last(frames').at \in Due(Top)
             /\ \A id \in Due(Top) : id = Last(frames').at \/ Before(Last(frames').at, id)
        ELSE Due(Top) = {}

(* A listener that was disconnected, or whose bus was closed, is not called, *)
(* but for one that another thread disconnects between check and call.       *)
NotCalledAfterwards ==
    \A i \in Dispatches :
        i \in DOMAIN frames' /\ frames[i].step = "found" /\ frames'[i].step = "call" =>
            frames[i].at \in active \/ raced

(* Queued events are dispatched in the order of their acceptance, so each    *)
(* producer's are in its own order, and what is queued during a drain comes  *)
(* after it (Docs/Architecture.md:2090); a callback that drains the queue    *)
(* itself is the exception, it overtakes the drain that called it.           *)
EventsInOrder ==
    \A n \in delivered' \ delivered :
        Cardinality(Drains) >= 2 \/ \A m \in 1..(n - 1) : m \notin Waiting

(* Whoever disconnects, subscribes, closes or drains meanwhile, the right    *)
(* listeners get the right events, in order.                                 *)
DeliveredInOrder == [][ListenersInOrder /\ NotCalledAfterwards /\ EventsInOrder]_vars
=============================================================================
