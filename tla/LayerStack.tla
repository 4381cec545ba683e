------------------------------ MODULE LayerStack ------------------------------
(***************************************************************************)
(* The layer stack of an application (src/KeireCore/Source/Layer.cpp) and   *)
(* the frame loop that drives it (Application.cpp).  One thread owns the    *)
(* stack: what interleaves are its callbacks.  A callback may dispatch an   *)
(* event to every layer, ask for layers to be pushed or removed, or throw;  *)
(* such requests wait for the next safe boundary.                           *)
(*                                                                         *)
(* The call stack is `frames`: one frame for each callback of a layer that  *)
(* is running, the innermost last.  Code of the client that is no callback  *)
(* of a layer (OnInitialize, a listener of the bus) runs when it is empty.  *)
(***************************************************************************)
EXTENDS Naturals, SequencesExt

CONSTANTS
    MaxId,        \* bound on the layers that are ever pushed
    MaxPending,   \* bound on the requests that wait
    MaxDepth      \* bound on the callbacks that are nested

Id == 1..MaxId

ASSUME BoundsAssumption == MaxId \in Nat /\ MaxPending \in Nat /\ MaxDepth \in Nat

VARIABLES
    layers,         \* the records, from the bottom to the top: their ids
    attached,       \* the records whose Attached flag is set
    overlayStart,
    pending,        \* PendingOperations
    nextId,
    overlays,       \* the ids that were pushed as overlays
    stage,          \* "created", then "active" (IsActive), then "stopped"
    bound,          \* the layers whose m_Application is set
    frames,         \* the callbacks that are running
    boundary,       \* where ApplyPending is
    batch,          \* the operations it has taken and not yet applied
    failed,         \* an exception has left ApplyPending: the application stops
    \* What the properties remember.
    wanted,         \* the layers there should be, by the answers that were given
    repeated,       \* the layers whose removal a second removal has erased
    ever            \* the layers whose attachment has succeeded

stack == <<layers, attached, overlayStart, bound>>
control == <<stage, boundary, batch, failed>>
vars == <<stack, pending, nextId, overlays, frames, control, wanted, repeated, ever>>

Adds(operations) == {operations[i].id : i \in {j \in DOMAIN operations : operations[j].kind = "add"}}
Removes(operations) == {operations[i].id : i \in {j \in DOMAIN operations : operations[j].kind = "remove"}}
Layers == {layers[i] : i \in DOMAIN layers}
Position(id) == CHOOSE i \in DOMAIN layers : layers[i] = id

Init ==
    /\ layers = <<>> /\ attached = {} /\ overlayStart = 0 /\ pending = <<>>
    /\ nextId = 1 /\ overlays = {} /\ stage = "created" /\ bound = {}
    /\ frames = <<>> /\ boundary = "none" /\ batch = <<>> /\ failed = FALSE
    /\ wanted = {} /\ repeated = {} /\ ever = {}

Traversing == frames # <<>>
Active == stage = "active"
IdleInTraversal == boundary = "none" /\ ~failed
Idle == ~Traversing /\ boundary = "none" /\ ~failed
Enter(kind, at, id) ==
    frames' = Append(frames, [kind |-> kind, at |-> at, id |-> id, mark |-> Len(pending)])
Top == Last(frames)
Leave == frames' = Front(frames)

(***************************************************************************)
(* Pushing and removing outside of a traversal.                            *)
(***************************************************************************)

(* A layer goes below the overlays, an overlay on top. *)
Place(overlay) == IF overlay THEN Len(layers) + 1 ELSE overlayStart + 1
Grown(overlay) == IF overlay THEN overlayStart ELSE overlayStart + 1

(* Layer::Attach sets the owner before OnAttach. *)
Insert(id, overlay) ==
    /\ layers' = InsertAt(layers, Place(overlay), id)
    /\ bound' = bound \cup {id}
    /\ Enter("insert", Place(overlay), id)
    /\ UNCHANGED <<attached, overlayStart>>

Create(overlay) ==
    /\ nextId <= MaxId /\ nextId' = nextId + 1
    /\ overlays' = IF overlay THEN overlays \cup {nextId} ELSE overlays
    /\ wanted' = wanted \cup {nextId}

(* PushLayer and PushOverlay *)
Push(overlay) ==
    /\ Idle /\ Create(overlay)
    /\ \/ Active /\ Insert(nextId, overlay)
       \/ /\ ~Active
          /\ layers' = InsertAt(layers, Place(overlay), nextId)
          /\ overlayStart' = Grown(overlay)
          /\ UNCHANGED <<attached, bound, frames>>
    /\ UNCHANGED <<pending, control, repeated, ever>>

Erase(id) ==
    /\ layers' = RemoveAt(layers, Position(id))
    /\ overlayStart' = IF Position(id) <= overlayStart THEN overlayStart - 1 ELSE overlayStart

NeedsDetach(id) == id \in attached

(* Remove: a pending operation for the layer is erased before the layer is. *)
RemoveNow(id) ==
    LET waiting == {i \in DOMAIN pending : pending[i].id = id}
        first == CHOOSE i \in waiting : \A j \in waiting : i <= j
    IN \/ /\ waiting # {}
          /\ pending' = RemoveAt(pending, first)
          /\ repeated' = IF pending[first].kind = "remove" THEN repeated \cup {id} ELSE repeated
          /\ UNCHANGED <<stack, frames>>
       \/ /\ waiting = {} /\ NeedsDetach(id)
          /\ Enter("remove", Position(id), id)
          /\ UNCHANGED <<stack, pending, repeated>>
       \/ /\ waiting = {} /\ id \in Layers /\ ~NeedsDetach(id)
          /\ Erase(id)
          /\ UNCHANGED <<attached, bound, frames, pending, repeated>>
       \/ waiting = {} /\ id \notin Layers /\ UNCHANGED <<stack, frames, pending, repeated>>

RemoveLayer(id) ==
    /\ Idle /\ id \in Layers \cup Adds(pending) \cup Removes(pending)
    /\ RemoveNow(id)
    /\ wanted' = wanted \ {id}
    /\ UNCHANGED <<nextId, overlays, control, ever>>

(***************************************************************************)
(* What a callback may do.                                                 *)
(***************************************************************************)

PushDeferred(overlay) ==
    /\ Traversing /\ Create(overlay)
    /\ Len(pending) < MaxPending
    /\ pending' = Append(pending, [kind |-> "add", id |-> nextId])
    /\ UNCHANGED <<stack, frames, control, repeated, ever>>

RemoveDeferred(id) ==
    /\ Traversing /\ id \in Layers \cup Adds(pending) \cup Removes(pending)
    /\ Len(pending) < MaxPending
    /\ pending' = Append(pending, [kind |-> "remove", id |-> id])
    /\ wanted' = wanted \ {id}
    /\ UNCHANGED <<stack, nextId, overlays, frames, control, repeated, ever>>

(* Events go from the top to the bottom, inside of any callback. *)
Dispatch ==
    /\ (Idle /\ Active) \/ Traversing
    /\ Len(frames) < MaxDepth /\ layers # <<>>
    /\ Enter("dispatch", Len(layers), Last(layers))
    /\ UNCHANGED <<stack, pending, nextId, overlays, control, wanted, repeated, ever>>

(* FixedUpdate, Update and Ui go from the bottom to the top. *)
Update ==
    /\ Idle /\ Active /\ layers # <<>>
    /\ Enter("update", 1, Head(layers))
    /\ UNCHANGED <<stack, pending, nextId, overlays, control, wanted, repeated, ever>>

(***************************************************************************)
(* A callback returns.                                                     *)
(***************************************************************************)

MoveTo(at) == frames' = Append(Front(frames), [Top EXCEPT !.at = at, !.id = layers[at]])

(* A handled event and a request to exit end the traversal early. *)
ReturnFromTraversal ==
    /\ Traversing /\ Top.kind \in {"update", "dispatch"}
    /\ \/ Leave
       \/ Top.kind = "update" /\ Top.at < Len(layers) /\ MoveTo(Top.at + 1)
       \/ Top.kind = "dispatch" /\ Top.at > 1 /\ MoveTo(Top.at - 1)
    /\ UNCHANGED <<stack, pending, nextId, overlays, control, wanted, repeated, ever>>

MarkedExisting == IF Top.kind = "existing" THEN attached \cup {Top.id} ELSE attached
Marked == attached \cup {Top.id}

ReturnFromAttach ==
    /\ Traversing /\ Top.kind \in {"existing", "insert"}
    /\ attached' = Marked /\ ever' = ever \cup {Top.id}
    /\ overlayStart' = IF Top.kind = "insert" THEN Grown(Top.id \in overlays) ELSE overlayStart
    /\ Leave
    /\ UNCHANGED <<layers, bound, pending, nextId, overlays, control, wanted, repeated>>

(* Layer::Detach, and then Remove erases the record. *)
ReturnFromDetach ==
    /\ Traversing /\ Top.kind = "remove"
    /\ Erase(Top.id)
    /\ attached' = attached \ {Top.id} /\ bound' = bound \ {Top.id}
    /\ Leave
    /\ UNCHANGED <<pending, nextId, overlays, control, wanted, repeated, ever>>

AfterFailure == IF Top.kind = "insert" THEN RemoveAt(layers, Top.at) ELSE layers

(* A failing attachment takes back what was requested while it ran. *)
ThrowFromAttach ==
    LET kept == SubSeq(pending, 1, Top.mark)
        lost == SubSeq(pending, Top.mark + 1, Len(pending))
        left == {layers'[i] : i \in DOMAIN layers'}
    IN /\ Traversing /\ Top.kind \in {"existing", "insert"}
       /\ bound' = bound \ {Top.id}
       /\ layers' = AfterFailure
       /\ pending' = kept
       /\ wanted' = (wanted \ (Adds(lost) \cup {Top.id}))
                       \cup ((Removes(lost) \cap (left \cup Adds(kept))) \ Removes(kept \o batch))
       /\ Leave
       /\ failed' = (boundary # "none" /\ Len(frames) = 1)
       /\ boundary' = IF failed' THEN "none" ELSE boundary
       /\ batch' = IF failed' THEN <<>> ELSE batch
       /\ UNCHANGED <<attached, overlayStart, nextId, overlays, stage, repeated, ever>>

(* OnDetach cannot throw; another exception ends its traversal. *)
ThrowFromTraversal ==
    /\ Traversing /\ Top.kind \in {"update", "dispatch"}
    /\ Leave
    /\ UNCHANGED <<stack, pending, nextId, overlays, control, wanted, repeated, ever>>

(***************************************************************************)
(* The safe boundary: ApplyPending.                                        *)
(***************************************************************************)

(* Activate, or the frame loop, reaches it; Activate runs once. *)
BeginBoundary ==
    /\ Idle /\ stage # "stopped"
    /\ stage' = "active"
    /\ boundary' = "attach"
    /\ batch' = pending
    /\ UNCHANGED <<stack, pending, nextId, overlays, frames, failed, wanted, repeated, ever>>

Unattached == {i \in DOMAIN layers : layers[i] \notin attached}

AttachExisting ==
    /\ boundary = "attach" /\ ~Traversing /\ Unattached # {}
    /\ \E i \in Unattached :
          /\ \A j \in Unattached : i <= j
          /\ bound' = bound \cup {layers[i]}
          /\ Enter("existing", i, layers[i])
    /\ UNCHANGED <<layers, attached, overlayStart, pending, nextId, overlays, control, wanted, repeated, ever>>

(* Only the operations that waited when the boundary began are taken. *)
Taken == SubSeq(pending, 1, Len(batch))
NotTakenNone == <<>>
NotTaken == SubSeq(pending, Len(batch) + 1, Len(pending))

TakeOperations ==
    /\ boundary = "attach" /\ ~Traversing /\ Unattached = {}
    /\ boundary' = "apply"
    /\ batch' = Taken
    /\ pending' = NotTaken
    /\ UNCHANGED <<stack, nextId, overlays, frames, stage, failed, wanted, repeated, ever>>

ApplyOperation ==
    /\ boundary = "apply" /\ ~Traversing /\ batch # <<>>
    /\ batch' = Tail(batch)
    /\ \/ /\ Head(batch).kind = "add"
          /\ Insert(Head(batch).id, Head(batch).id \in overlays)
          /\ UNCHANGED <<pending, repeated>>
       \/ Head(batch).kind = "remove" /\ RemoveNow(Head(batch).id)
    /\ UNCHANGED <<nextId, overlays, stage, boundary, failed, wanted, ever>>

EndBoundary ==
    /\ boundary = "apply" /\ ~Traversing /\ batch = <<>>
    /\ boundary' = "none"
    /\ UNCHANGED <<stack, pending, nextId, overlays, frames, stage, batch, failed, wanted, repeated, ever>>

(***************************************************************************)
(* The end: Deactivate detaches from the top to the bottom.                *)
(***************************************************************************)

Cleared ==
    /\ layers' = <<>> /\ overlayStart' = 0 /\ frames' = <<>> /\ wanted' = {}

(* The next layer it detaches, below a position. *)
DetachBelow(at, still) ==
    LET below == {i \in DOMAIN layers : i < at /\ layers[i] \in still}
    IN \/ below = {} /\ Cleared
       \/ /\ below # {}
          /\ \E i \in below :
                /\ \A j \in below : j <= i
                /\ frames' = <<[kind |-> "stop", at |-> i, id |-> layers[i], mark |-> 0]>>
          /\ UNCHANGED <<layers, overlayStart, wanted>>

Deactivate ==
    /\ ~Traversing /\ boundary = "none" /\ stage # "stopped"
    /\ stage' = "stopped" /\ failed' = FALSE
    /\ pending' = <<>>
    /\ DetachBelow(Len(layers) + 1, attached)
    /\ UNCHANGED <<attached, bound, nextId, overlays, boundary, batch, repeated, ever>>

ReturnFromStop ==
    /\ Traversing /\ Top.kind = "stop"
    /\ attached' = attached \ {Top.id} /\ bound' = bound \ {Top.id}
    /\ DetachBelow(Top.at, attached')
    /\ pending' = IF layers' = <<>> THEN <<>> ELSE pending
    /\ UNCHANGED <<nextId, overlays, control, repeated, ever>>

Next ==
    \/ \E overlay \in BOOLEAN : Push(overlay) \/ PushDeferred(overlay)
    \/ \E id \in Id : RemoveLayer(id) \/ RemoveDeferred(id)
    \/ Dispatch \/ Update
    \/ ReturnFromTraversal \/ ReturnFromAttach \/ ReturnFromDetach \/ ReturnFromStop
    \/ ThrowFromAttach \/ ThrowFromTraversal
    \/ BeginBoundary \/ AttachExisting \/ TakeOperations \/ ApplyOperation \/ EndBoundary
    \/ Deactivate

Spec == Init /\ [][Next]_vars
=============================================================================
