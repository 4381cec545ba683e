---------------------------- MODULE LayerProperties ----------------------------
(* What the layer stack promises. *)
EXTENDS LayerStack, FiniteSets

(* The index or iterator with which a traversal goes on after its callback    *)
(* is still that of its layer, whatever was pushed, removed or thrown inside *)
(* of the callback.                                                          *)
TraversalsPointRight ==
    \A i \in DOMAIN frames :
        frames[i].at \in DOMAIN layers /\ layers[frames[i].at] = frames[i].id

(* The layers are below the overlays, but for a layer that is being attached *)
(* and that overlayStart does not count yet (OverlayStart, Push, Remove).    *)
OverlaysOnTop ==
    LET attaching == {frames[i].id : i \in {j \in DOMAIN frames : frames[j].kind = "insert"}}
        base == overlayStart + Cardinality(attaching \ overlays)
    IN \A i \in DOMAIN layers : layers[i] \in overlays <=> i > base

(* All indices into the vector of layers, the traversals' and the overlays',  *)
(* stay right over nested callbacks and failing attachments.                 *)
CursorsValid == TraversalsPointRight /\ OverlaysOnTop

(* When no request waits the stack holds the layers whose push succeeded and *)
(* that nobody has removed, by the answers the callers got: no request is    *)
(* lost or applied twice over nested callbacks, boundaries and failing       *)
(* attachments.  A removal that was asked for twice is the exception.        *)
Answered == Idle /\ pending = <<>> => Layers \ repeated = wanted \ repeated

(* A boundary applies what waited when it began, and nothing that its own    *)
(* callbacks ask for (the comment at src/KeireCore/Source/Layer.cpp:216).    *)
WaitsForBoundary ==
    boundary # "none" /\ boundary' # "none" =>
        /\ Layers' \cup Adds(batch') \subseteq Layers \cup Adds(batch)
        /\ Removes(batch') \subseteq Removes(batch)

(* Every request takes effect, once, and not before its boundary.            *)
RequestsSettle == [][Answered' /\ WaitsForBoundary]_vars

(* A layer's life: OnAttach until it has succeeded and never again, updates  *)
(* and events while the layer has its owner, OnDetach before the layer       *)
(* leaves the stack and is destroyed.  Events that are dispatched while      *)
(* Activate or Deactivate goes through the layers may come too early or late.*)
LifeOfLayers ==
    /\ bound \subseteq Layers
    /\ \A i \in DOMAIN frames :
          CASE frames[i].kind \in {"existing", "insert"} -> frames[i].id \notin ever
            [] frames[i].kind \in {"update", "dispatch"} ->
                  \/ frames[i].id \in bound
                  \/ \E j \in 1..(i - 1) : frames[j].kind \in {"existing", "stop"}
            [] OTHER -> frames[i].id \in attached
=============================================================================
