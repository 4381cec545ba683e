------------------------------ MODULE MCInstall ------------------------------
(* Two versions for TLC: a file they share, one that only the second has    *)
(* (an upgrade adds it, a downgrade drops it), and the marker.               *)
EXTENDS InstallProperties

CONSTANTS v1, v2, shared, added, first, second

TwoVersions == [v \in {v1, v2} |->
    IF v = v1 THEN <<shared, None, first>> ELSE <<shared, added, second>>]
=============================================================================
