------------------------------ MODULE MCStreaming ------------------------------
(* A small streaming system for TLC: two resident assets exceed the second    *)
(* budget of their class, and not the first.                                 *)
EXTENDS StreamingProperties

Sizes == {[cpu |-> 4, gpu |-> 3]}
Limits == [c \in Class |-> [cpu |-> 10, gpu |-> 5]]
=============================================================================
