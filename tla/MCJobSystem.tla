----------------------------- MODULE MCJobSystem -----------------------------
(* Small schedulers for TLC: who submits what. *)
EXTENDS JobSystemProperties, TLC

Plain == [lane |-> "Compute", policy |-> "RequireSuccess", needs |-> {}, simulation |-> FALSE,
          scoped |-> FALSE, awaits |-> {}, closes |-> FALSE, parent |-> None]
After(D) == [Plain EXCEPT !.needs = D]
Observing(D) == [After(D) EXCEPT !.policy = "ObserveCompletion"]

(* A join or a continuation of two jobs, one in each lane or in a chain. *)
JoinShapes == <<{[Plain EXCEPT !.lane = "Blocking"]}, {Plain, After({1})},
                {After({1, 2}), Observing({1, 2})}>>
ClientSymmetry == Permutations(Clients)

(* Strict simulation jobs among general ones, and one that needs both others. *)
Simulation(D) == [Observing(D) EXCEPT !.simulation = TRUE]
StrictShapes == <<{Simulation({})}, {Simulation({}), Plain}, {Simulation({}), After({1, 2})}>>

(* Jobs of a scope and of both lanes under a close: the second may need the *)
(* first, may close the system from its worker, and may submit the third    *)
(* and wait for it.                                                         *)
Scoped(sh) == [sh EXCEPT !.scoped = TRUE]
ShutdownShapes ==
    <<{[Plain EXCEPT !.lane = "Blocking"], Scoped(Plain)},
      {Scoped(After({1})), [Plain EXCEPT !.closes = TRUE], [After({1}) EXCEPT !.awaits = {3}]},
      {Scoped([Plain EXCEPT !.parent = 2])}>>

(* A function that waits for a job of the other lane. *)
CrossWaitShapes == <<{[Plain EXCEPT !.lane = "Blocking"]}, {[Plain EXCEPT !.awaits = {1}]}>>

=============================================================================
