---------------------------- MODULE SettingsStore ----------------------------
(***************************************************************************)
(* What saving the project settings amounts to, without journal, staging,  *)
(* crashes and errors: all the settings files that nobody else has changed *)
(* take the values of the document in one step, or none does.              *)
(***************************************************************************)
CONSTANTS Files, Found

VARIABLES
    stored,    \* the files as they are, or as recovery is bound to make them
    values,    \* what the document would write
    disturbed  \* files that others changed since the document last saw them

vars == <<stored, values, disturbed>>

Init == stored \in [Files -> Found] /\ values \in [Files -> Found] /\ disturbed = {}

Edit ==
    /\ values' \in [Files -> Found]
    /\ UNCHANGED <<stored, disturbed>>

Save ==
    /\ stored' = [i \in Files |-> IF i \in disturbed THEN stored[i] ELSE values[i]]
    /\ UNCHANGED <<values, disturbed>>

Disturb(i, c) ==
    /\ stored' = [stored EXCEPT ![i] = c]
    /\ disturbed' = disturbed \cup {i}
    /\ UNCHANGED values

(* No file is locked against others: a change may come too late to be seen. *)
Overwrite(i, c) ==
    /\ i \in disturbed
    /\ stored' = [stored EXCEPT ![i] = c]
    /\ UNCHANGED <<values, disturbed>>

(* The document reads the files or finds them as it left them. *)
Review ==
    /\ disturbed' = {}
    /\ values' \in [Files -> Found]
    /\ UNCHANGED stored

Next ==
    \/ Edit \/ Save \/ Review
    \/ \E i \in Files, c \in Found : Disturb(i, c) \/ Overwrite(i, c)

Spec == Init /\ [][Next]_vars

=============================================================================
