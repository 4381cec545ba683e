----------------------------- MODULE JobContract -----------------------------
(***************************************************************************)
(* What the users of the job system may rely on while nothing is cancelled *)
(* or closed, without its threads, queues, mutexes and counters: a job     *)
(* starts once all that it needs is over, ends once, is skipped only when  *)
(* something it needs went wrong, and every completion function runs once. *)
(***************************************************************************)
EXTENDS Naturals

CONSTANTS Jobs, Callbacks, Nobody

VARIABLES
    state,    \* where each job is, or how it ended
    needs,    \* the jobs each job needs
    tolerant, \* jobs that only need those to be over
    asked,    \* the job each completion function was given to
    told      \* how often each completion function ran

vars == <<state, needs, tolerant, asked, told>>

Over(j) == state[j] \in {"Succeeded", "Failed", "Cancelled"}
Known(j) == state[j] # "Unsubmitted"

Init ==
    /\ state = [j \in Jobs |-> "Unsubmitted"]
    /\ needs = [j \in Jobs |-> {}] /\ tolerant = {}
    /\ asked = [c \in Callbacks |-> Nobody] /\ told = [c \in Callbacks |-> 0]

Submit(j) ==
    /\ ~Known(j)
    /\ state' = [state EXCEPT ![j] = "Pending"]
    /\ \E N \in SUBSET {d \in Jobs : Known(d)} : needs' = [needs EXCEPT ![j] = N]
    /\ tolerant' \in {tolerant, tolerant \cup {j}}
    /\ UNCHANGED <<asked, told>>

Start(j) ==
    /\ state[j] = "Pending"
    /\ \A d \in needs[j] : IF j \in tolerant THEN Over(d) ELSE state[d] = "Succeeded"
    /\ state' = [state EXCEPT ![j] = "Running"]
    /\ UNCHANGED <<needs, tolerant, asked, told>>

Finish(j) ==
    /\ state[j] = "Running"
    /\ \E outcome \in {"Succeeded", "Failed"} : state' = [state EXCEPT ![j] = outcome]
    /\ UNCHANGED <<needs, tolerant, asked, told>>

Skip(j) ==
    /\ state[j] = "Pending" /\ j \notin tolerant
    /\ \A d \in needs[j] : Over(d)
    /\ \E d \in needs[j] : state[d] # "Succeeded"
    /\ state' = [state EXCEPT ![j] = "Cancelled"]
    /\ UNCHANGED <<needs, tolerant, asked, told>>

Ask(c, j) ==
    /\ asked[c] = Nobody /\ Known(j)
    /\ asked' = [asked EXCEPT ![c] = j]
    /\ UNCHANGED <<state, needs, tolerant, told>>

Tell(c) ==
    /\ asked[c] # Nobody /\ told[c] = 0 /\ Over(asked[c])
    /\ told' = [told EXCEPT ![c] = 1]
    /\ UNCHANGED <<state, needs, tolerant, asked>>

Next ==
    \/ \E j \in Jobs : Submit(j) \/ Start(j) \/ Finish(j) \/ Skip(j)
    \/ \E c \in Callbacks : Tell(c) \/ \E j \in Jobs : Ask(c, j)

Spec == Init /\ [][Next]_vars

FairSpec ==
    /\ Spec
    /\ \A j \in Jobs : WF_vars(Start(j) \/ Skip(j)) /\ WF_vars(Finish(j))
    /\ \A c \in Callbacks : WF_vars(Tell(c))

=============================================================================
