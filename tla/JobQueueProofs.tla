---------------------------- MODULE JobQueueProofs ----------------------------
(***************************************************************************)
(* Proofs about the ready queues, for any number of workers, priorities    *)
(* and submissions and any aging: no job is lost or taken twice, and how   *)
(* many newcomers a waiting job may have to let pass.                      *)
(***************************************************************************)
EXTENDS JobQueue, FiniteSetTheorems, TLAPS

-----------------------------------------------------------------------------
(* Numbers. *)

(* Numbers have a least one among any of them: 1..n is a strict subset of    *)
(* 1..m exactly when n < m, and that order has no infinite descent.          *)
LEMMA LeastNumber == ASSUME NEW S \in SUBSET Nat, S # {} PROVE \E n \in S : \A m \in S : n <= m
<1> DEFINE T == {1..n : n \in S}
<1>1. IsWellFoundedOn(StrictSubsetOrdering(Nat), FiniteSubsetsOf(Nat))
  BY FS_StrictSubsetOrderingWellFounded
<1>2. T \subseteq FiniteSubsetsOf(Nat) /\ T # {}
  <2>1. ASSUME NEW n \in S PROVE 1..n \in FiniteSubsetsOf(Nat)
    <3>1. IsFiniteSet(1..n)
      BY FS_Interval
    <3> QED BY <3>1 DEF FiniteSubsetsOf
  <2> QED BY <2>1
<1> HIDE DEF T
<1>3. PICK x \in T : \A y \in T : ~(<<y, x>> \in StrictSubsetOrdering(Nat))
  BY <1>1, <1>2, WFMin
<1>4. PICK n \in S : x = 1..n
  BY DEF T
<1>5. ASSUME NEW m \in S, m < n PROVE FALSE
  <2>1. 1..m \in T /\ 1..m \in SUBSET Nat /\ x \in SUBSET Nat
    BY <1>4 DEF T
  <2>2. 1..m \subseteq 1..n /\ n \in 1..n /\ n \notin 1..m
    BY <1>5
  <2>3. <<1..m, x>> \in StrictSubsetOrdering(Nat)
    BY <1>4, <2>1, <2>2, <1>2 DEF StrictSubsetOrdering
  <2> QED BY <1>3, <2>1, <2>3
<1> QED BY <1>5

(* Dividing by the aging interval.                                           *)
LEMMA Ages ==
    ASSUME NEW a \in Nat, NEW n \in Nat \ {0}
    PROVE  /\ a \div n \in Nat
           /\ \A p \in Nat : a \div n < p => a < p * n
<1>1. a \div n \in Nat
  OBVIOUS
<1>2. ASSUME NEW p \in Nat, a \div n < p PROVE a < p * n
  <2>1. PICK m \in Nat : m = a \div n
    BY <1>1
  <2>2. a < m * n + n
    BY <2>1
  <2>3. (m + 1) * n <= p * n
    BY <1>2, <2>1
  <2> QED BY <2>2, <2>3
<1> QED BY <1>1, <1>2

-----------------------------------------------------------------------------
(* Where jobs are: the inductive invariant. *)

QueueTypes ==
    /\ nextSequence \in 1..(MaxSequence + 1)
    /\ priority \in [Sequences -> Priorities]
    /\ queues \in [Places -> [Priorities -> Seq(Sequences)]]
    /\ arrival \in [Sequences -> Nat]
    /\ taken \subseteq Sequences \X Places

Queued(j) == \E a \in Places, p \in Priorities : \E i \in DOMAIN queues[a][p] : queues[a][p][i] = j
Taken(j) == \E a \in Places : <<j, a>> \in taken

(* A job is enqueued after it was submitted, and waits with its priority     *)
(* behind jobs that were enqueued before it.                                 *)
ArrivedLater == \A j \in Sequences : arrival[j] # 0 => j < arrival[j] /\ arrival[j] <= nextSequence
QueuedWell == \A a \in Places, p \in Priorities : \A i \in DOMAIN queues[a][p] :
    arrival[queues[a][p][i]] # 0 /\ priority[queues[a][p][i]] = p
InOrder == \A a \in Places, p \in Priorities : \A i, k \in DOMAIN queues[a][p] :
    i < k => arrival[queues[a][p][i]] <= arrival[queues[a][p][k]]

(* A job that was enqueued is at one spot or was taken from one place.       *)
OneSpot == \A a, b \in Places, p \in Priorities : \A i \in DOMAIN queues[a][p] : \A k \in DOMAIN queues[b][p] :
    queues[a][p][i] = queues[b][p][k] => a = b /\ i = k
TakenOnce == \A j \in Sequences : \A a, b \in Places :
    <<j, a>> \in taken => arrival[j] # 0 /\ ~Queued(j) /\ (<<j, b>> \in taken => a = b)
NoneLost == \A j \in Sequences : arrival[j] # 0 => Queued(j) \/ Taken(j)

QueueInv == QueueTypes /\ ArrivedLater /\ QueuedWell /\ InOrder /\ OneSpot /\ TakenOnce /\ NoneLost

-----------------------------------------------------------------------------
(* PopQueue *)

(* Of the priorities that have jobs, PopQueue selects one that none beats.   *)
LEMMA SelectedBeats ==
    ASSUME QueueTypes, NEW a \in Places, ~Empty(queues[a])
    PROVE  /\ Selected(queues[a]) \in Nonempty(queues[a])
           /\ \A q \in Nonempty(queues[a]) : Beats(queues[a], Selected(queues[a]), q)
<1> DEFINE Q == queues[a]
           N == Nonempty(Q)
           E == {Effective(Q, p) : p \in N}
<1>1. /\ N # {} /\ N \subseteq Priorities
      /\ \A p \in N : Head(Q[p]) \in Nat /\ Effective(Q, p) \in Nat
  <2>1. N # {} /\ N \subseteq Priorities
    BY DEF Empty, Nonempty
  <2>2. ASSUME NEW p \in N PROVE Head(Q[p]) \in Nat /\ Effective(Q, p) \in Nat
    <3>1. p \in Priorities /\ Q[p] \in Seq(Sequences) /\ Q[p] # <<>>
      BY DEF Nonempty, QueueTypes
    <3>2. Head(Q[p]) \in Sequences
      BY <3>1
    <3>3. PICK m \in Int : m = (nextSequence - Head(Q[p])) \div AgingSubmissions
      BY <3>2, JobQueueAssumption DEF QueueTypes, Sequences
    <3>4. p \in Nat
      BY <3>1, JobQueueAssumption DEF Priorities
    <3>5. Effective(Q, p) = IF m >= p THEN 0 ELSE p - m
      BY <3>3 DEF Effective
    <3>6. m >= 0 \/ m < 0
      BY <3>3
    <3> QED BY <3>2, <3>4, <3>5, <3>6, JobQueueAssumption DEF Sequences
  <2> QED BY <2>1, <2>2
<1>2. PICK e \in E : \A f \in E : e <= f
  <2>1. E \in SUBSET Nat /\ E # {}
    BY <1>1
  <2> QED BY <2>1, LeastNumber
<1> DEFINE H == {Head(Q[p]) : p \in {r \in N : Effective(Q, r) = e}}
<1>3. PICK h \in H : \A k \in H : h <= k
  <2>1. H \in SUBSET Nat /\ H # {}
    BY <1>1, <1>2
  <2> QED BY <2>1, LeastNumber
<1>4. PICK p \in N : Effective(Q, p) = e /\ Head(Q[p]) = h
  BY <1>3
<1>5. \A q \in N : Beats(Q, p, q)
  <2> SUFFICES ASSUME NEW q \in N PROVE Beats(Q, p, q)
    OBVIOUS
  <2>1. e <= Effective(Q, q)
    BY <1>2
  <2>2. Effective(Q, q) = e => h <= Head(Q[q])
    BY <1>3
  <2> QED BY <1>1, <1>4, <2>1, <2>2 DEF Beats
<1>6. \E r \in Nonempty(queues[a]) : \A q \in Nonempty(queues[a]) : Beats(queues[a], r, q)
  BY <1>5
<1> QED BY <1>6 DEF Selected

(* Taking the first or the last of a deque.                                  *)
Shortens(q, e, r) ==
    /\ e \in DOMAIN q /\ Len(r) = Len(q) - 1
    /\ \A i \in DOMAIN r : r[i] = q[IF i < e THEN i ELSE i + 1]

(* Both ends of a deque.                                                     *)
LEMMA TakenFromEnds ==
    ASSUME NEW S, NEW q \in Seq(S), q # <<>>
    PROVE  /\ Shortens(q, 1, Tail(q)) /\ Tail(q) \in Seq(S)
           /\ Shortens(q, Len(q), SubSeq(q, 1, Len(q) - 1)) /\ SubSeq(q, 1, Len(q) - 1) \in Seq(S)
           /\ Head(q) = q[1]
<1>1. Len(q) \in Nat \ {0} /\ DOMAIN q = 1..Len(q)
  OBVIOUS
<1>2. Shortens(q, 1, Tail(q)) /\ Tail(q) \in Seq(S)
  <2>1. PICK r : r = Tail(q)
    OBVIOUS
  <2>2. r \in Seq(S) /\ Len(r) = Len(q) - 1
    BY <1>1, <2>1
  <2>3. \A i \in 1..Len(r) : r[i] = q[i + 1]
    BY <1>1, <2>1, <2>2
  <2>4. DOMAIN r = 1..Len(r)
    BY <2>2
  <2> QED BY <1>1, <2>1, <2>2, <2>3, <2>4 DEF Shortens
<1>3. Shortens(q, Len(q), SubSeq(q, 1, Len(q) - 1)) /\ SubSeq(q, 1, Len(q) - 1) \in Seq(S)
  <2>1. PICK n : n = Len(q) - 1 /\ n \in Nat
    <3>1. Len(q) - 1 \in Nat
      BY <1>1
    <3> QED BY <3>1
  <2>2. /\ SubSeq(q, 1, n) \in Seq(S) /\ Len(SubSeq(q, 1, n)) = n
        /\ \A i \in 1..n : SubSeq(q, 1, n)[i] = q[i]
    BY <1>1, <2>1
  <2> QED BY <1>1, <2>1, <2>2 DEF Shortens
<1> QED BY <1>2, <1>3

(* PopQueue takes job j, the e-th of priority p at place a, for one that no  *)
(* other beats.                                                              *)
Pops(a, p, e, j) ==
    /\ p \in Nonempty(queues[a]) /\ e \in DOMAIN queues[a][p] /\ j = queues[a][p][e]
    /\ taken' = taken \cup {<<j, a>>}
    /\ \E r \in Seq(Sequences) : Shortens(queues[a][p], e, r) /\ queues' = [queues EXCEPT ![a][p] = r]
    /\ \A q \in Nonempty(queues[a]) : Beats(queues[a], p, q)
    /\ UNCHANGED <<nextSequence, priority, arrival>>

(* Every PopQueue pops so, and the front unless the owner calls it.          *)
LEMMA PopsOne ==
    ASSUME QueueTypes, NEW a \in Places, NEW local \in BOOLEAN, PopQueue(a, local)
    PROVE  \E p \in Priorities : \E e, j : Pops(a, p, e, j) /\ (~local => e = 1)
<1>1. PICK p : p = Selected(queues[a])
  OBVIOUS
<1>2. /\ p \in Nonempty(queues[a]) /\ \A q \in Nonempty(queues[a]) : Beats(queues[a], p, q)
      /\ p \in Priorities /\ queues[a][p] \in Seq(Sequences) /\ queues[a][p] # <<>>
  <2>1. p \in Nonempty(queues[a]) /\ \A q \in Nonempty(queues[a]) : Beats(queues[a], p, q)
    BY <1>1, SelectedBeats DEF PopQueue
  <2> QED BY <2>1 DEF Nonempty, QueueTypes
<1>3. PICK q : q = queues[a][p]
  OBVIOUS
<1>4. /\ Shortens(q, 1, Tail(q)) /\ Tail(q) \in Seq(Sequences) /\ Head(q) = q[1]
      /\ Shortens(q, Len(q), SubSeq(q, 1, Len(q) - 1)) /\ SubSeq(q, 1, Len(q) - 1) \in Seq(Sequences)
      /\ 1 \in DOMAIN q /\ Len(q) \in DOMAIN q
  BY <1>2, <1>3, TakenFromEnds
<1>5. CASE FromBack(queues[a], local)
  <2>1. /\ taken' = taken \cup {<<q[Len(q)], a>>} /\ local
        /\ queues' = [queues EXCEPT ![a][p] = SubSeq(q, 1, Len(q) - 1)]
        /\ UNCHANGED <<nextSequence, priority, arrival>>
    BY <1>1, <1>3, <1>5 DEF PopQueue, FromBack
  <2>2. Pops(a, p, Len(q), q[Len(q)])
    BY <1>2, <1>3, <1>4, <2>1 DEF Pops
  <2> QED BY <1>2, <2>1, <2>2
<1>6. CASE ~FromBack(queues[a], local)
  <2>1. /\ taken' = taken \cup {<<q[1], a>>}
        /\ queues' = [queues EXCEPT ![a][p] = Tail(q)]
        /\ UNCHANGED <<nextSequence, priority, arrival>>
    BY <1>1, <1>3, <1>4, <1>6 DEF PopQueue
  <2>2. Pops(a, p, 1, q[1])
    BY <1>2, <1>3, <1>4, <2>1 DEF Pops
  <2> QED BY <1>2, <2>2
<1> QED BY <1>5, <1>6

-----------------------------------------------------------------------------
(* The invariant is inductive. *)

(* Taking a job leaves all others where they are, but for their index.       *)
LEMMA PopsKeepSpots ==
    ASSUME QueueTypes, NEW a \in Places, NEW p \in Priorities, NEW e, NEW j, Pops(a, p, e, j)
    PROVE  /\ QueueTypes'
           /\ \A b \in Places, r \in Priorities : \A i \in DOMAIN queues'[b][r] :
                 LET k == IF b = a /\ r = p /\ i >= e THEN i + 1 ELSE i
                 IN k \in DOMAIN queues[b][r] /\ queues'[b][r][i] = queues[b][r][k] /\ ~(b = a /\ r = p /\ k = e)
           /\ \A b \in Places, r \in Priorities : \A k \in DOMAIN queues[b][r] :
                 ~(b = a /\ r = p /\ k = e) =>
                    \E i \in DOMAIN queues'[b][r] : queues'[b][r][i] = queues[b][r][k]
<1>1. PICK s \in Seq(Sequences) : Shortens(queues[a][p], e, s) /\ queues' = [queues EXCEPT ![a][p] = s]
  BY DEF Pops
<1>2. PICK q \in Seq(Sequences) : q = queues[a][p]
  BY DEF QueueTypes
<1>3. /\ queues'[a][p] = s
      /\ \A b \in Places, r \in Priorities : ~(b = a /\ r = p) => queues'[b][r] = queues[b][r]
      /\ queues' \in [Places -> [Priorities -> Seq(Sequences)]]
  BY <1>1 DEF QueueTypes
<1>4. /\ e \in 1..Len(q) /\ Len(s) = Len(q) - 1 /\ j = q[e] /\ j \in Sequences
      /\ \A i \in 1..Len(s) : s[i] = q[IF i < e THEN i ELSE i + 1]
      /\ DOMAIN q = 1..Len(q) /\ DOMAIN s = 1..Len(s) /\ Len(q) \in Nat /\ Len(s) \in Nat
  BY <1>1, <1>2 DEF Shortens, Pops
<1>5. QueueTypes'
  <2>1. taken' = taken \cup {<<j, a>>} /\ UNCHANGED <<nextSequence, priority, arrival>>
    BY DEF Pops
  <2>2. taken' \subseteq Sequences \X Places
    <3>1. <<j, a>> \in Sequences \X Places
      BY <1>4
    <3> QED BY <2>1, <3>1 DEF QueueTypes
  <2> QED BY <1>3, <2>1, <2>2 DEF QueueTypes
<1>6. ASSUME NEW b \in Places, NEW r \in Priorities, NEW i \in DOMAIN queues'[b][r]
      PROVE  LET k == IF b = a /\ r = p /\ i >= e THEN i + 1 ELSE i
             IN k \in DOMAIN queues[b][r] /\ queues'[b][r][i] = queues[b][r][k] /\ ~(b = a /\ r = p /\ k = e)
  <2>1. CASE b = a /\ r = p
    <3>1. i \in 1..Len(s)
      BY <1>3, <1>4, <1>6, <2>1
    <3> QED BY <1>2, <1>3, <1>4, <2>1, <3>1
  <2>2. CASE ~(b = a /\ r = p)
    <3>1. queues'[b][r] = queues[b][r]
      BY <1>3, <2>2
    <3> QED BY <1>6, <2>2, <3>1
  <2> QED BY <2>1, <2>2
<1>7. ASSUME NEW b \in Places, NEW r \in Priorities, NEW k \in DOMAIN queues[b][r], ~(b = a /\ r = p /\ k = e)
      PROVE  \E i \in DOMAIN queues'[b][r] : queues'[b][r][i] = queues[b][r][k]
  <2>1. CASE b = a /\ r = p
    <3>1. k \in 1..Len(q) /\ k # e
      BY <1>2, <1>4, <1>7, <2>1
    <3>2. CASE k < e
      <4>1. k \in 1..Len(s) /\ s[k] = q[k]
        BY <1>4, <3>1, <3>2
      <4> QED BY <1>2, <1>3, <1>4, <2>1, <4>1
    <3>3. CASE k > e
      <4>1. k - 1 \in 1..Len(s) /\ s[k - 1] = q[k - 1 + 1] /\ k - 1 + 1 = k
        BY <1>4, <3>1, <3>3
      <4> QED BY <1>2, <1>3, <1>4, <2>1, <4>1
    <3> QED BY <1>4, <3>1, <3>2, <3>3
  <2>2. CASE ~(b = a /\ r = p)
    <3>1. queues'[b][r] = queues[b][r]
      BY <1>3, <2>2
    <3> QED BY <1>7, <2>2, <3>1
  <2> QED BY <2>1, <2>2
<1> QED BY <1>5, <1>6, <1>7

(* PopQueue keeps the invariant.                                             *)
LEMMA PopsInv ==
    ASSUME QueueInv, NEW a \in Places, NEW p \in Priorities, NEW e, NEW j, Pops(a, p, e, j)
    PROVE  QueueInv'
<1>1. /\ QueueTypes /\ e \in DOMAIN queues[a][p] /\ j = queues[a][p][e] /\ taken' = taken \cup {<<j, a>>}
      /\ UNCHANGED <<nextSequence, priority, arrival>> /\ j \in Sequences
  <2>1. QueueTypes /\ queues[a][p] \in Seq(Sequences)
    BY DEF QueueInv, QueueTypes
  <2>2. /\ e \in DOMAIN queues[a][p] /\ j = queues[a][p][e] /\ taken' = taken \cup {<<j, a>>}
        /\ UNCHANGED <<nextSequence, priority, arrival>>
    BY DEF Pops
  <2> QED BY <2>1, <2>2
<1>2. QueueTypes'
  BY <1>1, PopsKeepSpots
<1> DEFINE old(b, r, i) == IF b = a /\ r = p /\ i >= e THEN i + 1 ELSE i
<1>3. \A b \in Places, r \in Priorities : \A i \in DOMAIN queues'[b][r] :
          /\ old(b, r, i) \in DOMAIN queues[b][r] /\ queues'[b][r][i] = queues[b][r][old(b, r, i)]
          /\ ~(b = a /\ r = p /\ old(b, r, i) = e)
  BY <1>1, PopsKeepSpots
<1>4. \A b \in Places, r \in Priorities : \A k \in DOMAIN queues[b][r] :
          ~(b = a /\ r = p /\ k = e) => \E i \in DOMAIN queues'[b][r] : queues'[b][r][i] = queues[b][r][k]
  BY <1>1, PopsKeepSpots
<1>5. \A b \in Places, r \in Priorities : \A i, k \in DOMAIN queues'[b][r] :
          /\ i \in Int /\ k \in Int /\ e \in Int
          /\ i < k <=> old(b, r, i) < old(b, r, k)
          /\ old(b, r, i) = old(b, r, k) => i = k
  <2>1. \A b \in Places, r \in Priorities : \A i \in DOMAIN queues'[b][r] : i \in Int
    <3> SUFFICES ASSUME NEW b \in Places, NEW r \in Priorities, NEW i \in DOMAIN queues'[b][r] PROVE i \in Int
      OBVIOUS
    <3>1. queues'[b][r] \in Seq(Sequences)
      BY <1>2 DEF QueueTypes
    <3> QED BY <3>1
  <2>2. e \in Int
    <3>1. queues[a][p] \in Seq(Sequences)
      BY <1>1 DEF QueueTypes
    <3> QED BY <1>1, <3>1
  <2> QED BY <2>1, <2>2
<1> HIDE DEF old
<1>6. ArrivedLater'
  BY <1>1 DEF QueueInv, ArrivedLater
<1>7. QueuedWell'
  BY <1>1, <1>3 DEF QueueInv, QueuedWell
<1>8. InOrder'
  BY <1>1, <1>3, <1>5 DEF QueueInv, InOrder
<1>9. \A k : Queued(k)' => Queued(k) /\ k # j
  <2> SUFFICES ASSUME NEW k, NEW b \in Places, NEW r \in Priorities, NEW i \in DOMAIN queues'[b][r],
                      k = queues'[b][r][i]
               PROVE  Queued(k) /\ k # j
    BY DEF Queued
  <2>1. k = queues[b][r][old(b, r, i)] /\ old(b, r, i) \in DOMAIN queues[b][r]
    BY <1>3
  <2>2. k # j
    <3> SUFFICES ASSUME k = j PROVE FALSE
      OBVIOUS
    <3>1. r = p
      BY <1>1, <2>1 DEF QueueInv, QueuedWell
    <3>2. b = a /\ old(b, r, i) = e
      BY <1>1, <2>1, <3>1 DEF QueueInv, OneSpot
    <3> QED BY <1>3, <3>1, <3>2
  <2> QED BY <2>1, <2>2 DEF Queued
<1>10. \A k : Queued(k) => Queued(k)' \/ k = j
  BY <1>1, <1>4 DEF Queued
<1>11. OneSpot'
  <2> SUFFICES ASSUME NEW b \in Places, NEW c \in Places, NEW r \in Priorities, NEW i \in DOMAIN queues'[b][r],
                      NEW k \in DOMAIN queues'[c][r], queues'[b][r][i] = queues'[c][r][k]
               PROVE  b = c /\ i = k
    BY DEF OneSpot
  <2>1. b = c /\ old(b, r, i) = old(c, r, k)
    BY <1>3 DEF QueueInv, OneSpot
  <2> QED BY <1>5, <2>1
<1>12. TakenOnce'
  <2>1. arrival[j] # 0 /\ Queued(j)
    BY <1>1 DEF QueueInv, QueuedWell, Queued
  <2>2. ASSUME NEW b \in Places PROVE <<j, b>> \notin taken
    BY <1>1, <2>1 DEF QueueInv, TakenOnce
  <2> QED BY <1>1, <1>9, <2>1, <2>2 DEF QueueInv, TakenOnce
<1>13. NoneLost'
  BY <1>1, <1>10 DEF QueueInv, NoneLost, Taken
<1> QED BY <1>2, <1>6, <1>7, <1>8, <1>11, <1>12, <1>13 DEF QueueInv

(* Submit and Enqueue.                                                       *)
LEMMA SubmitKeeps == ASSUME QueueInv, NEW p \in Priorities, Submit(p) PROVE QueueInv'
<1>1. /\ nextSequence \in Sequences /\ arrival[nextSequence] = 0
      /\ nextSequence' = nextSequence + 1 /\ UNCHANGED <<queues, arrival, taken>>
      /\ priority' = [priority EXCEPT ![nextSequence] = p]
  BY JobQueueAssumption DEF QueueInv, QueueTypes, ArrivedLater, Submit, Sequences
<1>2. QueueTypes' /\ ArrivedLater'
  BY <1>1, JobQueueAssumption DEF QueueInv, QueueTypes, ArrivedLater, Sequences
<1>3. QueuedWell'
  BY <1>1 DEF QueueInv, QueueTypes, QueuedWell
<1>4. InOrder' /\ OneSpot' /\ TakenOnce' /\ NoneLost'
  BY <1>1 DEF QueueInv, InOrder, OneSpot, TakenOnce, NoneLost, Queued, Taken
<1> QED BY <1>2, <1>3, <1>4 DEF QueueInv

(* Enqueue keeps it: the newest arrival goes last.                           *)
LEMMA EnqueueKeeps ==
    ASSUME QueueInv, NEW j \in Sequences, NEW a \in Places, Enqueue(j, a) PROVE QueueInv'
<1>1. PICK p \in Priorities : p = priority[j]
  BY DEF QueueInv, QueueTypes
<1>2. PICK q \in Seq(Sequences) : q = queues[a][p]
  BY DEF QueueInv, QueueTypes
<1>3. PICK n \in Nat : n = Len(q)
  BY <1>2
<1>4. PICK s \in Seq(Sequences) : s = Append(q, j)
  <2>1. Append(q, j) \in Seq(Sequences)
    OBVIOUS
  <2> QED BY <2>1
<1>5. /\ arrival[j] = 0 /\ j < nextSequence /\ arrival' = [arrival EXCEPT ![j] = nextSequence]
      /\ queues' = [queues EXCEPT ![a][p] = s] /\ UNCHANGED <<nextSequence, priority, taken>>
  BY <1>1, <1>2, <1>4 DEF Enqueue
<1>6. /\ DOMAIN q = 1..n /\ DOMAIN s = 1..(n + 1) /\ s[n + 1] = j /\ \A i \in 1..n : s[i] = q[i]
  BY <1>2, <1>3, <1>4
<1>7. /\ queues'[a][p] = s
      /\ \A b \in Places, r \in Priorities : ~(b = a /\ r = p) => queues'[b][r] = queues[b][r]
      /\ queues' \in [Places -> [Priorities -> Seq(Sequences)]]
  BY <1>5 DEF QueueInv, QueueTypes
<1>8. /\ arrival'[j] = nextSequence /\ nextSequence \in Nat \ {0} /\ nextSequence # 0
      /\ \A k \in Sequences \ {j} : arrival'[k] = arrival[k]
  BY <1>5, JobQueueAssumption DEF QueueInv, QueueTypes
<1>9. \A b \in Places, r \in Priorities : \A i \in DOMAIN queues[b][r] :
          queues[b][r][i] \in Sequences \ {j}
  <2> SUFFICES ASSUME NEW b \in Places, NEW r \in Priorities, NEW i \in DOMAIN queues[b][r]
               PROVE  queues[b][r][i] \in Sequences \ {j}
    OBVIOUS
  <2>1. queues[b][r] \in Seq(Sequences) /\ arrival[queues[b][r][i]] # 0
    BY DEF QueueInv, QueueTypes, QueuedWell
  <2> QED BY <1>5, <2>1
<1>10. \A b \in Places, r \in Priorities : \A i \in DOMAIN queues'[b][r] :
           \/ b = a /\ r = p /\ i = n + 1 /\ queues'[b][r][i] = j
           \/ /\ i \in DOMAIN queues[b][r] /\ queues'[b][r][i] = queues[b][r][i]
              /\ b = a /\ r = p => i < n + 1
  <2> SUFFICES ASSUME NEW b \in Places, NEW r \in Priorities, NEW i \in DOMAIN queues'[b][r]
               PROVE  \/ b = a /\ r = p /\ i = n + 1 /\ queues'[b][r][i] = j
                      \/ /\ i \in DOMAIN queues[b][r] /\ queues'[b][r][i] = queues[b][r][i]
                         /\ b = a /\ r = p => i < n + 1
    OBVIOUS
  <2>1. CASE b = a /\ r = p
    <3>1. i \in 1..(n + 1)
      BY <1>6, <1>7, <2>1
    <3>2. CASE i = n + 1
      BY <1>6, <1>7, <2>1, <3>2
    <3>3. CASE i # n + 1
      <4>1. i \in 1..n /\ i < n + 1
        BY <3>1, <3>3
      <4> QED BY <1>2, <1>6, <1>7, <2>1, <4>1
    <3> QED BY <3>2, <3>3
  <2>2. CASE ~(b = a /\ r = p)
    BY <1>7, <2>2
  <2> QED BY <2>1, <2>2
<1>11. \A b \in Places, r \in Priorities : \A i \in DOMAIN queues[b][r] :
           i \in DOMAIN queues'[b][r] /\ queues'[b][r][i] = queues[b][r][i]
  <2> SUFFICES ASSUME NEW b \in Places, NEW r \in Priorities, NEW i \in DOMAIN queues[b][r]
               PROVE  i \in DOMAIN queues'[b][r] /\ queues'[b][r][i] = queues[b][r][i]
    OBVIOUS
  <2>1. CASE b = a /\ r = p
    BY <1>2, <1>6, <1>7, <2>1
  <2>2. CASE ~(b = a /\ r = p)
    BY <1>7, <2>2
  <2> QED BY <2>1, <2>2
<1>12. n + 1 \in DOMAIN queues'[a][p] /\ queues'[a][p][n + 1] = j
  BY <1>6, <1>7
<1>13. QueueTypes'
  BY <1>5, <1>7, <1>8 DEF QueueInv, QueueTypes
<1>14. ArrivedLater'
  BY <1>5, <1>8 DEF QueueInv, ArrivedLater
<1>15. QueuedWell'
  BY <1>1, <1>5, <1>8, <1>9, <1>10 DEF QueueInv, QueuedWell
<1>16. InOrder'
  <2> SUFFICES ASSUME NEW b \in Places, NEW r \in Priorities, NEW i \in DOMAIN queues'[b][r],
                      NEW k \in DOMAIN queues'[b][r], i < k
               PROVE  arrival'[queues'[b][r][i]] <= arrival'[queues'[b][r][k]]
    BY DEF InOrder
  <2>1. CASE b = a /\ r = p /\ k = n + 1
    <3>1. i \in DOMAIN queues[b][r] /\ queues'[b][r][i] = queues[b][r][i]
      BY <1>10, <2>1
    <3>2. PICK m \in Sequences \ {j} : m = queues[b][r][i]
      BY <1>9, <3>1
    <3>3. arrival[m] # 0
      BY <3>1, <3>2 DEF QueueInv, QueuedWell
    <3>4. arrival'[m] <= nextSequence
      BY <1>8, <3>2, <3>3 DEF QueueInv, ArrivedLater
    <3> QED BY <1>8, <1>12, <2>1, <3>1, <3>2, <3>4
  <2>2. CASE ~(b = a /\ r = p /\ k = n + 1)
    <3>1. k \in DOMAIN queues[b][r] /\ queues'[b][r][k] = queues[b][r][k]
      BY <1>10, <2>2
    <3>2. i \in DOMAIN queues[b][r] /\ queues'[b][r][i] = queues[b][r][i]
      <4>1. ~(b = a /\ r = p /\ i = n + 1)
        <5>1. b = a /\ r = p => k \in 1..(n + 1)
          BY <1>6, <1>7
        <5> QED BY <5>1
      <4> QED BY <1>10, <4>1
    <3>3. arrival[queues[b][r][i]] <= arrival[queues[b][r][k]]
      BY <3>1, <3>2 DEF QueueInv, InOrder
    <3> QED BY <1>8, <1>9, <3>1, <3>2, <3>3
  <2> QED BY <2>1, <2>2
<1>17. OneSpot'
  BY <1>9, <1>10 DEF QueueInv, OneSpot
<1>18. \A k : Queued(k)' <=> Queued(k) \/ k = j
  <2>1. \A k : Queued(k)' => Queued(k) \/ k = j
    BY <1>10 DEF Queued
  <2>2. \A k : Queued(k) => Queued(k)'
    BY <1>11 DEF Queued
  <2>3. Queued(j)'
    BY <1>12 DEF Queued
  <2> QED BY <2>1, <2>2, <2>3
<1>19. TakenOnce'
  <2>1. ~Taken(j)
    BY <1>5 DEF QueueInv, TakenOnce, Taken
  <2> QED BY <1>5, <1>8, <1>18, <2>1 DEF QueueInv, TakenOnce, Taken
<1>20. NoneLost'
  BY <1>5, <1>8, <1>18 DEF QueueInv, NoneLost, Taken
<1> QED BY <1>13, <1>14, <1>15, <1>16, <1>17, <1>19, <1>20 DEF QueueInv

(* What takes a job, and from where.                                         *)
LEMMA TakesPop ==
    ASSUME QueueTypes
    PROVE  /\ \A w \in Workers : TryTakeCompute(w) =>
                 \E a \in Places : \E local \in BOOLEAN : PopQueue(a, local) /\ (local => a \in Workers)
           /\ TryTakeBlocking => PopQueue(Blocking, FALSE) /\ Blocking \in Places
           /\ Workers \subseteq Places /\ InjectionQueue \in Places \ Workers /\ Blocking \in Places \ Workers
<1>1. /\ Workers \subseteq Places /\ InjectionQueue \in Places \ Workers /\ Blocking \in Places \ Workers
  BY JobQueueAssumption DEF Workers, Places, InjectionQueue, Blocking
<1>2. ASSUME NEW w \in Workers, NEW o \in 1..(WorkerCount - 1) PROVE Victim(w, o) \in Workers
  <2>1. (w + o) % WorkerCount \in 0..(WorkerCount - 1)
    <3>1. w + o \in Nat
      BY JobQueueAssumption DEF Workers
    <3> QED BY <3>1, JobQueueAssumption
  <2> QED BY <2>1 DEF Victim, Workers
<1>3. ASSUME NEW w \in Workers, TryTakeCompute(w)
      PROVE  \E a \in Places : \E local \in BOOLEAN : PopQueue(a, local) /\ (local => a \in Workers)
  BY <1>1, <1>2, <1>3 DEF TryTakeCompute, TakeLocal, TakeInjected, Steal
<1> QED BY <1>1, <1>3 DEF TryTakeBlocking

(* It holds at the start.                                                    *)
LEMMA QueueInvInit == ASSUME Init PROVE QueueInv
<1>1. 0 \in Priorities /\ MaxSequence \in Nat
  BY JobQueueAssumption DEF Priorities
<1>2. \A a \in Places, p \in Priorities : DOMAIN queues[a][p] = {}
  BY DEF Init
<1>3. QueueTypes
  BY <1>1 DEF Init, QueueTypes
<1>4. ArrivedLater /\ NoneLost /\ TakenOnce
  BY DEF Init, ArrivedLater, NoneLost, TakenOnce
<1>5. QueuedWell /\ InOrder /\ OneSpot
  BY <1>2 DEF QueuedWell, InOrder, OneSpot
<1> QED BY <1>3, <1>4, <1>5 DEF QueueInv

(* A step submits a job, enqueues one, or takes one.                         *)
LEMMA QueueSteps ==
    ASSUME QueueTypes, [Next]_vars
    PROVE  \/ \E p \in Priorities : Submit(p)
           \/ \E j \in Sequences, a \in Places : Enqueue(j, a)
           \/ \E a \in Places : \E p \in Priorities : \E e, j :
                   Pops(a, p, e, j) /\ (a \notin Workers => e = 1)
           \/ UNCHANGED vars
<1>1. ASSUME NEW a \in Places, NEW local \in BOOLEAN, PopQueue(a, local), local => a \in Workers
      PROVE  \E p \in Priorities : \E e, j : Pops(a, p, e, j) /\ (a \notin Workers => e = 1)
  BY <1>1, PopsOne
<1> QED BY <1>1, TakesPop DEF Next

(* Every step keeps it.                                                      *)
LEMMA QueueInvStep == ASSUME QueueInv, [Next]_vars PROVE QueueInv'
<1>1. CASE UNCHANGED vars
  <2>1. UNCHANGED <<nextSequence, priority, queues, arrival, taken>>
    BY <1>1 DEF vars
  <2>2. QueueTypes' /\ ArrivedLater'
    BY <2>1 DEF QueueInv, QueueTypes, ArrivedLater
  <2>3. QueuedWell' /\ InOrder' /\ OneSpot'
    BY <2>1 DEF QueueInv, QueuedWell, InOrder, OneSpot
  <2>4. TakenOnce' /\ NoneLost'
    BY <2>1 DEF QueueInv, TakenOnce, NoneLost, Queued, Taken
  <2> QED BY <2>2, <2>3, <2>4 DEF QueueInv
<1> QED BY <1>1, SubmitKeeps, EnqueueKeeps, PopsInv, QueueSteps DEF QueueInv

(* Every job that was enqueued is at one spot, behind older arrivals of its  *)
(* priority, or was taken once.                                              *)
THEOREM QueueInvariant == Spec => []QueueInv
<1>1. Init => QueueInv
  BY QueueInvInit
<1>2. QueueInv /\ [Next]_vars => QueueInv'
  BY QueueInvStep
<1> QED BY <1>1, <1>2, PTL DEF Spec

-----------------------------------------------------------------------------
(* EachJobOnce *)

(* A deque holds no job twice, hence no more jobs than were submitted.       *)
LEMMA DequesBounded ==
    ASSUME QueueInv, NEW a \in Places, NEW p \in Priorities
    PROVE  DOMAIN queues[a][p] \subseteq Sequences
<1>1. PICK q \in Seq(Sequences) : q = queues[a][p]
  BY DEF QueueInv, QueueTypes
<1>2. PICK n : n = Len(q) /\ n \in Nat /\ DOMAIN q = 1..n
  <2>1. Len(q) \in Nat /\ DOMAIN q = 1..Len(q)
    BY <1>1
  <2> QED BY <2>1
<1>3. q \in [1..n -> Sequences]
  BY <1>1, <1>2
<1>4. /\ IsFiniteSet(1..n) /\ Cardinality(1..n) = n
      /\ IsFiniteSet(Sequences) /\ Cardinality(Sequences) = MaxSequence
  <2>1. IsFiniteSet(1..n) /\ Cardinality(1..n) = IF 1 > n THEN 0 ELSE n - 1 + 1
    <3>1. n \in Int /\ 1 \in Int
      BY <1>2
    <3> QED BY <3>1, FS_Interval
  <2>2. IsFiniteSet(Sequences) /\ Cardinality(Sequences) = IF 1 > MaxSequence THEN 0 ELSE MaxSequence - 1 + 1
    BY JobQueueAssumption, FS_Interval DEF Sequences
  <2> QED BY <1>2, <2>1, <2>2, JobQueueAssumption
<1>5. \A i, k \in 1..n : q[i] = q[k] => i = k
  BY <1>1, <1>2 DEF QueueInv, OneSpot
<1>6. ~(MaxSequence < n)
  <2> SUFFICES ASSUME MaxSequence < n PROVE FALSE
    OBVIOUS
  <2>1. \E i, k \in 1..n : i # k /\ q[i] = q[k]
    BY <1>3, <1>4, FS_PigeonHole
  <2> QED BY <1>5, <2>1
<1> QED BY <1>1, <1>2, <1>6, JobQueueAssumption DEF Sequences

(* A set is empty or has one element.                                        *)
LEMMA OneOrNone ==
    /\ Cardinality({}) = 0
    /\ \A S : \A x \in S : (\A y \in S : y = x) => Cardinality(S) = 1
<1>1. ASSUME NEW S, NEW x \in S, \A y \in S : y = x PROVE Cardinality(S) = 1
  <2>1. S = {x}
    BY <1>1
  <2> QED BY <2>1, FS_Singleton
<1> QED BY <1>1, FS_EmptySet

(* So every enqueued job is counted once, queued or taken.                   *)
LEMMA OnceEach == ASSUME QueueInv PROVE EachJobOnce
<1> SUFFICES ASSUME NEW j \in Sequences, arrival[j] # 0
             PROVE  LET spots == {s \in Places \X Priorities \X Sequences :
                                     s[3] \in DOMAIN queues[s[1]][s[2]] /\ queues[s[1]][s[2]][s[3]] = j}
                    IN Cardinality(spots) + Cardinality({place \in Places : <<j, place>> \in taken}) = 1
  BY DEF EachJobOnce
<1> DEFINE spots == {s \in Places \X Priorities \X Sequences :
                        s[3] \in DOMAIN queues[s[1]][s[2]] /\ queues[s[1]][s[2]][s[3]] = j}
           from == {place \in Places : <<j, place>> \in taken}
<1>1. CASE Queued(j)
  <2>1. PICK a \in Places, p \in Priorities : \E i \in DOMAIN queues[a][p] : queues[a][p][i] = j
    BY <1>1 DEF Queued
  <2>2. PICK i \in DOMAIN queues[a][p] : queues[a][p][i] = j
    BY <2>1
  <2>3. i \in Sequences
    BY <2>2, DequesBounded
  <2>4. <<a, p, i>> \in spots
    BY <2>2, <2>3
  <2>5. ASSUME NEW s \in spots PROVE s = <<a, p, i>>
    <3>1. PICK b \in Places, r \in Priorities, k \in Sequences : s = <<b, r, k>>
      OBVIOUS
    <3>2. k \in DOMAIN queues[b][r] /\ queues[b][r][k] = j
      BY <3>1
    <3>3. r = p
      BY <2>2, <3>2 DEF QueueInv, QueuedWell
    <3>4. b = a /\ k = i
      BY <2>2, <3>2, <3>3 DEF QueueInv, OneSpot
    <3> QED BY <3>1, <3>3, <3>4
  <2>6. Cardinality(spots) = 1
    BY <2>4, <2>5, OneOrNone
  <2>7. from = {}
    BY <1>1 DEF QueueInv, TakenOnce
  <2>8. Cardinality(from) = 0
    BY <2>7, OneOrNone
  <2> QED BY <2>6, <2>8
<1>2. CASE ~Queued(j)
  <2>1. spots = {}
    <3> SUFFICES ASSUME NEW s \in spots PROVE FALSE
      OBVIOUS
    <3>1. PICK b \in Places, r \in Priorities, k \in Sequences : s = <<b, r, k>>
      OBVIOUS
    <3>2. k \in DOMAIN queues[b][r] /\ queues[b][r][k] = j
      BY <3>1
    <3> QED BY <1>2, <3>2 DEF Queued
  <2>2. PICK a \in Places : <<j, a>> \in taken
    BY <1>2 DEF QueueInv, NoneLost, Taken
  <2>3. \A b \in from : b = a
    BY <2>2 DEF QueueInv, TakenOnce
  <2>4. a \in from
    BY <2>2
  <2>5. Cardinality(from) = 1
    BY <2>3, <2>4, OneOrNone
  <2>6. Cardinality(spots) = 0
    BY <2>1, OneOrNone
  <2> QED BY <2>5, <2>6
<1> QED BY <1>1, <1>2

(* Between the owner's end, the thieves' end and promotion no job is lost,   *)
(* duplicated or executed by two workers.                                    *)
THEOREM EachJobTakenOnce == Spec => []EachJobOnce
<1>1. QueueInv => EachJobOnce
  BY OnceEach
<1> QED BY <1>1, QueueInvariant, PTL

-----------------------------------------------------------------------------
(* AgingBoundsBypass *)

Shared == {InjectionQueue, Blocking}

(* Of what was taken from a shared queue, what a waiting job lets pass.      *)
PassBound == \A a \in Shared : \A p \in Priorities : \A i \in DOMAIN queues[a][p] : \A k \in Sequences :
    LET j == queues[a][p][i]
    IN <<k, a>> \in taken /\ k >= arrival[j] => k + 3 <= arrival[j] + Window(j)
TakenBefore == \A k \in Sequences : \A a \in Places : <<k, a>> \in taken => k < nextSequence

(* This is what the property says of jobs.                                   *)
LEMMA PassBoundMeans == ASSUME QueueInv, PassBound PROVE AgingBoundsBypass
<1> SUFFICES ASSUME NEW a \in Shared, NEW j \in Sequences, Holds(a, j), NEW k \in Overtakers(j, {a})
             PROVE  k + 3 <= arrival[j] + Window(j)
  BY DEF AgingBoundsBypass, Shared
<1>1. PICK p \in Priorities : j \in JobsOf(queues[a][p])
  BY DEF Holds
<1>2. PICK i \in DOMAIN queues[a][p] : queues[a][p][i] = j
  BY <1>1 DEF JobsOf
<1>3. k \in Sequences /\ k >= arrival[j] /\ <<k, a>> \in taken
  BY DEF Overtakers
<1> QED BY <1>2, <1>3 DEF PassBound

(* Numbers: h is the front of the waiting job's deque, b its arrival, k the  *)
(* job that was taken, n the next sequence.                                  *)
LEMMA OnlyWindow ==
    ASSUME NEW p \in Nat, NEW h \in Nat, NEW b \in Nat, NEW k \in Nat, NEW n \in Nat,
           h < b, b <= k, k < n, (n - h) \div AgingSubmissions < p
    PROVE  k + 3 <= b + p * AgingSubmissions
<1>1. PICK w \in Int : w = p * AgingSubmissions
  BY JobQueueAssumption
<1>2. n - h \in Nat
  OBVIOUS
<1>3. n - h < w
  BY <1>1, <1>2, Ages, JobQueueAssumption
<1> QED BY <1>1, <1>3

(* A job in a shared queue that was taken after m had arrived there counted  *)
(* for more than m's deque, which had not become Critical yet.               *)
LEMMA TakenEarly ==
    ASSUME QueueInv, NEW a \in Places \ Workers, NEW p \in Priorities, NEW e, NEW j, Pops(a, p, e, j), e = 1,
           NEW r \in Priorities, NEW x \in DOMAIN queues[a][r], NEW m, m = queues[a][r][x], arrival[m] <= j
    PROVE  j + 3 <= arrival[m] + Window(m)
<1>1. PICK q \in Seq(Sequences) : q = queues[a][r]
  BY DEF QueueInv, QueueTypes
<1>2. PICK s \in Seq(Sequences) : s = queues[a][p]
  BY DEF QueueInv, QueueTypes
<1>3. s # <<>> /\ j = s[1] /\ j \in Sequences /\ Head(s) = j /\ Beats(queues[a], p, r)
  <2>1. s # <<>> /\ 1 \in DOMAIN s /\ j = s[1]
    BY <1>2 DEF Pops, Nonempty
  <2>2. q # <<>>
    BY <1>1
  <2>3. r \in Nonempty(queues[a])
    BY <1>1, <2>2 DEF Nonempty
  <2>4. Beats(queues[a], p, r)
    BY <2>3 DEF Pops
  <2> QED BY <1>2, <2>1, <2>4
<1>4. PICK h \in Sequences : h = q[1] /\ h = Head(q) /\ 1 \in DOMAIN q /\ 1 <= x /\ x \in Int
  <2>1. x \in 1..Len(q) /\ Len(q) \in Nat /\ DOMAIN q = 1..Len(q)
    BY <1>1
  <2>2. q # <<>> /\ 1 \in DOMAIN q
    BY <2>1
  <2>3. Head(q) = q[1] /\ q[1] \in Sequences
    BY <2>1, <2>2
  <2> QED BY <2>1, <2>2, <2>3
<1>5. m \in Sequences /\ priority[m] = r /\ arrival[m] # 0 /\ arrival[h] # 0
  BY <1>1, <1>4 DEF QueueInv, QueuedWell
<1>6. arrival[h] <= arrival[m]
  <2>1. CASE x = 1
    <3>1. h = m
      BY <1>1, <1>4, <2>1
    <3>2. arrival[m] \in Nat
      BY <1>5 DEF QueueInv, QueueTypes
    <3> QED BY <3>1, <3>2
  <2>2. CASE x # 1
    <3>1. 1 < x
      BY <1>4, <2>2
    <3> QED BY <1>1, <1>4, <3>1 DEF QueueInv, InOrder
  <2> QED BY <2>1, <2>2
<1>7. PICK b \in Nat : b = arrival[m]
  BY <1>5 DEF QueueInv, QueueTypes
<1>8. PICK c \in Nat : c = arrival[h]
  BY DEF QueueInv, QueueTypes
<1>9. PICK n \in Nat : n = nextSequence
  BY JobQueueAssumption DEF QueueInv, QueueTypes
<1>10. h \in Nat /\ j \in Nat /\ h < b /\ b <= j
  <2>1. h \in Nat /\ j \in Nat
    BY <1>3, <1>4, JobQueueAssumption DEF Sequences
  <2>2. h < c
    BY <1>4, <1>5, <1>8 DEF QueueInv, ArrivedLater
  <2>3. c <= b /\ b <= j
    BY <1>6, <1>7, <1>8
  <2> QED BY <2>1, <2>2, <2>3
<1>11. j < n
  <2>1. arrival[j] # 0
    BY <1>2, <1>3 DEF Pops, QueueInv, QueuedWell
  <2>2. arrival[j] \in Nat /\ j < arrival[j] /\ arrival[j] <= n
    BY <1>3, <1>9, <2>1 DEF QueueInv, QueueTypes, ArrivedLater
  <2> QED BY <1>10, <2>2
<1>12. (n - h) \div AgingSubmissions < r
  <2>1. Effective(queues[a], p) < Effective(queues[a], r)
    BY <1>1, <1>2, <1>3, <1>4, <1>10 DEF Beats
  <2>2. PICK f \in Nat : f = (n - h) \div AgingSubmissions
    <3>1. n - h \in Nat
      BY <1>10, <1>11
    <3> QED BY <3>1, JobQueueAssumption, Ages
  <2>3. Effective(queues[a], r) = IF f >= r THEN 0 ELSE r - f
    BY <1>1, <1>4, <1>9, <2>2 DEF Effective
  <2>4. PICK g \in Int : g = (n - j) \div AgingSubmissions
    BY <1>10, <1>11, JobQueueAssumption
  <2>5. Effective(queues[a], p) = IF g >= p THEN 0 ELSE p - g
    BY <1>2, <1>3, <1>9, <2>4 DEF Effective
  <2>6. p \in Nat /\ r \in Nat
    BY JobQueueAssumption DEF Priorities
  <2> QED BY <2>1, <2>2, <2>3, <2>5, <2>6
<1>13. r \in Nat
  BY JobQueueAssumption DEF Priorities
<1>14. j + 3 <= b + r * AgingSubmissions
  BY <1>10, <1>11, <1>12, <1>13, OnlyWindow
<1> QED BY <1>5, <1>7, <1>14 DEF Window

(* Every step keeps the bound.                                               *)
LEMMA PassBoundStep == ASSUME QueueInv, PassBound, TakenBefore, [Next]_vars PROVE PassBound' /\ TakenBefore'
<1>1. ASSUME NEW p \in Priorities, Submit(p) PROVE PassBound' /\ TakenBefore'
  <2>1. /\ nextSequence \in Nat /\ nextSequence' = nextSequence + 1 /\ UNCHANGED <<queues, arrival, taken>>
        /\ \A k \in Sequences : k # nextSequence => priority'[k] = priority[k]
    BY <1>1, JobQueueAssumption DEF Submit, QueueInv, QueueTypes
  <2>2. TakenBefore'
    BY <2>1, JobQueueAssumption DEF TakenBefore, Sequences
  <2>3. ASSUME NEW a \in Shared, NEW q \in Priorities, NEW i \in DOMAIN queues[a][q]
        PROVE  priority'[queues[a][q][i]] = priority[queues[a][q][i]]
    <3>1. PICK m \in Sequences : m = queues[a][q][i] /\ arrival[m] # 0
      <4>1. a \in Places
        BY TakesPop DEF Shared, QueueInv
      <4>2. queues[a][q] \in Seq(Sequences)
        BY <4>1 DEF QueueInv, QueueTypes
      <4> QED BY <4>1, <4>2 DEF QueueInv, QueuedWell
    <3>2. m # nextSequence
      <4>1. arrival[m] \in Nat /\ m < arrival[m] /\ arrival[m] <= nextSequence
        BY <3>1 DEF QueueInv, QueueTypes, ArrivedLater
      <4>2. m \in Nat
        BY JobQueueAssumption DEF Sequences
      <4> QED BY <2>1, <4>1, <4>2
    <3> QED BY <2>1, <3>1, <3>2
  <2>4. PassBound'
    BY <2>1, <2>3 DEF PassBound, Window
  <2> QED BY <2>2, <2>4
<1>2. ASSUME NEW j \in Sequences, NEW a \in Places, Enqueue(j, a) PROVE PassBound' /\ TakenBefore'
  <2>1. PICK p \in Priorities : p = priority[j]
    BY DEF QueueInv, QueueTypes
  <2>2. PICK q \in Seq(Sequences) : q = queues[a][p]
    BY DEF QueueInv, QueueTypes
  <2>3. /\ arrival[j] = 0 /\ arrival' = [arrival EXCEPT ![j] = nextSequence]
        /\ queues' = [queues EXCEPT ![a][p] = Append(q, j)] /\ UNCHANGED <<nextSequence, priority, taken>>
    BY <1>2, <2>1, <2>2 DEF Enqueue
  <2>4. TakenBefore'
    BY <2>3 DEF TakenBefore
  <2>5. ASSUME NEW b \in Places, NEW r \in Priorities, NEW i \in DOMAIN queues'[b][r]
        PROVE  \/ queues'[b][r][i] = j
               \/ i \in DOMAIN queues[b][r] /\ queues'[b][r][i] = queues[b][r][i]
    <3>1. CASE b = a /\ r = p
      <4>1. queues'[b][r] = Append(q, j)
        BY <2>3, <3>1 DEF QueueInv, QueueTypes
      <4>2. Len(q) \in Nat /\ i \in 1..(Len(q) + 1)
        BY <2>2, <2>5, <4>1
      <4>3. CASE i = Len(q) + 1
        BY <2>2, <4>1, <4>2, <4>3
      <4>4. CASE i # Len(q) + 1
        <5>1. i \in 1..Len(q)
          BY <4>2, <4>4
        <5> QED BY <2>2, <3>1, <4>1, <5>1
      <4> QED BY <4>3, <4>4
    <3>2. CASE ~(b = a /\ r = p)
      <4>1. queues'[b][r] = queues[b][r]
        BY <2>3, <3>2 DEF QueueInv, QueueTypes
      <4> QED BY <2>5, <4>1
    <3> QED BY <3>1, <3>2
  <2>6. ASSUME NEW b \in Shared, NEW r \in Priorities, NEW i \in DOMAIN queues'[b][r], NEW k \in Sequences,
               NEW m, m = queues'[b][r][i], <<k, b>> \in taken, k >= arrival'[m]
        PROVE  k + 3 <= arrival'[m] + Window(m)
    <3>1. b \in Places
      BY TakesPop DEF Shared, QueueInv
    <3>2. CASE m = j
      <4>1. arrival'[m] = nextSequence
        BY <2>3, <3>2 DEF QueueInv, QueueTypes
      <4>2. k < nextSequence /\ k \in Nat /\ nextSequence \in Nat
        BY <2>6, <3>1, JobQueueAssumption DEF TakenBefore, QueueInv, QueueTypes, Sequences
      <4> QED BY <2>6, <4>1, <4>2
    <3>3. CASE m # j
      <4>1. i \in DOMAIN queues[b][r] /\ m = queues[b][r][i]
        BY <2>5, <2>6, <3>1, <3>3
      <4>2. m \in Sequences
        <5>1. queues[b][r] \in Seq(Sequences)
          BY <3>1 DEF QueueInv, QueueTypes
        <5> QED BY <4>1, <5>1
      <4>3. arrival'[m] = arrival[m]
        BY <2>3, <3>3, <4>2 DEF QueueInv, QueueTypes
      <4> QED BY <2>6, <4>1, <4>3 DEF PassBound
    <3> QED BY <3>2, <3>3
  <2>7. PassBound'
    BY <2>3, <2>6 DEF PassBound, Window
  <2> QED BY <2>4, <2>7
<1>3. ASSUME NEW a \in Places, NEW p \in Priorities, NEW e, NEW j, Pops(a, p, e, j), a \notin Workers => e = 1
      PROVE  PassBound' /\ TakenBefore'
  <2>1. /\ taken' = taken \cup {<<j, a>>} /\ UNCHANGED <<nextSequence, priority, arrival>>
        /\ j \in Sequences /\ arrival[j] # 0
    BY <1>3 DEF Pops, QueueInv, QueueTypes, QueuedWell
  <2>2. TakenBefore'
    <3>1. j < nextSequence
      <4>1. arrival[j] \in Nat /\ j < arrival[j] /\ arrival[j] <= nextSequence
        BY <2>1 DEF QueueInv, QueueTypes, ArrivedLater
      <4>2. j \in Nat /\ nextSequence \in Nat
        BY <2>1, JobQueueAssumption DEF Sequences, QueueInv, QueueTypes
      <4> QED BY <4>1, <4>2
    <3> QED BY <2>1, <3>1 DEF TakenBefore
  <2>3. ASSUME NEW b \in Shared, NEW r \in Priorities, NEW i \in DOMAIN queues'[b][r], NEW k \in Sequences,
               NEW m, m = queues'[b][r][i], <<k, b>> \in taken', k >= arrival[m]
        PROVE  k + 3 <= arrival[m] + Window(m)
    <3>1. b \in Places \ Workers
      BY TakesPop DEF Shared, QueueInv
    <3>2. PICK x \in DOMAIN queues[b][r] : m = queues[b][r][x]
      BY <1>3, <2>3, <3>1, PopsKeepSpots DEF QueueInv
    <3>3. CASE <<k, b>> \in taken
      BY <2>3, <3>2, <3>3 DEF PassBound
    <3>4. CASE k = j /\ b = a
      <4>1. m \in Sequences
        <5>1. queues[b][r] \in Seq(Sequences)
          BY <3>1 DEF QueueInv, QueueTypes
        <5> QED BY <3>2, <5>1
      <4>2. arrival[m] <= j
        <5>1. arrival[m] \in Nat /\ k \in Nat
          BY <4>1, JobQueueAssumption DEF QueueInv, QueueTypes, Sequences
        <5> QED BY <2>3, <3>4, <5>1
      <4> QED BY <1>3, <3>1, <3>2, <3>4, <4>2, TakenEarly
    <3> QED BY <2>1, <2>3, <3>3, <3>4
  <2>4. PassBound'
    BY <2>1, <2>3 DEF PassBound, Window
  <2> QED BY <2>2, <2>4
<1>4. CASE UNCHANGED vars
  <2>1. UNCHANGED <<nextSequence, priority, queues, arrival, taken>>
    BY <1>4 DEF vars
  <2> QED BY <2>1 DEF PassBound, TakenBefore, Window
<1> QED BY <1>1, <1>2, <1>3, <1>4, QueueSteps DEF QueueInv

(* However late and out of order jobs of whatever priority are enqueued, a   *)
(* job in the injection or the blocking queue lets pass only newcomers of a  *)
(* window after its arrival, which its priority and the aging interval set.  *)
THEOREM AgingBounds == Spec => []AgingBoundsBypass
<1>1. Init => PassBound /\ TakenBefore
  BY DEF Init, PassBound, TakenBefore
<1>2. QueueInv /\ PassBound /\ TakenBefore /\ [Next]_vars => PassBound' /\ TakenBefore'
  BY PassBoundStep
<1>3. QueueInv /\ PassBound => AgingBoundsBypass
  BY PassBoundMeans
<1> QED BY <1>1, <1>2, <1>3, QueueInvariant, PTL DEF Spec
=============================================================================
