------------------------------ MODULE EventProofs ------------------------------
(***************************************************************************)
(* Proofs about the event bus, for any types, priorities, threads, capacity  *)
(* and depth: no traversal loses its place, no event is taken twice, and the *)
(* right listeners are called in order.                                     *)
(***************************************************************************)
EXTENDS EventProperties, FiniteSetTheorems, SequenceTheorems, TLAPS

-----------------------------------------------------------------------------
(* The inductive invariant. *)

Subscription == [kind : Type \cup {Generic}, priority : Nat]
DispatchFrame == [op : {"dispatch"}, type : Type, max : Nat, at : Nat, step : {"seek", "found", "call"}]
DrainFrame == [op : {"drain"}, rest : Seq(Nat)]
CloseFrame == [op : {"close"}, step : {"listeners", "queue"}]
Frame == DispatchFrame \cup DrainFrame \cup CloseFrame

Typed ==
    /\ subscriptions \in Seq(Subscription) /\ listeners \in Seq(Nat)
    /\ active \subseteq Nat /\ open \in BOOLEAN
    /\ queue \in Seq(Nat) /\ frames \in Seq(Frame) /\ producers \in [Producer -> Type \cup {Generic}]
    /\ events \in Seq(Type) /\ delivered \subseteq DOMAIN events
    /\ thrown \in BOOLEAN /\ raced \in BOOLEAN

(* The list is sorted, and has whoever is connected.                         *)
Sorted == \A i, k \in DOMAIN listeners : i < k => Before(listeners[i], listeners[k])
ListOK == Sorted /\ ToSet(listeners) \subseteq DOMAIN subscriptions /\ active \subseteq ToSet(listeners)

(* Only the innermost call is anywhere but in a callback or a drained event. *)
Settled(f) == f.op = "drain" \/ (f.op = "dispatch" /\ f.step = "call")
StackOK == \A i \in DOMAIN frames : i = Len(frames) \/ Settled(frames[i])

WalksOK == \A i \in Dispatches : frames[i].at # 0 => frames[i].at \in ToSet(listeners)
FoundOK == AtStep("found") => Top.at \in active \/ raced

(* Close disconnects all, then empties the queue; the list goes with it, or  *)
(* with the outermost dispatch.                                              *)
ClosingOK ==
    /\ In("close") => ~open
    /\ open \/ active = {} \/ (In("close") /\ Top.step = "listeners")
    /\ open \/ In("close") \/ (queue = <<>> /\ (Dispatches = {} => listeners = <<>>))

ListInv == Typed /\ ListOK /\ StackOK /\ WalksOK /\ FoundOK /\ ClosingOK

(* The queue and what drains have left of it, outer ones first, are one      *)
(* increasing list of events.                                                *)
Increasing(s) == \A i, k \in DOMAIN s : i < k => s[i] < s[k]
Precedes(s, t) == \A i \in DOMAIN s, k \in DOMAIN t : s[i] < t[k]
Pending(s, left) == Increasing(s) /\ ToSet(s) \subseteq left
Left == DOMAIN events \ delivered
PlacesOK ==
    /\ Pending(queue, Left)
    /\ \A i \in Drains : /\ Pending(frames[i].rest, Left) /\ Precedes(frames[i].rest, queue)
                         /\ \A k \in Drains : i < k => Precedes(frames[i].rest, frames[k].rest)
AllKept == open /\ ~thrown =>
    \A n \in Left : n \in ToSet(queue) \/ \E i \in Drains : n \in ToSet(frames[i].rest)
QueueInv == PlacesOK /\ AllKept

BusInv == ListInv /\ QueueInv

-----------------------------------------------------------------------------
(* Finite sets and folds.  A fold is the value of a recursive function that  *)
(* CHOOSE picks: it exists, by the least set on which it would not.          *)

(* Of any sets among the subsets of a finite set one includes no other.      *)
LEMMA SmallestSet ==
    ASSUME NEW S, IsFiniteSet(S), NEW T \in SUBSET SUBSET S, T # {}
    PROVE  \E x \in T : \A y \in T : y \subseteq x => y = x
<1>1. IsWellFoundedOn(StrictSubsetOrdering(S), FiniteSubsetsOf(S))
  BY FS_StrictSubsetOrderingWellFounded
<1>2. T \subseteq FiniteSubsetsOf(S)
  <2>1. ASSUME NEW x \in T PROVE x \in FiniteSubsetsOf(S)
    <3>1. x \in SUBSET S
      OBVIOUS
    <3> QED BY <3>1, FS_Subset DEF FiniteSubsetsOf
  <2> QED BY <2>1
<1>3. PICK x \in T : \A y \in T : ~(<<y, x>> \in StrictSubsetOrdering(S))
  BY <1>1, <1>2, WFMin
<1>4. ASSUME NEW y \in T, y \subseteq x, y # x PROVE FALSE
  <2>1. <<y, x>> \in StrictSubsetOrdering(S)
    BY <1>4 DEF StrictSubsetOrdering
  <2> QED BY <1>3, <2>1
<1> QED BY <1>3, <1>4

(* A function that combines the elements of each subset, one after the other *)
(* as pick takes them out.                                                   *)
Combines(iter, base, op, pick, S) ==
    \A s \in SUBSET S : iter[s] = IF s = {} THEN base ELSE op[pick[s]][iter[s \ {pick[s]}]]

(* There is only one.                                                        *)
LEMMA CombinesOnce ==
    ASSUME NEW S, IsFiniteSet(S), NEW A \in SUBSET S, NEW B \in SUBSET S, NEW base, NEW op, NEW pick,
           \A s \in SUBSET S : s # {} => pick[s] \in s,
           NEW f, NEW g, Combines(f, base, op, pick, A), Combines(g, base, op, pick, B)
    PROVE  \A s \in SUBSET S : s \subseteq A /\ s \subseteq B => f[s] = g[s]
<1> DEFINE Bad == {s \in SUBSET S : s \subseteq A /\ s \subseteq B /\ f[s] # g[s]}
<1>1. SUFFICES ASSUME Bad # {} PROVE FALSE
  OBVIOUS
<1>2. PICK s \in Bad : \A t \in Bad : t \subseteq s => t = s
  <2>1. Bad \in SUBSET SUBSET S
    OBVIOUS
  <2> HIDE DEF Bad
  <2> QED BY <1>1, <2>1, SmallestSet
<1>3. f[s] = (IF s = {} THEN base ELSE op[pick[s]][f[s \ {pick[s]}]])
  BY DEF Combines
<1>4. g[s] = (IF s = {} THEN base ELSE op[pick[s]][g[s \ {pick[s]}]])
  BY DEF Combines
<1>5. s # {}
  BY <1>3, <1>4
<1>6. pick[s] \in s /\ s \ {pick[s]} # s
  BY <1>5
<1>7. f[s \ {pick[s]}] = g[s \ {pick[s]}]
  BY <1>2, <1>6
<1> QED BY <1>3, <1>4, <1>5, <1>7

(* There is one.                                                             *)
LEMMA CombinesExist ==
    ASSUME NEW S, IsFiniteSet(S), NEW V, NEW base \in V, NEW op \in [S -> [V -> V]], NEW pick,
           \A s \in SUBSET S : s # {} => pick[s] \in s
    PROVE  \E iter \in [SUBSET S -> V] : Combines(iter, base, op, pick, S)
<1> DEFINE Good(T) == \E iter \in [SUBSET T -> V] : Combines(iter, base, op, pick, T)
           Bad == {T \in SUBSET S : ~Good(T)}
<1>1. SUFFICES ASSUME Bad # {} PROVE FALSE
  BY <1>1
<1>2. PICK T \in Bad : \A t \in Bad : t \subseteq T => t = T
  <2>1. Bad \in SUBSET SUBSET S
    OBVIOUS
  <2> HIDE DEF Bad
  <2> QED BY <1>1, <2>1, SmallestSet
<1> DEFINE It(u) == CHOOSE iter \in [SUBSET u -> V] : Combines(iter, base, op, pick, u)
           val(u) == It(u)[u]
<1>3. ASSUME NEW u \in SUBSET T, u # T PROVE It(u) \in [SUBSET u -> V] /\ Combines(It(u), base, op, pick, u)
  <2>1. u \in SUBSET S /\ u \notin Bad
    BY <1>2, <1>3
  <2>2. Good(u)
    BY <2>1
  <2> QED BY <2>2
<1> HIDE DEF It
<1>4. \A s \in SUBSET T : s # {} => pick[s] \in s /\ s \ {pick[s]} \in SUBSET T /\ s \ {pick[s]} # T
  <2>1. T \in SUBSET S
    OBVIOUS
  <2> QED BY <2>1
<1>5. ASSUME NEW u \in SUBSET T, u # T
      PROVE  /\ val(u) \in V
             /\ val(u) = IF u = {} THEN base ELSE op[pick[u]][val(u \ {pick[u]})]
  <2>1. It(u) \in [SUBSET u -> V] /\ Combines(It(u), base, op, pick, u)
    BY <1>3, <1>5
  <2>2. It(u)[u] \in V
    BY <2>1
  <2>3. It(u)[u] = IF u = {} THEN base ELSE op[pick[u]][It(u)[u \ {pick[u]}]]
    BY <2>1 DEF Combines
  <2>4. ASSUME u # {} PROVE It(u)[u \ {pick[u]}] = val(u \ {pick[u]})
    <3>1. PICK w : w = u \ {pick[u]}
      OBVIOUS
    <3>2. w \in SUBSET T /\ w # T /\ w \subseteq u /\ pick[u] \in u
      BY <1>4, <1>5, <2>4, <3>1
    <3>3. Combines(It(w), base, op, pick, w)
      BY <1>3, <3>2
    <3>4. u \in SUBSET S /\ w \in SUBSET S
      BY <3>2
    <3>5. It(u)[w] = It(w)[w]
      BY <2>1, <3>2, <3>3, <3>4, CombinesOnce
    <3> QED BY <3>1, <3>5
  <2> QED BY <2>2, <2>3, <2>4
<1> DEFINE G == [s \in SUBSET T |-> IF s = {} THEN base ELSE op[pick[s]][val(s \ {pick[s]})]]
<1> HIDE DEF val
<1>6. G \in [SUBSET T -> V]
  <2>1. ASSUME NEW s \in SUBSET T, s # {} PROVE op[pick[s]][val(s \ {pick[s]})] \in V
    <3>1. pick[s] \in S /\ op[pick[s]] \in [V -> V]
      BY <1>4, <2>1
    <3>2. val(s \ {pick[s]}) \in V
      BY <1>4, <1>5, <2>1
    <3> QED BY <3>1, <3>2
  <2> QED BY <2>1
<1>7. ASSUME NEW u \in SUBSET T, u # T PROVE G[u] = val(u)
  BY <1>5, <1>7
<1>8. Combines(G, base, op, pick, T)
  <2>1. ASSUME NEW s \in SUBSET T, s # {} PROVE G[s] = op[pick[s]][G[s \ {pick[s]}]]
    BY <1>4, <1>7, <2>1
  <2>2. G[{}] = base
    OBVIOUS
  <2> HIDE DEF G
  <2> QED BY <2>1, <2>2 DEF Combines
<1> HIDE DEF G
<1> QED BY <1>6, <1>8, <1>2

(* Of finitely many things one has the least measure.                       *)
LEMMA LeastOf ==
    ASSUME NEW S, IsFiniteSet(S), S # {}, NEW f, \A x \in S : f[x] \in Nat
    PROVE  \E x \in S : \A y \in S : f[x] <= f[y]
<1> DEFINE Bad == {U \in SUBSET S : U # {} /\ ~\E x \in U : \A y \in U : f[x] <= f[y]}
<1>1. ASSUME Bad # {} PROVE FALSE
  <2>1. PICK U \in Bad : \A t \in Bad : t \subseteq U => t = U
    <3>1. Bad \in SUBSET SUBSET S
      OBVIOUS
    <3> HIDE DEF Bad
    <3> QED BY <1>1, <3>1, SmallestSet
  <2>2. U \in SUBSET S /\ ~\E x \in U : \A y \in U : f[x] <= f[y]
    BY <2>1
  <2>3. PICK x \in U : TRUE
    BY <2>1
  <2>4. U \ {x} \in SUBSET S /\ U \ {x} # U
    BY <2>2, <2>3
  <2>5. U \ {x} = {} \/ \E m \in U \ {x} : \A y \in U \ {x} : f[m] <= f[y]
    BY <2>1, <2>4
  <2>6. CASE U \ {x} = {}
    <3>1. f[x] \in Nat /\ \A y \in U : x = y
      BY <2>2, <2>3, <2>6
    <3> QED BY <2>2, <2>3, <3>1
  <2>7. ASSUME NEW m \in U \ {x}, \A y \in U \ {x} : f[m] <= f[y] PROVE FALSE
    <3>1. f[x] \in Nat /\ f[m] \in Nat /\ \A y \in U : f[y] \in Nat
      BY <2>2, <2>3
    <3>2. CASE f[x] <= f[m]
      <4>1. \A y \in U : f[x] <= f[y]
        BY <2>7, <3>1, <3>2
      <4> QED BY <2>2, <2>3, <4>1
    <3>3. CASE f[m] <= f[x]
      <4>1. \A y \in U : f[m] <= f[y]
        BY <2>7, <3>1, <3>3
      <4> QED BY <2>2, <4>1
    <3> QED BY <3>1, <3>2, <3>3
  <2> QED BY <2>5, <2>6, <2>7
<1> QED BY <1>1

LEMMA MinIs ==
    ASSUME NEW n \in Nat, NEW S \in SUBSET (1..n), S # {}
    PROVE  Min(S) \in S /\ \A i \in S : Min(S) <= i
<1>1. IsFiniteSet(S)
  <2>1. IsFiniteSet(1..n)
    BY FS_Interval
  <2> QED BY <2>1, FS_Subset
<1> DEFINE f == [i \in S |-> i]
<1>2. \A i \in S : f[i] \in Nat /\ f[i] = i
  OBVIOUS
<1>3. \E x \in S : \A y \in S : f[x] <= f[y]
  <2> HIDE DEF f
  <2> QED BY <1>1, <1>2, LeastOf
<1>4. \E x \in S : \A y \in S : x <= y
  BY <1>2, <1>3
<1> QED BY <1>4 DEF Min

LEMMA MaxIs ==
    ASSUME NEW n \in Nat, NEW S \in SUBSET (1..n), S # {}
    PROVE  Max(S) \in S /\ \A i \in S : i <= Max(S)
<1>1. IsFiniteSet(S)
  <2>1. IsFiniteSet(1..n)
    BY FS_Interval
  <2> QED BY <2>1, FS_Subset
<1> DEFINE f == [i \in S |-> n - i]
<1>2. \A i \in S : f[i] \in Nat /\ f[i] = n - i
  OBVIOUS
<1>3. \E x \in S : \A y \in S : f[x] <= f[y]
  <2> HIDE DEF f
  <2> QED BY <1>1, <1>2, LeastOf
<1>4. \E x \in S : \A y \in S : x >= y
  BY <1>2, <1>3
<1> QED BY <1>4 DEF Max

-----------------------------------------------------------------------------
(* The list of listeners. *)

(* q has the members of A among the first n elements of list, in its order.  *)
Kept(q, list, A, n) ==
    /\ q \in Seq(Nat)
    /\ \A k \in DOMAIN q : \E i \in 1..n : list[i] \in A /\ q[k] = list[i]
    /\ \A i \in 1..n : list[i] \in A => \E k \in DOMAIN q : q[k] = list[i]
    /\ \A k, l \in DOMAIN q : k < l => \E i, j \in 1..n : i < j /\ q[k] = list[i] /\ q[l] = list[j]

LEMMA KeepsNext ==
    ASSUME NEW list \in Seq(Nat), NEW A, NEW n \in 1..Len(list), NEW q, Kept(q, list, A, n - 1)
    PROVE  Kept(IF list[n] \in A THEN Append(q, list[n]) ELSE q, list, A, n)
<1>1. list[n] \in Nat /\ n - 1 \in Nat /\ n \in 1..n /\ \A i \in 1..n : i = n \/ i \in 1..(n - 1)
  OBVIOUS
<1>2. \A i \in 1..(n - 1) : i \in 1..n /\ i < n
  OBVIOUS
<1>3. /\ q \in Seq(Nat) /\ \A k \in DOMAIN q : \E i \in 1..(n - 1) : list[i] \in A /\ q[k] = list[i]
      /\ \A i \in 1..(n - 1) : list[i] \in A => \E k \in DOMAIN q : q[k] = list[i]
      /\ \A k, l \in DOMAIN q : k < l => \E i, j \in 1..(n - 1) : i < j /\ q[k] = list[i] /\ q[l] = list[j]
  BY DEF Kept
<1>4. CASE list[n] \notin A
  <2>1. Kept(q, list, A, n)
    <3>1. \A k \in DOMAIN q : \E i \in 1..n : list[i] \in A /\ q[k] = list[i]
      BY <1>2, <1>3
    <3>2. \A i \in 1..n : list[i] \in A => \E k \in DOMAIN q : q[k] = list[i]
      BY <1>1, <1>3, <1>4
    <3>3. ASSUME NEW k \in DOMAIN q, NEW l \in DOMAIN q, k < l
          PROVE  \E i, j \in 1..n : i < j /\ q[k] = list[i] /\ q[l] = list[j]
      <4>1. PICK i \in 1..(n - 1), j \in 1..(n - 1) : i < j /\ q[k] = list[i] /\ q[l] = list[j]
        BY <1>3, <3>3
      <4> QED BY <1>2, <4>1
    <3> QED BY <1>3, <3>1, <3>2, <3>3 DEF Kept
  <2> QED BY <1>4, <2>1
<1>5. CASE list[n] \in A
  <2>1. PICK m \in Nat : m = Len(q) /\ DOMAIN q = 1..m
    BY <1>3
  <2>2. PICK r : r = Append(q, list[n])
    OBVIOUS
  <2>3. /\ r \in Seq(Nat) /\ DOMAIN r = 1..(m + 1) /\ r[m + 1] = list[n]
        /\ \A k \in 1..m : r[k] = q[k]
    BY <1>1, <1>3, <2>1, <2>2
  <2>4. \A k \in DOMAIN r : k = m + 1 \/ k \in 1..m
    BY <2>1, <2>3
  <2>5. m + 1 \in DOMAIN r /\ \A k \in 1..m : k \in DOMAIN r
    BY <2>1, <2>3
  <2>6. ASSUME NEW k \in DOMAIN r PROVE \E i \in 1..n : list[i] \in A /\ r[k] = list[i]
    <3>1. CASE k = m + 1
      BY <1>1, <1>5, <2>3, <3>1
    <3>2. CASE k \in 1..m
      <4>1. PICK i \in 1..(n - 1) : list[i] \in A /\ q[k] = list[i]
        BY <1>3, <2>1, <3>2
      <4> QED BY <1>2, <2>3, <3>2, <4>1
    <3> QED BY <2>4, <3>1, <3>2
  <2>7. ASSUME NEW i \in 1..n, list[i] \in A PROVE \E k \in DOMAIN r : r[k] = list[i]
    <3>1. CASE i = n
      BY <2>3, <2>5, <3>1
    <3>2. CASE i \in 1..(n - 1)
      <4>1. PICK k \in 1..m : q[k] = list[i]
        BY <1>3, <2>1, <2>7, <3>2
      <4> QED BY <2>3, <2>5, <4>1
    <3> QED BY <1>1, <3>1, <3>2
  <2>8. ASSUME NEW k \in DOMAIN r, NEW l \in DOMAIN r, k < l
        PROVE  \E i, j \in 1..n : i < j /\ r[k] = list[i] /\ r[l] = list[j]
    <3>1. k \in 1..m
      BY <2>1, <2>3, <2>8
    <3>2. CASE l = m + 1
      <4>1. PICK i \in 1..(n - 1) : q[k] = list[i]
        BY <1>3, <2>1, <3>1
      <4> QED BY <1>1, <1>2, <2>3, <3>1, <3>2, <4>1
    <3>3. CASE l \in 1..m
      <4>1. PICK i \in 1..(n - 1), j \in 1..(n - 1) : i < j /\ q[k] = list[i] /\ q[l] = list[j]
        <5>1. k \in DOMAIN q /\ l \in DOMAIN q
          BY <2>1, <3>1, <3>3
        <5> QED BY <1>3, <2>8, <5>1
      <4> QED BY <1>2, <2>3, <3>1, <3>3, <4>1
    <3> QED BY <2>4, <3>2, <3>3
  <2>9. Kept(r, list, A, n)
    BY <2>3, <2>6, <2>7, <2>8 DEF Kept
  <2> QED BY <1>5, <2>2, <2>9
<1> QED BY <1>4, <1>5

(* What is left of the list when those that are not connected leave it.      *)
LEMMA ConnectedKeeps == ASSUME Typed PROVE Kept(Connected, listeners, active, Len(listeners))
<1>1. PICK n \in Nat : n = Len(listeners) /\ DOMAIN listeners = 1..n
  BY DEF Typed
<1> DEFINE S == 1..n
           V == Seq(Nat)
           Next1(i, v) == IF listeners[i] \in active THEN Append(v, listeners[i]) ELSE v
           op == [i \in S |-> [v \in V |-> Next1(i, v)]]
           pick == [s \in SUBSET S |-> Max(s)]
<1>2. IsFiniteSet(S) /\ \A i \in S : listeners[i] \in Nat
  <2>1. IsFiniteSet(1..n)
    BY FS_Interval
  <2> QED BY <1>1, <2>1 DEF Typed
<1>3. op \in [S -> [V -> V]]
  <2>1. \A i \in S, v \in V : Append(v, listeners[i]) \in V
    BY <1>2
  <2> QED BY <2>1
<1>4. \A s \in SUBSET S : s # {} => pick[s] \in s /\ pick[s] = Max(s)
  BY MaxIs
<1>5. PICK iter \in [SUBSET S -> V] : Combines(iter, <<>>, op, pick, S)
  <2>1. <<>> \in V
    OBVIOUS
  <2> HIDE DEF op, pick, S, V
  <2> QED BY <1>2, <1>3, <1>4, <2>1, CombinesExist
<1> DEFINE Is(it) == it = [s \in SUBSET S |-> IF s = {} THEN <<>> ELSE Next1(Max(s), it[s \ {Max(s)}])]
<1>6. Is(iter)
  <2>1. ASSUME NEW s \in SUBSET S, s # {} PROVE iter[s] = Next1(Max(s), iter[s \ {Max(s)}])
    <3>1. PICK x : x = Max(s)
      OBVIOUS
    <3>2. x \in S /\ x = pick[s]
      BY <1>4, <2>1, <3>1
    <3>3. iter[s] = op[x][iter[s \ {x}]] /\ iter[s \ {x}] \in V
      BY <1>5, <2>1, <3>2 DEF Combines
    <3>4. iter[s] = Next1(x, iter[s \ {x}])
      BY <3>2, <3>3
    <3> QED BY <3>1, <3>4
  <2>2. iter[{}] = <<>>
    BY <1>5 DEF Combines
  <2> HIDE DEF Next1
  <2> QED BY <2>1, <2>2
<1>7. PICK it : it = CHOOSE i : Is(i)
  OBVIOUS
<1>8. Is(it)
  <2>1. \E i : Is(i)
    BY <1>6
  <2> HIDE DEF Is
  <2> QED BY <1>7, <2>1
<1>9. Connected = it[S]
  BY <1>1, <1>7 DEF Connected, FoldLeft, MapThenFoldSet
<1> DEFINE Good(k) == Kept(it[1..k], listeners, active, k)
           Bad == {k \in 0..n : ~Good(k)}
<1>10. ASSUME Bad # {} PROVE FALSE
  <2>1. PICK k \in Bad : \A j \in Bad : k <= j
    <3>1. IsFiniteSet(Bad) /\ \A j \in Bad : j \in Nat
      <4>1. IsFiniteSet(0..n) /\ Bad \in SUBSET (0..n)
        BY FS_Interval
      <4>2. \A j \in 0..n : j \in Nat
        OBVIOUS
      <4> HIDE DEF Bad
      <4> QED BY <4>1, <4>2, FS_Subset
    <3> DEFINE f == [j \in Bad |-> j]
    <3>2. \A j \in Bad : f[j] \in Nat /\ f[j] = j
      BY <3>1
    <3>3. \E x \in Bad : \A y \in Bad : f[x] <= f[y]
      <4> HIDE DEF f, Bad
      <4> QED BY <1>10, <3>1, <3>2, LeastOf
    <3> HIDE DEF Bad
    <3> QED BY <3>2, <3>3
  <2>2. k \in 0..n /\ ~Good(k)
    BY <2>1
  <2>3. CASE k = 0
    <3>1. 1..k = {}
      BY <2>3
    <3>2. it[1..k] = <<>>
      BY <1>8, <3>1
    <3>3. Kept(<<>>, listeners, active, k)
      BY <3>1 DEF Kept
    <3> QED BY <2>2, <3>2, <3>3
  <2>4. CASE k \in 1..n
    <3>1. k - 1 \in 0..n /\ k - 1 < k /\ 1..k \in SUBSET S /\ k \in 1..k /\ 1..k # {} /\ (1..k) \ {k} = 1..(k - 1)
      BY <2>4
    <3>2. Good(k - 1)
      BY <2>1, <3>1
    <3>3. Max(1..k) = k
      <4>1. Max(1..k) \in 1..k /\ \A i \in 1..k : i <= Max(1..k)
        BY <2>4, <3>1, MaxIs
      <4> QED BY <2>4, <3>1, <4>1
    <3>4. it[1..k] = Next1(k, it[1..(k - 1)])
      <4>1. PICK s \in SUBSET S : s = 1..k
        BY <3>1
      <4>2. it[s] = Next1(Max(s), it[s \ {Max(s)}])
        BY <1>8, <3>1, <4>1
      <4> HIDE DEF Next1
      <4> QED BY <3>1, <3>3, <4>1, <4>2
    <3>5. Kept(Next1(k, it[1..(k - 1)]), listeners, active, k)
      <4>1. PICK q : q = it[1..(k - 1)]
        OBVIOUS
      <4>2. listeners \in Seq(Nat) /\ k \in 1..Len(listeners) /\ Kept(q, listeners, active, k - 1)
        BY <1>1, <2>4, <3>2, <4>1 DEF Typed
      <4> QED BY <4>1, <4>2, KeepsNext
    <3> QED BY <2>2, <3>4, <3>5
  <2> QED BY <2>2, <2>3, <2>4
<1>11. Good(n)
  <2>1. n \in 0..n /\ n \notin Bad
    BY <1>10
  <2> QED BY <2>1
<1> QED BY <1>1, <1>9, <1>11

-----------------------------------------------------------------------------
(* The stack of calls. *)

LEMMA Frames ==
    ASSUME NEW f \in Frame
    PROVE  /\ f.op \in {"dispatch", "drain", "close"}
           /\ f.op = "dispatch" => /\ f \in DispatchFrame /\ f.type \in Type /\ f.max \in Nat /\ f.at \in Nat
                                   /\ f.step \in {"seek", "found", "call"}
           /\ f.op = "drain" => f \in DrainFrame /\ f.rest \in Seq(Nat)
           /\ f.op = "close" => f \in CloseFrame /\ f.step \in {"listeners", "queue"}
  BY DEF Frame, DispatchFrame, DrainFrame, CloseFrame

LEMMA Stack ==
    ASSUME Typed
    PROVE  \E n \in Nat : Len(frames) = n /\ DOMAIN frames = 1..n /\ \A i \in 1..n : frames[i] \in Frame
  BY DEF Typed

LEMMA Pushes ==
    ASSUME NEW S, NEW s \in Seq(S), NEW f \in S, NEW t, t = Append(s, f)
    PROVE  /\ t \in Seq(S) /\ Len(t) = Len(s) + 1 /\ DOMAIN t = 1..(Len(s) + 1) /\ t[Len(s) + 1] = f
           /\ \A i \in 1..Len(s) : t[i] = s[i]
  OBVIOUS

LEMMA Pops ==
    ASSUME NEW S, NEW s \in Seq(S), s # <<>>, NEW t, t = Front(s)
    PROVE  /\ t \in Seq(S) /\ Len(t) = Len(s) - 1 /\ DOMAIN t = 1..(Len(s) - 1) /\ Len(s) \in Nat \ {0}
           /\ \A i \in 1..(Len(s) - 1) : t[i] = s[i]
<1>1. PICK n \in Nat \ {0} : n = Len(s)
  OBVIOUS
<1>2. t = SubSeq(s, 1, n - 1)
  BY <1>1 DEF Front
<1>3. t \in Seq(S) /\ Len(t) = n - 1 /\ \A i \in 1..(n - 1) : t[i] = s[i]
  BY <1>1, <1>2
<1>4. DOMAIN t = 1..(n - 1)
  BY <1>3
<1> QED BY <1>1, <1>3, <1>4

LEMMA Replaces ==
    ASSUME NEW S, NEW s \in Seq(S), s # <<>>, NEW f \in S, NEW t, t = Append(Front(s), f)
    PROVE  /\ t \in Seq(S) /\ Len(t) = Len(s) /\ DOMAIN t = 1..Len(s) /\ Len(s) \in Nat \ {0} /\ t[Len(s)] = f
           /\ \A i \in 1..(Len(s) - 1) : t[i] = s[i]
<1>1. PICK u : u = Front(s)
  OBVIOUS
<1>2. /\ u \in Seq(S) /\ Len(u) = Len(s) - 1 /\ Len(s) \in Nat \ {0}
      /\ \A i \in 1..(Len(s) - 1) : u[i] = s[i]
  BY <1>1, Pops
<1>3. /\ t \in Seq(S) /\ Len(t) = Len(u) + 1 /\ DOMAIN t = 1..(Len(u) + 1) /\ t[Len(u) + 1] = f
      /\ \A i \in 1..Len(u) : t[i] = u[i]
  BY <1>1, <1>2, Pushes
<1>4. Len(u) + 1 = Len(s)
  BY <1>2
<1> QED BY <1>2, <1>3, <1>4

(* What the stack is after a step, up to a depth m.                          *)
Keeps(m) ==
    /\ frames' \in Seq(Frame) /\ m <= Len(frames) /\ m <= Len(frames')
    /\ \A i \in 1..m : frames'[i] = frames[i]

(* A callback is only ever in progress below.                                *)
LEMMA PopKeeps ==
    ASSUME Typed, StackOK, WalksOK, NEW m \in Nat, Keeps(m), m < Len(frames), Len(frames') = m,
           listeners' = listeners \/ Dispatches' = {}
    PROVE  StackOK' /\ WalksOK' /\ FoundOK' /\ ~In("close")'
<1>1. /\ DOMAIN frames' = 1..m /\ \A i \in 1..m : i \in DOMAIN frames /\ i # Len(frames) /\ frames'[i] = frames[i]
  BY DEF Keeps, Typed
<1>2. \A i \in 1..m : Settled(frames[i])
  BY <1>1 DEF StackOK
<1>3. StackOK'
  BY <1>1, <1>2 DEF StackOK
<1>4. WalksOK'
  <2>1. CASE Dispatches' = {}
    BY <2>1 DEF WalksOK
  <2>2. CASE listeners' = listeners
    BY <1>1, <2>2 DEF WalksOK, Dispatches
  <2> QED BY <2>1, <2>2
<1>5. frames' # <<>> => m \in 1..m /\ Top' = frames[m]
  <2>1. frames' # <<>> => m # 0
    BY <1>1 DEF Keeps
  <2> QED BY <1>1, <2>1 DEF Top, Last
<1>6. FoundOK' /\ ~In("close")'
  BY <1>2, <1>5 DEF FoundOK, AtStep, In, Settled
<1> QED BY <1>3, <1>4, <1>6

(* The innermost call goes on.                                               *)
LEMMA ReplaceKeeps ==
    ASSUME Typed, StackOK, WalksOK, NEW n \in Nat \ {0}, n = Len(frames), Keeps(n - 1), Len(frames') = n, NEW f, frames'[n] = f,
           f.op = "dispatch" => /\ f.at # 0 => f.at \in ToSet(listeners)
                                /\ f.step = "found" => f.at \in active' \/ raced',
           listeners' = listeners
    PROVE  StackOK' /\ WalksOK' /\ FoundOK' /\ Top' = f /\ (\A op : In(op)' <=> f.op = op)
<1>1. /\ DOMAIN frames' = 1..n /\ \A i \in 1..(n - 1) : i \in DOMAIN frames /\ i # Len(frames) /\ frames'[i] = frames[i]
  BY DEF Keeps, Typed
<1>2. \A i \in 1..(n - 1) : Settled(frames[i])
  BY <1>1 DEF StackOK
<1>3. \A i \in 1..n : i = n \/ i \in 1..(n - 1)
  OBVIOUS
<1>4. StackOK'
  BY <1>1, <1>2, <1>3 DEF StackOK
<1>5. WalksOK'
  BY <1>1, <1>3 DEF WalksOK, Dispatches
<1>6. frames' # <<>> /\ Top' = f
  <2>1. frames' # <<>>
    BY <1>1
  <2> QED BY <2>1 DEF Top, Last
<1>7. FoundOK' /\ \A op : In(op)' <=> f.op = op
  BY <1>6 DEF FoundOK, AtStep, In
<1> QED BY <1>4, <1>5, <1>6, <1>7

(* A call is made: in a callback, or for an event of a drain.                *)
LEMMA PushKeeps ==
    ASSUME Typed, StackOK, WalksOK, NEW n \in Nat, n = Len(frames), frames' \in Seq(Frame), Len(frames') = n + 1,
           \A i \in 1..(n - 1) : frames'[i] = frames[i],
           n # 0 => \/ frames'[n].op = "drain"
                    \/ UserCode /\ frames'[n] = frames[n],
           NEW f, frames'[n + 1] = f, f.op = "dispatch" => f.at = 0 /\ f.step # "found",
           listeners' = listeners
    PROVE  StackOK' /\ WalksOK' /\ FoundOK' /\ Top' = f /\ (\A op : In(op)' <=> f.op = op)
<1>1. DOMAIN frames' = 1..(n + 1) /\ DOMAIN frames = 1..n
  BY DEF Typed
<1>8. \A i \in 1..(n + 1) : i = n + 1 \/ (i = n /\ n # 0 /\ i \in 1..n) \/ i \in 1..(n - 1)
  OBVIOUS
<1>2. \A i \in 1..(n - 1) : i \in DOMAIN frames /\ Settled(frames[i])
  BY <1>1 DEF StackOK
<1>3. n # 0 => Settled(frames'[n]) /\ (frames'[n].op = "drain" \/ frames'[n] = frames[n])
  <2>1. n # 0 => frames # <<>>
    OBVIOUS
  <2> QED BY <2>1 DEF UserCode, AtStep, In, Top, Last, Settled
<1>4. StackOK'
  BY <1>1, <1>2, <1>3, <1>8 DEF StackOK
<1>5. WalksOK'
  BY <1>1, <1>2, <1>3, <1>8 DEF WalksOK, Dispatches
<1>6. frames' # <<>> /\ Top' = f
  <2>1. frames' # <<>>
    BY <1>1
  <2> QED BY <2>1 DEF Top, Last
<1>7. FoundOK' /\ \A op : In(op)' <=> f.op = op
  BY <1>6 DEF FoundOK, AtStep, In
<1> QED BY <1>4, <1>5, <1>6, <1>7

(* Only another thread has moved.                                            *)
LEMMA SameKeeps ==
    ASSUME Typed, StackOK, WalksOK, UNCHANGED frames, ToSet(listeners) \subseteq ToSet(listeners')
    PROVE  StackOK' /\ WalksOK' /\ UNCHANGED <<Dispatches, Top>> /\ \A op : In(op)' <=> In(op)
<1>1. UNCHANGED <<Dispatches, Drains, Top>> /\ \A op : In(op)' <=> In(op)
  BY DEF Dispatches, Drains, Top, In
<1>2. StackOK'
  BY <1>1 DEF StackOK
<1>3. WalksOK'
  BY <1>1 DEF WalksOK
<1> QED BY <1>1, <1>2, <1>3

-----------------------------------------------------------------------------
(* Changes of the list. *)

LEMMA NoDispatch ==
    ASSUME NEW stack \in Seq(Frame)
    PROVE  Depth(stack) = 0 <=> {i \in DOMAIN stack : stack[i].op = "dispatch"} = {}
<1>1. PICK n \in Nat : DOMAIN stack = 1..n
  OBVIOUS
<1>2. IsFiniteSet(1..n)
  BY FS_Interval
<1>3. IsFiniteSet({i \in DOMAIN stack : stack[i].op = "dispatch"})
  BY <1>1, <1>2, FS_Subset
<1> QED BY <1>3, FS_EmptySet DEF Depth

(* Who sorts behind whom does not change.                                    *)
LEMMA Precedence ==
    ASSUME Typed, NEW a \in DOMAIN subscriptions, NEW b \in DOMAIN subscriptions
    PROVE  /\ subscriptions[a].priority \in Nat /\ a \in Nat
           /\ Before(a, b) => ~Before(b, a) /\ a # b
           /\ a # b => Before(a, b) \/ Before(b, a)
<1>1. ASSUME NEW x \in DOMAIN subscriptions PROVE subscriptions[x].priority \in Nat /\ x \in Nat
  <2>1. subscriptions[x] \in Subscription /\ x \in Nat
    BY DEF Typed
  <2> QED BY <2>1 DEF Subscription
<1> QED BY <1>1 DEF Before

LEMMA FinishKeepsList ==
    ASSUME Typed, ListOK, UNCHANGED <<subscriptions, active>>, frames' \in Seq(Frame), listeners' = Prune(frames')
    PROVE  /\ listeners' \in Seq(Nat) /\ ListOK'
           /\ listeners' = listeners \/ Dispatches' = {}
           /\ active = {} /\ Dispatches' = {} => listeners' = <<>>
<1>1. Depth(frames') = 0 <=> Dispatches' = {}
  BY NoDispatch DEF Dispatches
<1>2. CASE Dispatches' # {}
  <2>1. listeners' = listeners
    BY <1>1, <1>2 DEF Prune
  <2>2. ListOK'
    BY <2>1 DEF ListOK, Sorted, Before
  <2> QED BY <1>2, <2>1, <2>2 DEF Typed
<1>3. CASE Dispatches' = {}
  <2>1. PICK n \in Nat : n = Len(listeners) /\ DOMAIN listeners = 1..n
    BY DEF Typed
  <2>2. PICK q : q = Connected
    OBVIOUS
  <2>3. /\ q \in Seq(Nat) /\ \A k \in DOMAIN q : \E i \in 1..n : listeners[i] \in active /\ q[k] = listeners[i]
        /\ \A i \in 1..n : listeners[i] \in active => \E k \in DOMAIN q : q[k] = listeners[i]
        /\ \A k, l \in DOMAIN q : k < l => \E i, j \in 1..n : i < j /\ q[k] = listeners[i] /\ q[l] = listeners[j]
    BY <2>1, <2>2, ConnectedKeeps DEF Kept
  <2>4. listeners' = q
    BY <1>1, <1>3, <2>2 DEF Prune
  <2>5. ToSet(q) \subseteq ToSet(listeners) /\ ToSet(q) \subseteq active
    <3>1. ASSUME NEW k \in DOMAIN q PROVE q[k] \in ToSet(listeners) /\ q[k] \in active
      <4>1. PICK i \in 1..n : listeners[i] \in active /\ q[k] = listeners[i]
        BY <2>3
      <4> QED BY <2>1, <4>1 DEF ToSet
    <3> QED BY <3>1 DEF ToSet
  <2>6. active \subseteq ToSet(q)
    <3>1. ASSUME NEW id \in active PROVE id \in ToSet(q)
      <4>1. PICK i \in 1..n : id = listeners[i]
        BY <2>1 DEF ListOK, ToSet
      <4> QED BY <2>3, <4>1 DEF ToSet
    <3> QED BY <3>1
  <2>7. Sorted'
    <3>1. ASSUME NEW k \in DOMAIN q, NEW l \in DOMAIN q, k < l PROVE Before(q[k], q[l])
      <4>1. PICK i \in 1..n, j \in 1..n : i < j /\ q[k] = listeners[i] /\ q[l] = listeners[j]
        BY <2>3, <3>1
      <4> QED BY <2>1, <4>1 DEF ListOK, Sorted
    <3> QED BY <2>4, <3>1 DEF Sorted, Before
  <2>8. ListOK'
    BY <2>4, <2>5, <2>6, <2>7 DEF ListOK
  <2>9. active = {} => q = <<>>
    BY <2>3, <2>5 DEF ToSet
  <2> QED BY <1>3, <2>3, <2>4, <2>8, <2>9
<1> QED BY <1>2, <1>3

(* Joining and inserting.                                                    *)
LEMMA Joins ==
    ASSUME NEW S, NEW s \in Seq(S), NEW u \in Seq(S), NEW t, t = s \o u
    PROVE  /\ t \in Seq(S) /\ Len(t) = Len(s) + Len(u)
           /\ \A i \in 1..(Len(s) + Len(u)) : t[i] = IF i <= Len(s) THEN s[i] ELSE u[i - Len(s)]
  OBVIOUS

Inserted(t, s, n, p, e) ==
    /\ t \in Seq(Nat) /\ Len(t) = n + 1 /\ DOMAIN t = 1..(n + 1)
    /\ \A i \in 1..(n + 1) : t[i] = IF i < p THEN s[i] ELSE IF i = p THEN e ELSE s[i - 1]

LEMMA Inserts ==
    ASSUME NEW n \in Nat, NEW s \in Seq(Nat), n = Len(s), NEW p \in 1..(n + 1), NEW e \in Nat, NEW t, t = InsertAt(s, p, e)
    PROVE  Inserted(t, s, n, p, e)
<1> DEFINE a == SubSeq(s, 1, p - 1)  b == SubSeq(s, p, n)
<1>1. a \in Seq(Nat) /\ Len(a) = p - 1 /\ \A i \in 1..(p - 1) : a[i] = s[i]
  OBVIOUS
<1>2. b \in Seq(Nat) /\ Len(b) = n + 1 - p /\ \A i \in 1..(n + 1 - p) : b[i] = s[p + i - 1]
  OBVIOUS
<1>3. t = (a \o <<e>>) \o b
  BY DEF InsertAt
<1> HIDE DEF a, b
<1>4. PICK c : c = a \o <<e>>
  OBVIOUS
<1>5. c \in Seq(Nat) /\ Len(c) = p /\ c[p] = e /\ \A i \in 1..(p - 1) : c[i] = s[i]
  BY <1>1, <1>4
<1>9. t = c \o b
  BY <1>3, <1>4
<1>10. PICK d : d = b
  OBVIOUS
<1>6. t \in Seq(Nat) /\ Len(t) = Len(c) + Len(d) /\ \A i \in 1..(Len(c) + Len(d)) : t[i] = IF i <= Len(c) THEN c[i] ELSE d[i - Len(c)]
  <2>1. d \in Seq(Nat) /\ c \in Seq(Nat) /\ t = c \o d
    BY <1>2, <1>5, <1>9, <1>10
  <2> QED BY <2>1, Joins
<1>7. Len(t) = n + 1 /\ \A i \in 1..(n + 1) : t[i] = IF i <= p THEN c[i] ELSE b[i - p]
  <2>1. Len(c) + Len(d) = n + 1
    BY <1>2, <1>5, <1>10
  <2> QED BY <1>5, <1>6, <1>10, <2>1
<1>8. ASSUME NEW i \in 1..(n + 1) PROVE t[i] = IF i < p THEN s[i] ELSE IF i = p THEN e ELSE s[i - 1]
  <2>1. CASE i <= p
    <3>1. t[i] = c[i] /\ (i = p \/ i \in 1..(p - 1))
      BY <1>7, <2>1
    <3> QED BY <1>5, <3>1
  <2>2. CASE i > p
    <3>1. i - p \in 1..(n + 1 - p) /\ p + (i - p) - 1 = i - 1 /\ ~(i <= p)
      BY <2>2
    <3>2. t[i] = b[i - p] /\ b[i - p] = s[i - 1]
      BY <1>2, <1>7, <3>1
    <3> QED BY <2>2, <3>2
  <2> QED BY <2>1, <2>2
<1> QED BY <1>6, <1>7, <1>8 DEF Inserted

(* The new listener follows those of its priority.                           *)
LEMMA SubscribeKeepsList ==
    ASSUME Typed, ListOK, NEW kind \in Kind, NEW priority \in Priority, Subscribe(kind, priority)
    PROVE  /\ subscriptions' \in Seq(Subscription) /\ listeners' \in Seq(Nat) /\ active' \subseteq Nat
           /\ ListOK' /\ ToSet(listeners) \subseteq ToSet(listeners')
<1>1. PICK n \in Nat, m \in Nat : n = Len(listeners) /\ DOMAIN listeners = 1..n /\ m = Len(subscriptions) /\ DOMAIN subscriptions = 1..m
  BY DEF Typed
<1>2. priority \in Nat /\ kind \in Type \cup {Generic}
  BY BusAssumption
<1>3. PICK p : p = InsertPosition(priority)
  OBVIOUS
<1>4. /\ subscriptions' = Append(subscriptions, [kind |-> kind, priority |-> priority])
      /\ listeners' = InsertAt(listeners, p, m + 1) /\ active' = active \cup {m + 1}
  BY <1>1, <1>3 DEF Subscribe
<1>5. /\ subscriptions' \in Seq(Subscription) /\ DOMAIN subscriptions' = 1..(m + 1)
      /\ subscriptions'[m + 1].priority = priority /\ \A i \in 1..m : subscriptions'[i] = subscriptions[i]
  BY <1>1, <1>2, <1>4 DEF Typed, Subscription
<1>15. PICK l : l = listeners
  OBVIOUS
<1>6. /\ \A i \in 1..n : l[i] \in 1..m /\ subscriptions[l[i]].priority \in Nat
      /\ \A i, k \in 1..n : i < k => Before(l[i], l[k])
  <2>1. \A i \in 1..n : l[i] \in DOMAIN subscriptions
    BY <1>1, <1>15 DEF ListOK, ToSet
  <2> QED BY <1>1, <1>15, <2>1, Precedence DEF ListOK, Sorted
<1>7. /\ p \in 1..(n + 1) /\ \A i \in 1..n : i < p => subscriptions[l[i]].priority >= priority
      /\ p # n + 1 => subscriptions[l[p]].priority < priority
  <2> DEFINE S == {i \in DOMAIN l : subscriptions[l[i]].priority < priority} \cup {Len(l) + 1}
  <2>1. S \in SUBSET (1..(n + 1)) /\ S # {} /\ n + 1 \in Nat
    BY <1>1, <1>15
  <2>2. p = Min(S)
    BY <1>3, <1>15 DEF InsertPosition
  <2>3. \A i \in 1..n : subscriptions[l[i]].priority < priority <=> i \in S
    BY <1>1, <1>15
  <2> HIDE DEF S
  <2>4. p \in S /\ \A i \in S : p <= i
    BY <2>1, <2>2, MinIs
  <2>5. p \in 1..(n + 1) /\ (p # n + 1 => p \in 1..n)
    BY <2>1, <2>4
  <2>6. ASSUME NEW i \in 1..n, i < p PROVE subscriptions[l[i]].priority >= priority
    <3>1. i \notin S
      BY <2>4, <2>5, <2>6
    <3> QED BY <1>2, <1>6, <2>3, <3>1
  <2> QED BY <2>3, <2>4, <2>5, <2>6
<1>8. \A i \in p..n : subscriptions[l[i]].priority < priority
  <2>1. ASSUME NEW i \in p..n PROVE subscriptions[l[i]].priority < priority
    <3>1. i \in 1..n /\ p \in 1..n /\ p # n + 1
      BY <1>7, <2>1
    <3>2. i = p \/ Before(l[p], l[i])
      BY <1>6, <1>7, <2>1, <3>1
    <3> QED BY <1>2, <1>6, <1>7, <3>1, <3>2 DEF Before
  <2> QED BY <2>1
<1>9. PICK t : t = listeners'
  OBVIOUS
<1>10. /\ t \in Seq(Nat) /\ DOMAIN t = 1..(n + 1)
       /\ \A i \in 1..(n + 1) : t[i] = IF i < p THEN l[i] ELSE IF i = p THEN m + 1 ELSE l[i - 1]
  <2>1. l \in Seq(Nat) /\ n = Len(l) /\ m + 1 \in Nat /\ t = InsertAt(l, p, m + 1)
    BY <1>1, <1>4, <1>9, <1>15 DEF Typed
  <2>2. p \in 1..(n + 1)
    BY <1>7
  <2>3. /\ t \in Seq(Nat) /\ Len(t) = n + 1 /\ DOMAIN t = 1..(n + 1)
        /\ \A i \in 1..(n + 1) : t[i] = IF i < p THEN l[i] ELSE IF i = p THEN m + 1 ELSE l[i - 1]
    <3>1. Inserted(t, l, n, p, m + 1)
      BY <2>1, <2>2, Inserts
    <3> QED BY <3>1 DEF Inserted
  <2> QED BY <2>3
<1>16. \A i \in 1..(n + 1) : i > p => t[i] = l[i - 1]
  <2>1. \A i \in 1..(n + 1) : i > p => ~(i < p) /\ i # p
    BY <1>7
  <2> QED BY <1>10, <2>1
<1>11. Sorted'
  <2>1. \A a, b \in 1..m : Before(a, b) => Before(a, b)'
    BY <1>5 DEF Before
  <2>5. \A i \in 1..n : subscriptions'[l[i]].priority = subscriptions[l[i]].priority /\ subscriptions'[m + 1].priority = priority
    BY <1>5, <1>6
  <2>2. \A i \in 1..n : i < p => Before(l[i], m + 1)'
    <3>1. \A i \in 1..n : l[i] < m + 1 /\ l[i] \in Nat /\ m + 1 \in Nat
      BY <1>6
    <3> QED BY <1>2, <1>5, <1>6, <1>7, <2>5, <3>1 DEF Before
  <2>3. \A i \in p..n : Before(m + 1, l[i])'
    <3>1. \A i \in p..n : i \in 1..n
      BY <1>7
    <3>2. \A i \in p..n : l[i] < m + 1 /\ l[i] \in Nat /\ m + 1 \in Nat
      BY <1>6, <3>1
    <3> QED BY <1>2, <1>5, <1>6, <1>8, <2>5, <3>1, <3>2 DEF Before
  <2>4. ASSUME NEW i \in 1..(n + 1), NEW k \in 1..(n + 1), i < k PROVE Before(t[i], t[k])'
    <3>1. CASE k < p
      <4>1. i \in 1..n /\ k \in 1..n /\ i < p
        BY <1>7, <2>4, <3>1
      <4>2. t[i] = l[i] /\ t[k] = l[k]
        BY <1>10, <3>1, <4>1
      <4> QED BY <1>6, <2>1, <2>4, <4>1, <4>2
    <3>2. CASE k = p
      <4>1. i \in 1..n /\ i < p /\ t[i] = l[i] /\ t[k] = m + 1
        BY <1>7, <1>10, <2>4, <3>2
      <4> QED BY <2>2, <4>1
    <3>3. CASE k > p /\ i < p
      <4>1. i \in 1..n /\ k - 1 \in 1..n /\ i < k - 1 /\ t[i] = l[i] /\ t[k] = l[k - 1]
        BY <1>7, <1>10, <2>4, <3>3
      <4> QED BY <1>6, <2>1, <4>1
    <3>4. CASE k > p /\ i = p
      <4>1. k - 1 \in p..n /\ t[i] = m + 1 /\ t[k] = l[k - 1]
        BY <1>7, <1>10, <2>4, <3>4
      <4> QED BY <2>3, <4>1
    <3>5. CASE i > p
      <4>1. i - 1 \in 1..n /\ k - 1 \in 1..n /\ i - 1 < k - 1
        BY <1>7, <2>4, <3>5
      <4>2. t[i] = l[i - 1] /\ t[k] = l[k - 1]
        BY <1>7, <1>16, <2>4, <3>5
      <4> QED BY <1>6, <2>1, <4>1, <4>2
    <3> QED BY <1>7, <2>4, <3>1, <3>2, <3>3, <3>4, <3>5
  <2> QED BY <1>9, <1>10, <2>4 DEF Sorted
<1>12. ToSet(l) \subseteq ToSet(t) /\ m + 1 \in ToSet(t)
  <2>1. ASSUME NEW i \in 1..n PROVE l[i] \in ToSet(t)
    <3>1. CASE i < p
      <4>1. i \in DOMAIN t /\ t[i] = l[i]
        BY <1>7, <1>10, <3>1
      <4> QED BY <4>1 DEF ToSet
    <3>2. CASE i >= p
      <4>1. i + 1 \in DOMAIN t /\ t[i + 1] = l[i]
        BY <1>7, <1>10, <3>2
      <4> QED BY <4>1 DEF ToSet
    <3> QED BY <1>7, <3>1, <3>2
  <2>2. p \in DOMAIN t /\ t[p] = m + 1
    BY <1>7, <1>10
  <2> QED BY <1>1, <1>15, <2>1, <2>2 DEF ToSet
<1>13. ToSet(t) \subseteq DOMAIN subscriptions'
  <2>1. ASSUME NEW i \in 1..(n + 1) PROVE t[i] \in 1..(m + 1)
    <3>1. i < p => i \in 1..n
      BY <1>7
    <3>2. i > p => i - 1 \in 1..n
      BY <1>7
    <3>3. CASE i < p
      BY <1>6, <1>10, <3>1, <3>3
    <3>4. CASE i = p
      BY <1>10, <3>4
    <3>5. CASE i > p
      BY <1>6, <1>16, <3>2, <3>5
    <3> QED BY <1>7, <3>3, <3>4, <3>5
  <2> QED BY <1>5, <1>10, <2>1 DEF ToSet
<1>14. active' \subseteq ToSet(t) /\ active' \subseteq Nat
  BY <1>4, <1>12, <1>15 DEF ListOK, Typed
<1> QED BY <1>5, <1>9, <1>10, <1>11, <1>12, <1>13, <1>14, <1>15 DEF ListOK

LEMMA SameList ==
    ASSUME ListOK, UNCHANGED <<subscriptions, listeners>>, active' \subseteq active
    PROVE  ListOK'
<1>1. Sorted'
  BY DEF ListOK, Sorted, Before
<1> QED BY <1>1 DEF ListOK

-----------------------------------------------------------------------------
(* What a call, a return and a step of the innermost call do to the stack.   *)

LEMMA PushIs ==
    ASSUME Typed, NEW f \in Frame, frames' = Append(frames, f)
    PROVE  \E n \in Nat : /\ n = Len(frames) /\ DOMAIN frames = 1..n /\ Keeps(n)
                          /\ frames' \in Seq(Frame) /\ Len(frames') = n + 1 /\ DOMAIN frames' = 1..(n + 1) /\ frames'[n + 1] = f
<1>1. PICK n \in Nat : n = Len(frames) /\ DOMAIN frames = 1..n /\ frames \in Seq(Frame)
  BY Stack DEF Typed
<1>2. PICK t : t = frames'
  OBVIOUS
<1>3. t \in Seq(Frame) /\ Len(t) = n + 1 /\ DOMAIN t = 1..(n + 1) /\ t[n + 1] = f /\ \A i \in 1..n : t[i] = frames[i]
  BY <1>1, <1>2, Pushes
<1> QED BY <1>1, <1>2, <1>3 DEF Keeps

LEMMA ReplaceIs ==
    ASSUME Typed, frames # <<>>, NEW f \in Frame, Replace(f)
    PROVE  \E n \in Nat \ {0} : /\ n = Len(frames) /\ DOMAIN frames = 1..n /\ Keeps(n - 1) /\ Top = frames[n] /\ Top \in Frame
                                /\ frames' \in Seq(Frame) /\ Len(frames') = n /\ DOMAIN frames' = 1..n /\ frames'[n] = f
<1>1. PICK n \in Nat \ {0} : n = Len(frames) /\ DOMAIN frames = 1..n /\ frames \in Seq(Frame) /\ Top = frames[n] /\ Top \in Frame
  BY DEF Typed, Top, Last
<1>2. PICK t : t = frames'
  OBVIOUS
<1>3. t \in Seq(Frame) /\ Len(t) = n /\ DOMAIN t = 1..n /\ t[n] = f /\ \A i \in 1..(n - 1) : t[i] = frames[i]
  <2>1. PICK u : u = Front(frames)
    OBVIOUS
  <2>2. u \in Seq(Frame) /\ Len(u) = n - 1 /\ \A i \in 1..(n - 1) : u[i] = frames[i]
    BY <1>1, <2>1, Pops
  <2>3. t = Append(u, f)
    BY <1>2, <2>1 DEF Replace
  <2>4. t \in Seq(Frame) /\ Len(t) = Len(u) + 1 /\ DOMAIN t = 1..(Len(u) + 1) /\ t[Len(u) + 1] = f /\ \A i \in 1..Len(u) : t[i] = u[i]
    BY <2>2, <2>3, Pushes
  <2>5. Len(u) + 1 = n
    BY <2>2
  <2> QED BY <2>2, <2>4, <2>5
<1> QED BY <1>1, <1>2, <1>3 DEF Keeps

LEMMA PopIs ==
    ASSUME Typed, frames # <<>>, frames' = Front(frames)
    PROVE  \E n \in Nat \ {0} : /\ n = Len(frames) /\ DOMAIN frames = 1..n /\ Keeps(n - 1) /\ Top = frames[n] /\ Top \in Frame
                                /\ frames' \in Seq(Frame) /\ Len(frames') = n - 1 /\ DOMAIN frames' = 1..(n - 1)
<1>1. PICK n \in Nat \ {0} : n = Len(frames) /\ DOMAIN frames = 1..n /\ frames \in Seq(Frame) /\ Top = frames[n] /\ Top \in Frame
  BY DEF Typed, Top, Last
<1>2. PICK t : t = frames'
  OBVIOUS
<1>3. t \in Seq(Frame) /\ Len(t) = n - 1 /\ DOMAIN t = 1..(n - 1) /\ \A i \in 1..(n - 1) : t[i] = frames[i]
  BY <1>1, <1>2, Pops
<1> QED BY <1>1, <1>2, <1>3 DEF Keeps

(* Above some depth no drain comes or goes.                                  *)
LEMMA SameDrains ==
    ASSUME Typed, NEW m \in Nat, Keeps(m), \A i \in DOMAIN frames : i > m => frames[i].op # "drain",
           \A i \in DOMAIN frames' : i > m => frames'[i].op # "drain"
    PROVE  Drains' = Drains /\ \A i \in Drains' : frames'[i] = frames[i]
<1>1. DOMAIN frames = 1..Len(frames) /\ DOMAIN frames' = 1..Len(frames') /\ Len(frames) \in Nat /\ Len(frames') \in Nat
  BY DEF Keeps, Typed
<1>2. ASSUME NEW i \in Nat PROVE i \in Drains <=> (i \in 1..m /\ frames[i].op = "drain")
  BY <1>1 DEF Drains, Keeps
<1>3. ASSUME NEW i \in Nat PROVE i \in Drains' <=> (i \in 1..m /\ frames'[i].op = "drain")
  BY <1>1 DEF Drains, Keeps
<1>4. (\A i \in Drains : i \in Nat) /\ \A i \in Drains' : i \in Nat
  BY <1>1 DEF Drains
<1> QED BY <1>2, <1>3, <1>4 DEF Keeps

(* Nothing is taken from the queue or a drain, but a drain may be left.      *)
LEMMA QueueKept ==
    ASSUME QueueInv, UNCHANGED <<events, delivered>>, Drains' \subseteq Drains, \A i \in Drains' : frames'[i] = frames[i],
           queue' = queue \/ (queue' = <<>> /\ ~open'), open' => open, thrown => thrown',
           ~open' \/ thrown' \/ \A i \in Drains \ Drains' : frames[i].rest = <<>>
    PROVE  QueueInv'
<1>1. Left' = Left
  BY DEF Left
<1>2. Pending(queue', Left)
  BY DEF QueueInv, PlacesOK, Pending, Increasing, ToSet
<1>3. \A i \in Drains' : Precedes(frames'[i].rest, queue')
  BY DEF QueueInv, PlacesOK, Precedes
<1>4. PlacesOK'
  <2>1. \A i \in Drains' : i \in Drains /\ Pending(frames'[i].rest, Left)
    BY DEF QueueInv, PlacesOK
  <2>2. \A i, k \in Drains' : i < k => Precedes(frames'[i].rest, frames'[k].rest)
    BY <2>1 DEF QueueInv, PlacesOK
  <2> QED BY <1>1, <1>2, <1>3, <2>1, <2>2 DEF PlacesOK
<1>5. AllKept'
  <2>1. SUFFICES ASSUME open', ~thrown', NEW e \in Left
                 PROVE  e \in ToSet(queue') \/ \E i \in Drains' : e \in ToSet(frames'[i].rest)
    BY <1>1 DEF AllKept
  <2>2. e \in ToSet(queue) \/ \E i \in Drains : e \in ToSet(frames[i].rest)
    BY <2>1 DEF QueueInv, AllKept
  <2>3. CASE e \in ToSet(queue)
    BY <2>1, <2>3
  <2>4. ASSUME NEW i \in Drains, e \in ToSet(frames[i].rest) PROVE \E j \in Drains' : e \in ToSet(frames'[j].rest)
    <3>1. frames[i].rest # <<>>
      BY <2>4 DEF ToSet
    <3>2. i \in Drains'
      BY <2>1, <3>1
    <3> QED BY <2>4, <3>2
  <2> QED BY <2>2, <2>3, <2>4
<1> QED BY <1>4, <1>5 DEF QueueInv

-----------------------------------------------------------------------------
(* Every step of the owner's calls keeps the invariant. *)

LEMMA DispatchKeeps == ASSUME BusInv, NEW type \in Type, Dispatch(type) PROVE BusInv'
<1> USE DEF BusInv, ListInv
<1>1. PICK f \in Frame : /\ f.op = "dispatch" /\ f.at = 0 /\ f.step = "seek"
                         /\ frames' = Append(frames, f)
  <2>1. Len(subscriptions) \in Nat
    BY DEF Typed
  <2> QED BY <2>1 DEF Dispatch, Enter, Frame, DispatchFrame
<1>2. PICK n \in Nat : /\ n = Len(frames) /\ DOMAIN frames = 1..n /\ Keeps(n) /\ frames' \in Seq(Frame)
                       /\ Len(frames') = n + 1 /\ DOMAIN frames' = 1..(n + 1) /\ frames'[n + 1] = f
  BY <1>1, PushIs
<1>3. UNCHANGED <<subscriptions, listeners, active, open, queue, producers, events, delivered, thrown, raced>> /\ UserCode /\ open
  BY DEF Dispatch, books, history
<1>4. Typed'
  BY <1>2, <1>3 DEF Typed
<1>5. StackOK' /\ WalksOK' /\ FoundOK' /\ \A op : In(op)' <=> f.op = op
  <2>1. \A i \in 1..n : frames'[i] = frames[i]
    BY <1>2 DEF Keeps
  <2> QED BY <1>1, <1>2, <1>3, <2>1, PushKeeps
<1>6. ListOK'
  BY <1>3, SameList
<1>7. ClosingOK'
  BY <1>1, <1>3, <1>5 DEF ClosingOK
<1>8. Drains' = Drains /\ \A i \in Drains' : frames'[i] = frames[i]
  <2>1. \A i \in DOMAIN frames' : i > n => i = n + 1
    BY <1>2
  <2>2. \A i \in DOMAIN frames : ~(i > n)
    BY <1>2
  <2> QED BY <1>1, <1>2, <2>1, <2>2, SameDrains
<1>9. QueueInv'
  BY <1>3, <1>8, QueueKept
<1> QED BY <1>4, <1>5, <1>6, <1>7, <1>9

LEMMA CloseKeeps == ASSUME BusInv, Close PROVE BusInv'
<1> USE DEF BusInv, ListInv
<1>1. PICK f \in Frame : f.op = "close" /\ f.step = "listeners" /\ frames' = Append(frames, f)
  BY DEF Close, Frame, CloseFrame
<1>2. PICK n \in Nat : /\ n = Len(frames) /\ DOMAIN frames = 1..n /\ Keeps(n) /\ frames' \in Seq(Frame)
                       /\ Len(frames') = n + 1 /\ DOMAIN frames' = 1..(n + 1) /\ frames'[n + 1] = f
  BY <1>1, PushIs
<1>3. UNCHANGED <<subscriptions, listeners, active, queue, producers, events, delivered, thrown, raced>> /\ UserCode /\ ~open'
  BY DEF Close, books, history
<1>4. Typed'
  BY <1>2, <1>3 DEF Typed, Close
<1>5. StackOK' /\ WalksOK' /\ FoundOK' /\ Top' = f /\ \A op : In(op)' <=> f.op = op
  <2>1. \A i \in 1..n : frames'[i] = frames[i]
    BY <1>2 DEF Keeps
  <2> QED BY <1>1, <1>2, <1>3, <2>1, PushKeeps
<1>6. ListOK'
  BY <1>3, SameList
<1>7. ClosingOK'
  BY <1>1, <1>3, <1>5 DEF ClosingOK
<1>8. Drains' = Drains /\ \A i \in Drains' : frames'[i] = frames[i]
  <2>1. \A i \in DOMAIN frames' : i > n => i = n + 1
    BY <1>2
  <2>2. \A i \in DOMAIN frames : ~(i > n)
    BY <1>2
  <2> QED BY <1>1, <1>2, <2>1, <2>2, SameDrains
<1>9. QueueInv'
  BY <1>3, <1>8, QueueKept
<1> QED BY <1>4, <1>5, <1>6, <1>7, <1>9

LEMMA FinishKeeps ==
    ASSUME BusInv, In("dispatch"), NEW m \in Nat, m < Len(frames), Keeps(m), Len(frames') = m, listeners' = Prune(frames'),
           UNCHANGED <<subscriptions, active, open, queue, producers, events, delivered, raced>>,
           thrown' \in BOOLEAN, thrown => thrown', \A i \in DOMAIN frames : i > m => frames[i].op # "drain" \/ thrown'
    PROVE  BusInv'
<1> USE DEF BusInv, ListInv
<1>1. frames' \in Seq(Frame) /\ DOMAIN frames' = 1..m /\ \A i \in 1..m : frames'[i] = frames[i]
  BY DEF Keeps
<1>2. /\ listeners' \in Seq(Nat) /\ ListOK' /\ (listeners' = listeners \/ Dispatches' = {})
      /\ active = {} /\ Dispatches' = {} => listeners' = <<>>
  BY <1>1, FinishKeepsList
<1>3. Typed'
  BY <1>1, <1>2 DEF Typed
<1>4. StackOK' /\ WalksOK' /\ FoundOK' /\ ~In("close")'
  BY <1>2, PopKeeps
<1>5. ClosingOK'
  BY <1>2, <1>4 DEF ClosingOK, In
<1>6. Drains' \subseteq Drains /\ \A i \in Drains' : frames'[i] = frames[i]
  <2>1. \A i \in 1..m : i \in DOMAIN frames
    BY DEF Typed
  <2> QED BY <1>1, <2>1 DEF Drains
<1>7. thrown' \/ Drains = Drains'
  <2>1. ASSUME ~thrown', NEW i \in Drains PROVE i \in Drains'
    <3>1. i \in DOMAIN frames /\ frames[i].op = "drain" /\ i \in Nat /\ i >= 1
      BY DEF Drains, Typed
    <3>2. i \in 1..m
      BY <2>1, <3>1
    <3> QED BY <1>1, <3>1, <3>2 DEF Drains
  <2> QED BY <1>6, <2>1
<1>8. QueueInv'
  BY <1>6, <1>7, QueueKept
<1> QED BY <1>2, <1>3, <1>4, <1>5, <1>8

(* A step of the innermost call that is none of a drain.                     *)
LEMMA StepKeeps ==
    ASSUME BusInv, frames # <<>>, NEW f \in Frame, Replace(f), f.op # "drain", Top.op = f.op, 
           f.op = "dispatch" => /\ f.at # 0 => f.at \in ToSet(listeners)
                                /\ f.step = "found" => f.at \in active' \/ raced',
           UNCHANGED <<subscriptions, listeners, open, queue, producers, events, delivered, thrown>>,
           active' \subseteq active, raced' \in BOOLEAN,
           f.op = "close" => active' = {}
    PROVE  BusInv'
<1> USE DEF BusInv, ListInv
<1>1. PICK n \in Nat \ {0} : /\ n = Len(frames) /\ DOMAIN frames = 1..n /\ Keeps(n - 1) /\ Top = frames[n] /\ Top \in Frame
                             /\ frames' \in Seq(Frame) /\ Len(frames') = n /\ DOMAIN frames' = 1..n /\ frames'[n] = f
  BY ReplaceIs
<1>2. Typed'
  BY <1>1 DEF Typed
<1>3. StackOK' /\ WalksOK' /\ FoundOK' /\ Top' = f /\ \A op : In(op)' <=> f.op = op
  BY <1>1, ReplaceKeeps
<1>4. ListOK'
  BY SameList
<1>5. Drains' = Drains /\ \A i \in Drains' : frames'[i] = frames[i]
  <2>1. n - 1 \in Nat /\ \A i \in 1..n : i > n - 1 => i = n
    BY <1>1
  <2> QED BY <1>1, <2>1, SameDrains
<1>6. Dispatches' = Dispatches
  <2>1. \A i \in 1..n : i = n \/ i \in 1..(n - 1)
    BY <1>1
  <2> QED BY <1>1, <2>1 DEF Dispatches, Keeps
<1>7. ClosingOK'
  <2>1. \A op : In(op) <=> Top.op = op
    BY DEF In
  <2> QED BY <1>3, <1>6, <2>1 DEF ClosingOK
<1>8. QueueInv'
  BY <1>5, QueueKept
<1> QED BY <1>2, <1>3, <1>4, <1>7, <1>8

(* The stack without its top, and without its two topmost.                   *)
LEMMA Fronts ==
    ASSUME Typed, frames # <<>>
    PROVE  /\ Front(frames) \in Seq(Frame)
           /\ frames' = Front(frames) => Keeps(Len(frames) - 1) /\ Len(frames') = Len(frames) - 1
           /\ Front(frames) # <<>> /\ frames' = Front(Front(frames)) => Keeps(Len(frames) - 2) /\ Len(frames') = Len(frames) - 2
           /\ Front(frames) # <<>> => Len(frames) - 2 \in Nat /\ Last(Front(frames)) = frames[Len(frames) - 1]
<1>1. PICK u : u = Front(frames)
  OBVIOUS
<1>7. PICK n \in Nat \ {0} : n = Len(frames) /\ frames \in Seq(Frame)
  BY DEF Typed
<1>2. u \in Seq(Frame) /\ Len(u) = n - 1 /\ \A i \in 1..(n - 1) : u[i] = frames[i]
  BY <1>1, <1>7, Pops
<1>3. frames' = u => Keeps(n - 1) /\ Len(frames') = n - 1
  BY <1>2, <1>7 DEF Keeps
<1>4. ASSUME u # <<>>, NEW v, v = Front(u)
      PROVE  v \in Seq(Frame) /\ Len(v) = n - 2 /\ n - 2 \in Nat /\ \A i \in 1..(n - 2) : v[i] = frames[i]
  <2>1. v \in Seq(Frame) /\ Len(v) = Len(u) - 1 /\ Len(u) \in Nat \ {0} /\ \A i \in 1..(Len(u) - 1) : v[i] = u[i]
    BY <1>2, <1>4, Pops
  <2>2. Len(u) - 1 = n - 2 /\ n - 2 \in Nat /\ \A i \in 1..(n - 2) : i \in 1..(n - 1)
    BY <1>2, <1>7, <2>1
  <2> QED BY <1>2, <1>7, <2>1, <2>2
<1>5. u # <<>> /\ frames' = Front(u) => Keeps(n - 2) /\ Len(frames') = n - 2
  <2>1. PICK v : v = Front(u)
    OBVIOUS
  <2> QED BY <1>2, <1>4, <1>7, <2>1 DEF Keeps
<1>6. u # <<>> => n - 2 \in Nat /\ Last(u) = frames[n - 1]
  <2>1. ASSUME u # <<>> PROVE n - 2 \in Nat /\ Last(u) = frames[n - 1]
    <3>1. Len(u) \in Nat \ {0}
      BY <1>2, <1>7, <2>1
    <3>2. n - 1 \in 1..(n - 1) /\ n - 2 \in Nat
      BY <1>2, <1>7, <3>1
    <3> QED BY <1>2, <3>2 DEF Last
  <2> QED BY <2>1
<1> QED BY <1>1, <1>2, <1>3, <1>5, <1>6, <1>7

LEMMA TopIs ==
    ASSUME Typed, frames # <<>>
    PROVE  \E n \in Nat \ {0} : n = Len(frames) /\ DOMAIN frames = 1..n /\ Top = frames[n] /\ Top \in Frame
  BY DEF Typed, Top, Last

(* A listener that is ahead is one of the list, and connected.               *)
LEMMA AheadIs ==
    ASSUME Typed, Ahead # {}
    PROVE  /\ Min(Ahead) \in Ahead /\ (\A i \in Ahead : Min(Ahead) <= i)
           /\ Ahead \subseteq DOMAIN listeners /\ \A i \in Ahead : listeners[i] \in active /\ listeners[i] \in ToSet(listeners)
<1>1. Len(listeners) \in Nat /\ DOMAIN listeners = 1..Len(listeners)
  BY DEF Typed
<1>2. Ahead \in SUBSET (1..Len(listeners))
  BY <1>1 DEF Ahead
<1>3. Min(Ahead) \in Ahead /\ \A i \in Ahead : Min(Ahead) <= i
  BY <1>1, <1>2, MinIs
<1> QED BY <1>3 DEF Ahead, Matches, ToSet

LEMMA SeekKeeps == ASSUME BusInv, Seek PROVE BusInv'
<1> USE DEF BusInv, ListInv
<1>1. UNCHANGED <<active, open, queue, producers, events, delivered, thrown, raced>> /\ frames # <<>> /\ In("dispatch")
  BY DEF Seek, history, AtStep, In
<1>2. PICK n \in Nat \ {0} : n = Len(frames) /\ DOMAIN frames = 1..n /\ Top = frames[n] /\ Top \in Frame
  BY <1>1, TopIs
<1>3. CASE Ahead # {} /\ Replace([Top EXCEPT !.at = listeners[Min(Ahead)], !.step = "found"]) /\ UNCHANGED books
  <2>1. PICK id : id = listeners[Min(Ahead)]
    OBVIOUS
  <2>2. id \in active /\ id \in ToSet(listeners) /\ id \in Nat
    BY <1>3, <2>1, AheadIs DEF Typed
  <2>3. PICK f \in Frame : f.op = "dispatch" /\ f.at = id /\ f.step = "found" /\ Replace(f)
    <3>1. Top \in DispatchFrame
      BY <1>1, <1>2, Frames DEF In
    <3>2. [Top EXCEPT !.at = id, !.step = "found"] \in DispatchFrame
      BY <2>2, <3>1 DEF DispatchFrame
    <3>3. [Top EXCEPT !.at = id, !.step = "found"].at = id /\ [Top EXCEPT !.at = id, !.step = "found"].step = "found"
      BY <3>1 DEF DispatchFrame
    <3> QED BY <1>3, <2>1, <3>2, <3>3 DEF Frame, DispatchFrame
  <2>4. UNCHANGED <<subscriptions, listeners>> /\ Top.op = "dispatch" /\ raced' \in BOOLEAN
    BY <1>1, <1>3 DEF books, In, Typed
  <2> QED BY <1>1, <2>2, <2>3, <2>4, StepKeeps
<1>4. CASE FinishDispatch(Front(frames))
  <2>1. frames' = Front(frames) /\ listeners' = Prune(frames') /\ UNCHANGED subscriptions
    BY <1>4 DEF FinishDispatch
  <2>2. n - 1 \in Nat /\ n - 1 < Len(frames) /\ Keeps(n - 1) /\ Len(frames') = n - 1
    BY <1>1, <1>2, <2>1, Fronts
  <2>3. \A i \in DOMAIN frames : i > n - 1 => frames[i].op # "drain"
    BY <1>1, <1>2 DEF In
  <2>4. thrown' \in BOOLEAN /\ thrown' = thrown
    BY <1>1 DEF Typed
  <2> QED BY <1>1, <2>1, <2>2, <2>3, <2>4, FinishKeeps
<1> QED BY <1>3, <1>4 DEF Seek

LEMMA CallKeeps == ASSUME BusInv, Call PROVE BusInv'
<1> USE DEF BusInv, ListInv
<1>1. /\ UNCHANGED <<subscriptions, listeners, active, open, queue, producers, events, delivered, thrown>> /\ raced' = FALSE
      /\ frames # <<>> /\ In("dispatch") /\ Top.op = "dispatch"
  BY DEF Call, books, history, AtStep, In
<1>2. PICK n \in Nat \ {0} : n = Len(frames) /\ DOMAIN frames = 1..n /\ Top = frames[n] /\ Top \in Frame
  BY <1>1, TopIs
<1>3. PICK f \in Frame : f.op = "dispatch" /\ f.at = Top.at /\ f.step = "call" /\ Replace(f)
  <2>1. Top \in DispatchFrame
    BY <1>1, <1>2, Frames
  <2>2. [Top EXCEPT !.step = "call"] \in DispatchFrame /\ [Top EXCEPT !.step = "call"].at = Top.at /\ [Top EXCEPT !.step = "call"].step = "call"
    BY <2>1 DEF DispatchFrame
  <2> QED BY <2>2 DEF Call, Frame, DispatchFrame
<1>4. f.at # 0 => f.at \in ToSet(listeners)
  BY <1>1, <1>2, <1>3 DEF WalksOK, Dispatches
<1> QED BY <1>1, <1>3, <1>4, StepKeeps

LEMMA ReturnKeeps == ASSUME BusInv, Return PROVE BusInv'
<1> USE DEF BusInv, ListInv
<1>1. /\ UNCHANGED <<active, open, queue, producers, events, delivered, thrown, raced>>
      /\ frames # <<>> /\ In("dispatch") /\ Top.op = "dispatch"
  BY DEF Return, history, AtStep, In
<1>2. PICK n \in Nat \ {0} : n = Len(frames) /\ DOMAIN frames = 1..n /\ Top = frames[n] /\ Top \in Frame
  BY <1>1, TopIs
<1>3. CASE Replace([Top EXCEPT !.step = "seek"]) /\ UNCHANGED books
  <2>1. PICK f \in Frame : f.op = "dispatch" /\ f.at = Top.at /\ f.step = "seek" /\ Replace(f)
    <3>1. Top \in DispatchFrame
      BY <1>1, <1>2, Frames
    <3>2. [Top EXCEPT !.step = "seek"] \in DispatchFrame /\ [Top EXCEPT !.step = "seek"].at = Top.at /\ [Top EXCEPT !.step = "seek"].step = "seek"
      BY <3>1 DEF DispatchFrame
    <3> QED BY <1>3, <3>2 DEF Frame, DispatchFrame
  <2>2. f.at # 0 => f.at \in ToSet(listeners)
    BY <1>1, <1>2, <2>1 DEF WalksOK, Dispatches
  <2>3. UNCHANGED <<subscriptions, listeners>> /\ raced' \in BOOLEAN
    BY <1>1, <1>3 DEF books, Typed
  <2> QED BY <1>1, <2>1, <2>2, <2>3, StepKeeps
<1>4. CASE FinishDispatch(Front(frames))
  <2>1. frames' = Front(frames) /\ listeners' = Prune(frames') /\ UNCHANGED subscriptions
    BY <1>4 DEF FinishDispatch
  <2>2. n - 1 \in Nat /\ n - 1 < Len(frames) /\ Keeps(n - 1) /\ Len(frames') = n - 1
    BY <1>1, <1>2, <2>1, Fronts
  <2>3. \A i \in DOMAIN frames : i > n - 1 => frames[i].op # "drain"
    BY <1>1, <1>2
  <2>4. thrown' \in BOOLEAN /\ thrown' = thrown
    BY <1>1 DEF Typed
  <2> QED BY <1>1, <2>1, <2>2, <2>3, <2>4, FinishKeeps
<1> QED BY <1>3, <1>4 DEF Return

LEMMA ThrowKeeps == ASSUME BusInv, Throw PROVE BusInv'
<1> USE DEF BusInv, ListInv
<1> DEFINE drained == Front(frames) # <<>> /\ Last(Front(frames)).op = "drain"
<1>1. /\ UNCHANGED <<subscriptions, active, open, queue, producers, events, delivered, raced>>
      /\ frames # <<>> /\ In("dispatch") /\ Top.op = "dispatch"
      /\ frames' = (IF drained THEN Front(Front(frames)) ELSE Front(frames))
      /\ listeners' = Prune(frames') /\ thrown' = (thrown \/ drained)
  BY DEF Throw, AtStep, In, FinishDispatch
<1>2. PICK n \in Nat \ {0} : n = Len(frames) /\ DOMAIN frames = 1..n /\ Top = frames[n] /\ Top \in Frame
  BY <1>1, TopIs
<1>3. thrown' \in BOOLEAN /\ (thrown => thrown') /\ (drained => thrown')
  BY <1>1 DEF Typed
<1>4. CASE drained
  <2>1. n - 2 \in Nat /\ n - 2 < Len(frames) /\ Keeps(n - 2) /\ Len(frames') = n - 2
    BY <1>1, <1>2, <1>4, Fronts
  <2> HIDE DEF drained
  <2> QED BY <1>1, <1>3, <1>4, <2>1, FinishKeeps
<1>5. CASE ~drained
  <2>1. n - 1 \in Nat /\ n - 1 < Len(frames) /\ Keeps(n - 1) /\ Len(frames') = n - 1
    BY <1>1, <1>2, <1>5, Fronts
  <2>2. \A i \in DOMAIN frames : i > n - 1 => frames[i].op # "drain"
    BY <1>1, <1>2
  <2> HIDE DEF drained
  <2> QED BY <1>1, <1>3, <2>1, <2>2, FinishKeeps
<1> QED BY <1>4, <1>5

LEMMA CloseListenersKeeps == ASSUME BusInv, CloseListeners PROVE BusInv'
<1> USE DEF BusInv, ListInv
<1>1. /\ UNCHANGED <<subscriptions, listeners, open, queue, producers, events, delivered, thrown, raced>> /\ active' = {}
      /\ frames # <<>> /\ Top.op = "close"
  BY DEF CloseListeners, books, history, In
<1>2. PICK n \in Nat \ {0} : n = Len(frames) /\ DOMAIN frames = 1..n /\ Top = frames[n] /\ Top \in Frame
  BY <1>1, TopIs
<1>3. PICK f \in Frame : f.op = "close" /\ Replace(f)
  <2>1. Top \in CloseFrame
    BY <1>1, <1>2, Frames
  <2>2. [Top EXCEPT !.step = "queue"] \in CloseFrame
    BY <2>1 DEF CloseFrame
  <2> QED BY <2>2 DEF CloseListeners, Frame, CloseFrame
<1>4. raced' \in BOOLEAN
  BY <1>1 DEF Typed
<1> QED BY <1>1, <1>3, <1>4, StepKeeps

LEMMA CloseQueueKeeps == ASSUME BusInv, CloseQueue PROVE BusInv'
<1> USE DEF BusInv, ListInv
<1>1. /\ UNCHANGED <<subscriptions, active, open, producers, events, delivered, thrown, raced>> /\ queue' = <<>>
      /\ frames # <<>> /\ In("close") /\ Top.op = "close" /\ Top.step = "queue" /\ frames' = Front(frames) /\ listeners' = Cleared
  BY DEF CloseQueue, history, In
<1>2. PICK n \in Nat \ {0} : /\ n = Len(frames) /\ DOMAIN frames = 1..n /\ Keeps(n - 1) /\ Top = frames[n] /\ Top \in Frame
                             /\ frames' \in Seq(Frame) /\ Len(frames') = n - 1 /\ DOMAIN frames' = 1..(n - 1)
  BY <1>1, PopIs
<1>3. ~open /\ active = {}
  BY <1>1 DEF ClosingOK
<1>4. Dispatches' = Dispatches
  <2>1. \A i \in 1..n : i = n \/ i \in 1..(n - 1)
    BY <1>2
  <2>2. \A i \in 1..(n - 1) : i \in 1..n /\ frames'[i] = frames[i]
    BY <1>2 DEF Keeps
  <2> QED BY <1>1, <1>2, <2>1, <2>2 DEF Dispatches
<1>5. listeners' = IF Dispatches = {} THEN <<>> ELSE listeners
  <2>1. Depth(frames) = 0 <=> Dispatches = {}
    BY NoDispatch DEF Dispatches, Typed
  <2> QED BY <1>1, <2>1 DEF Cleared
<1>6. Typed'
  BY <1>1, <1>2, <1>5 DEF Typed
<1>7. ListOK'
  <2>1. CASE listeners' = <<>>
    BY <1>1, <1>3, <2>1 DEF ListOK, Sorted, ToSet
  <2>2. CASE listeners' = listeners
    BY <1>1, <2>2, SameList
  <2> QED BY <1>5, <2>1, <2>2
<1>8. StackOK' /\ WalksOK' /\ FoundOK' /\ ~In("close")'
  <2>1. n - 1 \in Nat /\ n - 1 < Len(frames) /\ (listeners' = listeners \/ Dispatches' = {})
    BY <1>2, <1>4, <1>5
  <2> QED BY <1>2, <2>1, PopKeeps
<1>9. ClosingOK'
  BY <1>1, <1>3, <1>4, <1>5, <1>8 DEF ClosingOK, In
<1>10. Drains' = Drains /\ \A i \in Drains' : frames'[i] = frames[i]
  <2>1. n - 1 \in Nat /\ (\A i \in 1..n : i > n - 1 => i = n) /\ \A i \in 1..(n - 1) : ~(i > n - 1)
    BY <1>2
  <2> QED BY <1>1, <1>2, <2>1, SameDrains
<1>11. QueueInv'
  BY <1>1, <1>3, <1>10, QueueKept
<1> QED BY <1>6, <1>7, <1>8, <1>9, <1>11

-----------------------------------------------------------------------------
(* So does every step that leaves the owner's calls alone. *)

LEMMA SameFrames ==
    ASSUME BusInv, UNCHANGED frames
    PROVE  UNCHANGED <<Drains, Dispatches, Top>> /\ (\A i \in Drains' : frames'[i] = frames[i]) /\ \A op : In(op)' <=> In(op)
  BY DEF Drains, Dispatches, Top, In

LEMMA SubscribeKeeps == ASSUME BusInv, NEW kind \in Kind, NEW priority \in Priority, Subscribe(kind, priority) PROVE BusInv'
<1> USE DEF BusInv, ListInv
<1>1. UNCHANGED <<open, queue, frames, producers, events, delivered, thrown, raced>> /\ open /\ active \subseteq active'
  BY DEF Subscribe, history
<1>2. /\ subscriptions' \in Seq(Subscription) /\ listeners' \in Seq(Nat) /\ active' \subseteq Nat
      /\ ListOK' /\ ToSet(listeners) \subseteq ToSet(listeners')
  BY SubscribeKeepsList
<1>3. Typed'
  BY <1>1, <1>2 DEF Typed
<1>4. StackOK' /\ WalksOK'
  BY <1>1, <1>2, SameKeeps
<1>5. FoundOK'
  BY <1>1, SameFrames DEF FoundOK, AtStep
<1>6. ClosingOK'
  BY <1>1, SameFrames DEF ClosingOK
<1>7. QueueInv'
  BY <1>1, SameFrames, QueueKept
<1> QED BY <1>2, <1>3, <1>4, <1>5, <1>6, <1>7

(* Disconnecting, by whomever.                                               *)
LEMMA DisconnectKeeps == ASSUME BusInv, NEW id \in Listener, Disconnect(id) \/ DisconnectByOther(id) PROVE BusInv'
<1> USE DEF BusInv, ListInv
<1>1. /\ UNCHANGED <<subscriptions, listeners, open, queue, frames, producers, events, delivered, thrown>>
      /\ active' = active \ {id} /\ raced' \in BOOLEAN
  BY DEF Disconnect, DisconnectByOther, books, history, Typed
<1>2. Typed'
  BY <1>1 DEF Typed
<1>3. ListOK'
  BY <1>1, SameList
<1>4. StackOK' /\ WalksOK'
  BY <1>1, SameKeeps
<1>5. FoundOK'
  <2>1. AtStep("found") => Top.op = "dispatch" /\ frames # <<>>
    BY DEF AtStep, In
  <2>2. CASE Disconnect(id)
    <3>1. ~AtStep("found")
      <4>1. ~AtStep("found") \/ ~UserCode
        BY DEF UserCode, AtStep, In
      <4> QED BY <2>2, <4>1 DEF Disconnect
    <3> QED BY <1>1, <3>1, SameFrames DEF FoundOK, AtStep
  <2>3. CASE DisconnectByOther(id)
    BY <1>1, <2>3, SameFrames DEF FoundOK, AtStep, DisconnectByOther
  <2> QED BY <2>2, <2>3
<1>6. ClosingOK'
  BY <1>1, SameFrames DEF ClosingOK
<1>7. QueueInv'
  BY <1>1, SameFrames, QueueKept
<1> QED BY <1>2, <1>3, <1>4, <1>5, <1>6, <1>7

LEMMA TryEnqueueKeeps == ASSUME BusInv, NEW p \in Producer, NEW type \in Type, TryEnqueue(p, type) PROVE BusInv'
<1> USE DEF BusInv, ListInv
<1>1. /\ UNCHANGED <<subscriptions, listeners, active, open, queue, frames, events, delivered, thrown, raced>>
      /\ producers' = [producers EXCEPT ![p] = type]
  BY DEF TryEnqueue, books, history
<1>2. Typed'
  BY <1>1 DEF Typed
<1>3. ListOK'
  BY <1>1, SameList
<1>4. StackOK' /\ WalksOK'
  BY <1>1, SameKeeps
<1>5. FoundOK'
  BY <1>1, SameFrames DEF FoundOK, AtStep
<1>6. ClosingOK'
  BY <1>1, SameFrames DEF ClosingOK
<1>7. QueueInv'
  BY <1>1, SameFrames, QueueKept
<1> QED BY <1>2, <1>3, <1>4, <1>5, <1>6, <1>7

-----------------------------------------------------------------------------
(* Changes of the queue. *)

LEMMA Appended ==
    ASSUME NEW s \in Seq(Nat), NEW e \in Nat, NEW t, t = Append(s, e)
    PROVE  /\ t \in Seq(Nat) /\ ToSet(t) = ToSet(s) \cup {e}
           /\ (\A x \in ToSet(s) : x < e) /\ Increasing(s) => Increasing(t)
           /\ \A u : Precedes(u, s) /\ (\A x \in ToSet(u) : x < e) => Precedes(u, t)
<1>1. PICK n \in Nat : /\ n = Len(s) /\ DOMAIN s = 1..n /\ DOMAIN t = 1..(n + 1) /\ t \in Seq(Nat)
                       /\ t[n + 1] = e /\ \A i \in 1..n : t[i] = s[i]
  BY Pushes
<1>2. \A i \in 1..(n + 1) : i = n + 1 \/ i \in 1..n
  OBVIOUS
<1>3. n + 1 \in 1..(n + 1) /\ \A i \in 1..n : i \in 1..(n + 1)
  OBVIOUS
<1>4. ToSet(t) = ToSet(s) \cup {e}
  BY <1>1, <1>2, <1>3 DEF ToSet
<1>5. ASSUME \A x \in ToSet(s) : x < e, Increasing(s) PROVE Increasing(t)
  <2>1. ASSUME NEW i \in 1..(n + 1), NEW k \in 1..(n + 1), i < k PROVE t[i] < t[k]
    <3>1. i \in 1..n
      BY <2>1
    <3>2. k = n + 1 => t[i] \in ToSet(s)
      BY <1>1, <3>1 DEF ToSet
    <3> QED BY <1>1, <1>2, <1>5, <2>1, <3>1, <3>2 DEF Increasing
  <2> QED BY <1>1, <2>1 DEF Increasing
<1>6. ASSUME NEW u, Precedes(u, s), \A x \in ToSet(u) : x < e PROVE Precedes(u, t)
  <2>1. \A i \in DOMAIN u : u[i] < e
    BY <1>6 DEF ToSet
  <2> QED BY <1>1, <1>2, <1>6, <2>1 DEF Precedes
<1> QED BY <1>1, <1>4, <1>5, <1>6

(* The first of an increasing list is the least.                             *)
LEMMA TakenOff ==
    ASSUME NEW s \in Seq(Nat), s # <<>>, Increasing(s), NEW t, t = Tail(s)
    PROVE  /\ t \in Seq(Nat) /\ Increasing(t) /\ Head(s) \in Nat
           /\ Head(s) \in ToSet(s) /\ ToSet(t) = ToSet(s) \ {Head(s)} /\ \A x \in ToSet(t) : Head(s) < x
           /\ \A u : Precedes(s, u) => Precedes(t, u) /\ \A x \in ToSet(u) : Head(s) < x
           /\ \A u : Precedes(u, s) => Precedes(u, t) /\ \A x \in ToSet(u) : x < Head(s)
<1>1. PICK n \in Nat \ {0} : n = Len(s) /\ DOMAIN s = 1..n
  OBVIOUS
<1>2. /\ t \in Seq(Nat) /\ DOMAIN t = 1..(n - 1) /\ \A i \in 1..(n - 1) : t[i] = s[i + 1]
  BY <1>1
<1>3. /\ 1 \in 1..n /\ Head(s) = s[1] /\ \A i \in 1..(n - 1) : i + 1 \in 1..n /\ i + 1 > 1
  BY <1>1
<1>4. \A i \in 1..n : s[i] \in Nat /\ (i = 1 \/ (i - 1 \in 1..(n - 1) /\ s[i] = t[i - 1]))
  <2>1. \A i \in 1..n : s[i] \in Nat /\ (i = 1 \/ (i - 1 \in 1..(n - 1) /\ (i - 1) + 1 = i))
    BY <1>1
  <2> QED BY <1>2, <2>1
<1>5. Increasing(t)
  <2>1. ASSUME NEW i \in 1..(n - 1), NEW k \in 1..(n - 1), i < k PROVE t[i] < t[k]
    <3>1. i + 1 < k + 1 /\ i + 1 \in 1..n /\ k + 1 \in 1..n
      BY <2>1
    <3> QED BY <1>1, <1>2, <3>1 DEF Increasing
  <2> QED BY <1>2, <2>1 DEF Increasing
<1>6. \A i \in 1..(n - 1) : Head(s) < t[i]
  <2>1. \A i, k \in 1..n : i < k => s[i] < s[k]
    BY <1>1 DEF Increasing
  <2>2. \A i \in 1..(n - 1) : i + 1 \in 1..n /\ 1 < i + 1
    BY <1>1
  <2> QED BY <1>2, <1>3, <2>1, <2>2
<1>7. ToSet(t) = ToSet(s) \ {Head(s)}
  <2>1. ASSUME NEW x \in ToSet(t) PROVE x \in ToSet(s) /\ x # Head(s)
    <3>1. PICK i \in 1..(n - 1) : x = t[i]
      BY <1>2 DEF ToSet
    <3>2. x = s[i + 1] /\ i + 1 \in 1..n /\ Head(s) < x /\ Head(s) \in Nat /\ x \in Nat
      BY <1>2, <1>3, <1>4, <1>6, <3>1
    <3> QED BY <1>1, <3>2 DEF ToSet
  <2>2. ASSUME NEW x \in ToSet(s), x # Head(s) PROVE x \in ToSet(t)
    <3>1. PICK i \in 1..n : x = s[i]
      BY <1>1 DEF ToSet
    <3>2. i - 1 \in 1..(n - 1) /\ x = t[i - 1]
      BY <1>3, <1>4, <2>2, <3>1
    <3> QED BY <1>2, <3>2 DEF ToSet
  <2> QED BY <2>1, <2>2
<1>8. ASSUME NEW u, Precedes(s, u) PROVE Precedes(t, u) /\ \A x \in ToSet(u) : Head(s) < x
  <2>1. \A i \in 1..n, k \in DOMAIN u : s[i] < u[k]
    BY <1>1, <1>8 DEF Precedes
  <2> QED BY <1>2, <1>3, <2>1 DEF Precedes, ToSet
<1>9. ASSUME NEW u, Precedes(u, s) PROVE Precedes(u, t) /\ \A x \in ToSet(u) : x < Head(s)
  <2>1. \A i \in DOMAIN u, k \in 1..n : u[i] < s[k]
    BY <1>1, <1>9 DEF Precedes
  <2> QED BY <1>2, <1>3, <2>1 DEF Precedes, ToSet
<1>10. (\A x \in ToSet(t) : Head(s) < x) /\ Head(s) \in ToSet(s) /\ Head(s) \in Nat
  BY <1>1, <1>2, <1>3, <1>4, <1>6 DEF ToSet
<1> QED BY <1>2, <1>5, <1>7, <1>8, <1>9, <1>10

(* The numbers of the events are those from one on; the new one is greater.  *)
LEMMA AcceptKeeps ==
    ASSUME BusInv, NEW type \in Type, Accept(type), producers' \in [Producer -> Type \cup {Generic}],
           UNCHANGED <<subscriptions, listeners, active, open, frames, delivered, thrown, raced>>
    PROVE  BusInv'
<1> USE DEF BusInv, ListInv
<1>1. ListOK' /\ StackOK' /\ WalksOK'
  BY SameList, SameKeeps
<1>2. FoundOK'
  BY SameFrames DEF FoundOK, AtStep
<1>3. CASE UNCHANGED <<events, queue>>
  <2>1. Typed'
    BY <1>3 DEF Typed
  <2>2. ClosingOK'
    BY <1>3, SameFrames DEF ClosingOK
  <2>3. QueueInv'
    BY <1>3, SameFrames, QueueKept
  <2> QED BY <1>1, <1>2, <2>1, <2>2, <2>3
<1>4. CASE open /\ events' = Append(events, type) /\ queue' = Append(queue, Len(events) + 1)
  <2>1. PICK m \in Nat : /\ m = Len(events) /\ DOMAIN events = 1..m /\ queue \in Seq(Nat) /\ delivered \subseteq 1..m
                         /\ events' \in Seq(Type) /\ DOMAIN events' = 1..(m + 1)
    <3>1. PICK m \in Nat : m = Len(events) /\ DOMAIN events = 1..m /\ queue \in Seq(Nat) /\ delivered \subseteq 1..m /\ events \in Seq(Type)
      <4>1. events \in Seq(Type) /\ queue \in Seq(Nat) /\ delivered \subseteq DOMAIN events
        BY DEF Typed
      <4> QED BY <4>1
    <3>2. PICK t : t = events'
      OBVIOUS
    <3>3. t \in Seq(Type) /\ DOMAIN t = 1..(m + 1)
      BY <1>4, <3>1, <3>2, Pushes
    <3> QED BY <3>1, <3>2, <3>3
  <2>2. Left' = Left \cup {m + 1} /\ \A x \in Left : x \in Nat /\ x < m + 1
    <3>1. \A x \in 1..(m + 1) : x = m + 1 \/ x \in 1..m
      OBVIOUS
    <3>2. m + 1 \in 1..(m + 1) /\ \A x \in 1..m : x \in Nat /\ x < m + 1 /\ x \in 1..(m + 1)
      OBVIOUS
    <3> QED BY <2>1, <3>1, <3>2 DEF Left
  <2>3. PICK q : q = queue'
    OBVIOUS
  <2>4. q = Append(queue, m + 1) /\ m + 1 \in Nat
    BY <1>4, <2>1, <2>3
  <2>5. Pending(q, Left \cup {m + 1}) /\ q \in Seq(Nat) /\ ToSet(q) = ToSet(queue) \cup {m + 1}
    <3>1. Pending(queue, Left)
      BY DEF QueueInv, PlacesOK
    <3>2. (\A x \in ToSet(queue) : x < m + 1) /\ Increasing(queue)
      BY <2>2, <3>1 DEF Pending
    <3>3. q \in Seq(Nat) /\ ToSet(q) = ToSet(queue) \cup {m + 1}
      <4>1. PICK e \in Nat : e = m + 1 /\ q = Append(queue, e)
        BY <2>4
      <4>2. ToSet(q) = ToSet(queue) \cup {e}
        BY <2>1, <4>1, Appended
      <4> QED BY <2>1, <2>4, <4>1, <4>2
    <3>4. Increasing(q)
      BY <2>1, <2>4, <3>2, Appended
    <3> QED BY <3>1, <3>3, <3>4 DEF Pending
  <2>6. Drains' = Drains
    BY SameFrames
  <2>7. ASSUME NEW i \in Drains
        PROVE  Pending(frames[i].rest, Left \cup {m + 1}) /\ Precedes(frames[i].rest, q)
    <3>1. Pending(frames[i].rest, Left) /\ Precedes(frames[i].rest, queue)
      BY DEF QueueInv, PlacesOK
    <3>2. \A x \in ToSet(frames[i].rest) : x < m + 1
      BY <2>2, <3>1 DEF Pending
    <3> QED BY <2>1, <2>4, <3>1, <3>2, Appended DEF Pending
  <2>8. PlacesOK'
    BY <2>2, <2>3, <2>5, <2>6, <2>7 DEF QueueInv, PlacesOK
  <2>9. AllKept'
    BY <2>2, <2>3, <2>5, <2>6 DEF QueueInv, AllKept
  <2>10. Typed'
    BY <2>1, <2>3, <2>5 DEF Typed
  <2>11. ClosingOK'
    BY <1>4, SameFrames DEF ClosingOK
  <2> QED BY <1>1, <1>2, <2>8, <2>9, <2>10, <2>11 DEF QueueInv
<1> QED BY <1>3, <1>4 DEF Accept, Admits

LEMMA EnqueueKeeps ==
    ASSUME BusInv, (\E p \in Producer : EnqueueLocked(p)) \/ \E type \in Type : TryEnqueueByOwner(type)
    PROVE  BusInv'
<1>1. ASSUME NEW p \in Producer, EnqueueLocked(p) PROVE BusInv'
  <2>1. producers[p] \in Type /\ producers' \in [Producer -> Type \cup {Generic}]
    BY <1>1 DEF EnqueueLocked, BusInv, ListInv, Typed
  <2>2. Accept(producers[p]) /\ UNCHANGED <<subscriptions, listeners, active, open, frames, delivered, thrown, raced>>
    BY <1>1 DEF EnqueueLocked, books, history
  <2> QED BY <2>1, <2>2, AcceptKeeps
<1>2. ASSUME NEW type \in Type, TryEnqueueByOwner(type) PROVE BusInv'
  <2>1. producers' \in [Producer -> Type \cup {Generic}]
    BY <1>2 DEF TryEnqueueByOwner, BusInv, ListInv, Typed
  <2>2. Accept(type) /\ UNCHANGED <<subscriptions, listeners, active, open, frames, delivered, thrown, raced>>
    BY <1>2 DEF TryEnqueueByOwner, books, history
  <2> QED BY <2>1, <2>2, AcceptKeeps
<1> QED BY <1>1, <1>2

(* The queue becomes the innermost drain, which precedes what is queued now. *)
LEMMA DispatchQueuedKeeps == ASSUME BusInv, DispatchQueued PROVE BusInv'
<1> USE DEF BusInv, ListInv
<1>1. /\ UNCHANGED <<subscriptions, listeners, active, open, producers, events, delivered, thrown, raced>> /\ UserCode /\ open
      /\ queue' = <<>>
  BY DEF DispatchQueued, books, history
<1>2. PICK f \in Frame : f.op = "drain" /\ f.rest = queue /\ frames' = Append(frames, f)
  <2>1. queue \in Seq(Nat)
    BY DEF Typed
  <2> QED BY <2>1 DEF DispatchQueued, Taken, Frame, DrainFrame
<1>3. PICK n \in Nat : /\ n = Len(frames) /\ DOMAIN frames = 1..n /\ Keeps(n) /\ frames' \in Seq(Frame)
                       /\ Len(frames') = n + 1 /\ DOMAIN frames' = 1..(n + 1) /\ frames'[n + 1] = f
  BY <1>2, PushIs
<1>4. Typed'
  BY <1>1, <1>3 DEF Typed
<1>5. \A i \in 1..n : frames'[i] = frames[i]
  BY <1>3 DEF Keeps
<1>6. StackOK' /\ WalksOK' /\ FoundOK' /\ \A op : In(op)' <=> f.op = op
  BY <1>1, <1>2, <1>3, <1>5, PushKeeps
<1>7. ListOK' /\ ClosingOK'
  BY <1>1, <1>2, <1>6, SameList DEF ClosingOK
<1>8. /\ Drains' = Drains \cup {n + 1} /\ Drains \subseteq 1..n /\ frames'[n + 1].rest = queue
      /\ \A i \in Drains : frames'[i] = frames[i] /\ i < n + 1
  <2>1. \A i \in 1..(n + 1) : i = n + 1 \/ i \in 1..n
    BY <1>3
  <2>2. n + 1 \in 1..(n + 1) /\ \A i \in 1..n : i \in 1..(n + 1) /\ i < n + 1
    BY <1>3
  <2> QED BY <1>2, <1>3, <1>5, <2>1, <2>2 DEF Drains
<1>9. Left' = Left
  BY <1>1 DEF Left
<1>10. PlacesOK'
  <2>1. Pending(queue', Left) /\ \A s : Precedes(s, queue')
    BY <1>1 DEF Pending, Increasing, ToSet, Precedes
  <2>2. ASSUME NEW i \in Drains' PROVE Pending(frames'[i].rest, Left)
    BY <1>8 DEF QueueInv, PlacesOK
  <2>3. ASSUME NEW i \in Drains', NEW k \in Drains', i < k PROVE Precedes(frames'[i].rest, frames'[k].rest)
    <3>1. i \in Drains
      BY <1>3, <1>8, <2>3
    <3> QED BY <1>8, <2>3, <3>1 DEF QueueInv, PlacesOK
  <2> QED BY <1>9, <2>1, <2>2, <2>3 DEF PlacesOK
<1>11. AllKept'
  BY <1>1, <1>8, <1>9 DEF QueueInv, AllKept
<1> QED BY <1>4, <1>6, <1>7, <1>10, <1>11 DEF QueueInv

(* The first of a drain is no other place's.                                 *)
LEMMA DrainTakes ==
    ASSUME BusInv, In("drain"), Top.rest # <<>>
    PROVE  /\ Len(frames) \in Drains /\ Top = frames[Len(frames)] /\ Top.rest \in Seq(Nat) /\ Top \in DrainFrame
           /\ Head(Top.rest) \in Left /\ Head(Top.rest) \in DOMAIN events
           /\ \A x \in ToSet(queue) : Head(Top.rest) < x
           /\ \A i \in Drains : i # Len(frames) => i < Len(frames) /\ \A x \in ToSet(frames[i].rest) : x < Head(Top.rest)
<1> USE DEF BusInv, ListInv
<1>1. PICK n \in Nat \ {0} : n = Len(frames) /\ DOMAIN frames = 1..n /\ Top = frames[n] /\ Top \in Frame
  BY TopIs DEF In
<1>2. Top \in DrainFrame /\ Top.rest \in Seq(Nat) /\ Top.op = "drain"
  BY <1>1, Frames DEF In
<1>3. n \in Drains /\ \A i \in Drains : i # n => i < n
  BY <1>1, <1>2 DEF Drains
<1>4. PICK s \in Seq(Nat) : s = Top.rest
  BY <1>2
<1>5. Pending(s, Left) /\ Precedes(s, queue) /\ \A i \in Drains : i # n => Precedes(frames[i].rest, s)
  BY <1>1, <1>3, <1>4 DEF QueueInv, PlacesOK
<1>6. PICK h \in Nat : /\ h = Head(s) /\ h \in ToSet(s) /\ (\A x \in ToSet(queue) : h < x)
                       /\ \A u : Precedes(u, s) => \A x \in ToSet(u) : x < h
  <2>1. s # <<>> /\ Increasing(s)
    BY <1>4, <1>5 DEF Pending
  <2>2. PICK t : t = Tail(s)
    OBVIOUS
  <2>3. Head(s) \in Nat /\ Head(s) \in ToSet(s)
    BY <2>1, <2>2, TakenOff
  <2>4. \A x \in ToSet(queue) : Head(s) < x
    BY <1>5, <2>1, <2>2, TakenOff
  <2>5. \A u : Precedes(u, s) => \A x \in ToSet(u) : x < Head(s)
    BY <2>1, <2>2, TakenOff
  <2> QED BY <2>3, <2>4, <2>5
<1>7. h \in Left /\ h \in DOMAIN events
  BY <1>5, <1>6 DEF Pending, Left
<1> QED BY <1>1, <1>2, <1>3, <1>4, <1>5, <1>6, <1>7

LEMMA DrainNextKeeps == ASSUME BusInv, DrainNext PROVE BusInv'
<1> USE DEF BusInv, ListInv
<1>1. UNCHANGED <<subscriptions, listeners, active, open, queue, producers, events, thrown, raced>> /\ In("drain") /\ frames # <<>>
  BY DEF DrainNext, books, history, In
<1>2. PICK n \in Nat \ {0} : n = Len(frames) /\ DOMAIN frames = 1..n /\ Top = frames[n] /\ Top \in Frame
  BY <1>1, TopIs
<1>3. ListOK'
  BY <1>1, SameList
<1>4. CASE (Top.rest = <<>> \/ ~open) /\ frames' = Front(frames) /\ UNCHANGED delivered
  <2>1. Keeps(n - 1) /\ frames' \in Seq(Frame) /\ Len(frames') = n - 1 /\ DOMAIN frames' = 1..(n - 1) /\ n - 1 \in Nat /\ n - 1 < n
    BY <1>1, <1>2, <1>4, PopIs
  <2>2. StackOK' /\ WalksOK' /\ FoundOK' /\ ~In("close")'
    BY <1>1, <1>2, <2>1, PopKeeps
  <2>3. Typed'
    BY <1>1, <1>4, <2>1 DEF Typed
  <2>4. \A i \in 1..n : i = n \/ i \in 1..(n - 1)
    BY <1>2
  <2>5. \A i \in 1..(n - 1) : i \in 1..n /\ frames'[i] = frames[i]
    BY <1>2, <2>1 DEF Keeps
  <2>6. Dispatches' = Dispatches
    BY <1>1, <1>2, <2>1, <2>4, <2>5 DEF Dispatches, In
  <2>7. Drains' \subseteq Drains /\ Drains \ Drains' \subseteq {n} /\ \A i \in Drains' : frames'[i] = frames[i]
    BY <1>2, <2>1, <2>4, <2>5 DEF Drains
  <2>8. ClosingOK'
    BY <1>1, <2>2, <2>6 DEF ClosingOK, In
  <2>9. QueueInv'
    BY <1>1, <1>2, <1>4, <2>7, QueueKept
  <2> QED BY <1>3, <2>2, <2>3, <2>8, <2>9
<1>5. CASE /\ Top.rest # <<>> /\ open /\ delivered' = delivered \cup {Head(Top.rest)}
           /\ frames' = Append(Front(frames) \o <<[Top EXCEPT !.rest = Tail(@)]>>, Last(Enter(events[Head(Top.rest)])))
  <2>1. PICK s \in Seq(Nat), h \in Nat : s = Top.rest /\ h = Head(s) /\ h \in DOMAIN events /\ h \in Left /\ Top \in DrainFrame
    <3>1. Top.rest \in Seq(Nat) /\ Head(Top.rest) \in DOMAIN events /\ Head(Top.rest) \in Left /\ Top \in DrainFrame
      BY <1>1, <1>5, DrainTakes
    <3>2. Head(Top.rest) \in Nat
      BY <1>5, <3>1
    <3> QED BY <3>1, <3>2
  <2>2. PICK t \in Seq(Nat) : t = Tail(s)
    <3>1. s # <<>>
      BY <1>5, <2>1
    <3>2. Tail(s) \in Seq(Nat)
      BY <3>1
    <3> QED BY <3>2
  <2>3. PICK g \in Frame : g.op = "drain" /\ g.rest = t /\ g = [Top EXCEPT !.rest = Tail(@)]
    BY <2>1, <2>2 DEF Frame, DrainFrame
  <2>4. PICK f \in Frame : f.op = "dispatch" /\ f.at = 0 /\ f.step = "seek" /\ f = Last(Enter(events[h]))
    <3>1. PICK type \in Type : type = events[h]
      BY <2>1 DEF Typed
    <3>2. PICK f : f = [op |-> "dispatch", type |-> type, max |-> Len(subscriptions), at |-> 0, step |-> "seek"]
      OBVIOUS
    <3>3. Len(subscriptions) \in Nat
      BY DEF Typed
    <3>4. f \in Frame
      BY <3>2, <3>3 DEF Frame, DispatchFrame
    <3>5. PICK e : e = Enter(type)
      OBVIOUS
    <3>6. e = Append(frames, f) /\ frames \in Seq(Frame)
      BY <3>2, <3>5 DEF Enter, Typed
    <3>7. Last(e) = f
      BY <3>4, <3>6 DEF Last
    <3> QED BY <3>1, <3>2, <3>4, <3>5, <3>7
  <2>5. /\ frames' \in Seq(Frame) /\ Len(frames') = n + 1 /\ DOMAIN frames' = 1..(n + 1) /\ frames'[n + 1] = f /\ frames'[n] = g
        /\ \A i \in 1..(n - 1) : frames'[i] = frames[i]
    <3>1. PICK u : u = Front(frames)
      OBVIOUS
    <3>2. u \in Seq(Frame) /\ Len(u) = n - 1 /\ \A i \in 1..(n - 1) : u[i] = frames[i]
      <4>1. frames \in Seq(Frame)
        BY DEF Typed
      <4> QED BY <1>1, <1>2, <3>1, <4>1, Pops
    <3>3. PICK v : v = Append(u, g)
      OBVIOUS
    <3>4. /\ v \in Seq(Frame) /\ Len(v) = Len(u) + 1 /\ v[Len(u) + 1] = g /\ \A i \in 1..Len(u) : v[i] = u[i]
      BY <3>2, <3>3, Pushes
    <3>5. Len(u) + 1 = n /\ n \in 1..n /\ \A i \in 1..(n - 1) : i \in 1..n
      BY <1>2, <3>2
    <3>6. u \o <<g>> = v
      BY <3>2, <3>3
    <3>7. PICK w : w = frames'
      OBVIOUS
    <3>8. w = Append(v, f)
      BY <1>5, <2>1, <2>3, <2>4, <3>1, <3>6, <3>7
    <3>9. w \in Seq(Frame) /\ Len(w) = Len(v) + 1 /\ DOMAIN w = 1..(Len(v) + 1) /\ w[Len(v) + 1] = f /\ \A i \in 1..Len(v) : w[i] = v[i]
      BY <3>4, <3>8, Pushes
    <3> QED BY <3>2, <3>4, <3>5, <3>7, <3>9
  <2>6. Typed'
    BY <1>1, <1>5, <2>1, <2>5 DEF Typed
  <2>7. StackOK' /\ WalksOK' /\ FoundOK' /\ \A op : In(op)' <=> f.op = op
    <3>1. n \in Nat /\ frames'[n].op = "drain" /\ (f.op = "dispatch" => f.at = 0 /\ f.step # "found")
      BY <2>3, <2>4, <2>5
    <3> QED BY <1>1, <1>2, <2>5, <3>1, PushKeeps
  <2>8. ClosingOK'
    BY <1>1, <1>5, <2>4, <2>7 DEF ClosingOK
  <2>9. n \in Drains /\ (\A i \in Drains : i # n => i \in 1..(n - 1) /\ i < n /\ frames'[i] = frames[i]) /\ Drains' = Drains
    <3>1. \A i \in 1..(n + 1) : i = n + 1 \/ i = n \/ i \in 1..(n - 1)
      BY <1>2
    <3>2. n \in 1..n /\ n \in 1..(n + 1) /\ \A i \in 1..(n - 1) : i \in 1..n /\ i \in 1..(n + 1) /\ i < n
      BY <1>2
    <3>3. \A i \in 1..n : i = n \/ i \in 1..(n - 1)
      BY <1>2
    <3>4. Top.op = "drain"
      BY <1>1 DEF In
    <3>5. n \in Drains /\ \A i \in Drains : i # n => i \in 1..(n - 1) /\ i < n /\ frames'[i] = frames[i]
      BY <1>2, <2>5, <3>2, <3>3, <3>4 DEF Drains
    <3>6. Drains \subseteq Drains'
      <4>1. frames'[n].op = "drain" /\ n \in DOMAIN frames'
        BY <2>3, <2>5, <3>2
      <4>2. ASSUME NEW i \in Drains, i # n PROVE i \in DOMAIN frames' /\ frames'[i].op = "drain"
        BY <2>5, <3>2, <3>5, <4>2 DEF Drains
      <4> QED BY <4>1, <4>2 DEF Drains
    <3>7. ASSUME NEW i \in Drains' PROVE i \in Drains
      <4>1. i \in 1..(n + 1) /\ frames'[i].op = "drain"
        BY <2>5 DEF Drains
      <4>2. i # n + 1
        BY <2>4, <2>5, <4>1
      <4>3. CASE i \in 1..(n - 1)
        BY <1>2, <2>5, <3>2, <4>1, <4>3 DEF Drains
      <4> QED BY <3>1, <3>5, <4>1, <4>2, <4>3
    <3> QED BY <3>5, <3>6, <3>7
  <2>10. /\ \A x \in ToSet(queue) : h < x
         /\ \A i \in Drains : i # n => \A x \in ToSet(frames[i].rest) : x < h
    BY <1>1, <1>2, <1>5, <2>1, DrainTakes
  <2>11. Left' = Left \ {h}
    BY <1>1, <1>5, <2>1 DEF Left
  <2>12. /\ Pending(s, Left) /\ Precedes(s, queue) /\ Pending(queue, Left)
         /\ \A i \in Drains : i # n => Pending(frames[i].rest, Left) /\ Precedes(frames[i].rest, queue) /\ Precedes(frames[i].rest, s)
         /\ \A i \in Drains, k \in Drains : i < k => Precedes(frames[i].rest, frames[k].rest)
    BY <1>2, <2>1, <2>9 DEF QueueInv, PlacesOK
  <2>13. Increasing(t) /\ ToSet(t) = ToSet(s) \ {h} /\ Precedes(t, queue) /\ \A u : Precedes(u, s) => Precedes(u, t)
    <3>1. s # <<>> /\ Increasing(s)
      BY <1>5, <2>1, <2>12 DEF Pending
    <3>2. Increasing(t) /\ ToSet(t) = ToSet(s) \ {h}
      BY <2>1, <2>2, <3>1, TakenOff
    <3>3. Precedes(t, queue)
      BY <2>2, <2>12, <3>1, TakenOff
    <3>4. \A u : Precedes(u, s) => Precedes(u, t)
      BY <2>2, <3>1, TakenOff
    <3> QED BY <3>2, <3>3, <3>4
  <2>14. frames'[n].rest = t /\ frames[n].rest = s
    BY <1>2, <2>1, <2>3, <2>5
  <2>15. PlacesOK'
    <3>1. Pending(queue, Left \ {h})
      BY <2>1, <2>10, <2>12 DEF Pending
    <3>2. ASSUME NEW i \in Drains PROVE Pending(frames'[i].rest, Left \ {h}) /\ Precedes(frames'[i].rest, queue)
      <4>1. CASE i = n
        BY <2>12, <2>13, <2>14, <4>1 DEF Pending
      <4>2. CASE i # n
        <5>1. Pending(frames[i].rest, Left) /\ Precedes(frames[i].rest, queue) /\ \A x \in ToSet(frames[i].rest) : x < h
          BY <2>10, <2>12, <4>2
        <5>2. h \notin ToSet(frames[i].rest)
          <6>1. h \in Nat /\ ~(h < h)
            BY <2>1
          <6> QED BY <5>1, <6>1
        <5>3. frames'[i] = frames[i]
          BY <2>9, <4>2
        <5> QED BY <5>1, <5>2, <5>3 DEF Pending
      <4> QED BY <4>1, <4>2
    <3>3. ASSUME NEW i \in Drains, NEW k \in Drains, i < k PROVE Precedes(frames'[i].rest, frames'[k].rest)
      <4>1. i # n
        <5>1. ASSUME i = n PROVE FALSE
          <6>1. k # n /\ k < n
            BY <2>9, <3>3, <5>1
          <6> QED BY <1>2, <2>9, <3>3, <5>1, <6>1
        <5> QED BY <5>1
      <4>2. CASE k = n
        BY <2>9, <2>12, <2>13, <2>14, <4>1, <4>2
      <4>3. CASE k # n
        BY <2>9, <2>12, <3>3, <4>1, <4>3
      <4> QED BY <4>2, <4>3
    <3> QED BY <1>1, <2>9, <2>11, <3>1, <3>2, <3>3 DEF PlacesOK
  <2>16. AllKept'
    <3>1. SUFFICES ASSUME ~thrown, NEW e \in Left \ {h} PROVE e \in ToSet(queue) \/ \E i \in Drains : e \in ToSet(frames'[i].rest)
      BY <1>1, <2>9, <2>11 DEF AllKept
    <3>2. e \in ToSet(queue) \/ \E i \in Drains : e \in ToSet(frames[i].rest)
      BY <1>5, <3>1 DEF QueueInv, AllKept
    <3>3. ASSUME NEW i \in Drains, e \in ToSet(frames[i].rest) PROVE e \in ToSet(frames'[i].rest)
      <4>1. CASE i = n
        BY <2>13, <2>14, <3>3, <4>1
      <4>2. CASE i # n
        BY <2>9, <3>3, <4>2
      <4> QED BY <4>1, <4>2
    <3> QED BY <3>2, <3>3
  <2> QED BY <1>3, <2>6, <2>7, <2>8, <2>15, <2>16 DEF QueueInv
<1> QED BY <1>4, <1>5 DEF DrainNext

-----------------------------------------------------------------------------
(* The invariant and what it gives in every state. *)

LEMMA BusInit == ASSUME Init PROVE BusInv
<1>1. Len(frames) = 0 /\ DOMAIN frames = {} /\ frames = <<>>
  BY DEF Init
<1>2. Dispatches = {} /\ Drains = {} /\ ~In("close") /\ ~In("dispatch")
  BY <1>1 DEF Dispatches, Drains, In
<1>3. Typed
  <2>0. \A S : <<>> \in Seq(S)
    OBVIOUS
  <2>1. subscriptions \in Seq(Subscription) /\ listeners \in Seq(Nat) /\ active \subseteq Nat /\ open \in BOOLEAN
    BY <2>0 DEF Init
  <2>2. queue \in Seq(Nat) /\ frames \in Seq(Frame) /\ producers \in [Producer -> Type \cup {Generic}]
    <3>1. queue = <<>> /\ frames = <<>> /\ producers = [p \in Producer |-> Generic]
      BY DEF Init
    <3>2. producers \in [Producer -> Type \cup {Generic}]
      BY <3>1
    <3> QED BY <2>0, <3>1, <3>2
  <2>3. events \in Seq(Type) /\ delivered \subseteq DOMAIN events /\ thrown \in BOOLEAN /\ raced \in BOOLEAN
    BY <2>0 DEF Init
  <2> QED BY <2>1, <2>2, <2>3 DEF Typed
<1>4. ListOK
  BY DEF Init, ListOK, Sorted, ToSet
<1>5. StackOK /\ WalksOK /\ FoundOK
  BY <1>1, <1>2 DEF StackOK, WalksOK, FoundOK, AtStep
<1>6. ClosingOK
  BY <1>2 DEF Init, ClosingOK
<1>7. PlacesOK
  BY <1>2 DEF Init, PlacesOK, Pending, Increasing, ToSet
<1>8. AllKept
  BY DEF Init, AllKept, Left
<1> QED BY <1>3, <1>4, <1>5, <1>6, <1>7, <1>8 DEF BusInv, ListInv, QueueInv

LEMMA BusStutters == ASSUME BusInv, UNCHANGED vars PROVE BusInv'
<1> USE DEF BusInv, ListInv
<1>1. UNCHANGED <<subscriptions, listeners, active, open, queue, frames, producers, events, delivered, thrown, raced>>
  BY DEF vars, books, history
<1>2. Typed'
  BY <1>1 DEF Typed
<1>3. ListOK' /\ StackOK' /\ WalksOK'
  BY <1>1, SameList, SameKeeps
<1>4. FoundOK' /\ ClosingOK'
  BY <1>1, SameFrames DEF FoundOK, AtStep, ClosingOK
<1>5. QueueInv'
  BY <1>1, SameFrames, QueueKept
<1> QED BY <1>2, <1>3, <1>4, <1>5

LEMMA BusStep == ASSUME BusInv, [Next]_vars PROVE BusInv'
<1>1. ASSUME NEW kind \in Kind, NEW priority \in Priority, Subscribe(kind, priority) PROVE BusInv'
  BY <1>1, SubscribeKeeps
<1>2. ASSUME NEW id \in Listener, Disconnect(id) \/ DisconnectByOther(id) PROVE BusInv'
  BY <1>2, DisconnectKeeps
<1>3. ASSUME NEW type \in Type, Dispatch(type) PROVE BusInv'
  BY <1>3, DispatchKeeps
<1>4. ASSUME NEW type \in Type, TryEnqueueByOwner(type) PROVE BusInv'
  BY <1>4, EnqueueKeeps
<1>5. ASSUME NEW p \in Producer, NEW type \in Type, TryEnqueue(p, type) PROVE BusInv'
  BY <1>5, TryEnqueueKeeps
<1>6. ASSUME NEW p \in Producer, EnqueueLocked(p) PROVE BusInv'
  BY <1>6, EnqueueKeeps
<1>7. CASE Seek
  BY <1>7, SeekKeeps
<1>8. CASE Call
  BY <1>8, CallKeeps
<1>9. CASE Return
  BY <1>9, ReturnKeeps
<1>10. CASE Throw
  BY <1>10, ThrowKeeps
<1>11. CASE DispatchQueued
  BY <1>11, DispatchQueuedKeeps
<1>12. CASE DrainNext
  BY <1>12, DrainNextKeeps
<1>13. CASE Close
  BY <1>13, CloseKeeps
<1>14. CASE CloseListeners
  BY <1>14, CloseListenersKeeps
<1>15. CASE CloseQueue
  BY <1>15, CloseQueueKeeps
<1>16. CASE UNCHANGED vars
  BY <1>16, BusStutters
<1> QED BY <1>1, <1>2, <1>3, <1>4, <1>5, <1>6, <1>7, <1>8, <1>9, <1>10, <1>11, <1>12, <1>13, <1>14, <1>15, <1>16 DEF Next

(* The list of Event.cpp is sorted and holds whoever is connected, no call   *)
(* below the innermost one is anywhere but in a callback or a drained event, *)
(* and the queue and the drains share out one increasing list of events.     *)
THEOREM BusInvariant == Spec => []BusInv
  BY BusInit, BusStep, PTL DEF Spec

(* FinishDispatch and Close remove listeners only when no dispatch is left   *)
(* that could return to them, and Close leaves nobody behind.                *)
THEOREM TraversalsDoStay == Spec => []TraversalsStay
<1>1. ASSUME BusInv PROVE TraversalsStay
  <2>1. WalksOK /\ ListOK /\ ClosingOK
    BY <1>1 DEF BusInv, ListInv
  <2>2. ASSUME Closed PROVE active = {} /\ (Dispatches = {} => listeners = <<>>)
    <3>1. ~In("close")
      <4>1. frames # <<>> => \E i \in DOMAIN frames : Top = frames[i]
        <5>1. frames # <<>> => Len(frames) \in DOMAIN frames
          BY <1>1, TopIs DEF BusInv, ListInv
        <5> QED BY <5>1 DEF Top, Last
      <4> QED BY <2>2, <4>1 DEF Closed, In
    <3> QED BY <2>1, <2>2, <3>1 DEF ClosingOK, Closed
  <2> QED BY <2>1, <2>2 DEF TraversalsStay, WalksOK, ListOK
<1> QED BY <1>1, BusInvariant, PTL

(* What waits is in the queue or in a drain.                                 *)
LEMMA WaitingIs ==
    ASSUME Typed
    PROVE  /\ 0 \notin Drains /\ Drains \subseteq 1..Len(frames) /\ List(0) = queue /\ \A i \in Drains : List(i) = frames[i].rest
           /\ \A e : e \in Waiting <=> (e \in ToSet(queue) \/ \E i \in Drains : e \in ToSet(frames[i].rest))
<1>1. 0 \notin Drains /\ Drains \subseteq 1..Len(frames)
  BY DEF Drains, Typed
<1>2. List(0) = queue /\ \A i \in Drains : List(i) = frames[i].rest
  BY <1>1 DEF List
<1>3. \A e : e \in Waiting <=> \E i \in Places : e \in ToSet(List(i))
  BY DEF Waiting
<1> QED BY <1>1, <1>2, <1>3 DEF Places

(* TryEnqueue, DispatchQueued and Close hand each accepted event on once:    *)
(* whatever is taken, dropped or left by an exception is nowhere else.       *)
THEOREM EventsTakenOnce == Spec => []AcceptedOnce
<1>1. ASSUME BusInv PROVE AcceptedOnce
  <2>1. Typed /\ PlacesOK /\ AllKept /\ ClosingOK
    BY <1>1 DEF BusInv, ListInv, QueueInv
  <2>2. ASSUME NEW i \in Places PROVE List(i) \in Seq(Nat) /\ Pending(List(i), Left)
    <3>1. CASE i = 0
      BY <2>1, <3>1, WaitingIs DEF Typed, PlacesOK
    <3>2. CASE i \in Drains
      <4>1. frames[i] \in Frame /\ frames[i].op = "drain"
        BY <2>1, <3>2 DEF Typed, Drains
      <4>2. frames[i].rest \in Seq(Nat)
        BY <4>1, Frames
      <4> QED BY <2>1, <3>2, <4>2, WaitingIs DEF PlacesOK
    <3> QED BY <3>1, <3>2 DEF Places
  <2>3. ASSUME NEW i \in Places PROVE IsInjective(List(i)) /\ ToSet(List(i)) \cap delivered = {}
    <3>1. PICK s \in Seq(Nat) : s = List(i) /\ Pending(s, Left)
      BY <2>2
    <3>2. ASSUME NEW a \in DOMAIN s, NEW b \in DOMAIN s, a # b PROVE s[a] # s[b]
      <4>1. s[a] \in Nat /\ s[b] \in Nat /\ (a < b \/ b < a)
        BY <3>2
      <4> QED BY <3>1, <4>1 DEF Pending, Increasing
    <3>3. IsInjective(s)
      BY <3>2 DEF IsInjective
    <3> QED BY <3>1, <3>3 DEF Pending, Left
  <2>4. ASSUME NEW s \in Seq(Nat), NEW t, Precedes(s, t) PROVE ToSet(s) \cap ToSet(t) = {}
    <3>1. \A i \in DOMAIN s : s[i] \in Nat
      OBVIOUS
    <3> QED BY <2>4, <3>1 DEF Precedes, ToSet
  <2>5. ASSUME NEW i \in Places, NEW k \in Places, i < k PROVE ToSet(List(i)) \cap ToSet(List(k)) = {}
    <3>1. k \in Drains
      BY <2>1, <2>5, WaitingIs DEF Places
    <3>2. CASE i = 0
      <4>1. Precedes(List(k), List(0))
        BY <2>1, <3>1, WaitingIs DEF PlacesOK
      <4> QED BY <2>2, <2>4, <3>2, <4>1
    <3>3. CASE i \in Drains
      <4>1. Precedes(List(i), List(k))
        BY <2>1, <2>5, <3>1, <3>3, WaitingIs DEF PlacesOK
      <4> QED BY <2>2, <2>4, <4>1
    <3> QED BY <3>2, <3>3 DEF Places
  <2>6. \A i, k \in Places : i # k => ToSet(List(i)) \cap ToSet(List(k)) = {}
    <3>1. \A i \in Places : i \in Nat
      BY <2>1, WaitingIs DEF Places
    <3> QED BY <2>5, <3>1
  <2>7. Waiting \subseteq Left
    BY <2>2 DEF Waiting, Pending
  <2>8. DOMAIN events = Waiting \cup delivered \/ ~open \/ thrown
    <3>1. SUFFICES ASSUME open, ~thrown PROVE DOMAIN events = Waiting \cup delivered
      BY <2>1 DEF Typed
    <3>2. Left \subseteq Waiting
      BY <2>1, <3>1, WaitingIs DEF AllKept
    <3> QED BY <2>1, <2>7, <3>2 DEF Left, Typed
  <2>9. Closed => queue = <<>>
    <3>1. frames # <<>> => \E i \in DOMAIN frames : Top = frames[i]
      <4>1. frames # <<>> => Len(frames) \in DOMAIN frames
        BY <2>1, TopIs
      <4> QED BY <4>1 DEF Top, Last
    <3>2. Closed => ~In("close")
      BY <3>1 DEF Closed, In
    <3> QED BY <2>1, <3>2 DEF ClosingOK, Closed
  <2> QED BY <2>3, <2>6, <2>8, <2>9 DEF AcceptedOnce
<1> QED BY <1>1, BusInvariant, PTL

-----------------------------------------------------------------------------
(* Steps: what is called, and in which order. *)

(* Where a listener is in the list.                                          *)
LEMMA PositionIs ==
    ASSUME Typed, ListOK, NEW id \in ToSet(listeners)
    PROVE  Position(id) \in DOMAIN listeners /\ listeners[Position(id)] = id
<1>1. \E i \in DOMAIN listeners : listeners[i] = id
  BY DEF ToSet
<1> QED BY <1>1 DEF Position

(* What is ahead in the list is what is due by priority and registration.    *)
LEMMA AheadIsDue ==
    ASSUME Typed, ListOK, Top.at # 0 => Top.at \in ToSet(listeners)
    PROVE  /\ \A i \in Ahead : listeners[i] \in Due(Top)
           /\ \A id \in Due(Top) : \E i \in Ahead : listeners[i] = id
<1>1. \A i, k \in DOMAIN listeners : i < k => Before(listeners[i], listeners[k])
  BY DEF ListOK, Sorted
<1>2. \A i \in DOMAIN listeners : listeners[i] \in DOMAIN subscriptions /\ i \in Nat
  BY DEF ListOK, ToSet, Typed
<1>3. PICK p : p = Position(Top.at)
  OBVIOUS
<1>4. Top.at # 0 => p \in DOMAIN listeners /\ listeners[p] = Top.at
  BY <1>3, PositionIs
<1>5. ASSUME NEW i \in DOMAIN listeners, Top.at # 0 PROVE p < i <=> Before(Top.at, listeners[i])
  <2>1. p \in Nat /\ i \in Nat
    BY <1>2, <1>4, <1>5
  <2>2. CASE p < i
    BY <1>1, <1>4, <1>5, <2>2
  <2>3. CASE p = i
    <3>1. ~Before(listeners[i], listeners[i])
      BY <1>2, Precedence
    <3> QED BY <1>4, <1>5, <2>1, <2>3, <3>1
  <2>4. CASE i < p
    <3>1. Before(listeners[i], listeners[p])
      BY <1>1, <1>4, <1>5, <2>4
    <3>2. ~Before(listeners[p], listeners[i])
      BY <1>2, <1>4, <1>5, <3>1, Precedence
    <3> QED BY <1>4, <1>5, <2>1, <2>4, <3>2
  <2> QED BY <2>1, <2>2, <2>3, <2>4
<1>6. ASSUME NEW i \in DOMAIN listeners PROVE i \in Ahead <=> listeners[i] \in Due(Top)
  BY <1>3, <1>5 DEF Ahead, Due, Matches
<1>7. ASSUME NEW id \in Due(Top) PROVE \E i \in Ahead : listeners[i] = id
  <2>1. PICK i \in DOMAIN listeners : listeners[i] = id
    BY DEF Due, ListOK, ToSet
  <2> QED BY <1>6, <2>1
<1>8. Ahead \subseteq DOMAIN listeners
  BY DEF Ahead
<1> QED BY <1>6, <1>7, <1>8

LEMMA SeeksInOrder == ASSUME BusInv, Seek PROVE ListenersInOrder
<1> USE DEF BusInv, ListInv
<1>1. frames # <<>> /\ Top.op = "dispatch"
  BY DEF Seek, AtStep, In
<1>2. PICK n \in Nat \ {0} : n = Len(frames) /\ DOMAIN frames = 1..n /\ Top = frames[n] /\ Top \in Frame
  BY <1>1, TopIs
<1>3. Top.at # 0 => Top.at \in ToSet(listeners)
  BY <1>1, <1>2 DEF WalksOK, Dispatches
<1>4. CASE Ahead # {} /\ Replace([Top EXCEPT !.at = listeners[Min(Ahead)], !.step = "found"])
  <2>1. PICK m : m = Min(Ahead)
    OBVIOUS
  <2>2. m \in Ahead /\ (\A i \in Ahead : m <= i) /\ Ahead \subseteq DOMAIN listeners
    BY <1>4, <2>1, AheadIs
  <2>3. PICK id : id = listeners[m]
    OBVIOUS
  <2>4. id \in Due(Top)
    BY <1>3, <2>2, <2>3, AheadIsDue
  <2>5. ASSUME NEW other \in Due(Top) PROVE other = id \/ Before(id, other)
    <3>1. PICK i \in Ahead : listeners[i] = other
      BY <1>3, AheadIsDue
    <3>2. m \in DOMAIN listeners /\ i \in DOMAIN listeners /\ m \in Nat /\ i \in Nat /\ m <= i
      BY <2>2, <3>1 DEF Typed
    <3>3. m = i \/ m < i
      BY <3>2
    <3> QED BY <2>3, <3>1, <3>2, <3>3 DEF ListOK, Sorted
  <2>6. Len(frames') = Len(frames) /\ Last(frames').at = id
    <3>1. PICK f \in Frame : f.at = id /\ Replace(f)
      <4>1. Top \in DispatchFrame
        BY <1>1, <1>2, Frames
      <4>2. id \in Nat
        BY <2>2, <2>3 DEF Typed
      <4>3. [Top EXCEPT !.at = id, !.step = "found"] \in DispatchFrame /\ [Top EXCEPT !.at = id, !.step = "found"].at = id
        BY <4>1, <4>2 DEF DispatchFrame
      <4> QED BY <1>4, <2>1, <2>3, <4>3 DEF Frame
    <3>2. Len(frames') = n /\ frames'[n] = f
      BY <1>1, <1>2, <3>1, ReplaceIs
    <3> QED BY <1>2, <3>1, <3>2 DEF Last
  <2> QED BY <2>4, <2>5, <2>6 DEF ListenersInOrder
<1>5. CASE Ahead = {} /\ FinishDispatch(Front(frames))
  <2>1. Len(frames') = n - 1 /\ n - 1 # n
    BY <1>1, <1>2, <1>5, Fronts DEF FinishDispatch
  <2>2. Due(Top) = {}
    BY <1>3, <1>5, AheadIsDue
  <2> QED BY <1>2, <2>1, <2>2 DEF ListenersInOrder
<1> QED BY <1>4, <1>5 DEF Seek

(* While a dispatch looks for its next listener, the owner does nothing else. *)
LEMMA OnlySeek == ASSUME BusInv, [Next]_vars, AtStep("seek"), frames' # frames PROVE Seek
<1>1. frames # <<>> /\ Top.op = "dispatch" /\ Top.step = "seek"
  BY DEF AtStep, In
<1>2. ~UserCode /\ ~AtStep("found") /\ ~AtStep("call") /\ ~In("drain") /\ ~In("close")
  BY <1>1 DEF UserCode, AtStep, In
<1>3. ASSUME UNCHANGED vars PROVE FALSE
  BY <1>3 DEF vars
<1>4. ASSUME NEW kind \in Kind, NEW priority \in Priority, Subscribe(kind, priority) PROVE FALSE
  BY <1>4 DEF Subscribe
<1>5. ASSUME NEW id \in Listener, Disconnect(id) \/ DisconnectByOther(id) PROVE FALSE
  BY <1>5 DEF Disconnect, DisconnectByOther
<1>6. ASSUME NEW type \in Type, Dispatch(type) \/ TryEnqueueByOwner(type) PROVE FALSE
  BY <1>2, <1>6 DEF Dispatch, TryEnqueueByOwner
<1>7. ASSUME NEW p \in Producer, (\E type \in Type : TryEnqueue(p, type)) \/ EnqueueLocked(p) PROVE FALSE
  BY <1>7 DEF TryEnqueue, EnqueueLocked
<1>8. ASSUME Call \/ Return \/ Throw PROVE FALSE
  BY <1>2, <1>8 DEF Call, Return, Throw
<1>9. ASSUME DispatchQueued \/ DrainNext \/ Close \/ CloseListeners \/ CloseQueue PROVE FALSE
  BY <1>2, <1>9 DEF DispatchQueued, DrainNext, Close, CloseListeners, CloseQueue
<1> QED BY <1>3, <1>4, <1>5, <1>6, <1>7, <1>8, <1>9 DEF Next

LEMMA FoundIsConnected == ASSUME BusInv PROVE NotCalledAfterwards
<1> USE DEF BusInv, ListInv
<1>1. SUFFICES ASSUME NEW i \in Dispatches, frames[i].step = "found" PROVE frames[i].at \in active \/ raced
  BY DEF NotCalledAfterwards
<1>2. i \in DOMAIN frames /\ frames[i].op = "dispatch" /\ frames # <<>>
  BY DEF Dispatches
<1>3. i = Len(frames)
  BY <1>1, <1>2 DEF StackOK, Settled
<1>4. Top = frames[i]
  BY <1>2, <1>3, TopIs
<1> QED BY <1>1, <1>2, <1>4 DEF FoundOK, AtStep, In

(* Only a drain hands out queued events.                                     *)
LEMMA OnlyDrainNext == ASSUME BusInv, [Next]_vars, NEW e \in delivered' \ delivered
    PROVE In("drain") /\ Top.rest # <<>> /\ e = Head(Top.rest)
<1>1. ASSUME UNCHANGED delivered PROVE FALSE
  BY <1>1
<1>2. ASSUME UNCHANGED vars PROVE FALSE
  BY <1>1, <1>2 DEF vars
<1>3. ASSUME NEW kind \in Kind, NEW priority \in Priority, Subscribe(kind, priority) PROVE FALSE
  BY <1>1, <1>3 DEF Subscribe
<1>4. ASSUME NEW id \in Listener, Disconnect(id) \/ DisconnectByOther(id) PROVE FALSE
  BY <1>1, <1>4 DEF Disconnect, DisconnectByOther
<1>5. ASSUME NEW type \in Type, Dispatch(type) \/ TryEnqueueByOwner(type) PROVE FALSE
  BY <1>1, <1>5 DEF Dispatch, TryEnqueueByOwner
<1>6. ASSUME NEW p \in Producer, (\E type \in Type : TryEnqueue(p, type)) \/ EnqueueLocked(p) PROVE FALSE
  BY <1>1, <1>6 DEF TryEnqueue, EnqueueLocked
<1>7. ASSUME Seek \/ Call \/ Return \/ Throw PROVE FALSE
  BY <1>1, <1>7 DEF Seek, Call, Return, Throw
<1>8. ASSUME DispatchQueued \/ Close \/ CloseListeners \/ CloseQueue PROVE FALSE
  BY <1>1, <1>8 DEF DispatchQueued, Close, CloseListeners, CloseQueue
<1>9. DrainNext
  BY <1>2, <1>3, <1>4, <1>5, <1>6, <1>7, <1>8 DEF Next
<1> QED BY <1>1, <1>9 DEF DrainNext

LEMMA EarlierGone == ASSUME BusInv, [Next]_vars PROVE EventsInOrder
<1> USE DEF BusInv, ListInv
<1>1. SUFFICES ASSUME NEW e \in delivered' \ delivered, NEW m \in 1..(e - 1), m \in Waiting, ~(Cardinality(Drains) >= 2)
               PROVE  FALSE
  BY DEF EventsInOrder
<1>2. In("drain") /\ Top.rest # <<>> /\ e = Head(Top.rest)
  BY <1>1, OnlyDrainNext
<1>3. PICK n \in Nat : /\ n = Len(frames) /\ n \in Drains /\ Top = frames[n] /\ Top.rest \in Seq(Nat) /\ e \in DOMAIN events
                       /\ \A x \in ToSet(queue) : e < x
  BY <1>2, DrainTakes DEF Typed
<1>4. e \in Nat /\ m \in Nat /\ m < e
  BY <1>1, <1>3 DEF Typed
<1>5. \A i \in Drains : i = n
  <2>1. ASSUME NEW i \in Drains, i # n PROVE FALSE
    <3>1. IsFiniteSet(Drains)
      <4>1. Drains \subseteq 1..n
        BY <1>3, WaitingIs
      <4>2. IsFiniteSet(1..n)
        BY FS_Interval
      <4> QED BY <4>1, <4>2, FS_Subset
    <3>2. IsFiniteSet({n}) /\ Cardinality({n}) = 1
      BY FS_Singleton
    <3>3. IsFiniteSet({n} \cup {i}) /\ Cardinality({n} \cup {i}) = 2
      <4>1. PICK S : S = {n}
        OBVIOUS
      <4>2. IsFiniteSet(S) /\ Cardinality(S) = 1 /\ i \notin S
        BY <2>1, <3>2, <4>1
      <4>3. IsFiniteSet(S \cup {i}) /\ Cardinality(S \cup {i}) = 2
        BY <4>2, FS_AddElement
      <4> QED BY <4>1, <4>3
    <3>4. Cardinality({n} \cup {i}) <= Cardinality(Drains)
      <4>1. {n} \cup {i} \subseteq Drains
        BY <1>3
      <4> QED BY <3>1, <4>1, FS_Subset
    <3>5. Cardinality(Drains) \in Nat
      BY <3>1, FS_CardinalityType
    <3> QED BY <1>1, <3>3, <3>4, <3>5
  <2> QED BY <2>1
<1>6. m \in ToSet(queue) \/ m \in ToSet(Top.rest)
  BY <1>1, <1>3, <1>5, WaitingIs
<1>7. m \notin ToSet(queue)
  BY <1>3, <1>4
<1>8. m \notin ToSet(Top.rest)
  <2>1. PICK s \in Seq(Nat) : s = Top.rest /\ s # <<>> /\ Increasing(s)
    BY <1>2, <1>3 DEF QueueInv, PlacesOK, Pending
  <2>2. PICK t : t = Tail(s)
    OBVIOUS
  <2>3. ToSet(t) = ToSet(s) \ {e} /\ \A x \in ToSet(t) : e < x
    BY <1>2, <2>1, <2>2, TakenOff
  <2> QED BY <1>4, <2>1, <2>3
<1> QED BY <1>6, <1>7, <1>8

(* Dispatch calls its listeners by priority and registration, none that was  *)
(* disconnected, and DispatchQueued dispatches in the order of acceptance.   *)
THEOREM ListenersCalledInOrder == Spec => DeliveredInOrder
<1>1. BusInv /\ [Next]_vars => [ListenersInOrder /\ NotCalledAfterwards /\ EventsInOrder]_vars
  <2> SUFFICES ASSUME BusInv, [Next]_vars PROVE ListenersInOrder /\ NotCalledAfterwards /\ EventsInOrder
    OBVIOUS
  <2>1. ListenersInOrder
    BY OnlySeek, SeeksInOrder DEF ListenersInOrder
  <2> QED BY <2>1, FoundIsConnected, EarlierGone
<1> QED BY <1>1, BusInvariant, PTL DEF Spec, DeliveredInOrder
=============================================================================
