------------------------------ MODULE LayerProofs ------------------------------
(***************************************************************************)
(* Proofs about the layer stack, for any number of layers, of requests     *)
(* that wait and of nested callbacks: its indices stay right, each layer   *)
(* is attached and detached once, and every request takes effect.          *)
(***************************************************************************)
EXTENDS LayerProperties, SequenceTheorems, FiniteSetTheorems, TLAPS

-----------------------------------------------------------------------------
(* The inductive invariant. *)

Operation == [kind : {"add", "remove"}, id : Id]
Frame == [kind : {"existing", "insert", "remove", "stop", "update", "dispatch"}, at : Nat, id : Id, mark : Nat]

Typed ==
    /\ layers \in Seq(Id) /\ overlayStart \in Nat
    /\ pending \in Seq(Operation) /\ batch \in Seq(Operation) /\ frames \in Seq(Frame)
    /\ nextId \in 1..(MaxId + 1)
    /\ stage \in {"created", "active", "stopped"} /\ boundary \in {"none", "attach", "apply"}
    /\ failed \in BOOLEAN

(* The ids that were given to layers, each once. *)
Given == 1..(nextId - 1)
IdsOK ==
    /\ Layers \subseteq Given /\ ever \subseteq Given /\ overlays \subseteq Given
    /\ \A i, k \in DOMAIN layers : layers[i] = layers[k] => i = k

(* The outermost callback. *)
Root == frames[1]
RootIs(kinds) == frames # <<>> /\ Root.kind \in kinds

(* Every callback stands at its layer; only dispatches are nested. *)
FramesOK == \A i \in DOMAIN frames :
    /\ frames[i].at \in DOMAIN layers /\ layers[frames[i].at] = frames[i].id
    /\ frames[i].kind # "dispatch" => i = 1
    /\ frames[i].kind \in {"existing", "insert"} => frames[i].mark <= Len(pending)

(* Which callbacks run when. *)
ControlOK ==
    /\ RootIs({"existing"}) => stage = "active" /\ boundary = "attach"
    /\ RootIs({"stop"}) => stage = "stopped"
    /\ RootIs({"insert", "remove", "update", "dispatch"}) => stage = "active" /\ boundary # "attach"
    /\ boundary # "none" => stage = "active" /\ ~failed
    /\ boundary = "none" => batch = <<>>
    /\ failed => stage = "active" /\ frames = <<>>

(* What waited when a boundary began still waits until it is taken. *)
BatchWaits == boundary = "attach" =>
    Len(batch) <= Len(pending) /\ \A i \in DOMAIN batch : pending[i] = batch[i]

(* Between its attachment and its detachment a layer has its owner. *)
AttachedOK ==
    /\ attached \subseteq bound /\ bound \subseteq Layers
    /\ \A id \in bound \ attached : RootIs({"existing", "insert"}) /\ id = Root.id
    /\ RootIs({"existing", "insert"}) => Root.id \in bound /\ Root.id \notin attached \cup ever
    /\ RootIs({"remove", "stop"}) => Root.id \in attached
    /\ stage = "created" => attached = {}
    /\ stage = "stopped" => frames # <<>> \/ attached = {}
    /\ stage # "stopped" => ever \cap Layers \subseteq attached
    /\ stage = "active" /\ boundary # "attach" /\ ~failed => Layers \subseteq bound
    /\ RootIs({"stop"}) => \A i \in DOMAIN layers : layers[i] \in attached => i <= Root.at

(* The overlays begin behind overlayStart and the layer that is being put there. *)
Base == overlayStart + (IF RootIs({"insert"}) /\ Root.id \notin overlays THEN 1 ELSE 0)
OverlaysOK == Base <= Len(layers) /\ \A i \in DOMAIN layers : layers[i] \in overlays <=> i > Base

(* Requests are for layers that were given out; an addition is the first    *)
(* request for its layer, which has never been in the stack.                *)
RequestsOK(q) == \A i \in DOMAIN q :
    /\ q[i].id \in Given
    /\ q[i].kind = "add" =>
          /\ q[i].id \notin Layers \cup ever
          /\ \A k \in DOMAIN q : k # i /\ q[k].id = q[i].id => q[k].kind = "remove" /\ i < k
WaitingOK ==
    /\ RequestsOK(pending)
    /\ boundary = "apply" =>
          /\ RequestsOK(batch)
          /\ \A i \in DOMAIN batch : \A k \in DOMAIN pending :
                pending[k].kind = "add" => batch[i].id # pending[k].id

(* What the answers say will be in the stack when the requests are through. *)
Comes(id) ==
    \/ id \in Layers /\ ~(RootIs({"remove"}) /\ Root.id = id)
    \/ id \in Adds(pending) \/ (boundary = "apply" /\ id \in Adds(batch))
Goes(id) == id \in Removes(pending) \/ (boundary = "apply" /\ id \in Removes(batch))
WantedOK == ~failed /\ ~RootIs({"stop"}) =>
    \A id : id \notin repeated => (id \in wanted <=> Comes(id) /\ ~Goes(id))

LayerInv ==
    /\ Typed /\ IdsOK /\ FramesOK /\ ControlOK /\ BatchWaits
    /\ AttachedOK /\ OverlaysOK /\ WaitingOK /\ WantedOK

-----------------------------------------------------------------------------
(* Sequences. *)

(* What insertion and removal do to the positions.                           *)
Inserts(r, s, x, e) ==
    /\ Len(r) = Len(s) + 1
    /\ \A i \in 1..Len(r) : r[i] = IF i < x THEN s[i] ELSE IF i = x THEN e ELSE s[i - 1]
Drops(r, s, x) ==
    /\ Len(r) = Len(s) - 1
    /\ \A i \in 1..Len(r) : r[i] = IF i < x THEN s[i] ELSE s[i + 1]

(* InsertAt inserts.                                                         *)
LEMMA InsertAtInserts ==
    ASSUME NEW S, NEW s \in Seq(S), NEW e \in S, NEW x \in 1..(Len(s) + 1)
    PROVE  InsertAt(s, x, e) \in Seq(S) /\ Inserts(InsertAt(s, x, e), s, x, e)
<1>1. PICK n \in Nat : n = Len(s)
  OBVIOUS
<1>2. PICK a \in Seq(S) : a = SubSeq(s, 1, x - 1) /\ Len(a) = x - 1 /\ \A i \in 1..(x - 1) : a[i] = s[i]
  <2>1. SubSeq(s, 1, x - 1) \in Seq(S)
    BY <1>1
  <2>2. PICK b \in Seq(S) : b = SubSeq(s, 1, x - 1)
    BY <2>1
  <2>3. Len(b) = x - 1 /\ \A i \in 1..(x - 1) : b[i] = s[i]
    BY <1>1, <2>2
  <2> QED BY <2>2, <2>3
<1>3. PICK c \in Seq(S) : c = SubSeq(s, x, n) /\ Len(c) = n - x + 1 /\ \A i \in 1..(n - x + 1) : c[i] = s[x + i - 1]
  <2>1. SubSeq(s, x, n) \in Seq(S)
    BY <1>1
  <2>2. PICK b \in Seq(S) : b = SubSeq(s, x, n)
    BY <2>1
  <2>3. Len(b) = n - x + 1 /\ \A i \in 1..(n - x + 1) : b[i] = s[x + i - 1]
    BY <1>1, <2>2
  <2> QED BY <2>2, <2>3
<1>4. PICK d \in Seq(S) : d = a \o <<e>> /\ Len(d) = x /\ d[x] = e /\ \A i \in 1..(x - 1) : d[i] = s[i]
  <2>1. PICK u \in Seq(S) : u = Append(a, e)
    BY AppendProperties
  <2>2. u = a \o <<e>>
    BY <2>1, AppendIsConcat
  <2>3. Len(u) = x /\ u[x] = e /\ \A i \in 1..(x - 1) : u[i] = s[i]
    <3>1. Len(u) = Len(a) + 1 /\ u[Len(a) + 1] = e /\ \A i \in 1..Len(a) : u[i] = a[i]
      BY <2>1, AppendProperties
    <3>2. Len(a) + 1 = x
      BY <1>1, <1>2
    <3> QED BY <1>2, <3>1, <3>2
  <2> QED BY <2>2, <2>3
<1>5. PICK r \in Seq(S) : /\ r = d \o c /\ Len(r) = n + 1
                          /\ \A i \in 1..(n + 1) : r[i] = IF i <= x THEN d[i] ELSE c[i - x]
  <2>1. PICK r \in Seq(S) : r = d \o c
    BY ConcatProperties
  <2>2. /\ Len(r) = Len(d) + Len(c)
        /\ \A i \in 1..(Len(d) + Len(c)) : r[i] = IF i <= Len(d) THEN d[i] ELSE c[i - Len(d)]
    BY <2>1, ConcatProperties
  <2>3. Len(d) + Len(c) = n + 1
    <3>1. Len(d) = x /\ Len(c) = n - x + 1 /\ x \in Nat
      BY <1>1, <1>3, <1>4
    <3>2. x + (n - x + 1) = n + 1
      BY <1>1, <3>1
    <3> QED BY <3>1, <3>2
  <2> QED BY <1>4, <2>1, <2>2, <2>3
<1>6. \A i \in 1..(n + 1) : r[i] = IF i < x THEN s[i] ELSE IF i = x THEN e ELSE s[i - 1]
  <2> SUFFICES ASSUME NEW i \in 1..(n + 1) PROVE r[i] = IF i < x THEN s[i] ELSE IF i = x THEN e ELSE s[i - 1]
    OBVIOUS
  <2>1. CASE i <= x
    <3>1. r[i] = d[i]
      BY <1>1, <1>4, <1>5, <2>1
    <3> QED BY <1>1, <1>4, <2>1, <3>1
  <2>2. CASE i > x
    <3>1. r[i] = c[i - x]
      <4>1. ~(i <= x)
        BY <1>1, <2>2
      <4> QED BY <1>5, <4>1
    <3>2. i - x \in 1..(n - x + 1) /\ x + (i - x) - 1 = i - 1
      BY <1>1, <2>2
    <3> QED BY <1>1, <1>3, <2>2, <3>1, <3>2
  <2> QED BY <1>1, <2>1, <2>2
<1>7. InsertAt(s, x, e) = r
  BY <1>1, <1>2, <1>3, <1>4, <1>5 DEF InsertAt
<1> QED BY <1>1, <1>5, <1>6, <1>7 DEF Inserts

(* RemoveAt drops.                                                           *)
LEMMA RemoveAtDrops ==
    ASSUME NEW S, NEW s \in Seq(S), NEW x \in 1..Len(s)
    PROVE  RemoveAt(s, x) \in Seq(S) /\ Drops(RemoveAt(s, x), s, x)
<1>1. PICK n \in Nat : n = Len(s)
  OBVIOUS
<1>2. PICK a \in Seq(S) : a = SubSeq(s, 1, x - 1) /\ Len(a) = x - 1 /\ \A i \in 1..(x - 1) : a[i] = s[i]
  <2>1. SubSeq(s, 1, x - 1) \in Seq(S)
    BY <1>1
  <2>2. PICK b \in Seq(S) : b = SubSeq(s, 1, x - 1)
    BY <2>1
  <2>3. Len(b) = x - 1 /\ \A i \in 1..(x - 1) : b[i] = s[i]
    BY <1>1, <2>2
  <2> QED BY <2>2, <2>3
<1>3. PICK c \in Seq(S) : c = SubSeq(s, x + 1, n) /\ Len(c) = n - x /\ \A i \in 1..(n - x) : c[i] = s[x + i]
  <2>1. SubSeq(s, x + 1, n) \in Seq(S)
    BY <1>1
  <2>2. PICK b \in Seq(S) : b = SubSeq(s, x + 1, n)
    BY <2>1
  <2>3. Len(b) = n - x /\ \A i \in 1..(n - x) : b[i] = s[x + i]
    BY <1>1, <2>2, SMTT(30)
  <2> QED BY <2>2, <2>3
<1>4. PICK r \in Seq(S) : /\ r = a \o c /\ Len(r) = n - 1
                          /\ \A i \in 1..(n - 1) : r[i] = IF i <= x - 1 THEN a[i] ELSE c[i - (x - 1)]
  <2>1. PICK r \in Seq(S) : r = a \o c
    BY ConcatProperties
  <2>2. /\ Len(r) = Len(a) + Len(c)
        /\ \A i \in 1..(Len(a) + Len(c)) : r[i] = IF i <= Len(a) THEN a[i] ELSE c[i - Len(a)]
    BY <2>1, ConcatProperties
  <2>3. Len(a) + Len(c) = n - 1
    <3>1. Len(a) = x - 1 /\ Len(c) = n - x /\ x \in Nat
      BY <1>1, <1>2, <1>3
    <3>2. (x - 1) + (n - x) = n - 1
      BY <1>1, <3>1
    <3> QED BY <3>1, <3>2
  <2> QED BY <1>2, <2>1, <2>2, <2>3, ZenonT(40)
<1>5. \A i \in 1..(n - 1) : r[i] = IF i < x THEN s[i] ELSE s[i + 1]
  <2> SUFFICES ASSUME NEW i \in 1..(n - 1) PROVE r[i] = IF i < x THEN s[i] ELSE s[i + 1]
    OBVIOUS
  <2>1. CASE i < x
    <3>1. r[i] = a[i]
      BY <1>1, <1>2, <1>4, <2>1
    <3> QED BY <1>1, <1>2, <2>1, <3>1
  <2>2. CASE i >= x
    <3>1. r[i] = c[i - (x - 1)]
      <4>1. ~(i <= x - 1)
        BY <1>1, <2>2
      <4> QED BY <1>4, <4>1
    <3>2. i - (x - 1) \in 1..(n - x) /\ x + (i - (x - 1)) = i + 1
      BY <1>1, <2>2
    <3> QED BY <1>1, <1>3, <2>2, <3>1, <3>2
  <2> QED BY <1>1, <2>1, <2>2
<1>6. RemoveAt(s, x) = r
  BY <1>1, <1>2, <1>3, <1>4 DEF RemoveAt
<1> QED BY <1>1, <1>4, <1>5, <1>6 DEF Drops

(* r leaves elements of q out.                                               *)
Thins(r, q) == \E f \in [DOMAIN r -> DOMAIN q] :
    (\A i, k \in DOMAIN r : i < k => f[i] < f[k]) /\ \A i \in DOMAIN r : r[i] = q[f[i]]

(* The two ends of a sequence.                                               *)
LEMMA Split ==
    ASSUME NEW S, NEW q \in Seq(S), NEW n \in 0..Len(q)
    PROVE  LET a == SubSeq(q, 1, n)
               b == SubSeq(q, n + 1, Len(q))
           IN /\ a \in Seq(S) /\ Len(a) = n /\ \A i \in 1..n : a[i] = q[i]
              /\ b \in Seq(S) /\ Len(b) = Len(q) - n /\ \A i \in 1..(Len(q) - n) : b[i] = q[i + n]
              /\ Thins(a, q) /\ Thins(b, q) /\ ToSet(q) = ToSet(a) \cup ToSet(b)
              /\ \A i \in DOMAIN a : \A k \in DOMAIN b : \E l, m \in DOMAIN q : l < m /\ a[i] = q[l] /\ b[k] = q[m]
<1>1. PICK c \in Nat : c = Len(q) /\ DOMAIN q = 1..c /\ \A i \in 1..c : q[i] \in S
  BY LenProperties, ElementOfSeq
<1>2. PICK a \in Seq(S) : a = SubSeq(q, 1, n)
  <2>1. SubSeq(q, 1, n) \in Seq(S)
    BY <1>1, SubSeqProperties
  <2> QED BY <2>1
<1>3. PICK b \in Seq(S) : b = SubSeq(q, n + 1, c)
  <2>1. \A i \in (n + 1)..c : q[i] \in S
    BY <1>1
  <2>2. SubSeq(q, n + 1, c) \in Seq(S)
    BY <1>1, <2>1, SubSeqProperties
  <2> QED BY <2>2
<1>4. Len(a) = n /\ DOMAIN a = 1..n /\ \A i \in 1..n : a[i] = q[i]
  BY <1>1, <1>2
<1>5. Len(b) = c - n /\ DOMAIN b = 1..(c - n) /\ \A i \in 1..(c - n) : b[i] = q[i + n]
  <2>1. Len(b) = c - n /\ \A i \in 1..(c - n) : b[i] = q[n + 1 + i - 1]
    BY <1>1, <1>3
  <2>2. \A i \in 1..(c - n) : n + 1 + i - 1 = i + n
    BY <1>1
  <2>3. \A i \in 1..(c - n) : b[i] = q[i + n]
    BY <2>1, <2>2
  <2> QED BY <2>1, <2>3
<1>6. Thins(a, q)
  <2>1. PICK f : f = [i \in 1..n |-> i]
    OBVIOUS
  <2>2. f \in [DOMAIN a -> DOMAIN q]
    BY <1>1, <1>4, <2>1
  <2> QED BY <1>4, <2>1, <2>2 DEF Thins
<1>7. Thins(b, q)
  <2>1. PICK f : f = [i \in 1..(c - n) |-> i + n]
    OBVIOUS
  <2>2. f \in [DOMAIN b -> DOMAIN q]
    BY <1>1, <1>5, <2>1
  <2>3. \A i, k \in 1..(c - n) : i < k => f[i] < f[k]
    BY <1>1, <2>1
  <2> QED BY <1>5, <2>1, <2>2, <2>3 DEF Thins
<1>8. ToSet(q) = ToSet(a) \cup ToSet(b)
  <2>1. \A i \in 1..c : i \in 1..n \/ (i - n \in 1..(c - n) /\ (i - n) + n = i)
    BY <1>1
  <2>2. \A i \in 1..n : i \in 1..c
    BY <1>1
  <2>3. \A i \in 1..(c - n) : i + n \in 1..c
    BY <1>1
  <2>4. ToSet(q) \subseteq ToSet(a) \cup ToSet(b)
    <3> SUFFICES ASSUME NEW i \in 1..c PROVE q[i] \in ToSet(a) \cup ToSet(b)
      BY <1>1 DEF ToSet
    <3>1. CASE i \in 1..n
      BY <1>4, <3>1 DEF ToSet
    <3>2. CASE i - n \in 1..(c - n) /\ (i - n) + n = i
      <4>1. PICK k : k = i - n
        OBVIOUS
      <4> QED BY <1>5, <3>2, <4>1 DEF ToSet
    <3> QED BY <2>1, <3>1, <3>2
  <2>5. \A i \in 1..n : a[i] \in ToSet(q)
    BY <1>1, <1>4, <2>2 DEF ToSet
  <2>6. \A i \in 1..(c - n) : b[i] \in ToSet(q)
    BY <1>1, <1>5, <2>3 DEF ToSet
  <2>7. ToSet(a) \subseteq ToSet(q) /\ ToSet(b) \subseteq ToSet(q)
    BY <1>4, <1>5, <2>5, <2>6 DEF ToSet
  <2> QED BY <2>4, <2>7
<1>9. ASSUME NEW i \in DOMAIN a, NEW k \in DOMAIN b
      PROVE  \E l, m \in DOMAIN q : l < m /\ a[i] = q[l] /\ b[k] = q[m]
  <2>1. i \in DOMAIN q /\ k + n \in DOMAIN q /\ i < k + n
    BY <1>1, <1>4, <1>5
  <2> QED BY <1>4, <1>5, <2>1
<1> QED BY <1>1, <1>2, <1>3, <1>4, <1>5, <1>6, <1>7, <1>8, <1>9, SMTT(30)

(* Without its first element.                                                *)
LEMMA Tails ==
    ASSUME NEW S, NEW q \in Seq(S), q # <<>>
    PROVE  /\ Head(q) \in S /\ Head(q) = q[1] /\ 1 \in DOMAIN q
           /\ Tail(q) \in Seq(S) /\ Thins(Tail(q), q) /\ ToSet(q) = ToSet(Tail(q)) \cup {Head(q)}
           /\ \A k \in DOMAIN Tail(q) : \E m \in DOMAIN q : m > 1 /\ Tail(q)[k] = q[m]
<1>1. PICK c \in Nat \ {0} : c = Len(q) /\ DOMAIN q = 1..c
  OBVIOUS
<1>2. PICK b \in Seq(S) : b = Tail(q)
  BY HeadTailProperties
<1>3. Len(b) = c - 1 /\ DOMAIN b = 1..(c - 1) /\ \A i \in 1..(c - 1) : b[i] = q[i + 1]
  BY <1>1, <1>2
<1>4. Head(q) \in S /\ Head(q) = q[1]
  BY <1>1
<1>5. Thins(b, q)
  <2>1. PICK f : f = [i \in 1..(c - 1) |-> i + 1]
    OBVIOUS
  <2>2. f \in [DOMAIN b -> DOMAIN q]
    BY <1>1, <1>3, <2>1
  <2>3. \A i, k \in 1..(c - 1) : i < k => f[i] < f[k]
    BY <2>1
  <2> QED BY <1>3, <2>1, <2>2, <2>3 DEF Thins
<1>6. ToSet(q) = ToSet(b) \cup {q[1]}
  <2>1. \A i \in 1..c : i = 1 \/ (i - 1 \in 1..(c - 1) /\ (i - 1) + 1 = i)
    BY <1>1
  <2>2. \A i \in 1..(c - 1) : i + 1 \in 1..c
    BY <1>1
  <2>3. ToSet(q) \subseteq ToSet(b) \cup {q[1]}
    <3> SUFFICES ASSUME NEW i \in 1..c, i # 1 PROVE q[i] \in ToSet(b)
      BY <1>1 DEF ToSet
    <3>1. PICK k \in 1..(c - 1) : k + 1 = i
      BY <1>1, <2>1
    <3>2. q[i] = b[k]
      BY <1>3, <3>1
    <3> QED BY <1>3, <3>2 DEF ToSet
  <2>4. \A i \in 1..(c - 1) : b[i] \in ToSet(q)
    BY <1>1, <1>3, <2>2 DEF ToSet
  <2>5. ToSet(b) \subseteq ToSet(q)
    BY <1>3, <2>4 DEF ToSet
  <2>6. q[1] \in ToSet(q)
    BY <1>1 DEF ToSet
  <2> QED BY <2>3, <2>5, <2>6
<1>7. \A k \in 1..(c - 1) : k + 1 \in 1..c /\ k + 1 > 1 /\ b[k] = q[k + 1]
  BY <1>1, <1>3
<1> QED BY <1>1, <1>2, <1>3, <1>4, <1>5, <1>6, <1>7

(* Among any numbers there is a least one: 1..n is a strict subset of 1..m   *)
(* exactly when n < m, and that order has no infinite descent.               *)
LEMMA LeastNumber == ASSUME NEW S \in SUBSET Nat, S # {} PROVE \E n \in S : \A m \in S : n <= m
<1> DEFINE T == {1..n : n \in S}
<1>1. IsWellFoundedOn(StrictSubsetOrdering(Nat), FiniteSubsetsOf(Nat))
  BY FS_StrictSubsetOrderingWellFounded
<1>2. T \subseteq FiniteSubsetsOf(Nat) /\ T # {}
  <2>1. ASSUME NEW n \in S PROVE 1..n \in FiniteSubsetsOf(Nat)
    <3>1. IsFiniteSet(1..n)
      BY FS_Interval
    <3> QED BY <3>1 DEF FiniteSubsetsOf
  <2> QED BY <2>1
<1> HIDE DEF T
<1>3. PICK x \in T : \A y \in T : ~(<<y, x>> \in StrictSubsetOrdering(Nat))
  BY <1>1, <1>2, WFMin
<1>4. PICK n \in S : x = 1..n
  BY DEF T
<1>5. ASSUME NEW m \in S, m < n PROVE FALSE
  <2>1. 1..m \in T /\ 1..m \in SUBSET Nat /\ x \in SUBSET Nat
    BY <1>4 DEF T
  <2>2. 1..m \subseteq 1..n /\ n \in 1..n /\ n \notin 1..m
    BY <1>5
  <2>3. <<1..m, x>> \in StrictSubsetOrdering(Nat)
    BY <1>4, <2>1, <2>2, <1>2 DEF StrictSubsetOrdering
  <2> QED BY <1>3, <2>1, <2>3
<1> QED BY <1>5

(* Without one element.                                                      *)
LEMMA Without ==
    ASSUME NEW S, NEW q \in Seq(S), NEW x \in DOMAIN q
    PROVE  /\ RemoveAt(q, x) \in Seq(S) /\ Thins(RemoveAt(q, x), q)
           /\ ToSet(q) = ToSet(RemoveAt(q, x)) \cup {q[x]}
           /\ \A i \in DOMAIN RemoveAt(q, x) : \E m \in DOMAIN q : m # x /\ RemoveAt(q, x)[i] = q[m]
<1>1. PICK c \in Nat : c = Len(q) /\ DOMAIN q = 1..c
  OBVIOUS
<1>2. PICK b \in Seq(S) : b = RemoveAt(q, x) /\ Drops(b, q, x)
  BY <1>1, RemoveAtDrops
<1>3. Len(b) = c - 1 /\ DOMAIN b = 1..(c - 1) /\ \A i \in 1..(c - 1) : b[i] = q[IF i < x THEN i ELSE i + 1]
  BY <1>1, <1>2 DEF Drops
<1>4. Thins(b, q)
  <2>1. PICK f : f = [i \in 1..(c - 1) |-> IF i < x THEN i ELSE i + 1]
    OBVIOUS
  <2>2. f \in [DOMAIN b -> DOMAIN q]
    BY <1>1, <1>3, <2>1
  <2>3. \A i, k \in 1..(c - 1) : i < k => f[i] < f[k]
    BY <1>1, <2>1
  <2> QED BY <1>3, <2>1, <2>2, <2>3 DEF Thins
<1>5. ToSet(q) = ToSet(b) \cup {q[x]}
  <2>1. \A i \in 1..c : \/ i = x
                        \/ i < x /\ i \in 1..(c - 1)
                        \/ i > x /\ i - 1 \in 1..(c - 1) /\ ~(i - 1 < x) /\ (i - 1) + 1 = i
    BY <1>1
  <2>2. \A i \in 1..(c - 1) : i \in 1..c /\ i + 1 \in 1..c
    BY <1>1
  <2>3. ToSet(q) \subseteq ToSet(b) \cup {q[x]}
    <3> SUFFICES ASSUME NEW i \in 1..c PROVE q[i] \in ToSet(b) \cup {q[x]}
      BY <1>1 DEF ToSet
    <3>1. CASE i < x /\ i \in 1..(c - 1)
      BY <1>3, <3>1 DEF ToSet
    <3>2. CASE i > x /\ i - 1 \in 1..(c - 1) /\ ~(i - 1 < x) /\ (i - 1) + 1 = i
      <4>1. PICK k : k = i - 1
        OBVIOUS
      <4> QED BY <1>3, <3>2, <4>1 DEF ToSet
    <3> QED BY <2>1, <3>1, <3>2
  <2>4. \A i \in 1..(c - 1) : b[i] \in ToSet(q)
    BY <1>1, <1>3, <2>2 DEF ToSet
  <2>5. ToSet(b) \subseteq ToSet(q)
    BY <1>3, <2>4 DEF ToSet
  <2> QED BY <1>1, <2>3, <2>5 DEF ToSet
<1>6. \A i \in DOMAIN b : \E m \in DOMAIN q : m # x /\ b[i] = q[m]
  <2>1. \A i \in 1..(c - 1) : LET m == IF i < x THEN i ELSE i + 1 IN m \in 1..c /\ m # x
    BY <1>1
  <2> QED BY <1>1, <1>3, <2>1
<1> QED BY <1>2, <1>4, <1>5, <1>6

(* With one more.                                                            *)
LEMMA Appended ==
    ASSUME NEW S, NEW q \in Seq(S), NEW o \in S
    PROVE  /\ Append(q, o) \in Seq(S) /\ Len(Append(q, o)) = Len(q) + 1 /\ Append(q, o)[Len(q) + 1] = o
           /\ Append(q, o) # <<>> /\ \A i \in DOMAIN q : Append(q, o)[i] = q[i]
           /\ DOMAIN Append(q, o) = 1..(Len(q) + 1) /\ DOMAIN q = 1..Len(q) /\ Len(q) \in Nat
           /\ ToSet(Append(q, o)) = ToSet(q) \cup {o}
<1>1. PICK c \in Nat : c = Len(q) /\ DOMAIN q = 1..c
  OBVIOUS
<1>2. PICK b \in Seq(S) : b = Append(q, o)
  <2>1. Append(q, o) \in Seq(S)
    BY AppendProperties
  <2> QED BY <2>1
<1>3. Len(b) = c + 1 /\ DOMAIN b = 1..(c + 1) /\ b[c + 1] = o /\ \A i \in 1..c : b[i] = q[i]
  BY <1>1, <1>2
<1>4. b # <<>>
  BY <1>1, <1>3
<1>5. ToSet(b) = ToSet(q) \cup {o}
  <2>1. \A i \in 1..(c + 1) : i = c + 1 \/ i \in 1..c
    BY <1>1
  <2>2. \A i \in 1..c : i \in 1..(c + 1)
    BY <1>1
  <2> QED BY <1>1, <1>3, <2>1, <2>2 DEF ToSet
<1> QED BY <1>1, <1>2, <1>3, <1>4, <1>5

(* What is requested is what the requests say, in any order.                 *)
LEMMA Members ==
    ASSUME NEW q
    PROVE  \A id : /\ id \in Adds(q) <=> \E o \in ToSet(q) : o.kind = "add" /\ o.id = id
                   /\ id \in Removes(q) <=> \E o \in ToSet(q) : o.kind = "remove" /\ o.id = id
  BY DEF Adds, Removes, ToSet

Distinct(s) == \A i, k \in 1..Len(s) : s[i] = s[k] => i = k
(* The elements behind position b are those of O.                            *)
Behind(s, O, b) == b <= Len(s) /\ \A i \in 1..Len(s) : s[i] \in O <=> i > b

(* What an insertion keeps of a sequence whose elements differ and of which  *)
(* a tail belongs to a set.                                                  *)
LEMMA Grows ==
    ASSUME NEW S, NEW s \in Seq(S), NEW e \in S, NEW x \in 1..(Len(s) + 1), e \notin ToSet(s), Distinct(s)
    PROVE  LET r == InsertAt(s, x, e)
           IN /\ r \in Seq(S) /\ Len(r) = Len(s) + 1 /\ x \in DOMAIN r /\ r[x] = e /\ ToSet(r) = ToSet(s) \cup {e}
              /\ Distinct(r)
              /\ \A O : \A b \in Nat : Behind(s, O, b) =>
                    /\ e \notin O /\ x = b + 1 => Behind(r, O, b + 1)
                    /\ e \in O /\ x = Len(s) + 1 => Behind(r, O, b)
<1>1. PICK c \in Nat : c = Len(s) /\ DOMAIN s = 1..c
  OBVIOUS
<1>2. PICK r \in Seq(S) : r = InsertAt(s, x, e) /\ Inserts(r, s, x, e)
  BY InsertAtInserts
<1>3. Len(r) = c + 1 /\ DOMAIN r = 1..(c + 1) /\ \A i \in 1..(c + 1) : r[i] = IF i < x THEN s[i] ELSE IF i = x THEN e ELSE s[i - 1]
  BY <1>1, <1>2 DEF Inserts
<1>4. /\ \A i \in 1..(c + 1) : i < x => i \in 1..c /\ r[i] = s[i]
      /\ \A i \in 1..(c + 1) : i > x => i - 1 \in 1..c /\ r[i] = s[i - 1]
      /\ r[x] = e /\ x \in 1..(c + 1)
  BY <1>1, <1>3
<1>5. \A i \in 1..c : s[i] \in ToSet(s) /\ s[i] # e
  BY <1>1 DEF ToSet
<1>6. ToSet(r) = ToSet(s) \cup {e}
  <2>1. ASSUME NEW i \in 1..(c + 1) PROVE r[i] \in ToSet(s) \cup {e}
    <3>1. i < x \/ i = x \/ i > x
      BY <1>1
    <3> QED BY <1>4, <1>5, <3>1
  <2>2. ASSUME NEW i \in 1..c PROVE s[i] \in ToSet(r)
    <3>1. CASE i < x
      <4>1. i \in 1..(c + 1) /\ r[i] = s[i]
        BY <1>1, <1>4, <3>1
      <4> QED BY <1>3, <4>1 DEF ToSet
    <3>2. CASE ~(i < x)
      <4>1. PICK k \in 1..(c + 1) : k = i + 1 /\ k > x /\ k - 1 = i
        BY <1>1, <3>2
      <4>2. r[k] = s[i]
        BY <1>4, <4>1
      <4> QED BY <1>3, <4>2 DEF ToSet
    <3> QED BY <3>1, <3>2
  <2>3. e \in ToSet(r)
    BY <1>3, <1>4 DEF ToSet
  <2>4. ToSet(r) \subseteq ToSet(s) \cup {e}
    BY <1>3, <2>1 DEF ToSet
  <2>5. ToSet(s) \subseteq ToSet(r)
    BY <1>1, <2>2 DEF ToSet
  <2> QED BY <2>3, <2>4, <2>5
<1>7. Distinct(r)
  <2> SUFFICES ASSUME NEW i \in 1..(c + 1), NEW k \in 1..(c + 1), r[i] = r[k], i < k PROVE FALSE
    BY <1>3 DEF Distinct
  <2>1. CASE k < x
    BY <1>1, <1>4, <2>1 DEF Distinct
  <2>2. CASE k = x
    BY <1>1, <1>4, <1>5, <2>2
  <2>3. CASE k > x
    <3>1. CASE i < x
      BY <1>1, <1>4, <2>3, <3>1 DEF Distinct
    <3>2. CASE i = x
      BY <1>4, <1>5, <2>3, <3>2
    <3>3. CASE i > x
      BY <1>1, <1>4, <2>3, <3>3 DEF Distinct
    <3> QED BY <1>1, <3>1, <3>2, <3>3
  <2> QED BY <1>1, <2>1, <2>2, <2>3
<1>8. ASSUME NEW O, NEW b \in Nat, Behind(s, O, b)
      PROVE  /\ e \notin O /\ x = b + 1 => Behind(r, O, b + 1)
             /\ e \in O /\ x = c + 1 => Behind(r, O, b)
  <2>1. b <= c /\ \A i \in 1..c : s[i] \in O <=> i > b
    BY <1>1, <1>8 DEF Behind
  <2>2. ASSUME e \notin O, x = b + 1 PROVE Behind(r, O, b + 1)
    <3>1. \A i \in 1..(c + 1) : r[i] \in O <=> i > b + 1
      BY <1>1, <1>4, <2>1, <2>2
    <3> QED BY <1>1, <1>3, <2>1, <3>1 DEF Behind
  <2>3. ASSUME e \in O, x = c + 1 PROVE Behind(r, O, b)
    <3>1. \A i \in 1..(c + 1) : r[i] \in O <=> i > b
      BY <1>1, <1>4, <2>1, <2>3
    <3> QED BY <1>1, <1>3, <2>1, <3>1 DEF Behind
  <2> QED BY <2>2, <2>3
<1> QED BY <1>1, <1>2, <1>3, <1>4, <1>6, <1>7, <1>8

(* And what a removal keeps.                                                 *)
LEMMA Shrinks ==
    ASSUME NEW S, NEW s \in Seq(S), NEW x \in 1..Len(s), Distinct(s)
    PROVE  LET r == RemoveAt(s, x)
           IN /\ r \in Seq(S) /\ Len(r) = Len(s) - 1 /\ ToSet(r) = ToSet(s) \ {s[x]}
              /\ Distinct(r)
              /\ \A O : \A b \in Nat : Behind(s, O, b) =>
                    /\ x <= b => Behind(r, O, b - 1)
                    /\ x > b => Behind(r, O, b)
<1>1. PICK c \in Nat : c = Len(s) /\ DOMAIN s = 1..c
  OBVIOUS
<1>2. PICK r \in Seq(S) : r = RemoveAt(s, x) /\ Drops(r, s, x)
  BY RemoveAtDrops
<1>3. Len(r) = c - 1 /\ DOMAIN r = 1..(c - 1) /\ \A i \in 1..(c - 1) : r[i] = IF i < x THEN s[i] ELSE s[i + 1]
  BY <1>1, <1>2 DEF Drops
<1>4. /\ \A i \in 1..(c - 1) : i < x => i \in 1..c /\ r[i] = s[i]
      /\ \A i \in 1..(c - 1) : i >= x => i + 1 \in 1..c /\ r[i] = s[i + 1]
  BY <1>1, <1>3
<1>5. \A i, k \in 1..c : s[i] = s[k] => i = k
  BY <1>1 DEF Distinct
<1>6. ToSet(r) = ToSet(s) \ {s[x]}
  <2>1. ASSUME NEW i \in 1..(c - 1) PROVE r[i] \in ToSet(s) \ {s[x]}
    <3>1. CASE i < x
      <4>1. i \in 1..c /\ i # x /\ r[i] = s[i]
        BY <1>1, <1>4, <3>1
      <4> QED BY <1>1, <1>5, <4>1 DEF ToSet
    <3>2. CASE i >= x
      <4>1. PICK k \in 1..c : k # x /\ r[i] = s[k]
        BY <1>1, <1>4, <3>2
      <4> QED BY <1>1, <1>5, <4>1 DEF ToSet
    <3> QED BY <1>1, <3>1, <3>2
  <2>2. ASSUME NEW i \in 1..c, i # x PROVE s[i] \in ToSet(r)
    <3>1. CASE i < x
      <4>1. i \in 1..(c - 1) /\ r[i] = s[i]
        BY <1>1, <1>4, <3>1
      <4> QED BY <1>3, <4>1 DEF ToSet
    <3>2. CASE i > x
      <4>1. PICK k \in 1..(c - 1) : k + 1 = i /\ k >= x
        BY <1>1, <3>2
      <4>2. r[k] = s[i]
        BY <1>4, <4>1
      <4> QED BY <1>3, <4>2 DEF ToSet
    <3> QED BY <1>1, <2>2, <3>1, <3>2
  <2>3. ToSet(r) \subseteq ToSet(s) \ {s[x]}
    BY <1>3, <2>1 DEF ToSet
  <2>4. ToSet(s) \ {s[x]} \subseteq ToSet(r)
    BY <1>1, <2>2 DEF ToSet
  <2> QED BY <2>3, <2>4
<1>7. Distinct(r)
  <2> SUFFICES ASSUME NEW i \in 1..(c - 1), NEW k \in 1..(c - 1), r[i] = r[k], i < k PROVE FALSE
    BY <1>3 DEF Distinct
  <2>1. CASE k < x
    BY <1>1, <1>4, <1>5, <2>1
  <2>2. CASE k >= x
    <3>1. CASE i < x
      BY <1>1, <1>4, <1>5, <2>2, <3>1
    <3>2. CASE i >= x
      BY <1>1, <1>4, <1>5, <2>2, <3>2
    <3> QED BY <1>1, <3>1, <3>2
  <2> QED BY <1>1, <2>1, <2>2
<1>8. ASSUME NEW O, NEW b \in Nat, Behind(s, O, b)
      PROVE  /\ x <= b => Behind(r, O, b - 1)
             /\ x > b => Behind(r, O, b)
  <2>1. b <= c /\ \A i \in 1..c : s[i] \in O <=> i > b
    BY <1>1, <1>8 DEF Behind
  <2>2. ASSUME x <= b PROVE Behind(r, O, b - 1)
    <3>1. \A i \in 1..(c - 1) : r[i] \in O <=> i > b - 1
      BY <1>1, <1>4, <2>1, <2>2
    <3> QED BY <1>1, <1>3, <2>1, <3>1 DEF Behind
  <2>3. ASSUME x > b PROVE Behind(r, O, b)
    <3>1. \A i \in 1..(c - 1) : r[i] \in O <=> i > b
      BY <1>1, <1>4, <2>1, <2>3
    <3> QED BY <1>1, <1>3, <2>1, <2>3, <3>1 DEF Behind
  <2> QED BY <2>2, <2>3
<1> QED BY <1>1, <1>2, <1>3, <1>6, <1>7, <1>8

(* Without its last element.                                                 *)
LEMMA Fronts ==
    ASSUME NEW S, NEW q \in Seq(S), q # <<>>
    PROVE  /\ Len(q) \in Nat \ {0} /\ DOMAIN q = 1..Len(q)
           /\ Last(q) \in S /\ Last(q) = q[Len(q)]
           /\ Front(q) \in Seq(S) /\ Len(Front(q)) = Len(q) - 1 /\ \A i \in 1..(Len(q) - 1) : Front(q)[i] = q[i]
           /\ Len(q) = 1 => Front(q) = <<>>
<1>1. PICK c \in Nat \ {0} : c = Len(q) /\ DOMAIN q = 1..c /\ \A i \in 1..c : q[i] \in S
  <2>1. Len(q) \in Nat \ {0} /\ DOMAIN q = 1..Len(q)
    OBVIOUS
  <2> QED BY <2>1, LenProperties, ElementOfSeq
<1>2. PICK a \in Seq(S) : a = SubSeq(q, 1, c - 1)
  <2>1. \A i \in 1..(c - 1) : q[i] \in S
    BY <1>1
  <2>2. SubSeq(q, 1, c - 1) \in Seq(S)
    BY <1>1, <2>1, SubSeqProperties
  <2> QED BY <2>2
<1>3. Len(a) = c - 1 /\ \A i \in 1..(c - 1) : a[i] = q[i]
  BY <1>1, <1>2
<1>4. Front(q) = a
  BY <1>1, <1>2 DEF Front
<1>5. c = 1 => a = <<>>
  BY <1>1, <1>3
<1> QED BY <1>1, <1>3, <1>4, <1>5 DEF Last

(* A thinner sequence of requests is as good as the whole.                   *)
LEMMA ThinsRequests ==
    ASSUME NEW r \in Seq(Operation), NEW q \in Seq(Operation), Thins(r, q), RequestsOK(q)
    PROVE  RequestsOK(r)
<1>1. PICK f \in [DOMAIN r -> DOMAIN q] :
         (\A i, k \in DOMAIN r : i < k => f[i] < f[k]) /\ \A i \in DOMAIN r : r[i] = q[f[i]]
  BY DEF Thins
<1>2. DOMAIN r \subseteq Nat /\ DOMAIN q \subseteq Nat
  BY LenProperties
<1>3. ASSUME NEW i \in DOMAIN r, r[i].kind = "add", NEW k \in DOMAIN r, k # i, r[k].id = r[i].id
      PROVE  r[k].kind = "remove" /\ i < k
  <2>1. f[i] \in DOMAIN q /\ f[k] \in DOMAIN q /\ r[i] = q[f[i]] /\ r[k] = q[f[k]]
    BY <1>1
  <2>2. f[i] # f[k]
    <3>1. i < k \/ k < i
      BY <1>2, <1>3
    <3>2. f[i] < f[k] \/ f[k] < f[i]
      BY <1>1, <3>1
    <3> QED BY <1>2, <2>1, <3>2
  <2>3. q[f[k]].kind = "remove" /\ f[i] < f[k]
    BY <1>3, <2>1, <2>2 DEF RequestsOK
  <2>4. ~(k < i)
    BY <1>1, <1>2, <2>1, <2>3
  <2> QED BY <1>2, <1>3, <2>1, <2>3, <2>4
<1> QED BY <1>1, <1>3 DEF RequestsOK

-----------------------------------------------------------------------------
(* The state, as the steps need it. *)

(* The vector of layers.                                                     *)
LEMMA LayersFacts ==
    ASSUME LayerInv
    PROVE  /\ layers \in Seq(Id) /\ Len(layers) \in Nat /\ DOMAIN layers = 1..Len(layers)
           /\ \A i \in 1..Len(layers) : layers[i] \in Id /\ layers[i] \in Layers
           /\ Layers = ToSet(layers) /\ Distinct(layers)
           /\ Base \in Nat /\ Behind(layers, overlays, Base)
<1>1. layers \in Seq(Id) /\ overlayStart \in Nat
  BY DEF LayerInv, Typed
<1>2. Len(layers) \in Nat /\ DOMAIN layers = 1..Len(layers) /\ \A i \in 1..Len(layers) : layers[i] \in Id
  BY <1>1, LenProperties, ElementOfSeq
<1>3. Layers = ToSet(layers) /\ \A i \in 1..Len(layers) : layers[i] \in Layers
  BY <1>2 DEF Layers, ToSet
<1>4. Distinct(layers)
  BY <1>2 DEF LayerInv, IdsOK, Distinct
<1>5. Base \in Nat
  BY <1>1 DEF Base
<1>6. Behind(layers, overlays, Base)
  BY <1>2 DEF LayerInv, OverlaysOK, Behind
<1> QED BY <1>1, <1>2, <1>3, <1>4, <1>5, <1>6

(* The innermost callback; it is the only one unless it is a dispatch.       *)
LEMMA TopFacts ==
    ASSUME LayerInv, Traversing
    PROVE  /\ Len(frames) \in Nat \ {0} /\ DOMAIN frames = 1..Len(frames) /\ frames \in Seq(Frame)
           /\ Top \in Frame /\ Root \in Frame /\ Top = frames[Len(frames)]
           /\ Front(frames) \in Seq(Frame) /\ Len(Front(frames)) = Len(frames) - 1
           /\ \A i \in 1..(Len(frames) - 1) : Front(frames)[i] = frames[i]
           /\ Top.at \in DOMAIN layers /\ layers[Top.at] = Top.id
           /\ Len(frames) = 1 => Top = Root /\ Front(frames) = <<>>
           /\ Top.kind # "dispatch" => Len(frames) = 1
<1>1. frames \in Seq(Frame) /\ frames # <<>>
  BY DEF LayerInv, Typed, Traversing
<1>2. /\ Len(frames) \in Nat \ {0} /\ DOMAIN frames = 1..Len(frames)
      /\ Last(frames) \in Frame /\ Last(frames) = frames[Len(frames)]
      /\ Front(frames) \in Seq(Frame) /\ Len(Front(frames)) = Len(frames) - 1
      /\ \A i \in 1..(Len(frames) - 1) : Front(frames)[i] = frames[i]
      /\ Len(frames) = 1 => Front(frames) = <<>>
  BY <1>1, Fronts
<1>3. 1 \in DOMAIN frames /\ Len(frames) \in DOMAIN frames
  BY <1>2
<1>4. Root \in Frame
  BY <1>1, <1>2, <1>3, ElementOfSeq DEF Root
<1>5. FramesOK
  BY DEF LayerInv
<1> QED BY <1>1, <1>2, <1>3, <1>4, <1>5 DEF FramesOK, Top, Root

(* The position of a layer.                                                  *)
LEMMA PositionFacts ==
    ASSUME LayerInv, NEW id \in Layers
    PROVE  Position(id) \in DOMAIN layers /\ layers[Position(id)] = id
  BY DEF Layers, Position

-----------------------------------------------------------------------------
(* Traversals and dispatches. *)

(* A step that changes the callbacks only, and either keeps the outermost or *)
(* has none but plain traversals before and after.                           *)
LEMMA FramesStep ==
    ASSUME LayerInv, frames' \in Seq(Frame), FramesOK',
           UNCHANGED <<stack, pending, nextId, overlays, control, wanted, repeated, ever>>,
           \/ frames # <<>> /\ frames' # <<>> /\ Root' = Root
           \/ /\ ~RootIs({"existing", "insert", "remove", "stop"})
              /\ ~RootIs({"existing", "insert", "remove", "stop"})'
              /\ frames' # <<>> => stage = "active" /\ boundary # "attach" /\ ~failed
    PROVE  LayerInv'
<1>1. /\ UNCHANGED <<layers, attached, overlayStart, bound>>
      /\ UNCHANGED <<pending, nextId, overlays, stage, boundary, batch, failed>>
      /\ UNCHANGED <<wanted, repeated, ever>>
  BY DEF stack, control
<1>2. Layers' = Layers /\ Given' = Given
  BY <1>1 DEF Layers, Given
<1>3. Typed' /\ IdsOK' /\ BatchWaits'
  BY <1>1, <1>2 DEF LayerInv, Typed, IdsOK, BatchWaits
<1>4. WaitingOK'
  BY <1>1, <1>2 DEF LayerInv, WaitingOK, RequestsOK
<1>5. CASE frames # <<>> /\ frames' # <<>> /\ Root' = Root
  <2>1. \A K : RootIs(K)' <=> RootIs(K)
    BY <1>5 DEF RootIs
  <2>2. /\ RootIs({"existing"})' <=> RootIs({"existing"})
        /\ RootIs({"insert"})' <=> RootIs({"insert"})
        /\ RootIs({"remove"})' <=> RootIs({"remove"})
        /\ RootIs({"stop"})' <=> RootIs({"stop"})
        /\ RootIs({"existing", "insert"})' <=> RootIs({"existing", "insert"})
        /\ RootIs({"remove", "stop"})' <=> RootIs({"remove", "stop"})
        /\ RootIs({"insert", "remove", "update", "dispatch"})' <=> RootIs({"insert", "remove", "update", "dispatch"})
    BY <1>5 DEF RootIs
  <2>3. ControlOK'
    BY <1>1, <1>5, <2>2 DEF LayerInv, ControlOK
  <2>4. AttachedOK'
    BY <1>1, <1>2, <1>5, <2>2 DEF LayerInv, AttachedOK
  <2>5. Base' = Base
    BY <1>1, <1>5, <2>2 DEF Base
  <2>6. OverlaysOK'
    BY <1>1, <2>5 DEF LayerInv, OverlaysOK
  <2>7. \A id : (Comes(id)' <=> Comes(id)) /\ (Goes(id)' <=> Goes(id))
    BY <1>1, <1>2, <1>5, <2>2 DEF Comes, Goes, Adds, Removes
  <2>8. WantedOK'
    BY <1>1, <2>2, <2>7 DEF LayerInv, WantedOK
  <2> QED BY <1>3, <1>4, <2>3, <2>4, <2>6, <2>8 DEF LayerInv
<1>6. CASE /\ ~RootIs({"existing", "insert", "remove", "stop"})
           /\ ~RootIs({"existing", "insert", "remove", "stop"})'
           /\ frames' # <<>> => stage = "active" /\ boundary # "attach" /\ ~failed
  <2>1. /\ ~RootIs({"existing"}) /\ ~RootIs({"insert"}) /\ ~RootIs({"remove"}) /\ ~RootIs({"stop"})
        /\ ~RootIs({"existing", "insert"}) /\ ~RootIs({"remove", "stop"})
    BY <1>6 DEF RootIs
  <2>2. /\ ~RootIs({"existing"})' /\ ~RootIs({"insert"})' /\ ~RootIs({"remove"})' /\ ~RootIs({"stop"})'
        /\ ~RootIs({"existing", "insert"})' /\ ~RootIs({"remove", "stop"})'
        /\ RootIs({"insert", "remove", "update", "dispatch"})' => frames' # <<>>
    BY <1>6 DEF RootIs
  <2>3. frames # <<>> => stage = "active"
    <3>1. ASSUME frames # <<>> PROVE Root.kind \in {"update", "dispatch"}
      <4>1. Root \in Frame
        BY <3>1, TopFacts DEF Traversing
      <4> QED BY <1>6, <3>1, <4>1 DEF RootIs, Frame
    <3> QED BY <3>1 DEF LayerInv, ControlOK, RootIs
  <2>4. ControlOK'
    BY <1>1, <1>6, <2>2 DEF LayerInv, ControlOK
  <2>5. AttachedOK'
    BY <1>1, <1>2, <2>1, <2>2, <2>3 DEF LayerInv, AttachedOK
  <2>6. Base' = Base
    BY <1>1, <2>1, <2>2 DEF Base
  <2>7. OverlaysOK'
    BY <1>1, <2>6 DEF LayerInv, OverlaysOK
  <2>8. \A id : (Comes(id)' <=> Comes(id)) /\ (Goes(id)' <=> Goes(id))
    BY <1>1, <1>2, <2>1, <2>2 DEF Comes, Goes, Adds, Removes
  <2>9. WantedOK'
    BY <1>1, <2>1, <2>2, <2>8 DEF LayerInv, WantedOK
  <2> QED BY <1>3, <1>4, <2>4, <2>5, <2>7, <2>9 DEF LayerInv
<1> QED BY <1>5, <1>6

(* A callback begins.                                                        *)
LEMMA EnterFacts ==
    ASSUME LayerInv, NEW kind \in {"existing", "insert", "remove", "stop", "update", "dispatch"},
           NEW at \in Nat, NEW id \in Id, Enter(kind, at, id)
    PROVE  /\ frames' \in Seq(Frame) /\ frames' # <<>> /\ DOMAIN frames' = 1..(Len(frames) + 1)
           /\ Len(frames) \in Nat /\ DOMAIN frames = 1..Len(frames)
           /\ \A i \in 1..Len(frames) : frames'[i] = frames[i]
           /\ \E f \in Frame : /\ f = [kind |-> kind, at |-> at, id |-> id, mark |-> Len(pending)]
                              /\ frames'[Len(frames) + 1] = f
           /\ frames # <<>> => Root' = Root
           /\ frames = <<>> => /\ DOMAIN frames' = {1} /\ Root' = frames'[1] /\ Root' \in Frame
                              /\ Root' = [kind |-> kind, at |-> at, id |-> id, mark |-> Len(pending)]
<1>1. frames \in Seq(Frame) /\ Len(pending) \in Nat
  BY LenProperties DEF LayerInv, Typed
<1>2. PICK f \in Frame : f = [kind |-> kind, at |-> at, id |-> id, mark |-> Len(pending)]
  BY <1>1 DEF Frame
<1>3. PICK g \in Seq(Frame) : g = Append(frames, f)
  BY <1>1, Appended
<1>4. frames' = g
  BY <1>2, <1>3 DEF Enter
<1>5. /\ g # <<>> /\ DOMAIN g = 1..(Len(frames) + 1) /\ Len(frames) \in Nat /\ DOMAIN frames = 1..Len(frames)
      /\ \A i \in DOMAIN frames : g[i] = frames[i]
      /\ g[Len(frames) + 1] = f
  BY <1>1, <1>3, Appended
<1>6. ASSUME frames # <<>> PROVE Root' = Root
  <2>1. 1 \in DOMAIN frames
    BY <1>1, <1>6, EmptySeq, LenProperties
  <2> QED BY <1>4, <1>5, <2>1 DEF Root
<1>7. ASSUME frames = <<>> PROVE DOMAIN g = {1} /\ g[1] = f
  <2>1. Len(frames) = 0
    BY <1>7
  <2> QED BY <1>5, <2>1
<1> QED BY <1>2, <1>4, <1>5, <1>6, <1>7 DEF Root

(* Dispatch and the traversals of the frame.                                 *)
LEMMA TraversalBegins == LayerInv /\ (Dispatch \/ Update) => LayerInv'
<1> SUFFICES ASSUME LayerInv, Dispatch \/ Update PROVE LayerInv'
  OBVIOUS
<1>1. /\ layers # <<>> /\ ((Idle /\ Active) \/ Traversing)
      /\ UNCHANGED <<stack, pending, nextId, overlays, control, wanted, repeated, ever>>
  BY DEF Dispatch, Update
<1>2. PICK c \in Nat : c = Len(layers) /\ DOMAIN layers = 1..c /\ layers \in Seq(Id) /\ \A i \in 1..c : layers[i] \in Id
  BY LayersFacts
<1>3. 1 \in 1..c /\ c \in 1..c
  <2>1. Len(layers) # 0
    BY <1>1, <1>2
  <2> QED BY <1>2, <2>1
<1>4. layers' = layers /\ pending' = pending
  BY <1>1 DEF stack
<1>5. PICK kind \in {"update", "dispatch"}, at \in 1..c : Enter(kind, at, layers[at]) /\ (kind = "update" => Idle)
  <2>1. CASE Dispatch
    BY <1>2, <1>3, <2>1 DEF Dispatch, Last
  <2>2. CASE Update
    <3>1. Head(layers) = layers[1]
      BY <1>1, <1>2
    <3> QED BY <1>3, <2>2, <3>1 DEF Update
  <2> QED BY <2>1, <2>2
<1>6. PICK id \in Id : id = layers[at]
  BY <1>2
<1>7. at \in Nat /\ Enter(kind, at, id)
  BY <1>5, <1>6
<1>8. PICK f \in Frame : f = [kind |-> kind, at |-> at, id |-> id, mark |-> Len(pending)] /\ frames'[Len(frames) + 1] = f
  BY <1>7, EnterFacts
<1>9. /\ frames' \in Seq(Frame) /\ frames' # <<>> /\ DOMAIN frames' = 1..(Len(frames) + 1)
      /\ Len(frames) \in Nat /\ DOMAIN frames = 1..Len(frames)
      /\ \A i \in 1..Len(frames) : frames'[i] = frames[i]
      /\ frames # <<>> => Root' = Root
      /\ frames = <<>> => Root' = frames'[1] /\ Len(frames) = 0
  BY <1>7, EnterFacts
<1>10. FramesOK'
  <2>1. SUFFICES ASSUME NEW i \in 1..(Len(frames) + 1)
                 PROVE  /\ frames'[i].at \in DOMAIN layers /\ layers[frames'[i].at] = frames'[i].id
                        /\ frames'[i].kind # "dispatch" => i = 1
                        /\ frames'[i].kind \in {"existing", "insert"} => frames'[i].mark <= Len(pending)
    BY <1>4, <1>9 DEF FramesOK
  <2>2. CASE i \in 1..Len(frames)
    BY <1>9, <2>2 DEF LayerInv, FramesOK
  <2>3. CASE i = Len(frames) + 1
    <3>1. kind = "update" => i = 1
      BY <1>5, <1>9, <2>3 DEF Idle, Traversing
    <3> QED BY <1>2, <1>5, <1>6, <1>8, <2>3, <3>1
  <2> QED BY <1>9, <2>2, <2>3
<1>11. CASE frames # <<>>
  BY <1>1, <1>9, <1>10, <1>11, FramesStep
<1>12. CASE frames = <<>>
  <2>1. Root'.kind = kind
    BY <1>8, <1>9, <1>12
  <2>2. ~RootIs({"existing", "insert", "remove", "stop"}) /\ ~RootIs({"existing", "insert", "remove", "stop"})'
    BY <1>12, <2>1 DEF RootIs
  <2>3. stage = "active" /\ boundary # "attach" /\ ~failed
    BY <1>1, <1>12 DEF Idle, Active, Traversing
  <2> QED BY <1>1, <1>9, <1>10, <2>2, <2>3, FramesStep
<1> QED BY <1>11, <1>12

(* A callback of a traversal returns or throws.                              *)
LEMMA TraversalReturns == LayerInv /\ (ReturnFromTraversal \/ ThrowFromTraversal) => LayerInv'
<1> SUFFICES ASSUME LayerInv, ReturnFromTraversal \/ ThrowFromTraversal PROVE LayerInv'
  OBVIOUS
<1>1. /\ Traversing /\ Top.kind \in {"update", "dispatch"}
      /\ UNCHANGED <<stack, pending, nextId, overlays, control, wanted, repeated, ever>>
  BY DEF ReturnFromTraversal, ThrowFromTraversal
<1>2. layers' = layers /\ pending' = pending
  BY <1>1 DEF stack
<1>3. PICK n \in Nat \ {0} : n = Len(frames) /\ DOMAIN frames = 1..n /\ frames \in Seq(Frame)
  BY <1>1, TopFacts
<1>4. PICK b \in Seq(Frame) : /\ b = Front(frames) /\ Len(b) = n - 1 /\ DOMAIN b = 1..(n - 1)
                             /\ \A i \in 1..(n - 1) : b[i] = frames[i]
  BY <1>1, <1>3, TopFacts, LenProperties
<1>5. PICK k \in {"update", "dispatch"} : k = Top.kind
  BY <1>1
<1>6. Top \in Frame /\ Top = frames[n] /\ Top.at \in DOMAIN layers /\ (n = 1 => Top = Root)
  BY <1>1, <1>3, TopFacts
<1>7. FramesOK
  BY DEF LayerInv
<1>8. \A i \in 1..(n - 1) : i \in 1..n
  BY <1>3
<1>9. frames # <<>> /\ 1 \in 1..n
  BY <1>1, <1>3 DEF Traversing
<1>10. n = 1 => ~RootIs({"existing", "insert", "remove", "stop"}) /\ stage = "active" /\ boundary # "attach" /\ ~failed
  BY <1>1, <1>6, <1>9 DEF RootIs, LayerInv, ControlOK
<1>11. CASE Leave
  <2>1. frames' = b
    BY <1>4, <1>11 DEF Leave
  <2>2. FramesOK'
    BY <1>2, <1>3, <1>4, <1>7, <1>8, <2>1, SMTT(30) DEF FramesOK
  <2>3. CASE n = 1
    <3>1. frames' = <<>>
      BY <1>3, <1>4, <2>1, <2>3
    <3> QED BY <1>1, <1>4, <1>10, <2>1, <2>2, <2>3, <3>1, FramesStep DEF RootIs
  <2>4. CASE n > 1
    <3>1. 1 \in 1..(n - 1) /\ b # <<>>
      BY <1>4, <2>4
    <3>2. Root' = Root
      BY <1>4, <2>1, <3>1 DEF Root
    <3> QED BY <1>1, <1>4, <1>9, <2>1, <2>2, <3>1, <3>2, FramesStep
  <2> QED BY <2>3, <2>4
<1>12. ASSUME NEW at \in DOMAIN layers, MoveTo(at) PROVE LayerInv'
  <2>1. PICK id \in Id : id = layers[at]
    BY LayersFacts
  <2>2. PICK f \in Frame : f = [Top EXCEPT !.at = at, !.id = layers[at]] /\ f.kind = k /\ f.at = at /\ f.id = id
    <3>1. PICK a \in Nat : a = at
      BY LayersFacts
    <3>2. PICK h \in Frame : h = Top
      BY <1>6
    <3>3. PICK f : f = [h EXCEPT !.at = a, !.id = id]
      OBVIOUS
    <3>4. f \in Frame /\ f.kind = h.kind /\ f.at = a /\ f.id = id
      BY <3>3 DEF Frame
    <3> QED BY <1>5, <2>1, <3>1, <3>2, <3>3, <3>4
  <2>3. PICK g \in Seq(Frame) : g = Append(b, f)
    BY <1>4, Appended
  <2>4. frames' = g
    BY <1>4, <1>12, <2>2, <2>3 DEF MoveTo
  <2>5. DOMAIN g = 1..n /\ g # <<>> /\ g[n] = f /\ \A i \in 1..(n - 1) : g[i] = frames[i]
    <3>1. Len(b) + 1 = n
      BY <1>4
    <3>2. DOMAIN g = 1..(Len(b) + 1) /\ g # <<>> /\ g[Len(b) + 1] = f /\ \A i \in DOMAIN b : g[i] = b[i]
      BY <1>4, <2>3, Appended
    <3> QED BY <1>4, <3>1, <3>2
  <2>6. FramesOK'
    <3>1. SUFFICES ASSUME NEW i \in 1..n
                   PROVE  /\ g[i].at \in DOMAIN layers /\ layers[g[i].at] = g[i].id
                          /\ g[i].kind # "dispatch" => i = 1
                          /\ g[i].kind \in {"existing", "insert"} => g[i].mark <= Len(pending)
      BY <1>2, <2>4, <2>5 DEF FramesOK
    <3>2. CASE i \in 1..(n - 1)
      BY <1>3, <1>7, <1>8, <2>5, <3>2 DEF FramesOK
    <3>3. CASE i = n
      <4>1. k # "dispatch" => n = 1
        BY <1>3, <1>5, <1>6, <1>7 DEF FramesOK
      <4> QED BY <1>5, <1>12, <2>1, <2>2, <2>5, <3>3, <4>1
    <3> QED BY <1>3, <3>2, <3>3
  <2>7. CASE n = 1
    <3>1. Root'.kind = k
      BY <2>2, <2>4, <2>5, <2>7 DEF Root
    <3>2. ~RootIs({"existing", "insert", "remove", "stop"})'
      BY <3>1 DEF RootIs
    <3> QED BY <1>1, <1>10, <2>3, <2>4, <2>6, <2>7, <3>2, FramesStep
  <2>8. CASE n > 1
    <3>1. 1 \in 1..(n - 1)
      BY <2>8
    <3>2. Root' = Root
      BY <2>4, <2>5, <3>1 DEF Root
    <3> QED BY <1>1, <1>9, <2>3, <2>4, <2>5, <2>6, <3>2, FramesStep
  <2> QED BY <2>7, <2>8
<1>13. \A at \in Nat : (at < Len(layers) => at + 1 \in 1..Len(layers)) /\ (at > 1 /\ at <= Len(layers) => at - 1 \in 1..Len(layers))
  BY LayersFacts
<1>14. Leave \/ \E at \in DOMAIN layers : MoveTo(at)
  <2>1. PICK at \in Nat : at = Top.at /\ at <= Len(layers)
    BY <1>6, LayersFacts
  <2> QED BY <1>13, <2>1, LayersFacts DEF ReturnFromTraversal, ThrowFromTraversal
<1> QED BY <1>11, <1>12, <1>14

-----------------------------------------------------------------------------
(* Requests of callbacks, and boundaries. *)

(* Requests of a sequence are among those of its parts.                      *)
LEMMA Joined ==
    ASSUME NEW q, NEW a, NEW b, ToSet(q) = ToSet(a) \cup ToSet(b)
    PROVE  Adds(q) = Adds(a) \cup Adds(b) /\ Removes(q) = Removes(a) \cup Removes(b)
<1>1. \A id : (id \in Adds(q) <=> id \in Adds(a) \cup Adds(b)) /\ (id \in Removes(q) <=> id \in Removes(a) \cup Removes(b))
  BY Members
<1> QED BY <1>1

(* One addition more, or one less.                                            *)
LEMMA JoinedAdd ==
    ASSUME NEW q, NEW a, NEW o, ToSet(q) = ToSet(a) \cup {o}, o.kind = "add"
    PROVE  Adds(q) = Adds(a) \cup {o.id} /\ Removes(q) = Removes(a)
<1>1. PICK kind, x : kind = o.kind /\ x = o.id /\ kind = "add"
  OBVIOUS
<1>2. \A id : id \in Adds(q) <=> (id \in Adds(a) \/ x = id)
  BY <1>1, Members
<1>3. \A id : id \in Removes(q) <=> id \in Removes(a)
  BY <1>1, Members
<1> QED BY <1>1, <1>2, <1>3

(* One removal more, or one less.                                             *)
LEMMA JoinedRemove ==
    ASSUME NEW q, NEW a, NEW o, ToSet(q) = ToSet(a) \cup {o}, o.kind = "remove"
    PROVE  Removes(q) = Removes(a) \cup {o.id} /\ Adds(q) = Adds(a)
<1>1. PICK kind, x : kind = o.kind /\ x = o.id /\ kind = "remove"
  OBVIOUS
<1>2. \A id : id \in Removes(q) <=> (id \in Removes(a) \/ x = id)
  BY <1>1, Members
<1>3. \A id : id \in Adds(q) <=> id \in Adds(a)
  BY <1>1, Members
<1> QED BY <1>1, <1>2, <1>3

(* The requests of a state.                                                  *)
LEMMA RequestFacts ==
    ASSUME LayerInv
    PROVE  /\ pending \in Seq(Operation) /\ Len(pending) \in Nat /\ DOMAIN pending = 1..Len(pending)
           /\ batch \in Seq(Operation) /\ Len(batch) \in Nat /\ DOMAIN batch = 1..Len(batch)
           /\ \A i \in DOMAIN pending : pending[i] \in Operation /\ pending[i].kind \in {"add", "remove"}
                                       /\ pending[i].id \in Given
           /\ \A id \in Adds(pending) : id \in Given /\ id \notin Layers \cup ever
           /\ \A id \in Removes(pending) : id \in Given
           /\ boundary = "apply" => /\ \A id \in Adds(batch) : id \in Given /\ id \notin Layers \cup ever
                                    /\ \A id \in Removes(batch) : id \in Given
                                    /\ \A i \in DOMAIN batch : batch[i].id \notin Adds(pending)
<1>1. pending \in Seq(Operation) /\ batch \in Seq(Operation)
  BY DEF LayerInv, Typed
<1>2. /\ Len(pending) \in Nat /\ DOMAIN pending = 1..Len(pending) /\ Len(batch) \in Nat /\ DOMAIN batch = 1..Len(batch)
      /\ \A i \in DOMAIN pending : pending[i] \in Operation
  BY <1>1, LenProperties, ElementOfSeq
<1>3. RequestsOK(pending) /\ (boundary = "apply" => RequestsOK(batch))
  BY DEF LayerInv, WaitingOK
<1>4. /\ \A id \in Adds(pending) : id \in Given /\ id \notin Layers \cup ever
      /\ \A id \in Removes(pending) : id \in Given
  BY <1>3 DEF RequestsOK, Adds, Removes
<1>5. boundary = "apply" => /\ \A id \in Adds(batch) : id \in Given /\ id \notin Layers \cup ever
                            /\ \A id \in Removes(batch) : id \in Given
  BY <1>3 DEF RequestsOK, Adds, Removes
<1>6. boundary = "apply" => \A i \in DOMAIN batch : batch[i].id \notin Adds(pending)
  BY DEF LayerInv, WaitingOK, Adds
<1>7. \A i \in DOMAIN pending : pending[i].kind \in {"add", "remove"} /\ pending[i].id \in Given
  BY <1>2, <1>3 DEF RequestsOK, Operation
<1> QED BY <1>1, <1>2, <1>4, <1>5, <1>6, <1>7

(* A callback pushes a layer.                                                *)
LEMMA PushWaits == LayerInv /\ (\E overlay \in BOOLEAN : PushDeferred(overlay)) => LayerInv'
<1> SUFFICES ASSUME LayerInv, NEW overlay \in BOOLEAN, PushDeferred(overlay) PROVE LayerInv'
  OBVIOUS
<1>1. UNCHANGED <<stack, frames, control, repeated, ever>> /\ frames # <<>>
  BY DEF PushDeferred, Traversing
<1>2. /\ UNCHANGED <<layers, attached, overlayStart, bound>>
      /\ UNCHANGED <<frames, stage, boundary, batch, failed>>
      /\ UNCHANGED <<repeated, ever>>
  BY <1>1 DEF stack, control
<1>3. PICK n \in 1..MaxId : n = nextId /\ nextId' = n + 1 /\ overlays' \in {overlays, overlays \cup {n}} /\ wanted' = wanted \cup {n}
  BY BoundsAssumption DEF PushDeferred, Create, LayerInv, Typed
<1>4. PICK o \in Operation : o = [kind |-> "add", id |-> n]
  BY DEF Operation, Id
<1>5. PICK p \in Seq(Operation) : p = Append(pending, o)
  BY RequestFacts, Appended
<1>6. pending' = p
  BY <1>3, <1>4, <1>5 DEF PushDeferred
<1>7. PICK m \in Nat : m = Len(pending) /\ DOMAIN pending = 1..m
  BY RequestFacts
<1>8. /\ Len(p) = m + 1 /\ DOMAIN p = 1..(m + 1) /\ p[m + 1] = o /\ \A i \in 1..m : p[i] = pending[i]
      /\ ToSet(p) = ToSet(pending) \cup {o}
  BY <1>5, <1>7, RequestFacts, Appended
<1>9. Given' = Given \cup {n} /\ n \notin Given /\ Layers' = Layers
  BY <1>2, <1>3 DEF Given, Layers
<1>10. n \notin Layers \cup ever \cup overlays
  BY <1>9 DEF LayerInv, IdsOK
<1>11. IdsOK' /\ Typed'
  BY <1>2, <1>3, <1>5, <1>6, <1>9, BoundsAssumption DEF LayerInv, IdsOK, Typed
<1>12. FramesOK'
  <2>1. \A i \in DOMAIN frames : frames[i] \in Frame
    BY ElementOfSeq DEF LayerInv, Typed
  <2>2. \A x \in Nat : x <= m => x <= m + 1
    OBVIOUS
  <2> QED BY <1>2, <1>6, <1>7, <1>8, <2>1, <2>2 DEF LayerInv, FramesOK, Frame
<1>13. ControlOK'
  BY <1>2 DEF LayerInv, ControlOK, RootIs, Root
<1>14. BatchWaits'
  <2>1. boundary = "attach" => Len(batch) <= m /\ DOMAIN batch = 1..Len(batch) /\ Len(batch) \in Nat
    BY <1>7, RequestFacts DEF LayerInv, BatchWaits
  <2>2. boundary = "attach" => \A i \in DOMAIN batch : i \in 1..m /\ pending[i] = batch[i]
    BY <2>1 DEF LayerInv, BatchWaits
  <2> QED BY <1>2, <1>6, <1>8, <2>1, <2>2 DEF BatchWaits
<1>15. AttachedOK'
  BY <1>2, <1>9 DEF LayerInv, AttachedOK, RootIs, Root
<1>16. OverlaysOK'
  <2>1. \A i \in DOMAIN layers : layers[i] \in overlays' <=> layers[i] \in overlays
    BY <1>3, <1>10 DEF Layers
  <2>2. RootIs({"insert"}) => (Root.id \in overlays' <=> Root.id \in overlays)
    <3>1. ASSUME RootIs({"insert"}) PROVE Root.id \in Layers
      <4>1. RootIs({"existing", "insert"})
        BY <3>1 DEF RootIs
      <4> QED BY <4>1 DEF LayerInv, AttachedOK
    <3> QED BY <1>3, <1>10, <3>1
  <2>3. Base' = Base
    BY <1>2, <2>2 DEF Base, RootIs, Root
  <2> QED BY <1>2, <2>1, <2>3 DEF LayerInv, OverlaysOK
<1>17. \A q : RequestsOK(q) => RequestsOK(q)'
  BY <1>2, <1>9 DEF RequestsOK
<1>18. WaitingOK'
  <2>1. \A i \in 1..m : pending[i].id # n
    BY <1>7, <1>9, RequestFacts
  <2>2. RequestsOK(p)'
    <3>1. ASSUME NEW i \in 1..m
          PROVE  /\ p[i].id \in Given'
                 /\ p[i].kind = "add" =>
                      /\ p[i].id \notin Layers \cup ever
                      /\ \A k \in 1..(m + 1) : k # i /\ p[k].id = p[i].id => p[k].kind = "remove" /\ i < k
      <4>1. p[i].id \in Given /\ p[i].id # n /\ p[i] = pending[i]
        BY <1>7, <1>8, <2>1, RequestFacts
      <4>2. RequestsOK(pending)
        BY DEF LayerInv, WaitingOK
      <4>3. p[i].kind = "add" => p[i].id \notin Layers \cup ever /\ \A k \in 1..m : k # i /\ pending[k].id = p[i].id => pending[k].kind = "remove" /\ i < k
        BY <1>7, <4>1, <4>2 DEF RequestsOK
      <4>4. \A k \in 1..(m + 1) : k = m + 1 \/ (k \in 1..m /\ p[k] = pending[k])
        BY <1>8
      <4>5. p[m + 1].id # p[i].id
        BY <1>4, <1>8, <4>1
      <4> QED BY <1>9, <4>1, <4>3, <4>4, <4>5
    <3>2. /\ p[m + 1].id \in Given' /\ p[m + 1].id \notin Layers \cup ever
          /\ \A k \in 1..(m + 1) : k # m + 1 => p[k].id # p[m + 1].id
      <4>1. \A k \in 1..(m + 1) : k # m + 1 => k \in 1..m
        OBVIOUS
      <4> QED BY <1>4, <1>8, <1>9, <1>10, <2>1, <4>1
    <3>3. \A i \in 1..(m + 1) : i = m + 1 \/ i \in 1..m
      OBVIOUS
    <3> QED BY <1>2, <1>8, <1>9, <3>1, <3>2, <3>3 DEF RequestsOK
  <2>3. boundary = "apply" => \A i \in DOMAIN batch : batch[i].id # n
    BY <1>9 DEF LayerInv, WaitingOK, RequestsOK
  <2>4. boundary = "apply" => RequestsOK(batch)' /\ \A i \in DOMAIN batch : \A k \in 1..(m + 1) : p[k].kind = "add" => batch[i].id # p[k].id
    <3>1. \A k \in 1..(m + 1) : k = m + 1 \/ (k \in 1..m /\ p[k] = pending[k])
      BY <1>8
    <3> QED BY <1>2, <1>4, <1>7, <1>8, <1>17, <2>3, <3>1 DEF LayerInv, WaitingOK
  <2> QED BY <1>2, <1>6, <1>8, <2>2, <2>4 DEF WaitingOK
<1>19. WantedOK'
  <2>1. Adds(p) = Adds(pending) \cup {n} /\ Removes(p) = Removes(pending)
    <3>1. o.kind = "add" /\ o.id = n
      BY <1>4
    <3> QED BY <1>8, <3>1, JoinedAdd
  <2>2. \A id : (Comes(id)' <=> Comes(id) \/ id = n) /\ (Goes(id)' <=> Goes(id))
    BY <1>2, <1>6, <1>9, <2>1 DEF Comes, Goes, RootIs, Root
  <2>3. ~Goes(n)
    BY <1>9, RequestFacts DEF Goes
  <2>4. /\ RootIs({"stop"})' <=> RootIs({"stop"})
        /\ RootIs({"remove"})' <=> RootIs({"remove"})
    BY <1>2 DEF RootIs, Root
  <2> QED BY <1>2, <1>3, <2>2, <2>3, <2>4 DEF LayerInv, WantedOK
<1> QED BY <1>11, <1>12, <1>13, <1>14, <1>15, <1>16, <1>18, <1>19 DEF LayerInv

(* A callback asks for the removal of a layer.                               *)
LEMMA RemoveWaits == LayerInv /\ (\E id \in Id : RemoveDeferred(id)) => LayerInv'
<1> SUFFICES ASSUME LayerInv, NEW n \in Id, RemoveDeferred(n) PROVE LayerInv'
  OBVIOUS
<1>1. UNCHANGED <<stack, nextId, overlays, frames, control, repeated, ever>>
  BY DEF RemoveDeferred
<1>2. /\ UNCHANGED <<layers, attached, overlayStart, bound>>
      /\ UNCHANGED <<nextId, overlays, frames, stage, boundary, batch, failed>>
      /\ UNCHANGED <<repeated, ever>>
  BY <1>1 DEF stack, control
<1>3. PICK o \in Operation : o = [kind |-> "remove", id |-> n]
  BY DEF Operation
<1>4. PICK p \in Seq(Operation) : p = Append(pending, o)
  BY RequestFacts, Appended
<1>5. pending' = p /\ wanted' = wanted \ {n}
  BY <1>3, <1>4 DEF RemoveDeferred
<1>6. PICK m \in Nat : m = Len(pending) /\ DOMAIN pending = 1..m
  BY RequestFacts
<1>7. /\ Len(p) = m + 1 /\ DOMAIN p = 1..(m + 1) /\ p[m + 1] = o /\ \A i \in 1..m : p[i] = pending[i]
      /\ ToSet(p) = ToSet(pending) \cup {o}
  BY <1>4, <1>6, RequestFacts, Appended
<1>8. Given' = Given /\ Layers' = Layers
  BY <1>2 DEF Given, Layers
<1>9. n \in Given
  BY RequestFacts DEF RemoveDeferred, LayerInv, IdsOK
<1>10. IdsOK' /\ Typed'
  BY <1>2, <1>4, <1>5, <1>8 DEF LayerInv, IdsOK, Typed
<1>11. FramesOK'
  <2>1. \A i \in DOMAIN frames : frames[i] \in Frame
    BY ElementOfSeq DEF LayerInv, Typed
  <2>2. \A x \in Nat : x <= m => x <= m + 1
    OBVIOUS
  <2> QED BY <1>2, <1>5, <1>6, <1>7, <2>1, <2>2 DEF LayerInv, FramesOK, Frame
<1>12. ControlOK'
  BY <1>2 DEF LayerInv, ControlOK, RootIs, Root
<1>13. BatchWaits'
  <2>1. boundary = "attach" => Len(batch) <= m /\ DOMAIN batch = 1..Len(batch) /\ Len(batch) \in Nat
    BY <1>6, RequestFacts DEF LayerInv, BatchWaits
  <2>2. boundary = "attach" => \A i \in DOMAIN batch : i \in 1..m /\ pending[i] = batch[i]
    BY <2>1 DEF LayerInv, BatchWaits
  <2> QED BY <1>2, <1>5, <1>7, <2>1, <2>2 DEF BatchWaits
<1>14. AttachedOK'
  BY <1>2, <1>8 DEF LayerInv, AttachedOK, RootIs, Root
<1>15. OverlaysOK'
  <2>1. Base' = Base
    BY <1>2 DEF Base, RootIs, Root
  <2> QED BY <1>2, <2>1 DEF LayerInv, OverlaysOK
<1>16. \A q : RequestsOK(q) => RequestsOK(q)'
  BY <1>2, <1>8 DEF RequestsOK
<1>17. WaitingOK'
  <2>1. \A k \in 1..(m + 1) : (k = m + 1 /\ p[k].kind = "remove" /\ p[k].id = n) \/ (k \in 1..m /\ p[k] = pending[k])
    BY <1>3, <1>7
  <2>2. RequestsOK(p)
    <3>1. RequestsOK(pending)
      BY DEF LayerInv, WaitingOK
    <3>2. ASSUME NEW i \in 1..(m + 1), p[i].kind = "add", NEW k \in 1..(m + 1), k # i, p[k].id = p[i].id
          PROVE  p[k].kind = "remove" /\ i < k
      <4>1. i \in 1..m /\ p[i] = pending[i]
        BY <2>1, <3>2
      <4>2. CASE k = m + 1
        BY <2>1, <4>1, <4>2
      <4>3. CASE k \in 1..m /\ p[k] = pending[k]
        BY <1>6, <3>1, <3>2, <4>1, <4>3 DEF RequestsOK
      <4> QED BY <2>1, <4>2, <4>3
    <3>3. ASSUME NEW i \in 1..(m + 1) PROVE p[i].id \in Given /\ (p[i].kind = "add" => p[i].id \notin Layers \cup ever)
      BY <1>6, <1>9, <2>1, <3>1 DEF RequestsOK
    <3> QED BY <1>7, <3>2, <3>3 DEF RequestsOK
  <2>3. boundary = "apply" => RequestsOK(batch)' /\ \A i \in DOMAIN batch : \A k \in 1..(m + 1) : p[k].kind = "add" => batch[i].id # p[k].id
    <3>1. \A k \in 1..(m + 1) : p[k].kind = "add" => k \in DOMAIN pending /\ p[k] = pending[k]
      BY <1>6, <2>1
    <3>2. WaitingOK
      BY DEF LayerInv
    <3>3. PICK b : b = batch
      OBVIOUS
    <3>4. boundary = "apply" => RequestsOK(b)'
      BY <1>16, <3>2, <3>3 DEF WaitingOK
    <3>5. boundary = "apply" => RequestsOK(batch)'
      BY <1>2, <3>3, <3>4
    <3> QED BY <3>1, <3>2, <3>5 DEF WaitingOK
  <2> QED BY <1>2, <1>5, <1>7, <1>16, <2>2, <2>3 DEF WaitingOK
<1>18. WantedOK'
  <2>1. Adds(p) = Adds(pending) /\ Removes(p) = Removes(pending) \cup {n}
    <3>1. o.kind = "remove" /\ o.id = n
      BY <1>3
    <3> QED BY <1>7, <3>1, JoinedRemove
  <2>2. \A id : (Comes(id)' <=> Comes(id)) /\ (Goes(id)' <=> Goes(id) \/ id = n)
    BY <1>2, <1>5, <1>8, <2>1 DEF Comes, Goes, RootIs, Root
  <2>3. RootIs({"stop"})' <=> RootIs({"stop"})
    BY <1>2 DEF RootIs, Root
  <2> QED BY <1>2, <1>5, <2>2, <2>3 DEF LayerInv, WantedOK
<1> QED BY <1>10, <1>11, <1>12, <1>13, <1>14, <1>15, <1>17, <1>18 DEF LayerInv

(* Outside of a traversal no callback is the outermost.                      *)
LEMMA NoRoot ==
    /\ ~Traversing =>
         /\ frames = <<>> /\ ~RootIs({"existing"}) /\ ~RootIs({"insert"}) /\ ~RootIs({"remove"}) /\ ~RootIs({"stop"})
         /\ ~RootIs({"existing", "insert"}) /\ ~RootIs({"remove", "stop"})
         /\ ~RootIs({"insert", "remove", "update", "dispatch"})
    /\ frames' = <<>> =>
         /\ ~RootIs({"existing"})' /\ ~RootIs({"insert"})' /\ ~RootIs({"remove"})' /\ ~RootIs({"stop"})'
         /\ ~RootIs({"existing", "insert"})' /\ ~RootIs({"remove", "stop"})'
         /\ ~RootIs({"insert", "remove", "update", "dispatch"})'
  BY DEF RootIs, Traversing

(* No callback runs, no layer is half attached.                              *)
LEMMA QuietFacts ==
    ASSUME LayerInv, ~Traversing
    PROVE  bound = attached /\ attached \subseteq Layers /\ Base = overlayStart
<1>1. attached \subseteq bound /\ bound \subseteq Layers /\ \A id \in bound \ attached : FALSE
  BY NoRoot DEF LayerInv, AttachedOK
<1>2. Base = overlayStart
  BY NoRoot DEF LayerInv, Typed, Base
<1> QED BY <1>1, <1>2

(* A step that keeps the layers and the callbacks and that only moves        *)
(* between the parts of a boundary.                                          *)
LEMMA BoundaryStep ==
    ASSUME LayerInv, ~Traversing,
           UNCHANGED <<stack, nextId, overlays, frames, failed, wanted, repeated, ever>>,
           stage' = "active" /\ stage # "stopped", boundary' \in {"none", "attach", "apply"}, ~failed,
           boundary' # "attach" => Layers \subseteq attached \/ (boundary = "apply" /\ stage = "active"),
           pending' \in Seq(Operation), batch' \in Seq(Operation),
           boundary' = "none" => batch' = <<>>,
           BatchWaits', WaitingOK', \A id : (Comes(id)' <=> Comes(id)) /\ (Goes(id)' <=> Goes(id))
    PROVE  LayerInv'
<1>1. /\ UNCHANGED <<layers, attached, overlayStart, bound>>
      /\ UNCHANGED <<nextId, overlays, frames, failed>>
      /\ UNCHANGED <<wanted, repeated, ever>>
  BY DEF stack
<1>2. Layers' = Layers /\ Given' = Given /\ frames' = <<>> /\ frames = <<>>
  BY <1>1 DEF Layers, Given, Traversing
<1>3. Typed' /\ IdsOK'
  BY <1>1, <1>2 DEF LayerInv, Typed, IdsOK
<1>4. FramesOK'
  BY <1>2 DEF FramesOK
<1>5. ControlOK'
  BY <1>1, <1>2, NoRoot DEF ControlOK
<1>6. AttachedOK'
  <2>1. bound = attached /\ attached \subseteq Layers /\ ever \cap Layers \subseteq attached
    BY QuietFacts DEF LayerInv, AttachedOK
  <2>2. boundary = "apply" /\ stage = "active" => Layers \subseteq bound
    BY DEF LayerInv, AttachedOK
  <2> QED BY <1>1, <1>2, <2>1, <2>2, NoRoot DEF AttachedOK
<1>7. OverlaysOK'
  <2>1. Base' = Base
    BY <1>1, <1>2, NoRoot DEF Base
  <2> QED BY <1>1, <2>1 DEF LayerInv, OverlaysOK
<1>8. WantedOK'
  BY <1>1, NoRoot DEF LayerInv, WantedOK
<1> QED BY <1>3, <1>4, <1>5, <1>6, <1>7, <1>8 DEF LayerInv

(* A boundary begins.                                                        *)
LEMMA BoundaryBegins == LayerInv /\ BeginBoundary => LayerInv'
<1> SUFFICES ASSUME LayerInv, BeginBoundary PROVE LayerInv'
  OBVIOUS
<1>1. /\ ~Traversing /\ boundary = "none" /\ ~failed /\ stage # "stopped"
      /\ stage' = "active" /\ boundary' = "attach" /\ batch' = pending /\ pending' = pending
      /\ UNCHANGED <<stack, pending, nextId, overlays, frames, failed, wanted, repeated, ever>>
  BY DEF BeginBoundary, Idle
<1>2. Layers' = Layers /\ Given' = Given /\ ever' = ever /\ frames' = frames
  BY <1>1 DEF Layers, Given, stack
<1>3. UNCHANGED <<stack, nextId, overlays, frames, failed, wanted, repeated, ever>>
  BY <1>1
<1>4. pending \in Seq(Operation) /\ Len(pending) \in Nat
  BY RequestFacts
<1>5. BatchWaits'
  BY <1>1, <1>4 DEF BatchWaits
<1>6. WaitingOK'
  BY <1>1, <1>2 DEF LayerInv, WaitingOK, RequestsOK
<1>7. \A id : (Comes(id)' <=> Comes(id)) /\ (Goes(id)' <=> Goes(id))
  BY <1>1, <1>2 DEF Comes, Goes, Adds, Removes, RootIs, Root
<1> QED BY <1>1, <1>3, <1>4, <1>5, <1>6, <1>7, BoundaryStep

(* What waited when it began is taken.                                       *)
LEMMA OperationsTaken == LayerInv /\ TakeOperations => LayerInv'
<1> SUFFICES ASSUME LayerInv, TakeOperations PROVE LayerInv'
  OBVIOUS
<1>1. /\ ~Traversing /\ boundary = "attach" /\ boundary' = "apply" /\ stage' = stage /\ Unattached = {}
      /\ UNCHANGED <<stack, nextId, overlays, frames, stage, failed, wanted, repeated, ever>>
  BY DEF TakeOperations
<1>2. Layers' = Layers /\ Given' = Given /\ ever' = ever /\ frames' = frames
  BY <1>1 DEF Layers, Given, stack
<1>3. UNCHANGED <<stack, nextId, overlays, frames, failed, wanted, repeated, ever>>
  BY <1>1
<1>4. stage = "active" /\ ~failed /\ Len(batch) \in 0..Len(pending)
  BY <1>1, RequestFacts DEF LayerInv, ControlOK, BatchWaits
<1>5. PICK n \in 0..Len(pending) : n = Len(batch)
  BY <1>4
<1>6. PICK q \in Seq(Operation) : q = pending
  BY RequestFacts
<1> DEFINE a == SubSeq(q, 1, n)
           b == SubSeq(q, n + 1, Len(q))
<1>7. /\ a \in Seq(Operation) /\ b \in Seq(Operation) /\ Thins(a, pending) /\ Thins(b, pending)
      /\ ToSet(pending) = ToSet(a) \cup ToSet(b)
      /\ \A i \in DOMAIN a : \A k \in DOMAIN b : \E l, m \in DOMAIN pending : l < m /\ a[i] = pending[l] /\ b[k] = pending[m]
  <2>1. n \in 0..Len(q)
    BY <1>6
  <2>2. /\ a \in Seq(Operation) /\ b \in Seq(Operation) /\ Thins(a, q) /\ Thins(b, q) /\ ToSet(q) = ToSet(a) \cup ToSet(b)
        /\ \A i \in DOMAIN a : \A k \in DOMAIN b : \E l, m \in DOMAIN q : l < m /\ a[i] = q[l] /\ b[k] = q[m]
    BY <2>1, Split
  <2> HIDE DEF a, b
  <2> QED BY <1>6, <2>2
<1> HIDE DEF a, b
<1>8. batch' = a /\ pending' = b
  BY <1>5, <1>6 DEF TakeOperations, Taken, NotTaken, a, b
<1>9. RequestsOK(a) /\ RequestsOK(b) /\ RequestsOK(pending)
  BY <1>7, RequestFacts, ThinsRequests DEF LayerInv, WaitingOK
<1>10. ASSUME NEW i \in DOMAIN a, NEW k \in DOMAIN b, b[k].kind = "add" PROVE a[i].id # b[k].id
  <2>1. PICK l \in DOMAIN pending, m \in DOMAIN pending : l < m /\ a[i] = pending[l] /\ b[k] = pending[m]
    BY <1>7
  <2>2. l \in Nat /\ m \in Nat
    BY RequestFacts
  <2>3. pending[l].id = pending[m].id => m < l
    BY <1>9, <1>10, <2>1, <2>2 DEF RequestsOK
  <2> QED BY <2>1, <2>2, <2>3
<1>11. WaitingOK'
  <2>1. RequestsOK(a)' /\ RequestsOK(b)'
    BY <1>2, <1>9 DEF RequestsOK
  <2> QED BY <1>8, <1>10, <2>1 DEF WaitingOK
<1>12. BatchWaits'
  BY <1>1 DEF BatchWaits
<1>13. \A id : (Comes(id)' <=> Comes(id)) /\ (Goes(id)' <=> Goes(id))
  <2>1. Adds(pending) = Adds(a) \cup Adds(b) /\ Removes(pending) = Removes(a) \cup Removes(b)
    <3>1. ToSet(q) = ToSet(a) \cup ToSet(b)
      BY <1>6, <1>7
    <3> QED BY <1>6, <3>1, Joined
  <2>2. ~RootIs({"remove"}) /\ ~RootIs({"remove"})'
    BY <1>1, <1>2, NoRoot
  <2> QED BY <1>1, <1>2, <1>8, <2>1, <2>2 DEF Comes, Goes
<1>14. Layers \subseteq attached
  BY <1>1 DEF Unattached, Layers
<1> QED BY <1>1, <1>3, <1>4, <1>7, <1>8, <1>11, <1>12, <1>13, <1>14, BoundaryStep

(* A boundary ends.                                                          *)
LEMMA BoundaryEnds == LayerInv /\ EndBoundary => LayerInv'
<1> SUFFICES ASSUME LayerInv, EndBoundary PROVE LayerInv'
  OBVIOUS
<1>1. /\ ~Traversing /\ boundary = "apply" /\ batch = <<>> /\ boundary' = "none" /\ stage' = stage
      /\ batch' = batch /\ pending' = pending
      /\ UNCHANGED <<stack, pending, nextId, overlays, frames, stage, batch, failed, wanted, repeated, ever>>
  BY DEF EndBoundary
<1>2. Layers' = Layers /\ Given' = Given /\ ever' = ever /\ frames' = frames
  BY <1>1 DEF Layers, Given, stack
<1>3. UNCHANGED <<stack, nextId, overlays, frames, failed, wanted, repeated, ever>>
  BY <1>1
<1>4. stage = "active" /\ ~failed /\ pending \in Seq(Operation) /\ batch \in Seq(Operation)
  BY <1>1, RequestFacts DEF LayerInv, ControlOK
<1>5. BatchWaits'
  BY <1>1 DEF BatchWaits
<1>6. WaitingOK'
  BY <1>1, <1>2 DEF LayerInv, WaitingOK, RequestsOK
<1>7. \A id : (Comes(id)' <=> Comes(id)) /\ (Goes(id)' <=> Goes(id))
  <2>1. Adds(batch) = {} /\ Removes(batch) = {}
    BY <1>1 DEF Adds, Removes
  <2> QED BY <1>1, <1>2, <2>1 DEF Comes, Goes, RootIs, Root
<1> QED BY <1>1, <1>3, <1>4, <1>5, <1>6, <1>7, BoundaryStep

(* A layer that was pushed before the stack was active is attached.          *)
LEMMA ExistingAttached == LayerInv /\ AttachExisting => LayerInv'
<1> SUFFICES ASSUME LayerInv, AttachExisting PROVE LayerInv'
  OBVIOUS
<1>1. /\ ~Traversing /\ boundary = "attach" /\ frames = <<>>
      /\ UNCHANGED <<layers, attached, overlayStart, pending, nextId, overlays, control, wanted, repeated, ever>>
  BY DEF AttachExisting, Traversing
<1>2. /\ UNCHANGED <<layers, attached, overlayStart, pending, nextId, overlays>>
      /\ UNCHANGED <<stage, boundary, batch, failed, wanted, repeated, ever>>
  BY <1>1 DEF control
<1>3. Layers' = Layers /\ Given' = Given
  BY <1>2 DEF Layers, Given
<1>4. PICK i \in DOMAIN layers : /\ layers[i] \notin attached /\ bound' = bound \cup {layers[i]}
                                /\ Enter("existing", i, layers[i])
  BY DEF AttachExisting, Unattached
<1>5. PICK id \in Id : id = layers[i] /\ id \in Layers
  BY LayersFacts
<1>6. i \in Nat /\ Enter("existing", i, id) /\ id \notin attached /\ bound' = bound \cup {id}
  BY <1>4, <1>5, LayersFacts
<1>7. /\ frames' \in Seq(Frame) /\ frames' # <<>> /\ DOMAIN frames' = {1} /\ Root' = frames'[1]
      /\ Root' = [kind |-> "existing", at |-> i, id |-> id, mark |-> Len(pending)]
  BY <1>1, <1>6, EnterFacts
<1>8. Root'.kind = "existing" /\ Root'.at = i /\ Root'.id = id /\ Root'.mark = Len(pending) /\ frames'[1] = Root'
  BY <1>7
<1>9. /\ RootIs({"existing"})' /\ ~RootIs({"insert"})' /\ ~RootIs({"remove"})' /\ ~RootIs({"stop"})'
      /\ RootIs({"existing", "insert"})' /\ ~RootIs({"remove", "stop"})'
      /\ ~RootIs({"insert", "remove", "update", "dispatch"})'
  BY <1>7, <1>8 DEF RootIs
<1>10. stage = "active" /\ ~failed
  BY <1>1 DEF LayerInv, ControlOK
<1>11. Typed' /\ IdsOK' /\ BatchWaits'
  BY <1>2, <1>3, <1>7 DEF LayerInv, Typed, IdsOK, BatchWaits
<1>12. FramesOK'
  <2>1. Len(pending) <= Len(pending)
    BY RequestFacts
  <2> QED BY <1>2, <1>5, <1>7, <1>8, <2>1 DEF FramesOK
<1>13. ControlOK'
  BY <1>1, <1>2, <1>9, <1>10 DEF ControlOK
<1>14. AttachedOK'
  <2>1. bound = attached /\ attached \subseteq Layers /\ ever \cap Layers \subseteq attached
    BY <1>1, <1>10, QuietFacts DEF LayerInv, AttachedOK
  <2> QED BY <1>1, <1>2, <1>3, <1>5, <1>6, <1>8, <1>9, <1>10, <2>1 DEF AttachedOK
<1>15. OverlaysOK'
  <2>1. Base' = Base
    BY <1>1, <1>2, <1>9, NoRoot DEF Base
  <2> QED BY <1>2, <2>1 DEF LayerInv, OverlaysOK
<1>16. WaitingOK'
  BY <1>2, <1>3 DEF LayerInv, WaitingOK, RequestsOK
<1>17. WantedOK'
  <2>1. \A x : (Comes(x)' <=> Comes(x)) /\ (Goes(x)' <=> Goes(x))
    BY <1>1, <1>2, <1>3, <1>9, NoRoot DEF Comes, Goes, Adds, Removes
  <2> QED BY <1>1, <1>2, <1>9, <2>1, NoRoot DEF LayerInv, WantedOK
<1> QED BY <1>11, <1>12, <1>13, <1>14, <1>15, <1>16, <1>17 DEF LayerInv

-----------------------------------------------------------------------------
(* Layers enter the stack. *)

(* Where a layer is put, and what that makes of the overlays.                *)
LEMMA PlaceFacts ==
    ASSUME LayerInv, ~Traversing, NEW id \in Id, NEW overlay \in BOOLEAN, id \notin Layers,
           layers' = InsertAt(layers, Place(overlay), id),
           overlay <=> id \in overlays', overlays' \ {id} = overlays \ {id}
    PROVE  /\ Place(overlay) \in Nat /\ layers' \in Seq(Id) /\ Len(layers') = Len(layers) + 1
           /\ Place(overlay) \in DOMAIN layers' /\ layers'[Place(overlay)] = id
           /\ Layers' = Layers \cup {id} /\ Distinct(layers')
           /\ Grown(overlay) \in Nat /\ Behind(layers', overlays', Grown(overlay))
<1>1. PICK s \in Seq(Id), O \in {overlays'}, b \in Nat : s = layers /\ b = overlayStart
  BY LayersFacts DEF LayerInv, Typed
<1>2. Distinct(s) /\ Layers = ToSet(s) /\ Behind(s, overlays, b) /\ Len(s) \in Nat
  BY <1>1, LayersFacts, QuietFacts
<1>3. id \notin ToSet(s) /\ \A i \in 1..Len(s) : s[i] # id
  BY <1>1, <1>2, LayersFacts
<1>4. Behind(s, O, b)
  <2>1. \A i \in 1..Len(s) : s[i] \in O <=> s[i] \in overlays
    BY <1>1, <1>3
  <2> QED BY <1>2, <2>1 DEF Behind
<1>5. PICK x \in 1..(Len(s) + 1) : x = Place(overlay) /\ x = IF overlay THEN Len(s) + 1 ELSE b + 1
  BY <1>1, <1>2 DEF Place, Behind
<1>6. PICK r \in Seq(Id) : r = InsertAt(s, x, id)
  BY <1>2, <1>3, Grows
<1>7. /\ Len(r) = Len(s) + 1 /\ x \in DOMAIN r /\ r[x] = id /\ ToSet(r) = ToSet(s) \cup {id} /\ Distinct(r)
      /\ id \notin O /\ x = b + 1 => Behind(r, O, b + 1)
      /\ id \in O /\ x = Len(s) + 1 => Behind(r, O, b)
  BY <1>2, <1>3, <1>4, <1>6, Grows
<1>8. layers' = r
  BY <1>1, <1>5, <1>6
<1>9. Layers' = ToSet(r)
  BY <1>8 DEF Layers, ToSet
<1>10. PICK g \in Nat : g = Grown(overlay) /\ g = IF overlay THEN b ELSE b + 1
  BY <1>1 DEF Grown
<1>11. Behind(r, O, g)
  <2>1. CASE overlay
    BY <1>1, <1>5, <1>7, <1>10, <2>1
  <2>2. CASE ~overlay
    BY <1>1, <1>5, <1>7, <1>10, <2>2
  <2> QED BY <2>1, <2>2
<1> QED BY <1>1, <1>2, <1>5, <1>7, <1>8, <1>9, <1>10, <1>11

(* What the vectors' facts say of the invariant.                             *)
LEMMA DistinctIds ==
    ASSUME NEW s \in Seq(Id), Distinct(s)
    PROVE  \A i, k \in DOMAIN s : s[i] = s[k] => i = k
  BY LenProperties DEF Distinct

(* A layer is inserted and its OnAttach begins.                              *)
LEMMA InsertStep ==
    ASSUME LayerInv, ~Traversing, NEW id \in Id, NEW overlay \in BOOLEAN, Insert(id, overlay),
           id \notin Layers \cup ever, stage = "active", boundary # "attach", ~failed,
           UNCHANGED <<stage, boundary, failed, pending, ever>>,
           overlay <=> id \in overlays', overlays' \ {id} = overlays \ {id}
    PROVE  /\ layers' \in Seq(Id) /\ frames' \in Seq(Frame) /\ Layers' = Layers \cup {id} /\ overlayStart' = overlayStart
           /\ \A i, k \in DOMAIN layers' : layers'[i] = layers'[k] => i = k
           /\ FramesOK' /\ AttachedOK' /\ OverlaysOK'
           /\ frames' # <<>> /\ ~RootIs({"existing"})' /\ ~RootIs({"remove"})' /\ ~RootIs({"stop"})'
<1>1. /\ layers' = InsertAt(layers, Place(overlay), id)
      /\ bound' = bound \cup {id} /\ attached' = attached /\ overlayStart' = overlayStart
      /\ Enter("insert", Place(overlay), id)
  BY DEF Insert
<1>2. /\ stage' = "active" /\ boundary' # "attach" /\ ~failed' /\ pending' = pending /\ ever' = ever /\ frames = <<>>
  BY DEF Traversing
<1>3. /\ Place(overlay) \in Nat /\ layers' \in Seq(Id) /\ Len(layers') = Len(layers) + 1
      /\ Place(overlay) \in DOMAIN layers' /\ layers'[Place(overlay)] = id
      /\ Layers' = Layers \cup {id} /\ Distinct(layers')
      /\ Grown(overlay) \in Nat /\ Behind(layers', overlays', Grown(overlay))
  BY <1>1, PlaceFacts
<1>4. PICK x \in Nat : x = Place(overlay)
  BY <1>3
<1>5. /\ frames' \in Seq(Frame) /\ frames' # <<>> /\ DOMAIN frames' = {1} /\ Root' = frames'[1]
      /\ Root' = [kind |-> "insert", at |-> x, id |-> id, mark |-> Len(pending)]
  BY <1>1, <1>2, <1>4, EnterFacts
<1>6. Root'.kind = "insert" /\ Root'.at = x /\ Root'.id = id /\ Root'.mark = Len(pending) /\ frames'[1] = Root'
  BY <1>5
<1>7. /\ ~RootIs({"existing"})' /\ RootIs({"insert"})' /\ ~RootIs({"remove"})' /\ ~RootIs({"stop"})'
      /\ RootIs({"existing", "insert"})' /\ ~RootIs({"remove", "stop"})'
  BY <1>5, <1>6 DEF RootIs
<1>8. FramesOK'
  <2>1. Len(pending) <= Len(pending)
    BY RequestFacts
  <2> QED BY <1>2, <1>3, <1>4, <1>5, <1>6, <2>1 DEF FramesOK
<1>9. AttachedOK'
  <2>1. /\ bound = attached /\ attached \subseteq Layers /\ ever \cap Layers \subseteq attached
        /\ Layers \subseteq bound
    BY QuietFacts DEF LayerInv, AttachedOK
  <2> QED BY <1>1, <1>2, <1>3, <1>6, <1>7, <2>1 DEF AttachedOK
<1>10. OverlaysOK'
  <2>1. Base' = Grown(overlay)
    <3>1. CASE overlay
      BY <1>1, <1>6, <1>7, <3>1 DEF Base, Grown, LayerInv, Typed
    <3>2. CASE ~overlay
      BY <1>1, <1>6, <1>7, <3>2 DEF Base, Grown
    <3> QED BY <3>1, <3>2
  <2>2. DOMAIN layers' = 1..Len(layers')
    BY <1>3, LenProperties
  <2> QED BY <1>3, <2>1, <2>2 DEF OverlaysOK, Behind
<1>11. \A i, k \in DOMAIN layers' : layers'[i] = layers'[k] => i = k
  BY <1>3, DistinctIds
<1> QED BY <1>1, <1>3, <1>5, <1>7, <1>8, <1>9, <1>10, <1>11

(* PushLayer and PushOverlay.                                                *)
LEMMA Pushes == LayerInv /\ (\E overlay \in BOOLEAN : Push(overlay)) => LayerInv'
<1> SUFFICES ASSUME LayerInv, NEW overlay \in BOOLEAN, Push(overlay) PROVE LayerInv'
  OBVIOUS
<1>1. /\ ~Traversing /\ boundary = "none" /\ ~failed
      /\ UNCHANGED <<pending, stage, boundary, batch, failed>> /\ UNCHANGED <<repeated, ever>>
  BY DEF Push, Idle, control
<1>2. PICK n \in Id : /\ n = nextId /\ nextId' = n + 1 /\ wanted' = wanted \cup {n}
                     /\ overlays' = IF overlay THEN overlays \cup {n} ELSE overlays
  <2>1. nextId \in Id
    BY BoundsAssumption DEF Push, Create, LayerInv, Typed, Id
  <2>2. PICK n \in Id : n = nextId
    BY <2>1
  <2> QED BY <2>2 DEF Push, Create
<1>3. n \notin Given /\ Given' = Given \cup {n} /\ n \in 1..MaxId
  BY <1>2 DEF Given, Id
<1>4. n \notin Layers \cup ever \cup overlays
  BY <1>3 DEF LayerInv, IdsOK
<1>5. (overlay <=> n \in overlays') /\ overlays' \ {n} = overlays \ {n} /\ overlays' \subseteq overlays \cup {n}
  BY <1>2, <1>4
<1>6. (Active /\ Insert(n, overlay)) \/ (/\ ~Active /\ layers' = InsertAt(layers, Place(overlay), n)
                                        /\ overlayStart' = Grown(overlay) /\ UNCHANGED <<attached, bound, frames>>)
  BY <1>2 DEF Push
<1>7. /\ layers' \in Seq(Id) /\ overlayStart' \in Nat /\ frames' \in Seq(Frame) /\ Layers' = Layers \cup {n}
      /\ \A i, k \in DOMAIN layers' : layers'[i] = layers'[k] => i = k
      /\ FramesOK' /\ AttachedOK' /\ OverlaysOK'
      /\ ~RootIs({"existing"})' /\ ~RootIs({"remove"})' /\ ~RootIs({"stop"})'
      /\ frames' # <<>> => stage = "active"
  <2>1. CASE Active /\ Insert(n, overlay)
    <3>1. stage = "active" /\ boundary # "attach" /\ UNCHANGED <<stage, boundary, failed, pending, ever>>
      BY <1>1, <2>1 DEF Active
    <3> QED BY <1>1, <1>4, <1>5, <2>1, <3>1, InsertStep DEF LayerInv, Typed
  <2>2. CASE /\ ~Active /\ layers' = InsertAt(layers, Place(overlay), n)
             /\ overlayStart' = Grown(overlay) /\ UNCHANGED <<attached, bound, frames>>
    <3>1. /\ layers' \in Seq(Id) /\ Layers' = Layers \cup {n} /\ Distinct(layers')
          /\ Grown(overlay) \in Nat /\ Behind(layers', overlays', Grown(overlay))
      BY <1>1, <1>4, <1>5, <2>2, PlaceFacts
    <3>2. frames' = <<>> /\ frames = <<>> /\ stage # "active" /\ frames' \in Seq(Frame)
      BY <1>1, <2>2 DEF Active, Traversing, LayerInv, Typed
    <3>3. FramesOK'
      BY <3>2 DEF FramesOK
    <3>4. AttachedOK'
      <4>1. /\ bound = attached /\ attached \subseteq Layers /\ (stage # "stopped" => ever \cap Layers \subseteq attached)
            /\ (stage = "created" => attached = {}) /\ (stage = "stopped" => attached = {})
        BY <1>1, <3>2, QuietFacts DEF LayerInv, AttachedOK
      <4> QED BY <1>1, <1>4, <2>2, <3>1, <3>2, <4>1, NoRoot DEF AttachedOK
    <3>5. OverlaysOK'
      <4>1. Base' = Grown(overlay)
        BY <2>2, <3>1, <3>2, NoRoot DEF Base
      <4>2. DOMAIN layers' = 1..Len(layers')
        BY <3>1, LenProperties
      <4> QED BY <3>1, <4>1, <4>2 DEF OverlaysOK, Behind
    <3>6. \A i, k \in DOMAIN layers' : layers'[i] = layers'[k] => i = k
      BY <3>1, DistinctIds
    <3> QED BY <2>2, <3>1, <3>2, <3>3, <3>4, <3>5, <3>6, NoRoot
  <2> QED BY <1>6, <2>1, <2>2
<1>8. Typed'
  <2>1. nextId' \in 1..(MaxId + 1)
    BY <1>2, <1>3, BoundsAssumption
  <2> QED BY <1>1, <1>7, <2>1 DEF LayerInv, Typed
<1>9. IdsOK'
  BY <1>1, <1>3, <1>5, <1>7 DEF LayerInv, IdsOK
<1>10. ControlOK' /\ BatchWaits'
  <2>1. RootIs({"insert", "remove", "update", "dispatch"})' => frames' # <<>>
    BY DEF RootIs
  <2> QED BY <1>1, <1>7, <2>1 DEF LayerInv, ControlOK, BatchWaits
<1>11. WaitingOK'
  <2>1. \A i \in DOMAIN pending : pending[i].id # n /\ pending[i].id \in Given
    BY <1>3, RequestFacts
  <2>2. RequestsOK(pending)'
    BY <1>1, <1>3, <1>7, <2>1 DEF LayerInv, WaitingOK, RequestsOK
  <2> QED BY <1>1, <2>2 DEF WaitingOK
<1>12. WantedOK'
  <2>1. \A id : (Comes(id)' <=> Comes(id) \/ id = n) /\ (Goes(id)' <=> Goes(id))
    BY <1>1, <1>7, NoRoot DEF Comes, Goes, Adds, Removes
  <2>2. ~Goes(n)
    BY <1>1, <1>3, RequestFacts DEF Goes
  <2>3. \A id : id \notin repeated => (id \in wanted <=> Comes(id) /\ ~Goes(id))
    BY <1>1, NoRoot DEF LayerInv, WantedOK
  <2> QED BY <1>1, <1>2, <2>1, <2>2, <2>3 DEF WantedOK
<1> QED BY <1>7, <1>8, <1>9, <1>10, <1>11, <1>12 DEF LayerInv

(* A boundary applies a request of a callback: the first of those it took.   *)
LEMMA BatchHead ==
    ASSUME LayerInv, boundary = "apply", batch # <<>>, batch' = Tail(batch)
    PROVE  /\ Head(batch) \in Operation /\ batch' \in Seq(Operation) /\ Head(batch).id \in Given
           /\ Head(batch).id \notin Adds(pending)
           /\ RequestsOK(batch') /\ ToSet(batch') \subseteq ToSet(batch)
           /\ Head(batch).kind = "add" =>
                 /\ Head(batch).id \notin Layers \cup ever
                 /\ \A k \in DOMAIN batch' : batch'[k].id = Head(batch).id => batch'[k].kind = "remove"
           /\ Head(batch).kind = "remove" =>
                 \A k \in DOMAIN batch' : batch'[k].id = Head(batch).id => batch'[k].kind = "remove"
           /\ Head(batch).kind = "add" => Adds(batch) = Adds(batch') \cup {Head(batch).id} /\ Removes(batch) = Removes(batch')
           /\ Head(batch).kind = "remove" => Removes(batch) = Removes(batch') \cup {Head(batch).id} /\ Adds(batch) = Adds(batch')
           /\ \A i \in DOMAIN batch' : \A k \in DOMAIN pending : pending[k].kind = "add" => batch'[i].id # pending[k].id
<1>1. PICK q \in Seq(Operation) : q = batch
  BY RequestFacts
<1>2. PICK h \in Operation : h = Head(q) /\ h = q[1] /\ 1 \in DOMAIN q
  BY <1>1, Tails
<1>3. PICK r \in Seq(Operation) : r = Tail(q)
  BY <1>1, Tails
<1>4. /\ Thins(r, q) /\ ToSet(q) = ToSet(r) \cup {h} /\ \A k \in DOMAIN r : \E m \in DOMAIN q : m > 1 /\ r[k] = q[m]
  BY <1>1, <1>2, <1>3, Tails
<1>5. RequestsOK(q) /\ RequestsOK(r)
  BY <1>1, <1>4, ThinsRequests DEF LayerInv, WaitingOK
<1>6. ASSUME NEW k \in DOMAIN r, r[k].id = h.id PROVE r[k].kind = "remove"
  <2>1. PICK m \in DOMAIN q : m > 1 /\ r[k] = q[m] /\ q[m] \in Operation
    BY <1>4, ElementOfSeq
  <2>2. ASSUME q[m].kind = "add" PROVE FALSE
    <3>1. m \in Nat /\ m # 1 /\ q[1].id = q[m].id
      BY <1>2, <1>6, <2>1, LenProperties
    <3>2. m < 1
      BY <1>2, <1>5, <2>1, <2>2, <3>1 DEF RequestsOK
    <3> QED BY <2>1, <3>1, <3>2
  <2> QED BY <2>1, <2>2 DEF Operation
<1>7. /\ h.kind = "add" => Adds(q) = Adds(r) \cup {h.id} /\ Removes(q) = Removes(r)
      /\ h.kind = "remove" => Removes(q) = Removes(r) \cup {h.id} /\ Adds(q) = Adds(r)
  <2>1. ToSet(q) = ToSet(r) \cup {h}
    BY <1>4
  <2>2. CASE h.kind = "add"
    BY <2>1, <2>2, JoinedAdd
  <2>3. CASE h.kind = "remove"
    BY <2>1, <2>3, JoinedRemove
  <2> QED BY <2>2, <2>3
<1>8. h.id \in Given /\ (h.kind = "add" => h.id \notin Layers \cup ever)
  BY <1>2, <1>5 DEF RequestsOK
<1>9. \A m \in DOMAIN q : q[m].id \notin Adds(pending) /\ \A k \in DOMAIN pending : pending[k].kind = "add" => q[m].id # pending[k].id
  <2>1. \A m \in DOMAIN q : q[m].id \notin Adds(pending)
    BY <1>1, RequestFacts
  <2>2. \A m \in DOMAIN q : \A k \in DOMAIN pending : pending[k].kind = "add" => q[m].id # pending[k].id
    BY <1>1 DEF LayerInv, WaitingOK
  <2> QED BY <2>1, <2>2
<1>10. \A i \in DOMAIN r : \A k \in DOMAIN pending : pending[k].kind = "add" => r[i].id # pending[k].id
  BY <1>4, <1>9
<1>11. Head(batch) = h /\ batch' = r /\ batch = q
  BY <1>1, <1>2, <1>3
<1> QED BY <1>2, <1>4, <1>5, <1>6, <1>7, <1>8, <1>9, <1>10, <1>11, ZenonT(40)

(* A boundary inserts a layer that a callback pushed.                        *)
LEMMA AdditionApplied == LayerInv /\ ApplyOperation /\ Head(batch).kind = "add" => LayerInv'
<1> SUFFICES ASSUME LayerInv, ApplyOperation, Head(batch).kind = "add" PROVE LayerInv'
  OBVIOUS
<1>1. /\ ~Traversing /\ boundary = "apply" /\ batch # <<>> /\ batch' = Tail(batch)
      /\ UNCHANGED <<nextId, overlays, stage, boundary, failed, wanted, ever>>
      /\ Insert(Head(batch).id, Head(batch).id \in overlays) /\ UNCHANGED <<pending, repeated>>
  BY DEF ApplyOperation
<1>2. /\ Head(batch) \in Operation /\ batch' \in Seq(Operation) /\ Head(batch).id \in Given
      /\ Head(batch).id \notin Adds(pending)
      /\ RequestsOK(batch')
      /\ Head(batch).id \notin Layers \cup ever
      /\ \A k \in DOMAIN batch' : batch'[k].id = Head(batch).id => batch'[k].kind = "remove"
      /\ Adds(batch) = Adds(batch') \cup {Head(batch).id} /\ Removes(batch) = Removes(batch')
      /\ \A i \in DOMAIN batch' : \A k \in DOMAIN pending : pending[k].kind = "add" => batch'[i].id # pending[k].id
  BY <1>1, BatchHead
<1>3. PICK n \in Id : n = Head(batch).id
  BY <1>2 DEF Operation
<1>4. PICK overlay \in BOOLEAN : (overlay <=> n \in overlays) /\ Insert(n, overlay)
  <2>1. CASE n \in overlays
    <3>1. Insert(n, TRUE)
      BY <1>1, <1>3, <2>1 DEF Insert, Place
    <3> QED BY <2>1, <3>1
  <2>2. CASE n \notin overlays
    <3>1. Insert(n, FALSE)
      BY <1>1, <1>3, <2>2 DEF Insert, Place
    <3> QED BY <2>2, <3>1
  <2> QED BY <2>1, <2>2
<1>5. Insert(n, overlay) /\ (overlay <=> n \in overlays') /\ overlays' \ {n} = overlays \ {n}
  BY <1>1, <1>4
<1>6. stage = "active" /\ ~failed /\ boundary # "attach" /\ UNCHANGED <<stage, boundary, failed, pending, ever>>
  BY <1>1 DEF LayerInv, ControlOK
<1>7. /\ layers' \in Seq(Id) /\ frames' \in Seq(Frame) /\ Layers' = Layers \cup {n} /\ overlayStart' = overlayStart
      /\ \A i, k \in DOMAIN layers' : layers'[i] = layers'[k] => i = k
      /\ FramesOK' /\ AttachedOK' /\ OverlaysOK'
      /\ frames' # <<>> /\ ~RootIs({"existing"})' /\ ~RootIs({"remove"})' /\ ~RootIs({"stop"})'
  BY <1>1, <1>2, <1>3, <1>5, <1>6, InsertStep
<1>8. Given' = Given
  BY <1>1 DEF Given
<1>9. Typed' /\ IdsOK'
  BY <1>1, <1>2, <1>3, <1>7, <1>8 DEF LayerInv, Typed, IdsOK
<1>10. ControlOK' /\ BatchWaits'
  BY <1>1, <1>6, <1>7 DEF ControlOK, BatchWaits
<1>11. WaitingOK'
  <2>1. PICK r \in Seq(Operation) : r = batch'
    BY <1>2
  <2>2. RequestsOK(r) /\ \A k \in DOMAIN r : r[k].kind = "add" => r[k].id # n
    BY <1>2, <1>3, <2>1
  <2>3. RequestsOK(r)'
    BY <1>1, <1>7, <1>8, <2>2 DEF RequestsOK
  <2>4. RequestsOK(pending)'
    <3>1. \A k \in DOMAIN pending : pending[k].kind = "add" => pending[k].id # n
      BY <1>2, <1>3 DEF Adds
    <3> QED BY <1>1, <1>7, <1>8, <3>1 DEF LayerInv, WaitingOK, RequestsOK
  <2> QED BY <1>1, <1>2, <2>1, <2>3, <2>4 DEF WaitingOK
<1>12. WantedOK'
  <2>1. \A id : (Comes(id)' <=> Comes(id)) /\ (Goes(id)' <=> Goes(id))
    <3>1. Adds(batch') = Adds(batch)' /\ Removes(batch') = Removes(batch)' /\ Adds(pending)' = Adds(pending) /\ Removes(pending)' = Removes(pending)
      BY <1>1 DEF Adds, Removes
    <3> QED BY <1>1, <1>2, <1>3, <1>7, <3>1, NoRoot DEF Comes, Goes
  <2> QED BY <1>1, <1>7, <2>1, NoRoot DEF LayerInv, WantedOK
<1> QED BY <1>7, <1>9, <1>10, <1>11, <1>12 DEF LayerInv

-----------------------------------------------------------------------------
(* Layers leave the stack. *)

(* What the erasure of a record makes of the layers and of the overlays.     *)
LEMMA EraseFacts ==
    ASSUME LayerInv, NEW id \in Layers, Erase(id), Base = overlayStart
    PROVE  /\ layers' \in Seq(Id) /\ Layers' = Layers \ {id} /\ overlayStart' \in Nat
           /\ \A i, k \in DOMAIN layers' : layers'[i] = layers'[k] => i = k
           /\ DOMAIN layers' = 1..Len(layers') /\ Behind(layers', overlays, overlayStart')
<1>1. PICK s \in Seq(Id), b \in Nat : s = layers /\ b = overlayStart
  BY LayersFacts DEF LayerInv, Typed
<1>2. Distinct(s) /\ Layers = ToSet(s) /\ Behind(s, overlays, b) /\ DOMAIN s = 1..Len(s)
  BY <1>1, LayersFacts
<1>3. PICK x \in 1..Len(s) : x = Position(id) /\ s[x] = id
  BY <1>1, <1>2, PositionFacts
<1>4. PICK r \in Seq(Id) : r = RemoveAt(s, x)
  BY <1>2, Shrinks
<1>5. /\ ToSet(r) = ToSet(s) \ {id} /\ Distinct(r)
      /\ \A O : Behind(s, O, b) /\ x <= b => Behind(r, O, b - 1)
      /\ \A O : Behind(s, O, b) /\ x > b => Behind(r, O, b)
  BY <1>2, <1>3, <1>4, Shrinks
<1>6. layers' = r /\ overlayStart' = IF x <= b THEN b - 1 ELSE b
  BY <1>1, <1>3, <1>4 DEF Erase
<1>7. Layers' = ToSet(r)
  BY <1>6 DEF Layers, ToSet
<1>8. PICK O \in {overlays} : O = overlays
  OBVIOUS
<1>9. Behind(r, O, overlayStart') /\ overlayStart' \in Nat
  <2>1. CASE x <= b
    <3>1. Behind(r, O, b - 1) /\ b - 1 \in Nat
      BY <1>2, <1>3, <1>5, <1>8, <2>1
    <3> QED BY <1>6, <2>1, <3>1
  <2>2. CASE x > b
    <3>1. Behind(r, O, b) /\ ~(x <= b)
      BY <1>2, <1>3, <1>5, <1>8, <2>2
    <3> QED BY <1>6, <3>1
  <2> QED BY <1>3, <2>1, <2>2
<1>10. \A i, k \in DOMAIN layers' : layers'[i] = layers'[k] => i = k
  BY <1>5, <1>6, DistinctIds
<1> QED BY <1>2, <1>5, <1>6, <1>7, <1>8, <1>9, <1>10, LenProperties

(* The requests the boundary has taken, after one removal of them.           *)
LEMMA BatchLess ==
    ASSUME LayerInv, NEW id,
           \/ boundary = "none" /\ batch' = batch
           \/ /\ boundary = "apply" /\ batch # <<>> /\ batch' = Tail(batch)
              /\ Head(batch).kind = "remove" /\ Head(batch).id = id
    PROVE  /\ batch' \in Seq(Operation)
           /\ boundary = "none" => batch' = <<>>
           /\ boundary = "apply" =>
                 /\ RequestsOK(batch') /\ id \notin Adds(batch') /\ id \notin Adds(pending)
                 /\ Adds(batch) = Adds(batch') /\ Removes(batch) = Removes(batch') \cup {id}
                 /\ \A i \in DOMAIN batch' : \A k \in DOMAIN pending : pending[k].kind = "add" => batch'[i].id # pending[k].id
<1>1. CASE boundary = "none" /\ batch' = batch
  BY <1>1, RequestFacts DEF LayerInv, ControlOK
<1>2. CASE /\ boundary = "apply" /\ batch # <<>> /\ batch' = Tail(batch)
           /\ Head(batch).kind = "remove" /\ Head(batch).id = id
  <2>1. /\ batch' \in Seq(Operation) /\ id \notin Adds(pending) /\ RequestsOK(batch')
        /\ \A k \in DOMAIN batch' : batch'[k].id = id => batch'[k].kind = "remove"
        /\ Removes(batch) = Removes(batch') \cup {id} /\ Adds(batch) = Adds(batch')
        /\ \A i \in DOMAIN batch' : \A k \in DOMAIN pending : pending[k].kind = "add" => batch'[i].id # pending[k].id
    BY <1>2, BatchHead
  <2>2. id \notin Adds(batch')
    BY <2>1 DEF Adds
  <2> QED BY <1>2, <2>1, <2>2
<1> QED BY <1>1, <1>2

(* Remove, in the four cases it has.                                         *)
LEMMA RemoveStep ==
    ASSUME LayerInv, ~Traversing, boundary # "attach", ~failed, NEW id \in Id, RemoveNow(id),
           UNCHANGED <<nextId, overlays, stage, boundary, failed, ever>>,
           \/ boundary = "none" /\ batch' = batch
           \/ /\ boundary = "apply" /\ batch # <<>> /\ batch' = Tail(batch)
              /\ Head(batch).kind = "remove" /\ Head(batch).id = id
    PROVE  /\ Typed' /\ IdsOK' /\ FramesOK' /\ ControlOK' /\ BatchWaits' /\ AttachedOK' /\ OverlaysOK' /\ WaitingOK'
           /\ ~RootIs({"stop"})' /\ ~RootIs({"stop"})
           /\ \A x : x # id => (Comes(x)' <=> Comes(x)) /\ (Goes(x)' <=> Goes(x))
           /\ id \in repeated' \/ ~Comes(id)'
           /\ repeated \subseteq repeated' /\ repeated' \subseteq repeated \cup {id}
<1>1. /\ batch' \in Seq(Operation)
      /\ boundary = "none" => batch' = <<>>
      /\ boundary = "apply" =>
            /\ RequestsOK(batch') /\ id \notin Adds(batch') /\ id \notin Adds(pending)
            /\ Adds(batch) = Adds(batch') /\ Removes(batch) = Removes(batch') \cup {id}
            /\ \A i \in DOMAIN batch' : \A k \in DOMAIN pending : pending[k].kind = "add" => batch'[i].id # pending[k].id
  BY BatchLess
<1>2. /\ boundary \in {"none", "apply"} /\ boundary' = boundary /\ stage' = stage /\ ~failed' /\ nextId' = nextId
      /\ overlays' = overlays /\ ever' = ever /\ Given' = Given /\ frames = <<>>
      /\ boundary # "none" => stage = "active"
  BY DEF LayerInv, Typed, ControlOK, Given, Traversing
<1>3. /\ bound = attached /\ attached \subseteq Layers /\ Base = overlayStart
      /\ stage = "created" => attached = {}
      /\ stage = "stopped" => attached = {}
      /\ stage # "stopped" => ever \cap Layers \subseteq attached
      /\ stage = "active" => Layers \subseteq bound
  BY <1>2, QuietFacts DEF LayerInv, AttachedOK
<1>4. PICK r \in Seq(Operation) : r = batch'
  BY <1>1
<1>5. PICK p \in Seq(Operation) : p = pending /\ RequestsOK(p) /\ DOMAIN p = 1..Len(p)
  BY RequestFacts DEF LayerInv, WaitingOK
<1> DEFINE waiting == {i \in DOMAIN p : p[i].id = id}
           first == CHOOSE i \in waiting : \A j \in waiting : i <= j
<1>6. CASE /\ waiting # {}
           /\ pending' = RemoveAt(p, first)
           /\ repeated' = IF p[first].kind = "remove" THEN repeated \cup {id} ELSE repeated
           /\ UNCHANGED <<stack, frames>>
  <2>1. first \in waiting
    <3>1. waiting \in SUBSET Nat
      BY <1>5
    <3> QED BY <1>6, <3>1, LeastNumber
  <2>2. PICK x \in DOMAIN p : x = first /\ p[x].id = id /\ p[x] \in Operation
    BY <1>5, <2>1, ElementOfSeq
  <2>3. PICK t \in Seq(Operation) : t = RemoveAt(p, x)
    BY <2>2, Without
  <2>4. /\ Thins(t, p) /\ ToSet(p) = ToSet(t) \cup {p[x]} /\ \A i \in DOMAIN t : \E m \in DOMAIN p : m # x /\ t[i] = p[m]
    BY <2>3, Without
  <2>5. pending' = t /\ (p[x].kind = "remove" => repeated' = repeated \cup {id}) /\ (p[x].kind # "remove" => repeated' = repeated)
    BY <1>6, <2>2, <2>3
  <2>6. /\ UNCHANGED <<layers, attached, overlayStart, bound>> /\ frames' = <<>> /\ Layers' = Layers
    BY <1>2, <1>6 DEF stack, Layers
  <2>7. RequestsOK(t)
    BY <1>5, <2>4, ThinsRequests
  <2>8. Typed' /\ IdsOK'
    BY <1>1, <1>2, <2>5, <2>6 DEF LayerInv, Typed, IdsOK
  <2>9. FramesOK' /\ ControlOK' /\ BatchWaits'
    BY <1>1, <1>2, <2>6, NoRoot DEF FramesOK, ControlOK, BatchWaits
  <2>10. AttachedOK'
    BY <1>2, <1>3, <2>6, NoRoot DEF AttachedOK
  <2>11. OverlaysOK'
    <3>1. Base' = Base
      BY <1>3, <2>6, NoRoot DEF Base
    <3> QED BY <1>2, <2>6, <3>1 DEF LayerInv, OverlaysOK
  <2>12. WaitingOK'
    <3>1. RequestsOK(t)' /\ (boundary = "apply" => RequestsOK(r)')
      BY <1>1, <1>2, <1>4, <2>6, <2>7 DEF RequestsOK
    <3>2. boundary = "apply" => \A i \in DOMAIN r : \A k \in DOMAIN t : t[k].kind = "add" => r[i].id # t[k].id
      BY <1>1, <1>4, <1>5, <2>4
    <3> QED BY <1>2, <1>4, <2>5, <3>1, <3>2 DEF WaitingOK
  <2>13. ASSUME NEW y, y # id PROVE (Comes(y)' <=> Comes(y)) /\ (Goes(y)' <=> Goes(y))
    <3>1. (y \in Adds(p) <=> y \in Adds(t)) /\ (y \in Removes(p) <=> y \in Removes(t))
      BY <2>2, <2>4, <2>13, Members, SMTT(30)
    <3>2. boundary = "apply" => (y \in Adds(batch) <=> y \in Adds(r)) /\ (y \in Removes(batch) <=> y \in Removes(r))
      BY <1>1, <1>4, <2>13
    <3>3. /\ Adds(pending)' = Adds(t) /\ Removes(pending)' = Removes(t) /\ Adds(pending) = Adds(p) /\ Removes(pending) = Removes(p)
          /\ Adds(batch)' = Adds(r) /\ Removes(batch)' = Removes(r)
      BY <1>4, <1>5, <2>5 DEF Adds, Removes
    <3> QED BY <1>2, <2>6, <3>1, <3>2, <3>3, NoRoot DEF Comes, Goes
  <2>14. id \in repeated' \/ ~Comes(id)'
    <3>1. CASE p[x].kind = "remove"
      BY <2>5, <3>1
    <3>2. CASE p[x].kind = "add"
      <4>1. id \in Adds(pending)
        BY <1>5, <2>2, <3>2 DEF Adds
      <4>2. boundary = "none"
        BY <1>1, <1>2, <4>1
      <4>3. id \notin Layers /\ \A k \in DOMAIN p : k # x /\ p[k].id = id => p[k].kind = "remove"
        <5>1. p[x].id \notin Layers /\ \A k \in DOMAIN p : k # x /\ p[k].id = p[x].id => p[k].kind = "remove"
          BY <1>5, <3>2 DEF RequestsOK
        <5> QED BY <2>2, <5>1
      <4>4. id \notin Adds(t)
        BY <2>4, <4>3 DEF Adds
      <4>5. Adds(pending)' = Adds(t)
        BY <2>5 DEF Adds
      <4> QED BY <1>2, <2>6, <4>2, <4>3, <4>4, <4>5 DEF Comes
    <3> QED BY <2>2, <3>1, <3>2 DEF Operation
  <2> QED BY <2>5, <2>6, <2>8, <2>9, <2>10, <2>11, <2>12, <2>13, <2>14, NoRoot
<1>7. ASSUME waiting = {}, UNCHANGED <<pending, repeated>>, layers' \in Seq(Id), overlayStart' \in Nat, frames' \in Seq(Frame),
             Layers' \subseteq Layers, Layers \ {id} \subseteq Layers',
             \A i, k \in DOMAIN layers' : layers'[i] = layers'[k] => i = k,
             FramesOK', frames' # <<>> => stage = "active",
             ~RootIs({"existing"})', ~RootIs({"insert"})', ~RootIs({"stop"})',
             RootIs({"remove"})' => Root'.id = id, id \in Layers' => RootIs({"remove"})',
             AttachedOK', OverlaysOK'
      PROVE  /\ Typed' /\ IdsOK' /\ FramesOK' /\ ControlOK' /\ BatchWaits' /\ AttachedOK' /\ OverlaysOK' /\ WaitingOK'
             /\ ~RootIs({"stop"})' /\ ~RootIs({"stop"})
             /\ \A x : x # id => (Comes(x)' <=> Comes(x)) /\ (Goes(x)' <=> Goes(x))
             /\ id \in repeated' \/ ~Comes(id)'
             /\ repeated \subseteq repeated' /\ repeated' \subseteq repeated \cup {id}
  <2>1. Typed' /\ IdsOK'
    BY <1>1, <1>2, <1>7 DEF LayerInv, Typed, IdsOK
  <2>2. ControlOK' /\ BatchWaits'
    <3>1. RootIs({"insert", "remove", "update", "dispatch"})' => frames' # <<>>
      BY DEF RootIs
    <3> QED BY <1>1, <1>2, <1>7, <3>1 DEF ControlOK, BatchWaits
  <2>3. WaitingOK'
    <3>1. RequestsOK(p)' /\ (boundary = "apply" => RequestsOK(r)')
      BY <1>1, <1>2, <1>4, <1>5, <1>7 DEF RequestsOK
    <3> QED BY <1>1, <1>2, <1>4, <1>5, <1>7, <3>1 DEF WaitingOK
  <2>4. /\ Adds(pending)' = Adds(pending) /\ Removes(pending)' = Removes(pending)
        /\ Adds(batch)' = Adds(r) /\ Removes(batch)' = Removes(r)
    BY <1>4, <1>7 DEF Adds, Removes
  <2>5. ASSUME NEW y, y # id PROVE (Comes(y)' <=> Comes(y)) /\ (Goes(y)' <=> Goes(y))
    <3>1. boundary = "apply" => (y \in Adds(batch) <=> y \in Adds(r)) /\ (y \in Removes(batch) <=> y \in Removes(r))
      BY <1>1, <1>4, <2>5
    <3>2. y \in Layers' <=> y \in Layers
      BY <1>7, <2>5
    <3> QED BY <1>2, <1>7, <2>4, <2>5, <3>1, <3>2, NoRoot DEF Comes, Goes
  <2>6. ~Comes(id)'
    <3>1. id \notin Adds(pending)
      BY <1>5, <1>7 DEF Adds
    <3> QED BY <1>1, <1>2, <1>4, <1>7, <2>4, <3>1 DEF Comes
  <2> QED BY <1>7, <2>1, <2>2, <2>3, <2>5, <2>6, NoRoot
<1>8. CASE waiting = {} /\ id \in attached /\ Enter("remove", Position(id), id) /\ UNCHANGED <<stack, pending, repeated>>
  <2>1. PICK x \in DOMAIN layers : x = Position(id) /\ layers[x] = id /\ x \in Nat
    BY <1>3, <1>8, PositionFacts, LayersFacts
  <2>2. /\ frames' \in Seq(Frame) /\ frames' # <<>> /\ DOMAIN frames' = {1} /\ Root' = frames'[1]
        /\ Root' = [kind |-> "remove", at |-> x, id |-> id, mark |-> Len(pending)]
    BY <1>2, <1>8, <2>1, EnterFacts
  <2>3. Root'.kind = "remove" /\ Root'.at = x /\ Root'.id = id /\ frames'[1] = Root'
    BY <2>2
  <2>4. /\ ~RootIs({"existing"})' /\ ~RootIs({"insert"})' /\ RootIs({"remove"})' /\ ~RootIs({"stop"})'
        /\ ~RootIs({"existing", "insert"})' /\ RootIs({"remove", "stop"})'
    BY <2>2, <2>3 DEF RootIs
  <2>5. /\ UNCHANGED <<layers, attached, overlayStart, bound>> /\ Layers' = Layers /\ UNCHANGED <<pending, repeated>>
    BY <1>8 DEF stack, Layers
  <2>6. stage = "active"
    BY <1>2, <1>3, <1>8 DEF LayerInv, Typed
  <2>7. FramesOK'
    BY <2>1, <2>2, <2>3, <2>5 DEF FramesOK
  <2>8. AttachedOK'
    BY <1>2, <1>3, <1>8, <2>2, <2>3, <2>4, <2>5, <2>6 DEF AttachedOK
  <2>9. OverlaysOK'
    <3>1. Base' = Base
      <4>1. overlayStart' = overlayStart /\ overlayStart \in Nat
        BY <2>5 DEF LayerInv, Typed
      <4> QED BY <1>3, <2>4, <4>1 DEF Base
    <3> QED BY <1>2, <2>5, <3>1 DEF LayerInv, OverlaysOK
  <2>10. layers' \in Seq(Id) /\ overlayStart' \in Nat /\ \A i, k \in DOMAIN layers' : layers'[i] = layers'[k] => i = k
    BY <2>5 DEF LayerInv, Typed, IdsOK
  <2> QED BY <1>7, <1>8, <2>2, <2>3, <2>4, <2>5, <2>6, <2>7, <2>8, <2>9, <2>10
<1>9. CASE waiting = {} /\ id \in Layers /\ id \notin attached /\ Erase(id) /\ UNCHANGED <<attached, bound, frames, pending, repeated>>
  <2>1. /\ layers' \in Seq(Id) /\ Layers' = Layers \ {id} /\ overlayStart' \in Nat
        /\ \A i, k \in DOMAIN layers' : layers'[i] = layers'[k] => i = k
        /\ DOMAIN layers' = 1..Len(layers') /\ Behind(layers', overlays, overlayStart')
    BY <1>3, <1>9, EraseFacts
  <2>2. frames' = <<>> /\ frames' \in Seq(Frame)
    BY <1>2, <1>9 DEF LayerInv, Typed
  <2>3. FramesOK'
    BY <2>2 DEF FramesOK
  <2>4. AttachedOK'
    BY <1>2, <1>3, <1>9, <2>1, <2>2, NoRoot DEF AttachedOK
  <2>5. OverlaysOK'
    <3>1. Base' = overlayStart'
      <4>1. \A n \in Nat : n + 0 = n
        OBVIOUS
      <4> QED BY <2>1, <2>2, <4>1 DEF Base, RootIs
    <3> QED BY <1>2, <2>1, <3>1 DEF OverlaysOK, Behind
  <2> QED BY <1>7, <1>9, <2>1, <2>2, <2>3, <2>4, <2>5, NoRoot
<1>10. CASE waiting = {} /\ id \notin Layers /\ UNCHANGED <<stack, frames, pending, repeated>>
  <2>1. /\ UNCHANGED <<layers, attached, overlayStart, bound>> /\ Layers' = Layers /\ frames' = <<>> /\ UNCHANGED <<pending, repeated>>
    BY <1>2, <1>10 DEF stack, Layers
  <2>2. FramesOK' /\ AttachedOK'
    BY <1>2, <1>3, <2>1, NoRoot DEF FramesOK, AttachedOK
  <2>3. OverlaysOK'
    <3>1. Base' = Base
      BY <1>3, <2>1, NoRoot DEF Base
    <3> QED BY <1>2, <2>1, <3>1 DEF LayerInv, OverlaysOK
  <2>4. /\ layers' \in Seq(Id) /\ overlayStart' \in Nat /\ frames' \in Seq(Frame)
        /\ \A i, k \in DOMAIN layers' : layers'[i] = layers'[k] => i = k
    BY <1>2, <2>1 DEF LayerInv, Typed, IdsOK
  <2> QED BY <1>7, <1>10, <2>1, <2>2, <2>3, <2>4, NoRoot
<1> QED BY <1>5, <1>6, <1>8, <1>9, <1>10 DEF RemoveNow, NeedsDetach

(* Remove, outside of a traversal.                                           *)
LEMMA Removals == LayerInv /\ (\E id \in Id : RemoveLayer(id)) => LayerInv'
<1> SUFFICES ASSUME LayerInv, NEW id \in Id, RemoveLayer(id) PROVE LayerInv'
  OBVIOUS
<1>1. /\ ~Traversing /\ boundary = "none" /\ ~failed /\ RemoveNow(id) /\ wanted' = wanted \ {id}
      /\ UNCHANGED <<nextId, overlays, control, ever>>
  BY DEF RemoveLayer, Idle
<1>2. UNCHANGED <<nextId, overlays, stage, boundary, failed, ever>> /\ batch' = batch /\ boundary # "attach"
  BY <1>1 DEF control
<1>3. /\ Typed' /\ IdsOK' /\ FramesOK' /\ ControlOK' /\ BatchWaits' /\ AttachedOK' /\ OverlaysOK' /\ WaitingOK'
      /\ ~RootIs({"stop"})' /\ ~RootIs({"stop"})
      /\ \A x : x # id => (Comes(x)' <=> Comes(x)) /\ (Goes(x)' <=> Goes(x))
      /\ id \in repeated' \/ ~Comes(id)'
      /\ repeated \subseteq repeated' /\ repeated' \subseteq repeated \cup {id}
  BY <1>1, <1>2, RemoveStep
<1>4. WantedOK'
  <2>1. \A x : x \notin repeated => (x \in wanted <=> Comes(x) /\ ~Goes(x))
    BY <1>1, <1>3 DEF LayerInv, WantedOK
  <2> SUFFICES ASSUME NEW x, x \notin repeated' PROVE x \in wanted' <=> Comes(x)' /\ ~Goes(x)'
    BY DEF WantedOK
  <2>2. CASE x = id
    BY <1>1, <1>3, <2>2
  <2>3. CASE x # id
    <3>1. x \notin repeated /\ (x \in wanted' <=> x \in wanted) /\ (Comes(x)' <=> Comes(x)) /\ (Goes(x)' <=> Goes(x))
      BY <1>1, <1>3, <2>3
    <3> QED BY <2>1, <3>1
  <2> QED BY <2>2, <2>3
<1> QED BY <1>3, <1>4 DEF LayerInv

(* Remove, for a request of a callback.                                      *)
LEMMA RemovalApplied == LayerInv /\ ApplyOperation /\ Head(batch).kind = "remove" => LayerInv'
<1> SUFFICES ASSUME LayerInv, ApplyOperation, Head(batch).kind = "remove" PROVE LayerInv'
  OBVIOUS
<1>1. /\ ~Traversing /\ boundary = "apply" /\ batch # <<>> /\ batch' = Tail(batch)
      /\ UNCHANGED <<nextId, overlays, stage, boundary, failed, wanted, ever>> /\ RemoveNow(Head(batch).id)
  BY DEF ApplyOperation
<1>2. PICK id \in Id : id = Head(batch).id
  BY <1>1, BatchHead DEF Operation
<1>3. /\ UNCHANGED <<nextId, overlays, stage, boundary, failed, ever>> /\ ~failed /\ RemoveNow(id)
      /\ boundary # "attach" /\ wanted' = wanted
  BY <1>1, <1>2 DEF LayerInv, ControlOK
<1>4. /\ Typed' /\ IdsOK' /\ FramesOK' /\ ControlOK' /\ BatchWaits' /\ AttachedOK' /\ OverlaysOK' /\ WaitingOK'
      /\ ~RootIs({"stop"})' /\ ~RootIs({"stop"})
      /\ \A x : x # id => (Comes(x)' <=> Comes(x)) /\ (Goes(x)' <=> Goes(x))
      /\ id \in repeated' \/ ~Comes(id)'
      /\ repeated \subseteq repeated' /\ repeated' \subseteq repeated \cup {id}
  BY <1>1, <1>2, <1>3, RemoveStep
<1>5. Goes(id)
  <2>1. Removes(batch) = Removes(batch') \cup {id}
    BY <1>1, <1>2, BatchHead
  <2> QED BY <1>1, <2>1 DEF Goes
<1>6. WantedOK'
  <2>1. \A x : x \notin repeated => (x \in wanted <=> Comes(x) /\ ~Goes(x))
    BY <1>3, <1>4 DEF LayerInv, WantedOK
  <2> SUFFICES ASSUME NEW x, x \notin repeated' PROVE x \in wanted' <=> Comes(x)' /\ ~Goes(x)'
    BY DEF WantedOK
  <2>2. x \notin repeated
    BY <1>4
  <2>3. CASE x = id
    <3>1. id \notin wanted
      BY <1>5, <2>1, <2>2, <2>3
    <3> QED BY <1>3, <1>4, <2>3, <3>1
  <2>4. CASE x # id
    <3>1. (Comes(x)' <=> Comes(x)) /\ (Goes(x)' <=> Goes(x))
      BY <1>4, <2>4
    <3> QED BY <1>3, <2>1, <2>2, <3>1
  <2> QED BY <2>3, <2>4
<1> QED BY <1>4, <1>6 DEF LayerInv

(* OnAttach has succeeded.                                                   *)
LEMMA AttachReturns == LayerInv /\ ReturnFromAttach => LayerInv'
<1> SUFFICES ASSUME LayerInv, ReturnFromAttach PROVE LayerInv'
  OBVIOUS
<1>1. /\ Traversing /\ Top.kind \in {"existing", "insert"}
      /\ attached' = Marked /\ ever' = ever \cup {Top.id}
      /\ overlayStart' = (IF Top.kind = "insert" THEN Grown(Top.id \in overlays) ELSE overlayStart)
      /\ frames' = Front(frames)
      /\ UNCHANGED <<layers, bound, pending, nextId, overlays, control, wanted, repeated>>
  BY DEF ReturnFromAttach, Leave
<1>2. PICK f \in Frame : /\ f = Top /\ f = Root /\ f.kind \in {"existing", "insert"} /\ frames' = <<>> /\ frames # <<>>
                        /\ f.at \in DOMAIN layers /\ layers[f.at] = f.id
  BY <1>1, TopFacts DEF Traversing
<1>3. PICK id \in Id : id = f.id /\ id \in Layers
  BY <1>2 DEF Frame, Layers
<1>4. /\ UNCHANGED <<layers, bound, pending, nextId, overlays, stage, boundary, batch, failed, wanted, repeated>>
      /\ attached' = attached \cup {id} /\ ever' = ever \cup {id} /\ Layers' = Layers /\ Given' = Given
  BY <1>1, <1>2, <1>3 DEF control, Marked, Layers, Given
<1>5. RootIs({"existing", "insert"}) /\ ~RootIs({"remove", "stop"}) /\ ~RootIs({"remove"}) /\ ~RootIs({"stop"})
  BY <1>2 DEF RootIs
<1>6. stage = "active" /\ ~failed /\ (f.kind = "insert" => boundary # "attach") /\ (f.kind = "existing" => boundary = "attach")
  BY <1>2 DEF LayerInv, ControlOK, RootIs
<1>7. overlayStart' = Base /\ overlayStart' \in Nat
  <2>1. CASE f.kind = "insert"
    <3>1. RootIs({"insert"})
      BY <1>2, <2>1 DEF RootIs
    <3>2. CASE id \in overlays
      BY <1>1, <1>2, <1>3, <2>1, <3>1, <3>2 DEF Base, Grown, LayerInv, Typed
    <3>3. CASE id \notin overlays
      BY <1>1, <1>2, <1>3, <2>1, <3>1, <3>3 DEF Base, Grown, LayerInv, Typed
    <3> QED BY <3>2, <3>3
  <2>2. CASE f.kind = "existing"
    <3>1. ~RootIs({"insert"}) /\ overlayStart \in Nat
      BY <1>2, <2>2 DEF RootIs, LayerInv, Typed
    <3> QED BY <1>1, <1>2, <2>2, <3>1 DEF Base
  <2> QED BY <1>2, <2>1, <2>2
<1>8. Typed' /\ IdsOK'
  <2>1. frames' \in Seq(Frame)
    BY <1>2
  <2>2. id \in Given
    BY <1>3 DEF LayerInv, IdsOK
  <2> QED BY <1>4, <1>7, <2>1, <2>2 DEF LayerInv, Typed, IdsOK
<1>9. FramesOK' /\ ControlOK' /\ BatchWaits'
  BY <1>2, <1>4, <1>6, NoRoot DEF LayerInv, FramesOK, ControlOK, BatchWaits
<1>10. AttachedOK'
  <2>1. /\ attached \subseteq bound /\ bound \subseteq Layers /\ id \in bound /\ \A x \in bound \ attached : x = id
        /\ ever \cap Layers \subseteq attached /\ (boundary # "attach" => Layers \subseteq bound)
    BY <1>2, <1>3, <1>5, <1>6 DEF LayerInv, AttachedOK
  <2> QED BY <1>2, <1>4, <1>6, <2>1, NoRoot DEF AttachedOK
<1>11. OverlaysOK'
  <2>1. Base' = Base
    <3>1. \A n \in Nat : n + 0 = n
      OBVIOUS
    <3>2. ~RootIs({"insert"})'
      BY <1>2, NoRoot
    <3> QED BY <1>7, <3>1, <3>2 DEF Base
  <2> QED BY <1>4, <2>1 DEF LayerInv, OverlaysOK
<1>12. WaitingOK'
  <2>1. \A q : RequestsOK(q) => RequestsOK(q)'
    BY <1>3, <1>4 DEF RequestsOK
  <2>2. PICK p, r : p = pending /\ r = batch
    OBVIOUS
  <2>3. RequestsOK(p)' /\ (boundary = "apply" => RequestsOK(r)')
    BY <2>1, <2>2 DEF LayerInv, WaitingOK
  <2> QED BY <1>4, <2>2, <2>3 DEF LayerInv, WaitingOK
<1>13. WantedOK'
  <2>1. \A x : (Comes(x)' <=> Comes(x)) /\ (Goes(x)' <=> Goes(x))
    BY <1>2, <1>4, <1>5, NoRoot DEF Comes, Goes, Adds, Removes
  <2> QED BY <1>4, <1>5, <2>1 DEF LayerInv, WantedOK
<1> QED BY <1>8, <1>9, <1>10, <1>11, <1>12, <1>13 DEF LayerInv

(* OnDetach has returned: the record is erased.                              *)
LEMMA DetachReturns == LayerInv /\ ReturnFromDetach => LayerInv'
<1> SUFFICES ASSUME LayerInv, ReturnFromDetach PROVE LayerInv'
  OBVIOUS
<1>1. /\ Traversing /\ Top.kind = "remove" /\ Erase(Top.id)
      /\ attached' = attached \ {Top.id} /\ bound' = bound \ {Top.id} /\ frames' = Front(frames)
      /\ UNCHANGED <<pending, nextId, overlays, control, wanted, repeated, ever>>
  BY DEF ReturnFromDetach, Leave
<1>2. PICK f \in Frame : /\ f = Top /\ f = Root /\ f.kind = "remove" /\ frames' = <<>> /\ frames # <<>>
                        /\ f.at \in DOMAIN layers /\ layers[f.at] = f.id
  BY <1>1, TopFacts DEF Traversing
<1>3. PICK id \in Layers : id = f.id
  BY <1>2 DEF Layers
<1>4. /\ UNCHANGED <<pending, nextId, overlays, stage, boundary, batch, failed>> /\ UNCHANGED <<wanted, repeated, ever>>
      /\ attached' = attached \ {id} /\ bound' = bound \ {id} /\ Given' = Given /\ Erase(id)
  BY <1>1, <1>2, <1>3 DEF control, Given
<1>5. ~RootIs({"existing", "insert"}) /\ RootIs({"remove", "stop"}) /\ RootIs({"remove"}) /\ ~RootIs({"stop"}) /\ ~RootIs({"insert"})
  BY <1>2 DEF RootIs
<1>6. stage = "active" /\ ~failed /\ boundary # "attach"
  BY <1>2, <1>5 DEF LayerInv, ControlOK, RootIs
<1>7. Base = overlayStart
  BY <1>5 DEF Base, LayerInv, Typed
<1>8. /\ layers' \in Seq(Id) /\ Layers' = Layers \ {id} /\ overlayStart' \in Nat
      /\ \A i, k \in DOMAIN layers' : layers'[i] = layers'[k] => i = k
      /\ DOMAIN layers' = 1..Len(layers') /\ Behind(layers', overlays, overlayStart')
  BY <1>4, <1>7, EraseFacts
<1>9. Typed' /\ IdsOK'
  <2>1. frames' \in Seq(Frame)
    BY <1>2
  <2> QED BY <1>4, <1>8, <2>1 DEF LayerInv, Typed, IdsOK
<1>10. FramesOK' /\ ControlOK' /\ BatchWaits'
  BY <1>2, <1>4, <1>6, NoRoot DEF LayerInv, FramesOK, ControlOK, BatchWaits
<1>11. AttachedOK'
  <2>1. /\ attached \subseteq bound /\ bound \subseteq Layers /\ \A x \in bound \ attached : FALSE
        /\ ever \cap Layers \subseteq attached /\ Layers \subseteq bound
    BY <1>5, <1>6 DEF LayerInv, AttachedOK
  <2> QED BY <1>2, <1>4, <1>6, <1>8, <2>1, NoRoot DEF AttachedOK
<1>12. OverlaysOK'
  <2>1. Base' = overlayStart'
    <3>1. \A n \in Nat : n + 0 = n
      OBVIOUS
    <3>2. ~RootIs({"insert"})'
      BY <1>2, NoRoot
    <3> QED BY <1>8, <3>1, <3>2 DEF Base
  <2> QED BY <1>4, <1>8, <2>1 DEF OverlaysOK, Behind
<1>13. WaitingOK'
  <2>1. \A q : RequestsOK(q) => RequestsOK(q)'
    BY <1>4, <1>8 DEF RequestsOK
  <2>2. PICK p, r : p = pending /\ r = batch
    OBVIOUS
  <2>3. RequestsOK(p)' /\ (boundary = "apply" => RequestsOK(r)')
    BY <2>1, <2>2 DEF LayerInv, WaitingOK
  <2> QED BY <1>4, <2>2, <2>3 DEF LayerInv, WaitingOK
<1>14. WantedOK'
  <2>1. ~RootIs({"remove"})' /\ ~RootIs({"stop"})'
    BY <1>2, NoRoot
  <2>2. \A x : (x \in Layers /\ ~(RootIs({"remove"}) /\ Root.id = x)) <=> x \in Layers'
    BY <1>2, <1>3, <1>5, <1>8
  <2>3. \A x : (Comes(x)' <=> Comes(x)) /\ (Goes(x)' <=> Goes(x))
    BY <1>4, <2>1, <2>2 DEF Comes, Goes, Adds, Removes
  <2> QED BY <1>4, <1>5, <2>3 DEF LayerInv, WantedOK
<1> QED BY <1>9, <1>10, <1>11, <1>12, <1>13, <1>14 DEF LayerInv

-----------------------------------------------------------------------------
(* An attachment fails. *)

(* No addition is requested twice: none of those that stay is among the lost.*)
LEMMA AddedOnce ==
    ASSUME NEW q \in Seq(Operation), RequestsOK(q), NEW a, NEW b,
           \A i \in DOMAIN a : \A k \in DOMAIN b : \E l, m \in DOMAIN q : l < m /\ a[i] = q[l] /\ b[k] = q[m]
    PROVE  Adds(a) \cap Adds(b) = {}
<1> SUFFICES ASSUME NEW id, id \in Adds(a), id \in Adds(b) PROVE FALSE
  OBVIOUS
<1>1. PICK i \in DOMAIN a, k \in DOMAIN b : a[i].kind = "add" /\ a[i].id = id /\ b[k].kind = "add" /\ b[k].id = id
  BY DEF Adds
<1>2. PICK l \in DOMAIN q, m \in DOMAIN q : l < m /\ a[i] = q[l] /\ b[k] = q[m]
  BY <1>1
<1>3. l # m
  BY <1>2, LenProperties
<1>4. q[m].kind = "remove"
  BY <1>1, <1>2, <1>3 DEF RequestsOK
<1> QED BY <1>1, <1>2, <1>4

(* What a failing attachment does with the records and the overlays.         *)
LEMMA FailureFacts ==
    ASSUME LayerInv, NEW f \in Frame, f = Top, f = Root, frames # <<>>, f.kind \in {"existing", "insert"},
           f.at \in DOMAIN layers, layers[f.at] = f.id, layers' = AfterFailure
    PROVE  /\ layers' \in Seq(Id) /\ DOMAIN layers' = 1..Len(layers')
           /\ Layers' = IF f.kind = "insert" THEN Layers \ {f.id} ELSE Layers
           /\ \A i, k \in DOMAIN layers' : layers'[i] = layers'[k] => i = k
           /\ Behind(layers', overlays, overlayStart)
<1>1. PICK s \in Seq(Id), b \in Nat : s = layers /\ b = overlayStart
  BY LayersFacts DEF LayerInv, Typed
<1>2. Distinct(s) /\ Layers = ToSet(s) /\ Behind(s, overlays, Base) /\ Base \in Nat /\ DOMAIN s = 1..Len(s)
  BY <1>1, LayersFacts
<1>3. CASE f.kind = "existing"
  <2>1. layers' = layers /\ Layers' = Layers
    BY <1>3 DEF AfterFailure, Layers
  <2>2. Base = overlayStart
    BY <1>3 DEF Base, RootIs, LayerInv, Typed
  <2>3. \A i, k \in DOMAIN s : s[i] = s[k] => i = k
    BY <1>2, DistinctIds
  <2> QED BY <1>1, <1>2, <1>3, <2>1, <2>2, <2>3
<1>4. CASE f.kind = "insert"
  <2>1. PICK x \in 1..Len(s) : x = f.at /\ s[x] = f.id
    BY <1>1, <1>2
  <2>2. PICK r \in Seq(Id) : r = RemoveAt(s, x)
    BY <1>2, Shrinks
  <2>3. layers' = r
    BY <1>1, <1>4, <2>1, <2>2 DEF AfterFailure
  <2>4. Layers' = ToSet(r)
    BY <2>3 DEF Layers, ToSet
  <2>5. PICK O \in {overlays}, c \in Nat : O = overlays /\ c = Base
    BY <1>2
  <2>6. /\ ToSet(r) = ToSet(s) \ {f.id} /\ Distinct(r)
        /\ x <= c => Behind(r, O, c - 1)
        /\ x > c => Behind(r, O, c)
    BY <1>2, <2>1, <2>2, <2>5, Shrinks
  <2>7. c = (IF f.id \notin O THEN b + 1 ELSE b) /\ (f.id \in O <=> x > c)
    <3>1. RootIs({"insert"})
      BY <1>4 DEF RootIs
    <3>2. c = IF f.id \notin O THEN b + 1 ELSE b
      <4>1. \A n \in Nat : n + 0 = n
        OBVIOUS
      <4> QED BY <1>1, <2>5, <3>1, <4>1 DEF Base
    <3> QED BY <1>2, <2>1, <2>5, <3>2 DEF Behind
  <2>8. Behind(r, O, b)
    <3>1. CASE f.id \in O
      BY <2>6, <2>7, <3>1
    <3>2. CASE f.id \notin O
      <4>1. x <= c /\ c - 1 = b
        BY <2>7, <3>2
      <4> QED BY <2>6, <4>1
    <3> QED BY <3>1, <3>2
  <2>9. \A i, k \in DOMAIN r : r[i] = r[k] => i = k
    BY <2>6, DistinctIds
  <2> QED BY <1>1, <1>2, <1>4, <2>3, <2>4, <2>5, <2>6, <2>8, <2>9, LenProperties
<1> QED BY <1>3, <1>4

(* OnAttach throws: what was requested while it ran is taken back.           *)
LEMMA AttachThrows == LayerInv /\ ThrowFromAttach => LayerInv'
<1> SUFFICES ASSUME LayerInv, ThrowFromAttach PROVE LayerInv'
  OBVIOUS
<1>1. Traversing /\ Top.kind \in {"existing", "insert"} /\ frames' = Front(frames)
  BY DEF ThrowFromAttach, Leave
<1>2. PICK f \in Frame : /\ f = Top /\ f = Root /\ f.kind \in {"existing", "insert"} /\ frames' = <<>> /\ frames # <<>>
                        /\ Len(frames) = 1 /\ f.at \in DOMAIN layers /\ layers[f.at] = f.id
  BY <1>1, TopFacts DEF Traversing
<1>3. PICK id \in Layers : id = f.id
  BY <1>2 DEF Layers
<1>4. PICK n \in 0..Len(pending) : n = f.mark
  <2>1. f.mark <= Len(pending) /\ f.mark \in Nat /\ Len(pending) \in Nat
    <3>1. 1 \in DOMAIN frames
      BY <1>1, <1>2, TopFacts
    <3>2. f = frames[1]
      BY <1>2 DEF Root
    <3> QED BY <1>2, <3>1, <3>2, RequestFacts DEF LayerInv, FramesOK, Frame
  <2> QED BY <2>1
<1>5. PICK q \in Seq(Operation) : q = pending
  BY RequestFacts
<1> DEFINE a == SubSeq(q, 1, n)
           b == SubSeq(q, n + 1, Len(q))
<1>6. /\ a \in Seq(Operation) /\ Thins(a, q) /\ ToSet(q) = ToSet(a) \cup ToSet(b)
      /\ \A i \in DOMAIN a : \A k \in DOMAIN b : \E l, m \in DOMAIN q : l < m /\ a[i] = q[l] /\ b[k] = q[m]
  <2>1. n \in 0..Len(q)
    BY <1>5
  <2> QED BY <2>1, Split, ZenonT(40)
<1>7. /\ bound' = bound \ {id} /\ layers' = AfterFailure /\ pending' = a
      /\ wanted' = (wanted \ (Adds(b) \cup {id}))
                       \cup ((Removes(b) \cap (Layers' \cup Adds(a))) \ Removes(a \o batch))
      /\ failed' = (boundary # "none" /\ Len(frames) = 1)
      /\ boundary' = (IF failed' THEN "none" ELSE boundary) /\ batch' = (IF failed' THEN <<>> ELSE batch)
      /\ UNCHANGED <<attached, overlayStart, nextId, overlays, stage, repeated, ever>>
  BY <1>2, <1>3, <1>4, <1>5 DEF ThrowFromAttach, Layers
<1> HIDE DEF a, b
<1>8. RequestsOK(q) /\ RequestsOK(a)
  BY <1>5, <1>6, ThinsRequests DEF LayerInv, WaitingOK
<1>9. (failed' <=> boundary # "none") /\ failed' \in BOOLEAN /\ boundary' = "none" /\ batch' = <<>>
  BY <1>2, <1>7 DEF LayerInv, ControlOK
<1>10. /\ layers' \in Seq(Id) /\ DOMAIN layers' = 1..Len(layers')
       /\ Layers' = IF f.kind = "insert" THEN Layers \ {id} ELSE Layers
       /\ \A i, k \in DOMAIN layers' : layers'[i] = layers'[k] => i = k
       /\ Behind(layers', overlays, overlayStart)
  BY <1>2, <1>3, <1>7, FailureFacts
<1>11. stage = "active" /\ ~failed /\ (f.kind = "insert" => boundary # "attach") /\ (f.kind = "existing" => boundary = "attach")
  BY <1>2 DEF LayerInv, ControlOK, RootIs
<1>12. RootIs({"existing", "insert"}) /\ ~RootIs({"remove", "stop"}) /\ ~RootIs({"remove"}) /\ ~RootIs({"stop"})
  BY <1>2 DEF RootIs
<1>13. Given' = Given /\ stage' = stage /\ ever' = ever /\ Layers' \subseteq Layers
  BY <1>7, <1>10 DEF Given
<1>14. Typed' /\ IdsOK'
  <2>1. frames' \in Seq(Frame) /\ batch' \in Seq(Operation)
    BY <1>2, <1>9
  <2> QED BY <1>6, <1>7, <1>9, <1>10, <1>13, <2>1 DEF LayerInv, Typed, IdsOK
<1>15. FramesOK' /\ ControlOK' /\ BatchWaits'
  BY <1>2, <1>9, <1>11, <1>13, NoRoot DEF FramesOK, ControlOK, BatchWaits
<1>16. AttachedOK'
  <2>1. /\ attached \subseteq bound /\ bound \subseteq Layers /\ id \notin attached /\ \A x \in bound \ attached : x = id
        /\ ever \cap Layers \subseteq attached /\ (boundary = "none" => Layers \subseteq bound)
    BY <1>2, <1>3, <1>11, <1>12 DEF LayerInv, AttachedOK
  <2>2. boundary = "none" => f.kind = "insert"
    BY <1>2, <1>11
  <2> QED BY <1>2, <1>7, <1>9, <1>10, <1>11, <1>13, <2>1, <2>2, NoRoot DEF AttachedOK
<1>17. OverlaysOK'
  <2>1. Base' = overlayStart
    <3>1. \A m \in Nat : m + 0 = m
      OBVIOUS
    <3>2. ~RootIs({"insert"})' /\ overlayStart' = overlayStart /\ overlayStart \in Nat
      BY <1>2, <1>7, NoRoot DEF LayerInv, Typed
    <3> QED BY <3>1, <3>2 DEF Base
  <2> QED BY <1>7, <1>10, <2>1 DEF OverlaysOK, Behind
<1>18. WaitingOK'
  <2>1. RequestsOK(a)'
    BY <1>8, <1>13 DEF RequestsOK, a
  <2> QED BY <1>7, <1>9, <2>1 DEF WaitingOK
<1>19. WantedOK'
  <2> SUFFICES ASSUME boundary = "none", NEW x, x \notin repeated PROVE x \in wanted' <=> Comes(x)' /\ ~Goes(x)'
    BY <1>7, <1>9 DEF WantedOK
  <2>1. /\ Adds(pending) = Adds(a) \cup Adds(b) /\ Removes(pending) = Removes(a) \cup Removes(b)
    <3>1. Adds(q) = Adds(a) \cup Adds(b) /\ Removes(q) = Removes(a) \cup Removes(b)
      BY <1>6, Joined, SMTT(30)
    <3> QED BY <1>5, <3>1
  <2>2. Adds(a) \cap Adds(b) = {}
    BY <1>6, <1>8, AddedOnce
  <2>3. \A y \in Adds(a) \cup Adds(b) : y \notin Layers
    BY <2>1, RequestFacts
  <2>4. x \in wanted <=> (x \in Layers \/ x \in Adds(a) \/ x \in Adds(b)) /\ x \notin Removes(a) /\ x \notin Removes(b)
    BY <1>7, <1>11, <1>12, <2>1 DEF LayerInv, WantedOK, Comes, Goes
  <2>5. Adds(pending)' = Adds(a) /\ Removes(pending)' = Removes(a)
    BY <1>7 DEF Adds, Removes
  <2>6. (Comes(x)' <=> x \in Layers' \/ x \in Adds(a)) /\ (Goes(x)' <=> x \in Removes(a))
    <3>1. ~RootIs({"remove"})'
      BY <1>2, NoRoot
    <3> QED BY <1>9, <2>5, <3>1 DEF Comes, Goes
  <2>7. a \o batch = a
    <3>1. batch = <<>>
      BY DEF LayerInv, ControlOK
    <3> QED BY <1>6, <3>1, ConcatEmptySeq
  <2>8. Layers' = Layers \ {id}
    BY <1>2, <1>10, <1>11
  <2>9. x \in wanted' <=> (\/ (x \in wanted /\ x \notin Adds(b) /\ x # id)
                          \/ (x \in Removes(b) /\ (x \in Layers' \/ x \in Adds(a)) /\ x \notin Removes(a)))
    <3>1. wanted' = (wanted \ (Adds(b) \cup {id})) \cup ((Removes(b) \cap (Layers' \cup Adds(a))) \ Removes(a))
      BY <1>7, <2>7
    <3> QED BY <3>1
  <2> QED BY <2>2, <2>3, <2>4, <2>6, <2>8, <2>9
<1> QED BY <1>14, <1>15, <1>16, <1>17, <1>18, <1>19 DEF LayerInv

-----------------------------------------------------------------------------
(* The end. *)

(* The stack goes on to the next layer to detach, or it is cleared.          *)
LEMMA StopStep ==
    ASSUME LayerInv, NEW at, DetachBelow(at, attached'), Base = overlayStart,
           attached' \subseteq Layers, bound' = attached',
           \A i \in DOMAIN layers : layers[i] \in attached' => i < at,
           stage' = "stopped", boundary' = "none", batch' = <<>>, ~failed', failed' \in BOOLEAN,
           pending' = <<>> \/ pending' = pending, layers' = <<>> => pending' = <<>>,
           UNCHANGED <<nextId, overlays, repeated, ever>>
    PROVE  LayerInv'
<1> DEFINE below == {i \in DOMAIN layers : i < at /\ layers[i] \in attached'}
<1>1. Given' = Given
  BY DEF Given
<1>2. pending' \in Seq(Operation) /\ batch' \in Seq(Operation)
  <2>1. <<>> \in Seq(Operation)
    OBVIOUS
  <2>2. pending \in Seq(Operation)
    BY RequestFacts
  <2> QED BY <2>1, <2>2
<1>3. BatchWaits'
  BY DEF BatchWaits
<1>4. CASE below = {} /\ Cleared
  <2>1. /\ layers' = <<>> /\ overlayStart' = 0 /\ frames' = <<>> /\ wanted' = {} /\ pending' = <<>>
        /\ Layers' = {} /\ DOMAIN layers' = {}
    BY <1>4 DEF Cleared, Layers
  <2>2. attached' = {}
    <3>1. \A id \in attached' : \E i \in DOMAIN layers : layers[i] = id
      BY DEF Layers
    <3> QED BY <1>4, <3>1
  <2>3. Typed'
    <3>1. layers' \in Seq(Id) /\ overlayStart' \in Nat /\ frames' \in Seq(Frame)
      BY <2>1
    <3> QED BY <1>2, <3>1 DEF LayerInv, Typed
  <2>4. IdsOK' /\ FramesOK' /\ ControlOK'
    BY <1>1, <2>1, NoRoot DEF LayerInv, IdsOK, FramesOK, ControlOK
  <2>5. AttachedOK'
    BY <2>1, <2>2, NoRoot DEF AttachedOK
  <2>6. OverlaysOK'
    <3>1. Base' = 0 /\ Len(layers') = 0
      BY <2>1, NoRoot DEF Base
    <3> QED BY <2>1, <3>1 DEF OverlaysOK
  <2>7. WaitingOK'
    BY <2>1 DEF WaitingOK, RequestsOK
  <2>8. WantedOK'
    BY <2>1 DEF WantedOK, Comes, Adds
  <2> QED BY <1>3, <2>3, <2>4, <2>5, <2>6, <2>7, <2>8 DEF LayerInv
<1>5. ASSUME NEW i \in below, \A j \in below : j <= i,
             frames' = <<[kind |-> "stop", at |-> i, id |-> layers[i], mark |-> 0]>>,
             UNCHANGED <<layers, overlayStart, wanted>>
      PROVE  LayerInv'
  <2>1. PICK id \in Id : id = layers[i] /\ id \in attached' /\ i \in DOMAIN layers /\ i \in Nat
    BY <1>5, LayersFacts
  <2>2. PICK f \in Frame : f = [kind |-> "stop", at |-> i, id |-> id, mark |-> 0]
    BY <2>1 DEF Frame
  <2>3. /\ frames' = <<f>> /\ frames' \in Seq(Frame) /\ frames' # <<>> /\ DOMAIN frames' = {1} /\ frames'[1] = f /\ Root' = f
        /\ f.kind = "stop" /\ f.at = i /\ f.id = id
    BY <1>5, <2>1, <2>2 DEF Root
  <2>4. /\ ~RootIs({"existing"})' /\ ~RootIs({"insert"})' /\ ~RootIs({"remove"})' /\ RootIs({"stop"})'
        /\ ~RootIs({"existing", "insert"})' /\ RootIs({"remove", "stop"})'
        /\ ~RootIs({"insert", "remove", "update", "dispatch"})'
    BY <2>3 DEF RootIs
  <2>5. layers' = layers /\ Layers' = Layers /\ overlayStart' = overlayStart
    BY <1>5 DEF Layers
  <2>6. Typed' /\ IdsOK'
    BY <1>1, <1>2, <2>3, <2>5 DEF LayerInv, Typed, IdsOK
  <2>7. FramesOK' /\ ControlOK'
    BY <2>1, <2>3, <2>4, <2>5 DEF FramesOK, ControlOK
  <2>8. AttachedOK'
    <3>1. \A k \in DOMAIN layers : layers[k] \in attached' => k <= i
      BY <1>5
    <3> QED BY <2>1, <2>3, <2>4, <2>5, <3>1 DEF AttachedOK
  <2>9. OverlaysOK'
    <3>1. Base' = Base
      <4>1. \A n \in Nat : n + 0 = n
        OBVIOUS
      <4>2. overlayStart \in Nat
        BY DEF LayerInv, Typed
      <4> QED BY <2>4, <2>5, <4>1, <4>2 DEF Base
    <3> QED BY <2>5, <3>1 DEF LayerInv, OverlaysOK
  <2>10. WaitingOK'
    <3>1. \A q : RequestsOK(q) => RequestsOK(q)'
      BY <1>1, <2>5 DEF RequestsOK
    <3>2. PICK p : p = pending'
      OBVIOUS
    <3>3. RequestsOK(p)
      <4>1. RequestsOK(<<>>)
        BY DEF RequestsOK
      <4>2. RequestsOK(pending)
        BY DEF LayerInv, WaitingOK
      <4> QED BY <3>2, <4>1, <4>2
    <3>4. RequestsOK(p)'
      BY <3>1, <3>3
    <3> QED BY <3>2, <3>4 DEF WaitingOK
  <2>11. WantedOK'
    BY <2>4 DEF WantedOK
  <2> QED BY <1>3, <2>6, <2>7, <2>8, <2>9, <2>10, <2>11 DEF LayerInv
<1>6. \/ below = {} /\ Cleared
      \/ \E i \in below : /\ \A j \in below : j <= i
                         /\ frames' = <<[kind |-> "stop", at |-> i, id |-> layers[i], mark |-> 0]>>
                         /\ UNCHANGED <<layers, overlayStart, wanted>>
  BY DEF DetachBelow
<1> QED BY <1>4, <1>5, <1>6

(* Deactivate begins.                                                        *)
LEMMA Deactivates == LayerInv /\ Deactivate => LayerInv'
<1> SUFFICES ASSUME LayerInv, Deactivate PROVE LayerInv'
  OBVIOUS
<1>1. /\ ~Traversing /\ boundary = "none" /\ stage' = "stopped" /\ failed' = FALSE /\ pending' = <<>>
      /\ DetachBelow(Len(layers) + 1, attached)
      /\ UNCHANGED <<attached, bound, nextId, overlays, boundary, batch, repeated, ever>>
  BY DEF Deactivate
<1>2. batch' = <<>> /\ boundary' = "none" /\ UNCHANGED <<nextId, overlays, repeated, ever>> /\ attached' = attached /\ bound' = bound
  BY <1>1 DEF LayerInv, ControlOK
<1>3. bound = attached /\ attached \subseteq Layers /\ Base = overlayStart
  BY <1>1, QuietFacts
<1>4. PICK at \in Nat : at = Len(layers) + 1 /\ \A i \in DOMAIN layers : i < at
  BY LayersFacts
<1>5. DetachBelow(at, attached')
  BY <1>1, <1>2, <1>4
<1> QED BY <1>1, <1>2, <1>3, <1>4, <1>5, StopStep

(* OnDetach has returned and Deactivate goes on.                             *)
LEMMA StopReturns == LayerInv /\ ReturnFromStop => LayerInv'
<1> SUFFICES ASSUME LayerInv, ReturnFromStop PROVE LayerInv'
  OBVIOUS
<1>1. /\ Traversing /\ Top.kind = "stop"
      /\ attached' = attached \ {Top.id} /\ bound' = bound \ {Top.id}
      /\ DetachBelow(Top.at, attached') /\ pending' = (IF layers' = <<>> THEN <<>> ELSE pending)
      /\ UNCHANGED <<nextId, overlays, control, repeated, ever>>
  BY DEF ReturnFromStop
<1>2. PICK f \in Frame : /\ f = Top /\ f = Root /\ f.kind = "stop" /\ frames # <<>>
                        /\ f.at \in DOMAIN layers /\ layers[f.at] = f.id
  BY <1>1, TopFacts DEF Traversing
<1>3. PICK id, at : id = f.id /\ at = f.at
  OBVIOUS
<1>4. RootIs({"stop"}) /\ ~RootIs({"existing", "insert"}) /\ ~RootIs({"insert"})
  BY <1>2 DEF RootIs
<1>5. stage = "stopped" /\ boundary = "none" /\ ~failed /\ batch = <<>>
  BY <1>4 DEF LayerInv, ControlOK
<1>6. /\ stage' = "stopped" /\ boundary' = "none" /\ ~failed' /\ failed' \in BOOLEAN /\ batch' = <<>>
      /\ UNCHANGED <<nextId, overlays, repeated, ever>>
  <2>1. UNCHANGED <<stage, boundary, batch, failed>> /\ failed \in BOOLEAN
    BY <1>1 DEF control, LayerInv, Typed
  <2> QED BY <1>1, <1>5, <2>1
<1>7. /\ attached \subseteq bound /\ bound \subseteq Layers /\ \A x \in bound \ attached : FALSE
      /\ \A i \in DOMAIN layers : layers[i] \in attached => i <= at
  BY <1>2, <1>3, <1>4 DEF LayerInv, AttachedOK
<1>8. attached' = attached \ {id} /\ bound' = attached' /\ attached' \subseteq Layers
  BY <1>1, <1>2, <1>3, <1>7
<1>9. \A i \in DOMAIN layers : layers[i] \in attached' => i < at
  <2>1. at \in DOMAIN layers /\ layers[at] = id /\ DOMAIN layers \subseteq Nat
    BY <1>2, <1>3, LayersFacts
  <2> SUFFICES ASSUME NEW i \in DOMAIN layers, layers[i] \in attached' PROVE i < at
    OBVIOUS
  <2>2. i <= at /\ i # at
    BY <1>7, <1>8, <2>1
  <2> QED BY <2>1, <2>2
<1>10. Base = overlayStart
  BY <1>4 DEF Base, LayerInv, Typed
<1>11. DetachBelow(at, attached')
  BY <1>1, <1>2, <1>3
<1>12. (pending' = <<>> \/ pending' = pending) /\ (layers' = <<>> => pending' = <<>>)
  BY <1>1
<1> QED BY <1>6, <1>8, <1>9, <1>10, <1>11, <1>12, StopStep

-----------------------------------------------------------------------------
(* The theorems. *)

(* The stack begins empty.                                                   *)
LEMMA LayerInit == Init => LayerInv
<1> SUFFICES ASSUME Init PROVE LayerInv
  OBVIOUS
<1>1. /\ layers = <<>> /\ attached = {} /\ overlayStart = 0 /\ pending = <<>> /\ nextId = 1 /\ overlays = {}
      /\ stage = "created" /\ bound = {} /\ frames = <<>> /\ boundary = "none" /\ batch = <<>> /\ failed = FALSE
      /\ wanted = {} /\ repeated = {} /\ ever = {} /\ Layers = {} /\ DOMAIN layers = {} /\ DOMAIN pending = {}
  BY DEF Init, Layers
<1>2. Typed
  <2>1. layers \in Seq(Id) /\ pending \in Seq(Operation) /\ batch \in Seq(Operation) /\ frames \in Seq(Frame)
    BY <1>1
  <2>2. nextId \in 1..(MaxId + 1) /\ overlayStart \in Nat
    BY <1>1, BoundsAssumption
  <2>3. stage \in {"created", "active", "stopped"} /\ boundary \in {"none", "attach", "apply"} /\ failed \in BOOLEAN
    BY <1>1
  <2> QED BY <2>1, <2>2, <2>3 DEF Typed
<1>3. IdsOK /\ FramesOK /\ ControlOK /\ BatchWaits /\ AttachedOK
  BY <1>1 DEF IdsOK, FramesOK, ControlOK, BatchWaits, AttachedOK, RootIs, Given
<1>4. OverlaysOK
  <2>1. Base = 0 /\ Len(layers) = 0
    BY <1>1 DEF Base, RootIs
  <2> QED BY <1>1, <2>1 DEF OverlaysOK
<1>5. WaitingOK /\ WantedOK
  BY <1>1 DEF WaitingOK, RequestsOK, WantedOK, Comes, Adds
<1> QED BY <1>2, <1>3, <1>4, <1>5 DEF LayerInv

(* Nothing changes.                                                          *)
LEMMA LayerStutters == LayerInv /\ UNCHANGED vars => LayerInv'
<1> SUFFICES ASSUME LayerInv, UNCHANGED vars PROVE LayerInv'
  OBVIOUS
<1>1. /\ UNCHANGED <<layers, attached, overlayStart, bound>>
      /\ UNCHANGED <<pending, nextId, overlays, frames, stage, boundary, batch, failed>>
      /\ UNCHANGED <<wanted, repeated, ever>>
  BY DEF vars, stack, control
<1>2. Layers' = Layers /\ Given' = Given /\ Root' = Root
  BY <1>1 DEF Layers, Given, Root
<1>3. Typed' /\ IdsOK' /\ FramesOK' /\ BatchWaits'
  BY <1>1, <1>2 DEF LayerInv, Typed, IdsOK, FramesOK, BatchWaits
<1>4. ControlOK' /\ AttachedOK'
  BY <1>1, <1>2 DEF LayerInv, ControlOK, AttachedOK, RootIs
<1>5. OverlaysOK' /\ WaitingOK'
  BY <1>1, <1>2 DEF LayerInv, OverlaysOK, Base, RootIs, WaitingOK, RequestsOK
<1>6. WantedOK'
  <2>1. \A id : (Comes(id)' <=> Comes(id)) /\ (Goes(id)' <=> Goes(id))
    BY <1>1, <1>2 DEF Comes, Goes, Adds, Removes, RootIs
  <2> QED BY <1>1, <1>2, <2>1 DEF LayerInv, WantedOK, RootIs
<1> QED BY <1>3, <1>4, <1>5, <1>6 DEF LayerInv

(* Every operation and every callback keeps the invariant.                   *)
LEMMA LayerStep == LayerInv /\ [Next]_vars => LayerInv'
<1> SUFFICES ASSUME LayerInv, [Next]_vars PROVE LayerInv'
  OBVIOUS
<1>1. CASE \E overlay \in BOOLEAN : Push(overlay) \/ PushDeferred(overlay)
  BY <1>1, Pushes, PushWaits
<1>2. CASE \E id \in Id : RemoveLayer(id) \/ RemoveDeferred(id)
  BY <1>2, Removals, RemoveWaits
<1>3. CASE Dispatch \/ Update
  BY <1>3, TraversalBegins
<1>4. CASE ReturnFromTraversal \/ ThrowFromTraversal
  BY <1>4, TraversalReturns
<1>5. CASE ReturnFromAttach
  BY <1>5, AttachReturns
<1>6. CASE ReturnFromDetach
  BY <1>6, DetachReturns
<1>7. CASE ReturnFromStop
  BY <1>7, StopReturns
<1>8. CASE ThrowFromAttach
  BY <1>8, AttachThrows
<1>9. CASE BeginBoundary
  BY <1>9, BoundaryBegins
<1>10. CASE AttachExisting
  BY <1>10, ExistingAttached
<1>11. CASE TakeOperations
  BY <1>11, OperationsTaken
<1>12. CASE ApplyOperation
  <2>1. Head(batch).kind = "add" \/ Head(batch).kind = "remove"
    BY <1>12 DEF ApplyOperation
  <2> QED BY <1>12, <2>1, AdditionApplied, RemovalApplied
<1>13. CASE EndBoundary
  BY <1>13, BoundaryEnds
<1>14. CASE Deactivate
  BY <1>14, Deactivates
<1>15. CASE UNCHANGED vars
  BY <1>15, LayerStutters
<1> QED BY <1>1, <1>2, <1>3, <1>4, <1>5, <1>6, <1>7, <1>8, <1>9, <1>10, <1>11, <1>12, <1>13, <1>14, <1>15 DEF Next

(* The indices, the owners, the requests and the answers agree in every      *)
(* state of the stack (Layer.cpp), whatever its callbacks ask for.           *)
THEOREM LayerInvariant == Spec => []LayerInv
  BY LayerInit, LayerStep, PTL DEF Spec

(* Every index into the vector of layers stays right: those of the running   *)
(* traversals and overlayStart, over nested callbacks and failing            *)
(* attachments.                                                              *)
THEOREM CursorsStayValid == Spec => []CursorsValid
<1>1. LayerInv => CursorsValid
  <2> SUFFICES ASSUME LayerInv PROVE CursorsValid
    OBVIOUS
  <2>1. TraversalsPointRight
    BY DEF LayerInv, FramesOK, TraversalsPointRight
  <2> DEFINE attaching == {frames[i].id : i \in {j \in DOMAIN frames : frames[j].kind = "insert"}}
  <2>2. overlayStart + Cardinality(attaching \ overlays) = Base
    <3>1. overlayStart \in Nat /\ \A n \in Nat : n + 0 = n
      BY DEF LayerInv, Typed
    <3>2. \A i \in DOMAIN frames : frames[i].kind = "insert" => i = 1
      BY DEF LayerInv, FramesOK
    <3>3. frames # <<>> => 1 \in DOMAIN frames
      BY TopFacts DEF Traversing
    <3>4. frames = <<>> => DOMAIN frames = {}
      OBVIOUS
    <3>5. CASE RootIs({"insert"})
      <4>1. attaching = {Root.id}
        BY <3>2, <3>3, <3>5 DEF RootIs, Root
      <4>2. CASE Root.id \notin overlays
        <5>1. attaching \ overlays = {Root.id}
          BY <4>1, <4>2
        <5>2. Cardinality(attaching \ overlays) = 1
          BY <5>1, FS_Singleton
        <5> QED BY <3>5, <4>2, <5>2 DEF Base
      <4>3. CASE Root.id \in overlays
        <5>1. attaching \ overlays = {}
          BY <4>1, <4>3
        <5>2. Cardinality(attaching \ overlays) = 0
          BY <5>1, FS_EmptySet
        <5> QED BY <3>5, <4>3, <5>2 DEF Base
      <4> QED BY <4>2, <4>3
    <3>6. CASE ~RootIs({"insert"})
      <4>1. attaching \ overlays = {}
        BY <3>2, <3>4, <3>6 DEF RootIs, Root
      <4>2. Cardinality(attaching \ overlays) = 0
        BY <4>1, FS_EmptySet
      <4> QED BY <3>6, <4>2 DEF Base
    <3> QED BY <3>5, <3>6
  <2>3. \A i \in DOMAIN layers : layers[i] \in overlays <=> i > Base
    BY DEF LayerInv, OverlaysOK
  <2>4. OverlaysOnTop
    BY <2>2, <2>3 DEF OverlaysOnTop
  <2> QED BY <2>1, <2>4 DEF CursorsValid
<1> QED BY <1>1, LayerInvariant, PTL

(* A layer is attached once and detached before it leaves the stack, and in  *)
(* between it has its owner when it is updated or gets an event.             *)
THEOREM LayersLive == Spec => []LifeOfLayers
<1>1. LayerInv => LifeOfLayers
  <2> SUFFICES ASSUME LayerInv PROVE LifeOfLayers
    OBVIOUS
  <2>1. frames \in Seq(Frame) /\ \A i \in DOMAIN frames : frames[i] \in Frame
    BY ElementOfSeq DEF LayerInv, Typed
  <2>2. /\ bound \subseteq Layers /\ attached \subseteq bound
        /\ RootIs({"existing", "insert"}) => Root.id \notin ever
        /\ RootIs({"remove", "stop"}) => Root.id \in attached
        /\ stage = "active" /\ boundary # "attach" /\ ~failed => Layers \subseteq bound
    BY DEF LayerInv, AttachedOK
  <2>3. ASSUME NEW i \in DOMAIN frames
        PROVE  CASE frames[i].kind \in {"existing", "insert"} -> frames[i].id \notin ever
                 [] frames[i].kind \in {"update", "dispatch"} ->
                       \/ frames[i].id \in bound
                       \/ \E j \in 1..(i - 1) : frames[j].kind \in {"existing", "stop"}
                 [] OTHER -> frames[i].id \in attached
    <3>1. frames[i].kind # "dispatch" => i = 1
      BY DEF LayerInv, FramesOK
    <3>2. frames # <<>> /\ frames[1] = Root /\ Root \in Frame /\ i \in Nat \ {0}
      <4>1. frames # <<>>
        OBVIOUS
      <4> QED BY <2>1, <4>1, TopFacts DEF Root, Traversing
    <3>3. CASE frames[i].kind \in {"existing", "insert"}
      <4>1. i = 1
        BY <3>1, <3>3
      <4>2. frames[i].id \notin ever
        BY <2>2, <3>2, <3>3, <4>1 DEF RootIs
      <4> QED BY <3>3, <4>2
    <3>4. CASE frames[i].kind \in {"remove", "stop"}
      <4>1. i = 1
        BY <3>1, <3>4
      <4>2. frames[i].id \in attached
        BY <2>2, <3>2, <3>4, <4>1 DEF RootIs
      <4> QED BY <3>4, <4>2
    <3>5. CASE frames[i].kind \in {"update", "dispatch"}
      <4>1. frames[i].id \in Layers
        BY DEF LayerInv, FramesOK, Layers
      <4>2. CASE Root.kind \in {"existing", "stop"}
        <5>1. 1 \in 1..(i - 1)
          <6>1. i # 1
            BY <3>2, <3>5, <4>2
          <6> QED BY <3>2, <6>1
        <5>2. \E j \in 1..(i - 1) : frames[j].kind \in {"existing", "stop"}
          BY <3>2, <4>2, <5>1
        <5> QED BY <3>5, <5>2
      <4>3. CASE Root.kind \in {"insert", "remove", "update", "dispatch"}
        <5>1. stage = "active" /\ boundary # "attach" /\ ~failed
          BY <3>2, <4>3 DEF LayerInv, ControlOK, RootIs
        <5>2. frames[i].id \in bound
          BY <2>2, <4>1, <5>1
        <5> QED BY <3>5, <5>2
      <4> QED BY <3>2, <4>2, <4>3 DEF Frame
    <3> QED BY <2>1, <3>3, <3>4, <3>5 DEF Frame
  <2> QED BY <2>2, <2>3 DEF LifeOfLayers
<1> QED BY <1>1, LayerInvariant, PTL

-----------------------------------------------------------------------------
(* Requests take effect. *)

(* When nothing waits, the answers say what is in the stack.                 *)
LEMMA AnswersHold == LayerInv => Answered
<1> SUFFICES ASSUME LayerInv, Idle, pending = <<>> PROVE Layers \ repeated = wanted \ repeated
  BY DEF Answered
<1>1. ~Traversing /\ boundary = "none" /\ ~failed
  BY DEF Idle
<1>2. Adds(pending) = {} /\ Removes(pending) = {}
  BY DEF Adds, Removes
<1>3. \A id : id \notin repeated => (id \in wanted <=> Comes(id) /\ ~Goes(id))
  BY <1>1, NoRoot DEF LayerInv, WantedOK
<1>4. \A id : (Comes(id) <=> id \in Layers) /\ ~Goes(id)
  BY <1>1, <1>2, NoRoot DEF Comes, Goes
<1> QED BY <1>3, <1>4

(* A step that lets no layer in and adds nothing to what a boundary takes.   *)
LEMMA NothingMore ==
    ASSUME Layers' \subseteq Layers, UNCHANGED batch
    PROVE  WaitsForBoundary
<1>1. Adds(batch') = Adds(batch) /\ Removes(batch') = Removes(batch)
  OBVIOUS
<1> QED BY <1>1 DEF WaitsForBoundary

(* What a boundary takes is what waited when it began.                       *)
LEMMA TakesTheBatch == LayerInv /\ TakeOperations => WaitsForBoundary
<1> SUFFICES ASSUME LayerInv, TakeOperations PROVE WaitsForBoundary
  OBVIOUS
<1>1. batch' = SubSeq(pending, 1, Len(batch)) /\ Layers' = Layers
  BY DEF TakeOperations, Taken, stack, Layers
<1>2. BatchWaits /\ boundary = "attach"
  BY DEF LayerInv, TakeOperations
<1>3. PICK q \in Seq(Operation), n \in Nat : q = pending /\ n = Len(batch) /\ n <= Len(q) /\ Len(q) \in Nat
  BY <1>2, RequestFacts DEF BatchWaits
<1>4. PICK t \in Seq(Operation) : t = batch /\ DOMAIN t = 1..n
  BY <1>3, RequestFacts
<1>5. PICK r : r = SubSeq(q, 1, n)
  OBVIOUS
<1>6. Len(r) = n /\ DOMAIN r = 1..n /\ \A i \in 1..n : r[i] = q[i]
  BY <1>3, <1>5
<1>7. \A i \in 1..n : r[i] = t[i]
  BY <1>2, <1>3, <1>4, <1>6 DEF BatchWaits
<1>8. Adds(r) = Adds(t) /\ Removes(r) = Removes(t)
  BY <1>4, <1>6, <1>7 DEF Adds, Removes
<1>9. batch' = r /\ batch = t
  BY <1>1, <1>3, <1>4, <1>5
<1> QED BY <1>1, <1>8, <1>9 DEF WaitsForBoundary

(* A boundary's removal lets no layer in.                                    *)
LEMMA RemovalLetsNoneIn ==
    ASSUME LayerInv, ~Traversing, NEW id \in Id, RemoveNow(id)
    PROVE  Layers' \subseteq Layers
<1>1. CASE UNCHANGED stack
  BY <1>1 DEF stack, Layers
<1>2. CASE id \in Layers /\ Erase(id)
  BY <1>2, EraseFacts, QuietFacts
<1> QED BY <1>1, <1>2 DEF RemoveNow

(* A boundary applies the first of the operations it has taken.              *)
LEMMA AppliesTheBatch == LayerInv /\ ApplyOperation => WaitsForBoundary
<1> SUFFICES ASSUME LayerInv, ApplyOperation PROVE WaitsForBoundary
  OBVIOUS
<1>1. ~Traversing /\ boundary = "apply" /\ batch # <<>> /\ batch' = Tail(batch)
  BY DEF ApplyOperation
<1>2. PICK n \in Id : n = Head(batch).id
  BY <1>1, BatchHead DEF Operation
<1>3. CASE Head(batch).kind = "add" /\ Insert(Head(batch).id, Head(batch).id \in overlays)
  <2>1. n \notin Layers /\ Adds(batch) = Adds(batch') \cup {n} /\ Removes(batch) = Removes(batch')
    BY <1>1, <1>2, <1>3, BatchHead
  <2>2. PICK overlay \in BOOLEAN : (overlay <=> n \in overlays) /\ layers' = InsertAt(layers, Place(overlay), n)
    <3>1. CASE n \in overlays
      <4>1. layers' = InsertAt(layers, Place(TRUE), n)
        BY <1>2, <1>3, <3>1 DEF Insert, Place
      <4> QED BY <3>1, <4>1
    <3>2. CASE n \notin overlays
      <4>1. layers' = InsertAt(layers, Place(FALSE), n)
        BY <1>2, <1>3, <3>2 DEF Insert, Place
      <4> QED BY <3>2, <4>1
    <3> QED BY <3>1, <3>2
  <2>3. overlays' = overlays
    BY DEF ApplyOperation
  <2>4. Layers' = Layers \cup {n}
    BY <1>1, <2>1, <2>2, <2>3, PlaceFacts
  <2> QED BY <2>1, <2>4 DEF WaitsForBoundary
<1>4. CASE Head(batch).kind = "remove" /\ RemoveNow(Head(batch).id)
  <2>1. Removes(batch) = Removes(batch') \cup {n} /\ Adds(batch) = Adds(batch')
    BY <1>1, <1>2, <1>4, BatchHead
  <2>2. RemoveNow(n)
    BY <1>2, <1>4
  <2>3. Layers' \subseteq Layers
    BY <1>1, <2>2, RemovalLetsNoneIn
  <2> QED BY <2>1, <2>3 DEF WaitsForBoundary
<1> QED BY <1>3, <1>4 DEF ApplyOperation

(* OnAttach throws: a layer leaves, and none comes.                          *)
LEMMA FailureLetsNoneIn == LayerInv /\ ThrowFromAttach => WaitsForBoundary
<1> SUFFICES ASSUME LayerInv, ThrowFromAttach PROVE WaitsForBoundary
  OBVIOUS
<1>1. Traversing /\ Top.kind \in {"existing", "insert"} /\ layers' = AfterFailure
  BY DEF ThrowFromAttach
<1>2. Len(frames) = 1
  BY <1>1, TopFacts
<1>3. boundary # "none" => boundary' = "none"
  BY <1>2 DEF ThrowFromAttach
<1> QED BY <1>3 DEF WaitsForBoundary

(* A boundary applies what waited when it began and nothing besides.         *)
LEMMA BoundariesWait == LayerInv /\ [Next]_vars => WaitsForBoundary
<1> SUFFICES ASSUME LayerInv, [Next]_vars, boundary # "none", boundary' # "none" PROVE WaitsForBoundary
  BY DEF WaitsForBoundary
<1>1. CASE \E overlay \in BOOLEAN : Push(overlay) \/ PushDeferred(overlay)
  <2>1. layers' = layers /\ batch' = batch
    BY <1>1 DEF Push, PushDeferred, Idle, stack, control
  <2> QED BY <2>1, NothingMore DEF Layers
<1>2. CASE \E id \in Id : RemoveLayer(id) \/ RemoveDeferred(id)
  <2>1. layers' = layers /\ batch' = batch
    BY <1>2 DEF RemoveLayer, RemoveDeferred, Idle, stack, control
  <2> QED BY <2>1, NothingMore DEF Layers
<1>3. CASE Dispatch \/ Update \/ ReturnFromTraversal \/ ThrowFromTraversal \/ ReturnFromAttach \/ AttachExisting
  <2>1. layers' = layers /\ batch' = batch
    BY <1>3 DEF Dispatch, Update, ReturnFromTraversal, ThrowFromTraversal, ReturnFromAttach, AttachExisting, stack, control
  <2> QED BY <2>1, NothingMore DEF Layers
<1>4. CASE ReturnFromDetach
  <2>1. Traversing /\ Top.kind = "remove" /\ Erase(Top.id) /\ batch' = batch
    BY <1>4 DEF ReturnFromDetach, control
  <2>2. Top = Root /\ Root \in Frame
    BY <2>1, TopFacts
  <2>3. PICK id \in Layers : id = Top.id
    BY <2>1, TopFacts DEF Layers
  <2>4. Base = overlayStart
    BY <2>1, <2>2 DEF LayerInv, Typed, Base, RootIs
  <2>5. Layers' = Layers \ {id}
    BY <2>1, <2>3, <2>4, EraseFacts
  <2> QED BY <2>1, <2>5, NothingMore
<1>5. CASE ThrowFromAttach
  BY <1>5, FailureLetsNoneIn
<1>6. CASE TakeOperations
  BY <1>6, TakesTheBatch
<1>7. CASE ApplyOperation
  BY <1>7, AppliesTheBatch
<1>8. CASE BeginBoundary \/ EndBoundary \/ Deactivate
  BY <1>8 DEF BeginBoundary, EndBoundary, Deactivate, Idle
<1>9. CASE ReturnFromStop
  <2>1. RootIs({"stop"})
    BY <1>9, TopFacts DEF ReturnFromStop, RootIs, Traversing
  <2>2. boundary = "none"
    BY <2>1 DEF LayerInv, ControlOK
  <2> QED BY <2>2
<1>10. CASE UNCHANGED vars
  <2>1. layers' = layers /\ batch' = batch
    BY <1>10 DEF vars, stack, control
  <2> QED BY <2>1, NothingMore DEF Layers
<1> QED BY <1>1, <1>2, <1>3, <1>4, <1>5, <1>6, <1>7, <1>8, <1>9, <1>10 DEF Next

(* Every request takes effect once and not before the boundary that takes    *)
(* it: what callbacks ask for while ApplyPending runs waits for the next.    *)
THEOREM RequestsDoSettle == Spec => RequestsSettle
<1>1. LayerInv /\ LayerInv' /\ [Next]_vars => [Answered' /\ WaitsForBoundary]_vars
  <2> SUFFICES ASSUME LayerInv, LayerInv', [Next]_vars PROVE Answered' /\ WaitsForBoundary
    OBVIOUS
  <2>1. WaitsForBoundary
    BY BoundariesWait
  <2>2. Answered'
    BY AnswersHold, PTL
  <2> QED BY <2>1, <2>2
<1> QED BY <1>1, LayerInvariant, PTL DEF Spec, RequestsSettle
=============================================================================
