---------------------------- MODULE StreamingProofs ----------------------------
(***************************************************************************)
(* Proofs about the streaming system, for any classes, sizes, budgets and  *)
(* capacities: handles stay with their requests, nobody reads in vain, the *)
(* statistics are right, and evictions take no more than they must.        *)
(***************************************************************************)
EXTENDS StreamingProperties, FiniteSetTheorems, SequenceTheorems, TLAPS

-----------------------------------------------------------------------------
(* Sets and folds.  A fold is the value of a recursive function that CHOOSE  *)
(* picks: it exists, by the least set on which it would not.                 *)

(* Of any sets among the subsets of a finite set one includes no other.      *)
LEMMA SmallestSet ==
    ASSUME NEW S, IsFiniteSet(S), NEW T \in SUBSET SUBSET S, T # {}
    PROVE  \E x \in T : \A y \in T : y \subseteq x => y = x
<1>1. IsWellFoundedOn(StrictSubsetOrdering(S), FiniteSubsetsOf(S))
  BY FS_StrictSubsetOrderingWellFounded
<1>2. T \subseteq FiniteSubsetsOf(S)
  <2>1. ASSUME NEW x \in T PROVE x \in FiniteSubsetsOf(S)
    <3>1. x \in SUBSET S
      OBVIOUS
    <3> QED BY <3>1, FS_Subset DEF FiniteSubsetsOf
  <2> QED BY <2>1
<1>3. PICK x \in T : \A y \in T : ~(<<y, x>> \in StrictSubsetOrdering(S))
  BY <1>1, <1>2, WFMin
<1>4. ASSUME NEW y \in T, y \subseteq x, y # x PROVE FALSE
  <2>1. <<y, x>> \in StrictSubsetOrdering(S)
    BY <1>4 DEF StrictSubsetOrdering
  <2> QED BY <1>3, <2>1
<1> QED BY <1>3, <1>4

(* A function that combines the elements of each subset, one after the other *)
(* as pick takes them out.                                                   *)
Combines(iter, base, op, pick, S) ==
    \A s \in SUBSET S : iter[s] = IF s = {} THEN base ELSE op[pick[s]][iter[s \ {pick[s]}]]

(* There is only one.                                                        *)
LEMMA CombinesOnce ==
    ASSUME NEW S, IsFiniteSet(S), NEW A \in SUBSET S, NEW B \in SUBSET S, NEW base, NEW op, NEW pick,
           \A s \in SUBSET S : s # {} => pick[s] \in s,
           NEW f, NEW g, Combines(f, base, op, pick, A), Combines(g, base, op, pick, B)
    PROVE  \A s \in SUBSET S : s \subseteq A /\ s \subseteq B => f[s] = g[s]
<1> DEFINE Bad == {s \in SUBSET S : s \subseteq A /\ s \subseteq B /\ f[s] # g[s]}
<1>1. SUFFICES ASSUME Bad # {} PROVE FALSE
  OBVIOUS
<1>2. PICK s \in Bad : \A t \in Bad : t \subseteq s => t = s
  <2>1. Bad \in SUBSET SUBSET S
    OBVIOUS
  <2> HIDE DEF Bad
  <2> QED BY <1>1, <2>1, SmallestSet
<1>3. f[s] = (IF s = {} THEN base ELSE op[pick[s]][f[s \ {pick[s]}]])
  BY DEF Combines
<1>4. g[s] = (IF s = {} THEN base ELSE op[pick[s]][g[s \ {pick[s]}]])
  BY DEF Combines
<1>5. s # {}
  BY <1>3, <1>4
<1>6. pick[s] \in s /\ s \ {pick[s]} # s
  BY <1>5
<1>7. f[s \ {pick[s]}] = g[s \ {pick[s]}]
  BY <1>2, <1>6
<1> QED BY <1>3, <1>4, <1>5, <1>7

(* There is one.                                                             *)
LEMMA CombinesExist ==
    ASSUME NEW S, IsFiniteSet(S), NEW V, NEW base \in V, NEW op \in [S -> [V -> V]], NEW pick,
           \A s \in SUBSET S : s # {} => pick[s] \in s
    PROVE  \E iter \in [SUBSET S -> V] : Combines(iter, base, op, pick, S)
<1> DEFINE Good(T) == \E iter \in [SUBSET T -> V] : Combines(iter, base, op, pick, T)
           Bad == {T \in SUBSET S : ~Good(T)}
<1>1. SUFFICES ASSUME Bad # {} PROVE FALSE
  BY <1>1
<1>2. PICK T \in Bad : \A t \in Bad : t \subseteq T => t = T
  <2>1. Bad \in SUBSET SUBSET S
    OBVIOUS
  <2> HIDE DEF Bad
  <2> QED BY <1>1, <2>1, SmallestSet
<1> DEFINE It(u) == CHOOSE iter \in [SUBSET u -> V] : Combines(iter, base, op, pick, u)
           val(u) == It(u)[u]
<1>3. ASSUME NEW u \in SUBSET T, u # T PROVE It(u) \in [SUBSET u -> V] /\ Combines(It(u), base, op, pick, u)
  <2>1. u \in SUBSET S /\ u \notin Bad
    BY <1>2, <1>3
  <2>2. Good(u)
    BY <2>1
  <2> QED BY <2>2
<1> HIDE DEF It
<1>4. \A s \in SUBSET T : s # {} => pick[s] \in s /\ s \ {pick[s]} \in SUBSET T /\ s \ {pick[s]} # T
  <2>1. T \in SUBSET S
    OBVIOUS
  <2> QED BY <2>1
<1>5. ASSUME NEW u \in SUBSET T, u # T
      PROVE  /\ val(u) \in V
             /\ val(u) = IF u = {} THEN base ELSE op[pick[u]][val(u \ {pick[u]})]
  <2>1. It(u) \in [SUBSET u -> V] /\ Combines(It(u), base, op, pick, u)
    BY <1>3, <1>5
  <2>2. It(u)[u] \in V
    BY <2>1
  <2>3. It(u)[u] = IF u = {} THEN base ELSE op[pick[u]][It(u)[u \ {pick[u]}]]
    BY <2>1 DEF Combines
  <2>4. ASSUME u # {} PROVE It(u)[u \ {pick[u]}] = val(u \ {pick[u]})
    <3>1. PICK w : w = u \ {pick[u]}
      OBVIOUS
    <3>2. w \in SUBSET T /\ w # T /\ w \subseteq u /\ pick[u] \in u
      BY <1>4, <1>5, <2>4, <3>1
    <3>3. Combines(It(w), base, op, pick, w)
      BY <1>3, <3>2
    <3>4. u \in SUBSET S /\ w \in SUBSET S
      BY <3>2
    <3>5. It(u)[w] = It(w)[w]
      BY <2>1, <3>2, <3>3, <3>4, CombinesOnce
    <3> QED BY <3>1, <3>5
  <2> QED BY <2>2, <2>3, <2>4
<1> DEFINE G == [s \in SUBSET T |-> IF s = {} THEN base ELSE op[pick[s]][val(s \ {pick[s]})]]
<1> HIDE DEF val
<1>6. G \in [SUBSET T -> V]
  <2>1. ASSUME NEW s \in SUBSET T, s # {} PROVE op[pick[s]][val(s \ {pick[s]})] \in V
    <3>1. pick[s] \in S /\ op[pick[s]] \in [V -> V]
      BY <1>4, <2>1
    <3>2. val(s \ {pick[s]}) \in V
      BY <1>4, <1>5, <2>1
    <3> QED BY <3>1, <3>2
  <2> QED BY <2>1
<1>7. ASSUME NEW u \in SUBSET T, u # T PROVE G[u] = val(u)
  BY <1>5, <1>7
<1>8. Combines(G, base, op, pick, T)
  <2>1. ASSUME NEW s \in SUBSET T, s # {} PROVE G[s] = op[pick[s]][G[s \ {pick[s]}]]
    BY <1>4, <1>7, <2>1
  <2>2. G[{}] = base
    OBVIOUS
  <2> HIDE DEF G
  <2> QED BY <2>1, <2>2 DEF Combines
<1> HIDE DEF G
<1> QED BY <1>6, <1>8, <1>2

-----------------------------------------------------------------------------
(* Sums over finite sets. *)


Chosen(S) == [s \in SUBSET S |-> CHOOSE x \in s : TRUE]
Adding(f, S) == [x \in S |-> [n \in Nat |-> f[x] + n]]

(* The recursion that Sum states.                                            *)
LEMMA SumIs ==
    ASSUME NEW S, IsFiniteSet(S), NEW f, \A x \in S : f[x] \in Nat
    PROVE  \E iter \in [SUBSET S -> Nat] :
              /\ iter[S] = SumFunctionOnSet(f, S)
              /\ Combines(iter, 0, Adding(f, S), Chosen(S), S)
<1>1. \A s \in SUBSET S : s # {} => Chosen(S)[s] \in s /\ Chosen(S)[s] = CHOOSE x \in s : TRUE
  BY DEF Chosen
<1>2. Adding(f, S) \in [S -> [Nat -> Nat]]
  BY DEF Adding
<1>3. PICK iter \in [SUBSET S -> Nat] : Combines(iter, 0, Adding(f, S), Chosen(S), S)
  BY <1>1, <1>2, CombinesExist
<1> DEFINE Is(it) == it = [s \in SUBSET S |-> IF s = {} THEN 0
                              ELSE f[CHOOSE x \in s : TRUE] + it[s \ {CHOOSE x \in s : TRUE}]]
<1>4. Is(iter)
  <2>1. ASSUME NEW s \in SUBSET S, s # {}
        PROVE  iter[s] = f[CHOOSE x \in s : TRUE] + iter[s \ {CHOOSE x \in s : TRUE}]
    <3>1. iter[s] = Adding(f, S)[Chosen(S)[s]][iter[s \ {Chosen(S)[s]}]]
      BY <1>3, <2>1 DEF Combines
    <3>2. Chosen(S)[s] \in S /\ iter[s \ {Chosen(S)[s]}] \in Nat
      BY <1>1, <2>1
    <3>3. iter[s] = f[Chosen(S)[s]] + iter[s \ {Chosen(S)[s]}]
      BY <3>1, <3>2 DEF Adding
    <3> QED BY <1>1, <2>1, <3>3
  <2>2. iter[{}] = 0
    BY <1>3 DEF Combines
  <2> QED BY <2>1, <2>2
<1>5. PICK it : it = CHOOSE i : Is(i)
  OBVIOUS
<1>6. Is(it)
  <2>1. \E i : Is(i)
    BY <1>4
  <2> HIDE DEF Is
  <2> QED BY <1>5, <2>1
<1>7. SumFunctionOnSet(f, S) = it[S]
  BY <1>5 DEF SumFunctionOnSet, FoldFunctionOnSet, MapThenFoldSet
<1>8. ASSUME NEW s \in SUBSET S PROVE it[s] = iter[s]
  <2> DEFINE Bad == {t \in SUBSET S : it[t] # iter[t]}
  <2>1. SUFFICES ASSUME Bad # {} PROVE FALSE
    BY <2>1
  <2>2. PICK t \in Bad : \A u \in Bad : u \subseteq t => u = t
    <3>1. Bad \in SUBSET SUBSET S
      OBVIOUS
    <3> HIDE DEF Bad
    <3> QED BY <2>1, <3>1, SmallestSet
  <2>3. PICK x : x = CHOOSE y \in t : TRUE
    OBVIOUS
  <2>4. it[t] = (IF t = {} THEN 0 ELSE f[x] + it[t \ {x}]) /\ iter[t] = IF t = {} THEN 0 ELSE f[x] + iter[t \ {x}]
    BY <1>4, <1>6, <2>3
  <2>5. t # {} /\ x \in t
    BY <2>2, <2>3, <2>4
  <2>6. it[t \ {x}] = iter[t \ {x}]
    BY <2>2, <2>5
  <2> QED BY <2>2, <2>4, <2>5, <2>6
<1> QED BY <1>3, <1>7, <1>8

(* Sums are numbers, and do not depend on the order.                         *)
LEMMA SumStep ==
    ASSUME NEW S, IsFiniteSet(S), NEW f, \A x \in S : f[x] \in Nat
    PROVE  /\ SumFunctionOnSet(f, S) \in Nat
           /\ S = {} => SumFunctionOnSet(f, S) = 0
           /\ S # {} => \E x \in S : SumFunctionOnSet(f, S) = f[x] + SumFunctionOnSet(f, S \ {x})
<1>1. PICK iter \in [SUBSET S -> Nat] : iter[S] = SumFunctionOnSet(f, S) /\ Combines(iter, 0, Adding(f, S), Chosen(S), S)
  BY SumIs
<1>2. S = {} => iter[S] = 0
  BY <1>1 DEF Combines
<1>3. ASSUME S # {} PROVE \E x \in S : SumFunctionOnSet(f, S) = f[x] + SumFunctionOnSet(f, S \ {x})
  <2>1. PICK x : x = Chosen(S)[S]
    OBVIOUS
  <2>2. PICK R : R = S \ {x}
    OBVIOUS
  <2>3. \A s \in SUBSET S : s # {} => Chosen(S)[s] \in s
    BY DEF Chosen
  <2>4. x \in S /\ R \in SUBSET S /\ IsFiniteSet(R)
    BY <1>3, <2>1, <2>2, <2>3, FS_Subset
  <2>5. iter[S] = Adding(f, S)[x][iter[R]] /\ iter[R] \in Nat
    BY <1>1, <1>3, <2>1, <2>2, <2>4 DEF Combines
  <2>6. iter[S] = f[x] + iter[R]
    BY <2>4, <2>5 DEF Adding
  <2>7. PICK it \in [SUBSET R -> Nat] : it[R] = SumFunctionOnSet(f, R) /\ Combines(it, 0, Adding(f, R), Chosen(R), R)
    BY <2>4, SumIs
  <2>8. Combines(it, 0, Adding(f, S), Chosen(S), R)
    <3>1. ASSUME NEW s \in SUBSET R, s # {} PROVE it[s] = Adding(f, S)[Chosen(S)[s]][it[s \ {Chosen(S)[s]}]]
      <4>1. it[s] = Adding(f, R)[Chosen(R)[s]][it[s \ {Chosen(R)[s]}]]
        BY <2>7, <3>1 DEF Combines
      <4>2. Chosen(R)[s] = Chosen(S)[s] /\ Chosen(R)[s] \in s
        BY <2>4, <3>1 DEF Chosen
      <4>3. PICK y \in R : y = Chosen(S)[s]
        BY <4>2
      <4>4. it[s \ {y}] \in Nat
        BY <2>7
      <4>5. Adding(f, R)[y][it[s \ {y}]] = Adding(f, S)[y][it[s \ {y}]]
        BY <2>4, <4>3, <4>4 DEF Adding
      <4> QED BY <4>1, <4>2, <4>3, <4>5
    <3>2. it[{}] = 0
      BY <2>7 DEF Combines
    <3> QED BY <3>1, <3>2 DEF Combines
  <2>9. it[R] = iter[R]
    BY <1>1, <2>3, <2>4, <2>8, CombinesOnce
  <2> QED BY <1>1, <2>2, <2>4, <2>6, <2>7, <2>9
<1> QED BY <1>1, <1>2, <1>3

LEMMA SumTakesOut ==
    ASSUME NEW S, IsFiniteSet(S), NEW f, \A x \in S : f[x] \in Nat, NEW a \in S
    PROVE  SumFunctionOnSet(f, S) = f[a] + SumFunctionOnSet(f, S \ {a})
<1> DEFINE Holds(T) == \A x \in T : SumFunctionOnSet(f, T) = f[x] + SumFunctionOnSet(f, T \ {x})
           Bad == {T \in SUBSET S : ~Holds(T)}
<1>1. SUFFICES ASSUME Bad # {} PROVE FALSE
  <2>1. S \notin Bad => Holds(S)
    OBVIOUS
  <2>2. Bad = {} => Holds(S)
    BY <2>1
  <2> HIDE DEF Bad
  <2> QED BY <1>1, <2>2
<1>2. PICK T \in Bad : \A t \in Bad : t \subseteq T => t = T
  <2>1. Bad \in SUBSET SUBSET S
    OBVIOUS
  <2> HIDE DEF Bad
  <2> QED BY <1>1, <2>1, SmallestSet
<1>3. \A t \in SUBSET S : IsFiniteSet(t) /\ SumFunctionOnSet(f, t) \in Nat
  <2>1. ASSUME NEW t \in SUBSET S PROVE IsFiniteSet(t) /\ \A x \in t : f[x] \in Nat
    BY FS_Subset
  <2> QED BY <2>1, SumStep
<1>4. PICK y \in T : SumFunctionOnSet(f, T) # f[y] + SumFunctionOnSet(f, T \ {y})
  OBVIOUS
<1>5. PICK x \in T : SumFunctionOnSet(f, T) = f[x] + SumFunctionOnSet(f, T \ {x})
  <2>1. T \in SUBSET S /\ T # {} /\ \A z \in T : f[z] \in Nat
    BY <1>4
  <2> QED BY <1>3, <2>1, SumStep
<1>6. x # y
  BY <1>4, <1>5
<1>7. T \ {x} \notin Bad /\ T \ {y} \notin Bad
  BY <1>2
<1>8. SumFunctionOnSet(f, T \ {x}) = f[y] + SumFunctionOnSet(f, (T \ {x}) \ {y})
  <2>1. T \ {x} \in SUBSET S /\ y \in T \ {x}
    BY <1>6
  <2> QED BY <1>7, <2>1
<1>9. SumFunctionOnSet(f, T \ {y}) = f[x] + SumFunctionOnSet(f, (T \ {y}) \ {x})
  <2>1. T \ {y} \in SUBSET S /\ x \in T \ {y}
    BY <1>6
  <2> QED BY <1>7, <2>1
<1>10. (T \ {x}) \ {y} = (T \ {y}) \ {x}
  OBVIOUS
<1>11. PICK R \in SUBSET S : R = (T \ {x}) \ {y}
  OBVIOUS
<1>12. f[x] \in Nat /\ f[y] \in Nat /\ SumFunctionOnSet(f, R) \in Nat
  BY <1>3
<1>13. SumFunctionOnSet(f, T \ {x}) = f[y] + SumFunctionOnSet(f, R) /\ SumFunctionOnSet(f, T \ {y}) = f[x] + SumFunctionOnSet(f, R)
  BY <1>8, <1>9, <1>10, <1>11
<1>14. f[x] + (f[y] + SumFunctionOnSet(f, R)) = f[y] + (f[x] + SumFunctionOnSet(f, R))
  BY <1>12
<1>15. SumFunctionOnSet(f, T) = f[y] + SumFunctionOnSet(f, T \ {y})
  <2>1. SumFunctionOnSet(f, T) = f[x] + (f[y] + SumFunctionOnSet(f, R))
    BY <1>5, <1>13
  <2> QED BY <1>13, <1>14, <2>1
<1> QED BY <1>4, <1>15

LEMMA SumEmpty == ASSUME NEW f PROVE SumFunctionOnSet(f, {}) = 0
  BY SumStep, FS_EmptySet

LEMMA SumAdds ==
    ASSUME NEW S, IsFiniteSet(S), NEW a, NEW f, \A x \in S \cup {a} : f[x] \in Nat, a \notin S
    PROVE  SumFunctionOnSet(f, S \cup {a}) = SumFunctionOnSet(f, S) + f[a]
<1>1. IsFiniteSet(S \cup {a}) /\ (S \cup {a}) \ {a} = S
  BY FS_AddElement
<1>2. SumFunctionOnSet(f, S \cup {a}) = f[a] + SumFunctionOnSet(f, S)
  BY <1>1, SumTakesOut
<1>3. SumFunctionOnSet(f, S) \in Nat /\ f[a] \in Nat
  BY SumStep
<1> QED BY <1>2, <1>3

(* Parts have no greater sums.                                               *)
LEMMA SumGrows ==
    ASSUME NEW S, IsFiniteSet(S), NEW T \in SUBSET S, NEW f, \A x \in S : f[x] \in Nat
    PROVE  SumFunctionOnSet(f, T) <= SumFunctionOnSet(f, S)
<1> DEFINE Bad == {U \in SUBSET S : T \subseteq U /\ ~(SumFunctionOnSet(f, T) <= SumFunctionOnSet(f, U))}
<1>1. SUFFICES ASSUME Bad # {} PROVE FALSE
  BY <1>1
<1>2. PICK U \in Bad : \A t \in Bad : t \subseteq U => t = U
  <2>1. Bad \in SUBSET SUBSET S
    OBVIOUS
  <2> HIDE DEF Bad
  <2> QED BY <1>1, <2>1, SmallestSet
<1>3. \A t \in SUBSET S : IsFiniteSet(t) /\ SumFunctionOnSet(f, t) \in Nat
  <2>1. ASSUME NEW t \in SUBSET S PROVE IsFiniteSet(t) /\ \A x \in t : f[x] \in Nat
    BY FS_Subset
  <2> QED BY <2>1, SumStep
<1>4. U # T
  BY <1>2, <1>3
<1>5. PICK x \in U : x \notin T
  BY <1>2, <1>4
<1>6. PICK R : R \in SUBSET S /\ R = U \ {x} /\ T \subseteq R /\ R # U /\ R \subseteq U
  <2>1. U \in SUBSET S /\ T \subseteq U
    BY <1>2
  <2>2. U \ {x} \in SUBSET S /\ T \subseteq U \ {x} /\ U \ {x} # U
    BY <1>5, <2>1
  <2> HIDE DEF Bad
  <2> QED BY <2>2
<1>7. SumFunctionOnSet(f, T) <= SumFunctionOnSet(f, R)
  BY <1>2, <1>6
<1>8. SumFunctionOnSet(f, U) = f[x] + SumFunctionOnSet(f, R)
  BY <1>3, <1>6, SumTakesOut
<1>9. f[x] \in Nat /\ SumFunctionOnSet(f, R) \in Nat /\ SumFunctionOnSet(f, T) \in Nat
  BY <1>2, <1>3, <1>6
<1> QED BY <1>2, <1>7, <1>8, <1>9

(* A sum depends on its terms alone.                                         *)
LEMMA SumSame ==
    ASSUME NEW S, IsFiniteSet(S), NEW f, NEW g, \A x \in S : f[x] \in Nat /\ g[x] = f[x]
    PROVE  SumFunctionOnSet(g, S) = SumFunctionOnSet(f, S)
<1> DEFINE Bad == {T \in SUBSET S : SumFunctionOnSet(g, T) # SumFunctionOnSet(f, T)}
<1>1. SUFFICES ASSUME Bad # {} PROVE FALSE
  BY <1>1
<1>2. PICK T \in Bad : \A t \in Bad : t \subseteq T => t = T
  <2>1. Bad \in SUBSET SUBSET S
    OBVIOUS
  <2> HIDE DEF Bad
  <2> QED BY <1>1, <2>1, SmallestSet
<1>3. IsFiniteSet(T) /\ \A x \in T : f[x] \in Nat /\ g[x] = f[x]
  BY FS_Subset
<1>4. PICK a \in T : TRUE
  BY <1>2, SumEmpty
<1>5. SumFunctionOnSet(g, T \ {a}) = SumFunctionOnSet(f, T \ {a})
  <2>1. T \ {a} \in SUBSET S /\ T \ {a} # T
    BY <1>4
  <2> QED BY <1>2, <2>1
<1>6. SumFunctionOnSet(f, T) = f[a] + SumFunctionOnSet(f, T \ {a}) /\ SumFunctionOnSet(g, T) = g[a] + SumFunctionOnSet(g, T \ {a})
  BY <1>3, <1>4, SumTakesOut
<1> QED BY <1>2, <1>3, <1>4, <1>5, <1>6

(* One of some numbers is the least.                                         *)
LEMMA LeastOf ==
    ASSUME NEW S, IsFiniteSet(S), S # {}, NEW f, \A x \in S : f[x] \in Nat
    PROVE  \E x \in S : \A y \in S : f[x] <= f[y]
<1> DEFINE Bad == {U \in SUBSET S : U # {} /\ ~\E x \in U : \A y \in U : f[x] <= f[y]}
<1>1. ASSUME Bad # {} PROVE FALSE
  <2>1. PICK U \in Bad : \A t \in Bad : t \subseteq U => t = U
    <3>1. Bad \in SUBSET SUBSET S
      OBVIOUS
    <3> HIDE DEF Bad
    <3> QED BY <1>1, <3>1, SmallestSet
  <2>2. U \in SUBSET S /\ ~\E x \in U : \A y \in U : f[x] <= f[y]
    BY <2>1
  <2>3. PICK x \in U : TRUE
    BY <2>1
  <2>4. U \ {x} \in SUBSET S /\ U \ {x} # U
    BY <2>2, <2>3
  <2>5. U \ {x} = {} \/ \E m \in U \ {x} : \A y \in U \ {x} : f[m] <= f[y]
    BY <2>1, <2>4
  <2>6. CASE U \ {x} = {}
    <3>1. f[x] \in Nat /\ \A y \in U : x = y
      BY <2>2, <2>3, <2>6
    <3> QED BY <2>2, <2>3, <3>1
  <2>7. ASSUME NEW m \in U \ {x}, \A y \in U \ {x} : f[m] <= f[y] PROVE FALSE
    <3>1. f[x] \in Nat /\ f[m] \in Nat /\ \A y \in U : f[y] \in Nat
      BY <2>2, <2>3
    <3>2. CASE f[x] <= f[m]
      <4>1. \A y \in U : f[x] <= f[y]
        BY <2>7, <3>1, <3>2
      <4> QED BY <2>2, <2>3, <4>1
    <3>3. CASE f[m] <= f[x]
      <4>1. \A y \in U : f[m] <= f[y]
        BY <2>7, <3>1, <3>3
      <4> QED BY <2>2, <4>1
    <3> QED BY <3>1, <3>2, <3>3
  <2> QED BY <2>5, <2>6, <2>7
<1> QED BY <1>1

-----------------------------------------------------------------------------
(* The inductive invariant of the table. *)

Slot == [record : RequestRecord \cup {None}, generation : Nat]
Handle == [slot : Nat, generation : Nat]
Operation == [state : {"Queued", "Reading", "Succeeded", "Failed", "Cancelled"}, cancel : BOOLEAN,
              job : {"queued", "reading", "leaving", "over", "dropped"}]

Typed ==
    /\ slots \in Seq(Slot) /\ free \in Seq(Nat) /\ active \in Seq(Handle) /\ issued \in Seq(Handle)
    /\ operations \in Seq(Operation) /\ sequence \in Nat /\ queueSize \in Nat
    /\ open \in BOOLEAN /\ pumping \in BOOLEAN /\ assets \in {"open", "closing", "closed"}

(* A request has its handle, and each handle was returned once.              *)
RecordsOK == \A i \in Occupied :
    /\ slots[i].record.id \in DOMAIN issued
    /\ issued[slots[i].record.id] = [slot |-> i, generation |-> slots[i].generation]

(* The handle of a slot that is free will be another one.                    *)
IssuedOK ==
    /\ IsInjective(issued)
    /\ \A id \in DOMAIN issued :
          /\ issued[id].slot \in DOMAIN slots
          /\ issued[id].generation <= slots[issued[id].slot].generation
          /\ issued[id].slot \notin Occupied => issued[id].generation < slots[issued[id].slot].generation

ActiveOK ==
    /\ IsInjective(active)
    /\ \A k \in DOMAIN active : Matches(active[k])
    /\ \A i \in Occupied : \E k \in DOMAIN active : active[k].slot = i

FreeOK ==
    /\ IsInjective(free)
    /\ \A k \in DOMAIN free : free[k] \in DOMAIN slots \ Occupied
    /\ \A i \in DOMAIN slots \ Occupied : \E k \in DOMAIN free : free[k] = i

Fits == Len(slots) <= MaximumRequests

TableOK == RecordsOK /\ IssuedOK /\ ActiveOK /\ FreeOK /\ Fits

(* Of two requests one was touched later.                                    *)
TouchesOK ==
    /\ \A i \in Occupied : slots[i].record.touch <= sequence
    /\ \A i, k \in Occupied : slots[i].record.touch = slots[k].record.touch => i = k

(* What ReadsAreAwaited says, by slots.                                      *)
Aware(id) == IsTerminal(operations[id].state) \/ operations[id].cancel
Watched == \A id \in DOMAIN operations :
    Aware(id) \/ \E i \in Occupied : slots[i].record.id = id /\ slots[i].record.state = "Loading"
NotOver == {id \in DOMAIN operations : operations[id].job # "over"}
(* A read that a worker has not taken is not over.                           *)
QueuedReads == \A id \in DOMAIN operations :
    operations[id].job = "queued" => operations[id].state = "Queued" \/ operations[id].cancel
ReadsOK == Len(operations) = Len(issued) /\ Watched /\ QueuedReads /\ queueSize = Cardinality(NotOver)

TableInv == Typed /\ TableOK /\ TouchesOK /\ ReadsOK

-----------------------------------------------------------------------------
(* What the invariant promises. *)

(* A record is none that is absent.                                          *)
LEMMA NoneIsNoRecord == None \notin RequestRecord
  BY StreamingAssumption

LEMMA RecordsTyped == Typed => \A i \in Occupied : i \in DOMAIN slots /\ slots[i] \in Slot /\ slots[i].record \in RequestRecord
<1> SUFFICES ASSUME Typed, NEW i \in Occupied PROVE slots[i] \in Slot /\ slots[i].record \in RequestRecord
  BY DEF Occupied
<1>1. slots[i] \in Slot /\ slots[i].record # None
  BY DEF Typed, Occupied
<1> QED BY <1>1 DEF Slot

(* A handle that matches reaches the request that it was returned for.       *)
LEMMA HandlesReachTheirs ==
    ASSUME Typed, RecordsOK, IssuedOK, NEW id \in DOMAIN issued, Matches(issued[id])
    PROVE  RecordOf(issued[id]).id = id
<1>1. issued[id] \in Handle
  BY DEF Typed
<1>2. issued[id].slot \in Occupied
  BY DEF Matches, Occupied
<1>3. issued[RecordOf(issued[id]).id] = [slot |-> issued[id].slot, generation |-> issued[id].generation]
  BY <1>2 DEF RecordsOK, RecordOf, Matches
<1>4. issued[RecordOf(issued[id]).id] = issued[id] /\ RecordOf(issued[id]).id \in DOMAIN issued
  BY <1>1, <1>2, <1>3 DEF Handle, RecordsOK, RecordOf
<1> QED BY <1>4 DEF IssuedOK, IsInjective

(* The invariant implies the property.                                       *)
LEMMA TableMeans == ASSUME TableInv PROVE HandlesStayTheirs
<1>1. \A id \in DOMAIN issued : Matches(issued[id]) => RecordOf(issued[id]).id = id
  BY HandlesReachTheirs DEF TableInv, TableOK
<1>2. IsInjective(active) /\ \A h \in ToSet(active) : Matches(h)
  BY DEF TableInv, TableOK, ActiveOK, ToSet
<1>3. {h.slot : h \in ToSet(active)} = Occupied
  <2>1. \A h \in ToSet(active) : h.slot \in Occupied
    BY <1>2 DEF Matches, Occupied
  <2>2. ASSUME NEW i \in Occupied PROVE \E h \in ToSet(active) : h.slot = i
    BY DEF TableInv, TableOK, ActiveOK, ToSet
  <2> QED BY <2>1, <2>2
<1>4. IsInjective(free) /\ ToSet(free) = DOMAIN slots \ Occupied
  BY DEF TableInv, TableOK, FreeOK, ToSet
<1> QED BY <1>1, <1>2, <1>3, <1>4 DEF TableInv, TableOK, Fits, HandlesStayTheirs

-----------------------------------------------------------------------------
(* Steps and the table. *)

(* Requests stay in their slots, whatever becomes of their states.           *)
SameRequests ==
    /\ UNCHANGED <<free, active, issued>>
    /\ slots' \in Seq(Slot) /\ DOMAIN slots' = DOMAIN slots
    /\ \A i \in DOMAIN slots :
          /\ slots'[i].generation = slots[i].generation
          /\ slots'[i].record = None <=> slots[i].record = None
          /\ slots[i].record # None => slots'[i].record.id = slots[i].record.id

LEMMA SameRequestsKeep ==
    ASSUME Typed, TableOK, SameRequests
    PROVE  Occupied' = Occupied /\ TableOK'
<1>1. Occupied' = Occupied
  BY DEF SameRequests, Occupied
<1>2. RecordsOK'
  BY <1>1 DEF TableOK, RecordsOK, SameRequests, Occupied
<1>3. IssuedOK'
  BY <1>1 DEF TableOK, IssuedOK, SameRequests
<1>4. ActiveOK'
  BY <1>1 DEF TableOK, ActiveOK, SameRequests, Matches
<1>5. FreeOK' /\ Fits'
  <2>1. Len(slots') = Len(slots)
    BY DEF SameRequests, Typed
  <2> QED BY <1>1, <2>1 DEF TableOK, FreeOK, Fits, SameRequests
<1> QED BY <1>1, <1>2, <1>3, <1>4, <1>5 DEF TableOK

(* Counting to a number.                                                     *)
LEMMA Counts == ASSUME NEW n \in Nat PROVE IsFiniteSet(1..n) /\ Cardinality(1..n) = n
<1>1. 1 \in Int /\ n \in Int /\ (1 > n => n = 0)
  OBVIOUS
<1>2. IsFiniteSet(1..n) /\ Cardinality(1..n) = IF 1 > n THEN 0 ELSE n - 1 + 1
  BY <1>1, FS_Interval
<1> QED BY <1>1, <1>2

(* A table without free slots has no more slots than active handles.         *)
LEMMA FullTable ==
    ASSUME Typed, ActiveOK, Occupied = DOMAIN slots
    PROVE  Len(slots) <= Len(active)
<1>1. Len(slots) \in Nat /\ Len(active) \in Nat /\ DOMAIN slots = 1..Len(slots) /\ DOMAIN active = 1..Len(active)
  BY DEF Typed
<1> DEFINE f == [i \in 1..Len(slots) |-> CHOOSE k \in 1..Len(active) : active[k].slot = i]
<1>2. \A i \in 1..Len(slots) : f[i] \in 1..Len(active) /\ active[f[i]].slot = i
  BY <1>1 DEF ActiveOK
<1>3. f \in [1..Len(slots) -> 1..Len(active)]
  BY <1>2
<1>4. /\ IsFiniteSet(1..Len(slots)) /\ IsFiniteSet(1..Len(active))
      /\ Cardinality(1..Len(slots)) = Len(slots) /\ Cardinality(1..Len(active)) = Len(active)
  BY <1>1, Counts
<1>5. ASSUME Len(active) < Len(slots) PROVE FALSE
  <2> HIDE DEF f
  <2>1. \E x, y \in 1..Len(slots) : x # y /\ f[x] = f[y]
    BY <1>3, <1>4, <1>5, FS_PigeonHole
  <2> QED BY <2>1, <1>2
<1> QED BY <1>1, <1>5

(* Emplace puts a record in a slot of its own, under a handle that was never *)
(* returned.                                                                 *)
Placed(h, record) ==
    /\ h \in Handle /\ h.slot \notin Occupied
    /\ slots' \in Seq(Slot) /\ free' \in Seq(Nat) /\ DOMAIN slots' = DOMAIN slots \cup {h.slot}
    /\ slots'[h.slot] = [record |-> record, generation |-> h.generation]
    /\ \A i \in DOMAIN slots : i # h.slot => slots'[i] = slots[i]
    /\ \A id \in DOMAIN issued : issued[id] # h
    /\ Occupied' = Occupied \cup {h.slot}
    /\ FreeOK' /\ Fits'

LEMMA Appends ==
    ASSUME Typed, TableOK, InUse < MaximumRequests, NEW record \in RequestRecord, Emplace(record), free = <<>>
    PROVE  Placed(NewHandle, record)
<1>1. /\ slots' = Append(slots, [record |-> record, generation |-> 1]) /\ free' = <<>>
      /\ NewHandle = [slot |-> Len(slots) + 1, generation |-> 1]
  BY DEF Emplace, NewHandle
<1>2. Len(slots) \in Nat /\ DOMAIN slots = 1..Len(slots) /\ NewHandle.slot = Len(slots) + 1 /\ NewHandle.generation = 1
  BY <1>1 DEF Typed
<1>3. /\ slots' \in Seq(Slot) /\ Len(slots') = Len(slots) + 1 /\ DOMAIN slots' = 1..(Len(slots) + 1)
      /\ slots'[Len(slots) + 1] = [record |-> record, generation |-> 1]
      /\ \A i \in DOMAIN slots : slots'[i] = slots[i]
  <2>1. [record |-> record, generation |-> 1] \in Slot
    BY DEF Slot
  <2> QED BY <1>1, <1>2, <2>1, AppendProperties DEF Typed
<1>4. Occupied = DOMAIN slots
  BY <1>1, <1>2 DEF TableOK, FreeOK, Occupied
<1>5. Occupied' = Occupied \cup {NewHandle.slot}
  <2>1. record # None
    BY NoneIsNoRecord
  <2> QED BY <1>2, <1>3, <2>1 DEF Occupied
<1>6. FreeOK'
  BY <1>1, <1>2, <1>3, <1>4, <1>5 DEF FreeOK, IsInjective
<1>7. Fits'
  BY <1>2, <1>3, <1>4, FullTable, StreamingAssumption DEF Fits, TableOK, InUse, Typed
<1>8. \A id \in DOMAIN issued : issued[id] # NewHandle
  BY <1>2 DEF TableOK, IssuedOK
<1>9. NewHandle \in Handle /\ NewHandle.slot \notin Occupied /\ free' \in Seq(Nat)
  BY <1>1, <1>2, <1>4 DEF Handle
<1> QED BY <1>1, <1>2, <1>3, <1>5, <1>6, <1>7, <1>8, <1>9 DEF Placed

LEMMA TakesFree ==
    ASSUME Typed, TableOK, NEW record \in RequestRecord, Emplace(record), free # <<>>
    PROVE  Placed(NewHandle, record)
<1> DEFINE n == Len(free)  s == free[n]
<1>1. n \in Nat \ {0} /\ DOMAIN free = 1..n /\ s \in DOMAIN slots \ Occupied /\ s \in Nat
  BY DEF TableOK, FreeOK, Typed
<1>2. /\ slots' = [slots EXCEPT ![s].record = record] /\ free' = SubSeq(free, 1, n - 1)
      /\ NewHandle = [slot |-> s, generation |-> slots[s].generation]
  BY DEF Emplace, NewHandle, Last, Front
<1>3. NewHandle.slot = s /\ NewHandle.generation = slots[s].generation
  BY <1>2
<1>4. \A i \in DOMAIN slots : slots[i] \in Slot
  BY DEF Typed
<1>5. /\ slots' \in Seq(Slot) /\ DOMAIN slots' = DOMAIN slots /\ Len(slots') = Len(slots)
      /\ slots'[s] = [record |-> record, generation |-> slots[s].generation]
      /\ \A i \in DOMAIN slots : i # s => slots'[i] = slots[i]
  <2>1. [slots[s] EXCEPT !.record = record] = [record |-> record, generation |-> slots[s].generation]
    BY <1>1, <1>4 DEF Slot
  <2>2. [record |-> record, generation |-> slots[s].generation] \in Slot
    BY <1>1, <1>4 DEF Slot
  <2> QED BY <1>1, <1>2, <2>1, <2>2, ExceptSeq DEF Typed
<1>6. Occupied' = Occupied \cup {s}
  <2>1. record # None
    BY NoneIsNoRecord
  <2> QED BY <1>1, <1>5, <2>1 DEF Occupied
<1>7. free' \in Seq(Nat) /\ DOMAIN free' = 1..(n - 1) /\ \A k \in 1..(n - 1) : free'[k] = free[k]
  <2>1. PICK q \in Seq(Nat) : q = free
    BY DEF Typed
  <2>2. PICK m \in Nat \ {0} : m = n /\ m = Len(q)
    BY <1>1, <2>1
  <2>3. /\ SubSeq(q, 1, m - 1) \in Seq(Nat) /\ Len(SubSeq(q, 1, m - 1)) = m - 1
        /\ \A k \in 1..(m - 1) : SubSeq(q, 1, m - 1)[k] = q[k]
    BY <2>2
  <2>4. free' = SubSeq(q, 1, m - 1)
    BY <1>2, <2>1, <2>2
  <2>5. free' \in Seq(Nat) /\ Len(free') = m - 1
    BY <2>3, <2>4
  <2>6. DOMAIN free' = 1..(m - 1)
    BY <2>2, <2>5
  <2> QED BY <2>1, <2>2, <2>3, <2>4, <2>5, <2>6
<1>8. FreeOK'
  <2>1. IsInjective(free) /\ IsInjective(free')
    <3>1. IsInjective(free)
      BY DEF TableOK, FreeOK
    <3>2. \A k \in DOMAIN free' : k \in DOMAIN free /\ free'[k] = free[k]
      BY <1>1, <1>7
    <3> QED BY <3>1, <3>2 DEF IsInjective
  <2>2. ASSUME NEW k \in DOMAIN free' PROVE free'[k] \in DOMAIN slots' \ Occupied'
    <3>1. k \in DOMAIN free /\ k # n /\ free'[k] = free[k]
      BY <1>1, <1>7, <2>2
    <3>2. free[k] # s /\ free[k] \in DOMAIN slots \ Occupied
      BY <1>1, <2>1, <3>1 DEF TableOK, FreeOK, IsInjective
    <3> QED BY <1>5, <1>6, <3>1, <3>2
  <2>3. ASSUME NEW i \in DOMAIN slots' \ Occupied' PROVE \E k \in DOMAIN free' : free'[k] = i
    <3>1. PICK k \in DOMAIN free : free[k] = i
      BY <1>5, <1>6 DEF TableOK, FreeOK
    <3>2. k # n
      BY <1>6, <3>1
    <3> QED BY <1>1, <1>7, <3>1, <3>2
  <2> QED BY <2>1, <2>2, <2>3 DEF FreeOK
<1>9. Fits'
  BY <1>5 DEF TableOK, Fits
<1>10. \A id \in DOMAIN issued : issued[id] # NewHandle
  <2>1. \A id \in DOMAIN issued : issued[id] \in Handle /\ issued[id].generation \in Nat
    <3>1. \A id \in DOMAIN issued : issued[id] \in Handle
      BY DEF Typed
    <3> QED BY <3>1 DEF Handle
  <2>2. slots[s].generation \in Nat
    BY <1>1, <1>4 DEF Slot
  <2> QED BY <1>1, <1>3, <2>1, <2>2 DEF TableOK, IssuedOK
<1>11. NewHandle \in Handle
  BY <1>1, <1>2, <1>4 DEF Handle, Slot
<1> QED BY <1>1, <1>3, <1>5, <1>6, <1>7, <1>8, <1>9, <1>10, <1>11 DEF Placed

(* Request.                                                                  *)
LEMMA RequestKeepsTable ==
    ASSUME TableInv, NEW class \in Class, NEW size \in Size, NEW pinned \in BOOLEAN,
           Request(class, size, pinned)
    PROVE  TableInv'
<1>13. PICK n : n = Len(issued) + 1
  OBVIOUS
<1>14. PICK h : h = NewHandle
  OBVIOUS
<1> DEFINE record == [id |-> n, class |-> class, size |-> size, pinned |-> pinned,
                      state |-> "Loading", touch |-> sequence + 1]
           op == [state |-> "Queued", cancel |-> FALSE, job |-> "queued"]
<1>1. /\ Emplace(record) /\ InUse < MaximumRequests
      /\ active' = Append(active, h) /\ issued' = Append(issued, h)
      /\ sequence' = sequence + 1 /\ UNCHANGED <<open, pumping, assets>>
      /\ operations' = Append(operations, op) /\ queueSize' = queueSize + 1
  BY <1>13, <1>14 DEF Request, ReadRangeAsync
<1>2. /\ Typed /\ TableOK /\ TouchesOK /\ ReadsOK
      /\ n \in Nat /\ sequence \in Nat /\ DOMAIN issued = 1..(n - 1) /\ DOMAIN operations = 1..(n - 1)
      /\ DOMAIN active = 1..Len(active) /\ Len(active) \in Nat
      /\ Len(issued) = n - 1 /\ Len(operations) = n - 1
  BY <1>13 DEF TableInv, Typed, ReadsOK
<1>3. record \in RequestRecord
  BY <1>2 DEF RequestRecord, ResidencyState
<1>4. Placed(h, record)
  BY <1>1, <1>2, <1>3, <1>14, Appends, TakesFree
<1>5. h \in Handle /\ op \in Operation
  BY <1>4 DEF Placed, Operation
<1>6. /\ active' \in Seq(Handle) /\ issued' \in Seq(Handle) /\ operations' \in Seq(Operation)
      /\ DOMAIN issued' = 1..n /\ DOMAIN operations' = 1..n /\ DOMAIN active' = 1..(Len(active) + 1)
      /\ Len(issued') = n /\ Len(operations') = n
      /\ issued'[n] = h /\ operations'[n] = op /\ active'[Len(active) + 1] = h
      /\ \A k \in 1..(n - 1) : issued'[k] = issued[k] /\ operations'[k] = operations[k]
      /\ \A k \in DOMAIN active : active'[k] = active[k]
  BY <1>1, <1>2, <1>5, AppendProperties DEF Typed
<1>7. Typed'
  BY <1>1, <1>2, <1>4, <1>6 DEF Typed, Placed
<1>8. RecordsOK'
  <2>1. ASSUME NEW i \in Occupied', i # h.slot
        PROVE  slots'[i].record.id \in DOMAIN issued' /\ issued'[slots'[i].record.id] = [slot |-> i, generation |-> slots'[i].generation]
    <3>1. i \in Occupied /\ slots'[i] = slots[i]
      BY <1>4, <2>1 DEF Placed, Occupied
    <3> QED BY <1>2, <1>6, <3>1 DEF TableOK, RecordsOK
  <2>2. slots'[h.slot].record.id = n /\ h = [slot |-> h.slot, generation |-> slots'[h.slot].generation]
    BY <1>3, <1>4 DEF Placed, Handle
  <2>3. n \in DOMAIN issued' /\ issued'[n] = [slot |-> h.slot, generation |-> slots'[h.slot].generation]
    BY <1>2, <1>6, <2>2
  <2> QED BY <2>1, <2>2, <2>3 DEF RecordsOK
<1>9. IssuedOK'
  <2>1. IsInjective(issued')
    <3>1. \A k \in 1..(n - 1) : issued'[k] # issued'[n]
      BY <1>2, <1>4, <1>6 DEF Placed
    <3>2. \A k, l \in 1..(n - 1) : issued'[k] = issued'[l] => k = l
      BY <1>2, <1>6 DEF TableOK, IssuedOK, IsInjective
    <3>3. \A k \in 1..n : k = n \/ k \in 1..(n - 1)
      BY <1>2
    <3> QED BY <1>6, <3>1, <3>2, <3>3 DEF IsInjective
  <2>2. ASSUME NEW k \in 1..(n - 1)
        PROVE  /\ issued'[k].slot \in DOMAIN slots'
               /\ issued'[k].generation <= slots'[issued'[k].slot].generation
               /\ issued'[k].slot \notin Occupied' => issued'[k].generation < slots'[issued'[k].slot].generation
    <3>1. /\ issued'[k] = issued[k] /\ issued[k].slot \in DOMAIN slots
          /\ issued[k].generation <= slots[issued[k].slot].generation
          /\ issued[k].slot \notin Occupied => issued[k].generation < slots[issued[k].slot].generation
      BY <1>2, <1>6 DEF TableOK, IssuedOK
    <3>2. CASE issued[k].slot # h.slot
      BY <1>4, <3>1, <3>2 DEF Placed
    <3>3. CASE issued[k].slot = h.slot
      <4>1. h.slot \in DOMAIN slots
        BY <3>1, <3>3
      <4>2. h.generation = slots[h.slot].generation
        <5>1. free # <<>>
          <6>1. h.slot \in DOMAIN slots \ Occupied
            BY <4>1, <1>4 DEF Placed
          <6> QED BY <6>1, <1>2 DEF TableOK, FreeOK
        <5> QED BY <5>1, <1>14 DEF NewHandle
      <4> QED BY <1>4, <3>1, <3>3, <4>2 DEF Placed
    <3> QED BY <3>2, <3>3
  <2>3. h.slot \in DOMAIN slots' /\ h.generation <= slots'[h.slot].generation /\ h.slot \in Occupied'
    BY <1>4 DEF Placed, Handle
  <2> QED BY <1>6, <2>1, <2>2, <2>3 DEF IssuedOK
<1>10. ActiveOK'
  <2>1. \A k \in DOMAIN active : active[k] # h /\ active[k].slot # h.slot
    BY <1>2, <1>4 DEF TableOK, ActiveOK, Matches, Placed, Occupied
  <2>2. IsInjective(active')
    BY <1>2, <1>6, <2>1 DEF TableOK, ActiveOK, IsInjective
  <2> DEFINE Is(g) == g.slot \in DOMAIN slots' /\ slots'[g.slot].generation = g.generation /\ slots'[g.slot].record # None
  <2>3. ASSUME NEW k \in DOMAIN active PROVE Is(active'[k])
    <3>1. Matches(active[k]) /\ active'[k] = active[k] /\ active[k].slot # h.slot
      BY <1>2, <1>6, <2>1 DEF TableOK, ActiveOK
    <3> QED BY <1>4, <3>1 DEF Matches, Placed
  <2>4. Is(h)
    BY <1>3, <1>4, NoneIsNoRecord DEF Placed
  <2>5. \A i \in Occupied' : \E k \in DOMAIN active' : active'[k].slot = i
    <3>1. ASSUME NEW i \in Occupied PROVE \E k \in DOMAIN active' : active'[k].slot = i
      BY <1>2, <1>6 DEF TableOK, ActiveOK
    <3>2. active'[Len(active) + 1].slot = h.slot /\ Len(active) + 1 \in DOMAIN active'
      BY <1>2, <1>6
    <3> QED BY <1>4, <3>1, <3>2 DEF Placed
  <2>6. ASSUME NEW k \in DOMAIN active' PROVE Is(active'[k])
    <3>1. k \in DOMAIN active \/ k = Len(active) + 1
      BY <1>2, <1>6
    <3> HIDE DEF Is
    <3> QED BY <1>6, <2>3, <2>4, <3>1
  <2> QED BY <2>2, <2>5, <2>6 DEF ActiveOK, Matches
<1>11. TouchesOK'
  <2>1. \A i \in Occupied' : i = h.slot \/ (i \in Occupied /\ slots'[i] = slots[i])
    BY <1>4 DEF Placed, Occupied
  <2>2. slots'[h.slot].record.touch = sequence + 1
    BY <1>4 DEF Placed
  <2>3. \A i \in Occupied : slots[i].record.touch <= sequence /\ slots[i].record.touch \in Nat
    BY <1>2, RecordsTyped DEF TouchesOK, RequestRecord
  <2>4. ASSUME NEW i \in Occupied' PROVE slots'[i].record.touch <= sequence'
    <3>1. CASE i = h.slot
      BY <1>1, <1>2, <2>2, <3>1
    <3>2. CASE i \in Occupied /\ slots'[i] = slots[i]
      <4>1. slots'[i].record.touch \in Nat /\ slots'[i].record.touch <= sequence
        BY <2>3, <3>2
      <4> QED BY <1>1, <1>2, <4>1
    <3> QED BY <2>1, <3>1, <3>2
  <2>5. ASSUME NEW i \in Occupied', NEW k \in Occupied', slots'[i].record.touch = slots'[k].record.touch PROVE i = k
    <3>1. CASE i = h.slot \/ k = h.slot
      BY <1>2, <2>1, <2>2, <2>3, <2>5, <3>1
    <3>2. CASE i # h.slot /\ k # h.slot
      BY <1>2, <2>1, <2>5, <3>2 DEF TouchesOK
    <3> QED BY <3>1, <3>2
  <2> QED BY <2>4, <2>5 DEF TouchesOK
<1>12. ReadsOK'
  <2>1. ASSUME NEW k \in 1..(n - 1) PROVE Aware(k)' \/ \E i \in Occupied' : slots'[i].record.id = k /\ slots'[i].record.state = "Loading"
    <3>1. Aware(k) \/ \E i \in Occupied : slots[i].record.id = k /\ slots[i].record.state = "Loading"
      BY <1>2 DEF ReadsOK, Watched
    <3>2. Aware(k) => Aware(k)'
      BY <1>6 DEF Aware, IsTerminal
    <3>3. \A i \in Occupied : i \in Occupied' /\ slots'[i] = slots[i]
      BY <1>4 DEF Placed, Occupied
    <3> QED BY <3>1, <3>2, <3>3
  <2>2. h.slot \in Occupied' /\ slots'[h.slot].record.id = n /\ slots'[h.slot].record.state = "Loading"
    BY <1>4 DEF Placed
  <2>3. Watched'
    BY <1>2, <1>6, <2>1, <2>2 DEF Watched
  <2>4. NotOver' = NotOver \cup {n} /\ n \notin NotOver
    BY <1>2, <1>6 DEF NotOver
  <2>5. IsFiniteSet(NotOver)
    BY <1>2, Counts, FS_Subset DEF NotOver
  <2>6. Cardinality(NotOver') = queueSize + 1
    BY <1>2, <2>4, <2>5, FS_AddElement DEF ReadsOK
  <2>7. QueuedReads'
    BY <1>2, <1>6 DEF ReadsOK, QueuedReads
  <2> QED BY <1>1, <1>6, <2>3, <2>6, <2>7 DEF ReadsOK
<1> QED BY <1>4, <1>7, <1>8, <1>9, <1>10, <1>11, <1>12 DEF TableInv, TableOK, Placed

(* Nobody gives up a read that is not aware of it.                           *)
LEMMA WatchesKept ==
    ASSUME Watched, DOMAIN operations' = DOMAIN operations,
           \A id \in DOMAIN operations : Aware(id) => Aware(id)',
           \A i \in Occupied, id \in DOMAIN operations :
               slots[i].record.id = id /\ slots[i].record.state = "Loading" =>
                   \/ Aware(id)'
                   \/ i \in Occupied' /\ slots'[i].record.id = id /\ slots'[i].record.state = "Loading"
    PROVE  Watched'
<1> SUFFICES ASSUME NEW id \in DOMAIN operations, ~Aware(id)'
             PROVE  \E i \in Occupied' : slots'[i].record.id = id /\ slots'[i].record.state = "Loading"
  BY DEF Watched
<1>1. PICK i \in Occupied : slots[i].record.id = id /\ slots[i].record.state = "Loading"
  BY DEF Watched
<1> QED BY <1>1

(* Cancelling operations.                                                    *)
LEMMA CancelsReads ==
    ASSUME Typed, NEW ids, operations' = CancelledOperations(ids)
    PROVE  /\ operations' \in Seq(Operation) /\ Len(operations') = Len(operations)
           /\ DOMAIN operations' = DOMAIN operations /\ NotOver' = NotOver
           /\ \A id \in DOMAIN operations : Aware(id) \/ id \in ids => Aware(id)'
           /\ \A id \in DOMAIN operations : id \notin ids => operations'[id] = operations[id]
           /\ QueuedReads => QueuedReads'
<1>1. PICK n \in Nat : DOMAIN operations = 1..n /\ Len(operations) = n
  BY DEF Typed
<1>2. ASSUME NEW id \in 1..n
      PROVE  /\ operations'[id] \in Operation /\ operations'[id].job = operations[id].job
             /\ Aware(id) \/ id \in ids => Aware(id)'
             /\ id \notin ids => operations'[id] = operations[id]
             /\ operations'[id].state = "Queued" \/ operations'[id].cancel \/ operations'[id] = operations[id]
  <2>1. operations[id] \in Operation
    BY <1>1, <1>2 DEF Typed
  <2>2. id \notin ids => operations'[id] = operations[id]
    BY <1>1, <1>2 DEF CancelledOperations
  <2>3. CASE id \in ids
    <3>1. operations'[id] = [operations[id] EXCEPT !.cancel = TRUE,
                                !.state = IF @ = "Queued" THEN "Cancelled" ELSE @]
      BY <1>1, <1>2, <2>3 DEF CancelledOperations
    <3>2. operations'[id].cancel = TRUE /\ operations'[id] \in Operation /\ operations'[id].job = operations[id].job
      BY <2>1, <3>1 DEF Operation
    <3> QED BY <2>3, <3>2 DEF Aware
  <2> QED BY <2>1, <2>2, <2>3 DEF Aware
<1>3. DOMAIN operations' = 1..n /\ operations' = [id \in 1..n |-> operations'[id]]
  BY <1>1 DEF CancelledOperations
<1>4. operations' \in Seq(Operation) /\ Len(operations') = n
  BY <1>2, <1>3, IsASeq
<1>5. NotOver' = NotOver
  BY <1>1, <1>2, <1>3 DEF NotOver
<1>6. QueuedReads => QueuedReads'
  BY <1>1, <1>2, <1>3 DEF QueuedReads
<1> QED BY <1>1, <1>2, <1>3, <1>4, <1>5, <1>6

(* One record changes.                                                       *)
LEMMA RecordChanges ==
    ASSUME Typed, NEW s \in Occupied, NEW r \in RequestRecord, r.id = slots[s].record.id,
           slots' = [slots EXCEPT ![s].record = r], UNCHANGED <<free, active, issued>>
    PROVE  /\ SameRequests
           /\ slots'[s].record = r
           /\ \A i \in DOMAIN slots : i # s => slots'[i] = slots[i]
<1>1. s \in DOMAIN slots /\ slots[s] \in Slot /\ slots[s].record # None
  BY RecordsTyped DEF Occupied
<1>2. [slots[s] EXCEPT !.record = r] = [record |-> r, generation |-> slots[s].generation]
  BY <1>1 DEF Slot
<1>3. [record |-> r, generation |-> slots[s].generation] \in Slot
  BY <1>1 DEF Slot
<1>4. /\ slots' \in Seq(Slot) /\ DOMAIN slots' = DOMAIN slots
      /\ slots'[s] = [record |-> r, generation |-> slots[s].generation]
      /\ \A i \in DOMAIN slots : i # s => slots'[i] = slots[i]
  BY <1>1, <1>2, <1>3, ExceptSeq DEF Typed
<1>5. r # None
  BY NoneIsNoRecord
<1> QED BY <1>1, <1>4, <1>5 DEF SameRequests

(* Cancel.                                                                   *)
LEMMA CancelKeepsTable == ASSUME TableInv, NEW h \in ToSet(issued), Cancel(h) PROVE TableInv'
<1> DEFINE s == h.slot  r == [slots[s].record EXCEPT !.state = "Cancelled"]
<1>1. /\ Matches(h) /\ slots[s].record.state = "Loading" /\ operations' = CancelledOperations({slots[s].record.id})
      /\ slots' = [slots EXCEPT ![s].record.state = "Cancelled"]
      /\ UNCHANGED <<free, active, sequence, open, pumping, issued, queueSize, assets>>
  BY DEF Cancel, StateOf, RecordOf
<1>2. Typed /\ TableOK /\ TouchesOK /\ ReadsOK
  BY DEF TableInv
<1>3. s \in Occupied /\ slots[s] \in Slot /\ slots[s].record \in RequestRecord
  BY <1>1, <1>2, RecordsTyped DEF Matches, Occupied
<1>4. r \in RequestRecord /\ r.id = slots[s].record.id /\ r.touch = slots[s].record.touch
  BY <1>3 DEF RequestRecord, ResidencyState
<1>5. slots' = [slots EXCEPT ![s].record = r]
  BY <1>1, <1>3
<1> HIDE DEF r
<1>6. /\ SameRequests /\ slots'[s].record = r
      /\ \A i \in DOMAIN slots : i # s => slots'[i] = slots[i]
  BY <1>1, <1>2, <1>3, <1>4, <1>5, RecordChanges
<1>7. TableOK' /\ Occupied' = Occupied
  BY <1>2, <1>6, SameRequestsKeep
<1>8. /\ operations' \in Seq(Operation) /\ Len(operations') = Len(operations)
      /\ DOMAIN operations' = DOMAIN operations /\ NotOver' = NotOver
      /\ \A id \in DOMAIN operations : Aware(id) \/ id \in {slots[s].record.id} => Aware(id)'
      /\ QueuedReads'
  BY <1>1, <1>2, CancelsReads DEF ReadsOK
<1>9. Typed'
  BY <1>1, <1>2, <1>6, <1>8 DEF Typed, SameRequests
<1>10. TouchesOK'
  BY <1>1, <1>2, <1>4, <1>6, <1>7 DEF TouchesOK, Occupied
<1>11. Watched'
  <2>1. \A i \in Occupied : i = s \/ slots'[i] = slots[i]
    BY <1>6 DEF Occupied
  <2>2. \A id \in DOMAIN operations : slots[s].record.id = id => Aware(id)'
    BY <1>8
  <2> QED BY <1>2, <1>7, <1>8, <2>1, <2>2, WatchesKept DEF ReadsOK
<1> QED BY <1>1, <1>2, <1>7, <1>8, <1>9, <1>10, <1>11 DEF TableInv, ReadsOK

(* SetPinned and Touch.                                                      *)
LEMMA SettingKeepsTable ==
    ASSUME TableInv, NEW h, Matches(h), NEW r \in RequestRecord, UNCHANGED <<free, active, issued, reads, open, pumping>>,
           r.id = RecordOf(h).id, r.state = RecordOf(h).state, slots' = [slots EXCEPT ![h.slot].record = r],
           \/ r.touch = RecordOf(h).touch /\ sequence' = sequence
           \/ r.touch = sequence + 1 /\ sequence' = sequence + 1
    PROVE  TableInv'
<1>1. PICK s : s = h.slot
  OBVIOUS
<1>2. Typed /\ TableOK /\ TouchesOK /\ ReadsOK /\ sequence \in Nat
  BY DEF TableInv, Typed
<1>3. s \in Occupied /\ slots[s].record = RecordOf(h)
  BY <1>1 DEF Matches, Occupied, RecordOf
<1>4. /\ SameRequests /\ slots'[s].record = r
      /\ \A i \in DOMAIN slots : i # s => slots'[i] = slots[i]
  BY <1>1, <1>2, <1>3, RecordChanges
<1>5. TableOK' /\ Occupied' = Occupied
  BY <1>2, <1>4, SameRequestsKeep
<1>6. Typed'
  BY <1>2, <1>4 DEF Typed, SameRequests, reads
<1>7. TouchesOK'
  <2>1. \A i \in Occupied : i = s \/ slots'[i] = slots[i]
    BY <1>4 DEF Occupied
  <2>2. \A i \in Occupied : slots[i].record.touch \in Nat /\ slots[i].record.touch <= sequence
    BY <1>2, RecordsTyped DEF TouchesOK, RequestRecord
  <2>3. CASE r.touch = slots[s].record.touch /\ sequence' = sequence
    <3>1. \A i \in Occupied : slots'[i].record.touch = slots[i].record.touch
      BY <1>3, <1>4, <2>1, <2>3
    <3> QED BY <1>2, <1>5, <2>3, <3>1 DEF TouchesOK
  <2>4. CASE r.touch = sequence + 1 /\ sequence' = sequence + 1
    <3>1. \A i \in Occupied : i = s \/ (slots'[i].record.touch <= sequence /\ slots'[i].record.touch = slots[i].record.touch)
      BY <2>1, <2>2
    <3>2. \A i \in Occupied : slots'[i].record.touch \in Nat /\ slots'[i].record.touch <= sequence + 1
      BY <1>2, <1>4, <2>1, <2>2, <2>4
    <3>3. ASSUME NEW i \in Occupied, NEW k \in Occupied, slots'[i].record.touch = slots'[k].record.touch PROVE i = k
      <4>1. CASE i # s /\ k # s
        BY <1>2, <3>1, <3>3, <4>1 DEF TouchesOK
      <4>2. CASE i = s \/ k = s
        BY <1>2, <1>4, <2>4, <3>1, <3>2, <3>3, <4>2
      <4> QED BY <4>1, <4>2
    <3> QED BY <1>5, <2>4, <3>2, <3>3 DEF TouchesOK
  <2> QED BY <1>3, <2>3, <2>4
<1>8. Watched'
  <2>1. \A i \in Occupied : slots'[i].record.id = slots[i].record.id /\ slots'[i].record.state = slots[i].record.state
    BY <1>3, <1>4 DEF Occupied
  <2>2. \A id \in DOMAIN operations : Aware(id) => Aware(id)'
    BY DEF Aware, reads
  <2> QED BY <1>2, <1>5, <2>1, <2>2, WatchesKept DEF ReadsOK, reads
<1>9. NotOver' = NotOver
  BY DEF NotOver, reads
<1>10. QueuedReads'
  BY <1>2 DEF ReadsOK, QueuedReads, reads
<1> QED BY <1>2, <1>5, <1>6, <1>7, <1>8, <1>9, <1>10 DEF TableInv, ReadsOK, reads

LEMMA PinKeepsTable ==
    ASSUME TableInv, NEW h \in ToSet(issued), NEW pinned \in BOOLEAN, SetPinned(h, pinned) PROVE TableInv'
<1> DEFINE r == [RecordOf(h) EXCEPT !.pinned = pinned]
<1>1. Matches(h) /\ h.slot \in Occupied /\ RecordOf(h) \in RequestRecord /\ slots[h.slot] \in Slot
  BY RecordsTyped DEF SetPinned, Matches, Occupied, RecordOf, TableInv
<1>2. /\ r \in RequestRecord /\ r.id = RecordOf(h).id /\ r.state = RecordOf(h).state
      /\ r.touch = RecordOf(h).touch
  BY <1>1 DEF RequestRecord
<1>3. slots' = [slots EXCEPT ![h.slot].record = r]
  BY <1>1 DEF SetPinned, RecordOf
<1> HIDE DEF r
<1> QED BY <1>1, <1>2, <1>3, SettingKeepsTable DEF SetPinned

LEMMA TouchKeepsTable == ASSUME TableInv, NEW h \in ToSet(issued), Touch(h) PROVE TableInv'
<1> DEFINE r == [RecordOf(h) EXCEPT !.touch = sequence + 1]
<1>1. /\ Matches(h) /\ h.slot \in Occupied /\ RecordOf(h) \in RequestRecord /\ slots[h.slot] \in Slot
      /\ sequence \in Nat
  BY RecordsTyped DEF Touch, Matches, Occupied, RecordOf, TableInv, Typed
<1>2. /\ r \in RequestRecord /\ r.id = RecordOf(h).id /\ r.state = RecordOf(h).state
      /\ r.touch = sequence + 1
  BY <1>1 DEF RequestRecord
<1>3. slots' = [slots EXCEPT ![h.slot].record = r]
  BY <1>1 DEF Touch, RecordOf
<1> HIDE DEF r
<1> QED BY <1>1, <1>2, <1>3, SettingKeepsTable DEF Touch

(* A sequence without its k-th element.                                      *)
LEMMA RemovesOne ==
    ASSUME NEW S, NEW q \in Seq(S), NEW k \in DOMAIN q
    PROVE  /\ RemoveAt(q, k) \in Seq(S) /\ DOMAIN RemoveAt(q, k) = 1..(Len(q) - 1)
           /\ \A i \in 1..(Len(q) - 1) : RemoveAt(q, k)[i] = IF i < k THEN q[i] ELSE q[i + 1]
<1>1. PICK n \in Nat : n = Len(q) /\ DOMAIN q = 1..n /\ k \in 1..n
  OBVIOUS
<1> DEFINE a == SubSeq(q, 1, k - 1)  b == SubSeq(q, k + 1, n)
<1>2. a \in Seq(S) /\ Len(a) = k - 1 /\ \A i \in 1..(k - 1) : a[i] = q[i]
  BY <1>1
<1>3. b \in Seq(S) /\ Len(b) = n - k /\ \A i \in 1..(n - k) : b[i] = q[k + i]
  BY <1>1
<1>4. RemoveAt(q, k) = a \o b
  BY <1>1 DEF RemoveAt
<1> HIDE DEF a, b
<1>5. /\ a \o b \in Seq(S) /\ Len(a \o b) = n - 1
      /\ \A i \in 1..(n - 1) : (a \o b)[i] = IF i <= k - 1 THEN a[i] ELSE b[i - (k - 1)]
  <2>3. Len(a) = k - 1 /\ Len(b) = n - k /\ k \in Nat
    BY <1>1, <1>2, <1>3
  <2>4. k - 1 + (n - k) = n - 1
    BY <1>1, <2>3
  <2>1. Len(a) + Len(b) = n - 1
    BY <2>3, <2>4
  <2>2. /\ a \o b \in Seq(S) /\ Len(a \o b) = Len(a) + Len(b)
        /\ \A i \in 1..(Len(a) + Len(b)) : (a \o b)[i] = IF i <= Len(a) THEN a[i] ELSE b[i - Len(a)]
    BY <1>2, <1>3, ConcatProperties
  <2> QED BY <1>2, <2>1, <2>2
<1>6. ASSUME NEW i \in 1..(n - 1) PROVE (a \o b)[i] = IF i < k THEN q[i] ELSE q[i + 1]
  <2>1. CASE i < k
    BY <1>1, <1>2, <1>5, <2>1
  <2>2. CASE i >= k
    <3>1. i - (k - 1) \in 1..(n - k) /\ k + (i - (k - 1)) = i + 1
      BY <1>1, <2>2
    <3>2. (a \o b)[i] = b[i - (k - 1)]
      BY <1>1, <1>5, <2>2
    <3> QED BY <1>1, <1>3, <2>2, <3>1, <3>2
  <2>3. i < k \/ i >= k
    BY <1>1
  <2> QED BY <2>1, <2>2, <2>3
<1>7. PICK p : p = a \o b
  OBVIOUS
<1>8. RemoveAt(q, k) = p /\ p \in Seq(S) /\ Len(p) = n - 1
  BY <1>4, <1>5, <1>7
<1>9. \A i \in 1..(n - 1) : p[i] = IF i < k THEN q[i] ELSE q[i + 1]
  BY <1>6, <1>7
<1>10. DOMAIN p = 1..(n - 1)
  BY <1>8
<1>11. Len(q) = n
  BY <1>1
<1> QED BY <1>8, <1>9, <1>10, <1>11

(* Release.                                                                  *)
LEMMA ReleaseKeepsTable == ASSUME TableInv, NEW h \in ToSet(issued), Release(h) PROVE TableInv'
<1>1. PICK s : s = h.slot
  OBVIOUS
<1>2. /\ Matches(h) /\ s \in DOMAIN slots
      /\ \/ slots[s].record.state = "Loading" /\ operations' = CancelledOperations({slots[s].record.id})
         \/ slots[s].record.state # "Loading" /\ operations' = operations
      /\ active' = Without(h) /\ slots' = [slots EXCEPT ![s] = Erased(@)] /\ free' = Append(free, s)
      /\ UNCHANGED <<sequence, open, pumping, issued, queueSize, assets>>
  BY <1>1 DEF Release, StateOf, RecordOf, Unread, Matches
<1>3. Typed /\ TableOK /\ TouchesOK /\ ReadsOK
  BY DEF TableInv
<1>4. /\ s \in Occupied /\ slots[s] \in Slot /\ slots[s].generation = h.generation /\ h \in Handle
      /\ slots[s].generation \in Nat /\ s \in Nat
  <2>1. s \in Occupied /\ slots[s].generation = h.generation
    BY <1>1, <1>2 DEF Matches, Occupied
  <2>2. h \in Handle
    BY <1>3 DEF Typed, ToSet
  <2> QED BY <1>1, <1>3, <2>1, <2>2, RecordsTyped DEF Slot, Handle
<1>5. /\ slots' \in Seq(Slot) /\ DOMAIN slots' = DOMAIN slots /\ Len(slots') = Len(slots)
      /\ slots'[s] = [record |-> None, generation |-> slots[s].generation + 1]
      /\ \A i \in DOMAIN slots : i # s => slots'[i] = slots[i]
  <2>1. Erased(slots[s]) = [record |-> None, generation |-> slots[s].generation + 1] /\ Erased(slots[s]) \in Slot
    BY <1>4 DEF Erased, Slot
  <2> QED BY <1>2, <1>3, <2>1, ExceptSeq DEF Typed
<1>6. Occupied' = Occupied \ {s}
  BY <1>2, <1>5 DEF Occupied
<1>7. RecordsOK'
  BY <1>2, <1>3, <1>5, <1>6 DEF TableOK, RecordsOK, Occupied
<1>8. IssuedOK'
  <2>1. ASSUME NEW id \in DOMAIN issued
        PROVE  /\ issued[id].slot \in DOMAIN slots'
               /\ issued[id].generation <= slots'[issued[id].slot].generation
               /\ issued[id].slot \notin Occupied' => issued[id].generation < slots'[issued[id].slot].generation
    <3>1. /\ issued[id].slot \in DOMAIN slots
          /\ issued[id].generation <= slots[issued[id].slot].generation
          /\ issued[id].slot \notin Occupied => issued[id].generation < slots[issued[id].slot].generation
      BY <1>3 DEF TableOK, IssuedOK
    <3>2. issued[id] \in Handle
      BY <1>3 DEF Typed
    <3>5. issued[id].generation \in Nat
      BY <3>2 DEF Handle
    <3>3. CASE issued[id].slot = s
      BY <1>4, <1>5, <3>1, <3>5, <3>3
    <3>4. CASE issued[id].slot # s
      BY <1>5, <1>6, <3>1, <3>4
    <3> QED BY <3>3, <3>4
  <2> QED BY <1>2, <1>3, <2>1 DEF TableOK, IssuedOK
<1>9. ActiveOK' /\ active' \in Seq(Handle)
  <2>1. PICK n \in Nat : n = Len(active) /\ DOMAIN active = 1..n
    BY <1>3 DEF Typed
  <2>2. \E k \in DOMAIN active : active[k] = h
    <3>1. PICK k \in DOMAIN active : active[k].slot = s
      BY <1>3, <1>4 DEF TableOK, ActiveOK
    <3>2. active[k].generation = h.generation /\ active[k] \in Handle
      BY <1>3, <1>4, <3>1 DEF TableOK, ActiveOK, Matches, Typed
    <3> QED BY <1>1, <1>4, <3>1, <3>2 DEF Handle
  <2>3. PICK k \in 1..n : active[k] = h /\ active' = RemoveAt(active, k)
    BY <1>2, <2>1, <2>2 DEF Without
  <2>4. /\ active' \in Seq(Handle) /\ DOMAIN active' = 1..(n - 1)
        /\ \A i \in 1..(n - 1) : active'[i] = IF i < k THEN active[i] ELSE active[i + 1]
    <3>1. active \in Seq(Handle) /\ k \in DOMAIN active
      BY <1>3, <2>1, <2>3 DEF Typed
    <3> QED BY <2>1, <2>3, <3>1, RemovesOne
  <2> DEFINE p(i) == IF i < k THEN i ELSE i + 1
  <2>5. \A i \in 1..(n - 1) : p(i) \in DOMAIN active /\ p(i) # k /\ active'[i] = active[p(i)]
    BY <2>1, <2>4
  <2>6. \A i, l \in 1..(n - 1) : p(i) = p(l) => i = l
    BY <2>1
  <2>7. \A l \in 1..n : l # k => \E i \in 1..(n - 1) : p(i) = l
    <3>1. ASSUME NEW l \in 1..n, l < k PROVE l \in 1..(n - 1) /\ p(l) = l
      BY <2>1, <3>1
    <3>2. ASSUME NEW l \in 1..n, l > k PROVE l - 1 \in 1..(n - 1) /\ p(l - 1) = l
      BY <2>1, <3>2
    <3>3. \A l \in 1..n : l # k => l < k \/ l > k
      BY <2>1
    <3> HIDE DEF p
    <3> QED BY <3>1, <3>2, <3>3
  <2> HIDE DEF p
  <2>8. IsInjective(active) /\ \A l \in DOMAIN active : l # k => active[l] # h
    BY <1>3, <2>1, <2>3 DEF TableOK, ActiveOK, IsInjective
  <2>9. IsInjective(active')
    BY <2>4, <2>5, <2>6, <2>8 DEF IsInjective
  <2>10. ASSUME NEW i \in DOMAIN active'
         PROVE  /\ active'[i].slot \in DOMAIN slots' /\ slots'[active'[i].slot].generation = active'[i].generation
                /\ slots'[active'[i].slot].record # None
    <3>1. PICK l \in DOMAIN active : l # k /\ active'[i] = active[l]
      BY <2>4, <2>5
    <3>2. /\ active[l].slot \in DOMAIN slots /\ slots[active[l].slot].generation = active[l].generation
          /\ slots[active[l].slot].record # None /\ active[l] # h /\ active[l] \in Handle
      BY <1>3, <2>8, <3>1 DEF TableOK, ActiveOK, Matches, Typed
    <3>3. active[l].slot # s
      BY <1>1, <1>4, <3>2 DEF Handle
    <3> QED BY <1>5, <3>1, <3>2, <3>3
  <2>11. ASSUME NEW i \in Occupied' PROVE \E l \in DOMAIN active' : active'[l].slot = i
    <3>1. PICK l \in DOMAIN active : active[l].slot = i
      BY <1>3, <1>6, <2>11 DEF TableOK, ActiveOK
    <3>2. l # k
      BY <1>1, <1>6, <2>3, <3>1
    <3>3. PICK m \in 1..(n - 1) : p(m) = l
      BY <2>1, <2>7, <3>2
    <3> QED BY <2>4, <2>5, <3>1, <3>3
  <2> QED BY <2>4, <2>9, <2>10, <2>11 DEF ActiveOK, Matches
<1>10. FreeOK' /\ free' \in Seq(Nat)
  <2>1. PICK n \in Nat : n = Len(free) /\ DOMAIN free = 1..n
    BY <1>3 DEF Typed
  <2>2. /\ free' \in Seq(Nat) /\ DOMAIN free' = 1..(n + 1) /\ free'[n + 1] = s
        /\ \A k \in 1..n : free'[k] = free[k]
    BY <1>2, <1>3, <1>4, <2>1, AppendProperties DEF Typed
  <2>3. \A k \in 1..n : free[k] \in DOMAIN slots \ Occupied /\ free[k] # s
    BY <1>3, <1>4, <2>1 DEF TableOK, FreeOK
  <2>4. \A k \in 1..(n + 1) : k = n + 1 \/ k \in 1..n
    BY <2>1
  <2>5. IsInjective(free')
    BY <1>3, <2>1, <2>2, <2>3, <2>4 DEF TableOK, FreeOK, IsInjective
  <2>6. \A k \in DOMAIN free' : free'[k] \in DOMAIN slots' \ Occupied'
    BY <1>2, <1>5, <1>6, <2>2, <2>3, <2>4
  <2>7. ASSUME NEW i \in DOMAIN slots' \ Occupied' PROVE \E k \in DOMAIN free' : free'[k] = i
    <3>1. CASE i = s
      BY <2>1, <2>2, <3>1
    <3>2. CASE i # s
      <4>1. PICK k \in DOMAIN free : free[k] = i
        BY <1>3, <1>5, <1>6, <3>2 DEF TableOK, FreeOK
      <4> QED BY <2>1, <2>2, <4>1
    <3> QED BY <3>1, <3>2
  <2> QED BY <2>2, <2>5, <2>6, <2>7 DEF FreeOK
<1>11. Fits'
  BY <1>3, <1>5 DEF TableOK, Fits
<1>12. TouchesOK'
  BY <1>2, <1>3, <1>5, <1>6 DEF TouchesOK, Occupied
<1>13. /\ operations' \in Seq(Operation) /\ Len(operations') = Len(operations)
       /\ DOMAIN operations' = DOMAIN operations /\ NotOver' = NotOver
       /\ \A id \in DOMAIN operations : Aware(id) => Aware(id)'
       /\ slots[s].record.state = "Loading" =>
              \A id \in DOMAIN operations : id = slots[s].record.id => Aware(id)'
       /\ QueuedReads'
  <2>1. CASE slots[s].record.state = "Loading" /\ operations' = CancelledOperations({slots[s].record.id})
    <3>1. \A id \in DOMAIN operations : Aware(id) \/ id \in {slots[s].record.id} => Aware(id)'
      BY <1>3, <2>1, CancelsReads
    <3> QED BY <1>3, <2>1, <3>1, CancelsReads DEF ReadsOK
  <2>2. CASE slots[s].record.state # "Loading" /\ operations' = operations
    BY <1>3, <2>2 DEF Typed, NotOver, Aware, ReadsOK, QueuedReads
  <2> QED BY <1>2, <2>1, <2>2
<1>14. Watched'
  <2>1. \A i \in Occupied : i = s \/ (i \in Occupied' /\ slots'[i] = slots[i])
    BY <1>5, <1>6 DEF Occupied
  <2> QED BY <1>3, <1>13, <2>1, WatchesKept DEF ReadsOK
<1>15. Typed'
  BY <1>2, <1>3, <1>5, <1>9, <1>10, <1>13 DEF Typed
<1> QED BY <1>2, <1>3, <1>7, <1>8, <1>9, <1>10, <1>11, <1>12, <1>13, <1>14, <1>15 DEF TableInv, TableOK, ReadsOK

(* Close.                                                                    *)
LEMMA CloseKeepsTable == ASSUME TableInv, Close PROVE TableInv'
<1> DEFINE ids == {RecordOf(h).id : h \in UNION {Loading(c) : c \in Class}}
<1>1. /\ operations' = CancelledOperations(ids) /\ active' = <<>>
      /\ slots' = [i \in DOMAIN slots |-> IF slots[i].record # None THEN Erased(slots[i]) ELSE slots[i]]
      /\ free' = free \o [i \in DOMAIN active |-> active[i].slot] /\ open' = FALSE
      /\ UNCHANGED <<sequence, pumping, issued, queueSize, assets>>
  BY DEF Close
<1>2. Typed /\ TableOK /\ TouchesOK /\ ReadsOK
  BY DEF TableInv
<1>3. PICK n \in Nat : Len(slots) = n /\ DOMAIN slots = 1..n
  BY <1>2 DEF Typed
<1>4. ASSUME NEW i \in 1..n
      PROVE  /\ slots[i] \in Slot /\ slots'[i] \in Slot /\ slots'[i].record = None
             /\ slots[i].generation \in Nat
             /\ slots'[i].generation = IF i \in Occupied THEN slots[i].generation + 1 ELSE slots[i].generation
  <2>4. slots[i] \in Slot
    BY <1>2, <1>3 DEF Typed
  <2>1. slots[i] \in Slot /\ slots[i].generation \in Nat
    BY <2>4 DEF Slot
  <2>2. CASE i \in Occupied
    <3>1. slots'[i] = [record |-> None, generation |-> slots[i].generation + 1]
      BY <1>1, <1>3, <2>2 DEF Occupied, Erased
    <3> QED BY <2>1, <2>2, <3>1 DEF Slot
  <2>3. CASE i \notin Occupied
    BY <1>1, <1>3, <2>1, <2>3 DEF Occupied
  <2> QED BY <2>1, <2>2, <2>3
<1>5. /\ slots' = [i \in 1..n |-> slots'[i]] /\ DOMAIN slots' = 1..n
  BY <1>1, <1>3
<1>6. slots' \in Seq(Slot) /\ Len(slots') = n
  BY <1>4, <1>5, IsASeq
<1>7. Occupied' = {}
  BY <1>4, <1>5 DEF Occupied
<1>8. RecordsOK' /\ TouchesOK' /\ Fits'
  BY <1>2, <1>3, <1>6, <1>7 DEF RecordsOK, TouchesOK, TableOK, Fits
<1>9. IssuedOK'
  <2>1. ASSUME NEW id \in DOMAIN issued
        PROVE  /\ issued[id].slot \in DOMAIN slots'
               /\ issued[id].generation < slots'[issued[id].slot].generation
    <3>1. /\ issued[id].slot \in 1..n
          /\ issued[id].generation <= slots[issued[id].slot].generation
          /\ issued[id].slot \notin Occupied => issued[id].generation < slots[issued[id].slot].generation
      BY <1>2, <1>3 DEF TableOK, IssuedOK
    <3>2. issued[id] \in Handle
      BY <1>2 DEF Typed
    <3>3. issued[id].generation \in Nat
      BY <3>2 DEF Handle
    <3> QED BY <1>4, <1>5, <3>1, <3>3
  <2>2. ASSUME NEW id \in DOMAIN issued PROVE issued[id].generation <= slots'[issued[id].slot].generation
    <3>1. issued[id] \in Handle /\ issued[id].slot \in 1..n
      BY <1>5, <2>1, <1>2 DEF Typed
    <3>2. issued[id].generation \in Nat /\ slots'[issued[id].slot].generation \in Nat
      BY <1>4, <3>1 DEF Handle, Slot
    <3> QED BY <2>1, <3>2
  <2> QED BY <1>1, <1>2, <2>1, <2>2 DEF TableOK, IssuedOK
<1>10. ActiveOK' /\ active' \in Seq(Handle)
  BY <1>1, <1>7 DEF ActiveOK, IsInjective
<1>11. FreeOK' /\ free' \in Seq(Nat)
  <2>1. PICK m \in Nat, l \in Nat : m = Len(free) /\ DOMAIN free = 1..m /\ l = Len(active) /\ DOMAIN active = 1..l
    BY <1>2 DEF Typed
  <2>2. PICK q : q = [i \in 1..l |-> active[i].slot]
    OBVIOUS
  <2>15. \A i \in 1..l : active[i] \in Handle
    BY <1>2, <2>1 DEF Typed
  <2>3. \A i \in 1..l : active[i] \in Handle /\ active[i].slot \in Nat
    BY <2>15 DEF Handle
  <2>4. q \in Seq(Nat) /\ Len(q) = l /\ \A i \in 1..l : q[i] = active[i].slot
    BY <2>2, <2>3, IsASeq
  <2>5. free' = free \o q /\ free \in Seq(Nat)
    BY <1>1, <1>2, <2>1, <2>2 DEF Typed
  <2>6. /\ free' \in Seq(Nat) /\ Len(free') = m + l
        /\ \A i \in 1..(m + l) : free'[i] = IF i <= m THEN free[i] ELSE q[i - m]
    <3>1. Len(free) = m /\ Len(q) = l
      BY <2>1, <2>4
    <3>2. /\ free \o q \in Seq(Nat) /\ Len(free \o q) = Len(free) + Len(q)
          /\ \A i \in 1..(Len(free) + Len(q)) : (free \o q)[i] = IF i <= Len(free) THEN free[i] ELSE q[i - Len(free)]
      BY <2>4, <2>5, ConcatProperties
    <3> QED BY <2>5, <3>1, <3>2
  <2>7. DOMAIN free' = 1..(m + l)
    BY <2>6
  <2>8. \A i \in 1..m : free'[i] = free[i] /\ free[i] \in DOMAIN slots \ Occupied /\ i \in 1..(m + l)
    BY <1>2, <2>1, <2>6 DEF TableOK, FreeOK
  <2>9. ASSUME NEW i \in (m + 1)..(m + l)
        PROVE  i - m \in 1..l /\ free'[i] = active[i - m].slot /\ free'[i] \in Occupied
    <3>1. i - m \in 1..l /\ free'[i] = q[i - m]
      BY <2>1, <2>6
    <3>2. \A k \in 1..l : active[k].slot \in Occupied
      BY <1>2, <2>1 DEF TableOK, ActiveOK, Matches, Occupied
    <3> QED BY <2>4, <3>1, <3>2
  <2>10. \A i \in 1..(m + l) : i \in 1..m \/ i \in (m + 1)..(m + l)
    BY <2>1
  <2>11. ASSUME NEW i \in 1..(m + l), NEW k \in 1..(m + l), free'[i] = free'[k] PROVE i = k
    <3>1. CASE i \in 1..m /\ k \in 1..m
      BY <1>2, <2>1, <2>8, <2>11, <3>1 DEF TableOK, FreeOK, IsInjective
    <3>2. CASE i \in (m + 1)..(m + l) /\ k \in (m + 1)..(m + l)
      <4>1. /\ i - m \in DOMAIN active /\ k - m \in DOMAIN active
            /\ active[i - m].slot = active[k - m].slot
        BY <2>1, <2>9, <2>11, <3>2
      <4>2. active[i - m].generation = active[k - m].generation /\ active[i - m] \in Handle /\ active[k - m] \in Handle
        BY <1>2, <2>1, <2>3, <4>1 DEF TableOK, ActiveOK, Matches
      <4>3. active[i - m] = active[k - m]
        BY <4>1, <4>2 DEF Handle
      <4>4. i - m = k - m
        BY <1>2, <4>1, <4>3 DEF TableOK, ActiveOK, IsInjective
      <4> QED BY <2>1, <4>4
    <3>3. CASE i \in 1..m /\ k \in (m + 1)..(m + l)
      BY <2>8, <2>9, <2>11, <3>3
    <3>4. CASE i \in (m + 1)..(m + l) /\ k \in 1..m
      BY <2>8, <2>9, <2>11, <3>4
    <3> QED BY <2>10, <3>1, <3>2, <3>3, <3>4
  <2>12. IsInjective(free')
    BY <2>7, <2>11 DEF IsInjective
  <2>13. \A i \in DOMAIN free' : free'[i] \in DOMAIN slots'
    BY <1>3, <1>5, <2>7, <2>8, <2>9, <2>10 DEF Occupied
  <2>14. ASSUME NEW i \in DOMAIN slots' PROVE \E k \in DOMAIN free' : free'[k] = i
    <3>1. CASE i \in Occupied
      <4>1. PICK k \in 1..l : active[k].slot = i
        BY <1>2, <2>1, <3>1 DEF TableOK, ActiveOK
      <4>2. m + k \in 1..(m + l) /\ ~(m + k <= m) /\ m + k - m = k
        BY <2>1
      <4>3. free'[m + k] = q[m + k - m]
        BY <2>6, <4>2
      <4>4. free'[m + k] = i
        BY <2>4, <4>1, <4>2, <4>3
      <4> QED BY <2>7, <4>2, <4>4
    <3>2. CASE i \notin Occupied
      <4>1. PICK k \in 1..m : free[k] = i
        BY <1>2, <1>3, <1>5, <2>1, <3>2 DEF TableOK, FreeOK
      <4> QED BY <2>7, <2>8, <4>1
    <3> QED BY <3>1, <3>2
  <2> QED BY <1>7, <2>6, <2>12, <2>13, <2>14 DEF FreeOK
<1>12. /\ operations' \in Seq(Operation) /\ Len(operations') = Len(operations)
       /\ DOMAIN operations' = DOMAIN operations /\ NotOver' = NotOver
       /\ \A id \in DOMAIN operations : Aware(id) \/ id \in ids => Aware(id)'
       /\ QueuedReads'
  BY <1>1, <1>2, CancelsReads DEF ReadsOK
<1>13. Watched'
  <2>1. ASSUME NEW i \in Occupied, slots[i].record.state = "Loading" PROVE slots[i].record.id \in ids
    <3>1. PICK k \in DOMAIN active : active[k].slot = i /\ Matches(active[k])
      BY <1>2 DEF TableOK, ActiveOK
    <3>2. StateOf(active[k]) = "Loading" /\ RecordOf(active[k]) = slots[i].record
      BY <2>1, <3>1 DEF StateOf, RecordOf
    <3>3. slots[i].record.class \in Class
      BY <1>2, RecordsTyped DEF RequestRecord
    <3>4. active[k] \in Loading(slots[i].record.class)
      BY <3>2 DEF Loading, ToSet
    <3> QED BY <3>2, <3>3, <3>4
  <2> HIDE DEF ids
  <2> QED BY <1>2, <1>12, <2>1, WatchesKept DEF ReadsOK
<1>14. Typed'
  BY <1>1, <1>2, <1>6, <1>10, <1>11, <1>12 DEF Typed
<1> QED BY <1>1, <1>2, <1>8, <1>9, <1>10, <1>11, <1>12, <1>13, <1>14 DEF TableInv, TableOK, ReadsOK

(* The owner's steps change states: those of requests that are over, or that *)
(* do not load any more.                                                     *)
NewStates ==
    /\ slots' = [i \in DOMAIN slots |-> slots'[i]]
    /\ \A i \in DOMAIN slots : i \notin Occupied => slots'[i] = slots[i]
    /\ \A i \in Occupied :
          \E state \in ResidencyState :
             /\ slots'[i] = [slots[i] EXCEPT !.record = [@ EXCEPT !.state = state]]
             /\ \/ state = slots[i].record.state
                \/ slots[i].record.state # "Loading"
                \/ IsTerminal(Result(slots[i].record.id))

LEMMA NewStatesKeepTable ==
    ASSUME TableInv, NewStates, UNCHANGED <<free, active, issued, sequence, reads>>,
           open' \in BOOLEAN, pumping' \in BOOLEAN
    PROVE  TableInv'
<1>1. Typed /\ TableOK /\ TouchesOK /\ ReadsOK
  BY DEF TableInv
<1>13. PICK n \in Nat : Len(slots) = n /\ DOMAIN slots = 1..n
  BY <1>1 DEF Typed
<1>14. PICK f : f = slots'
  OBVIOUS
<1>15. f = [i \in 1..n |-> f[i]]
  BY <1>13, <1>14 DEF NewStates
<1>16. DOMAIN f = 1..n
  BY <1>15
<1>2. Len(slots) = n /\ DOMAIN slots = 1..n /\ DOMAIN slots' = 1..n /\ slots' = [i \in 1..n |-> slots'[i]]
  BY <1>13, <1>14, <1>15, <1>16
<1>3. ASSUME NEW i \in Occupied
      PROVE  /\ slots'[i] \in Slot /\ slots'[i].generation = slots[i].generation /\ slots'[i].record # None
             /\ slots'[i].record.id = slots[i].record.id /\ slots'[i].record.touch = slots[i].record.touch
             /\ \/ slots'[i].record.state = slots[i].record.state
                \/ slots[i].record.state # "Loading"
                \/ IsTerminal(Result(slots[i].record.id))
  <2>1. slots[i] \in Slot /\ slots[i].record \in RequestRecord
    BY <1>1, RecordsTyped
  <2>2. PICK state \in ResidencyState :
             /\ slots'[i] = [slots[i] EXCEPT !.record = [@ EXCEPT !.state = state]]
             /\ \/ state = slots[i].record.state
                \/ slots[i].record.state # "Loading"
                \/ IsTerminal(Result(slots[i].record.id))
    BY DEF NewStates
  <2>3. PICK r : r = [slots[i].record EXCEPT !.state = state]
    OBVIOUS
  <2>4. r \in RequestRecord /\ r.id = slots[i].record.id /\ r.touch = slots[i].record.touch /\ r.state = state
    BY <2>1, <2>3 DEF RequestRecord
  <2>5. slots'[i] = [record |-> r, generation |-> slots[i].generation] /\ slots[i].generation \in Nat
    BY <2>1, <2>2, <2>3 DEF Slot
  <2> QED BY <2>2, <2>4, <2>5, NoneIsNoRecord DEF Slot
<1>4. ASSUME NEW i \in 1..n, i \notin Occupied
      PROVE slots'[i] = slots[i] /\ slots[i] \in Slot /\ slots[i].record = None
  BY <1>1, <1>2, <1>4 DEF NewStates, Typed, Occupied
<1>5. \A i \in 1..n : slots'[i] \in Slot
  BY <1>3, <1>4
<1>6. slots' \in Seq(Slot)
  BY <1>2, <1>5, IsASeq
<1>7. SameRequests
  BY <1>2, <1>3, <1>4, <1>6 DEF SameRequests, Occupied
<1>8. TableOK' /\ Occupied' = Occupied
  BY <1>1, <1>7, SameRequestsKeep
<1>9. TouchesOK'
  BY <1>1, <1>3, <1>8 DEF TouchesOK
<1>10. Typed'
  BY <1>1, <1>6 DEF Typed, reads
<1>11. Watched'
  <2>1. \A id \in DOMAIN operations : (Aware(id) => Aware(id)') /\ (IsTerminal(Result(id)) => Aware(id)')
    BY DEF Aware, reads, Result
  <2> QED BY <1>1, <1>3, <1>8, <2>1, WatchesKept DEF ReadsOK, reads
<1>12. NotOver' = NotOver
  BY DEF NotOver, reads
<1>17. QueuedReads'
  BY <1>1 DEF ReadsOK, QueuedReads, reads
<1> QED BY <1>1, <1>8, <1>9, <1>10, <1>11, <1>12, <1>17 DEF TableInv, ReadsOK, reads

(* Pump.                                                                     *)
LEMMA PumpGivesStates == ASSUME TableInv, Pump PROVE NewStates
<1>1. slots' = [i \in DOMAIN slots |->
                   IF Ready(slots[i]) THEN [slots[i] EXCEPT !.record = Arrived(@)] ELSE slots[i]]
  BY DEF Pump
<1>2. slots' = [i \in DOMAIN slots |-> slots'[i]]
  <2>1. PICK f : f = slots'
    OBVIOUS
  <2>2. f = [i \in DOMAIN slots |-> f[i]]
    BY <1>1, <2>1
  <2> QED BY <2>1, <2>2
<1>3. ASSUME NEW i \in Occupied
      PROVE  \E state \in ResidencyState :
                /\ slots'[i] = [slots[i] EXCEPT !.record = [@ EXCEPT !.state = state]]
                /\ \/ state = slots[i].record.state
                   \/ slots[i].record.state # "Loading"
                   \/ IsTerminal(Result(slots[i].record.id))
  <2>1. i \in DOMAIN slots /\ slots[i] \in Slot /\ slots[i].record \in RequestRecord
    BY RecordsTyped DEF TableInv
  <2>2. CASE Ready(slots[i])
    <3>1. PICK state : state = IF Result(slots[i].record.id) = "Succeeded" THEN "Resident"
                                ELSE Result(slots[i].record.id)
      OBVIOUS
    <3>2. slots'[i] = [slots[i] EXCEPT !.record = [@ EXCEPT !.state = state]]
      BY <1>1, <2>1, <2>2, <3>1 DEF Arrived
    <3>3. IsTerminal(Result(slots[i].record.id)) /\ state \in ResidencyState
      BY <2>2, <3>1 DEF Ready, IsTerminal, ResidencyState
    <3> QED BY <3>2, <3>3
  <2>3. CASE ~Ready(slots[i])
    <3>1. [slots[i] EXCEPT !.record = [@ EXCEPT !.state = slots[i].record.state]] = slots[i]
      BY <2>1 DEF Slot, RequestRecord
    <3>2. slots'[i] = slots[i] /\ slots[i].record.state \in ResidencyState
      BY <1>1, <2>1, <2>3 DEF RequestRecord
    <3> QED BY <3>1, <3>2
  <2> QED BY <2>2, <2>3
<1>4. ASSUME NEW i \in DOMAIN slots, i \notin Occupied PROVE slots'[i] = slots[i]
  BY <1>1, <1>4 DEF Occupied, Ready, Awaited
<1> QED BY <1>2, <1>3, <1>4 DEF NewStates

(* EvictToBudgets.                                                           *)
LEMMA EvictionGivesStates == ASSUME TableInv, EvictToBudgets PROVE NewStates
<1>1. CASE open /\ slots' = [i \in DOMAIN slots |->
                                IF \E c \in Class : i \in Victims(c)
                                THEN [slots[i] EXCEPT !.record.state = "Evicted"] ELSE slots[i]]
  <2>1. slots' = [i \in DOMAIN slots |-> slots'[i]]
    <3>1. PICK f : f = slots'
      OBVIOUS
    <3>2. f = [i \in DOMAIN slots |-> f[i]]
      BY <1>1, <3>1
    <3> QED BY <3>1, <3>2
  <2>2. \A i, c : i \in Victims(c) => i \in Occupied /\ slots[i].record.state = "Resident"
    BY DEF Victims, Candidates, Evictable, Occupied
  <2>3. ASSUME NEW i \in Occupied
        PROVE  \E state \in ResidencyState :
                  /\ slots'[i] = [slots[i] EXCEPT !.record = [@ EXCEPT !.state = state]]
                  /\ state = slots[i].record.state \/ slots[i].record.state # "Loading"
    <3>1. i \in DOMAIN slots /\ slots[i] \in Slot /\ slots[i].record \in RequestRecord
      BY RecordsTyped DEF TableInv
    <3>2. CASE \E c \in Class : i \in Victims(c)
      <4>1. slots'[i] = [slots[i] EXCEPT !.record = [@ EXCEPT !.state = "Evicted"]]
        BY <1>1, <3>1, <3>2
      <4> QED BY <2>2, <3>2, <4>1 DEF ResidencyState
    <3>3. CASE ~\E c \in Class : i \in Victims(c)
      <4>1. [slots[i] EXCEPT !.record = [@ EXCEPT !.state = slots[i].record.state]] = slots[i]
        BY <3>1 DEF Slot, RequestRecord
      <4>2. slots'[i] = slots[i] /\ slots[i].record.state \in ResidencyState
        BY <1>1, <3>1, <3>3 DEF RequestRecord
      <4> QED BY <4>1, <4>2
    <3> QED BY <3>2, <3>3
  <2>4. ASSUME NEW i \in DOMAIN slots, i \notin Occupied PROVE slots'[i] = slots[i]
    BY <1>1, <2>2, <2>4
  <2> QED BY <2>1, <2>3, <2>4 DEF NewStates
<1>2. CASE slots' = slots
  <2>1. slots' = [i \in DOMAIN slots |-> slots'[i]]
    BY <1>2 DEF TableInv, Typed
  <2>2. ASSUME NEW i \in Occupied
        PROVE  \E state \in ResidencyState :
                  /\ slots'[i] = [slots[i] EXCEPT !.record = [@ EXCEPT !.state = state]]
                  /\ state = slots[i].record.state
    <3>1. slots[i] \in Slot /\ slots[i].record \in RequestRecord
      BY RecordsTyped DEF TableInv
    <3>2. /\ [slots[i] EXCEPT !.record = [@ EXCEPT !.state = slots[i].record.state]] = slots[i]
          /\ slots[i].record.state \in ResidencyState
      BY <3>1 DEF Slot, RequestRecord
    <3> QED BY <1>2, <3>2
  <2> QED BY <1>2, <2>1, <2>2 DEF NewStates
<1> QED BY <1>1, <1>2 DEF EvictToBudgets

(* The steps of the asset system leave the table alone.                      *)
LEMMA ReadsKeepTable ==
    ASSUME TableInv, UNCHANGED <<table, sequence, open, pumping, issued>>, assets' \in {"open", "closing", "closed"},
           operations' \in Seq(Operation), Len(operations') = Len(operations), DOMAIN operations' = DOMAIN operations,
           \A id \in DOMAIN operations : Aware(id) => Aware(id)',
           QueuedReads', queueSize' \in Nat, queueSize' = Cardinality(NotOver')
    PROVE  TableInv'
<1>1. TableOK' /\ TouchesOK'
  BY DEF TableInv, table, TableOK, RecordsOK, IssuedOK, ActiveOK, FreeOK, Fits, TouchesOK, Occupied, Matches
<1>2. Typed'
  BY DEF TableInv, Typed, table
<1>3. Watched'
  BY DEF TableInv, ReadsOK, table, Watched, Occupied
<1> QED BY <1>1, <1>2, <1>3 DEF TableInv, ReadsOK

LEMMA OneOperation ==
    ASSUME Typed, NEW id \in DOMAIN operations, NEW op \in Operation, operations' = [operations EXCEPT ![id] = op]
    PROVE  /\ operations' \in Seq(Operation) /\ Len(operations') = Len(operations)
           /\ DOMAIN operations' = DOMAIN operations
           /\ operations'[id] = op /\ \A k \in DOMAIN operations : k # id => operations'[k] = operations[k]
  BY ExceptSeq DEF Typed

LEMMA OneReadKeepsTable ==
    ASSUME TableInv, UNCHANGED <<table, sequence, open, pumping, issued, assets>>,
           NEW id \in DOMAIN operations, NEW op \in Operation, operations' = [operations EXCEPT ![id] = op],
           operations[id].job # "over",
           Aware(id) => op.cancel \/ IsTerminal(op.state),
           op.job # "queued",
           IF op.job = "over" THEN queueSize' = Freed(id) ELSE queueSize' = queueSize
    PROVE  TableInv'
<1>1. Typed /\ ReadsOK
  BY DEF TableInv
<1>2. /\ operations' \in Seq(Operation) /\ Len(operations') = Len(operations) /\ DOMAIN operations' = DOMAIN operations
      /\ operations'[id] = op /\ \A k \in DOMAIN operations : k # id => operations'[k] = operations[k]
  BY <1>1, OneOperation
<1>3. \A k \in DOMAIN operations : Aware(k) => Aware(k)'
  BY <1>2 DEF Aware
<1>4. QueuedReads'
  BY <1>1, <1>2 DEF QueuedReads, ReadsOK
<1>5. IsFiniteSet(NotOver) /\ queueSize \in Nat /\ id \in NotOver /\ queueSize = Cardinality(NotOver)
  <2>1. DOMAIN operations = 1..Len(operations) /\ Len(operations) \in Nat
    BY <1>1 DEF Typed
  <2> QED BY <1>1, <2>1, Counts, FS_Subset DEF NotOver, Typed, ReadsOK
<1>6. CASE op.job = "over"
  <2>1. NotOver' = NotOver \ {id}
    BY <1>2, <1>6 DEF NotOver
  <2>2. Cardinality(NotOver') = queueSize - 1 /\ Cardinality(NotOver') \in Nat
    BY <1>5, <2>1, FS_RemoveElement, FS_CardinalityType
  <2>3. queueSize' = queueSize - 1 /\ queueSize' \in Nat
    BY <1>5, <1>6, <2>2 DEF Freed, Less
  <2> QED BY <1>1, <1>2, <1>3, <1>4, <2>2, <2>3, ReadsKeepTable DEF TableInv, Typed
<1>7. CASE op.job # "over"
  <2>1. NotOver' = NotOver
    BY <1>2, <1>7 DEF NotOver
  <2> QED BY <1>1, <1>2, <1>3, <1>4, <1>5, <1>7, <2>1, ReadsKeepTable DEF TableInv, Typed
<1> QED BY <1>6, <1>7

LEMMA WorkersKeepTable == ASSUME TableInv, AssetWorkers PROVE TableInv'
<1>1. PICK id \in DOMAIN operations : Worker(id)
  BY DEF AssetWorkers
<1>2. operations[id] \in Operation /\ ReadsOK
  BY DEF TableInv, Typed
<1>3. CASE StartRead(id)
  <2>1. PICK op : op = IF operations[id].cancel THEN [operations[id] EXCEPT !.state = "Cancelled", !.job = "leaving"]
                       ELSE [operations[id] EXCEPT !.state = "Reading", !.job = "reading"]
    OBVIOUS
  <2>2. op \in Operation /\ operations' = [operations EXCEPT ![id] = op] /\ op.job \notin {"over", "queued"}
        /\ op.cancel = operations[id].cancel
    BY <1>2, <1>3, <2>1 DEF StartRead, Operation
  <2>3. operations[id].job = "queued" /\ UNCHANGED <<table, sequence, open, pumping, issued, queueSize, assets>>
    BY <1>3 DEF StartRead
  <2>4. Aware(id) => op.cancel
    BY <1>2, <2>2, <2>3 DEF ReadsOK, QueuedReads, Aware, IsTerminal
  <2> QED BY <2>2, <2>3, <2>4, OneReadKeepsTable
<1>4. CASE FinishRead(id)
  <2>1. PICK result \in {IF operations[id].cancel THEN "Cancelled" ELSE "Succeeded", "Failed"} :
             operations' = [operations EXCEPT ![id].state = result, ![id].job = "leaving"]
    BY <1>4 DEF FinishRead
  <2>2. PICK op : op = [operations[id] EXCEPT !.state = result, !.job = "leaving"]
    OBVIOUS
  <2>3. op \in Operation /\ op.job = "leaving" /\ IsTerminal(op.state)
    BY <1>2, <2>1, <2>2 DEF Operation, IsTerminal
  <2>4. operations' = [operations EXCEPT ![id] = op]
    BY <1>2, <2>1, <2>2
  <2>5. operations[id].job = "reading" /\ UNCHANGED <<table, sequence, open, pumping, issued, queueSize, assets>>
    BY <1>4 DEF FinishRead
  <2> QED BY <2>3, <2>4, <2>5, OneReadKeepsTable
<1>5. CASE LeaveQueue(id)
  <2>1. PICK op : op = [operations[id] EXCEPT !.job = "over"]
    OBVIOUS
  <2>2. op \in Operation /\ op.job = "over" /\ (Aware(id) => op.cancel \/ IsTerminal(op.state))
    BY <1>2, <2>1 DEF Operation, Aware
  <2>3. operations' = [operations EXCEPT ![id] = op]
    BY <1>2, <1>5, <2>1 DEF LeaveQueue
  <2>4. operations[id].job = "leaving" /\ queueSize' = Freed(id) /\ UNCHANGED <<table, sequence, open, pumping, issued, assets>>
    BY <1>5 DEF LeaveQueue
  <2> QED BY <2>2, <2>3, <2>4, OneReadKeepsTable
<1> QED BY <1>1, <1>3, <1>4, <1>5 DEF Worker

(* Closing the asset system.                                                 *)
LEMMA ClosingKeepsTable == ASSUME TableInv, CloseAssets \/ OwnerCloses PROVE TableInv'
<1>1. Typed /\ ReadsOK
  BY DEF TableInv
<1>2. CASE CloseAssets \/ AssetsClosed
  <2>1. UNCHANGED <<table, sequence, open, pumping, issued, operations, queueSize>> /\ assets' \in {"closing", "closed"}
    BY <1>2 DEF CloseAssets, AssetsClosed
  <2>2. NotOver' = NotOver /\ QueuedReads' /\ \A id \in DOMAIN operations : Aware(id) => Aware(id)'
    BY <1>1, <2>1 DEF NotOver, QueuedReads, ReadsOK, Aware
  <2> QED BY <1>1, <2>1, <2>2, ReadsKeepTable DEF Typed, ReadsOK
<1>3. ASSUME NEW id \in DOMAIN operations, AbortRead(id) PROVE TableInv'
  <2>1. UNCHANGED <<table, sequence, open, pumping, issued, queueSize, assets>> /\ operations' = CancelledOperations({id})
    BY <1>3 DEF AbortRead
  <2>2. /\ operations' \in Seq(Operation) /\ Len(operations') = Len(operations)
        /\ DOMAIN operations' = DOMAIN operations /\ NotOver' = NotOver
        /\ \A k \in DOMAIN operations : Aware(k) => Aware(k)'
        /\ QueuedReads'
    BY <1>1, <2>1, CancelsReads DEF ReadsOK
  <2> QED BY <1>1, <2>1, <2>2, ReadsKeepTable DEF Typed, ReadsOK
<1>4. ASSUME NEW id \in DOMAIN operations, DropJob(id) PROVE TableInv'
  <2>1. PICK op : op = [operations[id] EXCEPT !.job = "dropped"]
    OBVIOUS
  <2>2. operations[id] \in Operation
    BY <1>1 DEF Typed
  <2>3. op \in Operation /\ op.job = "dropped" /\ (Aware(id) => op.cancel \/ IsTerminal(op.state))
    BY <2>1, <2>2 DEF Operation, Aware
  <2>4. operations' = [operations EXCEPT ![id] = op]
    BY <1>4, <2>1, <2>2 DEF DropJob
  <2>5. operations[id].job = "queued" /\ UNCHANGED <<table, sequence, open, pumping, issued, queueSize, assets>>
    BY <1>4 DEF DropJob
  <2> QED BY <2>3, <2>4, <2>5, OneReadKeepsTable
<1> QED BY <1>2, <1>3, <1>4 DEF OwnerCloses

-----------------------------------------------------------------------------
(* The invariant holds. *)

LEMMA TableStep == ASSUME TableInv, [Next]_vars PROVE TableInv'
<1>1. ASSUME NEW class \in Class, NEW size \in Size, NEW pinned \in BOOLEAN, Request(class, size, pinned)
      PROVE  TableInv'
  BY <1>1, RequestKeepsTable
<1>2. ASSUME NEW h \in ToSet(issued), Cancel(h) \/ Release(h) \/ Touch(h) PROVE TableInv'
  BY <1>2, CancelKeepsTable, ReleaseKeepsTable, TouchKeepsTable
<1>3. ASSUME NEW h \in ToSet(issued), NEW pinned \in BOOLEAN, SetPinned(h, pinned) PROVE TableInv'
  BY <1>3, PinKeepsTable
<1>4. CASE Pump
  <2>1. UNCHANGED <<free, active, issued, sequence, reads>> /\ open' \in BOOLEAN /\ pumping' \in BOOLEAN
    BY <1>4 DEF Pump, TableInv, Typed
  <2> QED BY <1>4, <2>1, PumpGivesStates, NewStatesKeepTable
<1>5. CASE EvictToBudgets
  <2>1. UNCHANGED <<free, active, issued, sequence, reads>> /\ open' \in BOOLEAN /\ pumping' \in BOOLEAN
    BY <1>5 DEF EvictToBudgets, TableInv, Typed
  <2> QED BY <1>5, <2>1, EvictionGivesStates, NewStatesKeepTable
<1>6. CASE UNCHANGED vars
  <2>1. UNCHANGED <<table, sequence, open, pumping, issued, operations, queueSize, assets>>
    BY <1>6 DEF vars, reads
  <2>2. NotOver' = NotOver /\ QueuedReads' /\ \A id \in DOMAIN operations : Aware(id) => Aware(id)'
    BY <2>1 DEF NotOver, QueuedReads, ReadsOK, Aware, TableInv
  <2> QED BY <2>1, <2>2, ReadsKeepTable DEF Typed, ReadsOK, TableInv
<1> QED BY <1>1, <1>2, <1>3, <1>4, <1>5, <1>6, CloseKeepsTable, WorkersKeepTable, ClosingKeepsTable DEF Next

(* It holds at the start.                                                    *)
LEMMA TableInit == ASSUME Init PROVE TableInv
<1>1. Typed /\ Occupied = {} /\ NotOver = {}
  <2>1. slots = <<>> /\ operations = <<>> /\ DOMAIN slots = {} /\ DOMAIN operations = {}
    BY DEF Init
  <2>2. Typed
    <3>1. \A S : <<>> \in Seq(S)
      OBVIOUS
    <3> QED BY <3>1 DEF Init, Typed
  <2> QED BY <2>1, <2>2 DEF Occupied, NotOver
<1>2. TableOK /\ TouchesOK
  BY <1>1, StreamingAssumption DEF Init, TableOK, RecordsOK, IssuedOK, ActiveOK, FreeOK, Fits, TouchesOK, IsInjective
<1>3. ReadsOK
  BY <1>1, FS_EmptySet DEF Init, ReadsOK, Watched, QueuedReads
<1> QED BY <1>1, <1>2, <1>3 DEF TableInv

(* The table of handles, the active handles and the free slots agree, every  *)
(* handle is returned once, and of every read there is a request that waits  *)
(* for it or the read is aware that there is none.                           *)
THEOREM TableInvariant == Spec => []TableInv
  BY TableInit, TableStep, PTL DEF Spec

(* However often slots are released, closed and used again, by whatever      *)
(* thread and with however old a handle, a handle reaches only the request   *)
(* that it was returned for, and Request, Release and Close need no more     *)
(* room than was reserved.                                                   *)
THEOREM HandlesStay == Spec => []HandlesStayTheirs
  BY TableInvariant, TableMeans, PTL

(* A read for a request that was cancelled, released or closed is over or    *)
(* knows, and each read holds one place of the queue until it leaves it.     *)
THEOREM ReadsStayAwaited == Spec => []ReadsAreAwaited
<1>1. ASSUME TableInv PROVE ReadsAreAwaited
  <2>1. ASSUME NEW id \in DOMAIN operations, ~Aware(id)
        PROVE  \E r \in Records : r.id = id /\ r.state = "Loading"
    BY <1>1, <2>1 DEF TableInv, ReadsOK, Watched, Records
  <2> QED BY <1>1, <2>1 DEF ReadsAreAwaited, TableInv, ReadsOK, Aware, NotOver
<1> QED BY <1>1, TableInvariant, PTL

-----------------------------------------------------------------------------
(* The statistics of a class, and the requests that load and are resident.   *)

Stat == [requested : Nat, inFlight : Nat, cpu : Nat, gpu : Nat, requests : Nat, completed : Nat,
         cancelled : Nat, failures : Nat, evictions : Nat]

Agrees(s, cpu, gpu, L, R) ==
    /\ s \in Stat
    /\ s.inFlight = SumFunctionOnSet(cpu, L)
    /\ s.cpu = SumFunctionOnSet(cpu, R) /\ s.gpu = SumFunctionOnSet(gpu, R)
    /\ s.requested = s.inFlight + s.cpu
    /\ s.requests = s.completed + s.failures + s.cancelled + Cardinality(L)

(* The sizes of some slots.                                                  *)
Sized(cpu, gpu, S) == IsFiniteSet(S) /\ \A x \in S : cpu[x] \in Nat /\ gpu[x] \in Nat

LEMMA Measured ==
    ASSUME NEW S, NEW cpu, NEW gpu, Sized(cpu, gpu, S), NEW T \in SUBSET S
    PROVE  /\ IsFiniteSet(T) /\ Cardinality(T) \in Nat
           /\ SumFunctionOnSet(cpu, T) \in Nat /\ SumFunctionOnSet(gpu, T) \in Nat
<1>1. IsFiniteSet(T) /\ \A x \in T : cpu[x] \in Nat /\ gpu[x] \in Nat
  BY FS_Subset DEF Sized
<1> QED BY <1>1, FS_CardinalityType, SumStep

LEMMA OneLess ==
    ASSUME NEW S, NEW cpu, NEW gpu, Sized(cpu, gpu, S), NEW T \in SUBSET S, NEW a \in T
    PROVE  /\ cpu[a] \in Nat /\ gpu[a] \in Nat
           /\ SumFunctionOnSet(cpu, T) = cpu[a] + SumFunctionOnSet(cpu, T \ {a})
           /\ SumFunctionOnSet(gpu, T) = gpu[a] + SumFunctionOnSet(gpu, T \ {a})
           /\ Cardinality(T) = Cardinality(T \ {a}) + 1
           /\ SumFunctionOnSet(cpu, T \ {a}) \in Nat /\ SumFunctionOnSet(gpu, T \ {a}) \in Nat
           /\ Cardinality(T \ {a}) \in Nat
<1>1. IsFiniteSet(T) /\ \A x \in T : cpu[x] \in Nat /\ gpu[x] \in Nat
  BY FS_Subset DEF Sized
<1>2. T \ {a} \in SUBSET S
  OBVIOUS
<1>3. Cardinality(T \ {a}) = Cardinality(T) - 1 /\ Cardinality(T) \in Nat
  BY <1>1, FS_RemoveElement, FS_CardinalityType
<1> QED BY <1>1, <1>2, <1>3, SumTakesOut, Measured

LEMMA OneMore ==
    ASSUME NEW S, NEW cpu, NEW gpu, Sized(cpu, gpu, S), NEW T \in SUBSET S, NEW a \in S, a \notin T
    PROVE  /\ cpu[a] \in Nat /\ gpu[a] \in Nat
           /\ SumFunctionOnSet(cpu, T \cup {a}) = SumFunctionOnSet(cpu, T) + cpu[a]
           /\ SumFunctionOnSet(gpu, T \cup {a}) = SumFunctionOnSet(gpu, T) + gpu[a]
           /\ Cardinality(T \cup {a}) = Cardinality(T) + 1
<1>1. IsFiniteSet(T) /\ \A x \in T \cup {a} : cpu[x] \in Nat /\ gpu[x] \in Nat
  BY FS_Subset DEF Sized
<1>2. Cardinality(T \cup {a}) = Cardinality(T) + 1
  BY <1>1, FS_AddElement
<1> QED BY <1>1, <1>2, SumAdds

LEMMA RequestedAgrees ==
    ASSUME NEW S, NEW cpu, NEW gpu, Sized(cpu, gpu, S), NEW L \in SUBSET S, NEW R \in SUBSET S,
           NEW s, Agrees(s, cpu, gpu, L, R), NEW a \in S, a \notin L, NEW size, size.cpu = cpu[a]
    PROVE  Agrees(Requested(s, size), cpu, gpu, L \cup {a}, R)
<1>1. PICK T : T = L \cup {a}
  OBVIOUS
<1>2. /\ cpu[a] \in Nat /\ SumFunctionOnSet(cpu, T) = SumFunctionOnSet(cpu, L) + cpu[a]
      /\ Cardinality(T) = Cardinality(L) + 1
  BY <1>1, OneMore
<1>3. SumFunctionOnSet(cpu, L) \in Nat /\ Cardinality(L) \in Nat /\ SumFunctionOnSet(cpu, R) \in Nat
  BY Measured
<1>4. PICK q : q = Requested(s, size)
  OBVIOUS
<1>5. s \in Stat
  BY DEF Agrees
<1>6. PICK v, w, u \in Nat : v = s.requested + cpu[a] /\ w = s.inFlight + cpu[a] /\ u = s.requests + 1
  BY <1>2, <1>5 DEF Stat
<1>7. q = [s EXCEPT !.requested = v, !.inFlight = w, !.requests = u]
  BY <1>4, <1>5, <1>6 DEF Requested, Stat
<1>8. q \in Stat
  BY <1>5, <1>7 DEF Stat
<1>9. /\ q.requested = v /\ q.inFlight = w /\ q.requests = u /\ q.cpu = s.cpu /\ q.gpu = s.gpu
      /\ q.completed = s.completed /\ q.failures = s.failures /\ q.cancelled = s.cancelled
  BY <1>5, <1>7 DEF Stat
<1>10. s.completed \in Nat /\ s.failures \in Nat /\ s.cancelled \in Nat
  BY <1>5 DEF Stat
<1>11. Agrees(q, cpu, gpu, T, R)
  BY <1>2, <1>3, <1>6, <1>8, <1>9, <1>10 DEF Agrees
<1> QED BY <1>1, <1>4, <1>11

(* A load ends: with success, or without.                                    *)
LEMMA EndedAgrees ==
    ASSUME NEW S, NEW cpu, NEW gpu, Sized(cpu, gpu, S), NEW L \in SUBSET S, NEW R \in SUBSET S,
           NEW s, Agrees(s, cpu, gpu, L, R), NEW a \in L, NEW size, size.cpu = cpu[a]
    PROVE  /\ Agrees(Cancelled(s, size), cpu, gpu, L \ {a}, R)
           /\ Agrees(Failed(s, size), cpu, gpu, L \ {a}, R)
<1>1. PICK T : T = L \ {a}
  OBVIOUS
<1>2. /\ cpu[a] \in Nat /\ SumFunctionOnSet(cpu, L) = cpu[a] + SumFunctionOnSet(cpu, T)
      /\ Cardinality(L) = Cardinality(T) + 1 /\ SumFunctionOnSet(cpu, T) \in Nat /\ Cardinality(T) \in Nat
  BY <1>1, OneLess
<1>3. SumFunctionOnSet(cpu, R) \in Nat
  BY Measured
<1>4. /\ s \in Stat /\ s.inFlight = cpu[a] + SumFunctionOnSet(cpu, T)
      /\ s.requested = cpu[a] + SumFunctionOnSet(cpu, T) + SumFunctionOnSet(cpu, R)
      /\ s.cpu = SumFunctionOnSet(cpu, R) /\ s.gpu = SumFunctionOnSet(gpu, R)
      /\ s.requests = s.completed + s.failures + s.cancelled + Cardinality(T) + 1
      /\ s.completed \in Nat /\ s.failures \in Nat /\ s.cancelled \in Nat
  BY <1>2, <1>3 DEF Agrees, Stat
<1>5. PICK v, w \in Nat :
          /\ v = SumFunctionOnSet(cpu, T) /\ Less(s.inFlight, size.cpu) = v
          /\ w = SumFunctionOnSet(cpu, T) + SumFunctionOnSet(cpu, R) /\ Less(s.requested, size.cpu) = w
  BY <1>2, <1>3, <1>4 DEF Less
<1>6. PICK u, x \in Nat : u = s.cancelled + 1 /\ x = s.failures + 1
  BY <1>4
<1>7. PICK q : q = Cancelled(s, size)
  OBVIOUS
<1>8. PICK f : f = Failed(s, size)
  OBVIOUS
<1>9. q = [s EXCEPT !.inFlight = v, !.requested = w, !.cancelled = u]
  BY <1>4, <1>5, <1>6, <1>7 DEF Cancelled
<1>10. f = [s EXCEPT !.inFlight = v, !.requested = w, !.failures = x]
  BY <1>4, <1>5, <1>6, <1>8 DEF Failed
<1>11. q \in Stat /\ f \in Stat
  BY <1>4, <1>9, <1>10 DEF Stat
<1>12. /\ q.inFlight = v /\ q.requested = w /\ q.requests = s.requests /\ q.cpu = s.cpu /\ q.gpu = s.gpu
       /\ q.completed = s.completed /\ q.failures = s.failures /\ q.cancelled = u
  BY <1>4, <1>9 DEF Stat
<1>13. /\ f.inFlight = v /\ f.requested = w /\ f.requests = s.requests /\ f.cpu = s.cpu /\ f.gpu = s.gpu
       /\ f.completed = s.completed /\ f.failures = x /\ f.cancelled = s.cancelled
  BY <1>4, <1>10 DEF Stat
<1>14. Agrees(q, cpu, gpu, T, R)
  <2>1. q.requests = q.completed + q.failures + q.cancelled + Cardinality(T)
    BY <1>2, <1>4, <1>6, <1>12
  <2> QED BY <1>2, <1>3, <1>4, <1>5, <1>11, <1>12, <2>1 DEF Agrees
<1>15. Agrees(f, cpu, gpu, T, R)
  BY <1>2, <1>3, <1>4, <1>5, <1>6, <1>11, <1>13 DEF Agrees
<1> QED BY <1>1, <1>7, <1>8, <1>14, <1>15

LEMMA CompletedAgrees ==
    ASSUME NEW S, NEW cpu, NEW gpu, Sized(cpu, gpu, S), NEW L \in SUBSET S, NEW R \in SUBSET S,
           NEW s, Agrees(s, cpu, gpu, L, R), NEW a \in L, a \notin R,
           NEW size, size.cpu = cpu[a], size.gpu = gpu[a]
    PROVE  Agrees(Completed(s, size), cpu, gpu, L \ {a}, R \cup {a})
<1>1. PICK T : T = L \ {a}
  OBVIOUS
<1>2. PICK U : U = R \cup {a}
  OBVIOUS
<1>3. /\ cpu[a] \in Nat /\ SumFunctionOnSet(cpu, L) = cpu[a] + SumFunctionOnSet(cpu, T)
      /\ Cardinality(L) = Cardinality(T) + 1 /\ SumFunctionOnSet(cpu, T) \in Nat /\ Cardinality(T) \in Nat
  BY <1>1, OneLess
<1>4. /\ gpu[a] \in Nat /\ SumFunctionOnSet(cpu, U) = SumFunctionOnSet(cpu, R) + cpu[a]
      /\ SumFunctionOnSet(gpu, U) = SumFunctionOnSet(gpu, R) + gpu[a]
      /\ SumFunctionOnSet(cpu, R) \in Nat /\ SumFunctionOnSet(gpu, R) \in Nat
  BY <1>2, OneMore, Measured
<1>5. /\ s \in Stat /\ s.inFlight = cpu[a] + SumFunctionOnSet(cpu, T)
      /\ s.requested = cpu[a] + SumFunctionOnSet(cpu, T) + SumFunctionOnSet(cpu, R)
      /\ s.cpu = SumFunctionOnSet(cpu, R) /\ s.gpu = SumFunctionOnSet(gpu, R)
      /\ s.requests = s.completed + s.failures + s.cancelled + Cardinality(T) + 1
      /\ s.completed \in Nat /\ s.failures \in Nat /\ s.cancelled \in Nat
  BY <1>3, <1>4 DEF Agrees, Stat
<1>6. PICK v, w, u, x \in Nat :
          /\ v = SumFunctionOnSet(cpu, T) /\ Less(s.inFlight, size.cpu) = v
          /\ w = s.cpu + size.cpu /\ u = s.gpu + size.gpu /\ x = s.completed + 1
  <2>1. Less(s.inFlight, size.cpu) = SumFunctionOnSet(cpu, T)
    BY <1>3, <1>5 DEF Less
  <2>2. s.cpu + size.cpu \in Nat /\ s.gpu + size.gpu \in Nat /\ s.completed + 1 \in Nat
    BY <1>3, <1>4, <1>5
  <2> QED BY <1>3, <2>1, <2>2
<1>7. PICK q : q = Completed(s, size)
  OBVIOUS
<1>8. q = [s EXCEPT !.inFlight = v, !.cpu = w, !.gpu = u, !.completed = x]
  BY <1>5, <1>6, <1>7 DEF Completed
<1>9. q \in Stat
  BY <1>5, <1>8 DEF Stat
<1>10. /\ q.inFlight = v /\ q.requested = s.requested /\ q.cpu = w /\ q.gpu = u /\ q.requests = s.requests
       /\ q.completed = x /\ q.failures = s.failures /\ q.cancelled = s.cancelled
  BY <1>5, <1>8 DEF Stat
<1>11. Agrees(q, cpu, gpu, T, U)
  BY <1>3, <1>4, <1>5, <1>6, <1>9, <1>10 DEF Agrees
<1> QED BY <1>1, <1>2, <1>7, <1>11

(* A resident one goes.                                                      *)
LEMMA DroppedAgrees ==
    ASSUME NEW S, NEW cpu, NEW gpu, Sized(cpu, gpu, S), NEW L \in SUBSET S, NEW R \in SUBSET S,
           NEW s, Agrees(s, cpu, gpu, L, R), NEW a \in R,
           NEW size, size.cpu = cpu[a], size.gpu = gpu[a]
    PROVE  /\ Agrees(Dropped(s, size), cpu, gpu, L, R \ {a})
           /\ Agrees(Evicted(s, size), cpu, gpu, L, R \ {a})
<1>1. PICK U : U = R \ {a}
  OBVIOUS
<1>2. /\ cpu[a] \in Nat /\ gpu[a] \in Nat /\ SumFunctionOnSet(cpu, R) = cpu[a] + SumFunctionOnSet(cpu, U)
      /\ SumFunctionOnSet(gpu, R) = gpu[a] + SumFunctionOnSet(gpu, U)
      /\ SumFunctionOnSet(cpu, U) \in Nat /\ SumFunctionOnSet(gpu, U) \in Nat
  BY <1>1, OneLess
<1>3. SumFunctionOnSet(cpu, L) \in Nat
  BY Measured
<1>4. /\ s \in Stat /\ s.inFlight = SumFunctionOnSet(cpu, L)
      /\ s.cpu = cpu[a] + SumFunctionOnSet(cpu, U) /\ s.gpu = gpu[a] + SumFunctionOnSet(gpu, U)
      /\ s.requested = SumFunctionOnSet(cpu, L) + (cpu[a] + SumFunctionOnSet(cpu, U))
  BY <1>2, <1>3 DEF Agrees, Stat
<1>5. PICK v, w, u, x \in Nat :
          /\ v = SumFunctionOnSet(cpu, U) /\ Less(s.cpu, size.cpu) = v
          /\ w = SumFunctionOnSet(gpu, U) /\ Less(s.gpu, size.gpu) = w
          /\ u = SumFunctionOnSet(cpu, L) + SumFunctionOnSet(cpu, U) /\ Less(s.requested, size.cpu) = u
          /\ x = s.evictions + 1
  <2>1. s.evictions + 1 \in Nat
    BY <1>4 DEF Stat
  <2> QED BY <1>2, <1>3, <1>4, <2>1 DEF Less
<1>6. PICK q : q = Dropped(s, size)
  OBVIOUS
<1>7. PICK e : e = Evicted(s, size)
  OBVIOUS
<1>8. q = [s EXCEPT !.cpu = v, !.gpu = w, !.requested = u]
  BY <1>4, <1>5, <1>6 DEF Dropped
<1>9. q \in Stat
  BY <1>4, <1>8 DEF Stat
<1>10. /\ q.inFlight = s.inFlight /\ q.cpu = v /\ q.gpu = w /\ q.requested = u /\ q.requests = s.requests
       /\ q.completed = s.completed /\ q.failures = s.failures /\ q.cancelled = s.cancelled
       /\ q.evictions = s.evictions
  BY <1>4, <1>8 DEF Stat
<1>11. e = [q EXCEPT !.evictions = x]
  BY <1>5, <1>6, <1>7, <1>9, <1>10 DEF Evicted
<1>12. e \in Stat
  BY <1>9, <1>11 DEF Stat
<1>13. /\ e.inFlight = q.inFlight /\ e.cpu = q.cpu /\ e.gpu = q.gpu /\ e.requested = q.requested
       /\ e.requests = q.requests /\ e.completed = q.completed /\ e.failures = q.failures /\ e.cancelled = q.cancelled
  BY <1>9, <1>11 DEF Stat
<1>14. Agrees(q, cpu, gpu, L, U)
  BY <1>3, <1>4, <1>5, <1>9, <1>10 DEF Agrees
<1>15. Agrees(e, cpu, gpu, L, U)
  BY <1>12, <1>13, <1>14 DEF Agrees
<1> QED BY <1>1, <1>6, <1>7, <1>14, <1>15

(* What agrees does so with the same sizes under another name.               *)
LEMMA AgreesStill ==
    ASSUME NEW S, NEW cpu, NEW gpu, Sized(cpu, gpu, S), NEW L \in SUBSET S, NEW R \in SUBSET S,
           NEW s, Agrees(s, cpu, gpu, L, R), NEW cpu2, NEW gpu2,
           \A x \in L \cup R : cpu2[x] = cpu[x] /\ gpu2[x] = gpu[x]
    PROVE  Agrees(s, cpu2, gpu2, L, R)
<1>1. IsFiniteSet(L) /\ IsFiniteSet(R)
  BY Measured
<1>2. /\ SumFunctionOnSet(cpu2, L) = SumFunctionOnSet(cpu, L)
      /\ SumFunctionOnSet(cpu2, R) = SumFunctionOnSet(cpu, R) /\ SumFunctionOnSet(gpu2, R) = SumFunctionOnSet(gpu, R)
  <2>1. \A x \in L : cpu[x] \in Nat /\ cpu2[x] = cpu[x]
    BY DEF Sized
  <2>2. \A x \in R : cpu[x] \in Nat /\ cpu2[x] = cpu[x]
    BY DEF Sized
  <2>3. \A x \in R : gpu[x] \in Nat /\ gpu2[x] = gpu[x]
    BY DEF Sized
  <2> QED BY <1>1, <2>1, <2>2, <2>3, SumSame
<1> QED BY <1>2 DEF Agrees

-----------------------------------------------------------------------------
(* The invariant of the statistics. *)

Agree == \A c \in Class : Agrees(statistics[c], Cpu, Gpu, Loads(c), Residents(c))
StatisticsInv == statistics \in [Class -> Stat] /\ Agree

SizesAre ==
    /\ Sized(Cpu, Gpu, Occupied)
    /\ \A i \in Occupied : Cpu[i] = slots[i].record.size.cpu /\ Gpu[i] = slots[i].record.size.gpu
    /\ \A c : Loads(c) \in SUBSET Occupied /\ Residents(c) \in SUBSET Occupied
    /\ \A c : \A i \in Loads(c) : i \notin Residents(c)

LEMMA SizesKnown == Typed => SizesAre
<1> SUFFICES ASSUME Typed PROVE SizesAre
  OBVIOUS
<1>1. IsFiniteSet(Occupied)
  <2>1. IsFiniteSet(1..Len(slots)) /\ DOMAIN slots = 1..Len(slots)
    BY Counts DEF Typed
  <2> QED BY <2>1, FS_Subset DEF Occupied
<1>2. ASSUME NEW i \in Occupied
      PROVE  /\ Cpu[i] = slots[i].record.size.cpu /\ Gpu[i] = slots[i].record.size.gpu
             /\ Cpu[i] \in Nat /\ Gpu[i] \in Nat
  <2>1. slots[i].record \in RequestRecord
    BY RecordsTyped
  <2>2. slots[i].record.size \in Size
    BY <2>1 DEF RequestRecord
  <2>3. slots[i].record.size \in [cpu : Nat \ {0}, gpu : Nat]
    BY <2>2, StreamingAssumption
  <2>4. slots[i].record.size.cpu \in Nat /\ slots[i].record.size.gpu \in Nat
    BY <2>3
  <2> QED BY <2>4 DEF Cpu, Gpu
<1>3. \A c : Loads(c) \in SUBSET Occupied /\ Residents(c) \in SUBSET Occupied
  BY DEF Loads, Residents
<1>4. \A c : \A i \in Loads(c) : i \notin Residents(c)
  BY DEF Loads, Residents
<1> QED BY <1>1, <1>2, <1>3, <1>4 DEF Sized, SizesAre

LEMMA SizesKnownNext == Typed' => SizesAre'
  BY SizesKnown, PTL

LEMMA AgreementMeans == ASSUME StatisticsInv PROVE StatisticsAgree
  BY DEF StatisticsInv, Agree, Agrees, StatisticsAgree

(* Where requests keep their sizes.                                          *)
SameSizes(S) == \A i \in S : i \in Occupied' /\ slots'[i].record.size = slots[i].record.size

LEMMA SizesKept ==
    ASSUME Typed, NEW s, NEW L, NEW R, L \cup R \subseteq Occupied, SameSizes(L \cup R), Agrees(s, Cpu, Gpu, L, R)
    PROVE  Agrees(s, Cpu', Gpu', L, R)
<1>1. \A i \in L \cup R : Cpu'[i] = Cpu[i] /\ Gpu'[i] = Gpu[i]
  BY DEF SameSizes, Cpu, Gpu
<1>2. PICK cpu2, gpu2 : cpu2 = Cpu' /\ gpu2 = Gpu'
  OBVIOUS
<1>3. Sized(Cpu, Gpu, Occupied) /\ L \in SUBSET Occupied /\ R \in SUBSET Occupied
  BY SizesKnown DEF SizesAre
<1>4. Agrees(s, cpu2, gpu2, L, R)
  BY <1>1, <1>2, <1>3, AgreesStill
<1> QED BY <1>2, <1>4

(* What a step has to show of the statistics of class c: they agree with the *)
(* requests it leaves, which were there before, at their sizes from then.    *)
StepAgrees(c) ==
    /\ Loads(c)' \cup Residents(c)' \subseteq Occupied
    /\ \A i \in Loads(c)' \cup Residents(c)' : i \in Occupied' /\ slots'[i].record.size = slots[i].record.size
    /\ Agrees(statistics'[c], Cpu, Gpu, Loads(c)', Residents(c)')

LEMMA StatisticsStep ==
    ASSUME Typed, statistics' = [c \in Class |-> statistics'[c]], \A c \in Class : StepAgrees(c)
    PROVE  StatisticsInv'
<1>1. ASSUME NEW c \in Class PROVE Agrees(statistics[c], Cpu, Gpu, Loads(c), Residents(c))'
  <2>1. PICK s, L, R : s = statistics'[c] /\ L = Loads(c)' /\ R = Residents(c)'
    OBVIOUS
  <2>2. L \cup R \subseteq Occupied /\ SameSizes(L \cup R) /\ Agrees(s, Cpu, Gpu, L, R)
    BY <1>1, <2>1 DEF StepAgrees, SameSizes
  <2>3. Agrees(s, Cpu', Gpu', L, R)
    BY <2>2, SizesKept
  <2> QED BY <2>1, <2>3
<1>2. \A c \in Class : statistics'[c] \in Stat
  BY <1>1 DEF Agrees
<1>3. statistics' \in [Class -> Stat]
  <2>1. PICK f : f = statistics'
    OBVIOUS
  <2>2. f = [c \in Class |-> f[c]] /\ \A c \in Class : f[c] \in Stat
    BY <1>2, <2>1
  <2>3. f \in [Class -> Stat]
    BY <2>2
  <2> QED BY <2>1, <2>3
<1> QED BY <1>1, <1>3 DEF StatisticsInv, Agree

(* The requests go on as they were.                                          *)
LEMMA QuietStep ==
    ASSUME Typed, StatisticsInv, UNCHANGED statistics, Occupied' = Occupied,
           \A i \in Occupied : /\ slots'[i].record.size = slots[i].record.size
                               /\ slots'[i].record.class = slots[i].record.class
                               /\ slots'[i].record.state = slots[i].record.state
    PROVE  StatisticsInv'
<1>1. \A c : Loads(c)' = Loads(c) /\ Residents(c)' = Residents(c)
  BY DEF Loads, Residents
<1>2. \A c : Loads(c) \cup Residents(c) \subseteq Occupied
  BY DEF Loads, Residents
<1>3. \A c : SameSizes(Loads(c) \cup Residents(c))
  BY <1>2 DEF SameSizes
<1>4. statistics' = [c \in Class |-> statistics'[c]]
  BY DEF StatisticsInv
<1> QED BY <1>1, <1>2, <1>3, <1>4, StatisticsStep DEF StatisticsInv, Agree, StepAgrees, SameSizes

(* One request ends.                                                         *)
LEMMA OneEnds ==
    ASSUME Typed, StatisticsInv, NEW a \in Occupied, NEW c0, NEW size,
           c0 = slots[a].record.class, size = slots[a].record.size,
           Occupied' \subseteq Occupied, \A i \in Occupied : i # a => i \in Occupied' /\ slots'[i] = slots[i],
           a \in Occupied' => slots'[a].record.state \notin {"Loading", "Resident"},
           \/ /\ slots[a].record.state = "Loading"
              /\ statistics' = [statistics EXCEPT ![c0] = Cancelled(@, size)]
           \/ /\ slots[a].record.state = "Resident"
              /\ statistics' = [statistics EXCEPT ![c0] = Dropped(@, size)]
           \/ /\ slots[a].record.state \notin {"Loading", "Resident"}
              /\ statistics' = statistics
    PROVE  StatisticsInv'
<1>1. /\ \A c : Loads(c)' = Loads(c) \ {a} /\ Residents(c)' = Residents(c) \ {a}
      /\ \A c : Loads(c)' \cup Residents(c)' \subseteq Occupied \ {a}
  BY DEF Loads, Residents
<1>2. \A c : SameSizes(Loads(c)' \cup Residents(c)')
  BY <1>1 DEF SameSizes
<1>3. SizesAre /\ c0 \in Class /\ statistics \in [Class -> Stat]
  BY SizesKnown, RecordsTyped DEF StatisticsInv, RequestRecord
<1>4. statistics' = [c \in Class |-> statistics'[c]]
  <2>1. statistics = [c \in Class |-> statistics[c]]
    BY <1>3
  <2> QED BY <1>3, <2>1
<1>5. ASSUME NEW c \in Class PROVE Agrees(statistics'[c], Cpu, Gpu, Loads(c) \ {a}, Residents(c) \ {a})
  <2>1. /\ Agrees(statistics[c], Cpu, Gpu, Loads(c), Residents(c))
        /\ Loads(c) \in SUBSET Occupied /\ Residents(c) \in SUBSET Occupied /\ Sized(Cpu, Gpu, Occupied)
    BY <1>3, <1>5 DEF SizesAre, StatisticsInv, Agree
  <2>2. CASE c = c0 /\ slots[a].record.state = "Loading"
    <3>1. a \in Loads(c) /\ size.cpu = Cpu[a] /\ Residents(c) = Residents(c) \ {a}
      BY <1>3, <2>2 DEF Loads, Residents, SizesAre
    <3>2. statistics'[c] = Cancelled(statistics[c], size)
      BY <1>3, <2>2
    <3>3. Agrees(Cancelled(statistics[c], size), Cpu, Gpu, Loads(c) \ {a}, Residents(c))
      BY <2>1, <3>1, EndedAgrees
    <3> QED BY <3>1, <3>2, <3>3
  <2>3. CASE c = c0 /\ slots[a].record.state = "Resident"
    <3>1. a \in Residents(c) /\ size.cpu = Cpu[a] /\ size.gpu = Gpu[a] /\ Loads(c) = Loads(c) \ {a}
      BY <1>3, <2>3 DEF Loads, Residents, SizesAre
    <3>2. statistics'[c] = Dropped(statistics[c], size)
      BY <1>3, <2>3
    <3>3. Agrees(Dropped(statistics[c], size), Cpu, Gpu, Loads(c), Residents(c) \ {a})
      BY <2>1, <3>1, DroppedAgrees
    <3> QED BY <3>1, <3>2, <3>3
  <2>4. CASE c # c0 \/ slots[a].record.state \notin {"Loading", "Resident"}
    <3>1. Loads(c) = Loads(c) \ {a} /\ Residents(c) = Residents(c) \ {a}
      BY <2>4 DEF Loads, Residents
    <3>2. statistics'[c] = statistics[c]
      BY <1>3, <2>4
    <3> QED BY <2>1, <3>1, <3>2
  <2> QED BY <2>2, <2>3, <2>4
<1> QED BY <1>1, <1>2, <1>4, <1>5, StatisticsStep DEF StepAgrees, SameSizes

(* Cancel.                                                                   *)
LEMMA CancelAgrees == ASSUME TableInv, StatisticsInv, NEW h \in ToSet(issued), Cancel(h) PROVE StatisticsInv'
<1> DEFINE s == h.slot  r == [slots[s].record EXCEPT !.state = "Cancelled"]
<1>1. /\ Matches(h) /\ slots[s].record.state = "Loading" /\ slots' = [slots EXCEPT ![s].record.state = "Cancelled"]
      /\ statistics' = [statistics EXCEPT ![slots[s].record.class] = Cancelled(@, slots[s].record.size)]
      /\ UNCHANGED <<free, active, issued>>
  BY DEF Cancel, StateOf, RecordOf
<1>2. Typed /\ TableOK
  BY DEF TableInv
<1>3. s \in Occupied /\ slots[s] \in Slot /\ slots[s].record \in RequestRecord
  BY <1>1, <1>2, RecordsTyped DEF Matches, Occupied
<1>4. r \in RequestRecord /\ r.id = slots[s].record.id /\ r.state = "Cancelled"
  BY <1>3 DEF RequestRecord, ResidencyState
<1>5. slots' = [slots EXCEPT ![s].record = r]
  BY <1>1, <1>3
<1> HIDE DEF r
<1>6. /\ SameRequests /\ slots'[s].record = r
      /\ \A i \in DOMAIN slots : i # s => slots'[i] = slots[i]
  BY <1>1, <1>2, <1>3, <1>4, <1>5, RecordChanges
<1>7. Occupied' = Occupied
  BY <1>2, <1>6, SameRequestsKeep
<1>8. \A i \in Occupied : i # s => slots'[i] = slots[i]
  BY <1>6 DEF Occupied
<1> QED BY <1>1, <1>2, <1>3, <1>4, <1>6, <1>7, <1>8, OneEnds

(* Release.                                                                  *)
LEMMA ReleaseAgrees == ASSUME TableInv, StatisticsInv, NEW h \in ToSet(issued), Release(h) PROVE StatisticsInv'
<1>1. PICK s : s = h.slot
  OBVIOUS
<1>2. PICK c, size : c = slots[s].record.class /\ size = slots[s].record.size
  OBVIOUS
<1>3. /\ Matches(h) /\ s \in DOMAIN slots /\ slots' = [slots EXCEPT ![s] = Erased(@)]
      /\ \/ /\ slots[s].record.state = "Loading"
            /\ statistics' = [statistics EXCEPT ![c] = Cancelled(@, size)]
         \/ /\ slots[s].record.state = "Resident"
            /\ statistics' = [statistics EXCEPT ![c] = Dropped(@, size)]
         \/ /\ slots[s].record.state \notin {"Loading", "Resident"}
            /\ statistics' = statistics
  BY <1>1, <1>2 DEF Release, StateOf, RecordOf, Matches
<1>4. Typed /\ s \in Occupied
  BY <1>1, <1>3 DEF Matches, Occupied, TableInv
<1>5. slots'[s].record = None /\ \A i \in DOMAIN slots : i # s => slots'[i] = slots[i]
  BY <1>3, <1>4 DEF Erased, Typed
<1>6. Occupied' = Occupied \ {s}
  <2>1. DOMAIN slots' = DOMAIN slots
    BY <1>3
  <2> QED BY <1>4, <1>5, <2>1 DEF Occupied
<1>7. \A i \in Occupied : i # s => i \in Occupied' /\ slots'[i] = slots[i]
  BY <1>5, <1>6 DEF Occupied
<1> QED BY <1>2, <1>3, <1>4, <1>6, <1>7, OneEnds

(* SetPinned and Touch.                                                      *)
LEMMA SettingAgrees ==
    ASSUME TableInv, StatisticsInv, NEW h, Matches(h), NEW r \in RequestRecord,
           UNCHANGED <<free, active, issued, statistics>>,
           r.id = RecordOf(h).id, r.state = RecordOf(h).state, r.size = RecordOf(h).size, r.class = RecordOf(h).class,
           slots' = [slots EXCEPT ![h.slot].record = r]
    PROVE  StatisticsInv'
<1>1. PICK s : s = h.slot
  OBVIOUS
<1>2. Typed /\ TableOK
  BY DEF TableInv
<1>3. s \in Occupied /\ slots[s].record = RecordOf(h)
  BY <1>1 DEF Matches, Occupied, RecordOf
<1>4. /\ SameRequests /\ slots'[s].record = r
      /\ \A i \in DOMAIN slots : i # s => slots'[i] = slots[i]
  BY <1>1, <1>2, <1>3, RecordChanges
<1>5. Occupied' = Occupied
  BY <1>2, <1>4, SameRequestsKeep
<1>6. ASSUME NEW i \in Occupied
      PROVE  /\ slots'[i].record.size = slots[i].record.size
             /\ slots'[i].record.class = slots[i].record.class
             /\ slots'[i].record.state = slots[i].record.state
  BY <1>3, <1>4 DEF Occupied
<1> QED BY <1>2, <1>5, <1>6, QuietStep

LEMMA PinAgrees ==
    ASSUME TableInv, StatisticsInv, NEW h \in ToSet(issued), NEW pinned \in BOOLEAN, SetPinned(h, pinned)
    PROVE  StatisticsInv'
<1> DEFINE r == [RecordOf(h) EXCEPT !.pinned = pinned]
<1>1. Matches(h) /\ h.slot \in Occupied /\ RecordOf(h) \in RequestRecord /\ slots[h.slot] \in Slot
  BY RecordsTyped DEF SetPinned, Matches, Occupied, RecordOf, TableInv
<1>2. /\ r \in RequestRecord /\ r.id = RecordOf(h).id /\ r.state = RecordOf(h).state
      /\ r.size = RecordOf(h).size /\ r.class = RecordOf(h).class
  BY <1>1 DEF RequestRecord
<1>3. slots' = [slots EXCEPT ![h.slot].record = r]
  BY <1>1 DEF SetPinned, RecordOf
<1> HIDE DEF r
<1> QED BY <1>1, <1>2, <1>3, SettingAgrees DEF SetPinned

LEMMA TouchAgrees == ASSUME TableInv, StatisticsInv, NEW h \in ToSet(issued), Touch(h) PROVE StatisticsInv'
<1> DEFINE r == [RecordOf(h) EXCEPT !.touch = sequence + 1]
<1>1. /\ Matches(h) /\ h.slot \in Occupied /\ RecordOf(h) \in RequestRecord /\ slots[h.slot] \in Slot
      /\ sequence \in Nat
  BY RecordsTyped DEF Touch, Matches, Occupied, RecordOf, TableInv, Typed
<1>2. /\ r \in RequestRecord /\ r.id = RecordOf(h).id /\ r.state = RecordOf(h).state
      /\ r.size = RecordOf(h).size /\ r.class = RecordOf(h).class
  BY <1>1 DEF RequestRecord
<1>3. slots' = [slots EXCEPT ![h.slot].record = r]
  BY <1>1 DEF Touch, RecordOf
<1> HIDE DEF r
<1> QED BY <1>1, <1>2, <1>3, SettingAgrees DEF Touch

(* Request.                                                                  *)
LEMMA RequestAgrees ==
    ASSUME TableInv, TableInv', StatisticsInv, NEW class \in Class, NEW size \in Size, NEW pinned \in BOOLEAN,
           Request(class, size, pinned)
    PROVE  StatisticsInv'
<1>1. PICK h : h = NewHandle
  OBVIOUS
<1>2. PICK n : n = Len(issued) + 1
  OBVIOUS
<1> DEFINE record == [id |-> n, class |-> class, size |-> size, pinned |-> pinned,
                      state |-> "Loading", touch |-> sequence + 1]
<1>3. /\ Emplace(record) /\ InUse < MaximumRequests
      /\ statistics' = [statistics EXCEPT ![class] = Requested(@, size)]
  BY <1>2 DEF Request
<1>4. Typed /\ TableOK /\ n \in Nat /\ sequence \in Nat
  BY <1>2 DEF TableInv, Typed
<1>5. record \in RequestRecord
  BY <1>4 DEF RequestRecord, ResidencyState
<1>6. Placed(h, record)
  BY <1>1, <1>3, <1>4, <1>5, Appends, TakesFree
<1>7. PICK a : a = h.slot
  OBVIOUS
<1>8. /\ a \notin Occupied /\ Occupied' = Occupied \cup {a}
      /\ slots'[a].record = record /\ \A i \in Occupied : slots'[i] = slots[i]
  BY <1>6, <1>7 DEF Placed, Occupied
<1>9. /\ \A c : Residents(c)' = Residents(c) /\ a \notin Loads(c)
      /\ Loads(class)' = Loads(class) \cup {a} /\ \A c : c # class => Loads(c)' = Loads(c)
  BY <1>8 DEF Loads, Residents
<1>10. SizesAre /\ SizesAre' /\ Cpu'[a] = size.cpu
  <2>1. SizesAre /\ SizesAre'
    BY <1>4, SizesKnown, SizesKnownNext DEF TableInv
  <2> QED BY <1>8, <2>1 DEF SizesAre
<1>11. ASSUME NEW c \in Class PROVE Agrees(statistics[c], Cpu', Gpu', Loads(c), Residents(c))
  <2>1. Loads(c) \cup Residents(c) \subseteq Occupied
    BY DEF Loads, Residents
  <2>2. SameSizes(Loads(c) \cup Residents(c))
    BY <1>8, <2>1 DEF SameSizes
  <2> QED BY <1>4, <1>11, <2>1, <2>2, SizesKept DEF StatisticsInv, Agree
<1>12. PICK cpu, gpu, S : cpu = Cpu' /\ gpu = Gpu' /\ S = Occupied'
  OBVIOUS
<1>13. Agrees(Requested(statistics[class], size), cpu, gpu, Loads(class) \cup {a}, Residents(class))
  <2>1. Sized(cpu, gpu, S) /\ a \in S /\ Loads(class) \in SUBSET S /\ Residents(class) \in SUBSET S
    BY <1>8, <1>10, <1>12 DEF SizesAre, Loads, Residents
  <2>2. Agrees(statistics[class], cpu, gpu, Loads(class), Residents(class)) /\ size.cpu = cpu[a] /\ a \notin Loads(class)
    BY <1>9, <1>10, <1>11, <1>12
  <2> QED BY <2>1, <2>2, RequestedAgrees
<1>14. /\ statistics \in [Class -> Stat] /\ statistics'[class] = Requested(statistics[class], size)
       /\ \A c \in Class : c # class => statistics'[c] = statistics[c]
  BY <1>3 DEF StatisticsInv
<1>15. ASSUME NEW c \in Class PROVE Agrees(statistics[c], Cpu, Gpu, Loads(c), Residents(c))'
  <2>1. CASE c = class
    BY <1>9, <1>12, <1>13, <1>14, <2>1
  <2>2. CASE c # class
    BY <1>9, <1>11, <1>14, <2>2
  <2> QED BY <2>1, <2>2
<1>16. statistics' \in [Class -> Stat]
  <2>1. Requested(statistics[class], size) \in Stat
    BY <1>13 DEF Agrees
  <2> QED BY <1>3, <1>14, <2>1
<1> QED BY <1>15, <1>16 DEF StatisticsInv, Agree

(* Close.                                                                    *)
LEMMA HandlesOfLoads == ASSUME TableInv, NEW c PROVE Cardinality(Loading(c)) = Cardinality(Loads(c))
<1>1. Typed /\ ActiveOK /\ IsFiniteSet(Loads(c))
  <2>1. Typed /\ ActiveOK
    BY DEF TableInv, TableOK
  <2>2. Sized(Cpu, Gpu, Occupied) /\ Loads(c) \in SUBSET Occupied
    BY <2>1, SizesKnown DEF SizesAre
  <2> QED BY <2>1, <2>2, FS_Subset DEF Sized
<1> DEFINE of == [i \in Loads(c) |-> [slot |-> i, generation |-> slots[i].generation]]
<1>2. ASSUME NEW i \in Loads(c) PROVE of[i] \in Loading(c)
  <2>1. i \in Occupied /\ slots[i].record.class = c /\ slots[i].record.state = "Loading"
    BY DEF Loads
  <2>2. PICK k \in DOMAIN active : active[k].slot = i
    BY <1>1, <2>1 DEF ActiveOK
  <2>3. active[k] \in Handle /\ active[k].generation = slots[i].generation /\ Matches(active[k])
    BY <1>1, <2>2 DEF ActiveOK, Typed, Matches
  <2>4. of[i] = active[k]
    BY <2>2, <2>3 DEF Handle
  <2>5. RecordOf(active[k]) = slots[i].record /\ StateOf(active[k]) = "Loading"
    BY <2>1, <2>2, <2>3 DEF RecordOf, StateOf
  <2> QED BY <2>1, <2>4, <2>5 DEF Loading, ToSet
<1>3. ASSUME NEW h \in Loading(c) PROVE \E i \in Loads(c) : of[i] = h
  <2>1. PICK k \in DOMAIN active : h = active[k]
    BY DEF Loading, ToSet
  <2>2. h \in Handle /\ Matches(h) /\ StateOf(h) = "Loading" /\ RecordOf(h).class = c
    BY <1>1, <2>1 DEF Loading, ActiveOK, Typed
  <2>3. h.slot \in Loads(c) /\ slots[h.slot].generation = h.generation
    BY <2>2 DEF Loads, Occupied, Matches, StateOf, RecordOf
  <2>4. of[h.slot] = h
    BY <2>2, <2>3 DEF Handle
  <2> QED BY <2>3, <2>4
<1>4. of \in Bijection(Loads(c), Loading(c))
  <2>1. of \in [Loads(c) -> Loading(c)]
    BY <1>2
  <2>2. \A i, k \in Loads(c) : of[i] = of[k] => i = k
    OBVIOUS
  <2>3. of \in Surjection(Loads(c), Loading(c))
    BY <1>3, <2>1 DEF Surjection
  <2>4. of \in Injection(Loads(c), Loading(c))
    BY <2>1, <2>2 DEF Injection, IsInjective
  <2> QED BY <2>3, <2>4 DEF Bijection
<1> QED BY <1>1, <1>4, FS_Bijection DEF ExistsBijection

LEMMA CloseAgrees == ASSUME TableInv, StatisticsInv, Close PROVE StatisticsInv'
<1>1. /\ slots' = [i \in DOMAIN slots |-> IF slots[i].record # None THEN Erased(slots[i]) ELSE slots[i]]
      /\ statistics' = [c \in Class |->
             [statistics[c] EXCEPT !.requested = 0, !.inFlight = 0, !.cpu = 0, !.gpu = 0,
                                   !.cancelled = @ + Cardinality(Loading(c))]]
  BY DEF Close
<1>2. Occupied' = {}
  BY <1>1 DEF Occupied, Erased
<1>3. \A c : Loads(c)' = {} /\ Residents(c)' = {}
  BY <1>2 DEF Loads, Residents
<1>4. ASSUME NEW c \in Class PROVE Agrees(statistics'[c], Cpu, Gpu, {}, {})
  <2>1. PICK s : s = statistics[c]
    OBVIOUS
  <2>2. Agrees(s, Cpu, Gpu, Loads(c), Residents(c)) /\ Cardinality(Loads(c)) \in Nat
    <3>1. Sized(Cpu, Gpu, Occupied) /\ Loads(c) \in SUBSET Occupied
      BY SizesKnown DEF SizesAre, TableInv
    <3> QED BY <1>4, <2>1, <3>1, Measured DEF StatisticsInv, Agree
  <2>3. s \in Stat /\ s.requests = s.completed + s.failures + s.cancelled + Cardinality(Loads(c))
    BY <2>2 DEF Agrees
  <2>4. PICK n \in Nat : n = s.cancelled + Cardinality(Loading(c))
    BY <2>2, <2>3, HandlesOfLoads DEF Stat
  <2>5. PICK q : q = statistics'[c]
    OBVIOUS
  <2>6. q = [s EXCEPT !.requested = 0, !.inFlight = 0, !.cpu = 0, !.gpu = 0, !.cancelled = n]
    BY <1>1, <2>1, <2>4, <2>5
  <2>7. q \in Stat
    BY <2>3, <2>6 DEF Stat
  <2>8. /\ q.requested = 0 /\ q.inFlight = 0 /\ q.cpu = 0 /\ q.gpu = 0 /\ q.cancelled = n
        /\ q.requests = s.requests /\ q.completed = s.completed /\ q.failures = s.failures
    BY <2>3, <2>6 DEF Stat
  <2>9. s.completed \in Nat /\ s.failures \in Nat /\ s.cancelled \in Nat
    BY <2>3 DEF Stat
  <2>10. q.requests = q.completed + q.failures + q.cancelled
    BY <2>2, <2>3, <2>4, <2>8, <2>9, HandlesOfLoads
  <2>11. SumFunctionOnSet(Cpu, {}) = 0 /\ SumFunctionOnSet(Gpu, {}) = 0 /\ Cardinality({}) = 0
    BY SumEmpty, FS_EmptySet
  <2>12. q.completed + q.failures + q.cancelled + 0 = q.completed + q.failures + q.cancelled
    BY <2>4, <2>8, <2>9
  <2> QED BY <2>5, <2>7, <2>8, <2>10, <2>11, <2>12 DEF Agrees
<1>5. statistics' = [c \in Class |-> statistics'[c]]
  <2>1. PICK f : f = statistics'
    OBVIOUS
  <2>2. f = [c \in Class |-> f[c]]
    BY <1>1, <2>1
  <2> QED BY <2>1, <2>2
<1>6. \A c : SameSizes(Loads(c)' \cup Residents(c)')
  BY <1>3 DEF SameSizes
<1> QED BY <1>3, <1>4, <1>5, <1>6, StatisticsStep DEF TableInv, StepAgrees, SameSizes

-----------------------------------------------------------------------------
(* EvictToBudgets. *)

LEMMA StatsTyped ==
    ASSUME NEW s \in Stat, NEW size, size.cpu \in Nat, size.gpu \in Nat
    PROVE  /\ Cancelled(s, size) \in Stat /\ Failed(s, size) \in Stat
           /\ Completed(s, size) \in Stat /\ Evicted(s, size) \in Stat
<1>1. \A a, b \in Nat : Less(a, b) \in Nat /\ a + b \in Nat /\ a + 1 \in Nat
  BY DEF Less
<1>2. /\ s.inFlight \in Nat /\ s.requested \in Nat /\ s.cancelled \in Nat /\ s.failures \in Nat
      /\ s.completed \in Nat /\ s.cpu \in Nat /\ s.gpu \in Nat /\ s.evictions \in Nat
  BY DEF Stat
<1>3. PICK v, w, x, y, z \in Nat :
          /\ v = Less(s.inFlight, size.cpu) /\ w = Less(s.requested, size.cpu)
          /\ x = s.cancelled + 1 /\ y = s.failures + 1 /\ z = s.completed + 1
  BY <1>1, <1>2
<1>4. PICK a, b, d, e, f \in Nat :
          /\ a = s.cpu + size.cpu /\ b = s.gpu + size.gpu /\ d = Less(s.cpu, size.cpu) /\ e = Less(s.gpu, size.gpu)
          /\ f = s.evictions + 1
  BY <1>1, <1>2
<1>5. /\ Cancelled(s, size) = [s EXCEPT !.inFlight = v, !.requested = w, !.cancelled = x]
      /\ Failed(s, size) = [s EXCEPT !.inFlight = v, !.requested = w, !.failures = y]
      /\ Completed(s, size) = [s EXCEPT !.inFlight = v, !.cpu = a, !.gpu = b, !.completed = z]
      /\ Dropped(s, size) = [s EXCEPT !.cpu = d, !.gpu = e, !.requested = w]
  BY <1>3, <1>4 DEF Cancelled, Failed, Completed, Dropped
<1>6. PICK q : q = Dropped(s, size)
  OBVIOUS
<1>7. q \in Stat
  BY <1>5, <1>6 DEF Stat
<1>8. q.evictions + 1 \in Nat
  BY <1>7 DEF Stat
<1>9. PICK n \in Nat : n = q.evictions + 1
  BY <1>8
<1>10. Evicted(s, size) = [q EXCEPT !.evictions = n]
  BY <1>6, <1>9 DEF Evicted
<1>11. [q EXCEPT !.evictions = n] \in Stat
  BY <1>7 DEF Stat
<1>12. /\ [s EXCEPT !.inFlight = v, !.requested = w, !.cancelled = x] \in Stat
       /\ [s EXCEPT !.inFlight = v, !.requested = w, !.failures = y] \in Stat
       /\ [s EXCEPT !.inFlight = v, !.cpu = a, !.gpu = b, !.completed = z] \in Stat
  BY DEF Stat
<1> QED BY <1>5, <1>10, <1>11, <1>12

LEMMA SizesTyped ==
    ASSUME Typed
    PROVE  \A i \in Occupied : slots[i].record.size.cpu \in Nat /\ slots[i].record.size.gpu \in Nat
  BY SizesKnown DEF SizesAre, Sized

(* What is left of a class agrees with what is left of its requests.         *)
LEMMA LeftAgrees ==
    ASSUME Typed, StatisticsInv, NEW c \in Class, NEW gone \in SUBSET Residents(c)
    PROVE  Agrees(Left(c, gone), Cpu, Gpu, Loads(c), Residents(c) \ gone)
<1>1. SizesAre /\ IsFiniteSet(gone) /\ gone \subseteq Occupied
  <2>1. SizesAre /\ gone \in SUBSET Occupied
    BY SizesKnown DEF Residents
  <2> QED BY <2>1, FS_Subset DEF SizesAre, Sized
<1>2. Agrees(statistics[c], Cpu, Gpu, Loads(c), Residents(c)) /\ statistics[c] \in Stat
  BY DEF StatisticsInv, Agree, Agrees
<1> DEFINE op == [i \in gone |-> [s \in Stat |-> Evicted(s, slots[i].record.size)]]
<1>3. op \in [gone -> [Stat -> Stat]]
  BY <1>1, StatsTyped, SizesTyped
<1>4. \A s \in SUBSET gone : s # {} => Chosen(gone)[s] \in s /\ Chosen(gone)[s] = CHOOSE x \in s : TRUE
  BY DEF Chosen
<1>5. PICK iter \in [SUBSET gone -> Stat] : Combines(iter, statistics[c], op, Chosen(gone), gone)
  <2> HIDE DEF op
  <2> QED BY <1>1, <1>2, <1>3, <1>4, CombinesExist
<1> DEFINE Is(it) == it = [s \in SUBSET gone |-> IF s = {} THEN statistics[c]
                              ELSE Evicted(it[s \ {CHOOSE x \in s : TRUE}], slots[CHOOSE x \in s : TRUE].record.size)]
<1>6. Is(iter)
  <2>1. ASSUME NEW s \in SUBSET gone, s # {}
        PROVE  iter[s] = Evicted(iter[s \ {CHOOSE x \in s : TRUE}], slots[CHOOSE x \in s : TRUE].record.size)
    <3>1. PICK x : x = Chosen(gone)[s]
      OBVIOUS
    <3>2. x \in gone /\ x = CHOOSE y \in s : TRUE
      BY <1>4, <2>1, <3>1
    <3>3. iter[s] = op[x][iter[s \ {x}]] /\ iter[s \ {x}] \in Stat
      BY <1>5, <2>1, <3>1 DEF Combines
    <3>4. iter[s] = Evicted(iter[s \ {x}], slots[x].record.size)
      BY <3>2, <3>3
    <3> QED BY <3>2, <3>4
  <2>2. iter[{}] = statistics[c]
    BY <1>5 DEF Combines
  <2> QED BY <2>1, <2>2
<1>7. PICK it : it = CHOOSE i : Is(i)
  OBVIOUS
<1>8. Is(it)
  <2>1. \E i : Is(i)
    BY <1>6
  <2> HIDE DEF Is
  <2> QED BY <1>7, <2>1
<1>9. Left(c, gone) = it[gone]
  BY <1>7 DEF Left, FoldSet, MapThenFoldSet
<1> DEFINE Bad == {T \in SUBSET gone : ~Agrees(it[T], Cpu, Gpu, Loads(c), Residents(c) \ T)}
<1>10. ASSUME Bad # {} PROVE FALSE
  <2>1. PICK T \in Bad : \A t \in Bad : t \subseteq T => t = T
    <3>1. Bad \in SUBSET SUBSET gone
      OBVIOUS
    <3> HIDE DEF Bad
    <3> QED BY <1>1, <1>10, <3>1, SmallestSet
  <2>2. T \in SUBSET gone /\ ~Agrees(it[T], Cpu, Gpu, Loads(c), Residents(c) \ T)
    BY <2>1
  <2>3. PICK x : x = CHOOSE y \in T : TRUE
    OBVIOUS
  <2>4. it[T] = IF T = {} THEN statistics[c] ELSE Evicted(it[T \ {x}], slots[x].record.size)
    BY <1>8, <2>2, <2>3
  <2>5. T # {} /\ x \in T
    <3>1. Residents(c) \ {} = Residents(c)
      OBVIOUS
    <3>2. T # {}
      BY <1>2, <2>2, <2>4, <3>1
    <3> QED BY <2>3, <3>2
  <2>6. Agrees(it[T \ {x}], Cpu, Gpu, Loads(c), Residents(c) \ (T \ {x}))
    <3>1. T \ {x} \in SUBSET gone /\ T \ {x} \subseteq T /\ T \ {x} # T
      BY <2>2, <2>5
    <3>2. T \ {x} \notin Bad
      <4> HIDE DEF Bad
      <4> QED BY <2>1, <3>1
    <3> QED BY <3>1, <3>2
  <2>7. PICK R : R = Residents(c) \ (T \ {x})
    OBVIOUS
  <2>8. x \in R /\ R \in SUBSET Occupied /\ Loads(c) \in SUBSET Occupied /\ R \ {x} = Residents(c) \ T
    BY <2>2, <2>5, <2>7 DEF Residents, Loads
  <2>9. slots[x].record.size.cpu = Cpu[x] /\ slots[x].record.size.gpu = Gpu[x]
    BY <1>1, <2>8 DEF SizesAre
  <2>10. Agrees(Evicted(it[T \ {x}], slots[x].record.size), Cpu, Gpu, Loads(c), R \ {x})
    BY <1>1, <2>6, <2>7, <2>8, <2>9, DroppedAgrees DEF SizesAre
  <2> QED BY <2>2, <2>4, <2>5, <2>8, <2>10
<1>11. gone \notin Bad
  BY <1>10
<1> QED BY <1>9, <1>11

LEMMA VictimsAre ==
    /\ \A c : Victims(c) \subseteq Candidates(c) /\ Candidates(c) \subseteq Residents(c)
    /\ \A c : \A i \in Candidates(c) : ~slots[i].record.pinned
    /\ \A c : \A i \in Residents(c) : slots[i].record.pinned = FALSE => i \in Candidates(c)
<1>1. \A c : Victims(c) \subseteq Candidates(c)
  BY DEF Victims
<1> QED BY <1>1 DEF Candidates, Evictable, Residents, Occupied

(* What the owner evicts.                                                    *)
LEMMA EvictionTakes ==
    ASSUME Typed, open, EvictToBudgets
    PROVE  \/ /\ Occupied' = Occupied
              /\ statistics' = [c \in Class |-> Left(c, Victims(c))]
              /\ \A i \in Occupied :
                    /\ slots'[i].record.class = slots[i].record.class
                    /\ slots'[i].record.size = slots[i].record.size
                    /\ slots'[i].record.state = IF \E c \in Class : i \in Victims(c) THEN "Evicted"
                                                                                   ELSE slots[i].record.state
<1>1. /\ statistics' = [c \in Class |-> Left(c, Victims(c))]
      /\ slots' = [i \in DOMAIN slots |->
                      IF \E c \in Class : i \in Victims(c)
                      THEN [slots[i] EXCEPT !.record.state = "Evicted"] ELSE slots[i]]
  BY DEF EvictToBudgets
<1>2. \A i, c : i \in Victims(c) => i \in Occupied
  BY DEF Victims, Candidates, Evictable, Occupied
<1>3. ASSUME NEW i \in Occupied
      PROVE  /\ slots'[i].record # None
             /\ slots'[i].record.class = slots[i].record.class
             /\ slots'[i].record.size = slots[i].record.size
             /\ slots'[i].record.state = IF \E c \in Class : i \in Victims(c) THEN "Evicted"
                                                                            ELSE slots[i].record.state
  <2>1. i \in DOMAIN slots /\ slots[i] \in Slot /\ slots[i].record \in RequestRecord /\ slots[i].record # None
    BY RecordsTyped DEF Occupied
  <2>2. CASE \E c \in Class : i \in Victims(c)
    <3>1. PICK r : r = [slots[i].record EXCEPT !.state = "Evicted"]
      OBVIOUS
    <3>2. slots'[i].record = r
      BY <1>1, <2>1, <2>2, <3>1 DEF Slot
    <3>3. r \in RequestRecord /\ r.class = slots[i].record.class /\ r.size = slots[i].record.size /\ r.state = "Evicted"
      BY <2>1, <3>1 DEF RequestRecord, ResidencyState
    <3> QED BY <2>2, <3>2, <3>3, NoneIsNoRecord
  <2>3. CASE ~\E c \in Class : i \in Victims(c)
    <3>1. slots'[i] = slots[i]
      BY <1>1, <2>1, <2>3
    <3> QED BY <2>1, <2>3, <3>1
  <2> QED BY <2>2, <2>3
<1>4. ASSUME NEW i \in DOMAIN slots, i \notin Occupied PROVE slots'[i].record = None
  BY <1>1, <1>2, <1>4 DEF Occupied
<1>5. DOMAIN slots' = DOMAIN slots
  <2>1. PICK f : f = slots'
    OBVIOUS
  <2> QED BY <1>1, <2>1
<1>6. Occupied' = Occupied
  BY <1>3, <1>4, <1>5 DEF Occupied
<1> QED BY <1>1, <1>3, <1>6

LEMMA EvictionAgrees == ASSUME TableInv, StatisticsInv, EvictToBudgets PROVE StatisticsInv'
<1>1. Typed
  BY DEF TableInv
<1>2. CASE ~open
  <2>1. slots' = slots /\ statistics' = statistics
    BY <1>2 DEF EvictToBudgets
  <2>2. Occupied' = Occupied
    BY <2>1 DEF Occupied
  <2> QED BY <1>1, <2>1, <2>2, QuietStep
<1>3. CASE open
  <2>1. /\ Occupied' = Occupied
        /\ statistics' = [c \in Class |-> Left(c, Victims(c))]
        /\ \A i \in Occupied :
              /\ slots'[i].record.class = slots[i].record.class
              /\ slots'[i].record.size = slots[i].record.size
              /\ slots'[i].record.state = IF \E c \in Class : i \in Victims(c) THEN "Evicted"
                                                                             ELSE slots[i].record.state
    BY <1>1, <1>3, EvictionTakes
  <2>2. \A c : Victims(c) \subseteq Residents(c)
    BY VictimsAre
  <2>3. ASSUME NEW c \in Class PROVE Loads(c)' = Loads(c) /\ Residents(c)' = Residents(c) \ Victims(c)
    <3>1. \A i \in Occupied : slots[i].record.class = c =>
              (\E d \in Class : i \in Victims(d)) <=> i \in Victims(c)
      BY <2>2, <2>3 DEF Residents
    <3>2. \A i \in Occupied : i \in Victims(c) => slots[i].record.state = "Resident"
      BY <2>2 DEF Residents
    <3>3. ASSUME NEW i \in Occupied PROVE i \in Loads(c)' <=> i \in Loads(c)
      BY <2>1, <3>1, <3>2 DEF Loads
    <3>4. ASSUME NEW i \in Occupied PROVE i \in Residents(c)' <=> i \in Residents(c) \ Victims(c)
      BY <2>1, <3>1, <3>2 DEF Residents
    <3>5. Loads(c)' \subseteq Occupied /\ Residents(c)' \subseteq Occupied /\ Loads(c) \subseteq Occupied /\ Residents(c) \subseteq Occupied
      BY <2>1 DEF Loads, Residents
    <3> QED BY <3>3, <3>4, <3>5
  <2>4. \A c \in Class : Agrees(statistics'[c], Cpu, Gpu, Loads(c), Residents(c) \ Victims(c))
    <3>1. ASSUME NEW c \in Class PROVE Agrees(statistics'[c], Cpu, Gpu, Loads(c), Residents(c) \ Victims(c))
      <4>1. statistics'[c] = Left(c, Victims(c)) /\ Victims(c) \in SUBSET Residents(c)
        BY <2>1, <2>2, <3>1
      <4> QED BY <1>1, <3>1, <4>1, LeftAgrees
    <3> QED BY <3>1
  <2>5. statistics' = [c \in Class |-> statistics'[c]]
    <3>1. PICK f : f = statistics'
      OBVIOUS
    <3>2. f = [c \in Class |-> f[c]]
      BY <2>1, <3>1
    <3> QED BY <3>1, <3>2
  <2>6. \A c \in Class : Loads(c) \cup (Residents(c) \ Victims(c)) \subseteq Occupied
    BY DEF Loads, Residents
  <2>7. \A c \in Class : SameSizes(Loads(c) \cup (Residents(c) \ Victims(c)))
    BY <2>1, <2>6 DEF SameSizes
  <2> QED BY <1>1, <2>3, <2>4, <2>5, <2>6, <2>7, StatisticsStep DEF StepAgrees, SameSizes
<1> QED BY <1>2, <1>3 DEF TableInv, Typed

-----------------------------------------------------------------------------
(* Pump. *)

(* One active handle is looked at.                                           *)
Pumped(s, h) ==
    IF Ready(slots[h.slot]) THEN [s EXCEPT ![RecordOf(h).class] = Arrival(@, RecordOf(h))] ELSE s

(* The slots whose reads have ended, of the first handles.                   *)
Came(T) == {active[k].slot : k \in {l \in T : Ready(slots[active[l].slot])}}
Read(S) == {i \in S : Result(slots[i].record.id) = "Succeeded"}

LEMMA PumpedTyped ==
    ASSUME TableInv, NEW k \in DOMAIN active, NEW s \in [Class -> Stat]
    PROVE  Pumped(s, active[k]) \in [Class -> Stat]
<1>1. PICK h : h = active[k]
  OBVIOUS
<1>2. Typed /\ h.slot \in Occupied
  BY <1>1 DEF TableInv, TableOK, ActiveOK, Matches, Occupied
<1>3. RecordOf(h) = slots[h.slot].record /\ RecordOf(h) \in RequestRecord
  BY <1>2, RecordsTyped DEF RecordOf
<1>4. RecordOf(h).class \in Class /\ RecordOf(h).size.cpu \in Nat /\ RecordOf(h).size.gpu \in Nat
  BY <1>2, <1>3, SizesTyped DEF RequestRecord
<1>5. CASE Ready(slots[h.slot])
  <2>1. PICK c \in Class : c = RecordOf(h).class
    BY <1>4
  <2>2. Result(RecordOf(h).id) \in {"Succeeded", "Failed", "Cancelled"}
    BY <1>3, <1>5 DEF Ready, IsTerminal
  <2>3. Arrival(s[c], RecordOf(h)) \in Stat
    BY <1>4, <2>2, StatsTyped DEF Arrival
  <2>4. Pumped(s, h) = [s EXCEPT ![c] = Arrival(s[c], RecordOf(h))]
    BY <1>5, <2>1 DEF Pumped
  <2> QED BY <1>1, <2>3, <2>4
<1>6. CASE ~Ready(slots[h.slot])
  BY <1>1, <1>6 DEF Pumped
<1> QED BY <1>5, <1>6

(* The last of some indices.                                                 *)
LEMMA LastOf == ASSUME NEW n \in Nat, NEW T \in SUBSET (1..n), T # {} PROVE Max(T) \in T
<1> DEFINE f == [x \in T |-> n - x]
<1>1. IsFiniteSet(T) /\ \A x \in T : f[x] \in Nat
  <2>1. IsFiniteSet(T)
    BY Counts, FS_Subset
  <2>2. \A x \in T : f[x] \in Nat
    OBVIOUS
  <2> QED BY <2>1, <2>2
<1>2. PICK x \in T : \A y \in T : f[x] <= f[y]
  <2> HIDE DEF f
  <2> QED BY <1>1, LeastOf
<1>3. \A y \in T : x >= y
  BY <1>2
<1> QED BY <1>3 DEF Max

(* The reads that have ended, of some active handles.                        *)
LEMMA OneCame ==
    ASSUME TableInv, NEW T \in SUBSET DOMAIN active, NEW k \in T, NEW a, a = active[k].slot
    PROVE  /\ a \in Occupied /\ RecordOf(active[k]) = slots[a].record
           /\ Ready(slots[a]) => /\ Came(T) = Came(T \ {k}) \cup {a} /\ a \notin Came(T \ {k})
                                 /\ slots[a].record.state = "Loading"
           /\ ~Ready(slots[a]) => Came(T) = Came(T \ {k})
<1>1. Typed /\ ActiveOK
  BY DEF TableInv, TableOK
<1>2. a \in Occupied /\ RecordOf(active[k]) = slots[a].record
  BY <1>1 DEF ActiveOK, Matches, Occupied, RecordOf
<1>3. ASSUME NEW l \in T, l # k PROVE active[l].slot # a
  <2>1. active[l] \in Handle /\ active[k] \in Handle
    BY <1>1 DEF Typed
  <2>2. active[l].slot = a => active[l].generation = active[k].generation
    BY <1>1 DEF ActiveOK, Matches
  <2>3. active[l].slot = a => active[l] = active[k]
    BY <2>1, <2>2 DEF Handle
  <2> QED BY <1>1, <1>3, <2>3 DEF ActiveOK, IsInjective
<1>4. a \notin Came(T \ {k})
  BY <1>3 DEF Came
<1>5. CASE Ready(slots[a])
  <2>1. Came(T) = Came(T \ {k}) \cup {a}
    BY <1>5 DEF Came
  <2>2. slots[a].record.state = "Loading"
    BY <1>5 DEF Ready, Awaited
  <2> QED BY <1>2, <1>4, <1>5, <2>1, <2>2
<1>6. CASE ~Ready(slots[a])
  <2>1. Came(T) = Came(T \ {k})
    BY <1>6 DEF Came
  <2> QED BY <1>2, <1>6, <2>1
<1> QED BY <1>5, <1>6

(* What is counted once some active handles are looked at.                   *)
CountedUpTo(s, T) ==
    /\ s \in [Class -> Stat]
    /\ \A c \in Class : Agrees(s[c], Cpu, Gpu, Loads(c) \ Came(T),
                               Residents(c) \cup Read(Loads(c) \cap Came(T)))

LEMMA OneIsCounted ==
    ASSUME TableInv, NEW T \in SUBSET DOMAIN active, NEW k \in T, NEW s, CountedUpTo(s, T \ {k})
    PROVE  CountedUpTo(Pumped(s, active[k]), T)
<1>1. PICK h, a : h = active[k] /\ a = h.slot
  OBVIOUS
<1>2. PICK t : t = Pumped(s, h)
  OBVIOUS
<1>3. s \in [Class -> Stat] /\ t \in [Class -> Stat]
  BY <1>1, <1>2, PumpedTyped DEF CountedUpTo
<1>4. /\ a \in Occupied /\ RecordOf(h) = slots[a].record
      /\ Ready(slots[a]) => /\ Came(T) = Came(T \ {k}) \cup {a} /\ a \notin Came(T \ {k})
                            /\ slots[a].record.state = "Loading"
      /\ ~Ready(slots[a]) => Came(T) = Came(T \ {k})
  BY <1>1, OneCame
<1>5. Typed /\ SizesAre
  BY SizesKnown DEF TableInv
<1>6. PICK c0 : c0 = slots[a].record.class
  OBVIOUS
<1>7. ASSUME NEW c \in Class
      PROVE  Agrees(t[c], Cpu, Gpu, Loads(c) \ Came(T), Residents(c) \cup Read(Loads(c) \cap Came(T)))
  <2>1. PICK L, R, D : /\ L = Loads(c) \ Came(T \ {k}) /\ R = Residents(c) \cup Read(Loads(c) \cap Came(T \ {k}))
                       /\ D = Came(T \ {k})
    OBVIOUS
  <2>2. Agrees(s[c], Cpu, Gpu, L, R)
    BY <1>7, <2>1 DEF CountedUpTo
  <2>3. CASE ~Ready(slots[a])
    <3>1. t = s
      BY <1>1, <1>2, <2>3 DEF Pumped
    <3> QED BY <1>4, <2>1, <2>2, <2>3, <3>1
  <2>4. CASE Ready(slots[a]) /\ c # c0
    <3>1. t[c] = s[c]
      BY <1>1, <1>2, <1>3, <1>4, <1>6, <2>4 DEF Pumped
    <3>2. a \notin Loads(c)
      BY <1>6, <2>4 DEF Loads
    <3>3. Loads(c) \ Came(T) = L /\ Loads(c) \cap Came(T) = Loads(c) \cap Came(T \ {k})
      BY <1>4, <2>1, <2>4, <3>2
    <3> QED BY <2>1, <2>2, <3>1, <3>3
  <2>5. CASE Ready(slots[a]) /\ c = c0
    <3>1. PICK size : size = slots[a].record.size
      OBVIOUS
    <3>2. t[c] = Arrival(s[c], slots[a].record)
      BY <1>1, <1>2, <1>3, <1>4, <1>6, <1>7, <2>5 DEF Pumped
    <3>3. a \in Loads(c) /\ a \notin Residents(c)
      BY <1>4, <1>6, <2>5 DEF Loads, Residents
    <3>4. size.cpu = Cpu[a] /\ size.gpu = Gpu[a] /\ Sized(Cpu, Gpu, Occupied)
      BY <1>4, <1>5, <3>1 DEF SizesAre
    <3>5. Loads(c) \ Came(T) = L \ {a} /\ a \in L /\ L \in SUBSET Occupied
      BY <1>4, <2>1, <2>5, <3>3 DEF Loads
    <3>6. a \notin R /\ R \in SUBSET Occupied
      BY <1>4, <2>1, <2>5, <3>3 DEF Read, Residents, Loads
    <3>7. Loads(c) \cap Came(T) = (Loads(c) \cap Came(T \ {k})) \cup {a}
      BY <1>4, <2>5, <3>3
    <3>8. CASE Result(slots[a].record.id) = "Succeeded"
      <4>1. Residents(c) \cup Read(Loads(c) \cap Came(T)) = R \cup {a}
        BY <2>1, <3>7, <3>8 DEF Read
      <4>2. t[c] = Completed(s[c], size)
        BY <3>1, <3>2, <3>8 DEF Arrival
      <4>3. Agrees(Completed(s[c], size), Cpu, Gpu, L \ {a}, R \cup {a})
        BY <2>2, <3>4, <3>5, <3>6, CompletedAgrees
      <4> QED BY <3>5, <4>1, <4>2, <4>3
    <3>9. CASE Result(slots[a].record.id) # "Succeeded"
      <4>1. Residents(c) \cup Read(Loads(c) \cap Came(T)) = R
        BY <2>1, <3>7, <3>9 DEF Read
      <4>2. t[c] = Failed(s[c], size) \/ t[c] = Cancelled(s[c], size)
        <5>1. Result(slots[a].record.id) \in {"Failed", "Cancelled"}
          BY <2>5, <3>9 DEF Ready, IsTerminal
        <5> QED BY <3>1, <3>2, <5>1 DEF Arrival
      <4>3. Agrees(Failed(s[c], size), Cpu, Gpu, L \ {a}, R) /\ Agrees(Cancelled(s[c], size), Cpu, Gpu, L \ {a}, R)
        BY <2>2, <3>4, <3>5, <3>6, EndedAgrees
      <4> QED BY <3>5, <4>1, <4>2, <4>3
    <3> QED BY <3>8, <3>9
  <2> QED BY <2>3, <2>4, <2>5
<1> QED BY <1>1, <1>2, <1>3, <1>7 DEF CountedUpTo

LEMMA PumpCounts == ASSUME TableInv, StatisticsInv, Pump PROVE CountedUpTo(statistics', DOMAIN active)
<1>1. PICK n \in Nat : DOMAIN active = 1..n
  BY DEF TableInv, Typed
<1> DEFINE D == DOMAIN active
           V == [Class -> Stat]
           op == [k \in D |-> [s \in V |-> Pumped(s, active[k])]]
           last == [T \in SUBSET D |-> Max(T)]
<1>2. IsFiniteSet(D) /\ \A T \in SUBSET D : T # {} => last[T] \in T /\ last[T] = Max(T)
  BY <1>1, Counts, LastOf
<1>3. op \in [D -> [V -> V]] /\ statistics \in V
  BY PumpedTyped DEF StatisticsInv
<1>4. PICK iter \in [SUBSET D -> V] : Combines(iter, statistics, op, last, D)
  <2> HIDE DEF op, last, V, D
  <2> QED BY <1>2, <1>3, CombinesExist
<1> DEFINE Is(it) == it = [T \in SUBSET D |-> IF T = {} THEN statistics ELSE Pumped(it[T \ {Max(T)}], active[Max(T)])]
<1>5. Is(iter)
  <2>1. ASSUME NEW T \in SUBSET D, T # {} PROVE iter[T] = Pumped(iter[T \ {Max(T)}], active[Max(T)])
    <3>1. PICK k : k = last[T]
      OBVIOUS
    <3>2. k \in D /\ k = Max(T)
      BY <1>2, <2>1, <3>1
    <3>3. iter[T] = op[k][iter[T \ {k}]] /\ iter[T \ {k}] \in V
      BY <1>4, <2>1, <3>1 DEF Combines
    <3>4. iter[T] = Pumped(iter[T \ {k}], active[k])
      BY <3>2, <3>3
    <3> QED BY <3>2, <3>4
  <2>2. iter[{}] = statistics
    BY <1>4 DEF Combines
  <2> QED BY <2>1, <2>2
<1>6. PICK it : it = CHOOSE i : Is(i)
  OBVIOUS
<1>7. Is(it)
  <2>1. \E i : Is(i)
    BY <1>5
  <2> HIDE DEF Is
  <2> QED BY <1>6, <2>1
<1>8. statistics' = it[D]
  BY <1>6 DEF Pump, FoldLeft, MapThenFoldSet, Pumped
<1> DEFINE Bad == {T \in SUBSET D : ~CountedUpTo(it[T], T)}
<1>9. ASSUME Bad # {} PROVE FALSE
  <2>1. PICK T \in Bad : \A t \in Bad : t \subseteq T => t = T
    <3>1. Bad \in SUBSET SUBSET D
      OBVIOUS
    <3> HIDE DEF Bad
    <3> QED BY <1>2, <1>9, <3>1, SmallestSet
  <2>2. T \in SUBSET D /\ ~CountedUpTo(it[T], T)
    BY <2>1
  <2>3. PICK k : k = Max(T)
    OBVIOUS
  <2>4. it[T] = IF T = {} THEN statistics ELSE Pumped(it[T \ {k}], active[k])
    BY <1>7, <2>2, <2>3
  <2>5. T # {}
    <3>1. ASSUME T = {} PROVE CountedUpTo(statistics, T)
      <4>1. Came(T) = {}
        BY <3>1 DEF Came
      <4>2. \A c : Loads(c) \ Came(T) = Loads(c) /\ Residents(c) \cup Read(Loads(c) \cap Came(T)) = Residents(c)
        BY <4>1 DEF Read
      <4> QED BY <4>2 DEF CountedUpTo, StatisticsInv, Agree
    <3> QED BY <2>2, <2>4, <3>1
  <2>6. k \in T
    BY <1>2, <2>2, <2>3, <2>5
  <2>7. CountedUpTo(it[T \ {k}], T \ {k})
    <3>1. T \ {k} \in SUBSET D /\ T \ {k} # T
      BY <2>2, <2>6
    <3> QED BY <2>1, <3>1
  <2>8. CountedUpTo(Pumped(it[T \ {k}], active[k]), T)
    BY <2>2, <2>6, <2>7, OneIsCounted
  <2> QED BY <2>2, <2>4, <2>5, <2>8
<1>10. D \notin Bad
  BY <1>9
<1> QED BY <1>8, <1>10

LEMMA PumpAgrees == ASSUME TableInv, StatisticsInv, Pump PROVE StatisticsInv'
<1>1. slots' = [i \in DOMAIN slots |->
                   IF Ready(slots[i]) THEN [slots[i] EXCEPT !.record = Arrived(@)] ELSE slots[i]]
  BY DEF Pump
<1>2. Typed /\ ActiveOK
  BY DEF TableInv, TableOK
<1>3. Came(DOMAIN active) = {i \in Occupied : Ready(slots[i])}
  <2>1. \A k \in DOMAIN active : active[k].slot \in Occupied
    BY <1>2 DEF ActiveOK, Matches, Occupied
  <2>2. \A i \in Occupied : \E k \in DOMAIN active : active[k].slot = i
    BY <1>2 DEF ActiveOK
  <2> QED BY <2>1, <2>2 DEF Came
<1>4. ASSUME NEW i \in Occupied
      PROVE  /\ slots'[i].record # None
             /\ slots'[i].record.class = slots[i].record.class
             /\ slots'[i].record.size = slots[i].record.size
             /\ ~Ready(slots[i]) => slots'[i].record.state = slots[i].record.state
             /\ Ready(slots[i]) => /\ slots[i].record.state = "Loading"
                                   /\ slots'[i].record.state = IF Result(slots[i].record.id) = "Succeeded" THEN "Resident"
                                                               ELSE Result(slots[i].record.id)
                                   /\ Result(slots[i].record.id) \in {"Succeeded", "Failed", "Cancelled"}
  <2>1. i \in DOMAIN slots /\ slots[i] \in Slot /\ slots[i].record \in RequestRecord /\ slots[i].record # None
    BY <1>2, RecordsTyped DEF Occupied
  <2>2. CASE ~Ready(slots[i])
    <3>1. slots'[i] = slots[i]
      BY <1>1, <2>1, <2>2
    <3> QED BY <2>1, <2>2, <3>1
  <2>3. CASE Ready(slots[i])
    <3>1. PICK state : state = IF Result(slots[i].record.id) = "Succeeded" THEN "Resident"
                                ELSE Result(slots[i].record.id)
      OBVIOUS
    <3>2. Result(slots[i].record.id) \in {"Succeeded", "Failed", "Cancelled"} /\ slots[i].record.state = "Loading"
      BY <2>3 DEF Ready, Awaited, IsTerminal
    <3>3. PICK r : r = [slots[i].record EXCEPT !.state = state]
      OBVIOUS
    <3>4. r \in RequestRecord /\ r.class = slots[i].record.class /\ r.size = slots[i].record.size /\ r.state = state
      BY <2>1, <3>1, <3>2, <3>3 DEF RequestRecord, ResidencyState
    <3>5. slots'[i].record = r
      BY <1>1, <2>1, <2>3, <3>1, <3>3 DEF Arrived, Slot
    <3> QED BY <2>3, <3>1, <3>2, <3>4, <3>5, NoneIsNoRecord
  <2> QED BY <2>2, <2>3
<1>5. Occupied' = Occupied
  <2>1. \A i \in DOMAIN slots : i \notin Occupied => slots'[i] = slots[i] /\ slots[i].record = None
    BY <1>1 DEF Occupied, Ready, Awaited
  <2>2. DOMAIN slots' = DOMAIN slots
    <3>1. PICK f : f = slots'
      OBVIOUS
    <3> QED BY <1>1, <3>1
  <2> QED BY <1>4, <2>1, <2>2 DEF Occupied
<1>6. PICK C : C = Came(DOMAIN active)
  OBVIOUS
<1>7. \A c : Loads(c)' = Loads(c) \ C /\ Residents(c)' = Residents(c) \cup Read(Loads(c) \cap C)
  BY <1>3, <1>4, <1>5, <1>6 DEF Loads, Residents, Read
<1>8. CountedUpTo(statistics', DOMAIN active)
  BY PumpCounts
<1>9. ASSUME NEW c \in Class PROVE Agrees(statistics'[c], Cpu, Gpu, Loads(c)', Residents(c)')
  BY <1>6, <1>7, <1>8 DEF CountedUpTo
<1>10. statistics' = [c \in Class |-> statistics'[c]]
  <2>1. PICK f : f = statistics'
    OBVIOUS
  <2>2. f \in [Class -> Stat]
    BY <1>8, <2>1 DEF CountedUpTo
  <2> QED BY <2>1, <2>2
<1>11. \A c : Loads(c)' \cup Residents(c)' \subseteq Occupied /\ SameSizes(Loads(c)' \cup Residents(c)')
  <2>1. \A c : Loads(c)' \cup Residents(c)' \subseteq Occupied
    BY <1>5 DEF Loads, Residents
  <2> QED BY <1>4, <1>5, <2>1 DEF SameSizes
<1> QED BY <1>2, <1>9, <1>10, <1>11, StatisticsStep DEF StepAgrees, SameSizes

-----------------------------------------------------------------------------

LEMMA StatisticsStart == ASSUME Init PROVE StatisticsInv
<1>1. slots = <<>> /\ statistics = [c \in Class |-> Zero]
  BY DEF Init
<1>2. \A c : Loads(c) = {} /\ Residents(c) = {}
  BY <1>1 DEF Loads, Residents, Occupied
<1>3. SumFunctionOnSet(Cpu, {}) = 0 /\ SumFunctionOnSet(Gpu, {}) = 0 /\ Cardinality({}) = 0
  BY SumEmpty, FS_EmptySet
<1>4. Zero \in Stat
  BY DEF Zero, Stat
<1>5. Agrees(Zero, Cpu, Gpu, {}, {})
  BY <1>3, <1>4 DEF Agrees, Zero
<1> QED BY <1>1, <1>2, <1>4, <1>5 DEF StatisticsInv, Agree

LEMMA StatisticsKept == ASSUME TableInv, TableInv', StatisticsInv, [Next]_vars PROVE StatisticsInv'
<1>1. ASSUME NEW class \in Class, NEW size \in Size, NEW pinned \in BOOLEAN, Request(class, size, pinned)
      PROVE  StatisticsInv'
  BY <1>1, RequestAgrees
<1>2. ASSUME NEW h \in ToSet(issued), Cancel(h) \/ Release(h) \/ Touch(h) PROVE StatisticsInv'
  BY <1>2, CancelAgrees, ReleaseAgrees, TouchAgrees
<1>3. ASSUME NEW h \in ToSet(issued), NEW pinned \in BOOLEAN, SetPinned(h, pinned) PROVE StatisticsInv'
  BY <1>3, PinAgrees
<1>4. CASE AssetWorkers \/ CloseAssets \/ OwnerCloses \/ UNCHANGED vars
  <2>1. slots' = slots /\ statistics' = statistics
    BY <1>4 DEF AssetWorkers, Worker, StartRead, FinishRead, LeaveQueue, CloseAssets, OwnerCloses, AssetsClosed,
        AbortRead, DropJob, vars, table
  <2>2. Occupied' = Occupied
    BY <2>1 DEF Occupied
  <2> QED BY <2>1, <2>2, QuietStep DEF TableInv
<1> QED BY <1>1, <1>2, <1>3, <1>4, PumpAgrees, EvictionAgrees, CloseAgrees DEF Next

LEMMA StatisticsInvariant == Spec => []StatisticsInv
<1>1. TableInv /\ TableInv' /\ StatisticsInv /\ [Next]_vars => StatisticsInv'
  BY StatisticsKept
<1> QED BY <1>1, StatisticsStart, TableInvariant, PTL DEF Spec

(* Whatever the order of calls, reads and frames, the bytes and the counts   *)
(* of a class are those of its requests.                                     *)
THEOREM StatisticsStayRight == Spec => []StatisticsAgree
  BY StatisticsInvariant, AgreementMeans, PTL

-----------------------------------------------------------------------------
(* Steps and states. *)

(* What a step makes of a request: it is gone, or stays as it is, or its     *)
(* load ends, or it is evicted, which only the owner does.                   *)
Goes(i) ==
    \/ slots'[i].record = None
    \/ /\ slots'[i].record # None /\ slots'[i].generation = slots[i].generation
       /\ \/ slots'[i].record.state = slots[i].record.state
          \/ slots[i].record.state = "Loading" /\ slots'[i].record.state \in {"Resident", "Failed", "Cancelled"}
          \/ slots[i].record.state = "Resident" /\ slots'[i].record.state = "Evicted" /\ EvictToBudgets

LEMMA OneGoes ==
    ASSUME Typed, NEW s \in Occupied, NEW r \in RequestRecord, slots' = [slots EXCEPT ![s].record = r],
           \/ r.state = slots[s].record.state
           \/ slots[s].record.state = "Loading" /\ r.state = "Cancelled"
    PROVE  \A i \in Occupied : Goes(i)
<1>1. \A i \in Occupied : i \in DOMAIN slots /\ slots[i] \in Slot /\ slots[i].record # None
  BY RecordsTyped DEF Occupied
<1>2. slots'[s].record = r /\ slots'[s].generation = slots[s].generation
  BY <1>1 DEF Slot
<1>3. \A i \in Occupied : i # s => slots'[i] = slots[i]
  BY <1>1
<1> QED BY <1>1, <1>2, <1>3, NoneIsNoRecord DEF Goes

LEMMA StatesGo ==
    ASSUME TableInv, [Next]_vars
    PROVE  /\ \A i \in Occupied : Goes(i)
           /\ pumping /\ ~pumping' => EvictToBudgets
<1>1. Typed /\ TableOK
  BY DEF TableInv
<1>2. \A i \in Occupied : i \in DOMAIN slots /\ slots[i] \in Slot /\ slots[i].record \in RequestRecord /\ slots[i].record # None
  BY <1>1, RecordsTyped DEF Occupied
<1>3. ASSUME NEW class \in Class, NEW size \in Size, NEW pinned \in BOOLEAN, Request(class, size, pinned)
      PROVE  (\A i \in Occupied : Goes(i)) /\ pumping' = pumping
  <2>1. PICK record : /\ record = [id |-> Len(issued) + 1, class |-> class, size |-> size, pinned |-> pinned,
                                   state |-> "Loading", touch |-> sequence + 1]
    OBVIOUS
  <2>2. Emplace(record) /\ InUse < MaximumRequests /\ pumping' = pumping
    BY <1>3, <2>1 DEF Request
  <2>3. record \in RequestRecord
    <3>1. Len(issued) + 1 \in Nat /\ sequence + 1 \in Nat
      BY <1>1 DEF Typed
    <3> QED BY <2>1, <3>1 DEF RequestRecord, ResidencyState
  <2>4. Placed(NewHandle, record)
    BY <1>1, <2>2, <2>3, Appends, TakesFree
  <2>5. \A i \in Occupied : slots'[i] = slots[i]
    BY <2>4 DEF Placed, Occupied
  <2> QED BY <1>2, <2>2, <2>5 DEF Goes
<1>4. ASSUME NEW h \in ToSet(issued), Cancel(h) PROVE (\A i \in Occupied : Goes(i)) /\ pumping' = pumping
  <2>1. PICK s : s = h.slot
    OBVIOUS
  <2>2. /\ s \in Occupied /\ slots[s].record.state = "Loading" /\ slots' = [slots EXCEPT ![s].record.state = "Cancelled"]
        /\ pumping' = pumping
    BY <1>4, <2>1 DEF Cancel, StateOf, Matches, RecordOf, Occupied
  <2>3. PICK r : r = [slots[s].record EXCEPT !.state = "Cancelled"]
    OBVIOUS
  <2>4. r \in RequestRecord /\ r.state = "Cancelled"
    BY <1>2, <2>2, <2>3 DEF RequestRecord, ResidencyState
  <2>5. slots' = [slots EXCEPT ![s].record = r]
    BY <1>2, <2>2, <2>3
  <2> QED BY <1>1, <2>2, <2>4, <2>5, OneGoes
<1>5. ASSUME NEW h \in ToSet(issued), Release(h) PROVE (\A i \in Occupied : Goes(i)) /\ pumping' = pumping
  <2>1. PICK s : s = h.slot
    OBVIOUS
  <2>2. s \in Occupied /\ slots' = [slots EXCEPT ![s] = Erased(@)] /\ pumping' = pumping
    BY <1>5, <2>1 DEF Release, Matches, Occupied
  <2>3. \A i \in Occupied : IF i = s THEN slots'[i].record = None ELSE slots'[i] = slots[i]
    BY <1>2, <2>2 DEF Erased
  <2> QED BY <1>2, <2>2, <2>3 DEF Goes
<1>6. ASSUME NEW h \in ToSet(issued), Touch(h) PROVE (\A i \in Occupied : Goes(i)) /\ pumping' = pumping
  <2>1. PICK s : s = h.slot
    OBVIOUS
  <2>2. s \in Occupied /\ slots' = [slots EXCEPT ![s].record.touch = sequence + 1] /\ pumping' = pumping
    BY <1>6, <2>1 DEF Touch, Matches, Occupied
  <2>3. PICK r : r = [slots[s].record EXCEPT !.touch = sequence + 1]
    OBVIOUS
  <2>4. r \in RequestRecord /\ r.state = slots[s].record.state
    <3>1. sequence + 1 \in Nat
      BY <1>1 DEF Typed
    <3> QED BY <1>2, <2>2, <2>3, <3>1 DEF RequestRecord
  <2>5. slots' = [slots EXCEPT ![s].record = r]
    BY <1>2, <2>2, <2>3
  <2> QED BY <1>1, <2>2, <2>4, <2>5, OneGoes
<1>7. ASSUME NEW h \in ToSet(issued), NEW pinned \in BOOLEAN, SetPinned(h, pinned)
      PROVE  (\A i \in Occupied : Goes(i)) /\ pumping' = pumping
  <2>1. PICK s : s = h.slot
    OBVIOUS
  <2>2. s \in Occupied /\ slots' = [slots EXCEPT ![s].record.pinned = pinned] /\ pumping' = pumping
    BY <1>7, <2>1 DEF SetPinned, Matches, Occupied
  <2>3. PICK r : r = [slots[s].record EXCEPT !.pinned = pinned]
    OBVIOUS
  <2>4. r \in RequestRecord /\ r.state = slots[s].record.state
    BY <1>2, <2>2, <2>3 DEF RequestRecord
  <2>5. slots' = [slots EXCEPT ![s].record = r]
    BY <1>2, <2>2, <2>3
  <2> QED BY <1>1, <2>2, <2>4, <2>5, OneGoes
<1>8. CASE Pump
  <2>1. /\ slots' = [i \in DOMAIN slots |->
                        IF Ready(slots[i]) THEN [slots[i] EXCEPT !.record = Arrived(@)] ELSE slots[i]]
        /\ pumping' = TRUE
    BY <1>8 DEF Pump
  <2>2. ASSUME NEW i \in Occupied PROVE Goes(i)
    <3>1. CASE ~Ready(slots[i])
      <4>1. slots'[i] = slots[i]
        BY <1>2, <2>1, <3>1
      <4> QED BY <1>2, <4>1 DEF Goes
    <3>2. CASE Ready(slots[i])
      <4>1. PICK state : state = IF Result(slots[i].record.id) = "Succeeded" THEN "Resident"
                                 ELSE Result(slots[i].record.id)
        OBVIOUS
      <4>2. state \in {"Resident", "Failed", "Cancelled"} /\ slots[i].record.state = "Loading"
        BY <3>2, <4>1 DEF Ready, Awaited, IsTerminal
      <4>3. PICK r : r = [slots[i].record EXCEPT !.state = state]
        OBVIOUS
      <4>4. r \in RequestRecord /\ r.state = state
        BY <1>2, <4>2, <4>3 DEF RequestRecord, ResidencyState
      <4>5. slots'[i].record = r /\ slots'[i].generation = slots[i].generation
        BY <1>2, <2>1, <3>2, <4>1, <4>3 DEF Arrived, Slot
      <4> QED BY <4>2, <4>4, <4>5, NoneIsNoRecord DEF Goes
    <3> QED BY <3>1, <3>2
  <2> QED BY <2>1, <2>2
<1>9. CASE EvictToBudgets
  <2>1. ASSUME slots' = slots PROVE \A i \in Occupied : Goes(i)
    BY <1>2, <2>1 DEF Goes
  <2>2. ASSUME open, slots' = [i \in DOMAIN slots |->
                          IF \E c \in Class : i \in Victims(c)
                          THEN [slots[i] EXCEPT !.record.state = "Evicted"] ELSE slots[i]],
               NEW i \in Occupied
        PROVE  Goes(i)
    <3>1. CASE ~\E c \in Class : i \in Victims(c)
      <4>1. slots'[i] = slots[i]
        BY <1>2, <2>2, <3>1
      <4> QED BY <1>2, <4>1 DEF Goes
    <3>2. CASE \E c \in Class : i \in Victims(c)
      <4>1. slots[i].record.state = "Resident"
        BY <3>2, VictimsAre DEF Residents
      <4>2. PICK r : r = [slots[i].record EXCEPT !.state = "Evicted"]
        OBVIOUS
      <4>3. r \in RequestRecord /\ r.state = "Evicted"
        BY <1>2, <4>2 DEF RequestRecord, ResidencyState
      <4>4. slots'[i].record = r /\ slots'[i].generation = slots[i].generation
        BY <1>2, <2>2, <3>2, <4>2 DEF Slot
      <4> QED BY <1>9, <4>1, <4>3, <4>4, NoneIsNoRecord DEF Goes
    <3> QED BY <3>1, <3>2
  <2> QED BY <1>9, <2>1, <2>2 DEF EvictToBudgets
<1>10. CASE Close
  <2>1. /\ slots' = [i \in DOMAIN slots |-> IF slots[i].record # None THEN Erased(slots[i]) ELSE slots[i]]
        /\ pumping' = pumping
    BY <1>10 DEF Close
  <2>2. \A i \in Occupied : slots'[i].record = None
    BY <1>2, <2>1 DEF Erased
  <2> QED BY <2>1, <2>2 DEF Goes
<1>11. CASE AssetWorkers \/ CloseAssets \/ OwnerCloses \/ UNCHANGED vars
  <2>1. slots' = slots /\ pumping' = pumping
    BY <1>11 DEF AssetWorkers, Worker, StartRead, FinishRead, LeaveQueue, CloseAssets, OwnerCloses, AssetsClosed,
        AbortRead, DropJob, vars, table
  <2> QED BY <1>2, <2>1 DEF Goes
<1> QED BY <1>3, <1>4, <1>5, <1>6, <1>7, <1>8, <1>9, <1>10, <1>11 DEF Next

(* Handles stay with their numbers.                                          *)
LEMMA IssuedStay == ASSUME TableInv, [Next]_vars PROVE \A id \in DOMAIN issued : id \in DOMAIN issued' /\ issued'[id] = issued[id]
<1>1. ASSUME NEW class \in Class, NEW size \in Size, NEW pinned \in BOOLEAN, Request(class, size, pinned)
      PROVE  \A id \in DOMAIN issued : id \in DOMAIN issued' /\ issued'[id] = issued[id]
  <2>1. PICK h : issued' = Append(issued, h)
    BY <1>1 DEF Request
  <2>2. issued \in Seq(Handle) /\ DOMAIN issued = 1..Len(issued) /\ Len(issued) \in Nat
    BY DEF TableInv, Typed
  <2> QED BY <2>1, <2>2
<1>3. CASE ~\E class \in Class, size \in Size, pinned \in BOOLEAN : Request(class, size, pinned)
  <2>1. issued' = issued
    BY <1>3 DEF Next, Cancel, Release, Touch, SetPinned, Pump, EvictToBudgets, Close, AssetWorkers, Worker, StartRead,
        FinishRead, LeaveQueue, CloseAssets, OwnerCloses, AssetsClosed, AbortRead, DropJob, vars
  <2> QED BY <2>1
<1> QED BY <1>1, <1>3

(* A request that was cancelled, has failed or was evicted does not come     *)
(* back, whenever its read ends.                                             *)
THEOREM EndedStayEnded == Spec => [][EndedStays]_vars
<1>1. ASSUME TableInv, [Next]_vars PROVE EndedStays
  <2> SUFFICES ASSUME NEW id \in DOMAIN issued, StateOf(issued[id]) \in {"Evicted", "Failed", "Cancelled"}
               PROVE  StateOf(issued[id])' \in {StateOf(issued[id]), "Stale"}
    BY DEF EndedStays
  <2>1. PICK h, i : h = issued[id] /\ i = h.slot
    OBVIOUS
  <2>2. Matches(h) /\ StateOf(h) = slots[i].record.state /\ i \in Occupied
    BY <2>1 DEF StateOf, RecordOf, Matches, Occupied
  <2>3. issued'[id] = h
    BY <1>1, <2>1, IssuedStay
  <2>4. Goes(i)
    BY <1>1, <2>2, StatesGo
  <2>5. StateOf(issued[id])' = IF i \in DOMAIN slots' /\ slots'[i].generation = h.generation /\ slots'[i].record # None
                               THEN slots'[i].record.state ELSE "Stale"
    BY <2>1, <2>3 DEF StateOf, Matches, RecordOf
  <2> QED BY <2>1, <2>2, <2>4, <2>5 DEF Goes
<1> QED BY <1>1, TableInvariant, PTL DEF Spec

-----------------------------------------------------------------------------
(* Evicting no more than one must. *)

LEMMA BudgetsAreMonotone ==
    ASSUME NEW c \in Class, NEW percent \in Nat, NEW cpu \in Nat, NEW gpu \in Nat, NEW cpu2 \in Nat, NEW gpu2 \in Nat,
           cpu <= cpu2, gpu <= gpu2, WithinBudget(c, cpu2, gpu2, percent)
    PROVE  WithinBudget(c, cpu, gpu, percent)
<1>1. Budget[c].cpu \in Nat /\ Budget[c].gpu \in Nat
  <2>1. Budget[c] \in [cpu : Nat, gpu : Nat]
    BY StreamingAssumption
  <2> QED BY <2>1
<1>2. \A n \in Nat : Scaled(n, percent) \in Int
  <2>1. ASSUME NEW n \in Nat PROVE Scaled(n, percent) \in Int
    <3>1. PICK m \in Int : m = n * percent
      OBVIOUS
    <3>2. m \div 100 \in Int
      OBVIOUS
    <3> QED BY <3>1, <3>2 DEF Scaled
  <2> QED BY <2>1
<1>3. \A n \in Nat : \A a, b \in Nat : a <= b /\ Within(n, b, percent) => Within(n, a, percent)
  BY <1>2 DEF Within
<1> QED BY <1>1, <1>3 DEF WithinBudget

(* What is left once some are gone, in bytes.                                *)
LEMMA LeftIs ==
    ASSUME Typed, StatisticsInv, NEW c \in Class, NEW gone \in SUBSET Residents(c)
    PROVE  /\ Left(c, gone).cpu = SumFunctionOnSet(Cpu, Residents(c) \ gone)
           /\ Left(c, gone).gpu = SumFunctionOnSet(Gpu, Residents(c) \ gone)
           /\ SumFunctionOnSet(Cpu, Residents(c) \ gone) \in Nat
           /\ SumFunctionOnSet(Gpu, Residents(c) \ gone) \in Nat
<1>1. Agrees(Left(c, gone), Cpu, Gpu, Loads(c), Residents(c) \ gone)
  BY LeftAgrees
<1>2. Sized(Cpu, Gpu, Occupied) /\ Residents(c) \ gone \in SUBSET Occupied
  BY SizesKnown DEF SizesAre, Residents
<1>3. SumFunctionOnSet(Cpu, Residents(c) \ gone) \in Nat /\ SumFunctionOnSet(Gpu, Residents(c) \ gone) \in Nat
  BY <1>2, Measured
<1> QED BY <1>1, <1>3 DEF Agrees

(* The more are gone, the less is left.                                      *)
LEMMA LeftShrinks ==
    ASSUME Typed, StatisticsInv, NEW c \in Class, NEW gone \in SUBSET Residents(c), NEW more \in SUBSET Residents(c),
           gone \subseteq more, WithinBudget(c, Left(c, gone).cpu, Left(c, gone).gpu, EvictionTarget)
    PROVE  WithinBudget(c, Left(c, more).cpu, Left(c, more).gpu, EvictionTarget)
<1>1. PICK S, T : S = Residents(c) \ gone /\ T = Residents(c) \ more
  OBVIOUS
<1>2. T \in SUBSET S /\ S \in SUBSET Occupied
  BY <1>1 DEF Residents
<1>3. IsFiniteSet(S) /\ \A x \in S : Cpu[x] \in Nat /\ Gpu[x] \in Nat
  BY <1>2, SizesKnown, FS_Subset DEF SizesAre, Sized
<1>4. SumFunctionOnSet(Cpu, T) <= SumFunctionOnSet(Cpu, S) /\ SumFunctionOnSet(Gpu, T) <= SumFunctionOnSet(Gpu, S)
  BY <1>2, <1>3, SumGrows
<1>5. /\ Left(c, gone).cpu = SumFunctionOnSet(Cpu, S) /\ Left(c, gone).gpu = SumFunctionOnSet(Gpu, S)
      /\ SumFunctionOnSet(Cpu, S) \in Nat /\ SumFunctionOnSet(Gpu, S) \in Nat
  BY <1>1, LeftIs
<1>6. /\ Left(c, more).cpu = SumFunctionOnSet(Cpu, T) /\ Left(c, more).gpu = SumFunctionOnSet(Gpu, T)
      /\ SumFunctionOnSet(Cpu, T) \in Nat /\ SumFunctionOnSet(Gpu, T) \in Nat
  BY <1>1, LeftIs
<1>7. EvictionTarget \in Nat
  BY StreamingAssumption
<1> QED BY <1>4, <1>5, <1>6, <1>7, BudgetsAreMonotone

OlderCandidates(c, i) == {j \in Candidates(c) : Earlier(j, i)}

LEMMA VictimsMeans ==
    ASSUME NEW c
    PROVE  /\ Over(c, EvictionThreshold) =>
                  Victims(c) = {i \in Candidates(c) :
                      ~WithinBudget(c, Left(c, OlderCandidates(c, i)).cpu, Left(c, OlderCandidates(c, i)).gpu, EvictionTarget)}
           /\ ~Over(c, EvictionThreshold) => Victims(c) = {}
  BY DEF Victims, Over, OlderCandidates

(* The victims are the first of the candidates.                              *)
LEMMA VictimsAreFirst ==
    ASSUME TableInv, StatisticsInv, NEW c \in Class, NEW i \in Victims(c), NEW j \in Candidates(c), Earlier(j, i)
    PROVE  j \in Victims(c)
<1>1. Typed /\ Over(c, EvictionThreshold) /\ i \in Candidates(c)
  BY VictimsMeans DEF TableInv
<1>2. \A k \in Candidates(c) : k \in Occupied /\ slots[k].record.touch \in Nat
  BY <1>1, VictimsAre, RecordsTyped DEF Residents, RequestRecord
<1>3. OlderCandidates(c, j) \subseteq OlderCandidates(c, i)
  BY <1>1, <1>2 DEF OlderCandidates, Earlier
<1>4. OlderCandidates(c, i) \in SUBSET Residents(c) /\ OlderCandidates(c, j) \in SUBSET Residents(c)
  BY VictimsAre DEF OlderCandidates
<1>5. ~WithinBudget(c, Left(c, OlderCandidates(c, i)).cpu, Left(c, OlderCandidates(c, i)).gpu, EvictionTarget)
  BY <1>1, VictimsMeans
<1>6. ~WithinBudget(c, Left(c, OlderCandidates(c, j)).cpu, Left(c, OlderCandidates(c, j)).gpu, EvictionTarget)
  BY <1>1, <1>3, <1>4, <1>5, LeftShrinks
<1> QED BY <1>1, <1>6, VictimsMeans

LEMMA EvictionIsLeast ==
    ASSUME TableInv, StatisticsInv, EvictToBudgets, open, NEW c \in Class
    PROVE  LosesLeastRecent(c)
<1>1. Typed /\ TouchesOK
  BY DEF TableInv
<1>2. /\ Occupied' = Occupied /\ statistics'[c] = Left(c, Victims(c))
      /\ \A i \in Occupied : slots'[i].record.state = IF \E d \in Class : i \in Victims(d) THEN "Evicted"
                                                                                       ELSE slots[i].record.state
  BY <1>1, EvictionTakes
<1>3. /\ Victims(c) \subseteq Candidates(c) /\ Candidates(c) \subseteq Residents(c)
      /\ \A d : \A i \in Victims(d) : i \in Residents(d)
  BY VictimsAre
<1>4. Lost(c) = Victims(c)
  <2>1. \A i \in Residents(c) : i \in Occupied /\ slots[i].record.state = "Resident" /\ slots[i].record.class = c
    BY DEF Residents
  <2>2. \A i \in Residents(c) : (\E d \in Class : i \in Victims(d)) <=> i \in Victims(c)
    BY <1>3 DEF Residents
  <2>3. \A i \in Residents(c) : slots'[i].record # None
    BY <1>2, <2>1 DEF Occupied
  <2>4. \A i \in Residents(c) : slots'[i].record.state = "Evicted" <=> i \in Victims(c)
    BY <1>2, <2>1, <2>2
  <2> QED BY <1>3, <2>3, <2>4 DEF Lost
<1>5. \A i, j \in Candidates(c) : i # j => Earlier(i, j) \/ Earlier(j, i)
  <2>1. \A i \in Candidates(c) : i \in Occupied /\ slots[i].record.touch \in Nat
    BY <1>1, <1>3, RecordsTyped DEF Residents, RequestRecord
  <2> QED BY <1>1, <2>1 DEF TouchesOK, Earlier
<1>6. \A i \in Candidates(c) : ~Earlier(i, i) /\ ~slots[i].record.pinned
  <2>1. \A i \in Candidates(c) : slots[i].record.touch \in Nat
    BY <1>1, <1>3, RecordsTyped DEF Residents, RequestRecord
  <2> QED BY <2>1, VictimsAre DEF Earlier
<1>7. \A i \in Victims(c) : \A j \in Candidates(c) : Earlier(j, i) => j \in Victims(c)
  BY VictimsAreFirst
<1>8. \A j \in Residents(c) : slots[j].record.pinned \/ j \in Candidates(c)
  <2>1. \A j \in Residents(c) : slots[j].record.pinned \in BOOLEAN
    BY <1>1, RecordsTyped DEF Residents, RequestRecord
  <2> QED BY <2>1, VictimsAre
<1>9. Lost(c) # {} => Over(c, EvictionThreshold)
  BY <1>4, VictimsMeans
<1>10. ASSUME NEW i \in Lost(c)
       PROVE  /\ ~slots[i].record.pinned
              /\ \A j \in Residents(c) \ Lost(c) : slots[j].record.pinned \/ OlderThan(i, j)
  <2>1. i \in Victims(c) /\ i \in Candidates(c)
    BY <1>3, <1>4
  <2>2. ASSUME NEW j \in Residents(c) \ Lost(c), ~slots[j].record.pinned PROVE OlderThan(i, j)
    <3>1. j \in Candidates(c) /\ j \notin Victims(c)
      BY <1>4, <1>8, <2>2
    <3>2. Earlier(i, j)
      BY <1>5, <1>7, <2>1, <3>1
    <3> QED BY <3>2 DEF Earlier, OlderThan
  <2> QED BY <1>6, <2>1, <2>2
<1>11. ASSUME NEW i \in Lost(c), \A j \in Lost(c) : j = i \/ OlderThan(j, i)
       PROVE  ~WithinBudget(c, statistics'[c].cpu + slots[i].record.size.cpu,
                               statistics'[c].gpu + slots[i].record.size.gpu, EvictionTarget)
  <2>1. i \in Victims(c) /\ i \in Candidates(c) /\ i \in Residents(c)
    BY <1>3, <1>4
  <2>2. OlderCandidates(c, i) = Victims(c) \ {i}
    <3>1. \A j \in Victims(c) \ {i} : Earlier(j, i) /\ j \in Candidates(c)
      BY <1>3, <1>4, <1>11 DEF Earlier, OlderThan
    <3>2. \A j \in OlderCandidates(c, i) : j \in Victims(c) /\ j # i
      BY <1>6, <1>7, <2>1 DEF OlderCandidates
    <3> QED BY <3>1, <3>2 DEF OlderCandidates
  <2>3. PICK gone, S : gone = Victims(c) \ {i} /\ S = Residents(c) \ gone
    OBVIOUS
  <2>4. gone \in SUBSET Residents(c) /\ i \in S /\ S \ {i} = Residents(c) \ Victims(c) /\ S \in SUBSET Occupied
    BY <1>3, <2>1, <2>3 DEF Residents
  <2>5. PICK R : R = Residents(c) \ Victims(c)
    OBVIOUS
  <2>6. S \ {i} = R
    BY <2>4, <2>5
  <2>7. Sized(Cpu, Gpu, Occupied) /\ Cpu[i] = slots[i].record.size.cpu /\ Gpu[i] = slots[i].record.size.gpu
    <3>1. i \in Occupied
      BY <2>1 DEF Residents
    <3> QED BY <1>1, <3>1, SizesKnown DEF SizesAre
  <2>8. /\ SumFunctionOnSet(Cpu, S) = Cpu[i] + SumFunctionOnSet(Cpu, S \ {i}) /\ Cpu[i] \in Nat
        /\ SumFunctionOnSet(Gpu, S) = Gpu[i] + SumFunctionOnSet(Gpu, S \ {i}) /\ Gpu[i] \in Nat
    <3>1. Sized(Cpu, Gpu, Occupied) /\ S \in SUBSET Occupied /\ i \in S
      BY <2>4, <2>7
    <3> QED BY <3>1, OneLess
  <2>9. Left(c, gone).cpu = SumFunctionOnSet(Cpu, S) /\ Left(c, gone).gpu = SumFunctionOnSet(Gpu, S)
    BY <1>1, <2>3, <2>4, LeftIs
  <2>10. /\ statistics'[c].cpu = SumFunctionOnSet(Cpu, R) /\ statistics'[c].gpu = SumFunctionOnSet(Gpu, R)
         /\ SumFunctionOnSet(Cpu, R) \in Nat /\ SumFunctionOnSet(Gpu, R) \in Nat
    <3>1. Victims(c) \in SUBSET Residents(c)
      BY <1>3
    <3> QED BY <1>1, <1>2, <2>5, <3>1, LeftIs
  <2>11. SumFunctionOnSet(Cpu, S \ {i}) = SumFunctionOnSet(Cpu, R) /\ SumFunctionOnSet(Gpu, S \ {i}) = SumFunctionOnSet(Gpu, R)
    BY <2>6, Zenon
  <2>12. /\ Left(c, gone).cpu = statistics'[c].cpu + slots[i].record.size.cpu
         /\ Left(c, gone).gpu = statistics'[c].gpu + slots[i].record.size.gpu
    BY <2>7, <2>8, <2>9, <2>10, <2>11
  <2>13. ~WithinBudget(c, Left(c, gone).cpu, Left(c, gone).gpu, EvictionTarget)
    <3>1. Over(c, EvictionThreshold)
      BY <1>9
    <3> QED BY <2>1, <2>2, <2>3, <3>1, VictimsMeans
  <2> QED BY <2>12, <2>13
<1>12. ASSUME Over(c, EvictionThreshold), NEW j0 \in Residents(c) \ Lost(c), ~slots[j0].record.pinned
       PROVE  ~Over(c, EvictionTarget)'
  <2>1. PICK N : N = Candidates(c) \ Victims(c)
    OBVIOUS
  <2>2. IsFiniteSet(N) /\ N # {}
    <3>1. Sized(Cpu, Gpu, Occupied)
      BY <1>1, SizesKnown DEF SizesAre
    <3>2. N \in SUBSET Occupied /\ j0 \in N
      BY <1>3, <1>4, <1>8, <1>12, <2>1 DEF Residents
    <3> QED BY <3>1, <3>2, FS_Subset DEF Sized
  <2> DEFINE f == [i \in N |-> slots[i].record.touch]
  <2>3. \A i \in N : f[i] \in Nat /\ f[i] = slots[i].record.touch
    BY <1>1, <1>3, <2>1, RecordsTyped DEF Residents, RequestRecord
  <2> HIDE DEF f
  <2>4. PICK j \in N : \A k \in N : f[j] <= f[k]
    BY <2>2, <2>3, LeastOf
  <2>5. j \in Candidates(c) /\ j \notin Victims(c)
    BY <2>1
  <2>6. OlderCandidates(c, j) = Victims(c)
    <3>1. \A v \in Victims(c) : v \in Candidates(c) /\ Earlier(v, j)
      BY <1>3, <1>5, <1>7, <2>5
    <3>2. \A k \in Candidates(c) : Earlier(k, j) => k \in Victims(c)
      BY <2>1, <2>3, <2>4 DEF Earlier
    <3> QED BY <3>1, <3>2 DEF OlderCandidates
  <2>7. WithinBudget(c, Left(c, Victims(c)).cpu, Left(c, Victims(c)).gpu, EvictionTarget)
    BY <1>12, <2>5, <2>6, VictimsMeans
  <2> QED BY <1>2, <2>7 DEF Over
<1> QED BY <1>9, <1>10, <1>11, <1>12 DEF LosesLeastRecent

(* A class over its threshold, and only such a class, is brought within its  *)
(* target by evicting requests that were touched before any that stays       *)
(* unpinned, and none that could have stayed.                                *)
THEOREM EvictionTakesLeast == Spec => EvictsLeastRecent
<1>1. ASSUME TableInv, StatisticsInv, [Next]_vars, NEW c \in Class PROVE LosesLeastRecent(c)
  <2>1. CASE EvictToBudgets /\ open
    BY <1>1, <2>1, EvictionIsLeast
  <2>2. CASE ~(EvictToBudgets /\ open)
    <3>1. Lost(c) = {}
      <4>1. ASSUME NEW i \in Lost(c) PROVE FALSE
        <5>1. /\ i \in Occupied /\ slots[i].record.state = "Resident"
              /\ slots'[i].record # None /\ slots'[i].record.state = "Evicted"
          BY <4>1 DEF Lost, Residents
        <5>2. EvictToBudgets
          BY <1>1, <5>1, StatesGo DEF Goes
        <5>3. slots' = slots
          BY <2>2, <5>2 DEF EvictToBudgets
        <5> QED BY <5>1, <5>3
      <4> QED BY <4>1
    <3>2. ~(pumping /\ ~pumping' /\ open)
      BY <1>1, <2>2, StatesGo
    <3> QED BY <3>1, <3>2 DEF LosesLeastRecent
  <2> QED BY <2>1, <2>2
<1>2. TableInv /\ StatisticsInv /\ [Next]_vars => \A c \in Class : LosesLeastRecent(c)
  BY <1>1
<1>3. TableInv /\ StatisticsInv /\ [Next]_vars =>
          [statistics' # statistics \/ pumping # pumping' => \A c \in Class : LosesLeastRecent(c)]_vars
  BY <1>2
<1> QED BY <1>3, TableInvariant, StatisticsInvariant, PTL DEF Spec, EvictsLeastRecent
=============================================================================
