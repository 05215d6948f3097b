-------------------------------- MODULE Sums --------------------------------
(***************************************************************************)
(* Facts about SumFunctionOnSet, the sum of a function over a finite set,  *)
(* proved without induction: a set of finite sets of which none is the     *)
(* smallest is empty (NoSmallest).                                         *)
(***************************************************************************)
EXTENDS Integers, FiniteSets, Functions, Folds, FiniteSetTheorems, WellFoundedInduction, TLAPS

Pick(s) == CHOOSE x \in s : TRUE
Adds(g, f, T) ==
    g = [s \in SUBSET T |-> IF s = {} THEN 0 ELSE f[Pick(s)] + g[s \ {Pick(s)}]]
Adder(f, T) == CHOOSE g : Adds(g, f, T)

LEMMA PickIn == ASSUME NEW s, s # {} PROVE Pick(s) \in s BY DEF Pick

LEMMA NoSmallest ==
  ASSUME NEW S, IsFiniteSet(S), NEW C \in SUBSET SUBSET S,
         \A T \in C : \E U \in C : U \subseteq T /\ U # T
  PROVE  C = {}
<1>1. C \subseteq FiniteSubsetsOf(S)
  BY FS_FiniteSubsetsOfFinite
<1>2. SUFFICES ASSUME C # {} PROVE FALSE
  OBVIOUS
<1>3. PICK T \in C : \A U \in C : <<U, T>> \notin StrictSubsetOrdering(S)
  BY <1>1, <1>2, FS_StrictSubsetOrderingWellFounded, WFMin
<1> QED
  BY <1>3 DEF StrictSubsetOrdering

LEMMA Unfold ==
  ASSUME NEW f, NEW T PROVE SumFunctionOnSet(f, T) = Adder(f, T)[T]
BY DEF SumFunctionOnSet, FoldFunctionOnSet, MapThenFoldSet, Adder, Adds, Pick

LEMMA AddersAgree ==
  ASSUME NEW V, IsFiniteSet(V), NEW f, NEW W \in SUBSET V,
         NEW g, Adds(g, f, V), NEW h, Adds(h, f, W)
  PROVE  g[W] = h[W]
<1> DEFINE Bad == {u \in SUBSET V : u \subseteq W /\ g[u] # h[u]}
<1>1. ASSUME NEW t \in Bad, \A u \in Bad : ~(u \subseteq t /\ u # t)
      PROVE  FALSE
  <2>1. t # {}
    BY DEF Adds
  <2> DEFINE u == t \ {Pick(t)}
  <2>2. u \subseteq t /\ u # t /\ t \in SUBSET V /\ t \in SUBSET W
    BY <2>1, PickIn
  <2>3. g[u] = h[u]
    BY <2>2, <1>1
  <2>4. g[t] = f[Pick(t)] + g[u] /\ h[t] = f[Pick(t)] + h[u]
    BY <2>1, <2>2 DEF Adds
  <2> QED
    BY <2>3, <2>4
<1>2. Bad \in SUBSET SUBSET V
  OBVIOUS
<1>3. Bad = {}
  <2> HIDE DEF Bad
  <2> QED
    BY <1>1, <1>2, NoSmallest
<1> QED
  BY <1>3

LEMMA AdderExists ==
  ASSUME NEW S, IsFiniteSet(S), NEW f, NEW T \in SUBSET S
  PROVE  Adds(Adder(f, T), f, T)
<1> DEFINE Bad == {V \in SUBSET S : ~ \E g : Adds(g, f, V)}
<1>1. ASSUME NEW V \in Bad, \A U \in Bad : ~(U \subseteq V /\ U # V)
      PROVE  FALSE
  <2>3. \A U \in SUBSET V : U # V => Adds(Adder(f, U), f, U)
    BY <1>1 DEF Adder
  <2> DEFINE Value(s) == IF s = {} THEN 0
                       ELSE f[Pick(s)] + Adder(f, s \ {Pick(s)})[s \ {Pick(s)}]
             h == [s \in SUBSET V |-> Value(s)]
  <2>4. ASSUME NEW s \in SUBSET V, s # {}
        PROVE  h[s \ {Pick(s)}] = Adder(f, s \ {Pick(s)})[s \ {Pick(s)}]
    <3> DEFINE t == s \ {Pick(s)}
    <3>1. t \in SUBSET V /\ t # V /\ Adds(Adder(f, t), f, t)
      BY <2>3, <2>4, PickIn
    <3>2. CASE t = {}
      BY <3>1, <3>2 DEF Adds
    <3>3. CASE t # {}
      <4> DEFINE u == t \ {Pick(t)}
      <4>1. u \in SUBSET t /\ u # V /\ Adds(Adder(f, u), f, u)
        BY <2>3, <3>1, <3>3, PickIn
      <4>2. h[t] = f[Pick(t)] + Adder(f, u)[u]
        BY <3>1, <3>3
      <4>3. Adder(f, t)[t] = f[Pick(t)] + Adder(f, t)[u]
        BY <3>1, <3>3 DEF Adds
      <4>4. Adder(f, t)[u] = Adder(f, u)[u]
        <5>1. IsFiniteSet(t) /\ u \in SUBSET t
          BY <3>1, <4>1, FS_Subset
        <5> HIDE DEF t, u, h
        <5> QED
          BY <3>1, <4>1, <5>1, AddersAgree
      <4> QED
        BY <4>2, <4>3, <4>4
    <3> QED
      BY <3>2, <3>3
  <2>5. Adds(h, f, V)
    <3>1. \A s \in SUBSET V : h[s] = IF s = {} THEN 0 ELSE f[Pick(s)] + h[s \ {Pick(s)}]
      BY <2>4
    <3>2. h = [s \in SUBSET V |-> h[s]]
      OBVIOUS
    <3> QED
      BY <3>1, <3>2 DEF Adds
  <2> QED
    BY <2>5
<1>2. Bad \in SUBSET SUBSET S
  OBVIOUS
<1>3. Bad = {}
  <2> HIDE DEF Bad
  <2> QED
    BY <1>1, <1>2, NoSmallest
<1> QED
  BY <1>3 DEF Adder

LEMMA SumEmpty == ASSUME NEW f PROVE SumFunctionOnSet(f, {}) = 0
<1>1. Adds(Adder(f, {}), f, {})
  BY FS_EmptySet, AdderExists
<1>2. Adder(f, {})[{}] = 0
  BY <1>1 DEF Adds
<1> QED
  BY <1>2, Unfold

LEMMA SumNonempty ==
  ASSUME NEW f, NEW T, IsFiniteSet(T), T # {}
  PROVE  SumFunctionOnSet(f, T) = f[Pick(T)] + SumFunctionOnSet(f, T \ {Pick(T)})
<1> DEFINE U == T \ {Pick(T)}
<1>1. Adds(Adder(f, T), f, T) /\ Adds(Adder(f, U), f, U)
  BY AdderExists
<1>2. Adder(f, T)[T] = f[Pick(T)] + Adder(f, T)[U]
  BY <1>1 DEF Adds
<1>3. Adder(f, T)[U] = Adder(f, U)[U]
  <2>1. U \in SUBSET T
    OBVIOUS
  <2> HIDE DEF U
  <2> QED
    BY <1>1, <2>1, AddersAgree
<1> QED
  BY <1>2, <1>3, Unfold

LEMMA SumIsInt ==
  ASSUME NEW T, IsFiniteSet(T), NEW f, \A x \in T : f[x] \in Int
  PROVE  SumFunctionOnSet(f, T) \in Int
<1> DEFINE Bad == {U \in SUBSET T : SumFunctionOnSet(f, U) \notin Int}
<1>1. ASSUME NEW U \in Bad, \A V \in Bad : ~(V \subseteq U /\ V # U)
      PROVE  FALSE
  <2>1. U # {}
    BY SumEmpty
  <2>2. Pick(U) \in U /\ IsFiniteSet(U)
    BY <2>1, PickIn, FS_Subset
  <2>3. SumFunctionOnSet(f, U \ {Pick(U)}) \in Int
    BY <1>1, <2>2
  <2> QED
    BY <2>1, <2>2, <2>3, SumNonempty
<1>2. Bad \in SUBSET SUBSET T
  OBVIOUS
<1>3. Bad = {}
  <2> HIDE DEF Bad
  <2> QED
    BY <1>1, <1>2, NoSmallest
<1> QED
  BY <1>3

LEMMA SumWithout ==
  ASSUME NEW T, IsFiniteSet(T), NEW f, \A x \in T : f[x] \in Int, NEW a \in T
  PROVE  SumFunctionOnSet(f, T) = f[a] + SumFunctionOnSet(f, T \ {a})
<1> DEFINE Wrong(U) == \E x \in U : SumFunctionOnSet(f, U) # f[x] + SumFunctionOnSet(f, U \ {x})
           Bad == {U \in SUBSET T : Wrong(U)}
<1>1. ASSUME NEW U \in Bad, \A V \in Bad : ~(V \subseteq U /\ V # U)
      PROVE  FALSE
  <2>3. PICK x \in U : SumFunctionOnSet(f, U) # f[x] + SumFunctionOnSet(f, U \ {x})
    OBVIOUS
  <2> DEFINE p == Pick(U)
  <2>4. p \in U /\ IsFiniteSet(U)
    BY PickIn, FS_Subset
  <2>5. SumFunctionOnSet(f, U) = f[p] + SumFunctionOnSet(f, U \ {p})
    BY <2>4, SumNonempty
  <2>6. x # p
    BY <2>3, <2>5
  <2>0. ASSUME NEW y \in U, NEW z \in U, y # z
        PROVE  SumFunctionOnSet(f, U \ {y}) = f[z] + SumFunctionOnSet(f, (U \ {y}) \ {z})
    <3>1. U \ {y} \notin Bad /\ U \ {y} \in SUBSET T
      BY <1>1
    <3>2. ~Wrong(U \ {y}) /\ z \in U \ {y}
      BY <2>0, <3>1
    <3> QED
      BY <3>2
  <2>7. SumFunctionOnSet(f, U \ {p}) = f[x] + SumFunctionOnSet(f, (U \ {p}) \ {x})
    <3> HIDE DEF p
    <3> QED
      BY <2>0, <2>4, <2>6
  <2>8. SumFunctionOnSet(f, U \ {x}) = f[p] + SumFunctionOnSet(f, (U \ {x}) \ {p})
    <3> HIDE DEF p
    <3> QED
      BY <2>0, <2>4, <2>6
  <2>9. (U \ {p}) \ {x} = (U \ {x}) \ {p}
    OBVIOUS
  <2> DEFINE rest == SumFunctionOnSet(f, (U \ {p}) \ {x})
  <2>10. f[p] \in Int /\ f[x] \in Int /\ rest \in Int
    <3>1. IsFiniteSet((U \ {p}) \ {x})
      BY <2>4, FS_RemoveElement
    <3> QED
      BY <2>4, <3>1, SumIsInt
  <2>11. /\ SumFunctionOnSet(f, U) = f[p] + (f[x] + rest)
         /\ SumFunctionOnSet(f, U) # f[x] + (f[p] + rest)
    BY <2>3, <2>5, <2>7, <2>8, <2>9
  <2> HIDE DEF p, rest
  <2> QED
    BY <2>10, <2>11
<1>2. Bad \in SUBSET SUBSET T
  OBVIOUS
<1>3. Bad = {}
  <2> HIDE DEF Bad
  <2> QED
    BY <1>1, <1>2, NoSmallest
<1> QED
  BY <1>3

LEMMA SumOfEqual ==
  ASSUME NEW T, IsFiniteSet(T), NEW f, NEW g, \A x \in T : f[x] = g[x]
  PROVE  SumFunctionOnSet(f, T) = SumFunctionOnSet(g, T)
<1> DEFINE Bad == {U \in SUBSET T : SumFunctionOnSet(f, U) # SumFunctionOnSet(g, U)}
<1>1. ASSUME NEW U \in Bad, \A V \in Bad : ~(V \subseteq U /\ V # U)
      PROVE  FALSE
  <2>1. U # {}
    BY SumEmpty
  <2>2. Pick(U) \in U /\ IsFiniteSet(U)
    BY <2>1, PickIn, FS_Subset
  <2>3. SumFunctionOnSet(f, U \ {Pick(U)}) = SumFunctionOnSet(g, U \ {Pick(U)})
    BY <1>1, <2>2
  <2> QED
    BY <2>1, <2>2, <2>3, SumNonempty
<1>2. Bad \in SUBSET SUBSET T
  OBVIOUS
<1>3. Bad = {}
  <2> HIDE DEF Bad
  <2> QED
    BY <1>1, <1>2, NoSmallest
<1> QED
  BY <1>3

LEMMA SumOfZeros ==
    ASSUME NEW T, IsFiniteSet(T), NEW f, \A x \in T : f[x] = 0
    PROVE  SumFunctionOnSet(f, T) = 0
<1> DEFINE Bad == {U \in SUBSET T : SumFunctionOnSet(f, U) # 0}
<1>1. ASSUME NEW U \in Bad, \A V \in Bad : ~(V \subseteq U /\ V # U)
      PROVE  FALSE
  <2>1. U # {}
    BY SumEmpty
  <2>2. Pick(U) \in U /\ IsFiniteSet(U)
    BY <2>1, PickIn, FS_Subset
  <2>3. SumFunctionOnSet(f, U \ {Pick(U)}) = 0
    BY <1>1, <2>2
  <2> QED
    BY <2>1, <2>2, <2>3, SumNonempty
<1>2. Bad \in SUBSET SUBSET T
  OBVIOUS
<1>3. Bad = {}
  <2> HIDE DEF Bad
  <2> QED
    BY <1>1, <1>2, NoSmallest
<1> QED
  BY <1>3

LEMMA SumMore ==
    ASSUME NEW T, IsFiniteSet(T), NEW f, NEW g, NEW a, a \notin T,
           \A x \in T : f[x] = g[x] /\ g[x] \in Int, g[a] \in Int
    PROVE  SumFunctionOnSet(g, T \cup {a}) = SumFunctionOnSet(f, T) + g[a]
<1> DEFINE all == T \cup {a}
<1>1. IsFiniteSet(all) /\ all \ {a} = T /\ a \in all /\ \A x \in all : g[x] \in Int
  BY FS_AddElement
<1> HIDE DEF all
<1>2. SumFunctionOnSet(g, all) = g[a] + SumFunctionOnSet(g, T)
  BY <1>1, SumWithout
<1>3. SumFunctionOnSet(g, T) = SumFunctionOnSet(f, T) /\ SumFunctionOnSet(g, T) \in Int
  BY SumOfEqual, SumIsInt
<1> QED
  BY <1>2, <1>3 DEF all

LEMMA SumFewer ==
    ASSUME NEW T, IsFiniteSet(T), NEW f, NEW a \in T, \A x \in T : f[x] \in Int
    PROVE  SumFunctionOnSet(f, T \ {a}) = SumFunctionOnSet(f, T) - f[a]
<1>1. IsFiniteSet(T \ {a})
  BY FS_RemoveElement
<1>2. SumFunctionOnSet(f, T \ {a}) \in Int
  BY <1>1, SumIsInt
<1>3. SumFunctionOnSet(f, T) = f[a] + SumFunctionOnSet(f, T \ {a})
  BY SumWithout
<1> QED
  BY <1>2, <1>3

LEMMA SumIsNat ==
    ASSUME NEW T, IsFiniteSet(T), NEW f, \A x \in T : f[x] \in Nat
    PROVE  SumFunctionOnSet(f, T) \in Nat
<1> DEFINE Bad == {U \in SUBSET T : SumFunctionOnSet(f, U) \notin Nat}
<1>1. ASSUME NEW U \in Bad, \A V \in Bad : ~(V \subseteq U /\ V # U)
      PROVE  FALSE
  <2>1. U # {}
    BY SumEmpty
  <2>2. Pick(U) \in U /\ IsFiniteSet(U)
    BY <2>1, PickIn, FS_Subset
  <2>3. SumFunctionOnSet(f, U \ {Pick(U)}) \in Nat
    BY <1>1, <2>2
  <2> QED
    BY <2>1, <2>2, <2>3, SumNonempty
<1>2. Bad \in SUBSET SUBSET T
  OBVIOUS
<1>3. Bad = {}
  <2> HIDE DEF Bad
  <2> QED
    BY <1>1, <1>2, NoSmallest
<1> QED
  BY <1>3

LEMMA SumBound ==
    ASSUME NEW T, IsFiniteSet(T), NEW f, \A x \in T : f[x] \in Nat, NEW a \in T
    PROVE  SumFunctionOnSet(f, T) >= f[a]
<1>1. IsFiniteSet(T \ {a})
  BY FS_RemoveElement
<1>2. SumFunctionOnSet(f, T \ {a}) \in Nat
  BY <1>1, SumIsNat
<1>3. SumFunctionOnSet(f, T) = f[a] + SumFunctionOnSet(f, T \ {a})
  BY SumWithout
<1> QED
  BY <1>2, <1>3

(* A sum and its term of one element, which may not be in the set.         *)
Term(f, T, a) == IF a \in T THEN f[a] ELSE 0

LEMMA SumSplit ==
    ASSUME NEW T, IsFiniteSet(T), NEW f, \A x \in T : f[x] \in Int, NEW a
    PROVE  /\ SumFunctionOnSet(f, T) = Term(f, T, a) + SumFunctionOnSet(f, T \ {a})
           /\ SumFunctionOnSet(f, T \ {a}) \in Int /\ Term(f, T, a) \in Int
<1>1. IsFiniteSet(T \ {a}) /\ \A x \in T \ {a} : f[x] \in Int
  BY FS_RemoveElement
<1>2. SumFunctionOnSet(f, T \ {a}) \in Int
  BY <1>1, SumIsInt
<1>3. CASE a \in T
  BY <1>2, <1>3, SumWithout DEF Term
<1>4. CASE a \notin T
  <2>1. T \ {a} = T
    BY <1>4
  <2>2. SumFunctionOnSet(f, T \ {a}) = SumFunctionOnSet(f, T)
    BY <2>1, Zenon
  <2> QED
    BY <1>2, <1>4, <2>2 DEF Term
<1> QED
  BY <1>3, <1>4

(* Two sums that differ in one element differ by its terms.                *)
LEMMA SumChange ==
    ASSUME NEW T, IsFiniteSet(T), NEW f, \A x \in T : f[x] \in Int,
           NEW U, IsFiniteSet(U), NEW g, \A x \in U : g[x] \in Int,
           NEW a, T \ {a} = U \ {a}, \A x \in T \ {a} : f[x] = g[x]
    PROVE  SumFunctionOnSet(g, U) = SumFunctionOnSet(f, T) - Term(f, T, a) + Term(g, U, a)
<1>1. IsFiniteSet(T \ {a})
  BY FS_RemoveElement
<1>2. SumFunctionOnSet(f, T \ {a}) = SumFunctionOnSet(g, T \ {a})
  BY <1>1, SumOfEqual
<1>3. /\ SumFunctionOnSet(f, T) = Term(f, T, a) + SumFunctionOnSet(f, T \ {a})
      /\ SumFunctionOnSet(f, T \ {a}) \in Int /\ Term(f, T, a) \in Int
  BY SumSplit
<1>4. /\ SumFunctionOnSet(g, U) = Term(g, U, a) + SumFunctionOnSet(g, U \ {a})
      /\ Term(g, U, a) \in Int
  BY SumSplit
<1>5. SumFunctionOnSet(g, T \ {a}) = SumFunctionOnSet(g, U \ {a})
  BY Zenon
<1> QED
  BY <1>2, <1>3, <1>4, <1>5

(* Fewer terms, none of them negative.                                     *)
LEMMA SumShrinks ==
    ASSUME NEW T, IsFiniteSet(T), NEW f, \A x \in T : f[x] \in Nat, NEW U \in SUBSET T
    PROVE  SumFunctionOnSet(f, U) <= SumFunctionOnSet(f, T)
<1> DEFINE Bad == {V \in SUBSET T : U \subseteq V
                                   /\ ~(SumFunctionOnSet(f, U) <= SumFunctionOnSet(f, V))}
<1>0. IsFiniteSet(U)
  BY FS_Subset
<1>1. ASSUME NEW V \in Bad, \A W \in Bad : ~(W \subseteq V /\ W # V)
      PROVE  FALSE
  <2>0. SumFunctionOnSet(f, U) \in Int
    BY <1>0, SumIsInt
  <2>1. V # U
    BY <2>0
  <2>2. PICK x \in V : x \notin U
    BY <2>1
  <2>3. V \ {x} \in SUBSET T /\ U \subseteq V \ {x} /\ IsFiniteSet(V) /\ IsFiniteSet(V \ {x})
    BY <2>2, FS_Subset
  <2>4. SumFunctionOnSet(f, U) <= SumFunctionOnSet(f, V \ {x})
    BY <1>1, <2>2, <2>3
  <2>5. SumFunctionOnSet(f, V) = f[x] + SumFunctionOnSet(f, V \ {x}) /\ f[x] \in Nat
    BY <2>2, <2>3, SumWithout
  <2>6. SumFunctionOnSet(f, V \ {x}) \in Int
    BY <2>3, SumIsInt
  <2>7. SumFunctionOnSet(f, U) <= SumFunctionOnSet(f, V)
    BY <2>0, <2>4, <2>5, <2>6
  <2> QED
    BY <2>7
<1>2. Bad \in SUBSET SUBSET T
  OBVIOUS
<1>3. Bad = {}
  <2> HIDE DEF Bad
  <2> QED
    BY <1>1, <1>2, NoSmallest
<1> QED
  BY <1>3
=============================================================================
