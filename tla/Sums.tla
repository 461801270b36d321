-------------------------------- MODULE Sums --------------------------------
(***************************************************************************)
(* Facts about the sums over finite sets that the properties of the         *)
(* subledgers are stated with.  The library states induction for a predicate *)
(* that is a parameter, which no prover can instantiate; here a set of       *)
(* counterexamples takes its place, and its minimal element is refuted.      *)
(***************************************************************************)
EXTENDS Integers, FiniteSetsExt, FiniteSetTheorems, WellFoundedInduction, TLAPS

\* Among the subsets of a finite set that are bad, if any, one has no bad subset
\* of its own: the form that induction over finite sets takes here.
LEMMA MinimalSubset ==
  ASSUME NEW S, IsFiniteSet(S), NEW Bad \in SUBSET SUBSET S, Bad # {}
  PROVE  \E T \in Bad : \A U \in SUBSET T : U # T => U \notin Bad
<1>1. IsWellFoundedOn(StrictSubsetOrdering(S), FiniteSubsetsOf(S))
  BY FS_StrictSubsetOrderingWellFounded
<1>2. FiniteSubsetsOf(S) = SUBSET S
  BY FS_FiniteSubsetsOfFinite
<1>3. \E T \in Bad : \A U \in Bad : ~ (<<U, T>> \in StrictSubsetOrdering(S))
  BY <1>1, <1>2, WFMin
<1> QED
  BY <1>3 DEF StrictSubsetOrdering
-----------------------------------------------------------------------------
(* The definition of the library unfolds                                     *)

\* The element that a fold takes first.
First(T) == CHOOSE x \in T : TRUE

LEMMA FirstIn == ASSUME NEW T, T # {} PROVE First(T) \in T
  BY DEF First

\* g maps every part of S to the sum over it.
Sums(g, f, S) ==
  g = [T \in SUBSET S |-> IF T = {} THEN 0 ELSE f[First(T)] + g[T \ {First(T)}]]

LEMMA SumIsChosen ==
  ASSUME NEW f, NEW S
  PROVE  SumFunctionOnSet(f, S) = (CHOOSE g : Sums(g, f, S))[S]
  BY DEF SumFunctionOnSet, FoldFunctionOnSet, MapThenFoldSet, Sums, First

\* Two such functions agree where both are defined.
LEMMA SumsAgree ==
  ASSUME NEW S, NEW U, IsFiniteSet(U), U \subseteq S,
         NEW f, NEW g, NEW h, Sums(g, f, S), Sums(h, f, U)
  PROVE  \A T \in SUBSET U : g[T] = h[T]
<1> DEFINE Bad == {T \in SUBSET U : g[T] # h[T]}
<1>1. SUFFICES ASSUME Bad # {} PROVE FALSE
  OBVIOUS
<1>2. PICK T \in Bad : \A V \in SUBSET T : V # T => V \notin Bad
  <2>1. Bad \in SUBSET SUBSET U
    OBVIOUS
  <2> HIDE DEF Bad
  <2> QED
    BY <1>1, <2>1, MinimalSubset
<1>3. T \in SUBSET S /\ T \in SUBSET U /\ g[T] # h[T]
  BY <1>2
<1>4. /\ g[T] = IF T = {} THEN 0 ELSE f[First(T)] + g[T \ {First(T)}]
      /\ h[T] = IF T = {} THEN 0 ELSE f[First(T)] + h[T \ {First(T)}]
  BY <1>3 DEF Sums
<1>5. CASE T = {}
  BY <1>3, <1>4, <1>5
<1>6. CASE T # {}
  <2>1. T \ {First(T)} \in SUBSET T /\ T \ {First(T)} # T
    BY <1>6, FirstIn
  <2>2. g[T \ {First(T)}] = h[T \ {First(T)}]
    BY <1>2, <1>3, <2>1
  <2> QED
    BY <1>3, <1>4, <1>6, <2>2
<1> QED
  BY <1>5, <1>6

LEMMA SumsExist ==
  ASSUME NEW S, IsFiniteSet(S), NEW f
  PROVE  \E g : Sums(g, f, S)
<1> DEFINE Bad == {T \in SUBSET S : ~ \E g : Sums(g, f, T)}
           Sol(U) == CHOOSE g : Sums(g, f, U)
<1>1. SUFFICES ASSUME Bad # {} PROVE FALSE
  OBVIOUS
<1>2. PICK T \in Bad : \A V \in SUBSET T : V # T => V \notin Bad
  <2>1. Bad \in SUBSET SUBSET S
    OBVIOUS
  <2> HIDE DEF Bad
  <2> QED
    BY <1>1, <2>1, MinimalSubset
<1>3. ASSUME NEW V \in SUBSET T, V # T
      PROVE  IsFiniteSet(V) /\ Sums(Sol(V), f, V)
  <2>1. IsFiniteSet(V)
    BY FS_Subset
  <2>2. \E g : Sums(g, f, V)
    BY <1>2, <1>3
  <2> QED
    BY <2>1, <2>2
<1> DEFINE Rest(U) == U \ {First(U)}
           G == [U \in SUBSET T |->
                   IF U = {} THEN 0 ELSE f[First(U)] + Sol(Rest(U))[Rest(U)]]
<1>4. ASSUME NEW U \in SUBSET T, U # {} PROVE G[Rest(U)] = Sol(Rest(U))[Rest(U)]
  <2> DEFINE V == Rest(U)
  <2>1. V \in SUBSET T /\ V # T
    BY <1>4, FirstIn
  <2>2. Sol(V)[V] = IF V = {} THEN 0 ELSE f[First(V)] + Sol(V)[Rest(V)]
    <3>1. Sums(Sol(V), f, V)
      BY <1>3, <2>1
    <3> HIDE DEF Sol, V
    <3> QED
      BY <3>1 DEF Sums
  <2>3. G[V] = IF V = {} THEN 0 ELSE f[First(V)] + Sol(Rest(V))[Rest(V)]
    BY <2>1
  <2>4. CASE V = {}
    BY <2>2, <2>3, <2>4
  <2>5. CASE V # {}
    <3>1. Rest(V) \in SUBSET T /\ Rest(V) # T /\ Rest(V) \subseteq V
      BY <2>1, <2>5, FirstIn
    <3>2. Sums(Sol(V), f, V) /\ Sums(Sol(Rest(V)), f, Rest(V)) /\ IsFiniteSet(Rest(V))
      BY <1>3, <2>1, <3>1
    <3>3. Sol(V)[Rest(V)] = Sol(Rest(V))[Rest(V)]
      <4> HIDE DEF Sol, V, Rest
      <4> QED
        BY <3>1, <3>2, SumsAgree
    <3> QED
      BY <2>2, <2>3, <2>5, <3>3
  <2> QED
    BY <2>4, <2>5
<1>5. Sums(G, f, T)
  <2>1. ASSUME NEW U \in SUBSET T
        PROVE  G[U] = IF U = {} THEN 0 ELSE f[First(U)] + G[Rest(U)]
    <3>1. CASE U = {}
      BY <3>1
    <3>2. CASE U # {}
      <4>1. G[U] = f[First(U)] + Sol(Rest(U))[Rest(U)]
        BY <3>2
      <4>2. G[Rest(U)] = Sol(Rest(U))[Rest(U)]
        BY <1>4, <3>2
      <4> HIDE DEF G, Sol
      <4> QED
        BY <3>2, <4>1, <4>2
    <3> QED
      BY <3>1, <3>2
  <2>2. G = [U \in SUBSET T |-> G[U]]
    OBVIOUS
  <2> HIDE DEF G
  <2> QED
    BY <2>1, <2>2 DEF Sums
<1> QED
  BY <1>2, <1>5
-----------------------------------------------------------------------------
(* What a sum is                                                             *)

LEMMA SumUnfolds ==
  ASSUME NEW f, NEW S, IsFiniteSet(S)
  PROVE  SumFunctionOnSet(f, S) =
           IF S = {} THEN 0
           ELSE f[First(S)] + SumFunctionOnSet(f, S \ {First(S)})
<1> DEFINE Sol(U) == CHOOSE g : Sums(g, f, U)
           R == S \ {First(S)}
<1>1. IsFiniteSet(R)
  BY FS_Subset
<1>2. Sums(Sol(S), f, S) /\ Sums(Sol(R), f, R)
  BY <1>1, SumsExist
<1>3. SumFunctionOnSet(f, S) = Sol(S)[S] /\ SumFunctionOnSet(f, R) = Sol(R)[R]
  BY SumIsChosen
<1>4. Sol(S)[S] = IF S = {} THEN 0 ELSE f[First(S)] + Sol(S)[R]
  BY <1>2 DEF Sums
<1>5. Sol(S)[R] = Sol(R)[R]
  <2>1. R \subseteq S
    OBVIOUS
  <2> HIDE DEF Sol, R
  <2> QED
    BY <1>1, <1>2, <2>1, SumsAgree
<1> QED
  BY <1>3, <1>4, <1>5

LEMMA SumOfNone == ASSUME NEW f PROVE SumFunctionOnSet(f, {}) = 0
  BY FS_EmptySet, SumUnfolds

LEMMA SumType ==
  ASSUME NEW f, NEW S, IsFiniteSet(S), \A x \in S : f[x] \in Int
  PROVE  SumFunctionOnSet(f, S) \in Int
<1> DEFINE Bad == {T \in SUBSET S : SumFunctionOnSet(f, T) \notin Int}
<1>1. SUFFICES ASSUME Bad # {} PROVE FALSE
  OBVIOUS
<1>2. PICK T \in Bad : \A V \in SUBSET T : V # T => V \notin Bad
  <2>1. Bad \in SUBSET SUBSET S
    OBVIOUS
  <2> HIDE DEF Bad
  <2> QED
    BY <1>1, <2>1, MinimalSubset
<1>3. T \in SUBSET S /\ IsFiniteSet(T)
  BY <1>2, FS_Subset
<1>4. CASE T = {}
  BY <1>2, <1>4, SumOfNone
<1>5. CASE T # {}
  <2>1. First(T) \in T /\ T \ {First(T)} \in SUBSET T /\ T \ {First(T)} # T
    BY <1>5, FirstIn
  <2>2. SumFunctionOnSet(f, T \ {First(T)}) \in Int
    BY <1>2, <1>3, <2>1
  <2>3. SumFunctionOnSet(f, T) = f[First(T)] + SumFunctionOnSet(f, T \ {First(T)})
    BY <1>3, <1>5, SumUnfolds
  <2>4. f[First(T)] \in Int
    BY <1>3, <2>1
  <2> QED
    BY <1>2, <2>2, <2>3, <2>4
<1> QED
  BY <1>4, <1>5

\* Any element may be taken first.
LEMMA SumRemove ==
  ASSUME NEW f, NEW S, IsFiniteSet(S), \A x \in S : f[x] \in Int, NEW x \in S
  PROVE  SumFunctionOnSet(f, S) = f[x] + SumFunctionOnSet(f, S \ {x})
<1> DEFINE Sum(T) == SumFunctionOnSet(f, T)
           Bad == {T \in SUBSET S : \E y \in T : Sum(T) # f[y] + Sum(T \ {y})}
<1>1. SUFFICES ASSUME Bad # {} PROVE FALSE
  OBVIOUS
<1>2. PICK T \in Bad : \A V \in SUBSET T : V # T => V \notin Bad
  <2>1. Bad \in SUBSET SUBSET S
    OBVIOUS
  <2> HIDE DEF Bad
  <2> QED
    BY <1>1, <2>1, MinimalSubset
<1>3. T \in SUBSET S /\ IsFiniteSet(T)
  BY <1>2, FS_Subset
<1>4. PICK y \in T : Sum(T) # f[y] + Sum(T \ {y})
  BY <1>2
<1>5. First(T) \in T /\ Sum(T) = f[First(T)] + Sum(T \ {First(T)})
  BY <1>3, <1>4, FirstIn, SumUnfolds
<1>6. y # First(T)
  BY <1>4, <1>5
<1> DEFINE p == First(T)
<1>7. Sum(T \ {p}) = f[y] + Sum((T \ {p}) \ {y})
  <2>1. T \ {p} \in SUBSET T /\ T \ {p} # T /\ y \in T \ {p}
    BY <1>5, <1>6
  <2> QED
    BY <1>2, <1>3, <2>1
<1>8. Sum(T \ {y}) = f[p] + Sum((T \ {y}) \ {p})
  <2>1. T \ {y} \in SUBSET T /\ T \ {y} # T /\ p \in T \ {y}
    BY <1>5, <1>6
  <2> QED
    BY <1>2, <1>3, <2>1
<1>9. (T \ {p}) \ {y} = (T \ {y}) \ {p}
  OBVIOUS
<1>10. f[y] \in Int /\ f[p] \in Int /\ Sum((T \ {p}) \ {y}) \in Int
  <2>1. IsFiniteSet((T \ {p}) \ {y}) /\ \A z \in (T \ {p}) \ {y} : f[z] \in Int
    BY <1>3, FS_Subset
  <2> QED
    BY <1>3, <1>5, <2>1, SumType
<1> HIDE DEF Sum, Bad, p
<1>11. Sum(T) = f[p] + (f[y] + Sum((T \ {p}) \ {y}))
  BY <1>5, <1>7 DEF p
<1>12. f[y] + Sum(T \ {y}) = f[y] + (f[p] + Sum((T \ {p}) \ {y}))
  BY <1>8, <1>9
<1> QED
  BY <1>4, <1>10, <1>11, <1>12

LEMMA SumSame ==
  ASSUME NEW f, NEW g, NEW S, IsFiniteSet(S), \A x \in S : f[x] = g[x]
  PROVE  SumFunctionOnSet(f, S) = SumFunctionOnSet(g, S)
<1> DEFINE Bad == {T \in SUBSET S : SumFunctionOnSet(f, T) # SumFunctionOnSet(g, T)}
<1>1. SUFFICES ASSUME Bad # {} PROVE FALSE
  OBVIOUS
<1>2. PICK T \in Bad : \A V \in SUBSET T : V # T => V \notin Bad
  <2>1. Bad \in SUBSET SUBSET S
    OBVIOUS
  <2> HIDE DEF Bad
  <2> QED
    BY <1>1, <2>1, MinimalSubset
<1>3. T \in SUBSET S /\ IsFiniteSet(T)
  BY <1>2, FS_Subset
<1>4. CASE T = {}
  BY <1>2, <1>4, SumOfNone
<1>5. CASE T # {}
  <2>1. First(T) \in T /\ T \ {First(T)} \in SUBSET T /\ T \ {First(T)} # T
    BY <1>5, FirstIn
  <2>2. SumFunctionOnSet(f, T \ {First(T)}) = SumFunctionOnSet(g, T \ {First(T)})
    BY <1>2, <1>3, <2>1
  <2>3. /\ SumFunctionOnSet(f, T) = f[First(T)] + SumFunctionOnSet(f, T \ {First(T)})
        /\ SumFunctionOnSet(g, T) = g[First(T)] + SumFunctionOnSet(g, T \ {First(T)})
    BY <1>3, <1>5, SumUnfolds
  <2> QED
    BY <1>2, <1>3, <2>1, <2>2, <2>3
<1> QED
  BY <1>4, <1>5

LEMMA SumOfZeros ==
  ASSUME NEW f, NEW S, IsFiniteSet(S), \A x \in S : f[x] = 0
  PROVE  SumFunctionOnSet(f, S) = 0
<1> DEFINE Bad == {T \in SUBSET S : SumFunctionOnSet(f, T) # 0}
<1>1. SUFFICES ASSUME Bad # {} PROVE FALSE
  OBVIOUS
<1>2. PICK T \in Bad : \A V \in SUBSET T : V # T => V \notin Bad
  <2>1. Bad \in SUBSET SUBSET S
    OBVIOUS
  <2> HIDE DEF Bad
  <2> QED
    BY <1>1, <2>1, MinimalSubset
<1>3. T \in SUBSET S /\ IsFiniteSet(T) /\ T # {}
  BY <1>2, FS_Subset, SumOfNone
<1>4. First(T) \in T /\ T \ {First(T)} \in SUBSET T /\ T \ {First(T)} # T
  BY <1>3, FirstIn
<1>5. SumFunctionOnSet(f, T \ {First(T)}) = 0 /\ f[First(T)] = 0
  BY <1>2, <1>3, <1>4
<1>6. SumFunctionOnSet(f, T) = f[First(T)] + SumFunctionOnSet(f, T \ {First(T)})
  BY <1>3, SumUnfolds
<1> QED
  BY <1>2, <1>5, <1>6

LEMMA SumAdd ==
  ASSUME NEW f, NEW S, IsFiniteSet(S), NEW x, x \notin S,
         \A y \in S \cup {x} : f[y] \in Int
  PROVE  SumFunctionOnSet(f, S \cup {x}) = SumFunctionOnSet(f, S) + f[x]
<1>1. IsFiniteSet(S \cup {x})
  BY FS_AddElement
<1>2. SumFunctionOnSet(f, S \cup {x}) = f[x] + SumFunctionOnSet(f, (S \cup {x}) \ {x})
  BY <1>1, SumRemove
<1>3. (S \cup {x}) \ {x} = S
  OBVIOUS
<1>4. SumFunctionOnSet(f, S) \in Int /\ f[x] \in Int
  BY SumType
<1>5. \A a, b \in Int : a + b = b + a
  OBVIOUS
<1>6. SumFunctionOnSet(f, S \cup {x}) = f[x] + SumFunctionOnSet(f, S)
  BY <1>2, <1>3
<1> QED
  BY <1>4, <1>5, <1>6, Zenon

\* One summand changes.
LEMMA SumChange ==
  ASSUME NEW f, NEW g, NEW S, IsFiniteSet(S), NEW x \in S,
         \A y \in S : f[y] \in Int /\ g[y] \in Int,
         \A y \in S \ {x} : f[y] = g[y]
  PROVE  SumFunctionOnSet(g, S) = SumFunctionOnSet(f, S) - f[x] + g[x]
<1>1. IsFiniteSet(S \ {x})
  BY FS_Subset
<1>2. SumFunctionOnSet(f, S) = f[x] + SumFunctionOnSet(f, S \ {x})
  BY SumRemove
<1>3. SumFunctionOnSet(g, S) = g[x] + SumFunctionOnSet(g, S \ {x})
  BY SumRemove
<1>4. SumFunctionOnSet(f, S \ {x}) = SumFunctionOnSet(g, S \ {x})
  BY <1>1, SumSame
<1>5. SumFunctionOnSet(f, S \ {x}) \in Int
  BY <1>1, SumType
<1> QED
  BY <1>2, <1>3, <1>4, <1>5

\* A set grows by an element, and the rest keeps its summands.
LEMMA SumGrows ==
  ASSUME NEW f, NEW g, NEW S, IsFiniteSet(S), NEW x, x \notin S, g[x] \in Int,
         \A y \in S : f[y] \in Int /\ g[y] = f[y]
  PROVE  SumFunctionOnSet(g, S \cup {x}) = SumFunctionOnSet(f, S) + g[x]
<1>1. SumFunctionOnSet(g, S) = SumFunctionOnSet(f, S)
  BY SumSame
<1>2. \A y \in S \cup {x} : g[y] \in Int
  OBVIOUS
<1>3. SumFunctionOnSet(g, S \cup {x}) = SumFunctionOnSet(g, S) + g[x]
  BY <1>2, SumAdd
<1> QED
  BY <1>1, <1>3, Zenon

LEMMA SumNat ==
  ASSUME NEW f, NEW S, IsFiniteSet(S), \A x \in S : f[x] \in Nat
  PROVE  SumFunctionOnSet(f, S) \in Nat
<1> DEFINE Bad == {T \in SUBSET S : SumFunctionOnSet(f, T) \notin Nat}
<1>1. SUFFICES ASSUME Bad # {} PROVE FALSE
  BY Zenon
<1>2. PICK T \in Bad : \A U \in SUBSET T : U # T => U \notin Bad
  <2>1. Bad \in SUBSET SUBSET S
    OBVIOUS
  <2> HIDE DEF Bad
  <2> QED
    BY <1>1, <2>1, MinimalSubset
<1> HIDE DEF Bad
<1>3. T \in SUBSET S /\ IsFiniteSet(T) /\ SumFunctionOnSet(f, T) \notin Nat
  BY <1>2, FS_Subset DEF Bad
<1>4. PICK x \in T : TRUE
  BY <1>3, SumOfNone
<1>5. SumFunctionOnSet(f, T \ {x}) \in Nat
  BY <1>2, <1>3, <1>4 DEF Bad
<1>6. \A y \in T : f[y] \in Nat /\ f[y] \in Int
  BY <1>3
<1>7. SumFunctionOnSet(f, T) = f[x] + SumFunctionOnSet(f, T \ {x})
  BY <1>3, <1>4, <1>6, SumRemove
<1> QED
  BY <1>3, <1>4, <1>5, <1>6, <1>7

\* The summands of one set, counted along another that stands for it one to one.
LEMMA SumAlong ==
  ASSUME NEW f, NEW g, NEW S, IsFiniteSet(S), NEW h, IsFiniteSet({h[x] : x \in S}),
         \A x, y \in S : h[x] = h[y] => x = y,
         \A x \in S : f[x] = g[h[x]] /\ f[x] \in Int
  PROVE  SumFunctionOnSet(f, S) = SumFunctionOnSet(g, {h[x] : x \in S})
<1> DEFINE To(T) == {h[x] : x \in T}
           Bad == {T \in SUBSET S : SumFunctionOnSet(f, T) # SumFunctionOnSet(g, To(T))}
<1>1. SUFFICES ASSUME Bad # {} PROVE FALSE
  BY Zenon
<1>2. PICK T \in Bad : \A U \in SUBSET T : U # T => U \notin Bad
  <2>1. Bad \in SUBSET SUBSET S
    OBVIOUS
  <2> HIDE DEF Bad
  <2> QED
    BY <1>1, <2>1, MinimalSubset
<1> HIDE DEF Bad
<1>3. /\ T \in SUBSET S /\ IsFiniteSet(T)
      /\ SumFunctionOnSet(f, T) # SumFunctionOnSet(g, To(T))
  BY <1>2, FS_Subset DEF Bad
<1>4. T # {}
  BY <1>3, SumOfNone
<1>5. PICK x \in T : TRUE
  BY <1>4
<1>6. SumFunctionOnSet(f, T \ {x}) = SumFunctionOnSet(g, To(T \ {x}))
  BY <1>2, <1>3, <1>5 DEF Bad
<1>7. SumFunctionOnSet(f, T) = f[x] + SumFunctionOnSet(f, T \ {x})
  BY <1>3, <1>5, SumRemove
<1>8. To(T) \ {h[x]} = To(T \ {x}) /\ h[x] \in To(T)
  BY <1>3, <1>5
<1>9. IsFiniteSet(To(T))
  <2>1. To(T) \subseteq {h[y] : y \in S}
    BY <1>3
  <2> QED
    BY <2>1, FS_Subset
<1>10. \A z \in To(T) : g[z] \in Int
  BY <1>3
<1>11. SumFunctionOnSet(g, To(T)) = g[h[x]] + SumFunctionOnSet(g, To(T) \ {h[x]})
  BY <1>8, <1>9, <1>10, SumRemove
<1> QED
  BY <1>3, <1>5, <1>6, <1>7, <1>8, <1>11, Zenon

\* Zeros do not count.
LEMMA SumSupport ==
  ASSUME NEW f, NEW S, IsFiniteSet(S), NEW T \in SUBSET S,
         \A x \in S : f[x] \in Int, \A x \in S \ T : f[x] = 0
  PROVE  SumFunctionOnSet(f, S) = SumFunctionOnSet(f, T)
<1> DEFINE Sum(U) == SumFunctionOnSet(f, U)
           Bad == {U \in SUBSET S : Sum(U) # Sum(U \cap T)}
<1>0. S \cap T = T
  OBVIOUS
<1>1. SUFFICES ASSUME Bad # {} PROVE FALSE
  BY <1>0, Zenon
<1>2. PICK U \in Bad : \A V \in SUBSET U : V # U => V \notin Bad
  <2>1. Bad \in SUBSET SUBSET S
    OBVIOUS
  <2> HIDE DEF Bad
  <2> QED
    BY <1>1, <2>1, MinimalSubset
<1>3. U \in SUBSET S /\ IsFiniteSet(U) /\ IsFiniteSet(U \cap T) /\ Sum(U) # Sum(U \cap T)
  BY <1>2, FS_Subset
<1>4. PICK x \in U : TRUE
  BY <1>3
<1>5. Sum(U \ {x}) = Sum((U \ {x}) \cap T)
  BY <1>2, <1>3, <1>4
<1>6. Sum(U) = f[x] + Sum(U \ {x}) /\ f[x] \in Int
  BY <1>3, <1>4, SumRemove
<1>7. CASE x \in T
  <2>1. (U \ {x}) \cap T = (U \cap T) \ {x} /\ x \in U \cap T
    BY <1>4, <1>7
  <2>2. Sum(U \cap T) = f[x] + Sum((U \cap T) \ {x})
    BY <1>3, <2>1, SumRemove
  <2> QED
    BY <1>3, <1>5, <1>6, <2>1, <2>2
<1>8. CASE x \notin T
  <2>1. (U \ {x}) \cap T = U \cap T /\ f[x] = 0
    BY <1>3, <1>4, <1>8
  <2>2. Sum(U \ {x}) \in Int
    <3>1. IsFiniteSet(U \ {x}) /\ \A y \in U \ {x} : f[y] \in Int
      BY <1>3, FS_Subset
    <3> QED
      BY <3>1, SumType
  <2>3. Sum((U \ {x}) \cap T) = Sum(U \cap T)
    BY <2>1
  <2> HIDE DEF Sum
  <2>4. Sum(U) = Sum(U \ {x})
    BY <1>6, <2>1, <2>2
  <2> QED
    BY <1>3, <1>5, <2>3, <2>4
<1> QED
  BY <1>7, <1>8
=============================================================================
