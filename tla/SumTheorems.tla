---------------------------- MODULE SumTheorems ----------------------------
(***************************************************************************)
(* Facts about SumFunctionOnSet(f, S), the sum of f[x] for x in S: the     *)
(* tables of the exchange are finite sets of rows, and what they add up to *)
(* is such a sum.  The operator is defined by recursion over the subsets   *)
(* of S, so each fact is proved by looking at a smallest subset of S that  *)
(* violates it.                                                            *)
(***************************************************************************)
EXTENDS Integers, FiniteSets, Functions, FiniteSetTheorems, TLAPS

---------------------------------------------------------------------------
(* Smallest elements.                                                      *)

(* Every nonempty set of natural numbers has a smallest element.           *)
LEMMA NatMinimum ==
    ASSUME NEW T, T \subseteq Nat, T # {}
    PROVE  \E n \in T : \A m \in T : n <= m
PROOF
<1>1. IsWellFoundedOn(OpToRel(<, Nat), Nat)
  BY NatLessThanWellFounded
<1>2. PICK n \in T : \A m \in T : ~(<<m, n>> \in OpToRel(<, Nat))
  BY <1>1, WFMin
<1>3. \A m \in T : ~(m < n)
  BY <1>2 DEF OpToRel
<1> QED
  BY <1>3

(* A nonempty collection of subsets of a finite set has a smallest member. *)
LEMMA SmallestSubset ==
    ASSUME NEW S, IsFiniteSet(S), NEW B, B \subseteq SUBSET S, B # {}
    PROVE  \E s \in B : \A t \in B : Cardinality(s) <= Cardinality(t)
PROOF
<1> DEFINE N == {Cardinality(s) : s \in B}
<1>1. \A s \in B : Cardinality(s) \in Nat
  BY FS_Subset, FS_CardinalityType
<1>2. N \subseteq Nat /\ N # {}
  BY <1>1
<1>3. PICK n \in N : \A m \in N : n <= m
  BY <1>2, NatMinimum
<1> QED
  BY <1>3

---------------------------------------------------------------------------
(* The recursive definition has exactly one solution.                      *)

Solves(g, f, S) ==
    g = [s \in SUBSET S |->
           IF s = {} THEN 0
           ELSE f[CHOOSE x \in s : TRUE] + g[s \ {CHOOSE x \in s : TRUE}]]

(* The sum is the value at S of the chosen solution.                       *)
LEMMA SumUnfold ==
    ASSUME NEW f, NEW S
    PROVE  SumFunctionOnSet(f, S) = (CHOOSE g : Solves(g, f, S))[S]
PROOF
  BY DEF SumFunctionOnSet, FoldFunctionOnSet, MapThenFoldSet, Solves

(* A solution for S gives the value of every nonempty subset in terms of a *)
(* smaller one.                                                            *)
LEMMA SolvesStep ==
    ASSUME NEW f, NEW S, NEW g, Solves(g, f, S), NEW s \in SUBSET S
    PROVE  /\ g[{}] = 0
           /\ s # {} => \E x \in s : /\ x = CHOOSE y \in s : TRUE
                                    /\ s \ {x} \in SUBSET S
                                    /\ g[s] = f[x] + g[s \ {x}]
PROOF
<1>1. g[{}] = 0
  BY DEF Solves
<1>2. ASSUME s # {}
      PROVE  \E x \in s : /\ x = CHOOSE y \in s : TRUE
                          /\ s \ {x} \in SUBSET S
                          /\ g[s] = f[x] + g[s \ {x}]
  <2> DEFINE x == CHOOSE y \in s : TRUE
  <2>1. x \in s
    BY <1>2
  <2>2. g[s] = f[x] + g[s \ {x}]
    BY <1>2 DEF Solves
  <2>3. s \ {x} \in SUBSET S
    OBVIOUS
  <2> QED
    BY <2>1, <2>2, <2>3
<1> QED
  BY <1>1, <1>2

(* Two solutions agree: otherwise take a smallest subset where they do not.*)
LEMMA SolutionsAgree ==
    ASSUME NEW f, NEW S, NEW T, NEW g, NEW h, IsFiniteSet(S),
           T \in SUBSET S, Solves(g, f, S), Solves(h, f, T)
    PROVE  \A s \in SUBSET T : g[s] = h[s]
PROOF
<1> DEFINE B == {s \in SUBSET T : g[s] # h[s]}
<1>1. SUFFICES ASSUME B # {} PROVE FALSE
  OBVIOUS
<1>2. IsFiniteSet(T)
  BY FS_Subset
<1>3. PICK s \in B : \A t \in B : Cardinality(s) <= Cardinality(t)
  BY <1>1, <1>2, SmallestSubset
<1>4. s # {}
  <2>1. {} \in SUBSET S /\ {} \in SUBSET T
    OBVIOUS
  <2>2. g[{}] = 0 /\ h[{}] = 0
    BY <2>1, SolvesStep
  <2> QED
    BY <2>2
<1>5. PICK x \in s : /\ x = CHOOSE y \in s : TRUE
                     /\ g[s] = f[x] + g[s \ {x}]
  BY <1>4, SolvesStep
<1>6. PICK z \in s : /\ z = CHOOSE y \in s : TRUE
                     /\ h[s] = f[z] + h[s \ {z}]
  BY <1>4, SolvesStep
<1>7. g[s \ {x}] # h[s \ {x}]
  BY <1>5, <1>6
<1>8. s \ {x} \in B
  BY <1>7
<1>9. IsFiniteSet(s) /\ Cardinality(s) \in Nat
  BY <1>2, FS_Subset, FS_CardinalityType
<1>10. Cardinality(s \ {x}) = Cardinality(s) - 1
  BY <1>9, FS_RemoveElement
<1> QED
  BY <1>3, <1>8, <1>9, <1>10

(* A solution exists, one size of subsets after the other.                 *)
LEMMA SolutionExists ==
    ASSUME NEW f, NEW S, IsFiniteSet(S)
    PROVE  \E g : Solves(g, f, S)
PROOF
<1> DEFINE D(n) == {s \in SUBSET S : Cardinality(s) <= n}
           ch(s) == CHOOSE x \in s : TRUE
           Part(g, n) == g = [s \in D(n) |-> IF s = {} THEN 0
                                ELSE f[ch(s)] + g[s \ {ch(s)}]]
           Bad == {n \in Nat : ~ \E g : Part(g, n)}
<1> HIDE DEF ch
<1>1. \A s \in SUBSET S : Cardinality(s) \in Nat /\ IsFiniteSet(s)
  BY FS_Subset, FS_CardinalityType
<1>2. \A s \in SUBSET S : s # {} => /\ ch(s) \in s
                                   /\ Cardinality(s \ {ch(s)}) = Cardinality(s) - 1
  BY <1>1, FS_RemoveElement DEF ch
<1>3. Part([s \in D(0) |-> 0], 0)
  <2>1. \A s \in D(0) : s = {}
    BY <1>1, FS_EmptySet
  <2> QED
    BY <2>1
<1>4. ASSUME NEW n \in Nat, NEW g, Part(g, n)
      PROVE  \E h : Part(h, n + 1)
  <2> DEFINE h == [s \in D(n + 1) |-> IF s = {} THEN 0
                                      ELSE f[ch(s)] + g[s \ {ch(s)}]]
  <2>1. ASSUME NEW s \in D(n + 1), s # {}
        PROVE  h[s \ {ch(s)}] = g[s \ {ch(s)}]
    <3> DEFINE t == s \ {ch(s)}
    <3>1. t \in D(n) /\ t \in D(n + 1)
      BY <2>1, <1>1, <1>2
    <3>2. g[t] = IF t = {} THEN 0 ELSE f[ch(t)] + g[t \ {ch(t)}]
      BY <3>1, <1>4
    <3>3. h[t] = IF t = {} THEN 0 ELSE f[ch(t)] + g[t \ {ch(t)}]
      BY <3>1
    <3> QED
      BY <3>2, <3>3
  <2>2. h = [s \in D(n + 1) |-> IF s = {} THEN 0
                                ELSE f[ch(s)] + h[s \ {ch(s)}]]
    BY <2>1
  <2> QED
    BY <2>2
<1> HIDE DEF Part
<1>5. Bad = {}
  <2>1. SUFFICES ASSUME Bad # {} PROVE FALSE
    OBVIOUS
  <2>2. PICK n \in Bad : \A m \in Bad : n <= m
    BY <2>1, NatMinimum
  <2>3. n # 0
    BY <1>3
  <2>4. n - 1 \in Nat /\ n - 1 \notin Bad
    <3>1. n \in Nat
      OBVIOUS
    <3>2. n - 1 \in Nat /\ ~(n <= n - 1)
      BY <3>1, <2>3
    <3> QED
      BY <3>2, <2>2
  <2>5. PICK g : Part(g, n - 1)
    BY <2>4
  <2>6. \E h : Part(h, (n - 1) + 1)
    BY <2>4, <2>5, <1>4
  <2>7. (n - 1) + 1 = n
    OBVIOUS
  <2> QED
    BY <2>6, <2>7
<1>6. PICK g : Part(g, Cardinality(S))
  BY <1>1, <1>5
<1>7. D(Cardinality(S)) = SUBSET S
  BY FS_Subset
<1>8. Solves(g, f, S)
  BY <1>6, <1>7 DEF Solves, ch, Part
<1> QED
  BY <1>8

---------------------------------------------------------------------------
(* The sum of the empty set, and the sum after taking out one element.     *)

LEMMA SumEmpty ==
    ASSUME NEW f
    PROVE  SumFunctionOnSet(f, {}) = 0
PROOF
<1>1. PICK h : Solves(h, f, {})
  BY FS_EmptySet, SolutionExists
<1>2. Solves(CHOOSE g : Solves(g, f, {}), f, {})
  BY <1>1
<1> QED
  BY <1>2, SolvesStep, SumUnfold

LEMMA SumChoose ==
    ASSUME NEW f, NEW S, IsFiniteSet(S), S # {}
    PROVE  \E x \in S : SumFunctionOnSet(f, S)
                          = f[x] + SumFunctionOnSet(f, S \ {x})
PROOF
<1> DEFINE G(T) == CHOOSE g : Solves(g, f, T)
<1>1. \A T \in SUBSET S : Solves(G(T), f, T)
  <2> TAKE T \in SUBSET S
  <2>1. IsFiniteSet(T)
    BY FS_Subset
  <2>2. \E g : Solves(g, f, T)
    BY <2>1, SolutionExists
  <2> QED
    BY <2>2
<1>2. \A T \in SUBSET S : SumFunctionOnSet(f, T) = G(T)[T]
  BY SumUnfold
<1> HIDE DEF G
<1>3. Solves(G(S), f, S)
  BY <1>1
<1>4. PICK x \in S : G(S)[S] = f[x] + G(S)[S \ {x}]
  <2>1. S \in SUBSET S
    OBVIOUS
  <2> QED
    BY <1>3, <2>1, SolvesStep
<1>5. G(S)[S \ {x}] = G(S \ {x})[S \ {x}]
  <2> DEFINE R == S \ {x}
  <2>1. R \in SUBSET S /\ R \in SUBSET R
    OBVIOUS
  <2> HIDE DEF R
  <2>2. PICK g : g = G(S) /\ Solves(g, f, S)
    BY <1>3
  <2>3. PICK h : h = G(R) /\ Solves(h, f, R)
    BY <1>1, <2>1
  <2>4. \A s \in SUBSET R : g[s] = h[s]
    BY <2>1, <2>2, <2>3, SolutionsAgree
  <2> QED
    BY <2>1, <2>2, <2>3, <2>4 DEF R
<1> QED
  BY <1>2, <1>4, <1>5

---------------------------------------------------------------------------
(* The sum of integers is an integer, of natural numbers a natural number. *)
LEMMA SumType ==
    ASSUME NEW f, NEW S, IsFiniteSet(S), NEW V, V \in {Nat, Int},
           \A x \in S : f[x] \in V
    PROVE  SumFunctionOnSet(f, S) \in V
PROOF
<1> DEFINE B == {s \in SUBSET S : SumFunctionOnSet(f, s) \notin V}
<1>1. SUFFICES ASSUME B # {} PROVE FALSE
  OBVIOUS
<1>2. PICK s \in B : \A t \in B : Cardinality(s) <= Cardinality(t)
  BY <1>1, SmallestSubset
<1>3. s # {}
  BY SumEmpty
<1>4. IsFiniteSet(s) /\ Cardinality(s) \in Nat
  BY FS_Subset, FS_CardinalityType
<1>5. PICK x \in s : SumFunctionOnSet(f, s)
                       = f[x] + SumFunctionOnSet(f, s \ {x})
  BY <1>3, <1>4, SumChoose
<1>6. Cardinality(s \ {x}) = Cardinality(s) - 1
  BY <1>4, FS_RemoveElement
<1>7. s \ {x} \notin B
  BY <1>2, <1>4, <1>6
<1>8. SumFunctionOnSet(f, s \ {x}) \in V /\ f[x] \in V
  BY <1>7
<1> QED
  BY <1>5, <1>8

LEMMA SumNat ==
    ASSUME NEW f, NEW S, IsFiniteSet(S), \A x \in S : f[x] \in Nat
    PROVE  SumFunctionOnSet(f, S) \in Nat
PROOF
  BY SumType

LEMMA SumInt ==
    ASSUME NEW f, NEW S, IsFiniteSet(S), \A x \in S : f[x] \in Int
    PROVE  SumFunctionOnSet(f, S) \in Int
PROOF
  BY SumType

(* Any element can be taken out of a sum, whichever the definition chose.  *)
LEMMA SumRemove ==
    ASSUME NEW f, NEW S, NEW x, IsFiniteSet(S), x \in S,
           \A y \in S : f[y] \in Int
    PROVE  SumFunctionOnSet(f, S) = f[x] + SumFunctionOnSet(f, S \ {x})
PROOF
<1> DEFINE Sm(s) == SumFunctionOnSet(f, s)
           B == {s \in SUBSET S : \E y \in s : Sm(s) # f[y] + Sm(s \ {y})}
<1>0. \A s \in SUBSET S : /\ IsFiniteSet(s) /\ Cardinality(s) \in Nat
                          /\ Sm(s) \in Int
  <2> TAKE s \in SUBSET S
  <2>1. IsFiniteSet(s) /\ Cardinality(s) \in Nat
    BY FS_Subset, FS_CardinalityType
  <2>2. \A y \in s : f[y] \in Int
    OBVIOUS
  <2> QED
    BY <2>1, <2>2, SumInt
<1>1. SUFFICES ASSUME B # {} PROVE FALSE
  OBVIOUS
<1>2. PICK s \in B : \A t \in B : Cardinality(s) <= Cardinality(t)
  BY <1>1, SmallestSubset
<1>3. PICK y \in s : Sm(s) # f[y] + Sm(s \ {y})
  OBVIOUS
<1>4. PICK z \in s : Sm(s) = f[z] + Sm(s \ {z})
  BY <1>0, SumChoose
<1>5. y # z
  BY <1>3, <1>4
<1>6. \A w \in s : s \ {w} \in SUBSET S /\ s \ {w} \notin B
  <2> TAKE w \in s
  <2>1. Cardinality(s \ {w}) = Cardinality(s) - 1
    BY <1>0, FS_RemoveElement
  <2> QED
    BY <1>0, <1>2, <2>1
<1> HIDE DEF Sm
<1>7. Sm(s \ {z}) = f[y] + Sm((s \ {z}) \ {y})
  <2>1. y \in s \ {z}
    BY <1>5
  <2> QED
    BY <1>6, <2>1
<1>8. Sm(s \ {y}) = f[z] + Sm((s \ {y}) \ {z})
  <2>1. z \in s \ {y}
    BY <1>5
  <2> QED
    BY <1>6, <2>1
<1>9. (s \ {y}) \ {z} = (s \ {z}) \ {y}
  OBVIOUS
<1>10. /\ Sm((s \ {z}) \ {y}) \in Int
       /\ f[y] \in Int /\ f[z] \in Int
  BY <1>0
<1> DEFINE u == Sm((s \ {z}) \ {y})
<1>11. /\ u \in Int
       /\ Sm(s \ {z}) = f[y] + u
       /\ Sm(s \ {y}) = f[z] + u
  BY <1>7, <1>8, <1>9, <1>10
<1> HIDE DEF u, B
<1>12. Sm(s) = f[z] + (f[y] + u) /\ Sm(s) # f[y] + (f[z] + u)
  BY <1>3, <1>4, <1>11
<1> QED
  BY <1>10, <1>11, <1>12

LEMMA SumAdd ==
    ASSUME NEW f, NEW S, NEW x, IsFiniteSet(S), x \notin S,
           \A y \in S \cup {x} : f[y] \in Int
    PROVE  SumFunctionOnSet(f, S \cup {x}) = SumFunctionOnSet(f, S) + f[x]
PROOF
<1> DEFINE T == S \cup {x}
<1>1. IsFiniteSet(T) /\ x \in T /\ T \ {x} = S
  BY FS_AddElement
<1>2. SumFunctionOnSet(f, T) = f[x] + SumFunctionOnSet(f, T \ {x})
  BY <1>1, SumRemove
<1>3. SumFunctionOnSet(f, S) \in Int /\ f[x] \in Int
  BY SumInt
<1>4. SumFunctionOnSet(f, T) = f[x] + SumFunctionOnSet(f, S)
  BY <1>1, <1>2
<1> HIDE DEF T
<1>5. SumFunctionOnSet(f, T) = SumFunctionOnSet(f, S) + f[x]
  BY <1>3, <1>4
<1> QED
  BY <1>5 DEF T

(* A larger function has a larger sum.                                     *)
LEMMA SumMonotone ==
    ASSUME NEW f, NEW g, NEW S, IsFiniteSet(S),
           \A x \in S : f[x] \in Int /\ g[x] \in Int /\ f[x] <= g[x]
    PROVE  SumFunctionOnSet(f, S) <= SumFunctionOnSet(g, S)
PROOF
<1> DEFINE F(s) == SumFunctionOnSet(f, s)
           G(s) == SumFunctionOnSet(g, s)
           B == {s \in SUBSET S : ~(F(s) <= G(s))}
<1>0. \A s \in SUBSET S : /\ IsFiniteSet(s) /\ Cardinality(s) \in Nat
                          /\ F(s) \in Int /\ G(s) \in Int
  <2> TAKE s \in SUBSET S
  <2>1. IsFiniteSet(s) /\ Cardinality(s) \in Nat
    BY FS_Subset, FS_CardinalityType
  <2>2. \A y \in s : f[y] \in Int /\ g[y] \in Int
    OBVIOUS
  <2> QED
    BY <2>1, <2>2, SumInt
<1>1. SUFFICES ASSUME B # {} PROVE FALSE
  OBVIOUS
<1>2. PICK s \in B : \A t \in B : Cardinality(s) <= Cardinality(t)
  BY <1>1, SmallestSubset
<1>3. PICK x : x \in s
  BY SumEmpty
<1>4. F(s) = f[x] + F(s \ {x}) /\ G(s) = g[x] + G(s \ {x})
  <2>1. \A y \in s : f[y] \in Int
    OBVIOUS
  <2>2. \A y \in s : g[y] \in Int
    OBVIOUS
  <2>3. IsFiniteSet(s)
    BY <1>0
  <2>4. F(s) = f[x] + F(s \ {x})
    BY <1>3, <2>1, <2>3, SumRemove
  <2>5. G(s) = g[x] + G(s \ {x})
    BY ONLY <1>3, <2>2, <2>3, SumRemove DEF G
  <2> QED
    BY <2>4, <2>5
<1>5. Cardinality(s \ {x}) = Cardinality(s) - 1
  BY <1>0, <1>3, FS_RemoveElement
<1> HIDE DEF F, G
<1>6. F(s \ {x}) <= G(s \ {x})
  BY <1>0, <1>2, <1>5
<1> QED
  BY <1>0, <1>3, <1>4, <1>6

(* The sum depends on the values of the function only.                     *)
LEMMA SumEqual ==
    ASSUME NEW f, NEW g, NEW S, IsFiniteSet(S),
           \A x \in S : f[x] \in Int /\ f[x] = g[x]
    PROVE  SumFunctionOnSet(f, S) = SumFunctionOnSet(g, S)
PROOF
<1>1. /\ SumFunctionOnSet(f, S) \in Int
      /\ SumFunctionOnSet(g, S) \in Int
  BY SumInt
<1>2. SumFunctionOnSet(f, S) <= SumFunctionOnSet(g, S)
  BY SumMonotone
<1>3. SumFunctionOnSet(g, S) <= SumFunctionOnSet(f, S)
  BY SumMonotone
<1> QED
  BY <1>1, <1>2, <1>3

(* Changing the function at one element changes the sum by as much.        *)
LEMMA SumChange ==
    ASSUME NEW f, NEW g, NEW S, NEW x, IsFiniteSet(S), x \in S,
           \A y \in S : f[y] \in Int /\ g[y] \in Int,
           \A y \in S \ {x} : f[y] = g[y]
    PROVE  SumFunctionOnSet(g, S) = SumFunctionOnSet(f, S) + g[x] - f[x]
PROOF
<1>1. IsFiniteSet(S \ {x})
  BY FS_RemoveElement
<1>a. SumFunctionOnSet(f, S) = f[x] + SumFunctionOnSet(f, S \ {x})
  <2>1. \A y \in S : f[y] \in Int
    OBVIOUS
  <2> QED
    BY ONLY IsFiniteSet(S), x \in S, <2>1, SumRemove
<1>2. SumFunctionOnSet(g, S) = g[x] + SumFunctionOnSet(g, S \ {x})
  <2>1. \A y \in S : g[y] \in Int
    OBVIOUS
  <2> QED
    BY ONLY IsFiniteSet(S), x \in S, <2>1, SumRemove
<1>3. SumFunctionOnSet(f, S \ {x}) = SumFunctionOnSet(g, S \ {x})
  BY <1>1, SumEqual
<1>4. SumFunctionOnSet(f, S \ {x}) \in Int
  BY <1>1, SumInt
<1> QED
  BY <1>a, <1>2, <1>3, <1>4

---------------------------------------------------------------------------
(* Sums over parts of a set.                                               *)

LEMMA SumUnion ==
    ASSUME NEW f, NEW S, NEW T, IsFiniteSet(S), IsFiniteSet(T), S \cap T = {},
           \A x \in S \cup T : f[x] \in Int
    PROVE  SumFunctionOnSet(f, S \cup T)
             = SumFunctionOnSet(f, S) + SumFunctionOnSet(f, T)
PROOF
<1> DEFINE F(s) == SumFunctionOnSet(f, s)
           B == {t \in SUBSET T : F(S \cup t) # F(S) + F(t)}
<1>0. \A t \in SUBSET T : IsFiniteSet(t) /\ Cardinality(t) \in Nat
  BY FS_Subset, FS_CardinalityType
<1>1. \A t \in SUBSET T : F(t) \in Int /\ F(S \cup t) \in Int
  <2> TAKE t \in SUBSET T
  <2>1. IsFiniteSet(S \cup t)
    BY <1>0, FS_Union
  <2>2. \A x \in S \cup t : f[x] \in Int
    OBVIOUS
  <2>3. F(S \cup t) \in Int
    BY ONLY <2>1, <2>2, SumInt
  <2>4. F(t) \in Int
    BY <1>0, SumInt
  <2> QED
    BY <2>3, <2>4
<1>2. F(S) \in Int
  BY SumInt
<1>3. SUFFICES ASSUME B # {} PROVE FALSE
  OBVIOUS
<1>4. PICK t \in B : \A u \in B : Cardinality(t) <= Cardinality(u)
  BY <1>3, SmallestSubset
<1>5. t # {}
  <2>1. F({}) = 0 /\ S \cup {} = S
    BY SumEmpty
  <2> HIDE DEF F
  <2>2. F(S \cup {}) = F(S) + F({})
    BY <1>2, <2>1
  <2>3. F(S \cup t) # F(S) + F(t)
    OBVIOUS
  <2> QED
    BY <2>2, <2>3
<1>6. PICK x : x \in t
  BY <1>5
<1>7. F(t) = f[x] + F(t \ {x})
  <2>1. IsFiniteSet(t) /\ \A y \in t : f[y] \in Int
    BY <1>0
  <2> QED
    BY ONLY <1>6, <2>1, SumRemove
<1>8. F(S \cup t) = f[x] + F(S \cup (t \ {x}))
  <2>1. IsFiniteSet(S \cup t) /\ \A y \in S \cup t : f[y] \in Int
    BY <1>0, FS_Union
  <2>2. x \in S \cup t /\ (S \cup t) \ {x} = S \cup (t \ {x})
    BY <1>6
  <2>3. F(S \cup t) = f[x] + F((S \cup t) \ {x})
    BY ONLY <2>1, <2>2, SumRemove
  <2> QED
    BY <2>2, <2>3
<1>9. t \ {x} \in SUBSET T /\ t \ {x} \notin B
  <2>1. Cardinality(t \ {x}) = Cardinality(t) - 1
    BY <1>0, <1>6, FS_RemoveElement
  <2> QED
    BY <1>0, <1>4, <2>1
<1> HIDE DEF F
<1>10. F(S \cup (t \ {x})) = F(S) + F(t \ {x})
  BY <1>9
<1>11. F(t \ {x}) \in Int /\ f[x] \in Int
  BY <1>1, <1>6, <1>9
<1>12. F(S \cup t) = f[x] + (F(S) + F(t \ {x}))
  BY <1>8, <1>10
<1>13. F(S \cup t) # F(S) + (f[x] + F(t \ {x}))
  BY <1>7
<1> QED
  BY <1>2, <1>11, <1>12, <1>13

LEMMA SumSubset ==
    ASSUME NEW f, NEW S, NEW T, IsFiniteSet(S), T \subseteq S,
           \A x \in S : f[x] \in Nat
    PROVE  SumFunctionOnSet(f, T) <= SumFunctionOnSet(f, S)
PROOF
<1> DEFINE U == S \ T
<1>1. /\ IsFiniteSet(T) /\ IsFiniteSet(U)
      /\ T \cap U = {} /\ S = T \cup U
  BY FS_Subset
<1>2. /\ \A x \in T \cup U : f[x] \in Int
      /\ \A x \in T : f[x] \in Nat
      /\ \A x \in U : f[x] \in Nat
  OBVIOUS
<1> HIDE DEF U
<1>3. SumFunctionOnSet(f, T \cup U)
        = SumFunctionOnSet(f, T) + SumFunctionOnSet(f, U)
  BY ONLY <1>1, <1>2, SumUnion
<1>4. SumFunctionOnSet(f, T) \in Nat
  BY ONLY <1>1, <1>2, SumNat
<1>5. SumFunctionOnSet(f, U) \in Nat
  BY ONLY <1>1, <1>2, SumNat
<1>6. SumFunctionOnSet(f, S)
        = SumFunctionOnSet(f, T) + SumFunctionOnSet(f, U)
  BY <1>1, <1>3
<1> QED
  BY <1>4, <1>5, <1>6

LEMMA SumZero ==
    ASSUME NEW f, NEW S, IsFiniteSet(S), \A x \in S : f[x] = 0
    PROVE  SumFunctionOnSet(f, S) = 0
PROOF
<1> DEFINE B == {s \in SUBSET S : SumFunctionOnSet(f, s) # 0}
<1>1. SUFFICES ASSUME B # {} PROVE FALSE
  OBVIOUS
<1>2. PICK s \in B : \A t \in B : Cardinality(s) <= Cardinality(t)
  BY <1>1, SmallestSubset
<1>3. s # {}
  BY SumEmpty
<1>4. IsFiniteSet(s) /\ Cardinality(s) \in Nat
  BY FS_Subset, FS_CardinalityType
<1>5. PICK x \in s : SumFunctionOnSet(f, s)
                       = f[x] + SumFunctionOnSet(f, s \ {x})
  BY <1>3, <1>4, SumChoose
<1>6. Cardinality(s \ {x}) = Cardinality(s) - 1
  BY <1>4, FS_RemoveElement
<1>7. s \ {x} \notin B
  BY <1>2, <1>4, <1>6
<1>8. SumFunctionOnSet(f, s \ {x}) = 0 /\ f[x] = 0
  BY <1>7
<1> QED
  BY <1>5, <1>8

(* Adding up by keys: rows grouped by g, the groups added up.              *)
LEMMA SumByKey ==
    ASSUME NEW f, NEW g, NEW A, NEW K, IsFiniteSet(A), IsFiniteSet(K),
           \A a \in A : f[a] \in Int /\ g[a] \in K
    PROVE  SumFunctionOnSet(f, A)
             = SumFunctionOnSet(
                 [k \in K |-> SumFunctionOnSet(f, {a \in A : g[a] = k})], K)
PROOF
<1> DEFINE F(s) == SumFunctionOnSet(f, s)
           Of(s, k) == {a \in s : g[a] = k}
           H(s) == [k \in K |-> F(Of(s, k))]
           G(s) == SumFunctionOnSet(H(s), K)
           B == {s \in SUBSET A : F(s) # G(s)}
<1>1. \A s \in SUBSET A : /\ IsFiniteSet(s) /\ Cardinality(s) \in Nat
                          /\ F(s) \in Int
  <2> TAKE s \in SUBSET A
  <2>1. IsFiniteSet(s) /\ Cardinality(s) \in Nat
    BY FS_Subset, FS_CardinalityType
  <2>2. \A x \in s : f[x] \in Int
    OBVIOUS
  <2> QED
    BY ONLY <2>1, <2>2, SumInt
<1>2. \A s \in SUBSET A, k \in K : H(s)[k] = F(Of(s, k)) /\ H(s)[k] \in Int
  BY <1>1
<1> HIDE DEF H
<1>3. \A s \in SUBSET A : G(s) \in Int
  BY <1>2, SumInt
<1>4. SUFFICES ASSUME B # {} PROVE FALSE
  BY DEF H
<1>5. PICK s \in B : \A t \in B : Cardinality(s) <= Cardinality(t)
  BY <1>4, SmallestSubset
<1>a. s \in SUBSET A /\ F(s) # G(s)
  OBVIOUS
<1>b. \A t \in SUBSET A : Cardinality(t) < Cardinality(s) => F(t) = G(t)
  BY <1>1, <1>5
<1> HIDE DEF B
<1>6. s # {}
  <2>1. F({}) = 0
    BY SumEmpty
  <2>2. \A k \in K : H({})[k] = 0
    <3> TAKE k \in K
    <3>1. Of({}, k) = {}
      OBVIOUS
    <3> QED
      BY <1>2, <2>1, <3>1
  <2>3. G({}) = 0
    BY <2>2, SumZero
  <2> QED
    BY <1>a, <2>1, <2>3
<1>7. PICK x : x \in s
  BY <1>6
<1> DEFINE t == s \ {x}
<1>8. t \in SUBSET A /\ F(t) = G(t)
  <2>1. Cardinality(t) = Cardinality(s) - 1
    BY <1>1, <1>7, <1>a, FS_RemoveElement
  <2>2. Cardinality(t) < Cardinality(s) /\ t \in SUBSET A
    BY <1>1, <1>a, <2>1
  <2> QED
    BY <1>b, <2>2
<1>9. F(s) = f[x] + F(t)
  <2>1. IsFiniteSet(s) /\ \A y \in s : f[y] \in Int
    BY <1>1, <1>a
  <2> QED
    BY ONLY <1>7, <2>1, SumRemove DEF F, t
<1>10. \A k \in K \ {g[x]} : H(t)[k] = H(s)[k]
  <2> TAKE k \in K \ {g[x]}
  <2>1. Of(t, k) = Of(s, k)
    OBVIOUS
  <2>2. H(t)[k] = F(Of(t, k)) /\ H(s)[k] = F(Of(s, k))
    BY <1>2, <1>8, <1>a
  <2> HIDE DEF Of, F
  <2> QED
    BY <2>1, <2>2
<1>11. H(s)[g[x]] = f[x] + H(t)[g[x]]
  <2> DEFINE k == g[x]
  <2>1. /\ x \in Of(s, k) /\ Of(t, k) = Of(s, k) \ {x}
        /\ Of(s, k) \in SUBSET A /\ k \in K
    BY <1>7, <1>a
  <2>2. IsFiniteSet(Of(s, k)) /\ \A y \in Of(s, k) : f[y] \in Int
    BY <1>1, <1>a
  <2>3. H(t)[k] = F(Of(t, k)) /\ H(s)[k] = F(Of(s, k))
    BY <1>2, <1>8, <1>a, <2>1
  <2> HIDE DEF Of
  <2>4. F(Of(s, k)) = f[x] + F(Of(s, k) \ {x})
    <3> DEFINE U == Of(s, k)
    <3>1. x \in U /\ IsFiniteSet(U) /\ \A y \in U : f[y] \in Int
      BY <2>1, <2>2
    <3> HIDE DEF U
    <3>2. SumFunctionOnSet(f, U) = f[x] + SumFunctionOnSet(f, U \ {x})
      BY ONLY <3>1, SumRemove
    <3> QED
      BY <3>2 DEF U
  <2> HIDE DEF F
  <2> QED
    BY <2>1, <2>3, <2>4
<1>12. G(s) = G(t) + H(s)[g[x]] - H(t)[g[x]]
  <2> DEFINE p == H(t)
             q == H(s)
  <2>1. /\ \A y \in K : p[y] \in Int /\ q[y] \in Int
        /\ \A y \in K \ {g[x]} : p[y] = q[y]
        /\ g[x] \in K
    BY <1>2, <1>7, <1>8, <1>10, <1>a
  <2> DEFINE z == g[x]
  <2> HIDE DEF p, q, z
  <2>2. /\ \A y \in K : p[y] \in Int /\ q[y] \in Int
        /\ \A y \in K \ {z} : p[y] = q[y]
        /\ z \in K
    BY <2>1 DEF z
  <2>3. SumFunctionOnSet(q, K) = SumFunctionOnSet(p, K) + q[z] - p[z]
    BY ONLY IsFiniteSet(K), <2>2, SumChange
  <2> QED
    BY <2>3 DEF p, q, z
<1>13. f[x] \in Int /\ H(t)[g[x]] \in Int /\ G(t) \in Int /\ F(t) = G(t)
  BY <1>2, <1>3, <1>7, <1>8, <1>a
<1> HIDE DEF F, G, t
<1>15. G(s) = G(t) + (f[x] + H(t)[g[x]]) - H(t)[g[x]]
  BY <1>11, <1>12
<1>16. G(s) = G(t) + f[x]
  BY <1>13, <1>15
<1> QED
  BY <1>9, <1>13, <1>a, <1>16

(* If every key can pay for its rows, the keys together can pay for all.   *)
LEMMA SumCharged ==
    ASSUME NEW f, NEW g, NEW b, NEW A, NEW K, IsFiniteSet(A), IsFiniteSet(K),
           \A a \in A : f[a] \in Int /\ g[a] \in K,
           \A k \in K : /\ b[k] \in Int
                        /\ SumFunctionOnSet(f, {a \in A : g[a] = k}) <= b[k]
    PROVE  SumFunctionOnSet(f, A) <= SumFunctionOnSet(b, K)
PROOF
<1> DEFINE h == [k \in K |-> SumFunctionOnSet(f, {a \in A : g[a] = k})]
<1>1. SumFunctionOnSet(f, A) = SumFunctionOnSet(h, K)
  BY SumByKey
<1>2. \A k \in K : h[k] \in Int /\ b[k] \in Int /\ h[k] <= b[k]
  <2> TAKE k \in K
  <2> DEFINE Ak == {a \in A : g[a] = k}
  <2>1. IsFiniteSet(Ak) /\ \A a \in Ak : f[a] \in Int
    BY FS_Subset
  <2>2. h[k] = SumFunctionOnSet(f, Ak) /\ SumFunctionOnSet(f, Ak) <= b[k]
    OBVIOUS
  <2> HIDE DEF Ak, h
  <2>3. SumFunctionOnSet(f, Ak) \in Int
    BY ONLY <2>1, SumInt
  <2> QED
    BY <2>2, <2>3
<1> HIDE DEF h
<1>3. SumFunctionOnSet(h, K) <= SumFunctionOnSet(b, K)
  BY ONLY IsFiniteSet(K), <1>2, SumMonotone
<1> QED
  BY <1>1, <1>3

(* Adding up the images of rows instead of the rows themselves, when no    *)
(* two rows have the same image.                                           *)
LEMMA SumImage ==
    ASSUME NEW f, NEW g, NEW h, NEW S, IsFiniteSet(S),
           \A x \in S : f[x] \in Int /\ h[g[x]] = f[x],
           \A x, y \in S : g[x] = g[y] => x = y
    PROVE  SumFunctionOnSet(h, {g[x] : x \in S}) = SumFunctionOnSet(f, S)
PROOF
<1> DEFINE Img(s) == {g[x] : x \in s}
           B == {s \in SUBSET S :
                   SumFunctionOnSet(h, Img(s)) # SumFunctionOnSet(f, s)}
<1>1. SUFFICES ASSUME B # {} PROVE FALSE
  OBVIOUS
<1>2. PICK s \in B : \A t \in B : Cardinality(s) <= Cardinality(t)
  BY <1>1, SmallestSubset
<1>3. s # {}
  <2>1. Img({}) = {}
    OBVIOUS
  <2> QED
    BY <2>1, SumEmpty
<1>4. PICK x \in s : TRUE
  BY <1>3
<1> DEFINE t == s \ {x}
<1>5. /\ IsFiniteSet(s) /\ Cardinality(s) \in Nat /\ s \subseteq S
      /\ IsFiniteSet(t) /\ t \subseteq S /\ x \notin t /\ s = t \cup {x}
  BY FS_Subset, FS_CardinalityType
<1>6. Cardinality(t) = Cardinality(s) - 1
  BY <1>4, <1>5, FS_RemoveElement
<1>7. t \notin B
  BY <1>2, <1>5, <1>6
<1>8. SumFunctionOnSet(h, Img(t)) = SumFunctionOnSet(f, t)
  BY <1>5, <1>7
<1>9. /\ Img(s) = Img(t) \cup {g[x]} /\ g[x] \notin Img(t)
      /\ \A y \in Img(t) \cup {g[x]} : h[y] \in Int
      /\ \A y \in t \cup {x} : f[y] \in Int
      /\ h[g[x]] = f[x]
  BY <1>5
<1>10. IsFiniteSet(Img(t))
  <2> DEFINE k == [y \in t |-> g[y]]
  <2>1. k \in Surjection(t, Img(t))
    BY DEF Surjection
  <2> HIDE DEF k, Img
  <2> QED
    BY <1>5, <2>1, FS_Surjection
<1> DEFINE I == Img(t)
           z == g[x]
<1> HIDE DEF t, Img
<1>11. SumFunctionOnSet(h, I \cup {z}) = SumFunctionOnSet(h, I) + h[z]
  <2>1. IsFiniteSet(I) /\ z \notin I /\ \A y \in I \cup {z} : h[y] \in Int
    BY <1>9, <1>10
  <2> HIDE DEF I, z
  <2> QED
    BY ONLY <2>1, SumAdd
<1>12. SumFunctionOnSet(f, t \cup {x}) = SumFunctionOnSet(f, t) + f[x]
  BY ONLY <1>5, <1>9, SumAdd
<1>13. SumFunctionOnSet(h, Img(s)) = SumFunctionOnSet(f, s)
  BY <1>5, <1>8, <1>9, <1>11, <1>12
<1> QED
  BY <1>13

(* The image of a finite set is finite.                                    *)
LEMMA ImageFinite ==
    ASSUME NEW f, NEW S, IsFiniteSet(S)
    PROVE  IsFiniteSet({f[x] : x \in S})
PROOF
<1> DEFINE T == {f[x] : x \in S}
           g == [x \in S |-> f[x]]
<1>1. g \in Surjection(S, T)
  BY DEF Surjection
<1>2. \E h : h \in Surjection(S, T)
  BY <1>1
<1> HIDE DEF g, T
<1>3. IsFiniteSet(T)
  BY <1>2, FS_Surjection
<1> QED
  BY <1>3 DEF T

(* The sum of two functions.                                               *)
LEMMA SumPlus ==
    ASSUME NEW f, NEW g, NEW h, NEW S, IsFiniteSet(S),
           \A x \in S : f[x] \in Int /\ g[x] \in Int /\ h[x] = f[x] + g[x]
    PROVE  SumFunctionOnSet(h, S) = SumFunctionOnSet(f, S) + SumFunctionOnSet(g, S)
PROOF
<1> DEFINE F(s) == SumFunctionOnSet(f, s)
           G(s) == SumFunctionOnSet(g, s)
           H(s) == SumFunctionOnSet(h, s)
           B == {s \in SUBSET S : H(s) # F(s) + G(s)}
<1>0. \A s \in SUBSET S : /\ IsFiniteSet(s) /\ Cardinality(s) \in Nat
                          /\ F(s) \in Int /\ G(s) \in Int /\ H(s) \in Int
  <2> TAKE s \in SUBSET S
  <2>1. IsFiniteSet(s) /\ Cardinality(s) \in Nat
    BY FS_Subset, FS_CardinalityType
  <2>2. \A x \in s : f[x] \in Int
    OBVIOUS
  <2>3. \A x \in s : g[x] \in Int
    OBVIOUS
  <2>4. \A x \in s : h[x] \in Int
    OBVIOUS
  <2>5. F(s) \in Int
    BY ONLY <2>1, <2>2, SumInt
  <2>6. G(s) \in Int
    BY ONLY <2>1, <2>3, SumInt
  <2>7. H(s) \in Int
    BY ONLY <2>1, <2>4, SumInt
  <2> QED
    BY <2>1, <2>5, <2>6, <2>7
<1>1. SUFFICES ASSUME B # {} PROVE FALSE
  OBVIOUS
<1>2. PICK s \in B : \A t \in B : Cardinality(s) <= Cardinality(t)
  BY <1>1, SmallestSubset
<1>3. s # {}
  <2>1. H({}) = 0 /\ F({}) = 0 /\ G({}) = 0
    BY SumEmpty
  <2>2. H({}) = F({}) + G({})
    <3> HIDE DEF F, G, H
    <3> QED
      BY <2>1
  <2>3. H(s) # F(s) + G(s)
    OBVIOUS
  <2> QED
    BY <2>2, <2>3
<1>4. PICK x \in s : TRUE
  BY <1>3
<1> DEFINE t == s \ {x}
<1>5. t \in SUBSET S /\ Cardinality(t) = Cardinality(s) - 1 /\ s \in SUBSET S /\ x \in S
  BY <1>0, <1>4, FS_RemoveElement
<1>6. t \notin B
  <2>1. Cardinality(s) \in Nat
    BY <1>0
  <2> HIDE DEF B, t
  <2> QED
    BY <1>2, <1>5, <2>1
<1>7. H(t) = F(t) + G(t)
  BY <1>5, <1>6
<1>8. IsFiniteSet(s) /\ x \in s
  BY <1>0, <1>4
<1>9. F(s) = f[x] + F(t)
  <2>1. \A y \in s : f[y] \in Int
    OBVIOUS
  <2> QED
    BY ONLY <1>8, <2>1, SumRemove
<1>10. G(s) = g[x] + G(t)
  <2>1. \A y \in s : g[y] \in Int
    OBVIOUS
  <2> QED
    BY ONLY <1>8, <2>1, SumRemove
<1>11. H(s) = h[x] + H(t)
  <2>1. \A y \in s : h[y] \in Int
    OBVIOUS
  <2> QED
    BY ONLY <1>8, <2>1, SumRemove
<1>12. f[x] \in Int /\ g[x] \in Int /\ h[x] = f[x] + g[x] /\ F(t) \in Int /\ G(t) \in Int
       /\ H(t) \in Int
  BY <1>0, <1>5
<1>13. H(s) # F(s) + G(s)
  OBVIOUS
<1> HIDE DEF F, G, H, t, B
<1> QED
  BY <1>7, <1>9, <1>10, <1>11, <1>12, <1>13

(* Changing the terms of a subset.                                         *)
LEMMA SumShift ==
    ASSUME NEW b, NEW c, NEW d, NEW K, NEW s, IsFiniteSet(K), s \in SUBSET K,
           \A k \in K : b[k] \in Int, \A k \in s : d[k] \in Int,
           \A k \in K : c[k] = IF k \in s THEN b[k] + d[k] ELSE b[k]
    PROVE  SumFunctionOnSet(c, K) = SumFunctionOnSet(b, K) + SumFunctionOnSet(d, s)
PROOF
<1> DEFINE u == K \ s
<1>1. IsFiniteSet(s) /\ IsFiniteSet(u) /\ s \cap u = {} /\ s \cup u = K
  BY FS_Subset
<1>2. SumFunctionOnSet(c, s) = SumFunctionOnSet(b, s) + SumFunctionOnSet(d, s)
  <2>1. \A x \in s : b[x] \in Int /\ d[x] \in Int /\ c[x] = b[x] + d[x]
    OBVIOUS
  <2> QED
    BY ONLY <1>1, <2>1, SumPlus
<1>3. SumFunctionOnSet(b, u) = SumFunctionOnSet(c, u)
  <2>1. \A x \in u : b[x] \in Int /\ b[x] = c[x]
    OBVIOUS
  <2> HIDE DEF u
  <2> QED
    BY ONLY <1>1, <2>1, SumEqual
<1>4. SumFunctionOnSet(b, K) = SumFunctionOnSet(b, s) + SumFunctionOnSet(b, u)
  <2>1. \A x \in s \cup u : b[x] \in Int
    OBVIOUS
  <2> HIDE DEF u
  <2>2. SumFunctionOnSet(b, s \cup u) = SumFunctionOnSet(b, s) + SumFunctionOnSet(b, u)
    BY ONLY <1>1, <2>1, SumUnion
  <2> QED
    BY <1>1, <2>2
<1>5. SumFunctionOnSet(c, K) = SumFunctionOnSet(c, s) + SumFunctionOnSet(c, u)
  <2>1. \A x \in s \cup u : c[x] \in Int
    OBVIOUS
  <2> HIDE DEF u
  <2>2. SumFunctionOnSet(c, s \cup u) = SumFunctionOnSet(c, s) + SumFunctionOnSet(c, u)
    BY ONLY <1>1, <2>1, SumUnion
  <2> QED
    BY <1>1, <2>2
<1>6. /\ SumFunctionOnSet(b, s) \in Int /\ SumFunctionOnSet(d, s) \in Int
      /\ SumFunctionOnSet(b, u) \in Int
  <2>1. \A x \in s : b[x] \in Int
    OBVIOUS
  <2>2. \A x \in u : b[x] \in Int
    OBVIOUS
  <2> HIDE DEF u
  <2>3. SumFunctionOnSet(b, s) \in Int
    BY ONLY <1>1, <2>1, SumInt
  <2>4. SumFunctionOnSet(d, s) \in Int
    BY <1>1, SumInt
  <2>5. SumFunctionOnSet(b, u) \in Int
    BY ONLY <1>1, <2>2, SumInt
  <2> QED
    BY <2>3, <2>4, <2>5
<1> HIDE DEF u
<1> QED
  BY <1>2, <1>3, <1>4, <1>5, <1>6

(* A sum of equal terms.                                                   *)
LEMMA SumConst ==
    ASSUME NEW f, NEW S, IsFiniteSet(S), NEW v \in Int, \A x \in S : f[x] = v
    PROVE  SumFunctionOnSet(f, S) = v * Cardinality(S)
PROOF
<1> DEFINE B == {s \in SUBSET S : SumFunctionOnSet(f, s) # v * Cardinality(s)}
<1>1. SUFFICES ASSUME B # {} PROVE FALSE
  OBVIOUS
<1>2. PICK s \in B : \A t \in B : Cardinality(s) <= Cardinality(t)
  BY <1>1, SmallestSubset
<1>3. s # {}
  <2>1. Cardinality({}) = 0 /\ v * 0 = 0 /\ SumFunctionOnSet(f, {}) = 0
    BY FS_EmptySet, SumEmpty
  <2> QED
    BY <2>1
<1>4. PICK x \in s : TRUE
  BY <1>3
<1>5. PICK t : t = s \ {x}
  OBVIOUS
<1>6. /\ IsFiniteSet(s) /\ Cardinality(s) \in Nat /\ Cardinality(t) = Cardinality(s) - 1
  BY <1>5, FS_Subset, FS_CardinalityType, FS_RemoveElement
<1>7. t \notin B /\ t \in SUBSET S
  <2>1. t \notin B
    <3> HIDE DEF B
    <3> QED
      BY <1>2, <1>6
  <2> QED
    BY <1>5, <2>1
<1>8. SumFunctionOnSet(f, t) = v * Cardinality(t)
  BY <1>7
<1>9. SumFunctionOnSet(f, s) = f[x] + SumFunctionOnSet(f, s \ {x})
  <2>1. x \in s /\ IsFiniteSet(s) /\ \A y \in s : f[y] \in Int
    BY <1>6
  <2> HIDE DEF B
  <2> QED
    BY ONLY <2>1, SumRemove
<1>10. PICK n \in Nat : n = Cardinality(s)
  BY <1>6
<1>11. SumFunctionOnSet(f, s) = v + v * (n - 1)
  BY <1>4, <1>5, <1>6, <1>8, <1>9, <1>10
<1>12. v + v * (n - 1) = v * n
  OBVIOUS
<1> QED
  BY <1>10, <1>11, <1>12
=============================================================================
