---------------------------- MODULE MetricsProofs ----------------------------
(***************************************************************************)
(* Proofs about the metric evaluations: any instruments, bursts, restarts  *)
(* and lost points, any window and tolerance.                              *)
(***************************************************************************)
EXTENDS DataPlane, TimeAuthority, Duration, FiniteSetTheorems, TLAPS

(* The least of some natural numbers, and the greatest of bounded ones.    *)
LEMMA LeastIsMin ==
  ASSUME NEW S, S \subseteq Nat, S # {}
  PROVE  Min(S) \in S /\ \A y \in S : Min(S) <= y
<1> DEFINE R == {ss \in Nat \X Nat : ss[1] < ss[2]}
<1>1. IsWellFoundedOn(R, Nat)
  BY NatLessThanWellFounded DEF OpToRel
<1>2. \A x, y \in S : y < x => <<y, x>> \in R
  OBVIOUS
<1> HIDE DEF R
<1>3. PICK x \in S : \A y \in S : <<y, x>> \notin R
  BY <1>1, WFMin
<1>4. \A y \in S : ~(y < x)
  BY <1>2, <1>3
<1>5. \A y \in S : x <= y
  BY <1>4
<1> QED
  BY <1>5, Zenon DEF Min

LEMMA GreatestIsMax ==
  ASSUME NEW S, S \subseteq Nat, S # {}, NEW n \in Nat, \A y \in S : y <= n
  PROVE  Max(S) \in S /\ \A y \in S : Max(S) >= y
<1> DEFINE T == {m \in Nat : n - m \in S}
<1>1. \A y \in S : n - y \in T
  OBVIOUS
<1>2. T # {} /\ T \subseteq Nat
  BY <1>1
<1> HIDE DEF T
<1>3. Min(T) \in T /\ \A m \in T : Min(T) <= m
  BY <1>2, LeastIsMin
<1>4. n - Min(T) \in S
  BY <1>3 DEF T
<1>5. \A y \in S : n - Min(T) >= y
  <2> SUFFICES ASSUME NEW y \in S PROVE n - Min(T) >= y
    OBVIOUS
  <2>1. Min(T) <= n - y /\ Min(T) \in Nat /\ y \in Nat
    BY <1>1, <1>2, <1>3
  <2> QED
    BY <2>1
<1>6. \E x \in S : \A y \in S : x >= y
  BY <1>4, <1>5
<1> QED
  BY <1>6, Zenon DEF Max

LEMMA PositivePart ==
  ASSUME NEW x \in Int
  PROVE  Max({0, x}) = IF x > 0 THEN x ELSE 0
<1> DEFINE m == IF x > 0 THEN x ELSE 0
<1>1. m \in {0, x} /\ \A y \in {0, x} : m >= y
  OBVIOUS
<1>2. \A z \in {0, x} : (\A y \in {0, x} : z >= y) => z = m
  OBVIOUS
<1> QED
  BY <1>1, <1>2, Zenon DEF Max

-----------------------------------------------------------------------------
(* Sums over finite sets.                                                  *)

(* What holds of the empty set, and of every set when it holds without one *)
(* of its elements, holds of all subsets of a finite set.                  *)
LEMMA SubsetInduction ==
  ASSUME NEW S, IsFiniteSet(S), NEW G, {} \in G,
         \A T \in SUBSET S : T # {} /\ (\A U \in SUBSET T : U # T => U \in G) => T \in G
  PROVE  SUBSET S \subseteq G
<1> DEFINE R == StrictSubsetOrdering(S)
           B == {T \in SUBSET S : T \notin G}
<1>1. IsWellFoundedOn(R, SUBSET S)
  BY FS_StrictSubsetOrderingWellFounded, FS_FiniteSubsetsOfFinite
<1>2. \A T, U \in SUBSET S : U \subseteq T /\ U # T => <<U, T>> \in R
  BY DEF StrictSubsetOrdering
<1> HIDE DEF R
<1>3. SUFFICES ASSUME B # {} PROVE FALSE
  OBVIOUS
<1>4. PICK T \in B : \A U \in B : <<U, T>> \notin R
  BY <1>1, <1>3, WFMin
<1>5. \A U \in SUBSET T : U # T => U \in G
  BY <1>2, <1>4
<1> QED
  BY <1>4, <1>5

LEMMA FiniteIsBounded ==
  ASSUME NEW S \in SUBSET Nat, IsFiniteSet(S)
  PROVE  \E n \in Nat : \A y \in S : y <= n
<1> DEFINE G == {T \in SUBSET S : \E n \in Nat : \A y \in T : y <= n}
<1>1. {} \in G
  <2>1. 0 \in Nat
    OBVIOUS
  <2> QED
    BY <2>1
<1>2. ASSUME NEW T \in SUBSET S, T # {}, \A U \in SUBSET T : U # T => U \in G
      PROVE  T \in G
  <2>1. PICK x \in T : TRUE
    BY <1>2
  <2>2. T \ {x} \in G
    BY <1>2, <2>1
  <2>3. PICK n \in Nat : \A y \in T \ {x} : y <= n
    BY <2>2
  <2>4. n + x \in Nat /\ \A y \in T : y <= n + x
    BY <2>3
  <2> QED
    BY <2>4
<1> HIDE DEF G
<1>3. SUBSET S \subseteq G
  BY <1>1, <1>2, SubsetInduction
<1> QED
  BY <1>3 DEF G

Any(s) == CHOOSE x \in s : TRUE

LEMMA AnyIs == ASSUME NEW s, s # {} PROVE Any(s) \in s
BY DEF Any

(* The sums of f over the subsets of S.                                    *)
AreSums(g, f, S) ==
  g = [s \in SUBSET S |-> IF s = {} THEN 0 ELSE f[Any(s)] + g[s \ {Any(s)}]]

LEMMA SumUnfolds ==
  ASSUME NEW f, NEW S
  PROVE  SumFunctionOnSet(f, S) = (CHOOSE g : AreSums(g, f, S))[S]
BY Zenon DEF SumFunctionOnSet, FoldFunctionOnSet, MapThenFoldSet, AreSums, Any

LEMMA SumsAgree ==
  ASSUME NEW S, IsFiniteSet(S), NEW U \in SUBSET S, NEW f, NEW g, NEW h, NEW e,
         AreSums(g, f, S), AreSums(h, e, U), \A x \in U : f[x] = e[x]
  PROVE  \A s \in SUBSET U : g[s] = h[s]
<1> DEFINE G == {s \in SUBSET U : g[s] = h[s]}
<1>1. IsFiniteSet(U)
  BY FS_Subset
<1>2. \A s \in SUBSET U :
        /\ g[s] = IF s = {} THEN 0 ELSE f[Any(s)] + g[s \ {Any(s)}]
        /\ h[s] = IF s = {} THEN 0 ELSE e[Any(s)] + h[s \ {Any(s)}]
  BY Zenon DEF AreSums
<1>3. {} \in G
  BY <1>2
<1>4. ASSUME NEW s \in SUBSET U, s # {}, \A r \in SUBSET s : r # s => r \in G
      PROVE  s \in G
  <2>1. Any(s) \in s
    BY <1>4, AnyIs
  <2>2. s \ {Any(s)} \in G /\ f[Any(s)] = e[Any(s)]
    BY <1>4, <2>1
  <2> QED
    BY <1>2, <1>4, <2>2
<1> HIDE DEF G
<1>5. SUBSET U \subseteq G
  BY <1>1, <1>3, <1>4, SubsetInduction
<1> QED
  BY <1>5 DEF G

LEMMA SumsExist ==
  ASSUME NEW S, IsFiniteSet(S), NEW f, \A x \in S : f[x] \in Int
  PROVE  \E g \in [SUBSET S -> Int] : AreSums(g, f, S)
<1> DEFINE G == {T \in SUBSET S : \E g \in [SUBSET T -> Int] : AreSums(g, f, T)}
<1>1. {} \in G
  <2> DEFINE g == [s \in SUBSET {} |-> 0]
  <2>1. g \in [SUBSET {} -> Int] /\ \A s \in SUBSET {} : s = {}
    OBVIOUS
  <2>2. AreSums(g, f, {})
    BY <2>1 DEF AreSums
  <2> QED
    BY <2>1, <2>2
<1>2. ASSUME NEW T \in SUBSET S, T # {}, \A U \in SUBSET T : U # T => U \in G
      PROVE  T \in G
  <2> DEFINE of(U) == CHOOSE g \in [SUBSET U -> Int] : AreSums(g, f, U)
             x == Any(T)
             g == [s \in SUBSET T |-> IF s = T THEN f[x] + of(T \ {x})[T \ {x}] ELSE of(s)[s]]
  <2>1. \A U \in SUBSET T : U # T => of(U) \in [SUBSET U -> Int] /\ AreSums(of(U), f, U)
    BY <1>2
  <2>2. x \in T /\ x \in S
    BY <1>2, AnyIs
  <2> HIDE DEF of
  <2>3. ASSUME NEW s \in SUBSET T, s # T, s # {}
        PROVE  of(s)[s] = f[Any(s)] + of(s \ {Any(s)})[s \ {Any(s)}]
    <3> DEFINE r == s \ {Any(s)}
    <3>1. r \in SUBSET s /\ r \in SUBSET T /\ r # T /\ Any(s) \in s
      BY <2>3, AnyIs
    <3>2. AreSums(of(s), f, s) /\ AreSums(of(r), f, r)
      BY <2>1, <2>3, <3>1
    <3>3. IsFiniteSet(s)
      BY FS_Subset
    <3>4. of(s)[s] = f[Any(s)] + of(s)[r]
      BY <2>3, <3>2, Zenon DEF AreSums
    <3> HIDE DEF r
    <3>5. \A q \in SUBSET r : of(s)[q] = of(r)[q]
      BY <3>1, <3>2, <3>3, SumsAgree
    <3>6. of(s)[s] = f[Any(s)] + of(r)[r]
      BY <3>4, <3>5
    <3> QED
      BY <3>6 DEF r
  <2>4. \A s \in SUBSET T : s # T => of(s)[s] \in Int
    BY <2>1
  <2>5. f[x] + of(T \ {x})[T \ {x}] \in Int
    BY <2>2, <2>4
  <2>6. g \in [SUBSET T -> Int]
    BY <2>4, <2>5
  <2>7. of({})[{}] = 0
    <3>1. AreSums(of({}), f, {})
      BY <1>2, <2>1
    <3> QED
      BY <3>1, Zenon DEF AreSums
  <2>8. \A s \in SUBSET T : g[s] = IF s = {} THEN 0 ELSE f[Any(s)] + g[s \ {Any(s)}]
    <3> SUFFICES ASSUME NEW s \in SUBSET T
                 PROVE  g[s] = IF s = {} THEN 0 ELSE f[Any(s)] + g[s \ {Any(s)}]
      OBVIOUS
    <3>1. CASE s = {}
      BY <1>2, <2>7, <3>1
    <3>2. CASE s # {}
      <4>1. Any(s) \in s
        BY <3>2, AnyIs
      <4>2. s \ {Any(s)} \in SUBSET T /\ s \ {Any(s)} # T
        BY <4>1
      <4>3. g[s \ {Any(s)}] = of(s \ {Any(s)})[s \ {Any(s)}]
        BY <4>2
      <4>4. CASE s = T
        BY <3>2, <4>3, <4>4
      <4>5. CASE s # T
        BY <2>3, <3>2, <4>3, <4>5
      <4> QED
        BY <4>4, <4>5
    <3> QED
      BY <3>1, <3>2
  <2>9. AreSums(g, f, T)
    <3>1. g = [s \in SUBSET T |-> g[s]]
      OBVIOUS
    <3> HIDE DEF g
    <3> QED
      BY <2>8, <3>1 DEF AreSums
  <2> QED
    BY <2>6, <2>9
<1> HIDE DEF G
<1>3. SUBSET S \subseteq G
  BY <1>1, <1>2, SubsetInduction
<1> QED
  BY <1>3 DEF G

Summed(g, f, S) ==
  /\ g \in [SUBSET S -> Int] /\ AreSums(g, f, S)
  /\ \A s \in SUBSET S : SumFunctionOnSet(f, s) = g[s]

LEMMA SumIs ==
  ASSUME NEW S, IsFiniteSet(S), NEW f, \A x \in S : f[x] \in Int
  PROVE  \E g : Summed(g, f, S)
<1>1. PICK g \in [SUBSET S -> Int] : AreSums(g, f, S)
  BY SumsExist
<1>2. ASSUME NEW s \in SUBSET S PROVE SumFunctionOnSet(f, s) = g[s]
  <2>1. IsFiniteSet(s) /\ \A x \in s : f[x] \in Int
    BY FS_Subset
  <2>2. \E h : AreSums(h, f, s)
    BY <2>1, SumsExist
  <2> DEFINE h == CHOOSE k : AreSums(k, f, s)
  <2>3. AreSums(h, f, s)
    BY <2>2
  <2>4. SumFunctionOnSet(f, s) = h[s]
    BY SumUnfolds
  <2> HIDE DEF h
  <2>5. g[s] = h[s]
    BY <1>1, <2>3, SumsAgree
  <2> QED
    BY <2>4, <2>5
<1>3. Summed(g, f, S)
  BY <1>1, <1>2 DEF Summed
<1> QED
  BY <1>3

LEMMA SumEmpty == ASSUME NEW f PROVE SumFunctionOnSet(f, {}) = 0
<1>1. IsFiniteSet({})
  BY FS_EmptySet
<1>2. PICK g : Summed(g, f, {})
  BY <1>1, SumIs
<1>3. g[{}] = 0
  BY <1>2, Zenon DEF Summed, AreSums
<1> QED
  BY <1>2, <1>3 DEF Summed

LEMMA SumType ==
  ASSUME NEW S, IsFiniteSet(S), NEW f, \A x \in S : f[x] \in Int
  PROVE  SumFunctionOnSet(f, S) \in Int
<1>1. PICK g : Summed(g, f, S)
  BY SumIs
<1> QED
  BY <1>1 DEF Summed

LEMMA SumCongruent ==
  ASSUME NEW S, IsFiniteSet(S), NEW f, NEW e, \A x \in S : f[x] \in Int /\ f[x] = e[x]
  PROVE  SumFunctionOnSet(f, S) = SumFunctionOnSet(e, S)
<1>1. PICK g : Summed(g, f, S)
  BY SumIs
<1>2. \A x \in S : e[x] \in Int
  OBVIOUS
<1>3. PICK h : Summed(h, e, S)
  BY <1>2, SumIs
<1>4. g[S] = h[S]
  BY <1>1, <1>3, SumsAgree DEF Summed
<1> QED
  BY <1>1, <1>3, <1>4 DEF Summed

(* Any element can be taken out first.                                     *)
LEMMA SumWithout ==
  ASSUME NEW S, IsFiniteSet(S), NEW f, \A x \in S : f[x] \in Int, NEW x \in S
  PROVE  SumFunctionOnSet(f, S) = f[x] + SumFunctionOnSet(f, S \ {x})
<1>1. PICK g : Summed(g, f, S)
  BY SumIs
<1>2. \A s \in SUBSET S : s # {} => g[s] = f[Any(s)] + g[s \ {Any(s)}]
  BY <1>1, Zenon DEF Summed, AreSums
<1> DEFINE G == {s \in SUBSET S : \A y \in s : g[s] = f[y] + g[s \ {y}]}
<1>3. {} \in G
  OBVIOUS
<1>4. ASSUME NEW s \in SUBSET S, s # {}, \A r \in SUBSET s : r # s => r \in G
      PROVE  s \in G
  <2> DEFINE a == Any(s)
  <2>1. a \in s /\ g[s] = f[a] + g[s \ {a}]
    BY <1>2, <1>4, AnyIs
  <2> HIDE DEF a
  <2>2. ASSUME NEW y \in s, y # a PROVE g[s] = f[y] + g[s \ {y}]
    <3>1. s \ {a} \in G /\ y \in s \ {a}
      BY <1>4, <2>1, <2>2
    <3>2. s \ {y} \in G /\ a \in s \ {y}
      BY <1>4, <2>1, <2>2
    <3>3. g[s \ {a}] = f[y] + g[(s \ {a}) \ {y}]
      BY <3>1
    <3>4. g[s \ {y}] = f[a] + g[(s \ {y}) \ {a}]
      BY <3>2
    <3>5. (s \ {a}) \ {y} = (s \ {y}) \ {a} /\ (s \ {a}) \ {y} \in SUBSET S
      OBVIOUS
    <3> DEFINE v == g[(s \ {a}) \ {y}]
               w == g[s \ {y}]
    <3>6. v \in Int /\ f[a] \in Int /\ f[y] \in Int
      BY <1>1, <2>1, <3>5 DEF Summed
    <3>7. g[s] = f[a] + (f[y] + v) /\ w = f[a] + v
      BY <2>1, <3>3, <3>4, <3>5
    <3> HIDE DEF v, w
    <3>8. g[s] = f[y] + w
      BY <3>6, <3>7
    <3> QED
      BY <3>8 DEF w
  <2> QED
    BY <2>1, <2>2
<1> HIDE DEF G
<1>5. SUBSET S \subseteq G
  BY <1>3, <1>4, SubsetInduction
<1>6. g[S] = f[x] + g[S \ {x}]
  BY <1>5 DEF G
<1> QED
  BY <1>1, <1>6 DEF Summed

LEMMA SumUnion ==
  ASSUME NEW A, NEW B, IsFiniteSet(A), IsFiniteSet(B), A \cap B = {},
         NEW f, \A x \in A \cup B : f[x] \in Int
  PROVE  SumFunctionOnSet(f, A \cup B) = SumFunctionOnSet(f, A) + SumFunctionOnSet(f, B)
<1> DEFINE G == {s \in SUBSET A :
     SumFunctionOnSet(f, s \cup B) = SumFunctionOnSet(f, s) + SumFunctionOnSet(f, B)}
<1>0. SumFunctionOnSet(f, B) \in Int
  BY SumType
<1>1. {} \in G
  BY <1>0, SumEmpty
<1>2. ASSUME NEW s \in SUBSET A, s # {}, \A r \in SUBSET s : r # s => r \in G
      PROVE  s \in G
  <2>1. PICK x \in s : TRUE
    BY <1>2
  <2>2. s \ {x} \in G /\ (s \cup B) \ {x} = (s \ {x}) \cup B
    BY <1>2, <2>1
  <2>3. IsFiniteSet(s) /\ IsFiniteSet(s \ {x})
    BY FS_Subset
  <2>4. IsFiniteSet(s \cup B) /\ \A y \in s \cup B : f[y] \in Int
    BY <2>3, FS_Union
  <2>5. SumFunctionOnSet(f, s) = f[x] + SumFunctionOnSet(f, s \ {x})
    BY <2>3, <2>4, SumWithout
  <2>6. SumFunctionOnSet(f, s \cup B) = f[x] + SumFunctionOnSet(f, (s \cup B) \ {x})
    BY <2>4, SumWithout
  <2>7. SumFunctionOnSet(f, s \ {x}) \in Int /\ f[x] \in Int
    BY <2>3, <2>4, SumType
  <2> DEFINE v == SumFunctionOnSet(f, s \ {x})
             b == SumFunctionOnSet(f, B)
  <2>8. SumFunctionOnSet(f, s \cup B) = f[x] + (v + b) /\ SumFunctionOnSet(f, s) = f[x] + v
    BY <2>2, <2>5, <2>6
  <2>9. v \in Int /\ b \in Int /\ f[x] \in Int
    BY <1>0, <2>7
  <2> HIDE DEF v, b
  <2>10. f[x] + (v + b) = (f[x] + v) + b
    BY <2>9
  <2>11. SumFunctionOnSet(f, s \cup B) = SumFunctionOnSet(f, s) + b
    BY <2>8, <2>10
  <2> QED
    BY <2>11 DEF b
<1> HIDE DEF G
<1>3. SUBSET A \subseteq G
  BY <1>1, <1>2, SubsetInduction
<1> QED
  BY <1>3 DEF G

LEMMA SumOfNaturals ==
  ASSUME NEW S, IsFiniteSet(S), NEW f, \A x \in S : f[x] \in Nat
  PROVE  SumFunctionOnSet(f, S) \in Nat
<1> DEFINE G == {s \in SUBSET S : SumFunctionOnSet(f, s) \in Nat}
<1>1. {} \in G
  BY SumEmpty
<1>2. ASSUME NEW s \in SUBSET S, s # {}, \A r \in SUBSET s : r # s => r \in G
      PROVE  s \in G
  <2>1. PICK x \in s : TRUE
    BY <1>2
  <2>2. SumFunctionOnSet(f, s \ {x}) \in Nat
    BY <1>2, <2>1
  <2>3. IsFiniteSet(s) /\ \A y \in s : f[y] \in Int
    BY FS_Subset
  <2>4. SumFunctionOnSet(f, s) = f[x] + SumFunctionOnSet(f, s \ {x})
    BY <2>3, SumWithout
  <2> QED
    BY <2>2, <2>4
<1> HIDE DEF G
<1>3. SUBSET S \subseteq G
  BY <1>1, <1>2, SubsetInduction
<1> QED
  BY <1>3 DEF G

LEMMA SumOfOne ==
  ASSUME NEW f, NEW x, f[x] \in Int
  PROVE  SumFunctionOnSet(f, {x}) = f[x]
<1>1. IsFiniteSet({x}) /\ {x} \ {x} = {}
  BY FS_Singleton
<1>2. SumFunctionOnSet(f, {x}) = f[x] + SumFunctionOnSet(f, {})
  BY <1>1, SumWithout
<1> QED
  BY <1>2, SumEmpty

LEMMA SumOfParts ==
  ASSUME NEW S, IsFiniteSet(S), NEW A \in SUBSET S, NEW f, \A x \in S : f[x] \in Nat
  PROVE  /\ SumFunctionOnSet(f, A) \in Nat /\ SumFunctionOnSet(f, S) \in Nat
         /\ SumFunctionOnSet(f, S) = SumFunctionOnSet(f, A) + SumFunctionOnSet(f, S \ A)
         /\ SumFunctionOnSet(f, A) <= SumFunctionOnSet(f, S)
<1> DEFINE B == S \ A
<1>1. IsFiniteSet(A) /\ IsFiniteSet(B)
  BY FS_Subset
<1>2. A \cup B = S /\ A \cap B = {}
  OBVIOUS
<1>3. \A x \in B : f[x] \in Nat
  OBVIOUS
<1>4. SumFunctionOnSet(f, A) \in Nat /\ SumFunctionOnSet(f, B) \in Nat /\ SumFunctionOnSet(f, S) \in Nat
  BY <1>1, <1>3, SumOfNaturals
<1>a. \A x \in A \cup B : f[x] \in Int
  BY <1>2
<1> HIDE DEF B
<1>5. SumFunctionOnSet(f, A \cup B) = SumFunctionOnSet(f, A) + SumFunctionOnSet(f, B)
  BY <1>1, <1>2, <1>a, SumUnion
<1>6. SumFunctionOnSet(f, S) = SumFunctionOnSet(f, A) + SumFunctionOnSet(f, B)
  BY <1>2, <1>5
<1>7. SumFunctionOnSet(f, A) <= SumFunctionOnSet(f, S)
  BY <1>4, <1>6
<1> QED
  BY <1>4, <1>6, <1>7 DEF B

LEMMA SumOfZeros ==
  ASSUME NEW S, IsFiniteSet(S), NEW f, \A x \in S : f[x] = 0
  PROVE  SumFunctionOnSet(f, S) = 0
<1> DEFINE G == {s \in SUBSET S : SumFunctionOnSet(f, s) = 0}
<1>1. {} \in G
  BY SumEmpty
<1>2. ASSUME NEW s \in SUBSET S, s # {}, \A r \in SUBSET s : r # s => r \in G
      PROVE  s \in G
  <2>1. PICK x \in s : TRUE
    BY <1>2
  <2>2. SumFunctionOnSet(f, s \ {x}) = 0
    BY <1>2, <2>1
  <2>3. IsFiniteSet(s) /\ \A y \in s : f[y] \in Int
    BY FS_Subset
  <2>4. SumFunctionOnSet(f, s) = f[x] + SumFunctionOnSet(f, s \ {x})
    BY <2>3, SumWithout
  <2> QED
    BY <2>2, <2>4
<1> HIDE DEF G
<1>3. SUBSET S \subseteq G
  BY <1>1, <1>2, SubsetInduction
<1> QED
  BY <1>3 DEF G

LEMMA SumPlus ==
  ASSUME NEW S, IsFiniteSet(S), NEW f, NEW g, NEW e,
         \A x \in S : f[x] \in Int /\ g[x] \in Int /\ e[x] = f[x] + g[x]
  PROVE  SumFunctionOnSet(e, S) = SumFunctionOnSet(f, S) + SumFunctionOnSet(g, S)
<1> DEFINE G == {s \in SUBSET S :
     SumFunctionOnSet(e, s) = SumFunctionOnSet(f, s) + SumFunctionOnSet(g, s)}
<1>1. {} \in G
  BY SumEmpty
<1>2. ASSUME NEW s \in SUBSET S, s # {}, \A r \in SUBSET s : r # s => r \in G
      PROVE  s \in G
  <2>1. PICK x \in s : TRUE
    BY <1>2
  <2> DEFINE r == s \ {x}
             a == SumFunctionOnSet(f, r)
             b == SumFunctionOnSet(g, r)
  <2>2. SumFunctionOnSet(e, r) = a + b
    BY <1>2, <2>1
  <2>3. /\ IsFiniteSet(s) /\ IsFiniteSet(r)
        /\ \A y \in s : f[y] \in Int /\ g[y] \in Int /\ e[y] \in Int
    BY FS_Subset
  <2>4. \A y \in s : f[y] \in Int
    BY <2>3
  <2>5. \A y \in s : g[y] \in Int
    BY <2>3
  <2>6. \A y \in s : e[y] \in Int
    BY <2>3
  <2>7. SumFunctionOnSet(f, s) = f[x] + a
    BY <2>3, <2>4, SumWithout
  <2>8. SumFunctionOnSet(g, s) = g[x] + b
    BY <2>3, <2>5, SumWithout
  <2>9. SumFunctionOnSet(e, s) = e[x] + SumFunctionOnSet(e, r)
    BY <2>3, <2>6, SumWithout
  <2>10. \A y \in r : f[y] \in Int
    BY <2>3
  <2>11. \A y \in r : g[y] \in Int
    BY <2>3
  <2>12. a \in Int
    BY <2>3, <2>10, SumType
  <2>13. b \in Int
    BY <2>3, <2>11, SumType
  <2> HIDE DEF a, b
  <2>14. e[x] = f[x] + g[x] /\ f[x] \in Int /\ g[x] \in Int
    OBVIOUS
  <2>15. SumFunctionOnSet(e, s) = (f[x] + g[x]) + (a + b)
    BY <2>2, <2>9, <2>14
  <2>16. (f[x] + g[x]) + (a + b) = (f[x] + a) + (g[x] + b)
    BY <2>12, <2>13, <2>14
  <2> QED
    BY <2>7, <2>8, <2>15, <2>16
<1> HIDE DEF G
<1>3. SUBSET S \subseteq G
  BY <1>1, <1>2, SubsetInduction
<1> QED
  BY <1>3 DEF G

(* Rows and columns of f.                                                  *)
Table(X, Y, f, a, c, b) ==
  /\ \A x \in X, y \in Y : f[x][y] \in Int
  /\ \A x \in X : a[x] = SumFunctionOnSet(f[x], Y)
  /\ \A y \in Y, x \in X : c[y][x] = f[x][y]
  /\ \A y \in Y : b[y] = SumFunctionOnSet(c[y], X)

LEMMA SumSwap ==
  ASSUME NEW X, IsFiniteSet(X), NEW Y, IsFiniteSet(Y),
         NEW f, NEW a, NEW c, NEW b, Table(X, Y, f, a, c, b)
  PROVE  SumFunctionOnSet(a, X) = SumFunctionOnSet(b, Y)
<1> USE DEF Table
<1> DEFINE column(T) == [y \in Y |-> SumFunctionOnSet(c[y], T)]
           G == {T \in SUBSET X : SumFunctionOnSet(a, T) = SumFunctionOnSet(column(T), Y)}
<1>0. \A T \in SUBSET X : \A y \in Y : column(T)[y] = SumFunctionOnSet(c[y], T)
  OBVIOUS
<1>a. \A x \in X : a[x] \in Int
  <2> SUFFICES ASSUME NEW x \in X PROVE a[x] \in Int
    OBVIOUS
  <2>1. \A y \in Y : f[x][y] \in Int
    OBVIOUS
  <2>2. SumFunctionOnSet(f[x], Y) \in Int
    BY <2>1, SumType
  <2> QED
    BY <2>2
<1>1. {} \in G
  <2>1. \A y \in Y : column({})[y] = 0
    BY SumEmpty
  <2> HIDE DEF column
  <2>2. SumFunctionOnSet(column({}), Y) = 0
    BY <2>1, SumOfZeros
  <2> QED
    BY <2>2, SumEmpty
<1> HIDE DEF column
<1>2. ASSUME NEW T \in SUBSET X, T # {}, \A U \in SUBSET T : U # T => U \in G
      PROVE  T \in G
  <2>1. PICK x \in T : TRUE
    BY <1>2
  <2> DEFINE U == T \ {x}
  <2>2. SumFunctionOnSet(a, U) = SumFunctionOnSet(column(U), Y)
    BY <1>2, <2>1
  <2>3. IsFiniteSet(T) /\ IsFiniteSet(U) /\ U \in SUBSET X
    BY FS_Subset
  <2>4. \A y \in T : a[y] \in Int
    BY <1>a
  <2>5. SumFunctionOnSet(a, T) = a[x] + SumFunctionOnSet(a, U)
    BY <2>3, <2>4, SumWithout
  <2>6. ASSUME NEW y \in Y
        PROVE  /\ f[x][y] \in Int /\ column(U)[y] \in Int
               /\ column(T)[y] = f[x][y] + column(U)[y]
    <3>1. \A z \in T : c[y][z] \in Int
      OBVIOUS
    <3>2. SumFunctionOnSet(c[y], T) = c[y][x] + SumFunctionOnSet(c[y], U)
      BY <2>3, <3>1, SumWithout
    <3>3. \A z \in U : c[y][z] \in Int
      OBVIOUS
    <3>4. SumFunctionOnSet(c[y], U) \in Int
      BY <2>3, <3>3, SumType
    <3>5. c[y][x] = f[x][y] /\ f[x][y] \in Int
      OBVIOUS
    <3> QED
      BY <1>0, <2>3, <3>2, <3>4, <3>5
  <2>7. SumFunctionOnSet(column(T), Y) = SumFunctionOnSet(f[x], Y) + SumFunctionOnSet(column(U), Y)
    <3> DEFINE d == f[x]
               u == column(U)
               t == column(T)
    <3>1. \A y \in Y : d[y] \in Int /\ u[y] \in Int /\ t[y] = d[y] + u[y]
      BY <2>6
    <3> HIDE DEF d, u, t
    <3>2. SumFunctionOnSet(t, Y) = SumFunctionOnSet(d, Y) + SumFunctionOnSet(u, Y)
      BY <3>1, SumPlus
    <3> QED
      BY <3>2 DEF d, u, t
  <2>8. a[x] = SumFunctionOnSet(f[x], Y)
    OBVIOUS
  <2> QED
    BY <2>2, <2>5, <2>7, <2>8
<1> HIDE DEF G
<1>3. SUBSET X \subseteq G
  BY <1>1, <1>2, SubsetInduction
<1>4. SumFunctionOnSet(a, X) = SumFunctionOnSet(column(X), Y)
  BY <1>3 DEF G
<1>5. \A y \in Y : column(X)[y] \in Int /\ column(X)[y] = b[y]
  <2> SUFFICES ASSUME NEW y \in Y PROVE column(X)[y] \in Int /\ column(X)[y] = b[y]
    OBVIOUS
  <2>1. \A x \in X : c[y][x] \in Int
    OBVIOUS
  <2>2. SumFunctionOnSet(c[y], X) \in Int
    BY <2>1, SumType
  <2> QED
    BY <1>0, <2>2
<1>6. SumFunctionOnSet(column(X), Y) = SumFunctionOnSet(b, Y)
  BY <1>5, SumCongruent
<1> QED
  BY <1>4, <1>6

(* Sums of groups.                                                         *)
Grouped(J, S, f, B, a) ==
  /\ \A x \in S : f[x] \in Int
  /\ \A j \in J : B[j] \in SUBSET S
  /\ \A i, j \in J : i # j => B[i] \cap B[j] = {}
  /\ \A j \in J : a[j] = SumFunctionOnSet(f, B[j])

LEMMA SumOfGroups ==
  ASSUME NEW J, IsFiniteSet(J), NEW S, IsFiniteSet(S),
         NEW f, NEW B, NEW a, Grouped(J, S, f, B, a)
  PROVE  SumFunctionOnSet(a, J) = SumFunctionOnSet(f, UNION {B[j] : j \in J})
<1> USE DEF Grouped
<1> DEFINE all(K) == UNION {B[j] : j \in K}
           G == {K \in SUBSET J : SumFunctionOnSet(a, K) = SumFunctionOnSet(f, all(K))}
<1>1. {} \in G
  <2>1. all({}) = {}
    OBVIOUS
  <2> QED
    BY <2>1, SumEmpty
<1>2. ASSUME NEW K \in SUBSET J, K # {}, \A L \in SUBSET K : L # K => L \in G
      PROVE  K \in G
  <2>1. PICK j \in K : TRUE
    BY <1>2
  <2> DEFINE L == K \ {j}
             M == all(L)
  <2>2. SumFunctionOnSet(a, L) = SumFunctionOnSet(f, M)
    BY <1>2, <2>1
  <2>3. all(K) = B[j] \cup M /\ B[j] \cap M = {} /\ B[j] \subseteq S /\ M \subseteq S
    OBVIOUS
  <2> HIDE DEF M
  <2>4. IsFiniteSet(K) /\ IsFiniteSet(B[j]) /\ IsFiniteSet(M)
    BY <2>3, FS_Subset
  <2>5. \A k \in K : a[k] \in Int
    <3> SUFFICES ASSUME NEW k \in K PROVE a[k] \in Int
      OBVIOUS
    <3>1. IsFiniteSet(B[k]) /\ \A x \in B[k] : f[x] \in Int
      BY FS_Subset
    <3>2. SumFunctionOnSet(f, B[k]) \in Int
      BY <3>1, SumType
    <3> QED
      BY <3>2
  <2>6. SumFunctionOnSet(a, K) = a[j] + SumFunctionOnSet(a, L)
    BY <2>4, <2>5, SumWithout
  <2>7. \A x \in B[j] \cup M : f[x] \in Int
    BY <2>3
  <2>8. SumFunctionOnSet(f, B[j] \cup M) = SumFunctionOnSet(f, B[j]) + SumFunctionOnSet(f, M)
    BY <2>3, <2>4, <2>7, SumUnion
  <2>9. a[j] = SumFunctionOnSet(f, B[j])
    OBVIOUS
  <2>10. SumFunctionOnSet(a, K) = SumFunctionOnSet(f, all(K))
    BY <2>2, <2>3, <2>6, <2>8, <2>9
  <2> QED
    BY <2>10
<1> HIDE DEF G
<1>3. SUBSET J \subseteq G
  BY <1>1, <1>2, SubsetInduction
<1> QED
  BY <1>3 DEF G

-----------------------------------------------------------------------------
(* Intervals.                                                              *)
Proper(C) ==
  \A i \in C : /\ i.start \in Nat /\ i.observed \in Nat
              /\ i.start < i.observed /\ i.observed <= WindowEnd

LEMMA IntervalEnds ==
  ASSUME NEW C, Proper(C), C # {}
  PROVE  /\ Min(Starts(C)) \in Starts(C) /\ Min(Starts(C)) \in Nat
         /\ Max(Ends(C)) \in Ends(C) /\ Max(Ends(C)) \in Nat /\ Max(Ends(C)) <= WindowEnd
         /\ \A i \in C : Min(Starts(C)) <= i.start /\ i.observed <= Max(Ends(C))
<1>1. Starts(C) \subseteq Nat /\ Starts(C) # {}
  BY DEF Proper, Starts
<1>2. /\ Ends(C) \subseteq Nat /\ Ends(C) # {} /\ WindowEnd \in Nat
      /\ \A e \in Ends(C) : e <= WindowEnd
  BY InstrumentAssumption DEF Proper, Ends
<1>3. Min(Starts(C)) \in Starts(C) /\ \A t \in Starts(C) : Min(Starts(C)) <= t
  BY <1>1, LeastIsMin
<1>4. Max(Ends(C)) \in Ends(C) /\ \A t \in Ends(C) : Max(Ends(C)) >= t
  BY <1>2, GreatestIsMax
<1>5. \A i \in C : i.start \in Starts(C) /\ i.observed \in Ends(C)
  BY DEF Starts, Ends
<1> QED
  BY <1>1, <1>2, <1>3, <1>4, <1>5

(* Where every interval but the last ends, another one begins: nothing     *)
(* between the first start and the last end is left out.                   *)
LEMMA NothingBetween ==
  ASSUME NEW C, Proper(C), C # {},
         \A i \in C : i.observed = Max(Ends(C)) \/ i.observed \in Starts(C),
         NEW t \in Nat, Min(Starts(C)) < t, t <= Max(Ends(C))
  PROVE  t \in Instants(C)
<1> DEFINE E == {i.observed : i \in {j \in C : j.start < t}}
<1>1. \E i \in C : i.start < t
  BY IntervalEnds DEF Starts
<1>2. E # {} /\ E \subseteq Nat /\ WindowEnd \in Nat /\ \A e \in E : e <= WindowEnd
  BY <1>1, InstrumentAssumption DEF Proper
<1>3. \A i \in C : i.start < t => i.observed \in E
  OBVIOUS
<1>4. \A e \in E : \E i \in C : i.start < t /\ i.observed = e
  OBVIOUS
<1> HIDE DEF E
<1>5. Max(E) \in E /\ \A e \in E : Max(E) >= e
  BY <1>2, GreatestIsMax
<1>6. PICK i \in C : i.start < t /\ i.observed = Max(E)
  BY <1>4, <1>5
<1>7. ASSUME i.observed < t PROVE FALSE
  <2>1. i.observed # Max(Ends(C))
    BY <1>7, IntervalEnds
  <2>2. PICK j \in C : j.start = i.observed
    BY <2>1 DEF Starts
  <2>3. j.observed \in E /\ j.start < j.observed
    BY <1>3, <1>7, <2>2 DEF Proper
  <2>4. Max(E) >= j.observed
    BY <1>5, <2>3
  <2> QED
    BY <1>6, <2>2, <2>3, <2>4 DEF Proper
<1>8. i.start \in Nat /\ i.observed \in Nat
  BY DEF Proper
<1>9. t \in i.start + 1 .. i.observed
  BY <1>6, <1>7, <1>8
<1> QED
  BY <1>9 DEF Instants

LEMMA SizeOfPart ==
  ASSUME NEW a \in Nat, NEW b \in Nat, NEW S, S \subseteq a + 1 .. b
  PROVE  /\ IsFiniteSet(S)
         /\ Cardinality(S) <= IF a < b THEN b - a ELSE 0
<1>1. /\ IsFiniteSet(a + 1 .. b)
      /\ Cardinality(a + 1 .. b) = IF a + 1 > b THEN 0 ELSE b - (a + 1) + 1
  BY FS_Interval
<1>2. IsFiniteSet(S) /\ Cardinality(S) <= Cardinality(a + 1 .. b)
  BY <1>1, FS_Subset
<1>3. Cardinality(S) \in Nat
  BY <1>2, FS_CardinalityType
<1> QED
  BY <1>1, <1>2, <1>3

(* The two edges of the window are all that gap-free coverage can miss.    *)
LEMMA CoverageMisses ==
  ASSUME NEW C, Proper(C), Covered(C), temporality # "delta"
  PROVE  /\ IsFiniteSet(InTheWindow \ Instants(C))
         /\ Cardinality(InTheWindow \ Instants(C)) <= Tolerance
<1> DEFINE a == Min(Starts(C))
           b == Max(Ends(C))
           early == InTheWindow \cap (WindowStart + 1 .. a)
           late == InTheWindow \cap (b + 1 .. WindowEnd)
<1>0. WindowStart \in Nat /\ WindowEnd \in Nat /\ Tolerance \in Nat
  BY InstrumentAssumption, ToleranceAssumption
<1>1. /\ C # {}
      /\ \A i \in C : i.observed = Max(Ends(C)) \/ i.observed \in Starts(C)
      /\ Max({0, a - WindowStart}) + Max({0, WindowEnd - b}) <= Tolerance
  BY DEF Covered
<1>2. a \in Nat /\ b \in Nat
  BY <1>1, IntervalEnds
<1>3. InTheWindow \ Instants(C) \subseteq early \cup late
  <2> SUFFICES ASSUME NEW t \in InTheWindow, t \notin Instants(C)
               PROVE  t <= a \/ t > b
    BY <1>0, <1>2 DEF InTheWindow
  <2>1. t \in Nat
    BY <1>0 DEF InTheWindow
  <2> QED
    BY <1>1, <1>2, <2>1, NothingBetween
<1> HIDE DEF a, b
<1>4. /\ IsFiniteSet(early) /\ Cardinality(early) <= IF WindowStart < a THEN a - WindowStart ELSE 0
      /\ IsFiniteSet(late) /\ Cardinality(late) <= IF b < WindowEnd THEN WindowEnd - b ELSE 0
  BY <1>0, <1>2, SizeOfPart
<1> HIDE DEF early, late
<1>5. /\ IsFiniteSet(early \cup late)
      /\ Cardinality(early \cup late) = Cardinality(early) + Cardinality(late) - Cardinality(early \cap late)
  BY <1>4, FS_Union
<1>6. Cardinality(early) \in Nat /\ Cardinality(late) \in Nat /\ Cardinality(early \cap late) \in Nat
  BY <1>4, FS_CardinalityType, FS_Intersection
<1>7. /\ IsFiniteSet(InTheWindow \ Instants(C))
      /\ Cardinality(InTheWindow \ Instants(C)) <= Cardinality(early \cup late)
  BY <1>3, <1>5, FS_Subset
<1>8. Cardinality(InTheWindow \ Instants(C)) \in Nat /\ Cardinality(early \cup late) \in Nat
  BY <1>5, <1>7, FS_CardinalityType
<1>9. \A x \in Int : Max({0, x}) = IF x > 0 THEN x ELSE 0
  BY PositivePart
<1>10. /\ Max({0, a - WindowStart}) = IF a - WindowStart > 0 THEN a - WindowStart ELSE 0
       /\ Max({0, WindowEnd - b}) = IF WindowEnd - b > 0 THEN WindowEnd - b ELSE 0
  BY <1>0, <1>2, <1>9
<1> QED
  BY <1>0, <1>1, <1>2, <1>4, <1>5, <1>6, <1>7, <1>8, <1>10

(* And what it has too much of lies before the window.                     *)
LEMMA CoverageExceeds ==
  ASSUME NEW C, Proper(C), Covered(C)
  PROVE  /\ IsFiniteSet(Instants(C) \ InTheWindow)
         /\ Cardinality(Instants(C) \ InTheWindow) <= Tolerance
<1> DEFINE a == Min(Starts(C))
<1>0. WindowStart \in Nat /\ WindowEnd \in Nat /\ Tolerance \in Nat
  BY InstrumentAssumption, ToleranceAssumption
<1>1. C # {} /\ Distance(a, WindowStart) <= Tolerance
  BY DEF Covered
<1>2. a \in Nat /\ \A i \in C : a <= i.start
  BY <1>1, IntervalEnds
<1> HIDE DEF a
<1>3. Instants(C) \ InTheWindow \subseteq a + 1 .. WindowStart
  <2> SUFFICES ASSUME NEW i \in C, NEW t \in i.start + 1 .. i.observed, t \notin InTheWindow
               PROVE  t \in a + 1 .. WindowStart
    BY DEF Instants
  <2>1. i.start \in Nat /\ i.observed \in Nat /\ i.observed <= WindowEnd /\ a <= i.start
    BY <1>2 DEF Proper
  <2> QED
    BY <1>0, <1>2, <2>1 DEF InTheWindow
<1>4. /\ IsFiniteSet(Instants(C) \ InTheWindow)
      /\ Cardinality(Instants(C) \ InTheWindow) <= IF a < WindowStart THEN WindowStart - a ELSE 0
  BY <1>0, <1>2, <1>3, SizeOfPart
<1>5. Cardinality(Instants(C) \ InTheWindow) \in Nat
  BY <1>4, FS_CardinalityType
<1> QED
  BY <1>0, <1>1, <1>2, <1>4, <1>5 DEF Distance

-----------------------------------------------------------------------------
(* The points.  Each covers some time up to the latest collection.         *)
Dated ==
  /\ now \in 0 .. MaxTime /\ started \in Nat /\ collected \in Nat
  /\ started <= collected /\ collected <= now
  /\ \A p \in points : /\ p.start \in Nat /\ p.observed \in Nat
                       /\ p.start < p.observed /\ p.observed <= collected

(* The incarnations of the process follow each other.                      *)
Incarnated ==
  temporality # "delta" =>
    /\ \A p \in points : p.start <= started /\ (p.start < started => p.observed <= started)
    /\ \A p, q \in points : p.start < q.start => p.observed <= q.start

(* The one point a collection adds, if any.                                *)
Collected(p, exported) ==
  /\ p.observed = now
  /\ p.start = IF temporality = "delta" THEN collected ELSE started
  /\ p.reading = [k \in exported |->
                   IF temporality = "delta" THEN count[k] - base[k] ELSE count[k]]

LEMMA CollectAdds ==
  ASSUME NEW exported, Collect(exported)
  PROVE  /\ collected < now /\ collected' = now /\ base' = count
         /\ UNCHANGED <<config, now, history, started, count, restarts>>
         /\ points \subseteq points'
         /\ \A p \in points' : p \in points \/ (exported # {} /\ Collected(p, exported))
<1>1. CASE temporality = "delta"
  BY <1>1 DEF Collect, Collected
<1>2. CASE temporality # "delta"
  BY <1>2 DEF Collect, Collected
<1> QED
  BY <1>1, <1>2

LEMMA InitDated == Init => Dated /\ Incarnated
BY InstrumentAssumption DEF Init, Dated, Incarnated

LEMMA StepDated ==
  ASSUME Dated, Incarnated, [Next]_vars
  PROVE  Dated' /\ Incarnated'
<1> USE InstrumentAssumption DEF Dated, Incarnated, config
<1>1. ASSUME NEW burst, Work(burst) PROVE Dated' /\ Incarnated'
  BY <1>1 DEF Work
<1>2. ASSUME NEW exported, Collect(exported) PROVE Dated' /\ Incarnated'
  <2>1. /\ collected < now /\ collected' = now
        /\ UNCHANGED <<temporality, now, started>>
        /\ \A p \in points' : \/ p \in points
                             \/ /\ p.observed = now
                                /\ p.start = IF temporality = "delta" THEN collected ELSE started
    BY <1>2, CollectAdds DEF Collected
  <2>2. Dated'
    BY <2>1
  <2>3. Incarnated'
    <3> SUFFICES ASSUME temporality # "delta" PROVE Incarnated'
      BY <2>1
    <3>1. \A p \in points' : p \in points \/ (p.observed = now /\ p.start = started)
      BY <2>1
    <3> QED
      BY <2>1, <3>1
  <2> QED
    BY <2>2, <2>3
<1>3. CASE Restart
  BY <1>3 DEF Restart
<1>4. CASE UNCHANGED vars
  BY <1>4 DEF vars, process
<1> QED
  BY <1>1, <1>2, <1>3, <1>4 DEF Next

LEMMA PointsDated == Spec => [](Dated /\ Incarnated)
<1> QED
  BY InitDated, StepDated, PTL DEF Spec
-----------------------------------------------------------------------------
(* What the aggregates over the window are made of.                        *)
AreDated(P) ==
  \A p \in P : /\ p.start \in Nat /\ p.observed \in Nat
              /\ p.start < p.observed /\ p.observed <= now

LEMMA LatestIsLast ==
  ASSUME now \in Nat, NEW S, S # {}, AreDated(S)
  PROVE  Latest(S) \in S /\ \A q \in S : q.observed <= Latest(S).observed
<1> DEFINE T == {p.observed : p \in S}
<1>1. T # {} /\ T \subseteq Nat /\ \A t \in T : t <= now
  BY DEF AreDated
<1>2. Max(T) \in T /\ \A t \in T : Max(T) >= t
  BY <1>1, GreatestIsMax
<1>3. PICK p \in S : p.observed = Max(T)
  BY <1>2
<1>4. \A q \in S : q.observed <= p.observed
  BY <1>2, <1>3 DEF AreDated
<1> QED
  BY <1>4, Zenon DEF Latest

(* A contribution is the latest point of an incarnation, after its         *)
(* baseline where it began before the window.                              *)
LEMMA ContributionsAre ==
  ASSUME now \in Nat, NEW P, AreDated(P), NEW c \in CumulativeContributions(P)
  PROVE  \E latest \in P :
           /\ c = Contribution(P, latest.start)
           /\ latest.observed <= WindowEnd
           /\ \A q \in P : q.start = latest.start /\ q.observed <= WindowEnd
                          => q.observed <= latest.observed
           /\ \/ latest.start >= WindowStart /\ c = <<latest>>
              \/ /\ latest.start < WindowStart
                 /\ \E baseline \in P :
                      /\ c = <<baseline, latest>>
                      /\ baseline.start = latest.start
                      /\ baseline.observed <= WindowStart
                      /\ baseline.observed < latest.observed
                      /\ \A q \in P :
                           /\ q.start = latest.start
                           /\ q.observed <= WindowStart /\ q.observed < latest.observed
                           => q.observed <= baseline.observed
<1>0. WindowStart \in Nat /\ WindowEnd \in Nat /\ WindowStart < WindowEnd
  BY InstrumentAssumption
<1>1. PICK s \in InWindow(P) : c = Contribution(P, s)
  BY DEF CumulativeContributions, NoAggregate
<1>2. s < WindowStart => Baselines(P, s) # {}
  BY <1>1 DEF CumulativeContributions, NoAggregate
<1>3. s \in Incarnations(P)
  BY DEF InWindow
<1>4. Series(P, s) # {} /\ AreDated(Series(P, s)) /\ Series(P, s) \subseteq P /\ s \in Nat
  BY <1>3 DEF Incarnations, Series, AreDated
<1> DEFINE latest == Latest(Series(P, s))
<1>5. latest \in Series(P, s) /\ \A q \in Series(P, s) : q.observed <= latest.observed
  BY <1>4, LatestIsLast
<1>6. /\ latest \in P /\ latest.start = s /\ latest.observed <= WindowEnd
      /\ \A q \in P : q.start = s /\ q.observed <= WindowEnd => q.observed <= latest.observed
  BY <1>5 DEF Series
<1>7. CASE s >= WindowStart
  <2>1. c = <<latest>>
    BY <1>1, <1>7 DEF Contribution
  <2> QED
    BY <1>1, <1>6, <1>7, <2>1
<1>8. CASE s < WindowStart
  <2> DEFINE baseline == Latest(Baselines(P, s))
  <2>1. Baselines(P, s) # {} /\ AreDated(Baselines(P, s))
    BY <1>2, <1>4, <1>8 DEF Baselines, AreDated
  <2>2. /\ baseline \in Baselines(P, s)
        /\ \A q \in Baselines(P, s) : q.observed <= baseline.observed
    BY <2>1, LatestIsLast
  <2>3. c = <<baseline, latest>>
    BY <1>0, <1>1, <1>4, <1>8 DEF Contribution
  <2>4. /\ baseline \in P /\ baseline.start = s /\ baseline.observed <= WindowStart
        /\ baseline.observed < latest.observed
    BY <2>2 DEF Baselines, Series
  <2>5. ASSUME NEW q \in P, q.start = s, q.observed <= WindowStart, q.observed < latest.observed
        PROVE  q.observed <= baseline.observed
    <3>1. q.observed \in Nat /\ q.observed <= WindowEnd
      BY <1>0, <2>5 DEF AreDated
    <3>2. q \in Baselines(P, s)
      BY <2>5, <3>1 DEF Baselines, Series
    <3> QED
      BY <2>2, <3>2
  <2> QED
    BY <1>1, <1>6, <1>8, <2>3, <2>4, <2>5
<1> QED
  BY <1>0, <1>4, <1>7, <1>8

(* What cumulative counters cover.                                         *)
LEMMA CounterCoverage ==
  ASSUME Dated, NEW m, temporality # "delta"
  PROVE  Proper(Coverage(m))
<1> DEFINE P == CounterPoints(m)
<1>0. now \in Nat /\ WindowEnd \in Nat
  BY InstrumentAssumption DEF Dated
<1>1. AreDated(P)
  BY InstrumentAssumption DEF Dated, AreDated, CounterPoints
<1>2. SUFFICES ASSUME NEW c \in CumulativeContributions(P),
                      ~(Increase(c).start >= Increase(c).observed)
               PROVE  /\ Increase(c).start \in Nat /\ Increase(c).observed \in Nat
                      /\ Increase(c).start < Increase(c).observed
                      /\ Increase(c).observed <= WindowEnd
  <2>1. ASSUME NEW d \in Contributions(m)
        PROVE  /\ d.start \in Nat /\ d.observed \in Nat
               /\ d.start < d.observed /\ d.observed <= WindowEnd
    <3>1. PICK c \in CumulativeContributions(P) : d = Increase(c)
      BY DEF Contributions, CumulativeIncrease, NoAggregate
    <3>2. ~(d.start >= d.observed)
      BY DEF Contributions, CumulativeIncrease, NoAggregate
    <3> QED
      BY <1>2, <3>1, <3>2
  <2> QED
    BY <2>1 DEF Proper, Coverage, Intervals
<1> HIDE DEF P
<1>3. PICK latest \in P : /\ latest.observed <= WindowEnd
                         /\ \/ c = <<latest>>
                            \/ \E baseline \in P : c = <<baseline, latest>>
  BY <1>0, <1>1, <1>2, ContributionsAre
<1>4. CASE c = <<latest>>
  BY <1>1, <1>2, <1>3, <1>4 DEF Increase, AreDated
<1>5. ASSUME NEW baseline \in P, c = <<baseline, latest>>
      PROVE  /\ Increase(c).start \in Nat /\ Increase(c).observed \in Nat
             /\ Increase(c).start < Increase(c).observed
             /\ Increase(c).observed <= WindowEnd
  <2>1. Increase(c).start = baseline.observed /\ Increase(c).observed = latest.observed
    BY <1>5 DEF Increase
  <2> QED
    BY <1>1, <1>2, <1>3, <2>1 DEF AreDated
<1> QED
  BY <1>3, <1>4, <1>5

(* A verdict on cumulative counters is about the window, but for the       *)
(* tolerated edges: require_window_coverage of the intervals that          *)
(* counter_window_aggregate built decides it, whatever was restarted or    *)
(* lost before.                                                            *)
THEOREM CountersCoverWindow == Spec => []CumulativeMeansWindow
<1>1. Dated /\ Incarnated => CumulativeMeansWindow
  <2> SUFFICES ASSUME Dated, temporality = "cumulative", Conclusive
               PROVE  /\ Cardinality(InTheWindow \ CoveredInstants) <= Tolerance
                      /\ Cardinality(CoveredInstants \ InTheWindow) <= Tolerance
    BY DEF CumulativeMeansWindow
  <2>1. Proper(Coverage("received"))
    BY CounterCoverage
  <2>2. Covered(Coverage("received"))
    BY DEF Conclusive, Counters
  <2> QED
    BY <2>1, <2>2, CoverageMisses, CoverageExceeds DEF CoveredInstants
<1> QED
  BY <1>1, PointsDated, PTL

-----------------------------------------------------------------------------
(* Histograms.                                                             *)
LEMMA PointsOfHistogram ==
  ASSUME Dated
  PROVE  /\ AreDated(HistogramPoints)
         /\ \A h \in HistogramPoints : \E p \in points :
              h.start = p.start /\ h.observed = p.observed
         /\ \A p \in points : \E h \in HistogramPoints :
              h.start = p.start /\ h.observed = p.observed
<1>1. \A p \in points : Point(p).start = p.start /\ Point(p).observed = p.observed
  BY DEF Point
<1> QED
  BY <1>1, InstrumentAssumption DEF HistogramPoints, Dated, AreDated

LEMMA OuterEnds ==
  ASSUME NEW x \in Nat, NEW y \in Nat
  PROVE  /\ Max({x, y}) \in Nat /\ Max({x, y}) >= x /\ Max({x, y}) >= y
         /\ Min({x, y}) \in Nat /\ Min({x, y}) <= x /\ Min({x, y}) <= y
<1>1. {x, y} \subseteq Nat /\ {x, y} # {}
  OBVIOUS
<1>2. Min({x, y}) \in {x, y} /\ \A z \in {x, y} : Min({x, y}) <= z
  BY <1>1, LeastIsMin
<1>3. \A z \in {x, y} : z <= x + y
  OBVIOUS
<1>4. Max({x, y}) \in {x, y} /\ \A z \in {x, y} : Max({x, y}) >= z
  BY <1>1, <1>3, GreatestIsMax
<1> QED
  BY <1>2, <1>4

(* The coverage that is checked lies within what is counted.               *)
LEMMA ClippedCoverage ==
  ASSUME NEW S, \A c \in S : c.start \in Nat /\ c.observed \in Nat
  PROVE  /\ Proper(WindowCoverage(S))
         /\ Instants(WindowCoverage(S)) \subseteq Instants(S)
<1>0. WindowStart \in Nat /\ WindowEnd \in Nat
  BY InstrumentAssumption
<1>1. ASSUME NEW i \in WindowCoverage(S)
      PROVE  /\ i.start \in Nat /\ i.observed \in Nat
             /\ i.start < i.observed /\ i.observed <= WindowEnd
             /\ \E c \in S : c.start <= i.start /\ i.observed <= c.observed
  <2>a. PICK j \in Intervals(S) :
          i = [start |-> Max({j.start, WindowStart}), observed |-> Min({j.observed, WindowEnd})]
    BY DEF WindowCoverage
  <2>b. PICK c \in S : j = [start |-> c.start, observed |-> c.observed]
    BY DEF Intervals
  <2>1. /\ i.start = Max({c.start, WindowStart})
        /\ i.observed = Min({c.observed, WindowEnd})
        /\ i.start < i.observed
    BY <2>a, <2>b DEF WindowCoverage
  <2>2. /\ i.start \in Nat /\ i.start >= c.start
        /\ i.observed \in Nat /\ i.observed <= c.observed /\ i.observed <= WindowEnd
    BY <1>0, <2>1, OuterEnds
  <2> QED
    BY <2>1, <2>2
<1>2. ASSUME NEW t \in Instants(WindowCoverage(S))
      PROVE  t \in Instants(S)
  <2>1. PICK i \in WindowCoverage(S) : t \in i.start + 1 .. i.observed
    BY DEF Instants
  <2>2. PICK c \in S : c.start <= i.start /\ i.observed <= c.observed
    BY <1>1
  <2>3. t \in c.start + 1 .. c.observed
    BY <1>1, <2>1, <2>2
  <2> QED
    BY <2>3 DEF Instants
<1> QED
  BY <1>1, <1>2 DEF Proper

(* A contribution of a cumulative histogram: one point, or what one has    *)
(* more than the baseline before the window.                               *)
LEMMA CumulativeHistogram ==
  ASSUME Dated, temporality = "cumulative",
         NEW c \in HistogramContributions(HistogramPoints)
  PROVE  \E latest \in HistogramPoints :
           /\ c.observed = latest.observed /\ latest.observed <= WindowEnd
           /\ \A q \in HistogramPoints : q.start = latest.start /\ q.observed <= WindowEnd
                                        => q.observed <= latest.observed
           /\ \/ latest.start >= WindowStart /\ c.start = latest.start
              \/ \E baseline \in HistogramPoints :
                   /\ c.start = baseline.observed /\ baseline.start = latest.start
                   /\ baseline.observed < latest.observed
                   /\ \A q \in HistogramPoints :
                        /\ q.start = latest.start
                        /\ q.observed <= WindowStart /\ q.observed < latest.observed
                        => q.observed <= baseline.observed
<1>1. PICK d \in CumulativeContributions(HistogramPoints) : c = Subtract(d)
  BY DEF HistogramContributions, NoAggregate
<1>2. AreDated(HistogramPoints) /\ now \in Nat
  BY PointsOfHistogram, InstrumentAssumption DEF Dated
<1>3. PICK latest \in HistogramPoints :
           /\ latest.observed <= WindowEnd
           /\ \A q \in HistogramPoints : q.start = latest.start /\ q.observed <= WindowEnd
                                        => q.observed <= latest.observed
           /\ \/ latest.start >= WindowStart /\ d = <<latest>>
              \/ \E baseline \in HistogramPoints :
                      /\ d = <<baseline, latest>>
                      /\ baseline.start = latest.start
                      /\ baseline.observed < latest.observed
                      /\ \A q \in HistogramPoints :
                           /\ q.start = latest.start
                           /\ q.observed <= WindowStart /\ q.observed < latest.observed
                           => q.observed <= baseline.observed
  BY <1>2, ContributionsAre
<1>4. CASE latest.start >= WindowStart /\ d = <<latest>>
  <2>1. c = latest
    BY <1>1, <1>4 DEF Subtract
  <2> QED
    BY <1>3, <1>4, <2>1
<1>5. ASSUME NEW baseline \in HistogramPoints, d = <<baseline, latest>>
      PROVE  c.start = baseline.observed /\ c.observed = latest.observed
  BY <1>1, <1>5 DEF Subtract
<1> QED
  BY <1>3, <1>4, <1>5

(* What such a coverage leaves out of the window is within the tolerance.  *)
LEMMA MergedMisses ==
  ASSUME temporality = "cumulative",
         NEW S, \A c \in S : c.start \in Nat /\ c.observed \in Nat,
         Covered(WindowCoverage(S))
  PROVE  Cardinality(InTheWindow \ Instants(S)) <= Tolerance
<1> DEFINE C == WindowCoverage(S)
<1>1. Proper(C) /\ Instants(C) \subseteq Instants(S) /\ Covered(C)
  BY ClippedCoverage
<1> HIDE DEF C
<1>2. /\ IsFiniteSet(InTheWindow \ Instants(C))
      /\ Cardinality(InTheWindow \ Instants(C)) <= Tolerance
  BY <1>1, CoverageMisses
<1>3. InTheWindow \ Instants(S) \subseteq InTheWindow \ Instants(C)
  BY <1>1
<1>4. /\ IsFiniteSet(InTheWindow \ Instants(S))
      /\ Cardinality(InTheWindow \ Instants(S)) <= Cardinality(InTheWindow \ Instants(C))
  BY <1>2, <1>3, FS_Subset
<1>5. /\ Cardinality(InTheWindow \ Instants(S)) \in Nat
      /\ Cardinality(InTheWindow \ Instants(C)) \in Nat
  BY <1>2, <1>4, FS_CardinalityType
<1> QED
  BY <1>2, <1>4, <1>5, ToleranceAssumption

(* What a percentile read off a cumulative series leaves out of the window *)
(* is within the tolerance of histogram_window_coverage, and what it       *)
(* counts from before goes back to the last point before the window and no *)
(* further, however the process was restarted.                             *)
THEOREM PercentileCoversWindow == Spec => []PercentileMeansWindow
<1>1. ASSUME Dated, Incarnated, temporality = "cumulative",
             NEW percent, Proved(InWindowContributions, percent) # Unbounded
      PROVE  Cardinality(InTheWindow \ Instants(InWindowContributions)) <= Tolerance
  <2> DEFINE S == InWindowContributions
  <2>1. Covered(WindowCoverage(S))
    BY <1>1 DEF Proved
  <2>2. now \in Nat /\ AreDated(HistogramPoints)
    BY <1>1, PointsOfHistogram, InstrumentAssumption DEF Dated
  <2>3. \A c \in S : c.start \in Nat /\ c.observed \in Nat
    <3> SUFFICES ASSUME NEW c \in S PROVE c.start \in Nat /\ c.observed \in Nat
      OBVIOUS
    <3>1. \E latest \in HistogramPoints :
            /\ c.observed = latest.observed
            /\ \/ c.start = latest.start
               \/ \E baseline \in HistogramPoints : c.start = baseline.observed
      BY <1>1, CumulativeHistogram DEF InWindowContributions
    <3> QED
      BY <2>2, <3>1 DEF AreDated
  <2> HIDE DEF S
  <2>4. Cardinality(InTheWindow \ Instants(S)) <= Tolerance
    BY <1>1, <2>1, <2>3, MergedMisses
  <2> QED
    BY <2>4 DEF S
<1>2. ASSUME Dated, Incarnated, temporality = "cumulative",
             NEW t \in Instants(InWindowContributions) \ InTheWindow
      PROVE  /\ t <= WindowStart
             /\ \A p \in points : p.observed = t =>
                  ~\E q \in points : q.start = p.start /\ t < q.observed /\ q.observed <= WindowEnd
  <2>0. now \in Nat /\ AreDated(HistogramPoints) /\ WindowStart \in Nat /\ WindowEnd \in Nat
    BY <1>2, PointsOfHistogram, InstrumentAssumption DEF Dated
  <2>1. PICK c \in InWindowContributions : t \in c.start + 1 .. c.observed
    BY DEF Instants
  <2>2. PICK latest \in HistogramPoints :
           /\ c.observed = latest.observed /\ latest.observed <= WindowEnd
           /\ \A q \in HistogramPoints : q.start = latest.start /\ q.observed <= WindowEnd
                                        => q.observed <= latest.observed
           /\ \/ latest.start >= WindowStart /\ c.start = latest.start
              \/ \E baseline \in HistogramPoints :
                   /\ c.start = baseline.observed /\ baseline.start = latest.start
                   /\ baseline.observed < latest.observed
                   /\ \A q \in HistogramPoints :
                        /\ q.start = latest.start
                        /\ q.observed <= WindowStart /\ q.observed < latest.observed
                        => q.observed <= baseline.observed
    BY <1>2, CumulativeHistogram DEF InWindowContributions
  <2>3. latest.start \in Nat /\ latest.observed \in Nat
    BY <2>0 DEF AreDated
  <2>4. ~(latest.start >= WindowStart /\ c.start = latest.start)
    BY <1>2, <2>0, <2>1, <2>2, <2>3 DEF InTheWindow
  <2>5. PICK baseline \in HistogramPoints :
                   /\ c.start = baseline.observed /\ baseline.start = latest.start
                   /\ baseline.observed < latest.observed
                   /\ \A q \in HistogramPoints :
                        /\ q.start = latest.start
                        /\ q.observed <= WindowStart /\ q.observed < latest.observed
                        => q.observed <= baseline.observed
    BY <2>2, <2>4
  <2>6. /\ baseline.start \in Nat /\ baseline.observed \in Nat
        /\ baseline.start < baseline.observed
    BY <2>0 DEF AreDated
  <2>7. t \in Nat /\ baseline.observed < t /\ t <= latest.observed
    BY <2>1, <2>2, <2>3, <2>5, <2>6
  <2>8. t <= WindowStart
    BY <1>2, <2>0, <2>2, <2>3, <2>7 DEF InTheWindow
  <2>9. ASSUME NEW p \in points, p.observed = t,
               NEW q \in points, q.start = p.start, t < q.observed, q.observed <= WindowEnd
        PROVE  FALSE
    <3>1. PICK hp \in HistogramPoints : hp.start = p.start /\ hp.observed = t
      BY <1>2, <2>9, PointsOfHistogram
    <3>2. PICK last \in points : last.start = latest.start /\ last.observed = latest.observed
      BY <1>2, PointsOfHistogram
    <3>3. p.start \in Nat /\ q.observed \in Nat /\ p.start < t
      BY <1>2, <2>9 DEF Dated
    <3>4. CASE p.start = latest.start
      <4>1. t < latest.observed
        <5>1. PICK hq \in HistogramPoints : hq.start = q.start /\ hq.observed = q.observed
          BY <1>2, <2>9, PointsOfHistogram
        <5>2. hq.observed <= latest.observed
          BY <2>2, <2>9, <3>4, <5>1
        <5> QED
          BY <2>3, <2>7, <2>9, <3>3, <5>1, <5>2
      <4> QED
        BY <2>5, <2>6, <2>7, <2>8, <3>1, <3>4, <4>1
    <3>5. CASE p.start < latest.start
      <4>1. t <= latest.start
        BY <1>2, <2>9, <3>2, <3>5 DEF Incarnated
      <4> QED
        BY <2>3, <2>5, <2>6, <2>7, <4>1
    <3>6. CASE latest.start < p.start
      <4>1. latest.observed <= p.start
        BY <1>2, <2>9, <3>2, <3>6 DEF Incarnated
      <4> QED
        BY <2>3, <2>7, <3>3, <4>1
    <3> QED
      BY <2>3, <3>3, <3>4, <3>5, <3>6
  <2> QED
    BY <2>8, <2>9
<1>3. Dated /\ Incarnated => PercentileMeansWindow
  BY <1>1, <1>2 DEF PercentileMeansWindow
<1> QED
  BY <1>3, PointsDated, PTL
-----------------------------------------------------------------------------
(* Gauges.                                                                 *)

(* A sample says what the gauge was at that instant.                       *)
Gauged ==
  kind = "gauge" =>
    /\ "gauge" \in Kinds /\ temporality # "delta"
    /\ history \in [1 .. MaxTime -> [{"level"} -> Nat]]
    /\ count \in [{"level"} -> Nat]
    /\ collected < now => count = history[now]
    /\ \A p \in points : /\ p.observed \in 1 .. MaxTime
                         /\ p.reading["level"] = history[p.observed]["level"]

LEMMA InitGauged == Init => Gauged
BY InstrumentAssumption, DurationAssumption DEF Init, Gauged, Zero

LEMMA StepGauged ==
  ASSUME Dated, Gauged, [Next]_vars
  PROVE  Gauged'
<1>0. MaxTime \in Nat /\ Keys["gauge"] = {"level"}
  BY InstrumentAssumption, DurationAssumption
<1>1. ASSUME kind = "gauge", NEW burst \in [{"level"} -> Nat], Work(burst)
      PROVE Gauged'
  <2>1. /\ now + 1 \in 1 .. MaxTime /\ now' = now + 1 /\ count' = burst
        /\ history' = [history EXCEPT ![now + 1] = burst]
        /\ UNCHANGED <<kind, temporality, collected, points>>
    BY <1>0, <1>1 DEF Work, Dated, config
  <2>2. history' \in [1 .. MaxTime -> [{"level"} -> Nat]] /\ history'[now'] = burst
    BY <1>1, <2>1 DEF Gauged
  <2>3. ASSUME NEW p \in points
        PROVE  p.observed \in 1 .. MaxTime /\ history'[p.observed] = history[p.observed]
    <3>1. p.observed \in 1 .. MaxTime /\ p.observed # now + 1
      BY <1>0, <1>1 DEF Dated, Gauged
    <3> QED
      BY <1>1, <2>1, <3>1 DEF Gauged
  <2> QED
    BY <1>1, <2>1, <2>2, <2>3 DEF Gauged
<1>2. ASSUME kind = "gauge", NEW exported \in SUBSET {"level"}, Collect(exported)
      PROVE Gauged'
  <2>1. /\ collected < now /\ collected' = now
        /\ UNCHANGED <<kind, temporality, now, history, count>>
        /\ \A p \in points' : p \in points \/ (exported # {} /\ Collected(p, exported))
    BY <1>2, CollectAdds DEF config
  <2>2. ASSUME NEW p \in points', p \notin points
        PROVE  p.observed = now /\ p.reading["level"] = count["level"]
    <3>1. exported = {"level"} /\ Collected(p, exported)
      BY <1>2, <2>1, <2>2
    <3> QED
      BY <1>2, <3>1 DEF Collected, Gauged
  <2>3. now \in 1 .. MaxTime
    BY <1>0, <2>1 DEF Dated
  <2>4. ~(collected' < now')
    BY <2>1, <2>3
  <2> QED
    BY <1>2, <2>1, <2>2, <2>3, <2>4 DEF Gauged
<1>3. ASSUME kind = "gauge", Restart PROVE Gauged'
  <2>1. ~(collected' < now') /\ count' = Zero /\ UNCHANGED <<kind, temporality, history, points>>
    BY <1>0, <1>3 DEF Restart, Dated, config
  <2>2. count' \in [{"level"} -> Nat]
    BY <1>0, <1>3, <2>1 DEF Zero
  <2> QED
    BY <1>3, <2>1, <2>2 DEF Gauged
<1>4. CASE UNCHANGED vars
  BY <1>4 DEF vars, process, config, Gauged
<1>5. kind' = kind
  BY DEF Next, vars, Work, Collect, Restart, config
<1>6. ASSUME kind = "gauge", Next PROVE Gauged'
  <2>1. /\ Bursts[kind] \subseteq [{"level"} -> Nat]
        /\ Exports[kind] \subseteq SUBSET {"level"}
    BY <1>0, <1>6, InstrumentAssumption DEF Gauged
  <2>2. ASSUME NEW burst \in Bursts[kind], Work(burst) PROVE Gauged'
    BY <1>1, <1>6, <2>1, <2>2
  <2>3. ASSUME NEW exported \in Exports[kind], Collect(exported) PROVE Gauged'
    BY <1>2, <1>6, <2>1, <2>3
  <2> QED
    BY <1>3, <1>6, <2>2, <2>3 DEF Next
<1> QED
  BY <1>4, <1>5, <1>6 DEF Gauged
(* Between two instants without a sample between them there is no more     *)
(* than a permitted gap.                                                   *)
LEMMA NoSampleBetween ==
  ASSUME Sampled, Times \subseteq Nat,
         NEW a \in WindowStart .. WindowEnd, NEW b \in WindowStart .. WindowEnd, a <= b,
         \A t \in Times : ~(a < t /\ t < b)
  PROVE  b - a <= MaxGap
<1>0. /\ WindowStart \in Nat /\ WindowEnd \in Nat /\ MaxGap \in Nat
      /\ a \in Nat /\ b \in Nat
  BY InstrumentAssumption, DurationAssumption
<1>1. Times # {} /\ \A t \in Times : t <= WindowEnd
  BY DEF Sampled, Times, Samples
<1>2. Min(Times) \in Times /\ \A t \in Times : Min(Times) <= t
  BY <1>1, LeastIsMin
<1>3. Max(Times) \in Times /\ \A t \in Times : Max(Times) >= t
  BY <1>0, <1>1, GreatestIsMax
<1>4. CASE \A t \in Times : t > a
  <2> DEFINE m == Min(Times)
  <2>a. m \in Nat /\ m > a /\ ~(a < m /\ m < b)
    BY <1>2, <1>4
  <2> HIDE DEF m
  <2>b. m >= b /\ m \in Nat
    BY <1>0, <2>a
  <2>1. Min(Times) >= b /\ Min(Times) \in Nat
    BY <2>b DEF m
  <2>2. Min(Times) - WindowStart <= MaxGap
    BY DEF Sampled
  <2> QED
    BY <1>0, <2>1, <2>2
<1>5. CASE \E t \in Times : t <= a
  <2> DEFINE E == {t \in Times : t <= a}
             l == Max(E)
  <2>1. l \in E /\ \A t \in E : l >= t
    BY <1>0, <1>5, GreatestIsMax
  <2> HIDE DEF l
  <2>2. l \in Times /\ l \in Nat /\ l <= a
    BY <2>1
  <2>3. CASE l = Max(Times)
    BY <1>0, <2>2, <2>3 DEF Sampled
  <2>4. CASE l # Max(Times)
    <3>1. PICK u \in Times : l < u /\ u - l <= MaxGap
      BY <2>2, <2>4 DEF Sampled
    <3>2. u \in Nat /\ u >= b
      BY <1>0, <2>1, <2>2, <3>1
    <3> QED
      BY <1>0, <2>2, <3>1, <3>2
  <2> QED
    BY <2>3, <2>4
<1> QED
  BY <1>0, <1>4, <1>5

LEMMA RunEnds ==
  ASSUME Times \subseteq Nat, NEW p \in Samples
  PROVE  /\ RunEnd(p) \in Nat /\ p.observed <= RunEnd(p) /\ RunEnd(p) <= WindowEnd
         /\ \A q \in Samples : p.observed < q.observed /\ (Holds(q) <=> ~Holds(p))
                                => RunEnd(p) <= q.observed
         /\ \A b \in Nat : /\ b <= WindowEnd
                           /\ \A q \in Samples : p.observed < q.observed /\ q.observed <= b
                                                  => (Holds(q) <=> Holds(p))
                           => b <= RunEnd(p)
<1> DEFINE E == {q.observed : q \in {q \in Samples :
                   p.observed < q.observed /\ (Holds(q) <=> ~Holds(p))}}
<1>0. WindowEnd \in Nat
  BY InstrumentAssumption
<1>1. \A q \in Samples : q.observed \in Nat /\ q.observed <= WindowEnd
  BY DEF Times, Samples
<1>2. RunEnd(p) = Min({WindowEnd} \cup E)
  BY DEF RunEnd
<1>3. \A e \in E : \E q \in Samples :
        e = q.observed /\ p.observed < q.observed /\ (Holds(q) <=> ~Holds(p))
  OBVIOUS
<1>4. \A q \in Samples : p.observed < q.observed /\ (Holds(q) <=> ~Holds(p)) => q.observed \in E
  OBVIOUS
<1> HIDE DEF E
<1>5. {WindowEnd} \cup E \subseteq Nat /\ {WindowEnd} \cup E # {}
  BY <1>0, <1>1, <1>3
<1>6. /\ Min({WindowEnd} \cup E) \in {WindowEnd} \cup E
      /\ \A e \in {WindowEnd} \cup E : Min({WindowEnd} \cup E) <= e
  BY <1>5, LeastIsMin
<1>7. /\ RunEnd(p) \in {WindowEnd} \cup E /\ RunEnd(p) \in Nat
      /\ RunEnd(p) <= WindowEnd /\ \A e \in E : RunEnd(p) <= e
  BY <1>2, <1>5, <1>6
<1>8. p.observed <= RunEnd(p)
  BY <1>0, <1>1, <1>3, <1>7
<1>9. ASSUME NEW b \in Nat, b <= WindowEnd,
             \A q \in Samples : p.observed < q.observed /\ q.observed <= b => (Holds(q) <=> Holds(p))
      PROVE  b <= RunEnd(p)
  <2>1. CASE RunEnd(p) = WindowEnd
    BY <1>9, <2>1
  <2>2. CASE RunEnd(p) \in E
    <3>1. PICK q \in Samples :
            RunEnd(p) = q.observed /\ p.observed < q.observed /\ (Holds(q) <=> ~Holds(p))
      BY <1>3, <2>2
    <3>2. ~(q.observed <= b)
      BY <1>9, <3>1
    <3> QED
      BY <1>1, <1>9, <3>1, <3>2
  <2> QED
    BY <1>7, <2>1, <2>2
<1> QED
  BY <1>4, <1>7, <1>8, <1>9

LEMMA LongestIs ==
  ASSUME Times \subseteq Nat, NEW truth \in BOOLEAN
  PROVE  /\ Longest(truth) \in Nat
         /\ \A p \in Samples : Holds(p) = truth => RunEnd(p) - p.observed <= Longest(truth)
         /\ Longest(truth) = 0 \/ \E p \in Samples :
                                  Holds(p) = truth /\ Longest(truth) = RunEnd(p) - p.observed
<1> DEFINE L == {RunEnd(p) - p.observed : p \in {q \in Samples : Holds(q) = truth}}
<1>0. WindowEnd \in Nat /\ \A q \in Samples : q.observed \in Nat
  BY InstrumentAssumption DEF Times
<1>1. \A p \in Samples : RunEnd(p) \in Nat /\ p.observed <= RunEnd(p) /\ RunEnd(p) <= WindowEnd
  BY RunEnds
<1>2. \A l \in L : l \in Nat /\ l <= WindowEnd
  BY <1>0, <1>1
<1>3. \A p \in Samples : Holds(p) = truth => RunEnd(p) - p.observed \in L
  OBVIOUS
<1>4. \A l \in L : \E p \in Samples : Holds(p) = truth /\ l = RunEnd(p) - p.observed
  OBVIOUS
<1>5. Longest(truth) = Max({0} \cup L)
  BY DEF Longest
<1> HIDE DEF L
<1>6. /\ {0} \cup L \subseteq Nat /\ {0} \cup L # {}
      /\ \A l \in {0} \cup L : l <= WindowEnd
  BY <1>0, <1>2
<1>7. /\ Max({0} \cup L) \in {0} \cup L
      /\ \A l \in {0} \cup L : Max({0} \cup L) >= l
  BY <1>0, <1>6, GreatestIsMax
<1>8. /\ Longest(truth) \in Nat /\ \A l \in L : l <= Longest(truth)
      /\ Longest(truth) = 0 \/ Longest(truth) \in L
  BY <1>2, <1>5, <1>6, <1>7
<1> QED
  BY <1>3, <1>4, <1>8

(* A duration assertion that passed is true of the gauge itself, to within *)
(* one permitted gap: a sample says what the gauge was at its instant, and *)
(* no two instants with nothing sampled between them are further apart.    *)
THEOREM DurationsHeld == Spec => []PassedDurationHeld
<1>1. ASSUME Dated, Gauged, kind = "gauge", now >= WindowEnd, Sampled
      PROVE  /\ Times \subseteq Nat
             /\ \A a \in WindowStart .. WindowEnd, b \in WindowStart .. WindowEnd :
                  Off(a, b) => \A q \in Samples :
                    a < q.observed /\ q.observed <= b => ~Holds(q)
  <2>0. WindowStart \in Nat /\ WindowEnd \in Nat
    BY InstrumentAssumption
  <2>1. \A p \in points : p.observed \in Nat /\ p.observed \in 1 .. MaxTime
                         /\ p.reading["level"] = history[p.observed]["level"]
    BY <1>1 DEF Dated, Gauged
  <2>2. Times \subseteq Nat
    BY <2>1 DEF Times, Samples
  <2>3. ASSUME NEW a \in WindowStart .. WindowEnd, NEW b \in WindowStart .. WindowEnd, Off(a, b),
               NEW q \in Samples, a < q.observed, q.observed <= b
        PROVE  ~Holds(q)
    <3>1. q \in points /\ q.observed \in a + 1 .. b
      BY <2>0, <2>1, <2>3 DEF Samples
    <3>2. q.reading["level"] = 0
      BY <2>1, <2>3, <3>1 DEF Off
    <3> QED
      BY <3>2 DEF Holds
  <2> QED
    BY <2>2, <2>3
<1>2. ASSUME Sampled, Times \subseteq Nat, NEW duration \in Nat, Longest(FALSE) <= duration,
             NEW a \in WindowStart .. WindowEnd, NEW b \in WindowStart .. WindowEnd, a <= b,
             \A q \in Samples : a < q.observed /\ q.observed <= b => ~Holds(q)
      PROVE  b - a <= duration + MaxGap
  <2>0. /\ a \in Nat /\ b \in Nat /\ b <= WindowEnd /\ MaxGap \in Nat /\ WindowEnd \in Nat
        /\ WindowStart \in Nat
    BY InstrumentAssumption, DurationAssumption
  <2> DEFINE E == {t \in Times : a < t /\ t <= b}
             u == Min(E)
  <2>1. CASE E = {}
    <3>1. \A t \in Times : ~(a < t /\ t < b)
      BY <1>2, <2>0, <2>1
    <3>2. b - a <= MaxGap
      BY <1>2, <3>1, NoSampleBetween
    <3> QED
      BY <1>2, <2>0, <3>2
  <2>2. CASE E # {}
    <3>1. u \in E /\ \A t \in E : u <= t
      BY <1>2, <2>2, LeastIsMin
    <3> HIDE DEF u
    <3>2. PICK p \in Samples : p.observed = u
      BY <3>1 DEF Times
    <3>3. u \in Nat /\ a < u /\ u <= b /\ u \in WindowStart .. WindowEnd
      BY <1>2, <2>0, <3>1
    <3>4. \A t \in Times : ~(a < t /\ t < u)
      BY <1>2, <2>0, <3>1, <3>3
    <3>5. u - a <= MaxGap
      BY <1>2, <2>0, <3>3, <3>4, NoSampleBetween
    <3>6. ~Holds(p) /\ \A q \in Samples : p.observed < q.observed /\ q.observed <= b => ~Holds(q)
      <4>1. \A q \in Samples : q.observed \in Nat
        BY <1>2 DEF Times
      <4> QED
        BY <1>2, <2>0, <3>2, <3>3, <4>1
    <3>7. b <= RunEnd(p) /\ RunEnd(p) \in Nat
      BY <1>2, <2>0, <3>6, RunEnds
    <3> DEFINE longest == Longest(FALSE)
    <3>8. RunEnd(p) - u <= longest /\ longest \in Nat /\ longest <= duration
      <4>1. Holds(p) = FALSE
        BY <3>6 DEF Holds
      <4> QED
        BY <1>2, <3>2, <4>1, LongestIs
    <3> HIDE DEF longest
    <3> QED
      BY <1>2, <2>0, <3>3, <3>5, <3>7, <3>8
  <2> QED
    BY <2>1, <2>2
<1>3. ASSUME Sampled, Times \subseteq Nat, NEW duration \in Nat, Longest(TRUE) >= duration,
             \A a \in WindowStart .. WindowEnd, b \in WindowStart .. WindowEnd :
                  Off(a, b) => \A q \in Samples :
                    a < q.observed /\ q.observed <= b => ~Holds(q)
      PROVE  \E s \in Stretches :
           /\ s[2] - s[1] >= duration
           /\ \A r \in Stretches :
                s[1] <= r[1] /\ r[2] <= s[2] /\ Off(r[1], r[2]) => r[2] - r[1] <= MaxGap
  <2>0. WindowStart \in Nat /\ WindowEnd \in Nat /\ MaxGap \in Nat /\ WindowStart < WindowEnd
    BY InstrumentAssumption, DurationAssumption
  <2>1. /\ Longest(TRUE) \in Nat
        /\ Longest(TRUE) = 0 \/ \E p \in Samples :
                               Holds(p) = TRUE /\ Longest(TRUE) = RunEnd(p) - p.observed
    BY <1>3, LongestIs
  <2>2. CASE Longest(TRUE) = 0
    <3> DEFINE s == <<WindowStart, WindowStart>>
    <3>a. s \in Stretches /\ s[2] - s[1] = 0
      BY <2>0 DEF Stretches
    <3>1. s \in Stretches /\ s[2] - s[1] >= duration
      BY <1>3, <2>2, <3>a
    <3>2. ASSUME NEW r \in Stretches, r[2] <= s[2] PROVE r[2] - r[1] <= MaxGap
      BY <2>0, <3>2 DEF Stretches
    <3> QED
      BY <3>1, <3>2
  <2>3. ASSUME NEW p \in Samples, Holds(p), Longest(TRUE) = RunEnd(p) - p.observed
        PROVE  \E s \in Stretches :
           /\ s[2] - s[1] >= duration
           /\ \A r \in Stretches :
                s[1] <= r[1] /\ r[2] <= s[2] /\ Off(r[1], r[2]) => r[2] - r[1] <= MaxGap
    <3> DEFINE s == <<p.observed, RunEnd(p)>>
    <3>1. /\ RunEnd(p) \in Nat /\ p.observed <= RunEnd(p) /\ RunEnd(p) <= WindowEnd
          /\ \A q \in Samples : p.observed < q.observed /\ (Holds(q) <=> ~Holds(p))
                                => RunEnd(p) <= q.observed
      BY <1>3, RunEnds
    <3>2. p.observed \in WindowStart .. WindowEnd
      BY <1>3, <2>0 DEF Samples, Times
    <3>a. s \in Stretches /\ s[2] - s[1] = RunEnd(p) - p.observed
      BY <2>0, <3>1, <3>2 DEF Stretches
    <3>3. s \in Stretches /\ s[2] - s[1] >= duration
      BY <1>3, <2>3, <3>a
    <3>4. ASSUME NEW r \in Stretches, s[1] <= r[1], r[2] <= s[2], Off(r[1], r[2])
          PROVE  r[2] - r[1] <= MaxGap
      <4>1. /\ r[1] \in WindowStart .. WindowEnd /\ r[2] \in WindowStart .. WindowEnd
            /\ r[1] <= r[2]
        BY DEF Stretches
      <4>2. ASSUME NEW t \in Times, r[1] < t, t < r[2] PROVE FALSE
        <5>1. PICK q \in Samples : q.observed = t
          BY DEF Times
        <5>2. ~Holds(q)
          BY <1>3, <2>0, <3>4, <4>1, <4>2, <5>1
        <5>3. p.observed < q.observed /\ t \in Nat
          BY <1>3, <2>0, <3>2, <3>4, <4>1, <4>2, <5>1
        <5>4. RunEnd(p) <= t
          BY <2>3, <3>1, <5>1, <5>2, <5>3
        <5> QED
          BY <2>0, <3>1, <3>4, <4>1, <4>2, <5>3, <5>4
      <4> QED
        BY <1>3, <4>1, <4>2, NoSampleBetween
    <3> HIDE DEF s
    <3> QED
      BY <3>3, <3>4
  <2> QED
    BY <2>1, <2>2, <2>3
<1>4. Dated /\ Gauged => PassedDurationHeld
  <2> SUFFICES ASSUME Dated, Gauged, kind = "gauge", now >= WindowEnd,
                      NEW duration \in Requirements, Sampled
               PROVE  /\ Longest(FALSE) <= duration =>
                           \A s \in Stretches : Off(s[1], s[2]) => s[2] - s[1] <= duration + MaxGap
                      /\ Longest(TRUE) >= duration =>
                           \E s \in Stretches :
                             /\ s[2] - s[1] >= duration
                             /\ \A r \in Stretches :
                                  s[1] <= r[1] /\ r[2] <= s[2] /\ Off(r[1], r[2])
                                    => r[2] - r[1] <= MaxGap
    BY DEF PassedDurationHeld, DurationVerdict
  <2>1. duration \in Nat
    BY DurationAssumption
  <2>2. /\ Times \subseteq Nat
        /\ \A a \in WindowStart .. WindowEnd, b \in WindowStart .. WindowEnd :
             Off(a, b) => \A q \in Samples : a < q.observed /\ q.observed <= b => ~Holds(q)
    BY <1>1
  <2>3. ASSUME Longest(FALSE) <= duration, NEW s \in Stretches, Off(s[1], s[2])
        PROVE  s[2] - s[1] <= duration + MaxGap
    <3>1. /\ s[1] \in WindowStart .. WindowEnd /\ s[2] \in WindowStart .. WindowEnd
          /\ s[1] <= s[2]
      BY DEF Stretches
    <3>2. \A q \in Samples : s[1] < q.observed /\ q.observed <= s[2] => ~Holds(q)
      BY <2>2, <2>3, <3>1
    <3> QED
      BY <1>2, <2>1, <2>2, <2>3, <3>1, <3>2
  <2>4. ASSUME Longest(TRUE) >= duration
        PROVE  \E s \in Stretches :
                 /\ s[2] - s[1] >= duration
                 /\ \A r \in Stretches :
                      s[1] <= r[1] /\ r[2] <= s[2] /\ Off(r[1], r[2]) => r[2] - r[1] <= MaxGap
    BY <1>3, <2>1, <2>2, <2>4
  <2> QED
    BY <2>3, <2>4
<1> QED
  BY <1>4, PointsDated, InitGauged, StepGauged, PTL DEF Spec
-----------------------------------------------------------------------------
(* Counts.  How often k was recorded in the instants A, of a history h.    *)
Recorded(h, k, A) == SumFunctionOnSet([t \in 1 .. MaxTime |-> h[t][k]], A)
Histories(K) == [1 .. MaxTime -> [K -> Nat]]
Between(a, b) == a + 1 .. b
Spans == SUBSET (1 .. MaxTime)

LEMMA RecordedIsTruth == \A k, A : Truth(k, A) = Recorded(history, k, A)
BY Zenon DEF Truth, Recorded

LEMMA RecordedType ==
  ASSUME NEW K, NEW h \in Histories(K), NEW k \in K,
         NEW A \in Spans
  PROVE  IsFiniteSet(A) /\ Recorded(h, k, A) \in Nat
<1> DEFINE f == [t \in 1 .. MaxTime |-> h[t][k]]
<1>0. MaxTime \in Nat
  BY InstrumentAssumption
<1>a. IsFiniteSet(1 .. MaxTime)
  BY <1>0, FS_Interval
<1>1. IsFiniteSet(A)
  BY <1>a, FS_Subset DEF Spans
<1>2. \A t \in A : f[t] \in Nat
  BY DEF Histories, Spans
<1> HIDE DEF f
<1>3. SumFunctionOnSet(f, A) \in Nat
  BY <1>1, <1>2, SumOfNaturals
<1> QED
  BY <1>1, <1>3 DEF Recorded, f

LEMMA RecordedUnion ==
  ASSUME NEW K, NEW h \in Histories(K), NEW k \in K,
         NEW A \in Spans, NEW B \in Spans, A \cap B = {}
  PROVE  Recorded(h, k, A \cup B) = Recorded(h, k, A) + Recorded(h, k, B)
<1> DEFINE f == [t \in 1 .. MaxTime |-> h[t][k]]
<1>1. IsFiniteSet(A) /\ IsFiniteSet(B)
  BY RecordedType
<1>2. \A t \in A \cup B : f[t] \in Int
  BY DEF Histories, Spans
<1> HIDE DEF f
<1>3. SumFunctionOnSet(f, A \cup B) = SumFunctionOnSet(f, A) + SumFunctionOnSet(f, B)
  BY <1>1, <1>2, SumUnion
<1> QED
  BY <1>3 DEF Recorded, f

LEMMA RecordedSplit ==
  ASSUME NEW K, NEW h \in Histories(K), NEW k \in K,
         NEW a \in Nat, NEW b \in Nat, NEW c \in Nat, a <= b, b <= c, c <= MaxTime
  PROVE  Recorded(h, k, Between(a, c)) = Recorded(h, k, Between(a, b)) + Recorded(h, k, Between(b, c))
<1> DEFINE A == Between(a, b)
           B == Between(b, c)
<1>0. MaxTime \in Nat
  BY InstrumentAssumption
<1>1. Between(a, c) = A \cup B
  BY DEF Between
<1>2. A \in Spans /\ B \in Spans /\ A \cap B = {}
  BY <1>0 DEF Between, Spans
<1> HIDE DEF A, B
<1>3. Recorded(h, k, A \cup B) = Recorded(h, k, A) + Recorded(h, k, B)
  BY <1>2, RecordedUnion
<1> QED
  BY <1>1, <1>3 DEF A, B

LEMMA RecordedKept ==
  ASSUME NEW K, NEW h \in Histories(K), NEW g, NEW k \in K,
         NEW A \in Spans, \A t \in A : h[t] = g[t]
  PROVE  Recorded(g, k, A) = Recorded(h, k, A)
<1> DEFINE e == [t \in 1 .. MaxTime |-> h[t][k]]
           f == [t \in 1 .. MaxTime |-> g[t][k]]
<1>1. IsFiniteSet(A)
  BY RecordedType
<1>2. \A t \in A : e[t] \in Int /\ e[t] = f[t]
  BY DEF Histories, Spans
<1> HIDE DEF e, f
<1>3. SumFunctionOnSet(e, A) = SumFunctionOnSet(f, A)
  BY <1>1, <1>2, SumCongruent
<1> QED
  BY <1>3 DEF Recorded, e, f

LEMMA RecordedNow ==
  ASSUME NEW K, NEW h \in Histories(K), NEW k \in K, NEW t \in 1 .. MaxTime
  PROVE  Recorded(h, k, {t}) = h[t][k]
<1> DEFINE f == [u \in 1 .. MaxTime |-> h[u][k]]
<1>1. f[t] = h[t][k] /\ f[t] \in Int
  BY DEF Histories, Spans
<1> HIDE DEF f
<1>2. SumFunctionOnSet(f, {t}) = f[t]
  BY <1>1, SumOfOne
<1> QED
  BY <1>1, <1>2 DEF Recorded, f

(* What is counted, compared with and exported is what was recorded since  *)
(* the start of the process, up to the last collection, and between the    *)
(* two instants of the point.                                              *)
Counted ==
  kind # "gauge" =>
    /\ kind \in Kinds /\ temporality \in {"cumulative", "delta"}
    /\ history \in Histories(Keys[kind])
    /\ count \in [Keys[kind] -> Nat] /\ base \in [Keys[kind] -> Nat]
    /\ \A k \in Keys[kind] : /\ count[k] = Recorded(history, k, Between(started, now))
                             /\ base[k] = Recorded(history, k, Between(started, collected))
    /\ \A p \in points :
         /\ \E exported \in Exports[kind] : exported # {} /\ DOMAIN p.reading = exported
         /\ \A k \in DOMAIN p.reading : p.reading[k] = Recorded(history, k, Between(p.start, p.observed))

LEMMA InitCounted == Init => Counted
<1> SUFFICES ASSUME Init, kind # "gauge" PROVE Counted
  BY DEF Counted
<1>1. /\ kind \in Kinds /\ temporality \in {"cumulative", "delta"}
      /\ history \in Histories(Keys[kind])
      /\ count \in [Keys[kind] -> Nat] /\ base \in [Keys[kind] -> Nat]
      /\ \A k \in Keys[kind] : count[k] = 0 /\ base[k] = 0
      /\ points = {} /\ started = 0 /\ now = 0 /\ collected = 0
  BY DEF Init, Zero, Histories
<1>2. Between(0, 0) = {}
  BY DEF Between
<1>3. \A k \in Keys[kind] : Recorded(history, k, {}) = 0
  BY SumEmpty DEF Recorded
<1> QED
  BY <1>1, <1>2, <1>3 DEF Counted

LEMMA WorkCounted ==
  ASSUME Dated, Counted, kind # "gauge", NEW burst \in [Keys[kind] -> Nat], Work(burst)
  PROVE  Counted'
<1>0. MaxTime \in Nat
  BY InstrumentAssumption
<1>1. /\ now + 1 \in 1 .. MaxTime /\ now' = now + 1 /\ now \in Nat /\ started \in Nat
      /\ collected \in Nat /\ started <= collected /\ collected <= now
      /\ history' = [history EXCEPT ![now + 1] = burst]
      /\ count' = [k \in Keys[kind] |-> count[k] + burst[k]]
      /\ UNCHANGED <<kind, temporality, started, collected, base, points>>
  BY <1>0 DEF Work, Dated, config
<1>2. /\ history \in Histories(Keys[kind])
      /\ history' \in Histories(Keys[kind]) /\ history'[now + 1] = burst
      /\ \A t \in 1 .. now : history'[t] = history[t]
  BY <1>1 DEF Counted, Histories
<1>3. ASSUME NEW k \in Keys[kind], NEW a \in Nat, NEW b \in Nat, b <= now
      PROVE  Recorded(history', k, Between(a, b)) = Recorded(history, k, Between(a, b))
  <2> DEFINE A == Between(a, b)
  <2>1. A \in Spans /\ \A t \in A : history[t] = history'[t]
    BY <1>0, <1>1, <1>2, <1>3 DEF Between, Spans
  <2> HIDE DEF A
  <2>2. Recorded(history', k, A) = Recorded(history, k, A)
    BY <1>2, <2>1, RecordedKept
  <2> QED
    BY <2>2 DEF A
<1>4. ASSUME NEW k \in Keys[kind]
      PROVE  count'[k] = Recorded(history', k, Between(started, now + 1))
  <2>1. Recorded(history', k, Between(started, now + 1))
          = Recorded(history', k, Between(started, now)) + Recorded(history', k, Between(now, now + 1))
    BY <1>0, <1>1, <1>2, RecordedSplit
  <2>2. Between(now, now + 1) = {now + 1}
    BY <1>1 DEF Between
  <2> DEFINE u == now + 1
  <2>a. u \in 1 .. MaxTime /\ history' \in Histories(Keys[kind]) /\ history'[u] = burst
    BY <1>1, <1>2
  <2> HIDE DEF u
  <2>b. Recorded(history', k, {u}) = burst[k]
    BY <2>a, RecordedNow
  <2>3. Recorded(history', k, Between(now, now + 1)) = burst[k]
    BY <2>2, <2>b DEF u
  <2>c. Recorded(history', k, Between(started, now)) = Recorded(history, k, Between(started, now))
    <3>1. started \in Nat /\ now \in Nat /\ now <= now
      BY <1>1
    <3> QED
      BY <1>3, <3>1, Zenon
  <2>4. Recorded(history', k, Between(started, now)) = count[k]
    BY <2>c DEF Counted
  <2> QED
    BY <1>1, <2>1, <2>3, <2>4
<1>5. ASSUME NEW k \in Keys[kind]
      PROVE  base'[k] = Recorded(history', k, Between(started, collected))
  BY <1>1, <1>3 DEF Counted
<1>6. ASSUME NEW p \in points, NEW k \in DOMAIN p.reading
      PROVE  p.reading[k] = Recorded(history', k, Between(p.start, p.observed))
  <2>1. k \in Keys[kind]
    <3>1. PICK exported \in Exports[kind] : DOMAIN p.reading = exported
      BY DEF Counted
    <3>2. exported \subseteq Keys[kind]
      BY InstrumentAssumption DEF Counted
    <3> QED
      BY <3>1, <3>2
  <2>2. p.start \in Nat /\ p.observed \in Nat /\ p.observed <= now
    BY <1>1 DEF Dated
  <2> QED
    BY <1>3, <2>1, <2>2 DEF Counted
<1>7. count' \in [Keys[kind] -> Nat]
  BY <1>1 DEF Counted
<1> QED
  BY <1>1, <1>2, <1>4, <1>5, <1>6, <1>7 DEF Counted

LEMMA CollectCounted ==
  ASSUME Dated, Counted, kind # "gauge", NEW exported \in Exports[kind], Collect(exported)
  PROVE  Counted'
<1>0. MaxTime \in Nat /\ exported \subseteq Keys[kind]
  BY InstrumentAssumption DEF Counted
<1>1. /\ collected < now /\ collected' = now /\ base' = count
      /\ UNCHANGED <<kind, temporality, now, history, started, count>>
      /\ \A p \in points' : p \in points \/ (exported # {} /\ Collected(p, exported))
  BY CollectAdds DEF config
<1>2. /\ now \in Nat /\ now <= MaxTime /\ started \in Nat /\ collected \in Nat
      /\ started <= collected /\ collected < now
  BY <1>0, <1>1 DEF Dated
<1>3. ASSUME NEW p \in points', p \notin points
      PROVE  /\ exported # {} /\ DOMAIN p.reading = exported
             /\ \A k \in exported :
                  p.reading[k] = Recorded(history, k, Between(p.start, p.observed))
  <2>1. exported # {} /\ Collected(p, exported)
    BY <1>1, <1>3
  <2>2. DOMAIN p.reading = exported
    BY <2>1 DEF Collected
  <2>3. ASSUME NEW k \in exported
        PROVE  p.reading[k] = Recorded(history, k, Between(p.start, p.observed))
    <3>1. k \in Keys[kind]
      BY <1>0
    <3>2. count[k] = Recorded(history, k, Between(started, now))
      BY <3>1 DEF Counted
    <3>3. CASE temporality # "delta"
      BY <2>1, <3>2, <3>3 DEF Collected
    <3>4. CASE temporality = "delta"
      <4>1. p.reading[k] = count[k] - base[k] /\ p.start = collected /\ p.observed = now
        BY <2>1, <3>4 DEF Collected
      <4> DEFINE x == Recorded(history, k, Between(started, collected))
                 y == Recorded(history, k, Between(collected, now))
      <4>2. Recorded(history, k, Between(started, now)) = x + y
        BY <1>2, <3>1, RecordedSplit DEF Counted
      <4>3. x \in Nat /\ y \in Nat
        <5>1. Between(started, collected) \in Spans /\ Between(collected, now) \in Spans
          BY <1>0, <1>2 DEF Between, Spans
        <5> QED
          BY <3>1, <5>1, RecordedType DEF Counted
      <4>4. base[k] = x
        BY <3>1 DEF Counted
      <4> HIDE DEF x, y
      <4>5. p.reading[k] = y
        BY <3>2, <4>1, <4>2, <4>3, <4>4
      <4> QED
        BY <4>1, <4>5 DEF y
    <3> QED
      BY <3>3, <3>4
  <2> QED
    BY <2>1, <2>2, <2>3
<1> QED
  BY <1>1, <1>3 DEF Counted

LEMMA StepCounted ==
  ASSUME Dated, Counted, [Next]_vars
  PROVE  Counted'
<1>1. ASSUME UNCHANGED vars PROVE Counted'
  BY <1>1 DEF vars, process, config, Counted
<1>2. kind' = kind
  BY DEF Next, vars, Work, Collect, Restart, config
<1>3. ASSUME kind # "gauge", NEW burst \in Bursts[kind], Work(burst) PROVE Counted'
  <2>1. burst \in [Keys[kind] -> Nat]
    BY <1>3, InstrumentAssumption DEF Counted
  <2> QED
    BY <1>3, <2>1, WorkCounted
<1>4. ASSUME kind # "gauge", Restart PROVE Counted'
  <2>1. /\ started' = now /\ collected' = now /\ count' = Zero /\ base' = Zero
        /\ UNCHANGED <<kind, temporality, now, history, points>>
    BY <1>4 DEF Restart, config
  <2>2. /\ Zero \in [Keys[kind] -> Nat] /\ \A k \in Keys[kind] : Zero[k] = 0
    BY DEF Zero
  <2>3. Between(now, now) = {}
    BY InstrumentAssumption DEF Dated, Between
  <2>4. \A k \in Keys[kind] : Recorded(history, k, {}) = 0
    BY SumEmpty DEF Recorded
  <2> QED
    BY <1>4, <2>1, <2>2, <2>3, <2>4 DEF Counted
<1> QED
  BY <1>1, <1>2, <1>3, <1>4, CollectCounted DEF Next, Counted
LEMMA CountsAreExact == Spec => [](Dated /\ Incarnated /\ Counted)
BY InitDated, StepDated, InitCounted, StepCounted, PTL DEF Spec

(* Intervals that do not overlap are added up without counting twice.      *)
AreSpans(C) ==
  \A c \in C : /\ c.start \in Nat /\ c.observed \in Nat
              /\ c.start < c.observed /\ c.observed <= MaxTime

LEMMA InstantsOfIntervals ==
  ASSUME NEW C
  PROVE  Instants(Intervals(C)) = Instants(C)
<1>1. ASSUME NEW t \in Instants(Intervals(C)) PROVE t \in Instants(C)
  <2>1. PICK i \in Intervals(C) : t \in i.start + 1 .. i.observed
    BY DEF Instants
  <2>2. PICK c \in C : i = [start |-> c.start, observed |-> c.observed]
    BY DEF Intervals
  <2>3. t \in c.start + 1 .. c.observed
    BY <2>1, <2>2
  <2> QED
    BY <2>3 DEF Instants
<1>2. ASSUME NEW t \in Instants(C) PROVE t \in Instants(Intervals(C))
  <2>1. PICK c \in C : t \in c.start + 1 .. c.observed
    BY DEF Instants
  <2> DEFINE i == [start |-> c.start, observed |-> c.observed]
  <2>2. i \in Intervals(C) /\ i.start = c.start /\ i.observed = c.observed
    BY DEF Intervals
  <2> HIDE DEF i
  <2>3. t \in i.start + 1 .. i.observed
    BY <2>1, <2>2
  <2> QED
    BY <2>2, <2>3 DEF Instants
<1> QED
  BY <1>1, <1>2

LEMMA ApartIsFinite ==
  ASSUME NEW C, AreSpans(C), ~Overlapping(C)
  PROVE  IsFiniteSet(C)
<1> DEFINE f == [c \in C |-> c.start]
<1>0. MaxTime \in Nat
  BY InstrumentAssumption
<1>1. f \in [C -> 0 .. MaxTime]
  BY <1>0 DEF AreSpans
<1>2. ASSUME NEW c \in C, NEW d \in C, f[c] = f[d] PROVE c = d
  <2>1. c.start = d.start /\ c.start \in Nat /\ c.observed \in Nat /\ c.start < c.observed
    BY <1>2 DEF AreSpans
  <2> QED
    BY <2>1 DEF Overlapping
<1>3. f \in Injection(C, 0 .. MaxTime)
  BY <1>1, <1>2 DEF Injection, IsInjective
<1>4. IsFiniteSet(0 .. MaxTime)
  BY <1>0, FS_Interval
<1> QED
  BY <1>3, <1>4, FS_Injection

LEMMA InstantsWithout ==
  ASSUME NEW C, AreSpans(C), ~Overlapping(C), NEW T \in SUBSET C, NEW c \in T
  PROVE  /\ Between(c.start, c.observed) \in Spans /\ Instants(T \ {c}) \in Spans
         /\ Instants(T) = Between(c.start, c.observed) \cup Instants(T \ {c})
         /\ Between(c.start, c.observed) \cap Instants(T \ {c}) = {}
<1>0. MaxTime \in Nat
  BY InstrumentAssumption
<1>1. ASSUME NEW d \in C
      PROVE  Between(d.start, d.observed) \in Spans
  BY <1>0 DEF AreSpans, Between, Spans
<1>2. Instants(T \ {c}) \in Spans
  BY <1>1 DEF Between, Spans, Instants
<1>3. Instants(T) = Between(c.start, c.observed) \cup Instants(T \ {c})
  BY DEF Between, Instants
<1>4. ASSUME NEW d \in T, d # c, NEW t, t \in Between(c.start, c.observed),
             t \in Between(d.start, d.observed)
      PROVE  FALSE
  <2>1. /\ c.start \in Nat /\ c.observed \in Nat /\ d.start \in Nat /\ d.observed \in Nat
        /\ t \in Nat /\ c.start < t /\ t <= c.observed /\ d.start < t /\ t <= d.observed
    BY <1>4 DEF AreSpans, Between
  <2>2. \/ c.start <= d.start /\ d.start < c.observed
        \/ d.start <= c.start /\ c.start < d.observed
    BY <2>1
  <2> QED
    BY <1>4, <2>2 DEF Overlapping
<1>5. Between(c.start, c.observed) \cap Instants(T \ {c}) = {}
  BY <1>4 DEF Between, Instants
<1> QED
  BY <1>1, <1>2, <1>3, <1>5

LEMMA SumOfSpans ==
  ASSUME NEW K, NEW h \in Histories(K), NEW k \in K, NEW C, AreSpans(C), ~Overlapping(C),
         NEW f, \A c \in C : f[c] = Recorded(h, k, Between(c.start, c.observed))
  PROVE  SumFunctionOnSet(f, C) = Recorded(h, k, Instants(C))
<1> DEFINE G == {T \in SUBSET C : SumFunctionOnSet(f, T) = Recorded(h, k, Instants(T))}
<1>1. {} \in G
  <2>1. Instants({}) = {}
    BY DEF Instants
  <2>2. Recorded(h, k, {}) = 0
    BY SumEmpty DEF Recorded
  <2> QED
    BY <2>1, <2>2, SumEmpty
<1>2. IsFiniteSet(C)
  BY ApartIsFinite
<1>a. ASSUME NEW c \in C PROVE f[c] \in Int
  <2>1. Between(c.start, c.observed) \in Spans
    BY InstantsWithout
  <2>2. Recorded(h, k, Between(c.start, c.observed)) \in Nat
    BY <2>1, RecordedType
  <2> QED
    BY <2>2
<1>3. ASSUME NEW T \in SUBSET C, T # {}, \A U \in SUBSET T : U # T => U \in G
      PROVE  T \in G
  <2>1. PICK c \in T : TRUE
    BY <1>3
  <2> DEFINE A == Between(c.start, c.observed)
             B == Instants(T \ {c})
  <2>2. SumFunctionOnSet(f, T \ {c}) = Recorded(h, k, B)
    BY <1>3, <2>1
  <2>3. A \in Spans /\ B \in Spans /\ Instants(T) = A \cup B /\ A \cap B = {}
    BY InstantsWithout
  <2>4. f[c] = Recorded(h, k, A)
    OBVIOUS
  <2>5. SumFunctionOnSet(f, T) = f[c] + SumFunctionOnSet(f, T \ {c})
    <3>1. IsFiniteSet(T) /\ \A d \in T : f[d] \in Int
      BY <1>2, <1>a, FS_Subset
    <3> QED
      BY <3>1, SumWithout
  <2> HIDE DEF A, B
  <2>6. Recorded(h, k, A \cup B) = Recorded(h, k, A) + Recorded(h, k, B)
    BY <2>3, RecordedUnion
  <2> QED
    BY <2>2, <2>3, <2>4, <2>5, <2>6
<1> HIDE DEF G
<1>4. SUBSET C \subseteq G
  BY <1>1, <1>2, <1>3, SubsetInduction
<1> QED
  BY <1>4 DEF G

-----------------------------------------------------------------------------
(* Counters.                                                               *)
LEMMA CounterPointsExact ==
  ASSUME Dated, Counted, kind = "counters", NEW m, NEW p \in CounterPoints(m)
  PROVE  /\ p.start \in Nat /\ p.observed \in Nat /\ p.start < p.observed
         /\ p.observed <= now /\ p.observed <= MaxTime
         /\ p.value = Recorded(history, m, Between(p.start, p.observed))
<1>1. PICK q \in points : /\ m \in DOMAIN q.reading
                          /\ p = [start |-> q.start, observed |-> q.observed, value |-> q.reading[m]]
  BY DEF CounterPoints
<1>2. q.reading[m] = Recorded(history, m, Between(q.start, q.observed))
  BY <1>1 DEF Counted
<1>3. /\ q.start \in Nat /\ q.observed \in Nat /\ q.start < q.observed
      /\ q.observed <= now /\ q.observed <= MaxTime
  BY InstrumentAssumption DEF Dated
<1> QED
  BY <1>1, <1>2, <1>3

LEMMA IncreaseIsExact ==
  ASSUME Dated, Counted, kind = "counters", NEW m \in Counters,
         NEW c \in CumulativeContributions(CounterPoints(m))
  PROVE  LET i == Increase(c) IN
           /\ i.start \in Nat /\ i.observed \in Nat /\ i.observed <= MaxTime
           /\ i.start < i.observed => i.value = Recorded(history, m, Between(i.start, i.observed))
<1> DEFINE P == CounterPoints(m)
<1>0. now \in Nat /\ MaxTime \in Nat /\ m \in Keys["counters"]
  BY InstrumentAssumption, DataPlaneAssumption DEF Dated
<1>1. \A p \in P :
        /\ p.start \in Nat /\ p.observed \in Nat /\ p.start < p.observed
        /\ p.observed <= now /\ p.observed <= MaxTime
        /\ p.value = Recorded(history, m, Between(p.start, p.observed))
  BY CounterPointsExact
<1>2. AreDated(P)
  BY <1>1 DEF AreDated
<1> HIDE DEF P
<1>3. PICK latest \in P :
        \/ c = <<latest>>
        \/ \E baseline \in P :
             /\ c = <<baseline, latest>> /\ baseline.start = latest.start
             /\ baseline.observed < latest.observed
  <2>1. c \in CumulativeContributions(P)
    BY DEF P
  <2> QED
    BY <1>0, <1>2, <2>1, ContributionsAre
<1>4. CASE c = <<latest>>
  BY <1>1, <1>3, <1>4 DEF Increase
<1>5. ASSUME NEW baseline \in P, c = <<baseline, latest>>, baseline.start = latest.start,
             baseline.observed < latest.observed
      PROVE  LET i == Increase(c) IN
               /\ i.start \in Nat /\ i.observed \in Nat /\ i.observed <= MaxTime
               /\ i.value = Recorded(history, m, Between(i.start, i.observed))
  <2> DEFINE s == latest.start
             a == baseline.observed
             b == latest.observed
             x == Recorded(history, m, Between(s, a))
             y == Recorded(history, m, Between(a, b))
  <2>1. /\ Increase(c).start = a /\ Increase(c).observed = b
        /\ Increase(c).value = latest.value - baseline.value
    BY <1>5 DEF Increase
  <2>2. /\ s \in Nat /\ a \in Nat /\ b \in Nat /\ s <= a /\ a <= b /\ b <= MaxTime
        /\ baseline.value = x /\ latest.value = Recorded(history, m, Between(s, b))
    BY <1>1, <1>5
  <2>3. history \in Histories(Keys["counters"])
    BY DEF Counted
  <2>4. Between(s, a) \in Spans /\ Between(a, b) \in Spans
    BY <1>0, <2>2 DEF Between, Spans
  <2>5. x \in Nat /\ y \in Nat
    BY <1>0, <2>3, <2>4, RecordedType
  <2> HIDE DEF s, a, b
  <2>6. Recorded(history, m, Between(s, b)) = x + y
    BY <1>0, <2>2, <2>3, RecordedSplit
  <2> HIDE DEF x, y
  <2>7. Increase(c).value = y
    BY <2>1, <2>2, <2>5, <2>6
  <2> QED
    BY <2>1, <2>2, <2>7 DEF y
<1> QED
  BY <1>3, <1>4, <1>5

LEMMA TotalIsTrue ==
  ASSUME Dated, Counted, kind = "counters", NEW m \in Counters
  PROVE  Total(m) = Truth(m, Instants(Coverage(m)))
<1> DEFINE C == Contributions(m)
           f == [c \in C |-> c.value]
<1>0. m \in Keys["counters"] /\ history \in Histories(Keys["counters"])
  BY DataPlaneAssumption DEF Counted
<1>1. ~Overlapping(C)
  <2>1. ~Overlapping({})
    BY DEF Overlapping
  <2>2. CASE temporality = "delta"
    BY <2>1, <2>2 DEF Contributions, DeltaContributions, NoAggregate
  <2>3. CASE temporality # "delta"
    BY <2>1, <2>3 DEF Contributions, CumulativeIncrease, NoAggregate
  <2> QED
    BY <2>2, <2>3
<1>2. ASSUME NEW c \in C
      PROVE  /\ c.start \in Nat /\ c.observed \in Nat /\ c.start < c.observed
             /\ c.observed <= MaxTime
             /\ c.value = Recorded(history, m, Between(c.start, c.observed))
  <2>1. CASE temporality = "delta"
    <3>1. c \in CounterPoints(m)
      BY <2>1 DEF Contributions, DeltaContributions, NoAggregate
    <3> QED
      BY <3>1, CounterPointsExact
  <2>2. CASE temporality # "delta"
    <3>1. C # {} /\ C = CumulativeIncrease(m)
      BY <2>2 DEF Contributions
    <3>2. PICK d \in CumulativeContributions(CounterPoints(m)) : c = Increase(d)
      BY <3>1 DEF CumulativeIncrease, NoAggregate
    <3>3. ~(c.start >= c.observed)
      BY <3>1 DEF CumulativeIncrease, NoAggregate
    <3>4. /\ c.start \in Nat /\ c.observed \in Nat /\ c.observed <= MaxTime
          /\ c.start < c.observed => c.value = Recorded(history, m, Between(c.start, c.observed))
      BY <3>2, IncreaseIsExact
    <3> QED
      BY <3>3, <3>4
  <2> QED
    BY <2>1, <2>2
<1>3. Instants(Coverage(m)) = Instants(C)
  BY InstantsOfIntervals DEF Coverage
<1> HIDE DEF C
<1>4. AreSpans(C)
  BY <1>2 DEF AreSpans
<1>5. DOMAIN f = C /\ \A c \in C : f[c] = Recorded(history, m, Between(c.start, c.observed))
  BY <1>2
<1>6. Total(m) = SumFunctionOnSet(f, DOMAIN f)
  BY DEF Total, C, SumFunction
<1> HIDE DEF f
<1>7. SumFunctionOnSet(f, C) = Recorded(history, m, Instants(C))
  BY <1>0, <1>1, <1>4, <1>5, SumOfSpans
<1> QED
  BY <1>3, <1>5, <1>6, <1>7, RecordedIsTruth

(* Every verdict of the data plane is about what was received, lost and    *)
(* out of sequence in the intervals the evidence covers, exactly: each     *)
(* interval counts what was recorded in it and none counts an instant      *)
(* twice, whatever was restarted or lost.                                  *)
THEOREM VerdictsTrue == Spec => []VerdictsAreTrue
<1>1. ASSUME Dated, Counted, kind = "counters", Conclusive
      PROVE  \A m \in Counters : Total(m) = Truth(m, CoveredInstants)
  <2>1. \A m \in Counters : Coverage(m) = Coverage("received")
    BY <1>1 DEF Conclusive, Counters
  <2> QED
    BY <1>1, <2>1, TotalIsTrue DEF CoveredInstants
<1>2. ASSUME Dated, Counted, kind = "counters"
      PROVE  VerdictsAreTrue
  <2> DEFINE truth == [m \in Counters |-> Truth(m, CoveredInstants)]
  <2>0. "received" \in Counters /\ "lost" \in Counters /\ "sequence_error" \in Counters
    BY DEF Counters
  <2>1. SequenceVerdict # "error" => Conclusive
    BY DEF SequenceVerdict
  <2>2. LossVerdict # "error" => Conclusive
    BY DEF LossVerdict
  <2>3. Conclusive => \A m \in Counters : Total(m) = truth[m]
    BY <1>1, <1>2
  <2>4. SequenceVerdict # "error" =>
          (SequenceVerdict = "passed" <=> Total("sequence_error") = 0)
    BY DEF SequenceVerdict
  <2>5. LossVerdict # "error" =>
          (LossVerdict = "passed" <=>
             100 * Total("lost") <= MaxLossPercent * (Total("received") + Total("lost")))
    BY DEF LossVerdict, Observations
  <2> HIDE DEF truth
  <2>6. /\ SequenceVerdict # "error" => \A m \in Counters : Total(m) = truth[m]
        /\ SequenceVerdict # "error" => (SequenceVerdict = "passed" <=> truth["sequence_error"] = 0)
        /\ LossVerdict # "error" =>
              (LossVerdict = "passed" <=>
                 100 * truth["lost"] <= MaxLossPercent * (truth["received"] + truth["lost"]))
    BY <2>0, <2>1, <2>2, <2>3, <2>4, <2>5
  <2> QED
    BY <1>2, <2>6 DEF VerdictsAreTrue, truth
<1>3. Dated /\ Incarnated /\ Counted => VerdictsAreTrue
  BY <1>2 DEF VerdictsAreTrue
<1> QED
  BY <1>3, CountsAreExact, PTL
-----------------------------------------------------------------------------
(* Histograms count the values that were recorded.                         *)
InSpan(A) == [v \in Values |-> Recorded(history, v, A)]
Group(i) == {v \in Values : Bucket(v) = i}

(* What is known of a point, or of the difference of two, is true of the   *)
(* instants between its ends.                                              *)
Measured(c) ==
  LET real == InSpan(Between(c.start, c.observed)) IN
  /\ c.start \in Nat /\ c.observed \in Nat
  /\ c.start < c.observed /\ c.observed <= MaxTime
  /\ \A i \in Buckets : c.counts[i] = SumFunctionOnSet(real, Group(i))
  /\ c.min # Absent => c.min \in Nat /\ \A v \in Values : real[v] > 0 => c.min <= v
  /\ c.max # Absent => c.max \in Nat /\ \A v \in Values : real[v] > 0 => v <= c.max

LEMMA BucketIs ==
  ASSUME NEW v \in Values
  PROVE  /\ Bucket(v) \in Buckets
         /\ Bucket(v) \in DOMAIN Bounds => v <= Bounds[Bucket(v)]
         /\ \A i \in DOMAIN Bounds : v <= Bounds[i] => Bucket(v) <= i
<1> DEFINE E == {i \in DOMAIN Bounds : v <= Bounds[i]}
<1>0. Len(Bounds) \in Nat /\ DOMAIN Bounds = 1 .. Len(Bounds)
  BY HistogramAssumption
<1>1. E \cup {Len(Bounds) + 1} \subseteq Nat /\ E \cup {Len(Bounds) + 1} # {}
  BY <1>0
<1>2. \A i \in DOMAIN Bounds : v <= Bounds[i] => i \in E
  OBVIOUS
<1>3. \A i \in E : i \in DOMAIN Bounds /\ v <= Bounds[i]
  OBVIOUS
<1>4. Bucket(v) = Min(E \cup {Len(Bounds) + 1})
  BY DEF Bucket
<1> HIDE DEF E
<1>5. /\ Bucket(v) \in E \cup {Len(Bounds) + 1}
      /\ \A i \in E \cup {Len(Bounds) + 1} : Bucket(v) <= i
  BY <1>1, <1>4, LeastIsMin
<1> QED
  BY <1>0, <1>2, <1>3, <1>5 DEF Buckets

LEMMA BucketsInOrder ==
  ASSUME NEW v \in Values, NEW w \in Values, v <= w
  PROVE  Bucket(v) <= Bucket(w)
<1>0. Len(Bounds) \in Nat /\ DOMAIN Bounds = 1 .. Len(Bounds) /\ \A i \in DOMAIN Bounds : Bounds[i] \in Nat
  BY HistogramAssumption
<1>1. v \in Nat /\ w \in Nat
  BY HistogramAssumption
<1>2. /\ Bucket(v) \in 1 .. Len(Bounds) + 1 /\ Bucket(w) \in 1 .. Len(Bounds) + 1
      /\ Bucket(w) \in DOMAIN Bounds => w <= Bounds[Bucket(w)]
      /\ \A i \in DOMAIN Bounds : v <= Bounds[i] => Bucket(v) <= i
  BY BucketIs DEF Buckets
<1>3. CASE Bucket(w) \in DOMAIN Bounds
  <2>1. v <= Bounds[Bucket(w)]
    BY <1>0, <1>1, <1>2, <1>3
  <2> QED
    BY <1>2, <1>3, <2>1
<1>4. CASE Bucket(w) \notin DOMAIN Bounds
  BY <1>0, <1>2, <1>4
<1> QED
  BY <1>3, <1>4

LEMMA InSpanType ==
  ASSUME Counted, kind = "histogram", NEW A \in Spans
  PROVE  \A v \in Values : InSpan(A)[v] = Recorded(history, v, A) /\ InSpan(A)[v] \in Nat
<1>1. history \in Histories(Values)
  BY DEF Counted, Values
<1>2. \A v \in Values : Recorded(history, v, A) \in Nat
  BY <1>1, RecordedType
<1> QED
  BY <1>2 DEF InSpan

LEMMA PointsMeasured ==
  ASSUME Dated, Counted, kind = "histogram", NEW c \in HistogramPoints
  PROVE  Measured(c)
<1>1. PICK p \in points : c = Point(p)
  BY DEF HistogramPoints
<1> DEFINE A == Between(p.start, p.observed)
           real == InSpan(A)
<1>2. /\ p.start \in Nat /\ p.observed \in Nat /\ p.start < p.observed
      /\ p.observed <= MaxTime /\ MaxTime \in Nat
  BY InstrumentAssumption DEF Dated
<1>3. A \in Spans
  BY <1>2 DEF Between, Spans
<1>4. DOMAIN p.reading = Values /\ \A v \in Values : p.reading[v] = Recorded(history, v, A)
  <2>1. PICK exported \in Exports[kind] : exported # {} /\ DOMAIN p.reading = exported
    BY DEF Counted
  <2>2. exported = Values
    BY <2>1, HistogramAssumption
  <2> QED
    BY <2>1, <2>2 DEF Counted
<1>5. /\ \A v \in Values : real[v] = p.reading[v] /\ real[v] \in Nat
  BY <1>3, <1>4, InSpanType
<1>6. /\ c.start = p.start /\ c.observed = p.observed
      /\ \A i \in Buckets : c.counts[i] = SumFunctionOnSet(p.reading, Group(i))
  BY <1>1 DEF Point, Group
<1>7. ASSUME NEW i \in Buckets PROVE c.counts[i] = SumFunctionOnSet(real, Group(i))
  <2> DEFINE g == Group(i)
             q == p.reading
  <2>1. IsFiniteSet(g) /\ \A v \in g : real[v] \in Int /\ real[v] = q[v]
    <3>1. g \in SUBSET Values
      BY DEF Group
    <3>2. IsFiniteSet(g)
      BY <3>1, HistogramAssumption, FS_Subset
    <3> QED
      BY <1>5, <3>1, <3>2
  <2> HIDE DEF g, q, real
  <2>2. SumFunctionOnSet(real, g) = SumFunctionOnSet(q, g)
    BY <2>1, SumCongruent
  <2> QED
    BY <1>6, <2>2 DEF g, q
<1> DEFINE occurring == {v \in Values : p.reading[v] > 0}
<1>8. occurring \subseteq Nat /\ \A v \in Values : real[v] > 0 => v \in occurring
  BY <1>5, HistogramAssumption
<1>9. IsFiniteSet(occurring)
  <2>1. occurring \in SUBSET Values
    OBVIOUS
  <2> QED
    BY <2>1, HistogramAssumption, FS_Subset
<1>10. /\ c.min # Absent => occurring # {} /\ c.min = Min(occurring)
       /\ c.max # Absent => occurring # {} /\ c.max = Max(occurring)
  BY <1>1 DEF Point
<1> HIDE DEF occurring
<1>11. PICK n \in Nat : \A v \in occurring : v <= n
  BY <1>8, <1>9, FiniteIsBounded
<1>12. occurring # {} =>
         /\ Min(occurring) \in Nat /\ \A v \in occurring : Min(occurring) <= v
         /\ Max(occurring) \in Nat /\ \A v \in occurring : v <= Max(occurring)
  <2> SUFFICES ASSUME occurring # {}
               PROVE  /\ Min(occurring) \in Nat /\ \A v \in occurring : Min(occurring) <= v
                      /\ Max(occurring) \in Nat /\ \A v \in occurring : v <= Max(occurring)
    OBVIOUS
  <2>1. Min(occurring) \in occurring /\ \A v \in occurring : Min(occurring) <= v
    BY <1>8, LeastIsMin
  <2>2. Max(occurring) \in occurring /\ \A v \in occurring : Max(occurring) >= v
    BY <1>8, <1>11, GreatestIsMax
  <2> QED
    BY <1>8, <2>1, <2>2
<1> HIDE DEF real
<1>13. /\ c.min # Absent => c.min \in Nat /\ \A v \in Values : real[v] > 0 => c.min <= v
       /\ c.max # Absent => c.max \in Nat /\ \A v \in Values : real[v] > 0 => v <= c.max
  BY <1>8, <1>10, <1>12
<1> QED
  BY <1>2, <1>6, <1>7, <1>13 DEF Measured, real
(* The contributions of some points of a histogram.                        *)
LEMMA DifferenceMeasured ==
  ASSUME Dated, Counted, kind = "histogram",
         NEW p \in HistogramPoints, NEW q \in HistogramPoints,
         p.start = q.start, p.observed < q.observed
  PROVE  /\ Subtract(<<p, q>>).start = p.observed
         /\ Subtract(<<p, q>>).observed = q.observed
         /\ Measured(Subtract(<<p, q>>))
<1> DEFINE c == Subtract(<<p, q>>)
           s == q.start
           a == p.observed
           b == q.observed
           x == InSpan(Between(s, a))
           y == InSpan(Between(a, b))
           z == InSpan(Between(s, b))
<1>1. /\ c.start = a /\ c.observed = b /\ c.min = Absent /\ c.max = Absent
      /\ \A i \in Buckets : c.counts[i] = q.counts[i] - p.counts[i]
  BY DEF Subtract
<1>2. Measured(p) /\ Measured(q)
  BY PointsMeasured
<1>3. /\ s \in Nat /\ a \in Nat /\ b \in Nat /\ s <= a /\ a < b /\ b <= MaxTime
      /\ MaxTime \in Nat
  BY <1>2, InstrumentAssumption DEF Measured
<1>4. \A i \in Buckets : /\ p.counts[i] = SumFunctionOnSet(x, Group(i))
                         /\ q.counts[i] = SumFunctionOnSet(z, Group(i))
  BY <1>2 DEF Measured
<1>5. Between(s, a) \in Spans /\ Between(a, b) \in Spans /\ Between(s, b) \in Spans
  BY <1>3 DEF Between, Spans
<1>6. \A v \in Values : x[v] \in Nat /\ y[v] \in Nat /\ z[v] = x[v] + y[v]
  <2> SUFFICES ASSUME NEW v \in Values PROVE x[v] \in Nat /\ y[v] \in Nat /\ z[v] = x[v] + y[v]
    OBVIOUS
  <2>1. history \in Histories(Values)
    BY DEF Counted, Values
  <2>2. a <= b
    BY <1>3
  <2> HIDE DEF s, a, b
  <2>3. Recorded(history, v, Between(s, b))
          = Recorded(history, v, Between(s, a)) + Recorded(history, v, Between(a, b))
    BY <1>3, <2>1, <2>2, RecordedSplit
  <2>4. /\ x[v] = Recorded(history, v, Between(s, a)) /\ x[v] \in Nat
        /\ y[v] = Recorded(history, v, Between(a, b)) /\ y[v] \in Nat
        /\ z[v] = Recorded(history, v, Between(s, b))
    BY <1>5, InSpanType
  <2> QED
    BY <2>3, <2>4
<1>7. ASSUME NEW i \in Buckets
      PROVE  c.counts[i] = SumFunctionOnSet(y, Group(i))
  <2> DEFINE g == Group(i)
  <2>1. g \in SUBSET Values
    BY DEF Group
  <2>2. IsFiniteSet(g)
    BY <2>1, HistogramAssumption, FS_Subset
  <2>3. c.counts[i] = SumFunctionOnSet(z, g) - SumFunctionOnSet(x, g)
    BY <1>1, <1>4
  <2> HIDE DEF x, y, z, g, c
  <2>4. \A v \in g : x[v] \in Int /\ y[v] \in Int /\ z[v] = x[v] + y[v]
    BY <1>6, <2>1
  <2>5. SumFunctionOnSet(z, g) = SumFunctionOnSet(x, g) + SumFunctionOnSet(y, g)
    BY <2>2, <2>4, SumPlus
  <2>6. SumFunctionOnSet(x, g) \in Int /\ SumFunctionOnSet(y, g) \in Int
    <3>1. \A v \in g : x[v] \in Int
      BY <2>4
    <3>2. \A v \in g : y[v] \in Int
      BY <2>4
    <3> QED
      BY <2>2, <3>1, <3>2, SumType
  <2>7. c.counts[i] = SumFunctionOnSet(y, g)
    BY <2>3, <2>5, <2>6
  <2> QED
    BY <2>7 DEF g
<1> HIDE DEF c
<1>8. Measured(c)
  BY <1>1, <1>3, <1>7 DEF Measured
<1> QED
  BY <1>1, <1>8 DEF c

LEMMA ContributionsMeasured ==
  ASSUME Dated, Incarnated, Counted, kind = "histogram", NEW P, P \subseteq HistogramPoints
  PROVE  LET S == HistogramContributions(P) IN
         /\ \A c \in S : Measured(c)
         /\ AreSpans(S) /\ ~Overlapping(S)
<1> DEFINE S == HistogramContributions(P)
<1>1. now \in Nat /\ AreDated(P)
  BY PointsOfHistogram, InstrumentAssumption DEF Dated, AreDated
<1>2. temporality \in {"cumulative", "delta"}
  BY DEF Counted
<1>3. ~Overlapping({})
  BY DEF Overlapping
<1>4. CASE temporality = "delta"
  <2>1. S \subseteq HistogramPoints /\ ~Overlapping(S)
    BY <1>3, <1>4 DEF HistogramContributions, DeltaContributions, NoAggregate
  <2>2. \A c \in S : Measured(c)
    BY <2>1, PointsMeasured
  <2> QED
    BY <2>1, <2>2 DEF AreSpans, Measured
<1>5. CASE temporality = "cumulative"
  <2>1. ASSUME NEW c \in S
        PROVE  \E latest \in P :
                 /\ c = Subtract(Contribution(P, latest.start))
                 /\ Measured(c) /\ c.observed = latest.observed /\ latest.start <= c.start
    <3>1. PICK d \in CumulativeContributions(P) : c = Subtract(d)
      BY <1>5 DEF HistogramContributions, NoAggregate
    <3>2. PICK latest \in P :
            /\ d = Contribution(P, latest.start)
            /\ \/ d = <<latest>>
               \/ \E baseline \in P :
                    /\ d = <<baseline, latest>> /\ baseline.start = latest.start
                    /\ baseline.observed < latest.observed
      BY <1>1, ContributionsAre
    <3>3. CASE d = <<latest>>
      <4>1. c = latest /\ latest.start \in Nat
        BY <1>1, <3>1, <3>3 DEF Subtract, AreDated
      <4>2. Measured(c)
        BY <4>1, PointsMeasured
      <4> QED
        BY <3>1, <3>2, <4>1, <4>2
    <3>4. ASSUME NEW baseline \in P, d = <<baseline, latest>>, baseline.start = latest.start,
                 baseline.observed < latest.observed
          PROVE  Measured(c) /\ c.observed = latest.observed /\ latest.start <= c.start
      <4>1. Measured(c) /\ c.observed = latest.observed /\ c.start = baseline.observed
        BY <3>1, <3>4, DifferenceMeasured
      <4> QED
        BY <1>1, <3>4, <4>1 DEF AreDated
    <3> QED
      BY <3>1, <3>2, <3>3, <3>4
  <2>2. AreSpans(S)
    BY <2>1 DEF AreSpans, Measured
  <2>3. ASSUME NEW c \in S, NEW d \in S, c # d, c.start <= d.start, d.start < c.observed
        PROVE  FALSE
    <3>1. PICK p \in P : /\ c = Subtract(Contribution(P, p.start))
                         /\ c.observed = p.observed /\ p.start <= c.start
      BY <2>1
    <3>2. PICK q \in P : /\ d = Subtract(Contribution(P, q.start))
                         /\ d.observed = q.observed /\ q.start <= d.start
      BY <2>1
    <3>3. /\ p.start \in Nat /\ p.observed \in Nat /\ q.start \in Nat /\ q.observed \in Nat
          /\ c.start \in Nat /\ d.start \in Nat /\ d.start < d.observed
      BY <1>1, <2>2 DEF AreDated, AreSpans
    <3>4. p.start # q.start
      BY <2>3, <3>1, <3>2
    <3>5. PICK x \in points : x.start = p.start /\ x.observed = p.observed
      BY PointsOfHistogram
    <3>6. PICK y \in points : y.start = q.start /\ y.observed = q.observed
      BY PointsOfHistogram
    <3>7. CASE p.start < q.start
      <4>1. p.observed <= q.start
        BY <1>5, <3>5, <3>6, <3>7 DEF Incarnated
      <4> QED
        BY <2>3, <3>1, <3>2, <3>3, <4>1
    <3>8. CASE q.start < p.start
      <4>1. q.observed <= p.start
        BY <1>5, <3>5, <3>6, <3>8 DEF Incarnated
      <4> QED
        BY <2>3, <3>1, <3>2, <3>3, <4>1
    <3> QED
      BY <3>3, <3>4, <3>7, <3>8
  <2>4. ~Overlapping(S)
    BY <2>3 DEF Overlapping
  <2> QED
    BY <2>1, <2>2, <2>4
<1> QED
  BY <1>2, <1>4, <1>5
-----------------------------------------------------------------------------
(* Merged counts are those of the values recorded in the instants covered. *)
AreMeasured(S) ==
  /\ \A c \in S : Measured(c)
  /\ AreSpans(S) /\ ~Overlapping(S)
Real(S) == InSpan(Instants(S))

LEMMA RealType ==
  ASSUME Counted, kind = "histogram", NEW S, AreSpans(S)
  PROVE  /\ Instants(S) \in Spans
         /\ \A v \in Values : /\ Real(S)[v] = Recorded(history, v, Instants(S))
                             /\ Real(S)[v] \in Nat
<1>0. MaxTime \in Nat
  BY InstrumentAssumption
<1>1. Instants(S) \in Spans
  BY <1>0 DEF AreSpans, Instants, Spans
<1> QED
  BY <1>1, InSpanType DEF Real

LEMMA CountIs ==
  ASSUME Counted, kind = "histogram", NEW S, AreMeasured(S), NEW i \in Buckets
  PROVE  Count(S, i) = SumFunctionOnSet(Real(S), Group(i))
<1> DEFINE Y == Group(i)
           f == [c \in S |-> InSpan(Between(c.start, c.observed))]
           a == [c \in S |-> c.counts[i]]
           t == [v \in Values |-> [c \in S |-> InSpan(Between(c.start, c.observed))[v]]]
           b == Real(S)
<1>1. Y \in SUBSET Values
  BY DEF Group
<1>2. IsFiniteSet(S) /\ IsFiniteSet(Y)
  BY <1>1, ApartIsFinite, HistogramAssumption, FS_Subset DEF AreMeasured
<1>3. ASSUME NEW c \in S
      PROVE  /\ a[c] = SumFunctionOnSet(f[c], Y)
             /\ \A v \in Y : /\ f[c][v] = Recorded(history, v, Between(c.start, c.observed))
                            /\ f[c][v] \in Int /\ t[v][c] = f[c][v]
  <2>1. a[c] = c.counts[i] /\ f[c] = InSpan(Between(c.start, c.observed))
    OBVIOUS
  <2>2. c.counts[i] = SumFunctionOnSet(InSpan(Between(c.start, c.observed)), Y)
    BY DEF AreMeasured, Measured
  <2>3. Between(c.start, c.observed) \in Spans
    BY InstrumentAssumption DEF AreMeasured, AreSpans, Between, Spans
  <2>4. \A v \in Values :
          /\ InSpan(Between(c.start, c.observed))[v] = Recorded(history, v, Between(c.start, c.observed))
          /\ InSpan(Between(c.start, c.observed))[v] \in Nat
    BY <2>3, InSpanType
  <2> QED
    BY <1>1, <2>1, <2>2, <2>4
<1>4. ASSUME NEW v \in Y
      PROVE  b[v] = SumFunctionOnSet(t[v], S)
  <2> DEFINE g == t[v]
  <2>1. \A c \in S : g[c] = Recorded(history, v, Between(c.start, c.observed))
    BY <1>1, <1>3
  <2>2. history \in Histories(Values) /\ v \in Values
    BY <1>1 DEF Counted, Values
  <2>3. b[v] = Recorded(history, v, Instants(S))
    BY <2>2, RealType DEF AreMeasured
  <2> HIDE DEF g, t
  <2>4. SumFunctionOnSet(g, S) = Recorded(history, v, Instants(S))
    BY <2>1, <2>2, SumOfSpans DEF AreMeasured
  <2> QED
    BY <2>3, <2>4 DEF g
<1>5. Count(S, i) = SumFunctionOnSet(a, S)
  BY DEF Count, SumFunction
<1> HIDE DEF a, b, f, t, Y
<1>6. SumFunctionOnSet(a, S) = SumFunctionOnSet(b, Y)
  <2>1. \A c \in S, v \in Y : f[c][v] \in Int
    BY <1>3
  <2>2. \A c \in S : a[c] = SumFunctionOnSet(f[c], Y)
    BY <1>3
  <2>3. \A v \in Y, c \in S : t[v][c] = f[c][v]
    BY <1>3
  <2>4. \A v \in Y : b[v] = SumFunctionOnSet(t[v], S)
    BY <1>4
  <2>5. Table(S, Y, f, a, t, b)
    BY <2>1, <2>2, <2>3, <2>4 DEF Table
  <2> QED
    BY <1>2, <2>5, SumSwap
<1> QED
  BY <1>5, <1>6 DEF b, Y

LEMMA CountUpToIs ==
  ASSUME Counted, kind = "histogram", NEW S, AreMeasured(S),
         NEW i \in Nat, i <= Len(Bounds) + 1
  PROVE  CountUpTo(S, i) = SumFunctionOnSet(Real(S), {v \in Values : Bucket(v) <= i})
<1> DEFINE J == 1 .. i
           B == [j \in J |-> Group(j)]
           a == [j \in J |-> Count(S, j)]
           f == Real(S)
<1>0. Len(Bounds) \in Nat /\ J \subseteq Buckets /\ IsFiniteSet(J) /\ IsFiniteSet(Values)
  <2>1. Len(Bounds) \in Nat /\ IsFiniteSet(Values)
    BY HistogramAssumption
  <2>2. J \subseteq Buckets
    BY <2>1 DEF Buckets
  <2>3. IsFiniteSet(J)
    <3>1. i \in Int
      OBVIOUS
    <3> QED BY <3>1, FS_Interval
  <2> QED BY <2>1, <2>2, <2>3
<1>1. \A v \in Values : f[v] \in Int
  BY RealType DEF AreMeasured
<1>2. /\ \A j \in J : B[j] \in SUBSET Values
      /\ \A j, k \in J : j # k => B[j] \cap B[k] = {}
  BY DEF Group
<1>3. \A j \in J : a[j] = SumFunctionOnSet(f, B[j])
  BY <1>0, CountIs
<1>4. UNION {B[j] : j \in J} = {v \in Values : Bucket(v) <= i}
  <2>1. \A v \in Values : Bucket(v) \in Nat /\ Bucket(v) >= 1
    BY <1>0, BucketIs DEF Buckets
  <2>2. \A v \in Values : Bucket(v) <= i <=> Bucket(v) \in J
    BY <2>1
  <2>3. \A v \in Values, j \in J : v \in B[j] <=> Bucket(v) = j
    BY DEF Group
  <2> QED
    BY <1>2, <2>2, <2>3
<1>5. CountUpTo(S, i) = SumFunctionOnSet(a, J)
  BY DEF CountUpTo, SumFunction
<1> HIDE DEF a, B, f, J
<1>6. SumFunctionOnSet(a, J) = SumFunctionOnSet(f, UNION {B[j] : j \in J})
  <2>1. Grouped(J, Values, f, B, a)
    BY <1>1, <1>2, <1>3 DEF Grouped
  <2> QED
    BY <1>0, <2>1, SumOfGroups
<1> QED
  BY <1>4, <1>5, <1>6 DEF f

LEMMA MergedCountIs ==
  ASSUME Counted, kind = "histogram", NEW S, AreMeasured(S)
  PROVE  /\ MergedCount(S) = SumFunctionOnSet(Real(S), Values)
         /\ MergedCount(S) \in Nat
<1>1. Len(Bounds) \in Nat
  BY HistogramAssumption
<1>2. {v \in Values : Bucket(v) <= Len(Bounds) + 1} = Values
  BY <1>1, BucketIs DEF Buckets
<1>3. \A v \in Values : Real(S)[v] \in Nat
  BY RealType DEF AreMeasured
<1>4. SumFunctionOnSet(Real(S), Values) \in Nat
  BY <1>3, HistogramAssumption, SumOfNaturals
<1>5. Len(Bounds) + 1 \in Nat /\ Len(Bounds) + 1 <= Len(Bounds) + 1
  BY <1>1
<1> QED
  BY <1>2, <1>4, <1>5, CountUpToIs DEF MergedCount
-----------------------------------------------------------------------------
(* Percentiles.                                                            *)
Percents == {50, 95, 99}
RankOf(total, percent) == Max({1, (total * percent + 99) \div 100})

LEMMA RankIs ==
  ASSUME NEW total \in Nat, total > 0, NEW percent \in Percents
  PROVE  /\ RankOf(total, percent) \in Nat
         /\ 1 <= RankOf(total, percent) /\ RankOf(total, percent) <= total
         /\ 100 * RankOf(total, percent) >= total * percent
<1> DEFINE q == (total * percent + 99) \div 100
<1>1. q \in Nat /\ 100 * q >= total * percent /\ q <= total
  BY DEF Percents
<1> HIDE DEF q
<1>2. 1 \in Nat /\ q \in Nat
  BY <1>1
<1>3. Max({1, q}) \in {1, q} /\ Max({1, q}) >= 1 /\ Max({1, q}) >= q
  <2>1. {1, q} \subseteq Nat /\ {1, q} # {} /\ \A y \in {1, q} : y <= q + 1
    BY <1>2
  <2> QED
    BY <2>1, <1>2, GreatestIsMax
<1> DEFINE p == total * percent
           m == Max({1, q})
<1>4. p \in Nat /\ 100 * q >= p /\ q <= total /\ (m = 1 \/ m = q) /\ m >= 1 /\ m >= q
  BY <1>1, <1>3 DEF Percents
<1> HIDE DEF p, m
<1>5. m \in Nat /\ 1 <= m /\ m <= total /\ 100 * m >= p
  BY <1>2, <1>4
<1> QED
  BY <1>5 DEF RankOf, m, p, q

(* There is a value of every rank; what is below it is less.               *)
UpTo(f, x) == SumFunctionOnSet(f, {w \in Values : w <= x})

LEMMA ValueOfRank ==
  ASSUME NEW f, \A v \in Values : f[v] \in Nat,
         NEW rank \in Nat, 1 <= rank, rank <= SumFunctionOnSet(f, Values)
  PROVE  \E v \in Values :
           /\ UpTo(f, v) >= rank /\ UpTo(f, v) - f[v] < rank
           /\ UpTo(f, v) = f[v] + SumFunctionOnSet(f, {w \in Values : w < v})
<1> DEFINE E == {v \in Values : UpTo(f, v) >= rank}
<1>0. Values \subseteq Nat /\ IsFiniteSet(Values)
  BY HistogramAssumption
<1>1. ASSUME NEW x PROVE UpTo(f, x) \in Nat
  <2> DEFINE A == {w \in Values : w <= x}
  <2>1. IsFiniteSet(A) /\ \A w \in A : f[w] \in Nat
    BY <1>0, FS_Subset
  <2> HIDE DEF A
  <2>2. SumFunctionOnSet(f, A) \in Nat
    BY <2>1, SumOfNaturals
  <2> QED
    BY <2>2 DEF UpTo, A
<1>2. E # {}
  <2>1. Values # {}
    BY SumEmpty
  <2>2. PICK n \in Nat : \A y \in Values : y <= n
    BY <1>0, FiniteIsBounded
  <2>3. Max(Values) \in Values /\ \A y \in Values : Max(Values) >= y
    BY <1>0, <2>1, <2>2, GreatestIsMax
  <2>4. {w \in Values : w <= Max(Values)} = Values
    BY <1>0, <2>3
  <2>5. UpTo(f, Max(Values)) >= rank
    BY <1>1, <2>4 DEF UpTo
  <2> QED
    BY <2>3, <2>5
<1>3. E \subseteq Nat
  BY <1>0
<1>4. Min(E) \in E /\ \A y \in E : Min(E) <= y
  BY <1>2, <1>3, LeastIsMin
<1> DEFINE v == Min(E)
           L == {w \in Values : w < v}
<1>5. v \in Values /\ v \in Nat /\ UpTo(f, v) >= rank /\ \A w \in Values : UpTo(f, w) >= rank => v <= w
  BY <1>0, <1>4
<1> HIDE DEF v, E
<1>6. UpTo(f, v) = f[v] + SumFunctionOnSet(f, L)
  <2> DEFINE A == {w \in Values : w <= v}
  <2>1. v \in A /\ A \ {v} = L
    <3>1. \A w \in Values : w \in Nat
      BY <1>0
    <3>2. \A w \in Values : w < v <=> (w <= v /\ w # v)
      BY <1>5, <3>1
    <3>3. v <= v
      BY <1>5
    <3>4. \A w : w \in A \ {v} <=> w \in L
      BY <3>2
    <3> QED
      BY <1>5, <3>3, <3>4
  <2>2. IsFiniteSet(A) /\ \A w \in A : f[w] \in Int
    BY <1>0, FS_Subset
  <2> HIDE DEF A, L
  <2>3. SumFunctionOnSet(f, A) = f[v] + SumFunctionOnSet(f, A \ {v})
    BY <2>1, <2>2, SumWithout
  <2> QED
    BY <2>1, <2>3 DEF UpTo, A
<1>7. SumFunctionOnSet(f, L) < rank
  <2>1. CASE L = {}
    BY <2>1, SumEmpty
  <2>2. CASE L # {}
    <3>0. \A w \in Values : w \in Nat /\ (w < v => w <= v)
      BY <1>0, <1>5
    <3>1. L \subseteq Nat /\ \A y \in L : y <= v
      BY <3>0
    <3>2. Max(L) \in L /\ \A y \in L : Max(L) >= y
      BY <1>5, <2>2, <3>1, GreatestIsMax
    <3> DEFINE m == Max(L)
    <3>3. m \in Values /\ m \in Nat /\ m < v /\ \A y \in L : y <= m
      BY <3>1, <3>2
    <3> HIDE DEF m
    <3>4. {w \in Values : w <= m} = L
      <4>1. \A w \in Values : w <= m => w < v
        BY <1>5, <3>0, <3>3
      <4>2. \A w : w \in {y \in Values : y <= m} <=> w \in L
        BY <3>3, <4>1
      <4> QED
        BY <4>2
    <3>5. ~(UpTo(f, m) >= rank)
      BY <1>5, <3>3
    <3>6. UpTo(f, m) \in Nat
      BY <1>1
    <3>7. UpTo(f, m) < rank
      BY <3>5, <3>6
    <3> QED
      BY <3>4, <3>7 DEF UpTo
  <2> QED
    BY <2>1, <2>2
<1>8. SumFunctionOnSet(f, L) \in Nat /\ f[v] \in Nat
  <2>1. IsFiniteSet(L) /\ \A w \in L : f[w] \in Nat
    BY <1>0, FS_Subset
  <2> HIDE DEF L
  <2> QED
    BY <1>5, <2>1, SumOfNaturals
<1>9. UpTo(f, v) - f[v] < rank
  BY <1>6, <1>7, <1>8
<1> QED
  BY <1>5, <1>6, <1>9

(* The extremes of merged contributions bound what was recorded.           *)
LEMMA ExtremesAre ==
  ASSUME Counted, kind = "histogram", NEW S, AreMeasured(S),
         NEW v \in Values, Real(S)[v] > 0
  PROVE  /\ Smallest(S) # Absent => Smallest(S) \in Nat /\ Smallest(S) <= v
         /\ Largest(S) # Absent => Largest(S) \in Nat /\ v <= Largest(S)
<1>0. v \in Nat /\ IsFiniteSet(S) /\ history \in Histories(Values) /\ MaxTime \in Nat
  BY HistogramAssumption, InstrumentAssumption, ApartIsFinite DEF AreMeasured, Counted, Values
<1>1. PICK c \in S : InSpan(Between(c.start, c.observed))[v] > 0
  <2> DEFINE f == [c \in S |-> Recorded(history, v, Between(c.start, c.observed))]
  <2>1. SUFFICES ASSUME \A c \in S : ~(InSpan(Between(c.start, c.observed))[v] > 0)
                 PROVE  FALSE
    OBVIOUS
  <2>2. ASSUME NEW c \in S PROVE f[c] = 0
    <3>1. Between(c.start, c.observed) \in Spans
      BY <1>0 DEF AreMeasured, AreSpans, Between, Spans
    <3>2. /\ InSpan(Between(c.start, c.observed))[v] = Recorded(history, v, Between(c.start, c.observed))
          /\ InSpan(Between(c.start, c.observed))[v] \in Nat
      BY <3>1, InSpanType
    <3> QED
      BY <2>1, <3>2
  <2>3. \A c \in S : f[c] = Recorded(history, v, Between(c.start, c.observed))
    OBVIOUS
  <2> HIDE DEF f
  <2>4. SumFunctionOnSet(f, S) = 0
    BY <1>0, <2>2, SumOfZeros
  <2>5. SumFunctionOnSet(f, S) = Recorded(history, v, Instants(S))
    BY <1>0, <2>3, SumOfSpans DEF AreMeasured
  <2>6. Real(S)[v] = 0
    BY <2>4, <2>5, RealType DEF AreMeasured
  <2> QED
    BY <2>6
<1>2. ASSUME NEW E, E \subseteq Nat, IsFiniteSet(E), NEW e \in E
      PROVE  /\ Min(E) \in Nat /\ Min(E) <= e /\ Max(E) \in Nat /\ e <= Max(E)
  <2>1. PICK n \in Nat : \A y \in E : y <= n
    BY <1>2, FiniteIsBounded
  <2>2. Min(E) \in E /\ \A y \in E : Min(E) <= y
    BY <1>2, LeastIsMin
  <2>3. Max(E) \in E /\ \A y \in E : Max(E) >= y
    BY <1>2, <2>1, GreatestIsMax
  <2> QED
    BY <1>2, <2>2, <2>3
<1>3. ASSUME Smallest(S) # Absent PROVE Smallest(S) \in Nat /\ Smallest(S) <= v
  <2> DEFINE E == {p.min : p \in S}
  <2>1. /\ \A p \in S : p.min # Absent
        /\ Smallest(S) = Min(E)
    BY <1>3 DEF Smallest
  <2>2. \A p \in S : p.min \in Nat
    BY <2>1 DEF AreMeasured, Measured
  <2>3. E \subseteq Nat /\ c.min \in E
    BY <2>2
  <2>4. c.min <= v /\ c.min \in Nat
    BY <1>1, <2>1, <2>2 DEF AreMeasured, Measured
  <2> HIDE DEF E
  <2>5. Min(E) \in E /\ \A y \in E : Min(E) <= y
    BY <2>3, LeastIsMin
  <2>6. Min(E) \in Nat /\ Min(E) <= c.min
    BY <2>3, <2>5
  <2> DEFINE m == Min(E)
             e == c.min
  <2> HIDE DEF m, e
  <2>7. m \in Nat /\ e \in Nat /\ m <= e /\ e <= v
    BY <2>4, <2>6 DEF m, e
  <2>8. m <= v
    BY <1>0, <2>7
  <2> QED
    BY <2>1, <2>7, <2>8 DEF m
<1>4. ASSUME Largest(S) # Absent PROVE Largest(S) \in Nat /\ v <= Largest(S)
  <2> DEFINE E == {p.max : p \in S}
             g == [p \in S |-> p.max]
  <2>1. /\ \A p \in S : p.max # Absent
        /\ Largest(S) = Max(E)
    BY <1>4 DEF Largest
  <2>2. \A p \in S : p.max \in Nat
    BY <2>1 DEF AreMeasured, Measured
  <2>3. E \subseteq Nat /\ c.max \in E
    BY <2>2
  <2>4. v <= c.max
    BY <1>1, <2>1 DEF AreMeasured, Measured
  <2>5. IsFiniteSet(E)
    <3>1. g \in Surjection(S, E)
      BY DEF Surjection
    <3> HIDE DEF g, E
    <3> QED
      BY <1>0, <3>1, FS_Surjection
  <2> HIDE DEF E
  <2>6. /\ Max(E) \in Nat /\ c.max <= Max(E)
    BY <1>2, <2>3, <2>5
  <2> QED
    BY <1>0, <2>1, <2>2, <2>4, <2>6
<1> QED
  BY <1>3, <1>4

LEMMA RealIsTruth ==
  ASSUME NEW S
  PROVE  /\ Real(S) = [v \in Values |-> Truth(v, Instants(S))]
         /\ DOMAIN Real(S) = Values
<1>1. [v \in Values |-> Truth(v, Instants(S))] = [v \in Values |-> Recorded(history, v, Instants(S))]
  BY RecordedIsTruth
<1> QED
  BY <1>1 DEF Real, InSpan

(* The percentile that was really recorded lies within the bounds that     *)
(* were read off the bucket of its rank.                                   *)
LEMMA QuantileWithin ==
  ASSUME Counted, kind = "histogram", NEW S, AreMeasured(S),
         NEW percent \in Percents, QuantileBounds(S, percent) # Unbounded
  PROVE  LET bounds == QuantileBounds(S, percent)
             rank == RankOf(SumFunctionOnSet(Real(S), Values), percent) IN
         /\ MergedCount(S) > 0
         /\ bounds[1] \in Nat /\ bounds[2] \in Nat
         /\ \E v \in Values :
              /\ UpTo(Real(S), v) >= rank /\ UpTo(Real(S), v) - Real(S)[v] < rank
              /\ bounds[1] <= v /\ v <= bounds[2]
<1> DEFINE f == Real(S)
           total == SumFunctionOnSet(f, Values)
           rank == RankOf(total, percent)
           n == Len(Bounds)
           i == QuantileBucket(S, percent)
           E == {j \in Buckets : CountUpTo(S, j) >= Rank(S, percent)}
<1>0. /\ n \in Nat /\ DOMAIN Bounds = 1 .. n /\ \A j \in 1 .. n : Bounds[j] \in Nat
      /\ Values \subseteq Nat /\ IsFiniteSet(Values) /\ Absent \notin Nat
  BY HistogramAssumption
<1>1. MergedCount(S) = total /\ total \in Nat /\ total > 0
  <2>1. MergedCount(S) = total /\ MergedCount(S) \in Nat
    BY MergedCountIs
  <2>2. MergedCount(S) # 0
    BY DEF QuantileBounds
  <2> QED
    BY <2>1, <2>2
<1>2. \A v \in Values : f[v] \in Nat
  BY RealType DEF AreMeasured
<1>3. Rank(S, percent) = rank
  BY <1>1 DEF Rank, RankOf
<1> HIDE DEF total
<1>4. rank \in Nat /\ 1 <= rank /\ rank <= total
  <2>1. rank = RankOf(total, percent)
    BY DEF total
  <2>2. RankOf(total, percent) \in Nat /\ 1 <= RankOf(total, percent) /\ RankOf(total, percent) <= total
    BY <1>1, RankIs, Zenon
  <2> HIDE DEF rank
  <2> QED
    BY <2>1, <2>2, Zenon
<1> HIDE DEF rank
<1>5. PICK v \in Values :
        /\ UpTo(f, v) >= rank /\ UpTo(f, v) - f[v] < rank
        /\ UpTo(f, v) = f[v] + SumFunctionOnSet(f, {w \in Values : w < v})
  BY <1>2, <1>4, ValueOfRank DEF total
<1>6. v \in Nat /\ f[v] \in Nat
  BY <1>0, <1>2
<1>7. /\ \A A \in SUBSET Values : SumFunctionOnSet(f, A) \in Nat
      /\ \A A, B \in SUBSET Values : A \subseteq B => SumFunctionOnSet(f, A) <= SumFunctionOnSet(f, B)
  <2>1. ASSUME NEW A \in SUBSET Values, NEW B \in SUBSET Values, A \subseteq B
        PROVE  SumFunctionOnSet(f, A) \in Nat /\ SumFunctionOnSet(f, A) <= SumFunctionOnSet(f, B)
    <3> HIDE DEF f
    <3>1. IsFiniteSet(B)
      BY <1>0, FS_Subset
    <3>2. A \in SUBSET B /\ \A w \in B : f[w] \in Nat
      BY <1>2, <2>1
    <3> QED
      BY <3>1, <3>2, SumOfParts
  <2> QED
    BY <2>1
<1>8. UpTo(f, v) \in Nat /\ f[v] > 0
  <2>1. UpTo(f, v) \in Nat
    BY <1>7 DEF UpTo
  <2> QED
    BY <1>4, <1>5, <1>6, <2>1
<1>9. \A j \in Buckets : CountUpTo(S, j) = SumFunctionOnSet(f, {w \in Values : Bucket(w) <= j})
  BY <1>0, CountUpToIs DEF Buckets
<1>10. Bucket(v) \in Buckets /\ \A w \in Values : Bucket(w) \in Buckets
  BY BucketIs
<1>11. CountUpTo(S, Bucket(v)) >= rank
  <2> DEFINE A == {w \in Values : w <= v}
             B == {w \in Values : Bucket(w) <= Bucket(v)}
  <2>1. A \in SUBSET Values /\ B \in SUBSET Values /\ A \subseteq B
    BY BucketsInOrder
  <2>2. CountUpTo(S, Bucket(v)) = SumFunctionOnSet(f, B) /\ UpTo(f, v) = SumFunctionOnSet(f, A)
    BY <1>9, <1>10 DEF UpTo
  <2> HIDE DEF A, B
  <2>3. /\ SumFunctionOnSet(f, A) \in Nat /\ SumFunctionOnSet(f, B) \in Nat
        /\ SumFunctionOnSet(f, A) <= SumFunctionOnSet(f, B)
    BY <1>7, <2>1
  <2> QED
    BY <1>4, <1>5, <2>2, <2>3
<1>12. ASSUME NEW j \in Buckets, j < Bucket(v) PROVE CountUpTo(S, j) < rank
  <2> DEFINE A == {w \in Values : w < v}
             B == {w \in Values : Bucket(w) <= j}
  <2>1. A \in SUBSET Values /\ B \in SUBSET Values
    OBVIOUS
  <2>2. B \subseteq A
    <3> SUFFICES ASSUME NEW w \in Values, Bucket(w) <= j, ~(w < v) PROVE FALSE
      OBVIOUS
    <3>1. v <= w
      BY <1>0, <1>6
    <3>2. Bucket(v) <= Bucket(w)
      BY <3>1, BucketsInOrder
    <3>3. Bucket(v) \in Nat /\ Bucket(w) \in Nat /\ j \in Nat
      BY <1>0, <1>10 DEF Buckets
    <3> QED
      BY <1>12, <3>2, <3>3
  <2>3. CountUpTo(S, j) = SumFunctionOnSet(f, B) /\ UpTo(f, v) = f[v] + SumFunctionOnSet(f, A)
    BY <1>5, <1>9
  <2> HIDE DEF A, B
  <2>4. /\ SumFunctionOnSet(f, A) \in Nat /\ SumFunctionOnSet(f, B) \in Nat
        /\ SumFunctionOnSet(f, B) <= SumFunctionOnSet(f, A)
    BY <1>7, <2>1, <2>2
  <2> QED
    BY <1>4, <1>5, <1>6, <2>3, <2>4
<1>13. i = Bucket(v)
  <2>1. E \subseteq Nat /\ Bucket(v) \in E
    BY <1>0, <1>3, <1>10, <1>11 DEF Buckets
  <2>2. Min(E) \in E /\ \A y \in E : Min(E) <= y
    BY <2>1, LeastIsMin
  <2>3. i = Min(E)
    BY DEF QuantileBucket
  <2>4. i \in Buckets /\ CountUpTo(S, i) >= rank /\ i <= Bucket(v)
    BY <1>3, <2>1, <2>2, <2>3
  <2>5. ~(i < Bucket(v))
    <3>1. ASSUME i < Bucket(v) PROVE FALSE
      <4>1. CountUpTo(S, i) < rank
        BY <1>12, <2>4, <3>1
      <4>2. CountUpTo(S, i) \in Nat
        <5>1. {w \in Values : Bucket(w) <= i} \in SUBSET Values
          OBVIOUS
        <5> QED
          BY <1>7, <1>9, <2>4, <5>1
      <4> QED
        BY <1>4, <2>4, <4>1, <4>2
    <3> QED
      BY <3>1
  <2> QED
    BY <1>0, <1>10, <2>4, <2>5 DEF Buckets
<1> DEFINE below == IF i = 1 THEN Smallest(S) ELSE Bounds[i - 1]
           above == IF i = n + 1 THEN Largest(S) ELSE Bounds[i]
           lower == IF Smallest(S) = Absent THEN below ELSE Max({below, Smallest(S)})
           upper == IF Largest(S) = Absent THEN above ELSE Min({above, Largest(S)})
<1>14. /\ QuantileBounds(S, percent) = <<lower, upper>>
       /\ below # Absent /\ above # Absent
  BY DEF QuantileBounds
<1>15. /\ Smallest(S) # Absent => Smallest(S) \in Nat /\ Smallest(S) <= v
       /\ Largest(S) # Absent => Largest(S) \in Nat /\ v <= Largest(S)
  BY <1>8, ExtremesAre
<1>16. i \in 1 .. n + 1
  BY <1>10, <1>13 DEF Buckets
<1>17. below \in Nat /\ below <= v
  <2>1. CASE i = 1
    BY <1>14, <1>15, <2>1
  <2>2. CASE i # 1
    <3>1. i - 1 \in 1 .. n /\ ~(Bucket(v) <= i - 1)
      BY <1>0, <1>13, <1>16, <2>2
    <3>2. ~(v <= Bounds[i - 1])
      BY <1>0, <3>1, BucketIs
    <3> QED
      BY <1>0, <1>6, <2>2, <3>1, <3>2
  <2> QED
    BY <2>1, <2>2
<1>18. above \in Nat /\ v <= above
  <2>1. CASE i = n + 1
    BY <1>14, <1>15, <2>1
  <2>2. CASE i # n + 1
    <3>1. i \in 1 .. n
      BY <1>0, <1>16, <2>2
    <3>2. v <= Bounds[i]
      BY <1>0, <1>13, <3>1, BucketIs
    <3> QED
      BY <1>0, <2>2, <3>1, <3>2
  <2> QED
    BY <2>1, <2>2
<1> HIDE DEF below, above
<1>19. lower \in Nat /\ lower <= v
  <2>1. CASE Smallest(S) = Absent
    BY <1>17, <2>1
  <2>2. CASE Smallest(S) # Absent
    <3>1. Smallest(S) \in Nat /\ Smallest(S) <= v
      BY <1>15, <2>2
    <3> DEFINE s == Smallest(S)
    <3> HIDE DEF s
    <3>2. s \in Nat /\ s <= v
      BY <3>1 DEF s
    <3>3. {below, s} \subseteq Nat /\ {below, s} # {} /\ \A y \in {below, s} : y <= v
      BY <1>17, <3>2
    <3>4. Max({below, s}) \in {below, s}
      BY <1>6, <3>3, GreatestIsMax
    <3>5. Max({below, s}) \in Nat /\ Max({below, s}) <= v
      BY <3>3, <3>4
    <3> QED
      BY <2>2, <3>5 DEF s
  <2> QED
    BY <2>1, <2>2
<1>20. upper \in Nat /\ v <= upper
  <2>1. CASE Largest(S) = Absent
    BY <1>18, <2>1
  <2>2. CASE Largest(S) # Absent
    <3> DEFINE s == Largest(S)
    <3> HIDE DEF s
    <3>2. s \in Nat /\ v <= s
      BY <1>15, <2>2 DEF s
    <3>3. {above, s} \subseteq Nat /\ {above, s} # {}
      BY <1>18, <3>2
    <3>4. Min({above, s}) \in {above, s}
      BY <3>3, LeastIsMin
    <3>5. Min({above, s}) \in Nat /\ v <= Min({above, s})
      BY <1>18, <3>2, <3>3, <3>4
    <3> QED
      BY <2>2, <3>5 DEF s
  <2> QED
    BY <2>1, <2>2
<1> HIDE DEF lower, upper
<1>21. QuantileBounds(S, percent)[1] = lower /\ QuantileBounds(S, percent)[2] = upper
  BY <1>14
<1> HIDE DEF f
<1> QED
  BY <1>1, <1>5, <1>19, <1>20, <1>21 DEF f, rank, total
LEMMA QuantileIs ==
  ASSUME NEW S, NEW percent, NEW v,
         UpTo(Real(S), v) >= RankOf(SumFunctionOnSet(Real(S), Values), percent),
         UpTo(Real(S), v) - Real(S)[v] < RankOf(SumFunctionOnSet(Real(S), Values), percent)
  PROVE  IsQuantile(v, percent, Instants(S))
<1> DEFINE recorded == [w \in Values |-> Truth(w, Instants(S))]
<1>1. recorded = Real(S) /\ SumFunction(recorded) = SumFunctionOnSet(Real(S), Values)
  BY RealIsTruth DEF SumFunction
<1>2. /\ SumFunctionOnSet(recorded, {w \in Values : w <= v}) >= Max({1, (SumFunction(recorded) * percent + 99) \div 100})
      /\ SumFunctionOnSet(recorded, {w \in Values : w <= v}) - recorded[v] < Max({1, (SumFunction(recorded) * percent + 99) \div 100})
  BY <1>1, Zenon DEF UpTo, RankOf
<1> HIDE DEF recorded
<1> QED
  BY <1>2, Zenon DEF IsQuantile, recorded

(* An assertion that passes holds of a value between the bounds.           *)
LEMMA WorseEndDecides ==
  ASSUME NEW bounds, bounds # Unbounded, bounds[1] \in Nat, bounds[2] \in Nat,
         NEW v \in Nat, bounds[1] <= v, v <= bounds[2],
         NEW operator \in Operators, NEW threshold \in Nat,
         QuantileVerdict(bounds, operator, threshold) = "passed"
  PROVE  Compare(operator, v, threshold)
<1> DEFINE decisive == IF operator \in {"lt", "lte"} THEN bounds[2] ELSE bounds[1]
<1>1. Compare(operator, decisive, threshold) /\ ~(operator = "eq" /\ bounds[1] # bounds[2])
  BY DEF QuantileVerdict
<1>2. CASE operator = "lt"
  BY <1>1, <1>2 DEF Compare
<1>3. CASE operator = "lte"
  BY <1>1, <1>3 DEF Compare
<1>4. CASE operator = "eq"
  BY <1>1, <1>4 DEF Compare
<1>5. CASE operator = "gte"
  BY <1>1, <1>5 DEF Compare
<1>6. CASE operator = "gt"
  BY <1>1, <1>6 DEF Compare
<1> QED
  BY <1>2, <1>3, <1>4, <1>5, <1>6 DEF Operators

(* An assertion about a percentile that passes is true of the percentile   *)
(* of the values that were really recorded.                                *)
THEOREM PassedQuantiles == Spec => []PassedQuantileIsTrue
<1>1. ASSUME Dated, Incarnated, Counted, kind = "histogram", NEW percent \in Percentiles,
             NEW operator \in Operators, NEW threshold \in Values,
             QuantileVerdict(Proved(InWindowContributions, percent), operator, threshold) = "passed"
      PROVE  \E v \in Values : /\ IsQuantile(v, percent, Instants(InWindowContributions))
                              /\ Compare(operator, v, threshold)
  <2> DEFINE S == InWindowContributions
             bounds == QuantileBounds(S, percent)
             rank == RankOf(SumFunctionOnSet(Real(S), Values), percent)
  <2>1. Proved(S, percent) # Unbounded /\ Proved(S, percent) = bounds
    BY <1>1 DEF QuantileVerdict, Proved
  <2>2. AreMeasured(S)
    BY <1>1, ContributionsMeasured DEF InWindowContributions, AreMeasured
  <2>3. percent \in Percents /\ threshold \in Nat /\ Values \subseteq Nat
    BY HistogramAssumption DEF Percents
  <2> HIDE DEF S
  <2>4. /\ bounds[1] \in Nat /\ bounds[2] \in Nat
        /\ \E v \in Values :
              /\ UpTo(Real(S), v) >= rank /\ UpTo(Real(S), v) - Real(S)[v] < rank
              /\ bounds[1] <= v /\ v <= bounds[2]
    BY <1>1, <2>1, <2>2, <2>3, QuantileWithin
  <2>5. PICK v \in Values :
              /\ UpTo(Real(S), v) >= rank /\ UpTo(Real(S), v) - Real(S)[v] < rank
              /\ bounds[1] <= v /\ v <= bounds[2]
    BY <2>4
  <2>6. IsQuantile(v, percent, Instants(S))
    BY <2>5, QuantileIs
  <2>7. Compare(operator, v, threshold)
    <3>1. bounds # Unbounded /\ QuantileVerdict(bounds, operator, threshold) = "passed"
      BY <1>1, <2>1 DEF S
    <3>2. v \in Nat
      BY <2>3
    <3> HIDE DEF bounds
    <3> QED
      BY <2>3, <2>4, <2>5, <3>1, <3>2, WorseEndDecides
  <2> QED
    BY <2>6, <2>7 DEF S
<1>2. Dated /\ Incarnated /\ Counted => PassedQuantileIsTrue
  BY <1>1 DEF PassedQuantileIsTrue
<1> QED
  BY <1>2, CountsAreExact, PTL
-----------------------------------------------------------------------------
(* The source of time.                                                     *)

(* Points observed in the window contribute nothing from outside it.       *)
LEMMA SelectedWithin ==
  ASSUME Dated, Counted, kind = "histogram"
  PROVE  Instants(HistogramContributions(SelectedPoints)) \subseteq InTheWindow
<1> DEFINE P == SelectedPoints
           S == HistogramContributions(P)
<1>0. WindowStart \in Nat /\ WindowEnd \in Nat
  BY InstrumentAssumption
<1>1. now \in Nat /\ AreDated(P) /\ \A p \in P : WindowStart <= p.observed /\ p.observed <= WindowEnd
  BY PointsOfHistogram, InstrumentAssumption DEF Dated, AreDated, SelectedPoints
<1>2. temporality \in {"cumulative", "delta"}
  BY DEF Counted
<1> HIDE DEF P
<1>3. ASSUME NEW c \in S
      PROVE  /\ c.start \in Nat /\ c.observed \in Nat
             /\ WindowStart <= c.start /\ c.observed <= WindowEnd
  <2>1. CASE temporality = "delta"
    <3>1. c \in P /\ c.start >= WindowStart /\ c.observed <= WindowEnd
      BY <2>1 DEF HistogramContributions, DeltaContributions, NoAggregate
    <3> QED
      BY <1>0, <1>1, <3>1 DEF AreDated
  <2>2. CASE temporality = "cumulative"
    <3>1. PICK d \in CumulativeContributions(P) : c = Subtract(d)
      BY <2>2 DEF HistogramContributions, NoAggregate
    <3>2. PICK latest \in P :
            /\ latest.observed <= WindowEnd
            /\ \/ latest.start >= WindowStart /\ d = <<latest>>
               \/ \E baseline \in P :
                    d = <<baseline, latest>> /\ baseline.observed <= WindowStart
      BY <1>1, ContributionsAre
    <3>3. CASE latest.start >= WindowStart /\ d = <<latest>>
      <4>1. c = latest
        BY <3>1, <3>3 DEF Subtract
      <4> QED
        BY <1>0, <1>1, <3>2, <3>3, <4>1 DEF AreDated
    <3>4. ASSUME NEW baseline \in P, d = <<baseline, latest>>
          PROVE  /\ c.start \in Nat /\ c.observed \in Nat
                 /\ WindowStart <= c.start /\ c.observed <= WindowEnd
      <4>1. c.start = baseline.observed /\ c.observed = latest.observed
        BY <3>1, <3>4 DEF Subtract
      <4> QED
        BY <1>1, <3>2, <4>1 DEF AreDated
    <3> QED
      BY <3>2, <3>3, <3>4
  <2> QED
    BY <1>2, <2>1, <2>2
<1> HIDE DEF S
<1>4. ASSUME NEW t \in Instants(S)
      PROVE  t \in InTheWindow
  <2>1. PICK c \in S : t \in c.start + 1 .. c.observed
    BY DEF Instants
  <2> QED
    BY <1>0, <1>3, <2>1 DEF InTheWindow
<1> QED
  BY <1>4 DEF S, P

(* The upper bound of a percentile is a limit of that share of the values. *)
LEMMA ShareWithin ==
  ASSUME Counted, kind = "histogram", NEW S, AreMeasured(S),
         NEW percent \in Percents, QuantileBounds(S, percent) # Unbounded,
         NEW limit \in Nat, Reported(QuantileBounds(S, percent)) <= limit
  PROVE  100 * UpTo(Real(S), limit) >= percent * SumFunctionOnSet(Real(S), Values)
<1> DEFINE f == Real(S)
           total == SumFunctionOnSet(f, Values)
           rank == RankOf(total, percent)
           upper == QuantileBounds(S, percent)[2]
<1>1. MergedCount(S) > 0 /\ upper \in Nat /\ \E v \in Values : UpTo(f, v) >= rank /\ v <= upper
  BY QuantileWithin
<1>2. upper <= limit
  BY DEF Reported
<1> HIDE DEF upper
<1>3. total \in Nat /\ total > 0
  BY <1>1, MergedCountIs
<1>4. Values \subseteq Nat /\ IsFiniteSet(Values) /\ \A v \in Values : f[v] \in Nat
  BY HistogramAssumption, RealType DEF AreMeasured
<1> HIDE DEF f, total
<1>5. rank \in Nat /\ 100 * rank >= total * percent
  BY <1>3, RankIs
<1> HIDE DEF rank
<1>6. PICK v \in Values : UpTo(f, v) >= rank /\ v <= upper
  BY <1>1
<1>7. UpTo(f, limit) \in Nat /\ UpTo(f, v) \in Nat /\ UpTo(f, v) <= UpTo(f, limit)
  <2> DEFINE A == {w \in Values : w <= v}
             B == {w \in Values : w <= limit}
  <2>1. \A w \in Values : w <= v => w <= limit
    BY <1>1, <1>2, <1>4, <1>6
  <2>2. A \in SUBSET B /\ IsFiniteSet(B) /\ \A w \in B : f[w] \in Nat
    BY <1>4, <2>1, FS_Subset
  <2> HIDE DEF A, B
  <2>3. /\ SumFunctionOnSet(f, A) \in Nat /\ SumFunctionOnSet(f, B) \in Nat
        /\ SumFunctionOnSet(f, A) <= SumFunctionOnSet(f, B)
    BY <2>2, SumOfParts
  <2> QED
    BY <2>3 DEF UpTo, A, B
<1>8. percent \in Nat /\ total * percent = percent * total /\ percent * total \in Nat
  BY <1>3 DEF Percents
<1> DEFINE p == percent * total
           u == UpTo(f, limit)
           x == UpTo(f, v)
<1>9. 100 * rank >= p /\ x >= rank /\ x <= u /\ u \in Nat /\ x \in Nat /\ p \in Nat
  BY <1>5, <1>6, <1>7, <1>8
<1> HIDE DEF p, u, x
<1>10. 100 * u >= p
  BY <1>5, <1>9
<1> QED
  BY <1>10 DEF p, u, f, total

(* Nothing above the largest value was recorded.                           *)
LEMMA AllWithin ==
  ASSUME Counted, kind = "histogram", NEW S, AreMeasured(S),
         NEW limit \in Nat, Largest(S) # Absent, Largest(S) <= limit
  PROVE  UpTo(Real(S), limit) = SumFunctionOnSet(Real(S), Values)
<1> DEFINE f == Real(S)
           A == {w \in Values : w <= limit}
           B == Values \ A
<1>1. Values \subseteq Nat /\ IsFiniteSet(Values) /\ \A v \in Values : f[v] \in Nat
  BY HistogramAssumption, RealType DEF AreMeasured
<1>2. ASSUME NEW v \in B PROVE f[v] = 0
  <2>1. v \in Nat /\ v \in Values /\ ~(v <= limit) /\ f[v] \in Nat
    BY <1>1
  <2>2. f[v] > 0 => Largest(S) \in Nat /\ v <= Largest(S)
    BY <2>1, ExtremesAre
  <2> HIDE DEF f
  <2> QED
    BY <2>1, <2>2
<1>3. A \in SUBSET Values /\ IsFiniteSet(B)
  BY <1>1, FS_Subset
<1> HIDE DEF f, A
<1>4. /\ SumFunctionOnSet(f, A) \in Nat
      /\ SumFunctionOnSet(f, Values) = SumFunctionOnSet(f, A) + SumFunctionOnSet(f, B)
  BY <1>1, <1>3, SumOfParts
<1>5. SumFunctionOnSet(f, B) = 0
  <2> HIDE DEF B
  <2> QED
    BY <1>2, <1>3, SumOfZeros
<1> QED
  BY <1>4, <1>5 DEF UpTo, A, f

(* A source of time that is found within its policy really was, over the   *)
(* latencies that were measured in the window.                             *)
THEOREM AuthorityWithinPolicy == Spec => []AuthorityIsWithinPolicy
<1>1. ASSUME Dated, Incarnated, Counted, kind = "histogram", WithinPolicy
      PROVE  AuthorityIsWithinPolicy
  <2> DEFINE S == HistogramContributions(SelectedPoints)
             recorded == [v \in Values |-> Truth(v, Instants(S))]
             latencies(limit) == SumFunctionOnSet(recorded, {v \in Values : v <= limit})
             all == SumFunction(recorded)
  <2>1. AreMeasured(S)
    <3>1. SelectedPoints \subseteq HistogramPoints
      BY DEF SelectedPoints
    <3> QED
      BY <1>1, <3>1, ContributionsMeasured DEF AreMeasured
  <2>2. Instants(S) \subseteq InTheWindow
    BY <1>1, SelectedWithin
  <2>3. /\ QuantileBounds(S, 50) # Unbounded /\ QuantileBounds(S, 95) # Unbounded
        /\ Largest(S) # Absent /\ Covered(WindowCoverage(S))
        /\ MergedCount(S) >= MinLatencies
        /\ Reported(QuantileBounds(S, 50)) <= LatencyLimit["p50"]
        /\ Reported(QuantileBounds(S, 95)) <= LatencyLimit["p95"]
        /\ Largest(S) <= LatencyLimit["max"]
    BY <1>1 DEF WithinPolicy
  <2>4. LatencyLimit["p50"] \in Nat /\ LatencyLimit["p95"] \in Nat /\ LatencyLimit["max"] \in Nat
    BY TimeAuthorityAssumption
  <2>5. recorded = Real(S) /\ all = SumFunctionOnSet(Real(S), Values)
    BY RealIsTruth DEF SumFunction
  <2> HIDE DEF S, recorded
  <2>6. temporality = "cumulative" => Cardinality(InTheWindow \ Instants(S)) <= Tolerance
    BY <2>1, <2>3, MergedMisses DEF AreMeasured, Measured
  <2>7. all >= MinLatencies
    BY <1>1, <2>1, <2>3, <2>5, MergedCountIs
  <2>8. \A limit : latencies(limit) = UpTo(Real(S), limit)
    BY <2>5 DEF UpTo
  <2> HIDE DEF latencies, all
  <2>9. 50 \in Percents /\ 95 \in Percents
    BY DEF Percents
  <2>10. 100 * latencies(LatencyLimit["p50"]) >= 50 * all
    <3>1. 100 * UpTo(Real(S), LatencyLimit["p50"]) >= 50 * SumFunctionOnSet(Real(S), Values)
      BY <1>1, <2>1, <2>3, <2>4, <2>9, ShareWithin
    <3> QED
      BY <2>5, <2>8, <3>1
  <2>11. 100 * latencies(LatencyLimit["p95"]) >= 95 * all
    <3>1. 100 * UpTo(Real(S), LatencyLimit["p95"]) >= 95 * SumFunctionOnSet(Real(S), Values)
      BY <1>1, <2>1, <2>3, <2>4, <2>9, ShareWithin
    <3> QED
      BY <2>5, <2>8, <3>1
  <2>12. latencies(LatencyLimit["max"]) = all
    BY <1>1, <2>1, <2>3, <2>4, <2>5, <2>8, AllWithin
  <2> QED
    BY <2>2, <2>6, <2>7, <2>10, <2>11, <2>12 DEF AuthorityIsWithinPolicy, S, recorded, latencies, all
<1>2. Dated /\ Incarnated /\ Counted => AuthorityIsWithinPolicy
  BY <1>1 DEF AuthorityIsWithinPolicy
<1> QED
  BY <1>2, CountsAreExact, PTL
=============================================================================
