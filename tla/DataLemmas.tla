------------------------------ MODULE DataLemmas ------------------------------
(***************************************************************************)
(* Facts about finite data that the proofs need.  Induction is used in the *)
(* form of a least counterexample, since a theorem with an operator for a  *)
(* parameter cannot be instantiated.                                       *)
(***************************************************************************)
EXTENDS Integers, FiniteSetsExt, FiniteSetTheorems, TLAPS

AreNumbers(S) == IsFiniteSet(S) /\ S \subseteq Int

\* A set of naturals that is not empty has a least element.
LEMMA LeastNatural ==
    ASSUME NEW T, T \subseteq Nat, T # {}
    PROVE  \E m \in T : \A k \in T : m <= k
  <1> DEFINE Less == OpToRel(<, Nat)
  <1>1. IsWellFoundedOn(Less, Nat)
    BY NatLessThanWellFounded
  <1>2. \A a \in Nat, b \in Nat : a < b => <<a, b>> \in Less
    BY DEF OpToRel
  <1> HIDE DEF Less
  <1>3. PICK m \in T : \A k \in T : <<k, m>> \notin Less
    BY <1>1, WFMin
  <1>4. ASSUME NEW k \in T PROVE m <= k
    <2>1. ~(k < m)
      BY <1>2, <1>3
    <2> QED BY <2>1
  <1> QED BY <1>3, <1>4

\* A family of finite sets that is not empty has a member with the fewest elements.
LEMMA LeastSet ==
    ASSUME NEW F, F # {}, \A s \in F : IsFiniteSet(s)
    PROVE  \E s \in F : \A t \in F : Cardinality(s) <= Cardinality(t)
  <1> DEFINE N == {Cardinality(s) : s \in F}
  <1>1. N \subseteq Nat /\ N # {}
    BY FS_CardinalityType
  <1>2. PICK m \in N : \A k \in N : m <= k
    BY <1>1, LeastNatural
  <1> QED BY <1>2

\* The image of a finite set has no more elements.
LEMMA ImageIsFew ==
    ASSUME NEW S, IsFiniteSet(S), NEW f
    PROVE  LET T == {f[x] : x \in S}
           IN  IsFiniteSet(T) /\ Cardinality(T) <= Cardinality(S)
  <1> DEFINE T == {f[x] : x \in S}
             g == [x \in S |-> f[x]]
  <1>1. g \in [S -> T] /\ \A t \in T : \E s \in S : g[s] = t
    OBVIOUS
  <1> HIDE DEF g, T
  <1>2. g \in Surjection(S, T)
    BY <1>1 DEF Surjection
  <1>3. IsFiniteSet(T) /\ Cardinality(T) <= Cardinality(S)
    BY <1>2, FS_Surjection
  <1> QED BY <1>3 DEF T

-----------------------------------------------------------------------------
(* Sums *)

SumOf(f, S) == MapThenSumSet(LAMBDA x : f[x], S)

First(s) == CHOOSE x \in s : TRUE

\* The equation of the recursive function that a sum is taken from
IsSum(g, f, S) ==
    g = [s \in SUBSET S |->
            IF s = {} THEN 0
            ELSE f[First(s)] + g[s \ {First(s)}]]

LEMMA SumEquation ==
    ASSUME NEW g, NEW f, NEW S, IsSum(g, f, S), NEW s \in SUBSET S, s # {}
    PROVE  g[s] = f[First(s)] + g[s \ {First(s)}]
  <1> DEFINE E(t) == IF t = {} THEN 0 ELSE f[First(t)] + g[t \ {First(t)}]
  <1>1. g = [t \in SUBSET S |-> E(t)]
    BY DEF IsSum
  <1>2. g[s] = E(s)
    <2> HIDE DEF E
    <2> QED BY <1>1
  <1> QED BY <1>2

LEMMA SumIsChosen ==
    ASSUME NEW f, NEW S PROVE SumOf(f, S) = (CHOOSE g : IsSum(g, f, S))[S]
  BY DEF SumOf, MapThenSumSet, MapThenFoldSet, IsSum, First

\* Two such functions agree where both are defined.
LEMMA SumsAgree ==
    ASSUME NEW f, NEW S, IsFiniteSet(S), NEW T, NEW g, NEW h,
           IsSum(g, f, S), IsSum(h, f, T)
    PROVE  \A s \in SUBSET (S \cap T) : g[s] = h[s]
  <1> DEFINE Bad == {s \in SUBSET (S \cap T) : g[s] # h[s]}
  <1> SUFFICES ASSUME Bad # {} PROVE FALSE
    OBVIOUS
  <1>1. \A s \in Bad : IsFiniteSet(s)
    BY FS_Subset
  <1>2. PICK s \in Bad : \A t \in Bad : Cardinality(s) <= Cardinality(t)
    BY <1>1, LeastSet
  <1>3. s # {}
    BY DEF IsSum
  <1> DEFINE x == First(s)
             u == s \ {x}
  <1>4. x \in s
    BY <1>3 DEF First
  <1>5. g[s] = f[x] + g[u] /\ h[s] = f[x] + h[u]
    BY <1>3, SumEquation
  <1>6. u \in SUBSET (S \cap T) /\ u \notin Bad
    <2>1. Cardinality(u) = Cardinality(s) - 1 /\ Cardinality(s) \in Nat
      BY <1>1, <1>4, FS_RemoveElement, FS_CardinalityType
    <2> QED BY <1>2, <2>1
  <1> QED BY <1>5, <1>6

LEMMA SumExists ==
    ASSUME NEW f, NEW S, IsFiniteSet(S) PROVE \E g : IsSum(g, f, S)
  <1> DEFINE Bad == {s \in SUBSET S : ~\E g : IsSum(g, f, s)}
  <1> SUFFICES ASSUME Bad # {} PROVE FALSE
    OBVIOUS
  <1>1. \A s \in SUBSET S : IsFiniteSet(s)
    BY FS_Subset
  <1>2. PICK s \in Bad : \A t \in Bad : Cardinality(s) <= Cardinality(t)
    BY <1>1, LeastSet
  <1> DEFINE G(t) == CHOOSE g : IsSum(g, f, t)
             x(t) == First(t)
             g == [t \in SUBSET s |-> IF t = {} THEN 0 ELSE f[x(t)] + G(t \ {x(t)})[t \ {x(t)}]]
  <1>3. ASSUME NEW t \in SUBSET s, t # s PROVE IsSum(G(t), f, t)
    <2>1. IsFiniteSet(s) /\ IsFiniteSet(t) /\ t \in SUBSET S
      BY <1>1
    <2>2. Cardinality(t) < Cardinality(s)
      BY <2>1, <1>3, FS_Subset, FS_CardinalityType
    <2>3. t \notin Bad
      BY <1>2, <2>1, <2>2, FS_CardinalityType
    <2> QED BY <2>1, <2>3
  <1>4. ASSUME NEW t \in SUBSET s, t # s PROVE G(t)[t] = g[t]
    <2>1. CASE t = {}
      <3>1. IsSum(G(t), f, t)
        BY <1>3, <1>4
      <3>2. G(t)[t] = 0 /\ g[t] = 0
        <4> HIDE DEF G
        <4> QED BY <2>1, <3>1 DEF IsSum
      <3> QED BY <3>2
    <2>2. CASE t # {}
      <3> DEFINE u == t \ {x(t)}
      <3>1. x(t) \in t
        BY <2>2 DEF First
      <3>2. IsSum(G(t), f, t) /\ IsSum(G(u), f, u) /\ IsFiniteSet(t)
        BY <1>1, <1>3, <1>4, <3>1
      <3>3. G(t)[u] = G(u)[u]
        BY <3>2, SumsAgree
      <3>4. G(t)[t] = f[x(t)] + G(t)[u]
        <4> HIDE DEF G
        <4> QED BY <2>2, <3>2, SumEquation
      <3> HIDE DEF G
      <3> QED BY <2>2, <3>3, <3>4
    <2> QED BY <2>1, <2>2
  <1>5. IsSum(g, f, s)
    <2>1. \A t \in SUBSET s : t # {} => G(t \ {x(t)})[t \ {x(t)}] = g[t \ {x(t)}]
      <3> SUFFICES ASSUME NEW t \in SUBSET s, t # {}
                   PROVE  G(t \ {x(t)})[t \ {x(t)}] = g[t \ {x(t)}]
        OBVIOUS
      <3>1. x(t) \in t
        BY DEF First
      <3>2. t \ {x(t)} \in SUBSET s /\ t \ {x(t)} # s
        BY <3>1
      <3> HIDE DEF G, g, x
      <3> QED BY <1>4, <3>2
    <2>2. \A t \in SUBSET s : g[t] = IF t = {} THEN 0 ELSE f[x(t)] + g[t \ {x(t)}]
      <3> HIDE DEF G, x
      <3> QED BY <2>1
    <2>3. g = [t \in SUBSET s |-> g[t]]
      OBVIOUS
    <2> HIDE DEF g
    <2> QED BY <2>2, <2>3 DEF IsSum
  <1> QED BY <1>2, <1>5

\* The sum of nothing is 0.
LEMMA SumOfEmpty == ASSUME NEW f PROVE SumOf(f, {}) = 0
  BY SumExists, SumIsChosen, FS_EmptySet DEF IsSum

\* A sum is taken by taking one element at a time.
LEMMA SumOfChosen ==
    ASSUME NEW f, NEW S, IsFiniteSet(S), S # {}
    PROVE  SumOf(f, S) = f[First(S)] + SumOf(f, S \ {First(S)})
  <1> DEFINE x == First(S)
             T == S \ {x}
             g == CHOOSE g : IsSum(g, f, S)
             h == CHOOSE h : IsSum(h, f, T)
  <1>1. IsFiniteSet(T)
    BY FS_RemoveElement
  <1>2. IsSum(g, f, S) /\ IsSum(h, f, T)
    BY <1>1, SumExists
  <1>3. g[T] = h[T]
    <2>1. T \in SUBSET (S \cap T)
      OBVIOUS
    <2> HIDE DEF g, h, T
    <2> QED BY <1>2, <2>1, SumsAgree
  <1>4. g[S] = f[x] + g[T]
    <2> HIDE DEF g, h
    <2> QED BY <1>2, SumEquation
  <1>5. SumOf(f, S) = g[S] /\ SumOf(f, T) = h[T]
    BY SumIsChosen
  <1> HIDE DEF g, h
  <1> QED BY <1>3, <1>4, <1>5

\* A sum of naturals is a natural.
LEMMA SumOfNaturals ==
    ASSUME NEW S, IsFiniteSet(S), NEW f, \A x \in S : f[x] \in Nat
    PROVE  SumOf(f, S) \in Nat
  <1> DEFINE Bad == {s \in SUBSET S : SumOf(f, s) \notin Nat}
  <1> SUFFICES ASSUME Bad # {} PROVE FALSE
    OBVIOUS
  <1>1. \A s \in SUBSET S : IsFiniteSet(s)
    BY FS_Subset
  <1>2. PICK s \in Bad : \A t \in Bad : Cardinality(s) <= Cardinality(t)
    BY <1>1, LeastSet
  <1>3. s # {}
    BY SumOfEmpty
  <1> DEFINE t == s \ {First(s)}
  <1>4. First(s) \in s
    BY <1>3 DEF First
  <1>5. t \notin Bad /\ t \in SUBSET S
    <2>1. Cardinality(t) = Cardinality(s) - 1 /\ Cardinality(s) \in Nat
      BY <1>1, <1>4, FS_RemoveElement, FS_CardinalityType
    <2> QED BY <1>2, <2>1
  <1>6. SumOf(f, s) = f[First(s)] + SumOf(f, t)
    BY <1>1, <1>3, SumOfChosen
  <1> QED BY <1>4, <1>5, <1>6

\* An element more adds its value to the sum.
LEMMA SumOfMore ==
    ASSUME NEW S, IsFiniteSet(S), NEW f, \A y \in S : f[y] \in Nat, NEW x \in S
    PROVE  SumOf(f, S) = f[x] + SumOf(f, S \ {x})
  <1> DEFINE Splits(s) == \A y \in s : SumOf(f, s) = f[y] + SumOf(f, s \ {y})
             Bad == {s \in SUBSET S : ~Splits(s)}
  <1> SUFFICES ASSUME Bad # {} PROVE FALSE
    OBVIOUS
  <1>1. \A s \in SUBSET S : IsFiniteSet(s)
    BY FS_Subset
  <1>2. PICK s \in Bad : \A t \in Bad : Cardinality(s) <= Cardinality(t)
    BY <1>1, LeastSet
  <1>3. PICK y \in s : SumOf(f, s) # f[y] + SumOf(f, s \ {y})
    OBVIOUS
  <1> DEFINE z == First(s)
             t == s \ {z}
  <1>4. z \in s /\ SumOf(f, s) = f[z] + SumOf(f, t)
    BY <1>1, SumOfChosen DEF First
  <1>5. z # y
    BY <1>3, <1>4
  <1> HIDE DEF z
  <1>6. t \in SUBSET S /\ s \ {y} \in SUBSET S /\ s \ {y} # s /\ t # s
    BY <1>4
  <1>7. Splits(t) /\ Splits(s \ {y})
    <2>1. ASSUME NEW u \in SUBSET S, NEW v \in s, u = s \ {v} PROVE Splits(u)
      <3>1. Cardinality(u) = Cardinality(s) - 1 /\ Cardinality(s) \in Nat
        BY <1>1, <2>1, FS_RemoveElement, FS_CardinalityType
      <3> QED BY <1>2, <2>1, <3>1
    <2> QED BY <1>4, <1>6, <2>1
  <1> DEFINE u == t \ {y}
  <1>8. y \in t /\ z \in s \ {y} /\ (s \ {y}) \ {z} = u /\ u \in SUBSET S
    BY <1>4, <1>5
  <1>9. SumOf(f, t) = f[y] + SumOf(f, u) /\ SumOf(f, s \ {y}) = f[z] + SumOf(f, u)
    BY <1>7, <1>8
  <1>10. SumOf(f, u) \in Nat /\ f[y] \in Nat /\ f[z] \in Nat
    <2>1. y \in S /\ z \in S
      BY <1>4
    <2>2. IsFiniteSet(u) /\ \A v \in u : f[v] \in Nat
      BY <1>1, <1>8
    <2> QED BY <2>1, <2>2, SumOfNaturals
  <1> HIDE DEF u, t
  <1> QED BY <1>3, <1>4, <1>9, <1>10

\* A larger set of naturals has a larger sum.
LEMMA SumOfSubset ==
    ASSUME NEW T, IsFiniteSet(T), NEW f, \A x \in T : f[x] \in Nat, NEW S \in SUBSET T
    PROVE  SumOf(f, S) <= SumOf(f, T)
  <1> DEFINE Bad == {t \in SUBSET T : S \subseteq t /\ ~(SumOf(f, S) <= SumOf(f, t))}
  <1> SUFFICES ASSUME Bad # {} PROVE FALSE
    OBVIOUS
  <1>1. \A t \in SUBSET T : IsFiniteSet(t) /\ SumOf(f, t) \in Nat
    BY FS_Subset, SumOfNaturals
  <1>2. PICK t \in Bad : \A u \in Bad : Cardinality(t) <= Cardinality(u)
    BY <1>1, LeastSet
  <1>3. PICK x \in t : x \notin S
    BY <1>1
  <1>4. t \ {x} \in SUBSET T /\ S \subseteq t \ {x}
    BY <1>3
  <1>5. t \ {x} \notin Bad
    <2>1. Cardinality(t \ {x}) = Cardinality(t) - 1 /\ Cardinality(t) \in Nat
      BY <1>1, FS_RemoveElement, FS_CardinalityType
    <2> QED BY <1>2, <2>1
  <1>6. SumOf(f, t) = f[x] + SumOf(f, t \ {x}) /\ f[x] \in Nat
    BY <1>1, SumOfMore
  <1> QED BY <1>1, <1>4, <1>5, <1>6

\* Larger numbers have a larger sum.
LEMMA SumOfLarger ==
    ASSUME NEW T, IsFiniteSet(T), NEW f, NEW g,
           \A x \in T : f[x] \in Nat /\ g[x] \in Nat /\ f[x] <= g[x]
    PROVE  SumOf(f, T) <= SumOf(g, T)
  <1> DEFINE Bad == {t \in SUBSET T : ~(SumOf(f, t) <= SumOf(g, t))}
  <1> SUFFICES ASSUME Bad # {} PROVE FALSE
    OBVIOUS
  <1>1. \A t \in SUBSET T : IsFiniteSet(t) /\ SumOf(f, t) \in Nat /\ SumOf(g, t) \in Nat
    BY FS_Subset, SumOfNaturals
  <1>2. PICK t \in Bad : \A u \in Bad : Cardinality(t) <= Cardinality(u)
    BY <1>1, LeastSet
  <1>3. t \in SUBSET T /\ ~(SumOf(f, t) <= SumOf(g, t))
    OBVIOUS
  <1>4. t # {}
    BY <1>3, SumOfEmpty
  <1>5. PICK x \in t : TRUE
    BY <1>4
  <1>6. /\ SumOf(f, t) = f[x] + SumOf(f, t \ {x})
        /\ SumOf(g, t) = g[x] + SumOf(g, t \ {x})
    BY <1>1, <1>3, SumOfMore
  <1>7. t \ {x} \in SUBSET T
    BY <1>3
  <1>8. t \ {x} \notin Bad
    <2>1. Cardinality(t \ {x}) = Cardinality(t) - 1 /\ Cardinality(t) \in Nat
      BY <1>1, <1>3, FS_RemoveElement, FS_CardinalityType
    <2> QED BY <1>2, <2>1
  <1>9. SumOf(f, t \ {x}) <= SumOf(g, t \ {x})
    BY <1>7, <1>8
  <1>10. f[x] \in Nat /\ g[x] \in Nat /\ f[x] <= g[x]
    BY <1>3
  <1>11. SumOf(f, t \ {x}) \in Nat /\ SumOf(g, t \ {x}) \in Nat
    BY <1>1, <1>7
  <1> HIDE DEF Bad
  <1> QED BY <1>3, <1>6, <1>9, <1>10, <1>11

-----------------------------------------------------------------------------
(* The largest numbers of a set *)

\* A finite set of numbers that is not empty has a greatest and a least element.
LEMMA GreatestExists ==
    ASSUME NEW S, IsFiniteSet(S), S \subseteq Int, S # {}
    PROVE  \E m \in S : \A x \in S : x <= m
  <1> DEFINE Bad == {s \in SUBSET S : s # {} /\ ~\E m \in s : \A x \in s : x <= m}
  <1> SUFFICES ASSUME Bad # {} PROVE FALSE
    OBVIOUS
  <1>1. \A s \in SUBSET S : IsFiniteSet(s)
    BY FS_Subset
  <1>2. PICK s \in Bad : \A t \in Bad : Cardinality(s) <= Cardinality(t)
    BY <1>1, LeastSet
  <1>3. PICK y \in s : TRUE
    OBVIOUS
  <1> DEFINE t == s \ {y}
  <1>4. t \notin Bad /\ t \in SUBSET S
    <2>1. Cardinality(t) = Cardinality(s) - 1 /\ Cardinality(s) \in Nat
      BY <1>1, FS_RemoveElement, FS_CardinalityType
    <2>2. ~(Cardinality(s) <= Cardinality(t))
      BY <2>1
    <2>3. t \notin Bad
      <3> HIDE DEF Bad, t
      <3> QED BY <1>2, <2>2
    <2> QED BY <2>3
  <1>5. CASE t = {}
    BY <1>5
  <1>6. CASE t # {}
    <2>1. PICK m \in t : \A x \in t : x <= m
      BY <1>4, <1>6
    <2>2. m \in Int /\ y \in Int
      BY <1>4
    <2>3. CASE y <= m
      BY <2>1, <2>3
    <2>4. CASE ~(y <= m)
      <3>1. \A x \in s : x <= y
        <4>1. ASSUME NEW x \in s PROVE x <= y
          <5>1. x \in Int
            OBVIOUS
          <5>2. CASE x = y
            BY <5>1, <5>2
          <5>3. CASE x # y
            BY <2>1, <2>2, <2>4, <5>1, <5>3
          <5> QED BY <5>2, <5>3
        <4> QED BY <4>1
      <3> QED BY <3>1
    <2> QED BY <2>3, <2>4
  <1> QED BY <1>5, <1>6

LEMMA LeastExists ==
    ASSUME NEW S, IsFiniteSet(S), S \subseteq Int, S # {}
    PROVE  \E m \in S : \A x \in S : m <= x
  <1> DEFINE Bad == {s \in SUBSET S : s # {} /\ ~\E m \in s : \A x \in s : m <= x}
  <1> SUFFICES ASSUME Bad # {} PROVE FALSE
    OBVIOUS
  <1>1. \A s \in SUBSET S : IsFiniteSet(s)
    BY FS_Subset
  <1>2. PICK s \in Bad : \A t \in Bad : Cardinality(s) <= Cardinality(t)
    BY <1>1, LeastSet
  <1>3. PICK y \in s : TRUE
    OBVIOUS
  <1> DEFINE t == s \ {y}
  <1>4. t \notin Bad /\ t \in SUBSET S
    <2>1. Cardinality(t) = Cardinality(s) - 1 /\ Cardinality(s) \in Nat
      BY <1>1, FS_RemoveElement, FS_CardinalityType
    <2>2. ~(Cardinality(s) <= Cardinality(t))
      BY <2>1
    <2>3. t \notin Bad
      <3> HIDE DEF Bad, t
      <3> QED BY <1>2, <2>2
    <2> QED BY <2>3
  <1>5. CASE t = {}
    BY <1>5
  <1>6. CASE t # {}
    <2>1. PICK m \in t : \A x \in t : m <= x
      BY <1>4, <1>6
    <2>2. m \in Int /\ y \in Int
      BY <1>4
    <2>3. CASE m <= y
      BY <2>1, <2>3
    <2>4. CASE ~(m <= y)
      <3>1. \A x \in s : y <= x
        <4>1. ASSUME NEW x \in s PROVE y <= x
          <5>1. x \in Int
            OBVIOUS
          <5>2. CASE x = y
            BY <5>1, <5>2
          <5>3. CASE x # y
            BY <2>1, <2>2, <2>4, <5>1, <5>3
          <5> QED BY <5>2, <5>3
        <4> QED BY <4>1
      <3> QED BY <3>1
    <2> QED BY <2>3, <2>4
  <1> QED BY <1>5, <1>6

\* The n largest of a set: those with fewer than n larger ones
Above(x, S) == {y \in S : y > x}
Largest(n, S) == {x \in S : Cardinality(Above(x, S)) < n}

LEMMA AboveIsFinite ==
    ASSUME NEW S, IsFiniteSet(S), NEW x
    PROVE  IsFiniteSet(Above(x, S)) /\ Cardinality(Above(x, S)) \in Nat
  BY FS_Subset, FS_CardinalityType DEF Above

\* Of more numbers more are larger.
LEMMA AboveGrows ==
    ASSUME NEW S, IsFiniteSet(S), NEW T, T \subseteq S, NEW x
    PROVE  Cardinality(Above(x, T)) <= Cardinality(Above(x, S))
  <1>1. Above(x, T) \in SUBSET Above(x, S)
    BY DEF Above
  <1> QED BY <1>1, AboveIsFinite, FS_Subset

\* What is larger than one of the largest is one of them.
LEMMA LargestIsUpward ==
    ASSUME NEW S, IsFiniteSet(S), S \subseteq Int, NEW n \in Nat,
           NEW x \in Largest(n, S), NEW y \in S, y >= x
    PROVE  y \in Largest(n, S)
  <1>0. x \in S /\ x \in Int /\ y \in Int
    BY DEF Largest
  <1>1. Above(y, S) \in SUBSET Above(x, S)
    <2>1. ASSUME NEW z \in Above(y, S) PROVE z \in Above(x, S)
      <3>1. z \in S /\ z > y /\ z \in Int
        BY DEF Above
      <3>2. z > x
        BY <1>0, <3>1
      <3> QED BY <3>1, <3>2 DEF Above
    <2> QED BY <2>1
  <1>2. Cardinality(Above(y, S)) <= Cardinality(Above(x, S))
    BY <1>1, AboveIsFinite, FS_Subset
  <1>3. Cardinality(Above(y, S)) \in Nat /\ Cardinality(Above(x, S)) \in Nat
    BY AboveIsFinite
  <1> QED BY <1>2, <1>3 DEF Largest

\* They are n at most,
LEMMA LargestAreFew ==
    ASSUME NEW S, IsFiniteSet(S), S \subseteq Int, NEW n \in Nat
    PROVE  /\ IsFiniteSet(Largest(n, S)) /\ Largest(n, S) \subseteq S
           /\ Cardinality(Largest(n, S)) <= n
  <1> DEFINE N == Largest(n, S)
  <1>1. N \in SUBSET S /\ IsFiniteSet(N)
    BY FS_Subset DEF Largest
  <1>2. CASE N = {}
    BY <1>1, <1>2, FS_EmptySet
  <1>3. CASE N # {}
    <2>1. PICK m \in N : \A x \in N : m <= x
      BY <1>1, <1>3, LeastExists
    <2>2. N \ {m} \in SUBSET Above(m, S)
      <3>1. ASSUME NEW z \in N \ {m} PROVE z \in Above(m, S)
        <4>1. z \in S /\ z \in Int /\ m \in Int /\ m <= z /\ z # m
          BY <1>1, <2>1
        <4>2. z > m
          BY <4>1
        <4> QED BY <4>1, <4>2 DEF Above
      <3> QED BY <3>1
    <2>3. Cardinality(N \ {m}) = Cardinality(N) - 1 /\ Cardinality(N) \in Nat
      BY <1>1, FS_RemoveElement, FS_CardinalityType
    <2>4. Cardinality(Above(m, S)) < n /\ Cardinality(Above(m, S)) \in Nat
      BY AboveIsFinite DEF Largest
    <2>5. Cardinality(N \ {m}) <= Cardinality(Above(m, S))
      BY <2>2, AboveIsFinite, FS_Subset
    <2> QED BY <1>1, <2>3, <2>4, <2>5
  <1> QED BY <1>2, <1>3

\* and all, when there are no more.
LEMMA FewAreLargest ==
    ASSUME NEW S, IsFiniteSet(S), S \subseteq Int, NEW n \in Nat, Cardinality(S) <= n
    PROVE  Largest(n, S) = S
  <1>1. ASSUME NEW x \in S PROVE Cardinality(Above(x, S)) < n
    <2>1. Above(x, S) \in SUBSET (S \ {x}) /\ IsFiniteSet(S \ {x})
      BY FS_RemoveElement DEF Above
    <2>2. Cardinality(S \ {x}) = Cardinality(S) - 1 /\ Cardinality(S) \in Nat
      BY FS_RemoveElement, FS_CardinalityType
    <2>3. Cardinality(Above(x, S)) <= Cardinality(S \ {x})
      BY <2>1, FS_Subset
    <2> QED BY <2>2, <2>3, AboveIsFinite
  <1> QED BY <1>1 DEF Largest

\* and when fewer are, there are no more.
LEMMA LargestAreAll ==
    ASSUME NEW S, IsFiniteSet(S), S \subseteq Int, NEW n \in Nat,
           Cardinality(Largest(n, S)) < n
    PROVE  Largest(n, S) = S
  <1> DEFINE Rest == S \ Largest(n, S)
  <1> SUFFICES ASSUME Rest # {} PROVE FALSE
    BY DEF Largest
  <1>1. IsFiniteSet(Rest) /\ Rest \subseteq Int
    BY FS_Difference
  <1>2. PICK c \in Rest : \A d \in Rest : d <= c
    BY <1>1, GreatestExists
  <1>3. Above(c, S) \in SUBSET Largest(n, S)
    <2>1. ASSUME NEW d \in Above(c, S) PROVE d \in Largest(n, S)
      <3>1. d \in S /\ d > c /\ d \in Int /\ c \in Int
        BY DEF Above
      <3>2. ~(d <= c)
        BY <3>1
      <3> QED BY <1>2, <3>1, <3>2
    <2> QED BY <2>1
  <1>4. IsFiniteSet(Largest(n, S)) /\ Cardinality(Largest(n, S)) \in Nat
    BY LargestAreFew, FS_CardinalityType
  <1>5. Cardinality(Above(c, S)) <= Cardinality(Largest(n, S))
    BY <1>3, <1>4, FS_Subset
  <1>6. Cardinality(Above(c, S)) < n
    BY <1>4, <1>5, AboveIsFinite
  <1> QED BY <1>6 DEF Largest

\* Of a union they can be found with the largest of one of its parts.
LEMMA LargestOfUnion ==
    ASSUME NEW S, IsFiniteSet(S), S \subseteq Int, NEW T, IsFiniteSet(T), T \subseteq Int,
           NEW n \in Nat
    PROVE  Largest(n, Largest(n, S) \cup T) = Largest(n, S \cup T)
  <1> DEFINE N == Largest(n, S)
             U == S \cup T
             V == N \cup T
  <1>1. /\ IsFiniteSet(U) /\ IsFiniteSet(V) /\ U \subseteq Int /\ V \subseteq U
        /\ N \subseteq S
    BY FS_Union, LargestAreFew
  <1>2. \A x : /\ Cardinality(Above(x, S)) \in Nat /\ Cardinality(Above(x, U)) \in Nat
               /\ Cardinality(Above(x, V)) \in Nat
               /\ Cardinality(Above(x, S)) <= Cardinality(Above(x, U))
               /\ Cardinality(Above(x, V)) <= Cardinality(Above(x, U))
    BY <1>1, AboveIsFinite, AboveGrows
  <1>3. ASSUME NEW x \in Largest(n, U) PROVE x \in Largest(n, V)
    <2>1. x \in U /\ Cardinality(Above(x, U)) < n
      BY DEF Largest
    <2>2. x \in V
      <3>1. CASE x \in S
        <4>1. Cardinality(Above(x, S)) < n
          BY <1>2, <2>1
        <4> QED BY <3>1, <4>1 DEF Largest
      <3> QED BY <2>1, <3>1
    <2>3. Cardinality(Above(x, V)) < n
      BY <1>2, <2>1
    <2> QED BY <2>2, <2>3 DEF Largest
  <1>4. ASSUME NEW x \in Largest(n, V) PROVE x \in Largest(n, U)
    <2>1. x \in V /\ Cardinality(Above(x, V)) < n /\ x \in U /\ x \in Int
      BY <1>1 DEF Largest
    <2> DEFINE Lost == Above(x, S) \ N
    <2>2. Lost = {}
      <3> SUFFICES ASSUME Lost # {} PROVE FALSE
        OBVIOUS
      <3>1. IsFiniteSet(Lost) /\ Lost \subseteq Int
        BY AboveIsFinite, FS_Difference DEF Above
      <3>2. PICK c \in Lost : \A d \in Lost : d <= c
        BY <3>1, GreatestExists
      <3>3. c \in S /\ c > x /\ c \notin N /\ c \in Int
        BY DEF Above
      <3>4. Above(c, S) \in SUBSET Above(x, V)
        <4>1. ASSUME NEW d \in Above(c, S) PROVE d \in Above(x, V)
          <5>1. d \in S /\ d > c /\ d \in Int
            BY DEF Above
          <5>2. d > x
            BY <2>1, <3>3, <5>1
          <5>3. d \notin Lost
            BY <3>2, <3>3, <5>1
          <5>4. d \in N
            BY <5>1, <5>2, <5>3 DEF Above
          <5> QED BY <5>2, <5>4 DEF Above
        <4> QED BY <4>1
      <3>5. Cardinality(Above(c, S)) <= Cardinality(Above(x, V))
        BY <1>1, <3>4, AboveIsFinite, FS_Subset
      <3>6. ~(Cardinality(Above(c, S)) < n)
        BY <3>3 DEF Largest
      <3>7. Cardinality(Above(c, S)) \in Nat /\ Cardinality(Above(x, V)) \in Nat
        BY <1>2
      <3> QED BY <2>1, <3>5, <3>6, <3>7
    <2>3. Above(x, U) = Above(x, V)
      BY <1>1, <2>2 DEF Above
    <2> QED BY <2>1, <2>3 DEF Largest
  <1> QED BY <1>3, <1>4

-----------------------------------------------------------------------------
(* The smallest numbers of a set: the largest of their negations *)

Below(x, S) == {y \in S : y < x}

\* The n smallest elements, all of them when they are fewer
Smallest(n, S) == {x \in S : Cardinality(Below(x, S)) < n}

Negated(S) == {0 - x : x \in S}

LEMMA NegatedSets ==
    ASSUME NEW S, IsFiniteSet(S), S \subseteq Int
    PROVE  /\ IsFiniteSet(Negated(S)) /\ Negated(S) \subseteq Int
           /\ Negated(Negated(S)) = S
           /\ Cardinality(Negated(S)) = Cardinality(S)
           /\ \A x \in Int : x \in S <=> 0 - x \in Negated(S)
  <1> DEFINE T == Negated(S)
             f == [x \in S |-> 0 - x]
             g == [x \in T |-> 0 - x]
  <1>1. T \subseteq Int
    BY DEF Negated
  <1>2. Negated(T) = S
    <2>1. ASSUME NEW x \in S PROVE x \in Negated(T)
      <3>1. x \in Int /\ x = 0 - (0 - x) /\ 0 - x \in T
        BY DEF Negated
      <3> QED BY <3>1 DEF Negated
    <2>2. ASSUME NEW x \in Negated(T) PROVE x \in S
      <3>1. PICK y \in T : x = 0 - y
        BY DEF Negated
      <3>2. PICK z \in S : y = 0 - z
        BY DEF Negated
      <3>3. z \in Int /\ x = z
        BY <3>1, <3>2
      <3> QED BY <3>3
    <2> QED BY <2>1, <2>2
  <1>3. T = {f[x] : x \in S}
    BY DEF Negated
  <1>4. S = {g[x] : x \in T}
    <2>1. {g[x] : x \in T} = Negated(T)
      BY DEF Negated
    <2> QED BY <1>2, <2>1
  <1>5. IsFiniteSet(T) /\ Cardinality(T) <= Cardinality(S)
    <2> HIDE DEF T, f
    <2> QED BY <1>3, ImageIsFew
  <1>6. Cardinality(S) <= Cardinality(T)
    <2> HIDE DEF T, g
    <2> QED BY <1>4, <1>5, ImageIsFew
  <1>7. Cardinality(S) \in Nat /\ Cardinality(T) \in Nat
    BY <1>5, FS_CardinalityType
  <1>8. \A x \in Int : x \in S <=> 0 - x \in T
    <2> SUFFICES ASSUME NEW x \in Int PROVE x \in S <=> 0 - x \in T
      OBVIOUS
    <2>1. x \in S => 0 - x \in T
      BY DEF Negated
    <2>2. 0 - x \in T => x \in S
      <3> SUFFICES ASSUME 0 - x \in T PROVE x \in S
        OBVIOUS
      <3>1. PICK y \in S : 0 - x = 0 - y
        BY DEF Negated
      <3>2. y = x
        BY <3>1
      <3> QED BY <3>2
    <2> QED BY <2>1, <2>2
  <1> QED BY <1>1, <1>2, <1>5, <1>6, <1>7, <1>8

LEMMA SmallestAreLargest ==
    ASSUME NEW S, IsFiniteSet(S), S \subseteq Int, NEW n
    PROVE  Largest(n, Negated(S)) = Negated(Smallest(n, S))
  <1> DEFINE T == Negated(S)
  <1>1. ASSUME NEW x \in S
        PROVE  Cardinality(Above(0 - x, T)) = Cardinality(Below(x, S))
    <2>1. Above(0 - x, T) = Negated(Below(x, S))
      <3>1. ASSUME NEW y \in Above(0 - x, T) PROVE y \in Negated(Below(x, S))
        <4>1. PICK z \in S : y = 0 - z
          BY DEF Above, Negated
        <4>2. z \in Int /\ x \in Int /\ y > 0 - x
          BY DEF Above
        <4>3. z < x
          BY <4>1, <4>2
        <4> QED BY <4>1, <4>3 DEF Below, Negated
      <3>2. ASSUME NEW y \in Negated(Below(x, S)) PROVE y \in Above(0 - x, T)
        <4>1. PICK z \in S : z < x /\ y = 0 - z
          BY DEF Below, Negated
        <4>2. z \in Int /\ x \in Int
          OBVIOUS
        <4>3. y > 0 - x
          BY <4>1, <4>2
        <4> QED BY <4>1, <4>3 DEF Above, Negated
      <3> QED BY <3>1, <3>2
    <2>2. IsFiniteSet(Below(x, S)) /\ Below(x, S) \subseteq Int
      BY FS_Subset DEF Below
    <2> QED BY <2>1, <2>2, NegatedSets
  <1>2. ASSUME NEW y \in Largest(n, T) PROVE y \in Negated(Smallest(n, S))
    <2>1. PICK x \in S : y = 0 - x
      BY DEF Largest, Negated
    <2>2. Cardinality(Above(y, T)) < n
      BY DEF Largest
    <2> HIDE DEF T
    <2>3. x \in Smallest(n, S)
      BY <1>1, <2>1, <2>2 DEF Smallest
    <2> QED BY <2>1, <2>3 DEF Negated
  <1>3. ASSUME NEW y \in Negated(Smallest(n, S)) PROVE y \in Largest(n, T)
    <2>1. PICK x \in S : x \in Smallest(n, S) /\ y = 0 - x
      BY DEF Smallest, Negated
    <2>2. Cardinality(Below(x, S)) < n
      BY <2>1 DEF Smallest
    <2>3. y \in T
      BY <2>1 DEF Negated
    <2> HIDE DEF T
    <2> QED BY <1>1, <2>1, <2>2, <2>3 DEF Largest
  <1> QED BY <1>2, <1>3

\* They are n at most, or all; and what is smaller than one of them is one.
LEMMA SmallestAreFew ==
    ASSUME NEW S, IsFiniteSet(S), S \subseteq Int, NEW n \in Nat
    PROVE  LET D == Smallest(n, S)
           IN  /\ IsFiniteSet(D) /\ D \subseteq S /\ Cardinality(D) <= n
               /\ Cardinality(D) < n => D = S
               /\ \A x \in D, y \in S : y <= x => y \in D
  <1> DEFINE D == Smallest(n, S)
             E == Largest(n, Negated(S))
  <1>1. D \in SUBSET S /\ IsFiniteSet(D) /\ D \subseteq Int
    BY FS_Subset DEF Smallest
  <1>2. IsFiniteSet(Negated(S)) /\ Negated(S) \subseteq Int /\ Negated(Negated(S)) = S
    BY NegatedSets
  <1>3. E = Negated(D)
    BY SmallestAreLargest
  <1>4. Cardinality(E) = Cardinality(D) /\ Negated(E) = D
        /\ \A x \in Int : x \in D <=> 0 - x \in E
    <2> HIDE DEF D, E
    <2>1. /\ Negated(Negated(D)) = D
          /\ Cardinality(Negated(D)) = Cardinality(D)
          /\ \A x \in Int : x \in D <=> 0 - x \in Negated(D)
      BY <1>1, NegatedSets
    <2> QED BY <1>3, <2>1
  <1>5. Cardinality(E) <= n
    BY <1>2, LargestAreFew
  <1>6. Cardinality(E) < n => E = Negated(S)
    BY <1>2, LargestAreAll
  <1>7. ASSUME NEW x \in D, NEW y \in S, y <= x PROVE y \in D
    <2>1. x \in Int /\ y \in Int /\ 0 - y >= 0 - x
      BY <1>1, <1>7
    <2>2. 0 - x \in E /\ 0 - y \in Negated(S)
      BY <1>4, <2>1, NegatedSets
    <2>3. 0 - y \in E
      BY <1>2, <2>1, <2>2, LargestIsUpward
    <2> QED BY <1>4, <2>1, <2>3
  <1> HIDE DEF D, E
  <1> QED BY <1>1, <1>2, <1>4, <1>5, <1>6, <1>7 DEF D

-----------------------------------------------------------------------------
(* What comes first in an order, which is a set of pairs *)

IsOrder(R, U) ==
    /\ \A a \in U : <<a, a>> \notin R
    /\ \A a, b \in U : a # b => <<a, b>> \in R \/ <<b, a>> \in R
    /\ \A a, b, c \in U : <<a, b>> \in R /\ <<b, c>> \in R => <<a, c>> \in R

Preceding(R, x, S) == {y \in S : <<y, x>> \in R}
Firsts(R, n, S) == {x \in S : Cardinality(Preceding(R, x, S)) < n}

Reverse(R, U) == {p \in U \X U : <<p[2], p[1]>> \in R}

LEMMA PrecedingIsFew ==
    ASSUME NEW S, IsFiniteSet(S), NEW R, NEW x
    PROVE  /\ IsFiniteSet(Preceding(R, x, S))
           /\ Cardinality(Preceding(R, x, S)) \in Nat
  <1>1. Preceding(R, x, S) \in SUBSET S
    BY DEF Preceding
  <1>2. IsFiniteSet(Preceding(R, x, S))
    BY <1>1, FS_Subset
  <1> QED BY <1>2, FS_CardinalityType

\* A finite set has a first element.
LEMMA FirstExists ==
    ASSUME NEW U, NEW R, IsOrder(R, U), NEW S \in SUBSET U, IsFiniteSet(S), S # {}
    PROVE  \E x \in S : \A y \in S : y = x \/ <<x, y>> \in R
  <1> DEFINE F == {Preceding(R, x, S) : x \in S}
  <1>1. F # {} /\ \A s \in F : IsFiniteSet(s)
    BY PrecedingIsFew
  <1>2. PICK s \in F : \A t \in F : Cardinality(s) <= Cardinality(t)
    <2> HIDE DEF F
    <2> QED BY <1>1, LeastSet
  <1>3. PICK x \in S : s = Preceding(R, x, S)
    OBVIOUS
  <1>4. ASSUME NEW y \in S, <<y, x>> \in R PROVE FALSE
    <2>1. Preceding(R, y, S) \in SUBSET Preceding(R, x, S)
      BY <1>4 DEF Preceding, IsOrder
    <2>2. y \in Preceding(R, x, S) /\ y \notin Preceding(R, y, S)
      BY <1>4 DEF Preceding, IsOrder
    <2>3. /\ Cardinality(Preceding(R, y, S)) <= Cardinality(Preceding(R, x, S))
          /\ Cardinality(Preceding(R, x, S)) = Cardinality(Preceding(R, y, S))
                => Preceding(R, x, S) = Preceding(R, y, S)
      BY <2>1, PrecedingIsFew, FS_Subset
    <2>4. /\ Cardinality(Preceding(R, y, S)) \in Nat
          /\ Cardinality(Preceding(R, x, S)) \in Nat
      BY PrecedingIsFew
    <2>5. Cardinality(Preceding(R, x, S)) <= Cardinality(Preceding(R, y, S))
      BY <1>2, <1>3
    <2> HIDE DEF F
    <2> QED BY <2>2, <2>3, <2>4, <2>5
  <1> HIDE DEF F
  <1> QED BY <1>4 DEF IsOrder

\* And a last one.
LEMMA LastExists ==
    ASSUME NEW U, NEW R, IsOrder(R, U), NEW S \in SUBSET U, IsFiniteSet(S), S # {}
    PROVE  \E x \in S : \A y \in S : y = x \/ <<y, x>> \in R
  <1>1. \A a, b \in U : <<a, b>> \in Reverse(R, U) <=> <<b, a>> \in R
    BY DEF Reverse
  <1>2. IsOrder(Reverse(R, U), U)
    BY <1>1 DEF IsOrder
  <1>3. \E x \in S : \A y \in S : y = x \/ <<x, y>> \in Reverse(R, U)
    BY <1>2, FirstExists
  <1> QED BY <1>1, <1>3

\* What is not among the first n has n of them before it.
LEMMA FirstsAreFull ==
    ASSUME NEW U, NEW R, IsOrder(R, U), NEW S \in SUBSET U, IsFiniteSet(S),
           NEW n \in Nat, NEW x \in S, x \notin Firsts(R, n, S)
    PROVE  n <= Cardinality(Preceding(R, x, Firsts(R, n, S)))
  <1> DEFINE Late == S \ Firsts(R, n, S)
  <1>1. Late \in SUBSET U /\ Late \in SUBSET S /\ IsFiniteSet(Late) /\ Late # {}
    BY FS_Subset
  <1>2. PICK b \in Late : \A y \in Late : y = b \/ <<b, y>> \in R
    <2> HIDE DEF Late
    <2> QED BY <1>1, FirstExists
  <1>3. n <= Cardinality(Preceding(R, b, S))
    BY PrecedingIsFew DEF Firsts
  <1>4. Preceding(R, b, S) \in SUBSET Preceding(R, x, Firsts(R, n, S))
    <2> SUFFICES ASSUME NEW y \in S, <<y, b>> \in R
                 PROVE  y \in Firsts(R, n, S) /\ <<y, x>> \in R
      BY DEF Preceding
    <2>1. b \in S /\ x \in Late /\ y \in U /\ b \in U /\ x \in U
      OBVIOUS
    <2>2. y \in Late => FALSE
      <3> HIDE DEF Late
      <3> QED BY <1>2, <2>1 DEF IsOrder
    <2>3. x = b \/ <<b, x>> \in R
      <3> HIDE DEF Late
      <3> QED BY <1>2, <2>1
    <2> QED BY <2>1, <2>2, <2>3 DEF IsOrder
  <1>5. IsFiniteSet(Firsts(R, n, S))
    <2>1. Firsts(R, n, S) \in SUBSET S
      BY DEF Firsts
    <2> QED BY <2>1, FS_Subset
  <1>6. /\ IsFiniteSet(Preceding(R, x, Firsts(R, n, S)))
        /\ Cardinality(Preceding(R, x, Firsts(R, n, S))) \in Nat
    BY <1>5, PrecedingIsFew
  <1>7. Cardinality(Preceding(R, b, S)) <= Cardinality(Preceding(R, x, Firsts(R, n, S)))
    BY <1>4, <1>6, FS_Subset
  <1>8. Cardinality(Preceding(R, b, S)) \in Nat
    BY PrecedingIsFew
  <1> QED BY <1>3, <1>6, <1>7, <1>8

\* The first of the first of two sets are the first of both: whatever precedes
\* one of them is among them, and if they are fewer than n there is nothing else.
LEMMA FirstsOfTwo ==
    ASSUME NEW U, NEW R, IsOrder(R, U), NEW A \in SUBSET U, IsFiniteSet(A),
           NEW B \in SUBSET U, IsFiniteSet(B), NEW n \in Nat
    PROVE  LET found == Firsts(R, n, A) \cup Firsts(R, n, B)
               page == Firsts(R, n, found)
           IN  /\ IsFiniteSet(page) /\ page \subseteq A \cup B
               /\ \A x \in page, y \in A \cup B : <<y, x>> \in R => y \in page
               /\ Cardinality(page) < n => A \cup B \subseteq page
  <1> DEFINE found == Firsts(R, n, A) \cup Firsts(R, n, B)
             page == Firsts(R, n, found)
  <1>1. /\ Firsts(R, n, A) \in SUBSET A /\ Firsts(R, n, B) \in SUBSET B
        /\ found \in SUBSET U /\ page \in SUBSET found
    BY DEF Firsts
  <1>2. IsFiniteSet(Firsts(R, n, A)) /\ IsFiniteSet(Firsts(R, n, B))
    BY <1>1, FS_Subset
  <1>3. IsFiniteSet(found)
    BY <1>2, FS_Union
  <1>4. IsFiniteSet(page) /\ Cardinality(page) \in Nat
    BY <1>1, <1>3, FS_Subset, FS_CardinalityType
  <1>5. ASSUME NEW S \in {A, B}, NEW y \in S, y \notin Firsts(R, n, S)
        PROVE  n <= Cardinality(Preceding(R, y, Firsts(R, n, S)))
               /\ n <= Cardinality(Firsts(R, n, S))
    <2>1. n <= Cardinality(Preceding(R, y, Firsts(R, n, S)))
      BY <1>5, FirstsAreFull
    <2>2. Preceding(R, y, Firsts(R, n, S)) \in SUBSET Firsts(R, n, S)
      BY DEF Preceding
    <2>3. IsFiniteSet(Firsts(R, n, S))
      BY <1>2
    <2>4. /\ Cardinality(Preceding(R, y, Firsts(R, n, S))) <= Cardinality(Firsts(R, n, S))
          /\ Cardinality(Firsts(R, n, S)) \in Nat
          /\ Cardinality(Preceding(R, y, Firsts(R, n, S))) \in Nat
      BY <2>2, <2>3, PrecedingIsFew, FS_Subset, FS_CardinalityType
    <2> QED BY <2>1, <2>4
  <1>6. ASSUME NEW x \in page, NEW S \in {A, B}, NEW y \in S, <<y, x>> \in R
        PROVE  y \in page
    <2>1. /\ x \in U /\ y \in U /\ x \in found /\ S \in SUBSET U
          /\ Firsts(R, n, S) \in SUBSET found
      BY <1>1
    <2>2. Cardinality(Preceding(R, x, found)) < n
      BY DEF Firsts
    <2>3. /\ IsFiniteSet(Preceding(R, x, found))
          /\ Cardinality(Preceding(R, x, found)) \in Nat
      <3> HIDE DEF found
      <3> QED BY <1>3, PrecedingIsFew
    <2> HIDE DEF found
    <2>4. y \in Firsts(R, n, S)
      <3> SUFFICES ASSUME y \notin Firsts(R, n, S) PROVE FALSE
        OBVIOUS
      <3>1. Preceding(R, y, Firsts(R, n, S)) \in SUBSET Preceding(R, x, found)
        BY <1>1, <1>6, <2>1 DEF Preceding, IsOrder
      <3>2. /\ Cardinality(Preceding(R, y, Firsts(R, n, S)))
                 <= Cardinality(Preceding(R, x, found))
            /\ Cardinality(Preceding(R, y, Firsts(R, n, S))) \in Nat
        <4>1. IsFiniteSet(Firsts(R, n, S))
          BY <1>2
        <4> QED BY <2>3, <3>1, <4>1, PrecedingIsFew, FS_Subset
      <3> QED BY <1>5, <2>2, <2>3, <3>2
    <2>5. Preceding(R, y, found) \in SUBSET Preceding(R, x, found)
      BY <1>1, <1>6, <2>1 DEF Preceding, IsOrder
    <2>6. /\ Cardinality(Preceding(R, y, found)) <= Cardinality(Preceding(R, x, found))
          /\ Cardinality(Preceding(R, y, found)) \in Nat
      BY <1>3, <2>3, <2>5, PrecedingIsFew, FS_Subset
    <2>7. Cardinality(Preceding(R, y, found)) < n
      BY <2>2, <2>3, <2>6
    <2> QED BY <2>1, <2>4, <2>7 DEF Firsts
  <1>7. ASSUME Cardinality(page) < n PROVE found \subseteq page
    <2> SUFFICES ASSUME NEW y \in found, y \notin page PROVE FALSE
      OBVIOUS
    <2>1. n <= Cardinality(Preceding(R, y, page))
      <3> HIDE DEF found
      <3> QED BY <1>1, <1>3, FirstsAreFull
    <2>2. Preceding(R, y, page) \in SUBSET page
      BY DEF Preceding
    <2> HIDE DEF page, found
    <2>3. /\ Cardinality(Preceding(R, y, page)) <= Cardinality(page)
          /\ Cardinality(Preceding(R, y, page)) \in Nat
      BY <1>4, <2>2, PrecedingIsFew, FS_Subset
    <2> QED BY <1>4, <1>7, <2>1, <2>3
  <1>8. ASSUME Cardinality(page) < n, NEW S \in {A, B}, NEW y \in S PROVE y \in page
    <2> SUFFICES ASSUME y \notin Firsts(R, n, S) PROVE FALSE
      BY <1>7, <1>8
    <2>1. n <= Cardinality(Firsts(R, n, S))
      BY <1>5
    <2>2. Firsts(R, n, S) \in SUBSET page
      BY <1>7, <1>8
    <2>3. Cardinality(Firsts(R, n, S)) <= Cardinality(page)
      BY <1>4, <2>2, FS_Subset
    <2>4. Cardinality(Firsts(R, n, S)) \in Nat
      BY <1>2, FS_CardinalityType
    <2> HIDE DEF page, found
    <2> QED BY <1>4, <1>8, <2>1, <2>3, <2>4
  <1> QED BY <1>1, <1>4, <1>6, <1>8

=============================================================================
