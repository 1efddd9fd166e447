---------------------------- MODULE FiniteFacts ----------------------------
(***************************************************************************)
(* Facts about finite sets that the proofs of several components need: a    *)
(* set of naturals has a smallest element, and the laws of finite sums.     *)
(* MapThenSumSet adds the values of its elements one by one; the lemmas say *)
(* that it counts units: the sum of f over S is the number of pairs         *)
(* <<x, i>> with x in S and i in 1 .. f[x].  So the laws of sums are those  *)
(* of cardinalities.                                                        *)
(***************************************************************************)
EXTENDS Integers, FiniteSetsExt, FiniteSetTheorems, TLAPS

-----------------------------------------------------------------------------
(* Least elements *)

\* A set of naturals has a smallest element: the sets 0 .. n are finite, and
\* inclusion of finite sets is well-founded.
LEMMA LeastElement ==
  ASSUME NEW T \in SUBSET Nat, T # {}
  PROVE  \E x \in T : \A y \in T : x <= y
<1> DEFINE F == {0 .. n : n \in T}
<1>1. F \subseteq FiniteSubsetsOf(Nat)
  <2>1. \A n \in T : 0 .. n \subseteq Nat /\ IsFiniteSet(0 .. n)
    BY FS_Interval
  <2> QED BY <2>1 DEF FiniteSubsetsOf
<1>2. F # {}
  OBVIOUS
<1>3. PICK i \in F : \A j \in F : <<j, i>> \notin StrictSubsetOrdering(Nat)
  <2> HIDE DEF F
  <2>1. IsWellFoundedOn(StrictSubsetOrdering(Nat), FiniteSubsetsOf(Nat))
    BY FS_StrictSubsetOrderingWellFounded
  <2> QED BY <1>1, <1>2, <2>1, WFMin
<1>4. PICK x \in T : i = 0 .. x
  OBVIOUS
<1>5. ASSUME NEW y \in T, y < x
      PROVE  FALSE
  <2>1. x \in 0 .. x /\ x \notin 0 .. y
    BY <1>5
  <2>2. 0 .. y \subseteq 0 .. x /\ 0 .. y # 0 .. x
    BY <1>5, <2>1
  <2>3. 0 .. y \in F /\ 0 .. y \subseteq Nat /\ 0 .. x \subseteq Nat
    OBVIOUS
  <2> QED BY <1>3, <1>4, <2>2, <2>3 DEF StrictSubsetOrdering
<1> QED BY <1>5

-----------------------------------------------------------------------------
(* Units *)

\* The units of x and of all elements of S, and how many they are.
UnitsOf(f, x) == {x} \X (1 .. f[x])
Units(f, S) == UNION {UnitsOf(f, x) : x \in S}
Total(f, S) == Cardinality(Units(f, S))

LEMMA UnitsOfCount ==
  ASSUME NEW f, NEW x, f[x] \in Nat
  PROVE  IsFiniteSet(UnitsOf(f, x)) /\ Cardinality(UnitsOf(f, x)) = f[x]
<1> DEFINE n == f[x]
<1>1. IsFiniteSet(1 .. n) /\ Cardinality(1 .. n) = n
  <2> HIDE DEF n
  <2>1. n \in Nat
    BY DEF n
  <2>2. IsFiniteSet(1 .. n) /\ Cardinality(1 .. n) = IF 1 > n THEN 0 ELSE n - 1 + 1
    BY <2>1, FS_Interval
  <2> QED BY <2>1, <2>2
<1>2. IsFiniteSet({x}) /\ Cardinality({x}) = 1
  BY FS_Singleton
<1> HIDE DEF n
<1>3. IsFiniteSet({x} \X (1 .. n)) /\ Cardinality({x} \X (1 .. n)) = 1 * n
  BY <1>1, <1>2, FS_Product, ZenonT(40)
<1> QED BY <1>3 DEF n, UnitsOf

LEMMA UnitsFinite ==
  ASSUME NEW f, NEW S, IsFiniteSet(S), \A x \in S : f[x] \in Nat
  PROVE  IsFiniteSet(Units(f, S))
<1> DEFINE U == {UnitsOf(f, x) : x \in S}
<1>1. IsFiniteSet(U)
  <2> DEFINE each == [x \in S |-> UnitsOf(f, x)]
  <2>1. each \in Surjection(S, U)
    BY DEF Surjection
  <2> HIDE DEF each, U
  <2> QED BY <2>1, FS_Surjection
<1>2. \A u \in U : IsFiniteSet(u)
  BY UnitsOfCount
<1> HIDE DEF U
<1>3. IsFiniteSet(UNION U)
  BY <1>1, <1>2, FS_UNION
<1> QED BY <1>3 DEF U, Units

-----------------------------------------------------------------------------
(* The laws of totals *)

LEMMA TotalType ==
  ASSUME NEW f, NEW S, IsFiniteSet(S), \A x \in S : f[x] \in Nat
  PROVE  Total(f, S) \in Nat
BY UnitsFinite, FS_CardinalityType DEF Total

LEMMA TotalEmpty ==
  ASSUME NEW f
  PROVE  Total(f, {}) = 0
<1>1. Units(f, {}) = {}
  BY DEF Units
<1> QED BY <1>1, FS_EmptySet DEF Total

\* Totals depend on the values over the set only.
LEMMA TotalSame ==
  ASSUME NEW f, NEW g, NEW S, \A x \in S : f[x] = g[x]
  PROVE  Total(f, S) = Total(g, S)
<1>1. Units(f, S) = Units(g, S)
  BY DEF Units, UnitsOf
<1> QED BY <1>1 DEF Total

\* The total over two disjoint sets is the sum of their totals.
LEMMA TotalUnion ==
  ASSUME NEW f, NEW S, NEW T, IsFiniteSet(S), IsFiniteSet(T), S \cap T = {},
         \A x \in S \cup T : f[x] \in Nat
  PROVE  Total(f, S \cup T) = Total(f, S) + Total(f, T)
<1>1. IsFiniteSet(Units(f, S)) /\ IsFiniteSet(Units(f, T))
  BY UnitsFinite
<1>2. Units(f, S \cup T) = Units(f, S) \cup Units(f, T)
  BY DEF Units
<1>3. Units(f, S) \cap Units(f, T) = {}
  BY DEF Units, UnitsOf
<1>4. Cardinality(Units(f, S) \cup Units(f, T)) =
        Cardinality(Units(f, S)) + Cardinality(Units(f, T)) - Cardinality({})
  BY <1>1, <1>3, FS_Union
<1>5. Cardinality(Units(f, S)) \in Nat /\ Cardinality(Units(f, T)) \in Nat
  BY <1>1, FS_CardinalityType
<1> QED BY <1>2, <1>4, <1>5, FS_EmptySet DEF Total

LEMMA TotalSingle ==
  ASSUME NEW f, NEW x, f[x] \in Nat
  PROVE  Total(f, {x}) = f[x]
<1>1. Units(f, {x}) = UnitsOf(f, x)
  BY DEF Units
<1> QED BY <1>1, UnitsOfCount DEF Total

\* One element more adds its value.
LEMMA TotalAdd ==
  ASSUME NEW f, NEW S, NEW x, IsFiniteSet(S), x \notin S,
         \A y \in S \cup {x} : f[y] \in Nat
  PROVE  Total(f, S \cup {x}) = Total(f, S) + f[x]
<1>1. IsFiniteSet({x})
  BY FS_Singleton
<1>2. Total(f, S \cup {x}) = Total(f, S) + Total(f, {x})
  BY <1>1, TotalUnion
<1> QED BY <1>2, TotalSingle

\* One element less takes its value away.
LEMMA TotalRemove ==
  ASSUME NEW f, NEW S, NEW x \in S, IsFiniteSet(S), \A y \in S : f[y] \in Nat
  PROVE  /\ Total(f, S \ {x}) = Total(f, S) - f[x]
         /\ f[x] <= Total(f, S)
<1> DEFINE T == S \ {x}
<1>1. IsFiniteSet(T)
  BY FS_RemoveElement
<1>2. S = T \cup {x} /\ x \notin T /\ \A y \in T \cup {x} : f[y] \in Nat
  OBVIOUS
<1> HIDE DEF T
<1>3. Total(f, S) = Total(f, T) + f[x] /\ Total(f, T) \in Nat
  BY <1>1, <1>2, TotalAdd, TotalType
<1> QED BY <1>2, <1>3 DEF T

\* A change of the value of one element changes the total by as much.
LEMMA TotalChange ==
  ASSUME NEW f, NEW g, NEW S, NEW x \in S, IsFiniteSet(S),
         \A y \in S : f[y] \in Nat, g[x] \in Nat, \A y \in S \ {x} : g[y] = f[y]
  PROVE  Total(g, S) = Total(f, S) - f[x] + g[x]
<1>1. Total(f, S \ {x}) = Total(f, S) - f[x] /\ Total(g, S \ {x}) = Total(g, S) - g[x]
  <2>1. \A y \in S : g[y] \in Nat
    OBVIOUS
  <2> QED BY <2>1, TotalRemove
<1>2. Total(f, S \ {x}) = Total(g, S \ {x})
  <2> DEFINE T == S \ {x}
  <2>1. \A y \in T : f[y] = g[y]
    OBVIOUS
  <2> HIDE DEF T
  <2>2. Total(f, T) = Total(g, T)
    BY <2>1, TotalSame
  <2> QED BY <2>2 DEF T
<1>3. Total(f, S) \in Nat /\ Total(g, S) \in Nat
  <2>1. \A y \in S : g[y] \in Nat
    OBVIOUS
  <2> QED BY <2>1, TotalType
<1> QED BY <1>1, <1>2, <1>3

\* The total of zeros is zero.
LEMMA TotalZero ==
  ASSUME NEW f, NEW S, \A x \in S : f[x] = 0
  PROVE  Total(f, S) = 0
<1>1. Units(f, S) = {}
  BY DEF Units, UnitsOf
<1> QED BY <1>1, FS_EmptySet DEF Total

\* The total of a constant.
LEMMA TotalConst ==
  ASSUME NEW f, NEW S, IsFiniteSet(S), NEW w \in Nat, \A x \in S : f[x] = w
  PROVE  Total(f, S) = Cardinality(S) * w
<1>1. Units(f, S) = S \X (1 .. w)
  BY DEF Units, UnitsOf
<1>2. IsFiniteSet(1 .. w) /\ Cardinality(1 .. w) = w
  <2>1. IsFiniteSet(1 .. w) /\ Cardinality(1 .. w) = IF 1 > w THEN 0 ELSE w - 1 + 1
    BY FS_Interval
  <2> QED BY <2>1
<1>3. Cardinality(S \X (1 .. w)) = Cardinality(S) * w
  BY <1>2, FS_Product
<1> QED BY <1>1, <1>3 DEF Total

-----------------------------------------------------------------------------
(* What MapThenSumSet computes *)

\* The recursion by which MapThenSumSet is defined, for the values f.
AddsUp(g, f, S) ==
  g = [s \in SUBSET S |-> IF s = {} THEN 0
                          ELSE f[CHOOSE x \in s : TRUE] + g[s \ {CHOOSE x \in s : TRUE}]]

\* There is such a function: the totals.
LEMMA TotalsAddUp ==
  ASSUME NEW f, NEW S, IsFiniteSet(S), \A x \in S : f[x] \in Nat
  PROVE  AddsUp([s \in SUBSET S |-> Total(f, s)], f, S)
<1> DEFINE g == [s \in SUBSET S |-> Total(f, s)]
           first(s) == CHOOSE x \in s : TRUE
<1>1. ASSUME NEW s \in SUBSET S, s # {}
      PROVE  Total(f, s) = f[first(s)] + g[s \ {first(s)}]
  <2>1. first(s) \in s
    BY <1>1
  <2> HIDE DEF first
  <2>2. IsFiniteSet(s)
    BY FS_Subset
  <2>3. Total(f, s \ {first(s)}) = Total(f, s) - f[first(s)] /\ Total(f, s) \in Nat
    BY <2>1, <2>2, TotalRemove, TotalType
  <2> QED BY <2>1, <2>3
<1> HIDE DEF first
<1>2. g = [s \in SUBSET S |-> IF s = {} THEN 0 ELSE f[first(s)] + g[s \ {first(s)}]]
  BY <1>1, TotalEmpty
<1> QED BY <1>2 DEF AddsUp, first

\* And there is no other: a smallest set where one differs would not.
LEMMA AddsUpTotal ==
  ASSUME NEW f, NEW S, IsFiniteSet(S), \A x \in S : f[x] \in Nat,
         NEW g, AddsUp(g, f, S)
  PROVE  g[S] = Total(f, S)
<1> DEFINE first(s) == CHOOSE x \in s : TRUE
           Wrong == {s \in SUBSET S : g[s] # Total(f, s)}
<1>1. \A s \in SUBSET S :
        g[s] = IF s = {} THEN 0 ELSE f[first(s)] + g[s \ {first(s)}]
  BY DEF AddsUp
<1>2. ASSUME NEW s \in SUBSET S, s # {}, g[s \ {first(s)}] = Total(f, s \ {first(s)})
      PROVE  g[s] = Total(f, s)
  <2>1. first(s) \in s
    BY <1>2
  <2>2. g[s] = f[first(s)] + g[s \ {first(s)}]
    BY <1>1, <1>2
  <2> HIDE DEF first
  <2>3. IsFiniteSet(s)
    BY FS_Subset
  <2>4. Total(f, s \ {first(s)}) = Total(f, s) - f[first(s)] /\ Total(f, s) \in Nat
    BY <2>1, <2>3, TotalRemove, TotalType
  <2> QED BY <1>2, <2>1, <2>2, <2>4
<1>3. g[{}] = Total(f, {})
  BY <1>1, TotalEmpty
<1>4. SUFFICES ASSUME Wrong # {}
               PROVE  FALSE
  OBVIOUS
<1>5. Wrong \subseteq FiniteSubsetsOf(S)
  <2>1. \A s \in SUBSET S : IsFiniteSet(s)
    BY FS_Subset
  <2> QED BY <2>1 DEF FiniteSubsetsOf
<1>6. PICK s \in Wrong : \A t \in Wrong : <<t, s>> \notin StrictSubsetOrdering(S)
  <2> HIDE DEF Wrong
  <2>1. IsWellFoundedOn(StrictSubsetOrdering(S), FiniteSubsetsOf(S))
    BY FS_StrictSubsetOrderingWellFounded
  <2> QED BY <1>4, <1>5, <2>1, WFMin
<1>7. s # {} /\ s \subseteq S
  BY <1>3
<1>8. first(s) \in s
  BY <1>7
<1> HIDE DEF first
<1>9. s \ {first(s)} \notin Wrong
  <2>1. <<s \ {first(s)}, s>> \in StrictSubsetOrdering(S)
    BY <1>7, <1>8 DEF StrictSubsetOrdering
  <2> QED BY <1>6, <2>1
<1> QED BY <1>2, <1>7, <1>9

-----------------------------------------------------------------------------
(* Sums of lengths *)

Lens(S) == [p \in S |-> p.len]

\* The sum of the lengths of a set of packets.
LEMMA LenSum ==
  ASSUME NEW S, IsFiniteSet(S), \A p \in S : p.len \in Nat
  PROVE  MapThenSumSet(LAMBDA p : p.len, S) = Total(Lens(S), S)
<1> DEFINE f == Lens(S)
           Rec(g) == g = [s \in SUBSET S |-> IF s = {} THEN 0
                            ELSE (CHOOSE x \in s : TRUE).len
                                    + g[s \ {CHOOSE x \in s : TRUE}]]
<1>1. \A s \in SUBSET S : s # {} =>
        f[CHOOSE x \in s : TRUE] = (CHOOSE x \in s : TRUE).len
  BY DEF Lens
<1>2. \A g : AddsUp(g, f, S) <=> Rec(g)
  <2> HIDE DEF f
  <2> QED BY <1>1 DEF AddsUp
<1>3. \A x \in S : f[x] \in Nat
  BY DEF Lens
<1>4. MapThenSumSet(LAMBDA p : p.len, S) = (CHOOSE g : Rec(g))[S]
  BY DEF MapThenSumSet, MapThenFoldSet
<1> HIDE DEF f, Rec
<1>5. \E g : Rec(g)
  BY <1>2, <1>3, TotalsAddUp
<1>6. AddsUp(CHOOSE g : Rec(g), f, S)
  BY <1>2, <1>5
<1>7. (CHOOSE g : Rec(g))[S] = Total(f, S)
  BY <1>3, <1>6, AddsUpTotal
<1> QED BY <1>4, <1>7 DEF f
=============================================================================
