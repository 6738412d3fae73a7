---------------------------- MODULE SumTheorems ----------------------------
(***************************************************************************)
(* Sums over finite sets, as SumFunctionOnSet and SumFunction of the       *)
(* module Functions compute them, and the elements of a sequence at some   *)
(* places, as recursive functions collect them.  Induction is stated for   *)
(* sets: a set that holds 0 and every successor of its elements contains   *)
(* every number.  It follows from the well-foundedness of < without an     *)
(* operator parameter and so can be used with any set a proof defines.     *)
(***************************************************************************)
EXTENDS FiniteSetTheorems, Sequences, TLAPS

(* Induction over numbers.                                                 *)
LEMMA NaturalsByInduction ==
    ASSUME NEW T, 0 \in T, \A n \in Nat : n \in T => n + 1 \in T
    PROVE  Nat \subseteq T
<1> SUFFICES ASSUME Nat \ T # {} PROVE FALSE
  OBVIOUS
<1> DEFINE rest == Nat \ T
           less == OpToRel(<, Nat)
<1>1. rest \subseteq Nat /\ rest # {} /\ IsWellFoundedOn(less, Nat)
  BY NatLessThanWellFounded
<1>2. \E x \in rest : \A y \in rest : ~(<<y, x>> \in less)
  <2> HIDE DEF rest, less
  <2> QED
    BY <1>1, WFMin
<1>3. PICK x \in rest : \A y \in rest : ~(<<y, x>> \in less)
  BY <1>2
<1>4. x \in Nat /\ x \notin T
  BY <1>3
<1>5. x # 0
  BY <1>4
<1>6. x - 1 \in Nat /\ x = (x - 1) + 1 /\ x - 1 < x
  BY <1>4, <1>5
<1>7. <<x - 1, x>> \in less
  BY <1>4, <1>6 DEF OpToRel
<1>8. x - 1 \in T
  BY <1>3, <1>6, <1>7
<1>9. (x - 1) + 1 \in T
  BY <1>6, <1>8
<1> QED
  BY <1>4, <1>6, <1>9

(* Induction over the subsets of a finite set: a set that contains every   *)
(* X whose proper subsets it contains contains them all.                   *)
LEMMA SubsetsByInduction ==
    ASSUME NEW S, IsFiniteSet(S), NEW T,
           \A X \in SUBSET S : (\A Y \in SUBSET X : Y # X => Y \in T) => X \in T
    PROVE  SUBSET S \subseteq T
<1> SUFFICES ASSUME (SUBSET S) \ T # {} PROVE FALSE
  OBVIOUS
<1>1. FiniteSubsetsOf(S) = SUBSET S
  BY FS_FiniteSubsetsOfFinite
<1>2. IsWellFoundedOn(StrictSubsetOrdering(S), SUBSET S)
  BY <1>1, FS_StrictSubsetOrderingWellFounded
<1> DEFINE all == SUBSET S
           rest == (SUBSET S) \ T
           order == StrictSubsetOrdering(S)
<1>3. \E X \in rest : \A Y \in rest : ~(<<Y, X>> \in order)
  <2>1. rest \subseteq all /\ rest # {} /\ IsWellFoundedOn(order, all)
    BY <1>2
  <2> HIDE DEF all, rest, order
  <2> QED
    BY <2>1, WFMin
<1>4. PICK X \in rest : \A Y \in rest : ~(<<Y, X>> \in order)
  BY <1>3
<1>5. ASSUME NEW Y \in SUBSET X, Y # X PROVE Y \in T
  <2>1. <<Y, X>> \in StrictSubsetOrdering(S)
    BY <1>4, <1>5 DEF StrictSubsetOrdering
  <2> QED
    BY <1>4, <2>1
<1> QED
  BY <1>4, <1>5

(* The recursion behind SumFunctionOnSet.                                  *)
Pick(s) == CHOOSE x \in s : TRUE
SumOf(f, g, s) == IF s = {} THEN 0 ELSE f[Pick(s)] + g[s \ {Pick(s)}]
Sums(f, S) == CHOOSE g : g = [s \in SUBSET S |-> SumOf(f, g, s)]

(* SumFunctionOnSet chooses a function that solves the recursion.          *)
LEMMA SumIsRecursive ==
    ASSUME NEW f, NEW S
    PROVE  SumFunctionOnSet(f, S) = Sums(f, S)[S]
BY DEF SumFunctionOnSet, FoldFunctionOnSet, MapThenFoldSet, Sums, SumOf, Pick

(* The recursion defines a function: the graph for sets of n elements      *)
(* extends to sets of n + 1.                                               *)
LEMMA SumsUnfold ==
    ASSUME NEW f, NEW S, IsFiniteSet(S)
    PROVE  Sums(f, S) = [s \in SUBSET S |-> SumOf(f, Sums(f, S), s)]
<1> DEFINE Small(n) == {s \in SUBSET S : Cardinality(s) <= n}
           Solves(g, n) == g = [s \in Small(n) |-> SumOf(f, g, s)]
           T == {n \in Nat : \E g : Solves(g, n)}
<1>1. \A s \in SUBSET S : IsFiniteSet(s) /\ Cardinality(s) \in Nat
  BY FS_Subset, FS_CardinalityType
<1>2. \A s \in SUBSET S : s # {} =>
         Pick(s) \in s /\ s \ {Pick(s)} \in SUBSET S
            /\ Cardinality(s \ {Pick(s)}) = Cardinality(s) - 1
  BY <1>1, FS_RemoveElement DEF Pick
<1>3. 0 \in T
  <2> DEFINE g == [s \in Small(0) |-> 0]
  <2>1. \A s \in Small(0) : s = {}
    BY <1>1, FS_EmptySet
  <2>2. \A s \in Small(0) : SumOf(f, g, s) = 0
    BY <2>1 DEF SumOf
  <2>3. g = [s \in Small(0) |-> SumOf(f, g, s)]
    BY <2>2
  <2>4. Solves(g, 0)
    BY <2>3
  <2> QED
    BY <2>4
<1>4. ASSUME NEW n \in Nat, n \in T PROVE n + 1 \in T
  <2>1. PICK g : Solves(g, n)
    BY <1>4
  <2> DEFINE h == [s \in Small(n + 1) |-> SumOf(f, g, s)]
  <2>2. Small(n) \subseteq Small(n + 1)
    BY <1>1
  <2>3. \A s \in Small(n) : g[s] = h[s]
    BY <2>1, <2>2
  <2>4. \A s \in Small(n + 1) : s # {} => s \ {Pick(s)} \in Small(n)
    BY <1>1, <1>2
  <2>5. \A s \in Small(n + 1) : SumOf(f, g, s) = SumOf(f, h, s)
    BY <2>3, <2>4 DEF SumOf
  <2>6. h = [s \in Small(n + 1) |-> SumOf(f, h, s)]
    BY <2>5
  <2>7. Solves(h, n + 1)
    BY <2>6
  <2>8. \E k : Solves(k, n + 1)
    <3> HIDE DEF Solves
    <3> QED
      BY <2>7
  <2>9. n + 1 \in Nat
    OBVIOUS
  <2> QED
    BY <2>8, <2>9
<1>5. Nat \subseteq T
  <2> HIDE DEF T
  <2> QED
    BY <1>3, <1>4, NaturalsByInduction
<1>6. Cardinality(S) \in T
  BY <1>1, <1>5
<1>7. Small(Cardinality(S)) = SUBSET S
  <2>1. \A s \in SUBSET S : Cardinality(s) <= Cardinality(S)
    BY FS_Subset
  <2> QED
    BY <2>1
<1>8. PICK g : g = [s \in SUBSET S |-> SumOf(f, g, s)]
  BY <1>6, <1>7
<1> QED
  BY <1>8 DEF Sums

(* One step of the recursion.                                              *)
LEMMA SumsUnfoldAt ==
    ASSUME NEW f, NEW S, IsFiniteSet(S), NEW s \in SUBSET S
    PROVE  Sums(f, S)[s] = SumOf(f, Sums(f, S), s)
<1> DEFINE g == Sums(f, S)
           h == [t \in SUBSET S |-> SumOf(f, g, t)]
<1>1. g = h
  BY SumsUnfold, ZenonT(60)
<1>2. h[s] = SumOf(f, g, s)
  <2> HIDE DEF g
  <2> QED
    OBVIOUS
<1> QED
  BY <1>1, <1>2

(* The recursion over a larger set gives the same sums.                    *)
LEMMA SumsAgree ==
    ASSUME NEW f, NEW S, IsFiniteSet(S), NEW R \in SUBSET S
    PROVE  Sums(f, S)[R] = SumFunctionOnSet(f, R)
<1> DEFINE T == {X \in SUBSET R : Sums(f, S)[X] = Sums(f, R)[X]}
<1>1. IsFiniteSet(R)
  BY FS_Subset
<1>2. ASSUME NEW X \in SUBSET R, \A Y \in SUBSET X : Y # X => Y \in T
      PROVE  X \in T
  <2>1. Sums(f, S)[X] = SumOf(f, Sums(f, S), X)
    BY SumsUnfoldAt
  <2>2. Sums(f, R)[X] = SumOf(f, Sums(f, R), X)
    BY <1>1, SumsUnfoldAt
  <2>3. X # {} => X \ {Pick(X)} \in T
    BY <1>2 DEF Pick
  <2>4. SumOf(f, Sums(f, S), X) = SumOf(f, Sums(f, R), X)
    BY <2>3 DEF SumOf
  <2> QED
    BY <2>1, <2>2, <2>4
<1>3. SUBSET R \subseteq T
  <2> HIDE DEF T
  <2> QED
    BY <1>1, <1>2, SubsetsByInduction
<1> QED
  BY <1>3, SumIsRecursive

(* A sum is the sum of any one of its terms and of the others.             *)
LEMMA SumStep ==
    ASSUME NEW f, NEW S, IsFiniteSet(S), NEW x \in S, \A y \in S : f[y] \in Int
    PROVE  SumFunctionOnSet(f, S) = f[x] + SumFunctionOnSet(f, S \ {x})
<1> DEFINE F(s) == Sums(f, S)[s]
           T == {X \in SUBSET S : F(X) \in Int /\ \A y \in X : F(X) = f[y] + F(X \ {y})}
<1>1. ASSUME NEW X \in SUBSET S, \A Y \in SUBSET X : Y # X => Y \in T
      PROVE  X \in T
  <2>1. CASE X = {}
    <3>1. F(X) = 0
      BY <2>1, SumsUnfoldAt DEF SumOf
    <3> QED
      BY <2>1, <3>1
  <2>2. CASE X # {}
    <3> DEFINE p == Pick(X)
    <3>1. p \in X
      BY <2>2 DEF Pick
    <3>2. F(X) = f[p] + F(X \ {p})
      BY <2>2, SumsUnfoldAt DEF SumOf
    <3>3. X \ {p} \in T
      BY <1>1, <3>1
    <3>4. F(X) \in Int
      BY <3>1, <3>2, <3>3
    <3>5. ASSUME NEW y \in X, y # p PROVE F(X) = f[y] + F(X \ {y})
      <4>1. X \ {y} \in T
        BY <1>1
      <4> DEFINE Z == (X \ {p}) \ {y}
      <4>2. Z = (X \ {y}) \ {p} /\ y \in X \ {p} /\ p \in X \ {y}
        BY <3>1, <3>5
      <4>3. F(X \ {p}) = f[y] + F(Z)
        BY <3>3, <4>2
      <4>4. F(X \ {y}) = f[p] + F(Z)
        BY <4>1, <4>2
      <4>5. F(Z) \in Int
        <5>1. Z \in SUBSET X /\ Z # X
          BY <3>1
        <5>2. Z \in T
          BY <1>1, <5>1
        <5> QED
          BY <5>2
      <4>6. f[y] \in Int /\ f[p] \in Int
        BY <3>1
      <4> HIDE DEF F, Z, p
      <4> QED
        BY <3>2, <4>3, <4>4, <4>5, <4>6
    <3> QED
      BY <3>2, <3>4, <3>5
  <2> QED
    BY <2>1, <2>2
<1>2. SUBSET S \subseteq T
  <2> HIDE DEF T
  <2> QED
    BY <1>1, SubsetsByInduction
<1>3. S \in T
  BY <1>2
<1>4. F(S) = f[x] + F(S \ {x})
  BY <1>3
<1>5. F(S) = SumFunctionOnSet(f, S) /\ F(S \ {x}) = SumFunctionOnSet(f, S \ {x})
  BY SumsAgree
<1> QED
  BY <1>4, <1>5

(* Sums of integers are integers.                                          *)
LEMMA SumType ==
    ASSUME NEW f, NEW S, IsFiniteSet(S), \A y \in S : f[y] \in Int
    PROVE  SumFunctionOnSet(f, S) \in Int
<1> DEFINE F(s) == Sums(f, S)[s]
           T == {X \in SUBSET S : F(X) \in Int}
<1>1. ASSUME NEW X \in SUBSET S, \A Y \in SUBSET X : Y # X => Y \in T
      PROVE  X \in T
  <2>1. CASE X = {}
    BY <2>1, SumsUnfoldAt DEF SumOf
  <2>2. CASE X # {}
    <3> DEFINE p == Pick(X)
    <3>1. p \in X
      BY <2>2 DEF Pick
    <3>2. F(X) = f[p] + F(X \ {p})
      BY <2>2, SumsUnfoldAt DEF SumOf
    <3>3. X \ {p} \in T
      BY <1>1, <3>1
    <3> QED
      BY <3>1, <3>2, <3>3
  <2> QED
    BY <2>1, <2>2
<1>2. SUBSET S \subseteq T
  <2> HIDE DEF T
  <2> QED
    BY <1>1, SubsetsByInduction
<1>3. S \in T
  BY <1>2
<1> QED
  BY <1>3, SumIsRecursive

(* The empty sum.                                                          *)
LEMMA SumOfNothing ==
    ASSUME NEW f
    PROVE  SumFunctionOnSet(f, {}) = 0
BY SumIsRecursive, SumsUnfoldAt, FS_EmptySet DEF SumOf

(* Sums of equal terms are equal.                                          *)
LEMMA SumEqual ==
    ASSUME NEW f, NEW g, NEW S, IsFiniteSet(S), \A x \in S : f[x] = g[x]
    PROVE  SumFunctionOnSet(f, S) = SumFunctionOnSet(g, S)
<1> DEFINE T == {X \in SUBSET S : Sums(f, S)[X] = Sums(g, S)[X]}
<1>1. ASSUME NEW X \in SUBSET S, \A Y \in SUBSET X : Y # X => Y \in T
      PROVE  X \in T
  <2>1. Sums(f, S)[X] = SumOf(f, Sums(f, S), X)
    BY SumsUnfoldAt
  <2>2. Sums(g, S)[X] = SumOf(g, Sums(g, S), X)
    BY SumsUnfoldAt
  <2>3. X # {} => X \ {Pick(X)} \in T /\ Pick(X) \in X
    BY <1>1 DEF Pick
  <2>4. SumOf(f, Sums(f, S), X) = SumOf(g, Sums(g, S), X)
    BY <2>3 DEF SumOf
  <2> QED
    BY <2>1, <2>2, <2>4
<1>2. SUBSET S \subseteq T
  <2> HIDE DEF T
  <2> QED
    BY <1>1, SubsetsByInduction
<1> QED
  BY <1>2, SumIsRecursive

(* Sums grow with their terms.                                             *)
LEMMA SumMonotone ==
    ASSUME NEW f, NEW g, NEW S, IsFiniteSet(S),
           \A x \in S : f[x] \in Int /\ g[x] \in Int /\ f[x] <= g[x]
    PROVE  SumFunctionOnSet(f, S) <= SumFunctionOnSet(g, S)
<1> DEFINE F(h, X) == SumFunctionOnSet(h, X)
           T == {X \in SUBSET S : F(f, X) <= F(g, X)}
<1>1. ASSUME NEW X \in SUBSET S, \A Y \in SUBSET X : Y # X => Y \in T
      PROVE  X \in T
  <2>0. IsFiniteSet(X)
    BY FS_Subset
  <2>1. CASE X = {}
    BY <2>1, SumOfNothing
  <2>2. CASE X # {}
    <3>1. PICK p : p \in X
      BY <2>2
    <3>2. F(f, X) = f[p] + F(f, X \ {p}) /\ F(g, X) = g[p] + F(g, X \ {p})
      BY <2>0, <3>1, SumStep
    <3>3. F(f, X \ {p}) <= F(g, X \ {p})
      BY <1>1, <3>1
    <3>4. F(f, X \ {p}) \in Int /\ F(g, X \ {p}) \in Int
      <4>1. IsFiniteSet(X \ {p})
        BY <2>0, FS_Subset
      <4> QED
        BY <4>1, SumType
    <3>5. f[p] \in Int /\ g[p] \in Int /\ f[p] <= g[p]
      BY <3>1
    <3> HIDE DEF F
    <3>6. F(f, X) <= F(g, X)
      BY <3>2, <3>3, <3>4, <3>5
    <3> QED
      BY <3>6
  <2> QED
    BY <2>1, <2>2
<1>2. SUBSET S \subseteq T
  <2> HIDE DEF T
  <2> QED
    BY <1>1, SubsetsByInduction
<1> QED
  BY <1>2

(* Sums whose terms differ at one or at two points.                        *)
LEMMA SumChangeOne ==
    ASSUME NEW f, NEW g, NEW S, IsFiniteSet(S), \A y \in S : f[y] \in Int /\ g[y] \in Int,
           NEW x \in S, \A y \in S \ {x} : f[y] = g[y]
    PROVE  SumFunctionOnSet(g, S) = SumFunctionOnSet(f, S) + (g[x] - f[x])
<1> DEFINE R == S \ {x}
           rf == SumFunctionOnSet(f, R)
           rg == SumFunctionOnSet(g, R)
<1>1. IsFiniteSet(R) /\ \A y \in R : f[y] \in Int /\ g[y] \in Int
  BY FS_Subset
<1>2. rf = rg
  <2> HIDE DEF R
  <2>1. \A y \in R : f[y] = g[y]
    BY DEF R
  <2> QED
    BY <1>1, <2>1, SumEqual
<1>3. rf \in Int
  <2> HIDE DEF R
  <2> QED
    BY <1>1, SumType
<1>4. SumFunctionOnSet(f, S) = f[x] + rf
  BY SumStep
<1>5. SumFunctionOnSet(g, S) = g[x] + rg
  BY SumStep
<1>6. f[x] \in Int /\ g[x] \in Int
  OBVIOUS
<1> HIDE DEF rf, rg
<1> QED
  BY <1>2, <1>3, <1>4, <1>5, <1>6

LEMMA SumChangeTwo ==
    ASSUME NEW f, NEW g, NEW S, IsFiniteSet(S), \A z \in S : f[z] \in Int /\ g[z] \in Int,
           NEW x \in S, NEW y \in S, x # y, \A z \in S \ {x, y} : f[z] = g[z]
    PROVE  SumFunctionOnSet(g, S) = SumFunctionOnSet(f, S) + (g[x] - f[x]) + (g[y] - f[y])
<1> DEFINE h == [z \in S |-> IF z = x THEN g[x] ELSE f[z]]
<1>1. /\ \A z \in S : h[z] \in Int
      /\ \A z \in S \ {x} : f[z] = h[z]
      /\ \A z \in S \ {y} : h[z] = g[z]
      /\ h[x] = g[x] /\ h[y] = f[y]
  OBVIOUS
<1> HIDE DEF h
<1>2. SumFunctionOnSet(h, S) = SumFunctionOnSet(f, S) + (h[x] - f[x])
  BY <1>1, SumChangeOne
<1>3. SumFunctionOnSet(g, S) = SumFunctionOnSet(h, S) + (g[y] - h[y])
  BY <1>1, SumChangeOne
<1>4. SumFunctionOnSet(f, S) \in Int
  BY SumType
<1>5. f[x] \in Int /\ g[x] \in Int /\ f[y] \in Int /\ g[y] \in Int
  OBVIOUS
<1> QED
  BY <1>1, <1>2, <1>3, <1>4, <1>5

LEMMA SumOfZeros ==
    ASSUME NEW f, NEW S, IsFiniteSet(S), \A x \in S : f[x] = 0
    PROVE  SumFunctionOnSet(f, S) = 0
<1> DEFINE F(X) == SumFunctionOnSet(f, X)
           T == {X \in SUBSET S : F(X) = 0}
<1>1. ASSUME NEW X \in SUBSET S, \A Y \in SUBSET X : Y # X => Y \in T
      PROVE  X \in T
  <2>0. IsFiniteSet(X) /\ \A x \in X : f[x] \in Int
    BY FS_Subset
  <2>1. CASE X = {}
    BY <2>1, SumOfNothing
  <2>2. CASE X # {}
    <3>1. PICK p : p \in X
      BY <2>2
    <3>2. F(X) = f[p] + F(X \ {p})
      BY <2>0, <3>1, SumStep
    <3>3. F(X \ {p}) = 0
      BY <1>1, <3>1
    <3>4. f[p] = 0
      BY <3>1
    <3> HIDE DEF F
    <3>5. F(X) = 0
      BY <3>2, <3>3, <3>4
    <3> QED
      BY <3>5
  <2> QED
    BY <2>1, <2>2
<1>2. SUBSET S \subseteq T
  <2> HIDE DEF T
  <2> QED
    BY <1>1, SubsetsByInduction
<1> QED
  BY <1>2

(* A sum of numbers that are not negative is at least the sum of some.     *)
LEMMA SumOnSubset ==
    ASSUME NEW f, NEW S, IsFiniteSet(S), \A x \in S : f[x] \in Nat
    PROVE  /\ SumFunctionOnSet(f, S) \in Nat
           /\ \A R \in SUBSET S : SumFunctionOnSet(f, R) <= SumFunctionOnSet(f, S)
<1> DEFINE F(X) == SumFunctionOnSet(f, X)
           T == {X \in SUBSET S : F(X) \in Nat /\ \A R \in SUBSET X : F(R) <= F(X)}
<1>1. ASSUME NEW X \in SUBSET S, \A Y \in SUBSET X : Y # X => Y \in T
      PROVE  X \in T
  <2>0. IsFiniteSet(X) /\ \A x \in X : f[x] \in Int
    BY FS_Subset
  <2>1. CASE X = {}
    BY <2>1, SumOfNothing
  <2>2. ASSUME NEW p \in X
        PROVE  /\ F(X) \in Nat /\ F(X \ {p}) \in Nat /\ F(X \ {p}) <= F(X)
               /\ \A R \in SUBSET (X \ {p}) : F(R) <= F(X \ {p})
    <3>1. F(X) = f[p] + F(X \ {p})
      BY <2>0, SumStep
    <3>2. F(X \ {p}) \in Nat /\ \A R \in SUBSET (X \ {p}) : F(R) <= F(X \ {p})
      BY <1>1
    <3>3. f[p] \in Nat
      OBVIOUS
    <3> HIDE DEF F
    <3> QED
      BY <3>1, <3>2, <3>3
  <2>3. CASE X # {}
    <3>1. F(X) \in Nat
      BY <2>2, <2>3
    <3>2. ASSUME NEW R \in SUBSET X PROVE F(R) <= F(X)
      <4>1. CASE R = X
        BY <3>1, <4>1
      <4>2. CASE R # X
        <5>1. PICK p \in X : p \notin R
          BY <4>2
        <5>2. IsFiniteSet(R) /\ \A x \in R : f[x] \in Int
          BY <2>0, FS_Subset
        <5>3. F(R) \in Int
          BY <5>2, SumType
        <5>4. F(R) <= F(X \ {p})
          BY <2>2, <5>1
        <5>5. F(X) \in Nat /\ F(X \ {p}) \in Nat /\ F(X \ {p}) <= F(X)
          BY <2>2
        <5> HIDE DEF F
        <5> QED
          BY <5>3, <5>4, <5>5
      <4> QED
        BY <4>1, <4>2
    <3> QED
      BY <3>1, <3>2
  <2> QED
    BY <2>1, <2>3
<1>2. SUBSET S \subseteq T
  <2> HIDE DEF T
  <2> QED
    BY <1>1, SubsetsByInduction
<1> QED
  BY <1>2

-----------------------------------------------------------------------------
(* The elements of a sequence at some places, in their order, as modules   *)
(* of the project compute them.                                            *)
Sifted(s, places) ==
    LET rest[i \in 0..Len(s)] ==
            IF i = 0 THEN <<>>
            ELSE IF i \in places THEN Append(rest[i-1], s[i]) ELSE rest[i-1]
    IN rest[Len(s)]

Sifts(f, s, places, n) ==
    f = [i \in 0..n |->
            IF i = 0 THEN <<>>
            ELSE IF i \in places THEN Append(f[i-1], s[i]) ELSE f[i-1]]

(* Sifted chooses a function that solves the recursion, and there is one.  *)
LEMMA SiftedUnfolds ==
    ASSUME NEW s, Len(s) \in Nat, NEW places
    PROVE  \E f : Sifts(f, s, places, Len(s)) /\ Sifted(s, places) = f[Len(s)]
<1> DEFINE T == {n \in Nat : \E f : Sifts(f, s, places, n)}
<1>1. 0 \in T
  <2>1. Sifts([i \in 0..0 |-> <<>>], s, places, 0)
    BY DEF Sifts
  <2> QED
    BY <2>1
<1>2. ASSUME NEW n \in Nat, n \in T PROVE n + 1 \in T
  <2>1. PICK f : Sifts(f, s, places, n)
    BY <1>2
  <2> DEFINE longer == [i \in 0..(n + 1) |->
                 IF i = 0 THEN <<>>
                 ELSE IF i \in places THEN Append(f[i-1], s[i]) ELSE f[i-1]]
  <2>2. \A i \in 0..n : longer[i] = f[i]
    <3>1. \A i \in 0..n :
             f[i] = IF i = 0 THEN <<>>
                    ELSE IF i \in places THEN Append(f[i-1], s[i]) ELSE f[i-1]
      BY <2>1 DEF Sifts
    <3>2. \A i \in 0..n : i \in 0..(n + 1)
      OBVIOUS
    <3> QED
      BY <3>1, <3>2, Zenon
  <2>3. \A i \in 0..(n + 1) : i # 0 => i - 1 \in 0..n
    OBVIOUS
  <2>4. longer = [i \in 0..(n + 1) |->
                    IF i = 0 THEN <<>>
                    ELSE IF i \in places THEN Append(longer[i-1], s[i]) ELSE longer[i-1]]
    BY <2>2, <2>3
  <2>5. Sifts(longer, s, places, n + 1)
    BY <2>4 DEF Sifts
  <2> QED
    BY <2>5
<1>3. Len(s) \in T
  <2> HIDE DEF T
  <2> QED
    BY <1>1, <1>2, NaturalsByInduction
<1>4. \E f : Sifts(f, s, places, Len(s))
  BY <1>3
<1> DEFINE f == CHOOSE f : Sifts(f, s, places, Len(s))
<1>5. Sifts(f, s, places, Len(s))
  BY <1>4
<1>6. Sifted(s, places) = f[Len(s)]
  BY DEF Sifted, Sifts
<1> QED
  BY <1>5, <1>6

(* r holds the elements of s at the places up to n, each once.             *)
TakenFrom(src, r, s, places, n) ==
    /\ src \in Bijection(1..Len(r), places \cap 1..n)
    /\ \A k \in 1..Len(r) : r[k] = s[src[k]]

(* One more place.                                                         *)
LEMMA TakesOneMore ==
    ASSUME NEW S, NEW r \in Seq(S), NEW s \in Seq(S), NEW places, NEW n \in Nat,
           n + 1 \in 1..Len(s), n + 1 \in places,
           NEW src, TakenFrom(src, r, s, places, n)
    PROVE  \E more : TakenFrom(more, Append(r, s[n + 1]), s, places, n + 1)
<1> DEFINE m == Len(r)
           r1 == Append(r, s[n + 1])
           more == [k \in 1..(m + 1) |-> IF k = m + 1 THEN n + 1 ELSE src[k]]
<1>1. m \in Nat /\ Len(r1) = m + 1 /\ r1[m + 1] = s[n + 1] /\ \A k \in 1..m : r1[k] = r[k]
  OBVIOUS
<1>2. /\ src \in [1..m -> places \cap 1..n]
      /\ \A a, b \in 1..m : src[a] = src[b] => a = b
      /\ \A t \in places \cap 1..n : \E k \in 1..m : src[k] = t
      /\ \A k \in 1..m : r[k] = s[src[k]]
  BY DEF TakenFrom, Bijection, Injection, Surjection, IsInjective
<1> HIDE DEF m, r1
<1>3. more[m + 1] = n + 1 /\ \A k \in 1..m : more[k] = src[k] /\ more[k] \in 1..n
  BY <1>1, <1>2
<1>4. 1..(m + 1) = 1..m \cup {m + 1} /\ 1..(n + 1) = 1..n \cup {n + 1} /\ n + 1 \notin 1..n
  BY <1>1
<1>5. more \in [1..(m + 1) -> places \cap 1..(n + 1)]
  <2>1. \A k \in 1..(m + 1) : more[k] \in places \cap 1..(n + 1)
    BY <1>2, <1>3, <1>4
  <2> QED
    BY <2>1
<1>6. \A a, b \in 1..(m + 1) : more[a] = more[b] => a = b
  <2> HIDE DEF more
  <2> QED
    BY <1>2, <1>3, <1>4
<1>7. \A t \in places \cap 1..(n + 1) : \E k \in 1..(m + 1) : more[k] = t
  <2> HIDE DEF more
  <2> QED
    BY <1>2, <1>3, <1>4
<1>8. \A k \in 1..(m + 1) : r1[k] = s[more[k]]
  <2> HIDE DEF more
  <2> QED
    BY <1>1, <1>2, <1>3, <1>4
<1>9. DOMAIN more = 1..(m + 1)
  OBVIOUS
<1>10. TakenFrom(more, r1, s, places, n + 1)
  <2> HIDE DEF more
  <2>1. more \in Bijection(1..(m + 1), places \cap 1..(n + 1))
    BY <1>5, <1>6, <1>7, <1>9 DEF Bijection, Injection, Surjection, IsInjective
  <2> QED
    BY <1>1, <1>8, <2>1 DEF TakenFrom
<1> QED
  BY <1>10 DEF r1

(* A sifted sequence holds exactly the elements at the places, each once.  *)
LEMMA SiftedIsTaken ==
    ASSUME NEW S, NEW s \in Seq(S), NEW places
    PROVE  /\ Sifted(s, places) \in Seq(S)
           /\ \E src : TakenFrom(src, Sifted(s, places), s, places, Len(s))
<1>1. Len(s) \in Nat
  OBVIOUS
<1>2. PICK f : Sifts(f, s, places, Len(s)) /\ Sifted(s, places) = f[Len(s)]
  BY <1>1, SiftedUnfolds
<1> DEFINE T == {n \in Nat : n <= Len(s) =>
                    f[n] \in Seq(S) /\ \E src : TakenFrom(src, f[n], s, places, n)}
<1>3. \A i \in 0..Len(s) :
         f[i] = IF i = 0 THEN <<>>
                ELSE IF i \in places THEN Append(f[i-1], s[i]) ELSE f[i-1]
  BY <1>2 DEF Sifts
<1>4. 0 \in T
  <2>1. f[0] = <<>>
    BY <1>1, <1>3
  <2>2. TakenFrom(<<>>, <<>>, s, places, 0)
    BY DEF TakenFrom, Bijection, Injection, Surjection, IsInjective
  <2>3. <<>> \in Seq(S)
    OBVIOUS
  <2>4. f[0] \in Seq(S) /\ \E src : TakenFrom(src, f[0], s, places, 0)
    BY <2>1, <2>2, <2>3
  <2> QED
    BY <2>4
<1>5. ASSUME NEW n \in Nat, n \in T PROVE n + 1 \in T
  <2> SUFFICES ASSUME n + 1 <= Len(s)
               PROVE  f[n + 1] \in Seq(S)
                         /\ \E src : TakenFrom(src, f[n + 1], s, places, n + 1)
    OBVIOUS
  <2>1. n <= Len(s) /\ n + 1 \in 1..Len(s) /\ n + 1 \in 0..Len(s) /\ (n + 1) - 1 = n /\ n + 1 # 0
    BY <1>1
  <2>2. PICK src : f[n] \in Seq(S) /\ TakenFrom(src, f[n], s, places, n)
    BY <1>5, <2>1
  <2>3. CASE n + 1 \in places
    <3>1. f[n + 1] = Append(f[n], s[n + 1])
      BY <1>3, <2>1, <2>3
    <3>2. s[n + 1] \in S
      BY <2>1
    <3>3. Append(f[n], s[n + 1]) \in Seq(S)
      BY <2>2, <3>2
    <3>4. \E more : TakenFrom(more, Append(f[n], s[n + 1]), s, places, n + 1)
      BY <2>1, <2>2, <2>3, TakesOneMore
    <3> QED
      BY <3>1, <3>3, <3>4
  <2>4. CASE n + 1 \notin places
    <3>1. f[n + 1] = f[n]
      BY <1>3, <2>1, <2>4
    <3>2. places \cap 1..(n + 1) = places \cap 1..n
      BY <2>4
    <3> QED
      BY <2>2, <3>1, <3>2 DEF TakenFrom
  <2> QED
    BY <2>3, <2>4
<1>6. Len(s) \in T
  <2> HIDE DEF T
  <2> QED
    BY <1>1, <1>4, <1>5, NaturalsByInduction
<1> QED
  BY <1>1, <1>2, <1>6

(* So its elements are those at the places.                                *)
LEMMA SiftedElements ==
    ASSUME NEW S, NEW s \in Seq(S), NEW places
    PROVE  /\ Sifted(s, places) \in Seq(S)
           /\ Range(Sifted(s, places)) = {s[i] : i \in places \cap 1..Len(s)}
<1> DEFINE r == Sifted(s, places)
<1>1. r \in Seq(S) /\ \E src : TakenFrom(src, r, s, places, Len(s))
  BY SiftedIsTaken
<1> HIDE DEF r
<1>2. PICK src : TakenFrom(src, r, s, places, Len(s))
  BY <1>1
<1>3. /\ src \in [1..Len(r) -> places \cap 1..Len(s)]
      /\ \A t \in places \cap 1..Len(s) : \E k \in 1..Len(r) : src[k] = t
      /\ \A k \in 1..Len(r) : r[k] = s[src[k]]
  BY <1>2 DEF TakenFrom, Bijection, Injection, Surjection
<1>4. Range(r) = {r[k] : k \in 1..Len(r)}
  BY <1>1 DEF Range
<1>5. Range(r) = {s[i] : i \in places \cap 1..Len(s)}
  BY <1>3, <1>4
<1> QED
  BY <1>1, <1>5 DEF r

=============================================================================
