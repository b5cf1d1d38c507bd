------------------------------ MODULE FiniteSums ------------------------------
(***************************************************************************)
(* Induction over the subsets of a finite set, and the sum of a function     *)
(* over its domain, SumFunction(f).                                   *)
(*                                                                          *)
(* The induction theorems of the library take the property as an operator.   *)
(* Here it is a set, and the induction comes from the fact that strict       *)
(* inclusion is well-founded on the subsets of a finite set.                  *)
(***************************************************************************)
EXTENDS Integers, FiniteSets, Functions, FiniteSetTheorems, WellFoundedInduction, TLAPS

\* A set of subsets of a finite set that is not empty has a minimal element.

(* A set of finite sets has a smallest one: induction over finite sets.      *)
LEMMA MinimalSubset ==
    ASSUME NEW S, IsFiniteSet(S), NEW T, T \subseteq SUBSET S, T # {}
    PROVE  \E x \in T : \A y \in T : y \subseteq x => y = x
<1>1. IsWellFoundedOn(StrictSubsetOrdering(S), SUBSET S)
  BY FS_StrictSubsetOrderingWellFounded, FS_FiniteSubsetsOfFinite
<1>2. \E x \in T : \A y \in T : ~ (<<y, x>> \in StrictSubsetOrdering(S))
  BY <1>1, WFMin
<1> QED  BY <1>2 DEF StrictSubsetOrdering

(* Induction over the subsets of a finite set, for a property given as a     *)
(* set.                                                                      *)
LEMMA SetInduction ==
    ASSUME NEW S, IsFiniteSet(S), NEW P, {} \in P,
           \A U \in SUBSET S : \A x \in S \ U : U \in P => U \cup {x} \in P
    PROVE  SUBSET S \subseteq P
<1> DEFINE Left == (SUBSET S) \ P
<1>1. SUFFICES ASSUME Left # {}
               PROVE  FALSE
  OBVIOUS
<1>2. PICK m \in Left : \A y \in Left : y \subseteq m => y = m
  <2>1. Left \subseteq SUBSET S
    OBVIOUS
  <2> HIDE DEF Left
  <2> QED  BY <1>1, <2>1, MinimalSubset
<1>3. PICK x \in m : TRUE
  BY <1>2
<1>4. m \ {x} \in P
  BY <1>2, <1>3
<1>5. (m \ {x}) \cup {x} = m
  BY <1>3
<1> QED  BY <1>2, <1>3, <1>4, <1>5

Additive(f, S, g) ==
    /\ g \in [SUBSET S -> Nat]
    /\ g[{}] = 0
    /\ \A T \in SUBSET S : \A x \in S \ T : g[T \cup {x}] = f[x] + g[T]

(* Every finite function has an additive sum: otherwise a smallest domain    *)
(* without one would get it from the domain less one element.                *)
LEMMA AdditiveExists ==
    ASSUME NEW S, IsFiniteSet(S), NEW f \in [S -> Nat]
    PROVE  \E g : Additive(f, S, g)
<1> DEFINE P == {U \in SUBSET S : \E g : Additive(f, U, g)}
<1>1. {} \in P
  <2>1. Additive(f, {}, [T \in SUBSET {} |-> 0])
    BY DEF Additive
  <2> QED  BY <2>1
<1>2. ASSUME NEW U \in SUBSET S, NEW x \in S \ U, U \in P
      PROVE  U \cup {x} \in P
  <2>1. PICK g : Additive(f, U, g)
    BY <1>2
  <2> DEFINE V == U \cup {x}
             h == [T \in SUBSET V |-> IF x \in T THEN f[x] + g[T \ {x}] ELSE g[T]]
  <2>2. \A T \in SUBSET V : x \in T => T \ {x} \in SUBSET U
    OBVIOUS
  <2>3. \A T \in SUBSET V : x \notin T => T \in SUBSET U
    OBVIOUS
  <2>4. h \in [SUBSET V -> Nat]
    BY <2>1, <2>2, <2>3 DEF Additive
  <2>5. h[{}] = 0
    BY <2>1 DEF Additive
  <2>6. ASSUME NEW T \in SUBSET V, NEW y \in V \ T
        PROVE  h[T \cup {y}] = f[y] + h[T]
    <3>1. CASE y = x
      <4>1. (T \cup {x}) \ {x} = T
        BY <2>6, <3>1
      <4> QED  BY <2>6, <3>1, <4>1
    <3>2. CASE y # x /\ x \notin T
      BY <2>1, <2>6, <3>2 DEF Additive
    <3>3. CASE y # x /\ x \in T
      <4> DEFINE W == T \ {x}
      <4>1. (T \cup {y}) \ {x} = W \cup {y} /\ W \in SUBSET U /\ y \in U \ W
        BY <2>6, <3>3
      <4>2. g[W \cup {y}] = f[y] + g[W]
        BY <2>1, <4>1 DEF Additive
      <4>3. h[T \cup {y}] = f[x] + g[W \cup {y}] /\ h[T] = f[x] + g[W]
        BY <2>6, <3>3, <4>1
      <4>4. f[x] \in Nat /\ f[y] \in Nat /\ g[W] \in Nat
        BY <2>1, <4>1 DEF Additive
      <4> HIDE DEF h, W
      <4> QED  BY <4>2, <4>3, <4>4
    <3> QED  BY <3>1, <3>2, <3>3
  <2>7. Additive(f, V, h)
    BY <2>4, <2>5, <2>6 DEF Additive
  <2> QED  BY <2>7
<1>3. S \in P
  <2> HIDE DEF P
  <2> QED BY <1>1, <1>2, SetInduction
<1> QED  BY <1>3


(* The fold that SumFunction is computes the additive sum, in any order.     *)
LEMMA SumIsAdditive ==
    ASSUME NEW S, IsFiniteSet(S), NEW f \in [S -> Nat], NEW g, Additive(f, S, g)
    PROVE  SumFunction(f) = g[S]
<1> DEFINE first(s) == CHOOSE x \in s : TRUE
           Rec(it) == it = [s \in SUBSET S |->
                              IF s = {} THEN 0 ELSE f[first(s)] + it[s \ {first(s)}]]
<1>1. ASSUME NEW s \in SUBSET S, s # {}
      PROVE  first(s) \in s /\ g[s] = f[first(s)] + g[s \ {first(s)}]
  <2>1. first(s) \in s
    BY <1>1
  <2> DEFINE x == first(s)
  <2>2. s \ {x} \in SUBSET S /\ x \in S \ (s \ {x}) /\ (s \ {x}) \cup {x} = s
    BY <1>1, <2>1
  <2> HIDE DEF x
  <2> QED  BY <2>1, <2>2 DEF Additive, x
<1>2. Rec(g)
  BY <1>1 DEF Additive
<1>3. ASSUME NEW it, Rec(it)
      PROVE  it[S] = g[S]
  <2> DEFINE Same == {s \in SUBSET S : it[s] = g[s]}
             Left == (SUBSET S) \ Same
  <2>1. SUFFICES ASSUME Left # {}
                 PROVE  FALSE
    OBVIOUS
  <2>2. PICK m \in Left : \A y \in Left : y \subseteq m => y = m
    <3>1. Left \subseteq SUBSET S
      OBVIOUS
    <3> HIDE DEF Left
    <3> QED  BY <2>1, <3>1, MinimalSubset
  <2>3. m # {}
    BY <1>3, <2>2 DEF Additive
  <2>4. m \ {first(m)} \in SUBSET S /\ m \ {first(m)} # m /\ m \ {first(m)} \subseteq m
    BY <1>1, <2>2, <2>3
  <2>5. it[m \ {first(m)}] = g[m \ {first(m)}]
    BY <2>2, <2>4
  <2>6. it[m] = f[first(m)] + it[m \ {first(m)}]
    BY <1>3, <2>2, <2>3
  <2> QED  BY <1>1, <2>2, <2>3, <2>5, <2>6
<1>4. SumFunction(f) = (CHOOSE it : Rec(it))[S]
  BY DOMAIN f = S DEF SumFunction, SumFunctionOnSet, FoldFunctionOnSet, MapThenFoldSet
<1>5. Rec(CHOOSE it : Rec(it))
  <2> HIDE DEF Rec
  <2> QED  BY <1>2
<1> HIDE DEF Rec
<1> QED  BY <1>3, <1>4, <1>5

(* The sums of the restrictions of a function are additive.                  *)
LEMMA SumsOfParts ==
    ASSUME NEW S, IsFiniteSet(S), NEW f \in [S -> Nat]
    PROVE  \E g : /\ Additive(f, S, g)
                  /\ \A U \in SUBSET S : SumFunction([x \in U |-> f[x]]) = g[U]
<1>1. PICK g : Additive(f, S, g)
  BY AdditiveExists
<1>2. ASSUME NEW U \in SUBSET S
      PROVE  SumFunction([x \in U |-> f[x]]) = g[U]
  <2> DEFINE fU == [x \in U |-> f[x]]
             gU == [T \in SUBSET U |-> g[T]]
  <2>1. IsFiniteSet(U) /\ fU \in [U -> Nat]
    BY FS_Subset
  <2>2. Additive(fU, U, gU)
    <3>1. gU \in [SUBSET U -> Nat] /\ gU[{}] = 0
      BY <1>1 DEF Additive
    <3>2. ASSUME NEW T \in SUBSET U, NEW x \in U \ T
          PROVE  gU[T \cup {x}] = fU[x] + gU[T]
      <4>1. T \in SUBSET S /\ x \in S \ T /\ T \cup {x} \in SUBSET U
        OBVIOUS
      <4> QED  BY <1>1, <4>1 DEF Additive
    <3> QED  BY <3>1, <3>2 DEF Additive
  <2> HIDE DEF fU
  <2>3. SumFunction(fU) = gU[U]
    BY <2>1, <2>2, SumIsAdditive
  <2> QED  BY <2>3 DEF fU
<1> QED  BY <1>1, <1>2

(* A sum of naturals is a natural, and 0 over the empty domain.              *)
LEMMA SumType ==
    ASSUME NEW S, IsFiniteSet(S), NEW f \in [S -> Nat]
    PROVE  SumFunction(f) \in Nat /\ (S = {} => SumFunction(f) = 0)
<1>1. PICK g : Additive(f, S, g)
  BY AdditiveExists
<1>2. SumFunction(f) = g[S]
  BY <1>1, SumIsAdditive
<1> QED  BY <1>1, <1>2 DEF Additive

(* A value at a new point is added to the sum.                               *)
LEMMA SumExtend ==
    ASSUME NEW S, IsFiniteSet(S), NEW x, x \notin S, NEW f \in [S -> Nat],
           NEW h \in [S \cup {x} -> Nat], \A y \in S : h[y] = f[y]
    PROVE  SumFunction(h) = h[x] + SumFunction(f)
<1> DEFINE V == S \cup {x}
<1>1. IsFiniteSet(V)
  BY FS_AddElement
<1>2. PICK g : /\ Additive(h, V, g)
               /\ \A U \in SUBSET V : SumFunction([y \in U |-> h[y]]) = g[U]
  <2> HIDE DEF V
  <2> QED  BY <1>1, SumsOfParts DEF V
<1>3. h = [y \in V |-> h[y]]
  OBVIOUS
<1>4. f = [y \in S |-> h[y]]
  OBVIOUS
<1>5. SumFunction(h) = g[V] /\ SumFunction(f) = g[S]
  BY <1>2, <1>3, <1>4
<1>6. g[V] = h[x] + g[S]
  BY <1>2 DEF Additive
<1> QED  BY <1>5, <1>6

(* A value changed at one point changes the sum by the difference.           *)
LEMMA SumUpdate ==
    ASSUME NEW S, IsFiniteSet(S), NEW x \in S, NEW f \in [S -> Nat], NEW h \in [S -> Nat],
           \A y \in S \ {x} : h[y] = f[y]
    PROVE  SumFunction(h) + f[x] = SumFunction(f) + h[x]
<1> DEFINE U == S \ {x}
<1>1. IsFiniteSet(U) /\ x \notin U /\ U \cup {x} = S
  BY FS_Subset
<1> DEFINE fU == [y \in U |-> f[y]]
<1>2. /\ fU \in [U -> Nat]
      /\ h \in [U \cup {x} -> Nat] /\ \A y \in U : h[y] = fU[y]
      /\ f \in [U \cup {x} -> Nat] /\ \A y \in U : f[y] = fU[y]
  BY <1>1
<1> HIDE DEF U, fU
<1>3. SumFunction(h) = h[x] + SumFunction(fU)
  BY <1>1, <1>2, SumExtend
<1>4. SumFunction(f) = f[x] + SumFunction(fU)
  BY <1>1, <1>2, SumExtend
<1>5. SumFunction(fU) \in Nat
  BY <1>1, <1>2, SumType
<1>6. h[x] \in Nat /\ f[x] \in Nat
  OBVIOUS
<1> QED  BY <1>3, <1>4, <1>5, <1>6

===============================================================================
