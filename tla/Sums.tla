-------------------------------- MODULE Sums --------------------------------
(***************************************************************************)
(* Lemmas on least elements and on the sums of the community module        *)
(* Functions.  A sum is a recursion over the finite subsets of an index    *)
(* set; what fails for one subset fails for one with fewest elements.      *)
(***************************************************************************)
EXTENDS Integers, FiniteSets, Functions, FiniteSetTheorems, WellFoundedInduction, TLAPS

----------------------------------------------------------------------------
(* Least elements.                                                         *)

LEMMA LessThanAsRelation == OpToRel(<, Nat) = {ss \in Nat \X Nat : ss[1] < ss[2]}
  BY DEF OpToRel

LEMMA LeastNatural ==
    ASSUME NEW X, X \subseteq Nat, X # {}
    PROVE  \E x \in X : \A y \in X : ~(y < x)
  <1> DEFINE R == {ss \in Nat \X Nat : ss[1] < ss[2]}
  <1>1. IsWellFoundedOn(R, Nat)
    BY NatLessThanWellFounded, LessThanAsRelation
  <1>2. \A x, y \in Nat : y < x => <<y, x>> \in R
    OBVIOUS
  <1> HIDE DEF R
  <1>3. PICK x \in X : \A y \in X : ~(<<y, x>> \in R)
    BY <1>1, WFMin
  <1>4. QED
    BY <1>2, <1>3

LEMMA SmallestSet ==
    ASSUME NEW S, IsFiniteSet(S), NEW X, X \subseteq SUBSET S, X # {}
    PROVE  \E T \in X : \A U \in X : ~(Cardinality(U) < Cardinality(T))
  <1> DEFINE N == {Cardinality(T) : T \in X}
  <1>1. \A T \in X : IsFiniteSet(T) /\ Cardinality(T) \in Nat
    BY FS_Subset, FS_CardinalityType
  <1>2. N \subseteq Nat /\ N # {}
    BY <1>1
  <1> HIDE DEF N
  <1>3. PICK n \in N : \A m \in N : ~(m < n)
    BY <1>2, LeastNatural
  <1>4. QED
    BY <1>3 DEF N

LEMMA OneLess ==
    ASSUME NEW S, IsFiniteSet(S), NEW T, T \subseteq S, NEW x \in T
    PROVE  Cardinality(T \ {x}) < Cardinality(T)
  <1>1. IsFiniteSet(T)
    BY FS_Subset
  <1>2. Cardinality(T \ {x}) = Cardinality(T) - 1 /\ Cardinality(T) \in Nat
    BY <1>1, FS_RemoveElement, FS_CardinalityType
  <1>3. QED
    BY <1>2

----------------------------------------------------------------------------
(* The recursion of SumFunctionOnSet has one solution.                     *)

Pick(s) == CHOOSE x \in s : TRUE

Term(g, f, s) == IF s = {} THEN 0 ELSE f[Pick(s)] + g[s \ {Pick(s)}]

(* g solves the recursion for f on X, which contains what it needs.        *)
AddsUp(g, f, X) ==
    \A s \in X : (s # {} => s \ {Pick(s)} \in X) /\ g[s] = Term(g, f, s)

LEMMA PickIn ==
    ASSUME NEW s, s # {}
    PROVE  Pick(s) \in s
  BY DEF Pick

LEMMA SolutionsAgree ==
    ASSUME NEW S, IsFiniteSet(S), NEW f,
           NEW g, NEW X, X \subseteq SUBSET S, AddsUp(g, f, X),
           NEW h, NEW Y, AddsUp(h, f, Y)
    PROVE  \A s \in X \intersect Y : g[s] = h[s]
  <1> DEFINE D == {s \in X \intersect Y : g[s] # h[s]}
  <1>1. SUFFICES ASSUME D # {} PROVE FALSE
    OBVIOUS
  <1>2. PICK s \in D : \A u \in D : ~(Cardinality(u) < Cardinality(s))
    BY <1>1, SmallestSet
  <1>3. CASE s = {}
    BY <1>2, <1>3 DEF AddsUp, Term
  <1>4. CASE s # {}
    <2>1. s \ {Pick(s)} \in X \intersect Y
      BY <1>2, <1>4 DEF AddsUp
    <2>2. Cardinality(s \ {Pick(s)}) < Cardinality(s)
      BY <1>2, <1>4, PickIn, OneLess
    <2>3. g[s \ {Pick(s)}] = h[s \ {Pick(s)}]
      BY <1>2, <2>1, <2>2
    <2>4. QED
      BY <1>2, <1>4, <2>3 DEF AddsUp, Term
  <1>5. QED
    BY <1>3, <1>4

Solved(S, f, s) == \E g, X : X \subseteq SUBSET S /\ AddsUp(g, f, X) /\ s \in X

LEMMA SolutionExists ==
    ASSUME NEW S, IsFiniteSet(S), NEW f, NEW s \in SUBSET S
    PROVE  Solved(S, f, s)
  <1> DEFINE D == {u \in SUBSET S : ~Solved(S, f, u)}
  <1>1. SUFFICES ASSUME D # {} PROVE FALSE
    OBVIOUS
  <1>2. PICK u \in D : \A v \in D : ~(Cardinality(v) < Cardinality(u))
    BY <1>1, SmallestSet
  <1>3. CASE u = {}
    <2> DEFINE g == [v \in {{}} |-> 0]
    <2>1. AddsUp(g, f, {{}})
      BY DEF AddsUp, Term
    <2>2. QED
      BY <1>2, <1>3, <2>1 DEF Solved
  <1>4. CASE u # {}
    <2> DEFINE w == u \ {Pick(u)}
    <2>1. w \in SUBSET S /\ Cardinality(w) < Cardinality(u)
      BY <1>2, <1>4, PickIn, OneLess
    <2>2. PICK g, X : X \subseteq SUBSET S /\ AddsUp(g, f, X) /\ w \in X
      BY <1>2, <2>1 DEF Solved
    <2>3. u \notin X
      BY <1>2, <2>2 DEF Solved
    <2> DEFINE h == [v \in X \union {u} |-> IF v = u THEN Term(g, f, u) ELSE g[v]]
    <2>4. h[u] = Term(g, f, u) /\ \A v \in X : h[v] = g[v]
      BY <2>3
    <2> HIDE DEF h
    <2>5. AddsUp(h, f, X \union {u})
      BY <1>4, <2>2, <2>4 DEF AddsUp, Term
    <2>6. QED
      BY <1>2, <2>2, <2>5 DEF Solved
  <1>5. QED
    BY <1>3, <1>4

Summing(g, f, S) == g = [s \in SUBSET S |-> IF s = {} THEN 0 ELSE f[Pick(s)] + g[s \ {Pick(s)}]]

LEMMA SumIsDefined ==
    ASSUME NEW S, IsFiniteSet(S), NEW f
    PROVE  \E g : AddsUp(g, f, SUBSET S) /\ SumFunctionOnSet(f, S) = g[S]
  <1> DEFINE F == [s \in SUBSET S |->
                    CHOOSE v : \E g, X : X \subseteq SUBSET S /\ AddsUp(g, f, X) /\ s \in X /\ v = g[s]]
  <1>1. ASSUME NEW g, NEW X, X \subseteq SUBSET S, AddsUp(g, f, X), NEW s \in X PROVE F[s] = g[s]
    <2>1. s \in SUBSET S /\ \E v : \E h, Y : Y \subseteq SUBSET S /\ AddsUp(h, f, Y) /\ s \in Y /\ v = h[s]
      BY <1>1
    <2>2. PICK h, Y : Y \subseteq SUBSET S /\ AddsUp(h, f, Y) /\ s \in Y /\ F[s] = h[s]
      BY <2>1
    <2>3. QED
      BY <1>1, <2>2, SolutionsAgree
  <1>2. F = [s \in SUBSET S |-> F[s]]
    OBVIOUS
  <1> HIDE DEF F
  <1>3. ASSUME NEW s \in SUBSET S PROVE F[s] = Term(F, f, s)
    <2>1. PICK g, X : X \subseteq SUBSET S /\ AddsUp(g, f, X) /\ s \in X
      <3>1. Solved(S, f, s)
        BY SolutionExists
      <3>2. QED
        BY <3>1 DEF Solved
    <2>2. /\ F[s] = g[s]
          /\ g[s] = Term(g, f, s) /\ (s # {} => s \ {Pick(s)} \in X)
      <3>1. F[s] = g[s]
        BY <1>1, <2>1
      <3>2. QED
        BY <2>1, <3>1 DEF AddsUp
    <2>3. s # {} => F[s \ {Pick(s)}] = g[s \ {Pick(s)}]
      BY <1>1, <2>1, <2>2
    <2>4. Term(g, f, s) = Term(F, f, s)
      BY <2>3 DEF Term
    <2>5. QED
      BY <2>2, <2>4
  <1>4. Summing(F, f, S)
    BY <1>2, <1>3 DEF Summing, Term
  <1> DEFINE g == CHOOSE g : Summing(g, f, S)
  <1>5. Summing(g, f, S)
    BY <1>4
  <1>6. SumFunctionOnSet(f, S) = g[S]
    BY DEF SumFunctionOnSet, FoldFunctionOnSet, MapThenFoldSet, Summing, Pick
  <1> HIDE DEF g
  <1>7. \A s \in SUBSET S : g[s] = Term(g, f, s)
    BY <1>5 DEF Summing, Term
  <1>8. AddsUp(g, f, SUBSET S)
    BY <1>7 DEF AddsUp
  <1>9. QED
    BY <1>6, <1>8

(* The recursion on sums of smaller sets.                                  *)
LEMMA SumUnfolds ==
    ASSUME NEW S, IsFiniteSet(S), NEW f
    PROVE  /\ S = {} => SumFunctionOnSet(f, S) = 0
           /\ S # {} => SumFunctionOnSet(f, S)
                          = f[Pick(S)] + SumFunctionOnSet(f, S \ {Pick(S)})
  <1>1. PICK g : AddsUp(g, f, SUBSET S) /\ SumFunctionOnSet(f, S) = g[S]
    BY SumIsDefined
  <1>2. g[S] = Term(g, f, S)
    BY <1>1 DEF AddsUp
  <1>3. CASE S = {}
    BY <1>1, <1>2, <1>3 DEF Term
  <1>4. CASE S # {}
    <2> DEFINE T == S \ {Pick(S)}
    <2>1. IsFiniteSet(T) /\ T \subseteq S
      BY FS_Subset
    <2> HIDE DEF T
    <2>2. PICK h : AddsUp(h, f, SUBSET T) /\ SumFunctionOnSet(f, T) = h[T]
      BY <2>1, SumIsDefined
    <2>3. g[T] = h[T]
      <3>1. T \in (SUBSET S) \intersect (SUBSET T)
        BY <2>1
      <3>2. \A s \in (SUBSET S) \intersect (SUBSET T) : g[s] = h[s]
        BY <1>1, <2>2, SolutionsAgree
      <3>3. QED
        BY <3>1, <3>2
    <2>4. QED
      BY <1>1, <1>2, <1>4, <2>2, <2>3 DEF Term, T
  <1>5. QED
    BY <1>3, <1>4

(* Sums are integers, whichever the terms.                                 *)
LEMMA SumIsInt ==
    ASSUME NEW S, IsFiniteSet(S), NEW f, \A x \in S : f[x] \in Int
    PROVE  SumFunctionOnSet(f, S) \in Int
  <1> DEFINE D == {T \in SUBSET S : SumFunctionOnSet(f, T) \notin Int}
  <1>1. ASSUME D # {} PROVE FALSE
    <2>1. PICK T \in D : \A U \in D : ~(Cardinality(U) < Cardinality(T))
      BY <1>1, SmallestSet
    <2>2. IsFiniteSet(T) /\ T \subseteq S
      BY <2>1, FS_Subset
    <2>3. T # {} /\ Pick(T) \in T
      BY <2>1, <2>2, SumUnfolds, PickIn
    <2>4. Cardinality(T \ {Pick(T)}) < Cardinality(T)
      BY <2>2, <2>3, OneLess
    <2>5. SumFunctionOnSet(f, T \ {Pick(T)}) \in Int
      BY <2>1, <2>2, <2>4
    <2>6. SumFunctionOnSet(f, T) = f[Pick(T)] + SumFunctionOnSet(f, T \ {Pick(T)})
      BY <2>2, <2>3, SumUnfolds
    <2>7. QED
      BY <2>1, <2>2, <2>3, <2>5, <2>6
  <1>2. QED
    BY <1>1

(* Any element may be taken out first.                                     *)
LEMMA SumWithout ==
    ASSUME NEW S, IsFiniteSet(S), NEW f, \A y \in S : f[y] \in Int, NEW x \in S
    PROVE  SumFunctionOnSet(f, S) = f[x] + SumFunctionOnSet(f, S \ {x})
  <1> DEFINE Sum(T) == SumFunctionOnSet(f, T)
             D == {T \in SUBSET S : \E z \in T : Sum(T) # f[z] + Sum(T \ {z})}
  <1>1. ASSUME D # {} PROVE FALSE
    <2>1. PICK T \in D : \A U \in D : ~(Cardinality(U) < Cardinality(T))
      BY <1>1, SmallestSet
    <2>2. PICK z \in T : Sum(T) # f[z] + Sum(T \ {z})
      BY <2>1
    <2> DEFINE y == Pick(T)
    <2>3. IsFiniteSet(T) /\ T \subseteq S /\ y \in T
      BY <2>1, <2>2, PickIn, FS_Subset
    <2>4. Sum(T) = f[y] + Sum(T \ {y})
      BY <2>2, <2>3, SumUnfolds
    <2> HIDE DEF y
    <2>5. /\ z # y /\ z \in T \ {y} /\ y \in T \ {z}
          /\ (T \ {y}) \ {z} = (T \ {z}) \ {y}
      BY <2>2, <2>3, <2>4
    <2>6. /\ T \ {y} \notin D /\ T \ {z} \notin D
          /\ T \ {y} \in SUBSET S /\ T \ {z} \in SUBSET S
      BY <2>1, <2>2, <2>3, OneLess
    <2> DEFINE U == (T \ {z}) \ {y}
    <2>7. Sum(T \ {z}) = f[y] + Sum(U)
      BY <2>5, <2>6
    <2>8. Sum(T \ {y}) = f[z] + Sum(U)
      <3>1. Sum(T \ {y}) = f[z] + Sum((T \ {y}) \ {z})
        BY <2>5, <2>6
      <3>2. (T \ {y}) \ {z} = U
        BY <2>5
      <3> HIDE DEF U
      <3>3. QED
        BY <3>1, <3>2
    <2>9. f[y] \in Int /\ f[z] \in Int /\ Sum(U) \in Int
      <3>1. IsFiniteSet(U) /\ U \subseteq S
        BY <2>3, FS_Subset
      <3>2. QED
        BY <2>2, <2>3, <3>1, SumIsInt
    <2> HIDE DEF U, Sum
    <2>10. f[z] + Sum(T \ {z}) = f[y] + Sum(T \ {y})
      BY <2>7, <2>8, <2>9
    <2>11. QED
      BY <2>2, <2>4, <2>10
  <1>2. S \notin D
    BY <1>1
  <1>3. QED
    BY <1>2

(* Functions that agree have the same sum.                                 *)
LEMMA SumsAgree ==
    ASSUME NEW S, IsFiniteSet(S), NEW f, NEW h, \A x \in S : h[x] = f[x]
    PROVE  SumFunctionOnSet(h, S) = SumFunctionOnSet(f, S)
  <1> DEFINE D == {T \in SUBSET S : SumFunctionOnSet(h, T) # SumFunctionOnSet(f, T)}
  <1>1. ASSUME D # {} PROVE FALSE
    <2>1. PICK T \in D : \A U \in D : ~(Cardinality(U) < Cardinality(T))
      BY <1>1, SmallestSet
    <2>2. IsFiniteSet(T) /\ T \subseteq S
      BY <2>1, FS_Subset
    <2>3. T # {} /\ Pick(T) \in T
      BY <2>1, <2>2, SumUnfolds, PickIn
    <2>4. Cardinality(T \ {Pick(T)}) < Cardinality(T)
      BY <2>2, <2>3, OneLess
    <2>5. SumFunctionOnSet(h, T \ {Pick(T)}) = SumFunctionOnSet(f, T \ {Pick(T)})
      BY <2>1, <2>2, <2>4
    <2>6. /\ SumFunctionOnSet(f, T) = f[Pick(T)] + SumFunctionOnSet(f, T \ {Pick(T)})
          /\ SumFunctionOnSet(h, T) = h[Pick(T)] + SumFunctionOnSet(h, T \ {Pick(T)})
      BY <2>2, <2>3, SumUnfolds
    <2>7. QED
      BY <2>1, <2>2, <2>3, <2>5, <2>6
  <1>2. QED
    BY <1>1

(* A sum moves with the one term that changes.                             *)
LEMMA SumMoves ==
    ASSUME NEW S, IsFiniteSet(S), NEW f, NEW h,
           \A y \in S : f[y] \in Int /\ h[y] \in Int,
           NEW x \in S, \A y \in S \ {x} : h[y] = f[y]
    PROVE  SumFunctionOnSet(h, S) = SumFunctionOnSet(f, S) + h[x] - f[x]
  <1>1. IsFiniteSet(S \ {x}) /\ S \ {x} \subseteq S
    BY FS_Subset
  <1>2. SumFunctionOnSet(h, S \ {x}) = SumFunctionOnSet(f, S \ {x})
    BY <1>1, SumsAgree
  <1>3. SumFunctionOnSet(f, S) = f[x] + SumFunctionOnSet(f, S \ {x})
    BY SumWithout
  <1>4. SumFunctionOnSet(h, S) = h[x] + SumFunctionOnSet(h, S \ {x})
    BY SumWithout
  <1>5. SumFunctionOnSet(f, S \ {x}) \in Int
    BY <1>1, SumIsInt
  <1>6. QED
    BY <1>2, <1>3, <1>4, <1>5

LEMMA SumOfZeros ==
    ASSUME NEW S, IsFiniteSet(S), NEW f, \A x \in S : f[x] = 0
    PROVE  SumFunctionOnSet(f, S) = 0
  <1> DEFINE D == {T \in SUBSET S : SumFunctionOnSet(f, T) # 0}
  <1>1. ASSUME D # {} PROVE FALSE
    <2>1. PICK T \in D : \A U \in D : ~(Cardinality(U) < Cardinality(T))
      BY <1>1, SmallestSet
    <2>2. IsFiniteSet(T) /\ T \subseteq S
      BY <2>1, FS_Subset
    <2>3. T # {} /\ Pick(T) \in T
      BY <2>1, <2>2, SumUnfolds, PickIn
    <2>4. Cardinality(T \ {Pick(T)}) < Cardinality(T)
      BY <2>2, <2>3, OneLess
    <2>5. SumFunctionOnSet(f, T \ {Pick(T)}) = 0
      BY <2>1, <2>2, <2>4
    <2>6. SumFunctionOnSet(f, T) = f[Pick(T)] + SumFunctionOnSet(f, T \ {Pick(T)})
      BY <2>2, <2>3, SumUnfolds
    <2>7. QED
      BY <2>1, <2>2, <2>3, <2>5, <2>6
  <1>2. QED
    BY <1>1

LEMMA SumIsOnSet ==
    ASSUME NEW S, NEW T, NEW f \in [S -> T]
    PROVE  SumFunction(f) = SumFunctionOnSet(f, S)
  BY DEF SumFunction

(* A row of natural numbers of which one entry changes: its sum moves by   *)
(* as much.                                                                *)
LEMMA RowMoves ==
    ASSUME NEW S, IsFiniteSet(S), NEW f \in [S -> Nat], NEW h \in [S -> Nat], NEW x \in S,
           \A y \in S \ {x} : h[y] = f[y]
    PROVE  /\ SumFunction(f) \in Int
           /\ SumFunction(h) = SumFunction(f) + h[x] - f[x]
  <1>1. SumFunction(h) = SumFunctionOnSet(h, S) /\ SumFunction(f) = SumFunctionOnSet(f, S)
    BY SumIsOnSet
  <1>2. \A y \in S : f[y] \in Int /\ h[y] \in Int
    OBVIOUS
  <1> QED
    BY <1>1, <1>2, SumIsInt, SumMoves

(* What is taken from one entry of a row and given to another, or to the   *)
(* same one, leaves its sum.                                               *)
RowAfter(S, f, from, to, moved) ==
    [y \in S |-> f[y] - (IF y = from THEN moved ELSE 0) + (IF y = to THEN moved ELSE 0)]

LEMMA RowTransfers ==
    ASSUME NEW S, IsFiniteSet(S), NEW f \in [S -> Nat], NEW from \in S, NEW to \in S,
           NEW moved \in Nat, f[from] >= moved
    PROVE  SumFunction(RowAfter(S, f, from, to, moved)) = SumFunction(f)
  <1> DEFINE mid == [y \in S |-> f[y] - (IF y = from THEN moved ELSE 0)]
             row == RowAfter(S, f, from, to, moved)
  <1>1. mid \in [S -> Nat] /\ row \in [S -> Nat]
    BY DEF RowAfter
  <1>2. mid[from] = f[from] - moved /\ \A y \in S \ {from} : mid[y] = f[y]
    OBVIOUS
  <1>3. row[to] = mid[to] + moved /\ \A y \in S \ {to} : row[y] = mid[y]
    BY DEF RowAfter
  <1>4. mid[to] \in Nat /\ f[from] \in Nat
    BY <1>1
  <1> HIDE DEF mid, row
  <1>5. /\ SumFunction(f) \in Int
        /\ SumFunction(mid) = SumFunction(f) + mid[from] - f[from]
    BY <1>1, <1>2, RowMoves
  <1>6. SumFunction(row) = SumFunction(mid) + row[to] - mid[to]
    BY <1>1, <1>3, RowMoves
  <1>7. SumFunction(row) = SumFunction(f)
    BY <1>2, <1>3, <1>4, <1>5, <1>6
  <1> QED
    BY <1>7 DEF row

(* The sum of a row of zeros.                                              *)
LEMMA RowOfZeros ==
    ASSUME NEW S, IsFiniteSet(S), NEW f \in [S -> Nat], \A y \in S : f[y] = 0
    PROVE  SumFunction(f) = 0
  BY SumIsOnSet, SumOfZeros

(* Rows are subtracted entry by entry.                                     *)
LEMMA SumsSubtract ==
    ASSUME NEW S, IsFiniteSet(S), NEW f, NEW g, NEW h,
           \A x \in S : f[x] \in Int /\ g[x] \in Int /\ h[x] = f[x] - g[x]
    PROVE  SumFunctionOnSet(h, S) = SumFunctionOnSet(f, S) - SumFunctionOnSet(g, S)
  <1> DEFINE Good(T) == SumFunctionOnSet(h, T) = SumFunctionOnSet(f, T) - SumFunctionOnSet(g, T)
             D == {T \in SUBSET S : ~Good(T)}
  <1>1. ASSUME D # {} PROVE FALSE
    <2>1. PICK T \in D : \A U \in D : ~(Cardinality(U) < Cardinality(T))
      BY <1>1, SmallestSet
    <2>2. T \subseteq S /\ ~Good(T) /\ IsFiniteSet(T)
      BY <2>1, FS_Subset
    <2>3. CASE T = {}
      <3>1. /\ SumFunctionOnSet(f, {}) = 0
            /\ SumFunctionOnSet(g, {}) = 0
            /\ SumFunctionOnSet(h, {}) = 0
        BY FS_EmptySet, SumUnfolds
      <3> QED
        BY <2>2, <2>3, <3>1
    <2>4. CASE T # {}
      <3> DEFINE x == Pick(T)
                 R == T \ {x}
      <3>1. x \in T
        BY <2>4, PickIn
      <3>2. R \subseteq S /\ IsFiniteSet(R) /\ Cardinality(R) < Cardinality(T)
        BY <2>2, <3>1, OneLess, FS_Subset
      <3>3. Good(R)
        BY <2>1, <3>2
      <3>4. /\ SumFunctionOnSet(f, T) = f[x] + SumFunctionOnSet(f, R)
            /\ SumFunctionOnSet(g, T) = g[x] + SumFunctionOnSet(g, R)
            /\ SumFunctionOnSet(h, T) = h[x] + SumFunctionOnSet(h, R)
        BY <2>2, <2>4, SumUnfolds
      <3>5. f[x] \in Int /\ g[x] \in Int /\ h[x] = f[x] - g[x]
        BY <2>2, <3>1
      <3>6. SumFunctionOnSet(f, R) \in Int /\ SumFunctionOnSet(g, R) \in Int
        <4>1. \A y \in R : f[y] \in Int /\ g[y] \in Int
          BY <3>2
        <4> HIDE DEF R
        <4> QED
          BY <3>2, <4>1, SumIsInt
      <3> HIDE DEF x, R
      <3> QED
        BY <2>2, <3>3, <3>4, <3>5, <3>6
    <2> QED
      BY <2>3, <2>4
  <1> QED
    BY <1>1, S \in SUBSET S

(* A sum of natural numbers is one, and is zero only when they all are.    *)
LEMMA SumIsNat ==
    ASSUME NEW S, IsFiniteSet(S), NEW f, \A x \in S : f[x] \in Nat
    PROVE  SumFunctionOnSet(f, S) \in Nat
  <1> DEFINE D == {T \in SUBSET S : SumFunctionOnSet(f, T) \notin Nat}
  <1>1. ASSUME D # {} PROVE FALSE
    <2>1. PICK T \in D : \A U \in D : ~(Cardinality(U) < Cardinality(T))
      BY <1>1, SmallestSet
    <2>2. T \subseteq S /\ SumFunctionOnSet(f, T) \notin Nat /\ IsFiniteSet(T)
      BY <2>1, FS_Subset
    <2>3. CASE T = {}
      BY <2>2, <2>3, FS_EmptySet, SumUnfolds
    <2>4. CASE T # {}
      <3> DEFINE x == Pick(T)
                 R == T \ {x}
      <3>1. x \in T
        BY <2>4, PickIn
      <3>2. R \subseteq S /\ Cardinality(R) < Cardinality(T)
        BY <2>2, <3>1, OneLess
      <3>3. SumFunctionOnSet(f, R) \in Nat
        BY <2>1, <3>2
      <3>4. SumFunctionOnSet(f, T) = f[x] + SumFunctionOnSet(f, R)
        BY <2>2, <2>4, SumUnfolds
      <3> QED
        BY <2>2, <3>1, <3>3, <3>4
    <2> QED
      BY <2>3, <2>4
  <1> QED
    BY <1>1, S \in SUBSET S

LEMMA SumOfNothing ==
    ASSUME NEW S, IsFiniteSet(S), NEW f, \A y \in S : f[y] \in Nat,
           SumFunctionOnSet(f, S) = 0, NEW x \in S
    PROVE  f[x] = 0
  <1>1. IsFiniteSet(S \ {x}) /\ \A y \in S \ {x} : f[y] \in Nat
    BY FS_Subset
  <1>2. SumFunctionOnSet(f, S \ {x}) \in Nat
    BY <1>1, SumIsNat
  <1>3. SumFunctionOnSet(f, S) = f[x] + SumFunctionOnSet(f, S \ {x})
    BY SumWithout
  <1> QED
    BY <1>2, <1>3

(* One entry of a row of natural numbers is at most its sum.               *)
LEMMA EntryWithinSum ==
    ASSUME NEW S, IsFiniteSet(S), NEW f, \A y \in S : f[y] \in Nat, NEW x \in S
    PROVE  f[x] <= SumFunctionOnSet(f, S)
  <1>1. IsFiniteSet(S \ {x}) /\ \A y \in S \ {x} : f[y] \in Nat
    BY FS_Subset
  <1>2. SumFunctionOnSet(f, S \ {x}) \in Nat
    BY <1>1, SumIsNat
  <1>3. SumFunctionOnSet(f, S) = f[x] + SumFunctionOnSet(f, S \ {x})
    BY SumWithout
  <1> QED
    BY <1>2, <1>3

----------------------------------------------------------------------------
(* The ends of finite sets of integers.                                    *)

HasEnds(S) ==
    /\ \E x \in S : \A y \in S : y <= x
    /\ \E x \in S : \A y \in S : x <= y

LEMMA FiniteEnds ==
    ASSUME NEW S, IsFiniteSet(S), S \subseteq Int, S # {}
    PROVE  HasEnds(S)
  <1> DEFINE D == {T \in SUBSET S : T # {} /\ ~HasEnds(T)}
  <1>1. SUFFICES ASSUME D # {} PROVE FALSE
    OBVIOUS
  <1>2. PICK T \in D : \A U \in D : ~(Cardinality(U) < Cardinality(T))
    BY <1>1, SmallestSet
  <1>3. PICK x : x \in T
    BY <1>2
  <1>4. CASE T \ {x} = {}
    BY <1>2, <1>3, <1>4 DEF HasEnds
  <1>5. CASE T \ {x} # {}
    <2>1. HasEnds(T \ {x})
      BY <1>2, <1>3, <1>5, OneLess
    <2>2. PICK top \in T \ {x} : \A y \in T \ {x} : y <= top
      BY <2>1 DEF HasEnds
    <2>3. PICK low \in T \ {x} : \A y \in T \ {x} : low <= y
      BY <2>1 DEF HasEnds
    <2>4. x \in Int /\ top \in Int /\ low \in Int /\ T \subseteq Int
      BY <1>2, <1>3
    <2>5. \E z \in T : \A y \in T : y <= z
      BY <1>3, <2>2, <2>4
    <2>6. \E z \in T : \A y \in T : z <= y
      BY <1>3, <2>3, <2>4
    <2> QED
      BY <1>2, <2>5, <2>6 DEF HasEnds
  <1> QED
    BY <1>4, <1>5

LEMMA FiniteImage ==
    ASSUME NEW S, IsFiniteSet(S), NEW f
    PROVE  IsFiniteSet({f[x] : x \in S})
  <1> DEFINE T == {f[x] : x \in S}
             g == [x \in S |-> f[x]]
  <1>1. g \in Surjection(S, T)
    BY DEF Surjection
  <1> HIDE DEF T, g
  <1>2. IsFiniteSet(T)
    BY <1>1, FS_Surjection
  <1> QED
    BY <1>2 DEF T

=============================================================================
