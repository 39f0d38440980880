---------------------------- MODULE Ledger_proofs ----------------------------
(***************************************************************************)
(* What is true of SumOver and of book_transaction, for any finite set and *)
(* any integers.                                                           *)
(*                                                                         *)
(* A fold is a function chosen by its equation, and the sum over a set is  *)
(* its value there. So the lemmas first show that there is such a function *)
(* and that it is one only; then, that a sum does not depend on the order  *)
(* in which the elements are taken; then what an element more, one less or *)
(* one changed does to it, which is what the other proofs use.             *)
(*                                                                         *)
(* They go by induction over the subsets of a finite set. It is stated for *)
(* the set of those that have the property, and follows from there being a *)
(* smallest one that has not.                                              *)
(***************************************************************************)
EXTENDS Ledger, FiniteSetTheorems, TLAPS

-----------------------------------------------------------------------------
(* The equation of the fold.                                               *)

\* What holds of a finite set if it holds of all its strict subsets, for every subset.
LEMMA SetInduction ==
    ASSUME NEW S, IsFiniteSet(S), NEW Q,
           \A T \in SUBSET S : (\A U \in SUBSET T : U # T => U \in Q) => T \in Q
    PROVE  S \in Q
<1> DEFINE Bad == (SUBSET S) \ Q
<1> SUFFICES ASSUME S \notin Q PROVE FALSE
    OBVIOUS
<1>1. IsWellFoundedOn(StrictSubsetOrdering(S), FiniteSubsetsOf(S))
    BY FS_StrictSubsetOrderingWellFounded
<1>a. FiniteSubsetsOf(S) = SUBSET S
    BY FS_FiniteSubsetsOfFinite
<1>b. IsWellFoundedOn(StrictSubsetOrdering(S), SUBSET S)
    BY <1>1, <1>a
<1>2. Bad \subseteq SUBSET S /\ Bad # {}
    OBVIOUS
<1>3. \E T \in Bad : \A U \in Bad : ~(<<U, T>> \in StrictSubsetOrdering(S))
    <2> HIDE DEF Bad
    <2> QED BY <1>b, <1>2, WFMin
<1>4. PICK T \in Bad : \A U \in Bad : ~(<<U, T>> \in StrictSubsetOrdering(S))
    BY <1>3
<1>5. \A U \in SUBSET T : U # T => U \in Q
    BY <1>4 DEF StrictSubsetOrdering
<1> QED
    BY <1>4, <1>5

\* What the fold takes first from T.
First(T) == CHOOSE x \in T : TRUE

\* What T adds up to, if g says it of the subsets of T.
Step(f, g, T) == IF T = {} THEN 0 ELSE f[First(T)] + g[T \ {First(T)}]

\* g adds up f over each subset of S.
Adds(g, f, S) == g = [T \in SUBSET S |-> Step(f, g, T)]

\* The fold takes an element of the set.
LEMMA FirstIsIn == ASSUME NEW T, T # {} PROVE First(T) \in T
BY DEF First

\* The sum is the value of the chosen function.
LEMMA FoldIsChosen ==
    ASSUME NEW f, NEW S
    PROVE  SumOver(f, S) = (CHOOSE g : Adds(g, f, S))[S]
BY DEF SumOver, FoldFunctionOnSet, MapThenFoldSet, Adds, Step, First

\* Such a function at one subset.
LEMMA AddsAt ==
    ASSUME NEW f, NEW S, NEW g, Adds(g, f, S), NEW T \in SUBSET S
    PROVE  g[T] = Step(f, g, T)
BY DEF Adds

\* Two such functions agree wherever both are defined.
LEMMA AddsUnique ==
    ASSUME NEW f, NEW X, NEW Y, NEW g, NEW h, Adds(g, f, X), Adds(h, f, Y),
           NEW S, IsFiniteSet(S), S \subseteq X, S \subseteq Y
    PROVE  g[S] = h[S]
<1> DEFINE Q == {T \in SUBSET S : g[T] = h[T]}
<1>1. ASSUME NEW T \in SUBSET S, \A U \in SUBSET T : U # T => U \in Q
      PROVE  T \in Q
    <2>1. g[T] = Step(f, g, T) /\ h[T] = Step(f, h, T)
        BY AddsAt
    <2>2. CASE T = {}
        BY <2>1, <2>2 DEF Step
    <2>3. CASE T # {}
        <3>1. First(T) \in T
            BY <2>3, FirstIsIn
        <3>2. (T \ {First(T)}) \in Q
            BY <3>1, <1>1
        <3>3. g[T \ {First(T)}] = h[T \ {First(T)}]
            BY <3>2
        <3> QED
            BY <2>1, <2>3, <3>3 DEF Step
    <2> QED
        BY <2>2, <2>3
<1>2. S \in Q
    <2> HIDE DEF Q
    <2> QED BY <1>1, SetInduction
<1> QED
    BY <1>2

\* One for S is, below T, one for T.
LEMMA AddsRestricts ==
    ASSUME NEW f, NEW S, NEW g, Adds(g, f, S), NEW T \in SUBSET S
    PROVE  Adds([U \in SUBSET T |-> g[U]], f, T)
<1> DEFINE h == [U \in SUBSET T |-> g[U]]
<1>1. ASSUME NEW U \in SUBSET T
      PROVE  h[U] = Step(f, h, U)
    <2>1. g[U] = Step(f, g, U)
        BY AddsAt
    <2>2. CASE U = {}
        BY <2>1, <2>2 DEF Step
    <2>3. CASE U # {}
        <3>1. (U \ {First(U)}) \in SUBSET T
            OBVIOUS
        <3>2. h[U \ {First(U)}] = g[U \ {First(U)}]
            BY <3>1
        <3> QED
            BY <2>1, <2>3, <3>2 DEF Step
    <2> QED
        BY <2>2, <2>3
<1>2. h = [U \in SUBSET T |-> Step(f, h, U)]
    <2>1. \A U \in SUBSET T : h[U] = Step(f, h, U)
        BY <1>1
    <2>2. h = [U \in SUBSET T |-> h[U]]
        OBVIOUS
    <2> HIDE DEF h
    <2> QED BY <2>1, <2>2
<1> QED
    BY <1>2 DEF Adds

\* Over a finite set there is one.
LEMMA AddsExists ==
    ASSUME NEW f, NEW S, IsFiniteSet(S)
    PROVE  \E g : Adds(g, f, S)
<1> DEFINE Q == {T \in SUBSET S : \E g : Adds(g, f, T)}
<1>1. ASSUME NEW T \in SUBSET S, \A U \in SUBSET T : U # T => U \in Q
      PROVE  T \in Q
    <2> DEFINE W(U) == CHOOSE g : Adds(g, f, U)
    <2> DEFINE low == [U \in (SUBSET T) \ {T} |-> W(U)[U]]
    <2> DEFINE g == [U \in SUBSET T |-> Step(f, low, U)]
    <2>1. ASSUME NEW U \in SUBSET T, U # T
          PROVE  Adds(W(U), f, U)
        BY <1>1, <2>1
    <2>2. ASSUME NEW U \in SUBSET T, U # T
          PROVE  low[U] = g[U]
        <3>1. Adds(W(U), f, U)
            BY <2>1, <2>2
        <3>2. low[U] = Step(f, W(U), U)
            <4>1. U \in SUBSET U OBVIOUS
            <4>2. W(U)[U] = Step(f, W(U), U)
                <5> HIDE DEF W
                <5> QED BY <3>1, <4>1, AddsAt
            <4>3. low[U] = W(U)[U]
                BY <2>2
            <4> QED BY <4>2, <4>3
        <3>3. CASE U = {}
            BY <3>2, <3>3 DEF Step
        <3>4. CASE U # {}
            <4> DEFINE V == U \ {First(U)}
            <4>1. First(U) \in U
                BY <3>4, FirstIsIn
            <4>2. V \in SUBSET T /\ V # T /\ V \subseteq U
                BY <4>1, <2>2
            <4>3. Adds(W(V), f, V)
                <5> HIDE DEF V, W
                <5> QED BY <4>2, <2>1
            <4>4. IsFiniteSet(V)
                BY FS_Subset
            <4>5. W(U)[V] = W(V)[V]
                <5> HIDE DEF V, W
                <5> QED BY <3>1, <4>2, <4>3, <4>4, AddsUnique
            <4>6. low[V] = W(V)[V]
                BY <4>2
            <4>7. g[U] = Step(f, low, U)
                OBVIOUS
            <4>8. Step(f, W(U), U) = f[First(U)] + W(U)[V]
                BY <3>4 DEF Step
            <4>9. Step(f, low, U) = f[First(U)] + low[V]
                BY <3>4 DEF Step
            <4> HIDE DEF V, W, g, low
            <4> QED BY <3>2, <4>5, <4>6, <4>7, <4>8, <4>9
        <3> QED
            BY <3>3, <3>4
    <2>3. ASSUME NEW U \in SUBSET T
          PROVE  Step(f, low, U) = Step(f, g, U)
        <3>1. CASE U = {}
            BY <3>1 DEF Step
        <3>2. CASE U # {}
            <4> DEFINE V == U \ {First(U)}
            <4>1. First(U) \in U
                BY <3>2, FirstIsIn
            <4>2. V \in SUBSET T /\ V # T
                BY <4>1
            <4>3. low[V] = g[V]
                <5> HIDE DEF low, g, V
                <5> QED BY <4>2, <2>2
            <4>4. Step(f, low, U) = f[First(U)] + low[V]
                BY <3>2 DEF Step
            <4>5. Step(f, g, U) = f[First(U)] + g[V]
                BY <3>2 DEF Step
            <4> HIDE DEF V, g, low
            <4> QED BY <4>3, <4>4, <4>5
        <3> QED
            BY <3>1, <3>2
    <2>4. Adds(g, f, T)
        <3>1. g = [U \in SUBSET T |-> Step(f, low, U)]
            OBVIOUS
        <3> HIDE DEF g, low
        <3>2. g = [U \in SUBSET T |-> Step(f, g, U)]
            BY <3>1, <2>3
        <3> QED BY <3>2 DEF Adds
    <2> QED
        <3> HIDE DEF g
        <3> QED BY <2>4
<1>2. S \in Q
    <2> HIDE DEF Q
    <2> QED BY <1>1, SetInduction
<1> QED
    BY <1>2

\* So a sum is its first element and the sum of the others.
LEMMA SumOverUnfolds ==
    ASSUME NEW f, NEW S, IsFiniteSet(S)
    PROVE  /\ S = {} => SumOver(f, S) = 0
           /\ S # {} => SumOver(f, S) = f[First(S)] + SumOver(f, S \ {First(S)})
<1> DEFINE W(T) == CHOOSE g : Adds(g, f, T)
<1>1. Adds(W(S), f, S)
    BY AddsExists
<1>2. SumOver(f, S) = Step(f, W(S), S)
    <2>1. SumOver(f, S) = W(S)[S]
        BY FoldIsChosen
    <2>2. S \in SUBSET S
        OBVIOUS
    <2> HIDE DEF W
    <2> QED BY <2>1, <2>2, <1>1, AddsAt
<1>3. CASE S = {}
    BY <1>2, <1>3 DEF Step
<1>4. CASE S # {}
    <2> DEFINE T == S \ {First(S)}
    <2>1. IsFiniteSet(T)
        BY FS_Subset
    <2>2. Adds(W(T), f, T)
        <3> HIDE DEF T
        <3> QED BY <2>1, AddsExists
    <2>3. SumOver(f, T) = W(T)[T]
        BY FoldIsChosen
    <2>4. W(S)[T] = W(T)[T]
        <3>1. T \subseteq S
            OBVIOUS
        <3> HIDE DEF T, W
        <3> QED BY <3>1, <1>1, <2>1, <2>2, AddsUnique
    <2>5. Step(f, W(S), S) = f[First(S)] + W(S)[T]
        BY <1>4 DEF Step
    <2> QED
        BY <1>2, <1>4, <2>3, <2>4, <2>5
<1> QED
    BY <1>3, <1>4

-----------------------------------------------------------------------------
(* Sums of integers.                                                       *)

\* The elements of S are given integers by f.
IntOn(f, S) == \A x \in S : f[x] \in Int

\* A sum of integers is an integer.
LEMMA SumOverInt ==
    ASSUME NEW f, NEW S, IsFiniteSet(S), IntOn(f, S)
    PROVE  SumOver(f, S) \in Int
<1> DEFINE Q == {T \in SUBSET S : SumOver(f, T) \in Int}
<1>1. ASSUME NEW T \in SUBSET S, \A U \in SUBSET T : U # T => U \in Q
      PROVE  T \in Q
    <2>1. IsFiniteSet(T)
        BY FS_Subset
    <2>2. CASE T = {}
        <3>1. SumOver(f, T) = 0
            BY <2>1, <2>2, SumOverUnfolds
        <3> QED BY <3>1
    <2>3. CASE T # {}
        <3>1. First(T) \in T
            BY <2>3, FirstIsIn
        <3>2. T \ {First(T)} \in Q
            BY <3>1, <1>1
        <3>3. SumOver(f, T) = f[First(T)] + SumOver(f, T \ {First(T)})
            BY <2>1, <2>3, SumOverUnfolds
        <3> QED
            BY <3>1, <3>2, <3>3 DEF IntOn
    <2> QED
        BY <2>2, <2>3
<1>2. S \in Q
    <2> HIDE DEF Q
    <2> QED BY <1>1, SetInduction
<1> QED
    BY <1>2

\* Any element may be taken first.
LEMMA SumOverTakes ==
    ASSUME NEW f, NEW S, IsFiniteSet(S), IntOn(f, S), NEW x \in S
    PROVE  SumOver(f, S) = f[x] + SumOver(f, S \ {x})
<1> DEFINE Q == {T \in SUBSET S :
                   \A y \in T : SumOver(f, T) = f[y] + SumOver(f, T \ {y})}
<1>1. ASSUME NEW T \in SUBSET S, \A U \in SUBSET T : U # T => U \in Q
      PROVE  T \in Q
    <2> SUFFICES ASSUME NEW y \in T
                 PROVE  SumOver(f, T) = f[y] + SumOver(f, T \ {y})
        OBVIOUS
    <2> DEFINE z == First(T)
    <2>1. IsFiniteSet(T) /\ z \in T
        BY FS_Subset, FirstIsIn
    <2>2. SumOver(f, T) = f[z] + SumOver(f, T \ {z})
        BY <2>1, SumOverUnfolds
    <2>3. CASE y = z
        BY <2>2, <2>3
    <2>4. CASE y # z
        <3> DEFINE R == (T \ {z}) \ {y}
        <3>1. T \ {z} \in Q /\ T \ {y} \in Q
            BY <2>1, <1>1
        <3>2. SumOver(f, T \ {z}) = f[y] + SumOver(f, R)
            BY <3>1, <2>4
        <3>3. SumOver(f, T \ {y}) = f[z] + SumOver(f, R)
            <4>1. (T \ {y}) \ {z} = R
                OBVIOUS
            <4>2. z \in T \ {y}
                BY <2>1, <2>4
            <4> QED BY <3>1, <4>1, <4>2
        <3>4. SumOver(f, R) \in Int
            <4>1. IsFiniteSet(R) /\ IntOn(f, R)
                BY FS_Subset DEF IntOn
            <4> QED BY <4>1, SumOverInt
        <3>5. f[y] \in Int /\ f[z] \in Int
            BY <2>1 DEF IntOn
        <3> HIDE DEF z, R
        <3> QED
            BY <2>2, <3>2, <3>3, <3>4, <3>5
    <2> QED
        BY <2>3, <2>4
<1>2. S \in Q
    <2> HIDE DEF Q
    <2> QED BY <1>1, SetInduction
<1> QED
    BY <1>2

\* Only what f says of the elements of S matters.
LEMMA SumOverEqual ==
    ASSUME NEW f, NEW g, NEW S, IsFiniteSet(S), \A x \in S : f[x] = g[x]
    PROVE  SumOver(f, S) = SumOver(g, S)
<1> DEFINE Q == {T \in SUBSET S : SumOver(f, T) = SumOver(g, T)}
<1>1. ASSUME NEW T \in SUBSET S, \A U \in SUBSET T : U # T => U \in Q
      PROVE  T \in Q
    <2>1. IsFiniteSet(T)
        BY FS_Subset
    <2>2. CASE T = {}
        BY <2>1, <2>2, SumOverUnfolds
    <2>3. CASE T # {}
        <3>1. First(T) \in T
            BY <2>3, FirstIsIn
        <3>2. T \ {First(T)} \in Q
            BY <3>1, <1>1
        <3>3. /\ SumOver(f, T) = f[First(T)] + SumOver(f, T \ {First(T)})
              /\ SumOver(g, T) = g[First(T)] + SumOver(g, T \ {First(T)})
            BY <2>1, <2>3, SumOverUnfolds
        <3> QED
            BY <3>1, <3>2, <3>3
    <2> QED
        BY <2>2, <2>3
<1>2. S \in Q
    <2> HIDE DEF Q
    <2> QED BY <1>1, SetInduction
<1> QED
    BY <1>2

\* Nothing adds up to zero.
LEMMA SumOverEmpty ==
    ASSUME NEW f
    PROVE  SumOver(f, {}) = 0
BY SumOverUnfolds, FS_EmptySet

\* A new element adds what it is given.
LEMMA SumOverInsert ==
    ASSUME NEW f, NEW g, NEW S, IsFiniteSet(S), IntOn(f, S),
           NEW x, x \notin S, g[x] \in Int, \A y \in S : g[y] = f[y]
    PROVE  SumOver(g, S \union {x}) = SumOver(f, S) + g[x]
<1> DEFINE T == S \union {x}
<1>1. IsFiniteSet(T) /\ IntOn(g, T) /\ T \ {x} = S /\ x \in T
    BY FS_AddElement DEF IntOn
<1>2. SumOver(g, T) = g[x] + SumOver(g, S)
    <2> HIDE DEF T
    <2>1. SumOver(g, T) = g[x] + SumOver(g, T \ {x})
        BY <1>1, SumOverTakes
    <2> QED BY <1>1, <2>1
<1>3. SumOver(g, S) = SumOver(f, S) /\ SumOver(f, S) \in Int
    <2>1. \A y \in S : g[y] = f[y]
        OBVIOUS
    <2> QED BY <2>1, SumOverEqual, SumOverInt
<1> QED
    BY <1>2, <1>3

\* One that goes takes it along.
LEMMA SumOverRemove ==
    ASSUME NEW f, NEW g, NEW S, IsFiniteSet(S), IntOn(f, S),
           NEW x \in S, \A y \in S \ {x} : g[y] = f[y]
    PROVE  SumOver(g, S \ {x}) = SumOver(f, S) - f[x]
<1>1. SumOver(f, S) = f[x] + SumOver(f, S \ {x})
    BY SumOverTakes
<1>2. IsFiniteSet(S \ {x}) /\ IntOn(f, S \ {x})
    BY FS_Subset DEF IntOn
<1>3. SumOver(f, S \ {x}) \in Int /\ SumOver(g, S \ {x}) = SumOver(f, S \ {x})
    BY <1>2, SumOverInt, SumOverEqual
<1> QED
    BY <1>1, <1>3 DEF IntOn

\* One whose value changes shifts the sum by the difference.
LEMMA SumOverUpdate ==
    ASSUME NEW f, NEW g, NEW S, IsFiniteSet(S), IntOn(f, S),
           NEW x \in S, g[x] \in Int, \A y \in S \ {x} : g[y] = f[y]
    PROVE  SumOver(g, S) = SumOver(f, S) + (g[x] - f[x])
<1>1. IntOn(g, S)
    BY DEF IntOn
<1>2. SumOver(g, S) = g[x] + SumOver(g, S \ {x})
    BY <1>1, SumOverTakes
<1>3. SumOver(g, S \ {x}) = SumOver(f, S) - f[x]
    BY SumOverRemove
<1>4. SumOver(f, S) \in Int
    BY SumOverInt
<1> QED
    BY <1>2, <1>3, <1>4 DEF IntOn

\* To add up f over some elements is to add up zero for the others.
LEMMA SumOverPart ==
    ASSUME NEW f, NEW g, NEW S, IsFiniteSet(S), NEW P \in SUBSET S, IntOn(f, P),
           \A x \in S : g[x] = IF x \in P THEN f[x] ELSE 0
    PROVE  SumOver(f, P) = SumOver(g, S)
<1> DEFINE Q == {T \in SUBSET S : SumOver(f, T \intersect P) = SumOver(g, T)}
<1>1. ASSUME NEW T \in SUBSET S, \A U \in SUBSET T : U # T => U \in Q
      PROVE  T \in Q
    <2>1. IsFiniteSet(T)
        BY FS_Subset
    <2>2. CASE T = {}
        <3>1. T \intersect P = {}
            BY <2>2
        <3> QED BY <2>2, <3>1, SumOverEmpty
    <2>3. CASE T # {}
        <3> DEFINE x == First(T)
                   R == T \ {x}
        <3>1. x \in T
            BY <2>3, FirstIsIn
        <3>2. R \in Q
            BY <3>1, <1>1
        <3>3. SumOver(g, T) = g[x] + SumOver(g, R)
            BY <2>1, <2>3, SumOverUnfolds
        <3>4. IsFiniteSet(T \intersect P) /\ IntOn(f, T \intersect P)
            BY <2>1, FS_Subset DEF IntOn
        <3>5. CASE x \in P
            <4>1. (T \intersect P) \ {x} = R \intersect P /\ x \in T \intersect P
                BY <3>1, <3>5
            <4>2. SumOver(f, T \intersect P) = f[x] + SumOver(f, R \intersect P)
                <5> HIDE DEF x, R
                <5>1. SumOver(f, T \intersect P)
                         = f[x] + SumOver(f, (T \intersect P) \ {x})
                    BY <3>4, <4>1, SumOverTakes
                <5> QED BY <5>1, <4>1
            <4>3. g[x] = f[x]
                BY <3>1, <3>5
            <4> HIDE DEF x, R
            <4> QED BY <3>2, <3>3, <4>2, <4>3
        <3>6. CASE x \notin P
            <4>1. T \intersect P = R \intersect P
                BY <3>6
            <4>2. g[x] = 0
                BY <3>1, <3>6
            <4>3. SumOver(f, T \intersect P) \in Int
                BY <3>4, SumOverInt
            <4>4. SumOver(f, T \intersect P) = SumOver(g, R)
                <5>1. SumOver(f, R \intersect P) = SumOver(g, R)
                    BY <3>2
                <5> QED BY <4>1, <5>1
            <4>5. SumOver(g, T) = SumOver(f, T \intersect P)
                <5> HIDE DEF x, R
                <5> QED BY <3>3, <4>2, <4>3, <4>4
            <4> QED BY <4>5
        <3> QED BY <3>5, <3>6
    <2> QED
        BY <2>2, <2>3
<1>2. S \in Q
    <2> HIDE DEF Q
    <2> QED BY <1>1, SetInduction
<1>3. S \intersect P = P
    OBVIOUS
<1> QED
    BY <1>2, <1>3

\* Nothing but zeros adds up to zero.
LEMMA SumOverZero ==
    ASSUME NEW f, NEW S, IsFiniteSet(S), \A x \in S : f[x] = 0
    PROVE  SumOver(f, S) = 0
<1>1. IntOn(f, {}) /\ {} \in SUBSET S
    BY DEF IntOn
<1>2. \A x \in S : f[x] = IF x \in {} THEN f[x] ELSE 0
    OBVIOUS
<1>3. SumOver(f, {}) = SumOver(f, S)
    BY <1>1, <1>2, SumOverPart
<1> QED
    BY <1>3, SumOverEmpty

\* The elements of S that key gives k.
Group(key, k, S) == {y \in S : key[y] = k}

\* A new element adds to its own group only.
LEMMA SumOverGroup ==
    ASSUME NEW f, NEW S, IsFiniteSet(S), NEW x, x \notin S, IntOn(f, S \union {x}),
           NEW key, NEW k
    PROVE  SumOver(f, Group(key, k, S \union {x}))
              = SumOver(f, Group(key, k, S)) + (IF key[x] = k THEN f[x] ELSE 0)
<1> DEFINE G == Group(key, k, S)
           H == Group(key, k, S \union {x})
<1>1. IsFiniteSet(G) /\ IntOn(f, G) /\ x \notin G /\ f[x] \in Int
    BY FS_Subset DEF IntOn, Group
<1>2. CASE key[x] = k
    <2>1. H = G \union {x}
        BY <1>2 DEF Group
    <2> HIDE DEF G, H
    <2>2. SumOver(f, H) = SumOver(f, G) + f[x]
        BY <1>1, <2>1, SumOverInsert
    <2> QED BY <1>2, <2>2 DEF G, H
<1>3. CASE key[x] # k
    <2>1. H = G
        BY <1>3 DEF Group
    <2>2. SumOver(f, G) \in Int
        BY <1>1, SumOverInt
    <2> HIDE DEF G, H
    <2>3. SumOver(f, H) = SumOver(f, G) + 0
        BY <2>1, <2>2
    <2> QED BY <1>3, <2>3 DEF G, H
<1> QED
    BY <1>2, <1>3

-----------------------------------------------------------------------------
(* Transactions.                                                           *)

\* A transaction between two accounts moves money and makes none.
LEMMA PostConserves ==
    ASSUME NEW A, IsFiniteSet(A), NEW b \in [A -> Int], NEW tx,
           tx.source \in A, tx.target \in A, tx.source # tx.target, tx.amount \in Int
    PROVE  SumOver(Post(b, tx), A) = SumOver(b, A)
<1> DEFINE s == tx.source
           t == tx.target
           n == tx.amount
           drawn == [b EXCEPT ![s] = @ - n]
           posted == Post(b, tx)
<1>1. /\ drawn \in [A -> Int] /\ drawn[s] = b[s] - n
      /\ \A a \in A \ {s} : drawn[a] = b[a]
    OBVIOUS
<1>2. /\ posted[t] = drawn[t] + n
      /\ \A a \in A \ {t} : posted[a] = drawn[a]
    BY DEF Post
<1>3. /\ IntOn(b, A) /\ IntOn(drawn, A) /\ drawn[s] \in Int /\ posted[t] \in Int
      /\ b[s] \in Int /\ drawn[t] \in Int
    BY <1>1, <1>2 DEF IntOn
<1> HIDE DEF drawn, posted
<1>4. SumOver(drawn, A) = SumOver(b, A) + (drawn[s] - b[s])
    BY <1>1, <1>3, SumOverUpdate
<1>5. SumOver(posted, A) = SumOver(drawn, A) + (posted[t] - drawn[t])
    BY <1>2, <1>3, SumOverUpdate
<1>6. SumOver(b, A) \in Int
    BY <1>3, SumOverInt
<1>7. SumOver(posted, A) = SumOver(b, A)
    BY <1>1, <1>2, <1>3, <1>4, <1>5, <1>6
<1> QED
    BY <1>7 DEF posted

\* So does book_transaction, whatever the sign of the amount.
LEMMA BookTransactionConserves ==
    ASSUME NEW A, IsFiniteSet(A), NEW b \in [A -> Int], NEW source \in A, NEW target \in A,
           source # target, NEW amount \in Int
    PROVE  /\ BookTransaction(b, source, target, amount) \in [A -> Int]
           /\ SumOver(BookTransaction(b, source, target, amount), A) = SumOver(b, A)
<1> DEFINE tx == Transaction(source, target, amount)
<1>1. /\ tx.source \in A /\ tx.target \in A /\ tx.source # tx.target
      /\ tx.amount \in Int
    BY DEF Transaction
<1>2. Post(b, tx) \in [A -> Int]
    BY <1>1 DEF Post
<1>3. SumOver(Post(b, tx), A) = SumOver(b, A)
    <2> HIDE DEF tx
    <2> QED BY <1>1, PostConserves
<1> QED
    BY <1>2, <1>3 DEF BookTransaction
=============================================================================
