------------------------- MODULE FiniteSums_proofs -------------------------
(***************************************************************************)
(* Induction over a set of numbers (a set that holds 0 and the successor   *)
(* of each of its members holds every natural number), and that the sums   *)
(* of SumFunction over finite sets are well-defined.                       *)
(***************************************************************************)
EXTENDS Integers, FiniteSets, FiniteSetsExt, FiniteSetTheorems, WellFoundedInduction,
        NaturalsInduction, TLAPS

\* Induction on the natural numbers, stated for a set of them.
LEMMA SetInduction ==
    ASSUME NEW S, 0 \in S, \A n \in Nat : n \in S => n + 1 \in S
    PROVE  Nat \subseteq S
<1> DEFINE R == OpToRel(<, Nat)
           T == Nat \ S
<1>1. IsWellFoundedOn(R, Nat)
    BY NatLessThanWellFounded
<1>2. SUFFICES ASSUME T # {} PROVE FALSE
    OBVIOUS
<1>3. PICK x \in T : \A y \in T : ~ (<<y, x>> \in R)
    <2> T \subseteq Nat
        OBVIOUS
    <2> QED BY <1>1, <1>2, WFMin
<1>4. x # 0 /\ x \in Nat
    OBVIOUS
<1>5. x - 1 \in Nat /\ x - 1 < x /\ (x - 1) + 1 = x
    BY <1>4
<1>6. x - 1 \notin S
    BY <1>3, <1>5
<1>7. <<x - 1, x>> \in R
    BY <1>5 DEF OpToRel
<1> QED BY <1>3, <1>5, <1>6, <1>7

-----------------------------------------------------------------------------
\* The function SumFunction recurs through, written out.
SumRecursion(fun, sum) ==
    sum = [s \in SUBSET DOMAIN fun |->
              IF s = {} THEN 0
              ELSE LET x == CHOOSE x \in s : TRUE IN fun[x] + sum[s \ {x}]]

\* SumFunction is the recursion over its domain in some order.
LEMMA SumFunctionUnfolds ==
    ASSUME NEW fun
    PROVE  SumFunction(fun) = (CHOOSE sum : SumRecursion(fun, sum))[DOMAIN fun]
BY Zenon DEF SumFunction, SumFunctionOnSet, FoldFunctionOnSet, MapThenFoldSet, SumRecursion

\* The recursion has a solution: by induction on the size of the set.
LEMMA SumExists ==
    ASSUME NEW fun, IsFiniteSet(DOMAIN fun), \A x \in DOMAIN fun : fun[x] \in Nat
    PROVE  \E sum : SumRecursion(fun, sum)
<1> DEFINE D == DOMAIN fun
           Pick(s) == CHOOSE x \in s : TRUE
           Small(n) == {s \in SUBSET D : Cardinality(s) <= n}
           Value(f, s) == IF s = {} THEN 0 ELSE fun[Pick(s)] + f[s \ {Pick(s)}]
           G(f, n) == f = [s \in Small(n) |-> f[s]] /\ \A s \in Small(n) : f[s] = Value(f, s)
           S == {n \in Nat : \E f : G(f, n)}
<1>1. \A s \in SUBSET D : IsFiniteSet(s) /\ Cardinality(s) \in Nat
    BY FS_Subset, FS_CardinalityType
<1>2. \A s \in SUBSET D : s # {} => Pick(s) \in s
    OBVIOUS
<1>3. ASSUME NEW n \in Nat, NEW s \in Small(n + 1), s # {}
      PROVE  s \ {Pick(s)} \in Small(n)
    <2>1. Cardinality(s \ {Pick(s)}) = Cardinality(s) - 1
        BY <1>1, <1>2, <1>3, FS_RemoveElement
    <2> QED BY <1>1, <1>3, <2>1
<1>4. 0 \in S
    <2> DEFINE f == [s \in Small(0) |-> 0]
    <2>1. \A s \in Small(0) : s = {}
        <3> TAKE s \in Small(0)
        <3>1. Cardinality(s) = 0
            BY <1>1
        <3> QED BY <1>1, <3>1, FS_EmptySet
    <2>2. f = [s \in Small(0) |-> f[s]] /\ \A s \in Small(0) : f[s] = 0
        OBVIOUS
    <2> HIDE DEF f, Small
    <2>3. G(f, 0)
        BY <2>1, <2>2
    <2> QED BY <2>3
<1>5. ASSUME NEW n \in Nat, n \in S
      PROVE  n + 1 \in S
    <2>1. PICK f : G(f, n)
        BY <1>5
    <2> DEFINE g == [s \in Small(n + 1) |-> Value(f, s)]
    <2>2. g = [s \in Small(n + 1) |-> g[s]] /\ \A s \in Small(n + 1) : g[s] = Value(f, s)
        OBVIOUS
    <2>3. Small(n) \subseteq Small(n + 1)
        BY <1>1
    <2> HIDE DEF g, Small
    <2>4. \A s \in Small(n) : g[s] = f[s]
        BY <2>1, <2>2, <2>3
    <2>5. ASSUME NEW s \in Small(n + 1)
          PROVE  Value(g, s) = Value(f, s)
        <3>1. CASE s = {}
            BY <3>1
        <3>2. CASE s # {}
            <4>1. s \ {Pick(s)} \in Small(n)
                BY <1>3, <3>2
            <4>2. g[s \ {Pick(s)}] = f[s \ {Pick(s)}]
                BY <2>4, <4>1
            <4> HIDE DEF Pick
            <4> QED BY <4>2
        <3> QED BY <3>1, <3>2
    <2>6. G(g, n + 1)
        <3> HIDE DEF Value
        <3> QED BY <2>2, <2>5
    <2> HIDE DEF G
    <2> QED BY <2>6
<1>6. Nat \subseteq S
    <2> HIDE DEF S
    <2> QED BY <1>4, <1>5, SetInduction
<1>7. Cardinality(D) \in Nat /\ Small(Cardinality(D)) = SUBSET D
    BY FS_CardinalityType, FS_Subset
<1>8. PICK sum : G(sum, Cardinality(D))
    BY <1>6, <1>7
<1>9. sum = [s \in SUBSET D |-> sum[s]] /\ \A s \in SUBSET D : sum[s] = Value(sum, s)
    BY <1>7, <1>8
<1>10. sum = [s \in SUBSET D |-> Value(sum, s)]
    <2> HIDE DEF Value
    <2> QED BY <1>9, Zenon
<1> QED BY <1>10, Zenon DEF SumRecursion

-----------------------------------------------------------------------------
(* What sums do when their terms change                                    *)

\* Induction over the subsets of a finite set, stated for a set of them.
LEMMA SubsetInduction ==
    ASSUME NEW S, IsFiniteSet(S), NEW G, {} \in G,
           \A T \in SUBSET S : T \in G => \A x \in S \ T : T \cup {x} \in G
    PROVE  S \in G
<1> DEFINE N == {n \in Nat : \A T \in SUBSET S : Cardinality(T) = n => T \in G}
<1>1. \A T \in SUBSET S : IsFiniteSet(T) /\ Cardinality(T) \in Nat
    BY FS_Subset, FS_CardinalityType
<1>2. 0 \in N
    BY <1>1, FS_EmptySet
<1>3. ASSUME NEW n \in Nat, n \in N
      PROVE  n + 1 \in N
    <2> SUFFICES ASSUME NEW T \in SUBSET S, Cardinality(T) = n + 1 PROVE T \in G
        OBVIOUS
    <2>1. T # {}
        BY FS_EmptySet
    <2>2. PICK x \in T : TRUE
        BY <2>1
    <2>3. Cardinality(T \ {x}) = n
        <3>1. IsFiniteSet(T)
            BY <1>1
        <3>2. Cardinality(T \ {x}) = Cardinality(T) - 1
            BY <2>2, <3>1, FS_RemoveElement
        <3> QED BY <3>2
    <2>4. T \ {x} \in G
        BY <1>3, <2>3
    <2>5. (T \ {x}) \cup {x} = T /\ x \in S \ (T \ {x}) /\ T \ {x} \in SUBSET S
        BY <2>2
    <2>6. \A y \in S \ (T \ {x}) : (T \ {x}) \cup {y} \in G
        BY <2>4, <2>5
    <2> QED BY <2>5, <2>6
<1>4. Nat \subseteq N
    <2> HIDE DEF N
    <2> QED BY <1>2, <1>3, SetInduction
<1> QED BY <1>1, <1>4

\* A solution of the recursion takes the terms in any order.
LEMMA AnyOrder ==
    ASSUME NEW fun, IsFiniteSet(DOMAIN fun), \A x \in DOMAIN fun : fun[x] \in Nat,
           NEW sum, SumRecursion(fun, sum)
    PROVE  \A s \in SUBSET DOMAIN fun :
              sum[s] \in Nat /\ \A y \in s : sum[s] = fun[y] + sum[s \ {y}]
<1> DEFINE D == DOMAIN fun
           Pick(s) == CHOOSE x \in s : TRUE
           Good(s) == sum[s] \in Nat /\ \A y \in s : sum[s] = fun[y] + sum[s \ {y}]
           N == {n \in Nat : \A s \in SUBSET D : Cardinality(s) <= n => Good(s)}
<1>1. sum[{}] = 0 /\ \A s \in SUBSET D : s # {} => sum[s] = fun[Pick(s)] + sum[s \ {Pick(s)}]
    BY DEF SumRecursion
<1>2. \A s \in SUBSET D : IsFiniteSet(s) /\ Cardinality(s) \in Nat
    BY FS_Subset, FS_CardinalityType
<1>3. \A s \in SUBSET D : s # {} => Pick(s) \in s
    OBVIOUS
<1>4. \A s \in SUBSET D : \A y \in s : Cardinality(s \ {y}) = Cardinality(s) - 1
    BY <1>2, FS_RemoveElement
<1> HIDE DEF Pick
<1>5. 0 \in N
    <2> SUFFICES ASSUME NEW s \in SUBSET D, Cardinality(s) <= 0 PROVE Good(s)
        OBVIOUS
    <2>1. s = {}
        BY <1>2, FS_EmptySet
    <2> QED BY <1>1, <2>1
<1>6. ASSUME NEW n \in Nat, n \in N
      PROVE  n + 1 \in N
    <2> SUFFICES ASSUME NEW s \in SUBSET D, Cardinality(s) <= n + 1 PROVE Good(s)
        OBVIOUS
    <2> DEFINE p == Pick(s)
    <2>1. CASE s = {}
        BY <1>1, <2>1
    <2> SUFFICES ASSUME s # {} PROVE Good(s)
        BY <2>1
    <2>2. p \in s /\ sum[s] = fun[p] + sum[s \ {p}]
        BY <1>1, <1>3
    <2> HIDE DEF p
    <2>3. ASSUME NEW y \in s PROVE Good(s \ {y})
        <3>1. Cardinality(s \ {y}) <= n /\ s \ {y} \in SUBSET D
            BY <1>2, <1>4
        <3> QED BY <1>6, <3>1
    <2>4. sum[s \ {p}] \in Nat /\ fun[p] \in Nat
        BY <2>2, <2>3
    <2>5. ASSUME NEW y \in s PROVE sum[s] = fun[y] + sum[s \ {y}]
        <3>1. CASE y = p
            BY <2>2, <3>1
        <3>2. CASE y # p
            <4> DEFINE rest == (s \ {p}) \ {y}
            <4>1. rest = (s \ {y}) \ {p} /\ rest \in SUBSET D
                OBVIOUS
            <4>2. y \in s \ {p} /\ p \in s \ {y}
                BY <2>2, <3>2
            <4>3. sum[s \ {p}] = fun[y] + sum[rest]
                BY <2>2, <2>3, <4>2
            <4>4. sum[s \ {y}] = fun[p] + sum[(s \ {y}) \ {p}]
                BY <2>3, <4>2
            <4>5. sum[s \ {y}] = fun[p] + sum[rest]
                BY <4>1, <4>4
            <4>6. sum[rest] \in Nat
                <5>1. Cardinality(rest) <= n
                    <6>1. Cardinality(s \ {p}) = Cardinality(s) - 1 /\ s \ {p} \in SUBSET D
                        BY <1>4, <2>2
                    <6>2. Cardinality(rest) = Cardinality(s \ {p}) - 1
                        BY <1>4, <4>2, <6>1
                    <6>3. Cardinality(s) \in Nat
                        BY <1>2
                    <6> HIDE DEF rest
                    <6> QED BY <6>1, <6>2, <6>3
                <5> QED BY <1>6, <4>1, <5>1
            <4>7. fun[y] \in Nat
                OBVIOUS
            <4> HIDE DEF rest
            <4> QED BY <2>2, <2>4, <4>3, <4>5, <4>6, <4>7
        <3> QED BY <3>1, <3>2
    <2>6. sum[s] \in Nat
        <3>1. sum[s] = fun[p] + sum[s \ {p}]
            BY <2>2
        <3> QED BY <2>4, <3>1
    <2> QED BY <2>5, <2>6
<1>7. Nat \subseteq N
    <2> HIDE DEF N
    <2> QED BY <1>5, <1>6, SetInduction
<1>8. ASSUME NEW s \in SUBSET D PROVE Good(s)
    <2>1. Cardinality(s) \in N
        <3> HIDE DEF N
        <3> QED BY <1>2, <1>7
    <2>2. Cardinality(s) <= Cardinality(s)
        BY <1>2
    <2> QED BY <2>1, <2>2
<1> QED BY <1>8

(***************************************************************************)
(* A finite sum of natural numbers is one.                                 *)
(***************************************************************************)
THEOREM FiniteSumNat ==
    ASSUME NEW fun, IsFiniteSet(DOMAIN fun), \A x \in DOMAIN fun : fun[x] \in Nat
    PROVE  SumFunction(fun) \in Nat
<1> DEFINE sum == CHOOSE sum : SumRecursion(fun, sum)
<1>1. SumRecursion(fun, sum)
    BY SumExists
<1> HIDE DEF sum
<1>2. sum[DOMAIN fun] \in Nat
    BY <1>1, AnyOrder
<1> QED BY <1>2, SumFunctionUnfolds DEF sum

\* What f is on s.
Part(f, s) == [x \in s |-> f[x]]

\* The sum over a part is what the recursion over the whole computes for it.
LEMMA SumOfPart ==
    ASSUME NEW fun, IsFiniteSet(DOMAIN fun), \A x \in DOMAIN fun : fun[x] \in Nat,
           NEW sum, SumRecursion(fun, sum),
           NEW s \in SUBSET DOMAIN fun
    PROVE  SumFunction(Part(fun, s)) = sum[s]
<1> DEFINE part == Part(fun, s)
           own == CHOOSE own : SumRecursion(part, own)
           G == {t \in SUBSET s : own[t] = sum[t]}
<1>1. IsFiniteSet(s) /\ DOMAIN part = s /\ \A x \in s : part[x] = fun[x]
    BY FS_Subset DEF Part
<1>2. SumFunction(part) = own[s]
    BY <1>1, SumFunctionUnfolds
<1>3. SumRecursion(part, own)
    BY <1>1, SumExists
<1> HIDE DEF part, own
<1>4. \A t \in SUBSET s : \A y \in t : own[t] = part[y] + own[t \ {y}]
    <2>1. IsFiniteSet(DOMAIN part) /\ \A x \in DOMAIN part : part[x] \in Nat
        BY <1>1
    <2>2. \A t \in SUBSET DOMAIN part :
             own[t] \in Nat /\ \A y \in t : own[t] = part[y] + own[t \ {y}]
        BY <1>3, <2>1, AnyOrder
    <2> QED BY <1>1, <2>2
<1>5. \A t \in SUBSET s : \A y \in t : sum[t] = fun[y] + sum[t \ {y}]
    <2>1. \A t \in SUBSET DOMAIN fun :
             sum[t] \in Nat /\ \A y \in t : sum[t] = fun[y] + sum[t \ {y}]
        BY AnyOrder
    <2> QED BY <2>1
<1>6. {} \in G
    BY <1>3 DEF SumRecursion
<1>7. ASSUME NEW t \in SUBSET s, t \in G, NEW x \in s \ t PROVE t \cup {x} \in G
    <2>1. t \cup {x} \in SUBSET s /\ x \in t \cup {x} /\ (t \cup {x}) \ {x} = t
        OBVIOUS
    <2>2. own[t \cup {x}] = part[x] + own[t]
        BY <1>4, <2>1
    <2>3. sum[t \cup {x}] = fun[x] + sum[t]
        BY <1>5, <2>1
    <2> QED BY <1>1, <1>7, <2>1, <2>2, <2>3
<1>8. s \in G
    <2> HIDE DEF G
    <2> QED BY <1>1, <1>6, <1>7, SubsetInduction
<1> QED BY <1>2, <1>8 DEF part

\* An empty sum.
LEMMA SumNone ==
    ASSUME NEW fun, DOMAIN fun = {}
    PROVE  SumFunction(fun) = 0
<1> DEFINE sum == CHOOSE sum : SumRecursion(fun, sum)
<1>1. SumRecursion(fun, sum)
    BY FS_EmptySet, SumExists
<1> HIDE DEF sum
<1>2. sum[{}] = 0
    BY <1>1 DEF SumRecursion
<1> QED BY <1>2, SumFunctionUnfolds DEF sum

\* A sum is any of its terms and the sum of the others.
LEMMA SumSplit ==
    ASSUME NEW fun, IsFiniteSet(DOMAIN fun), \A x \in DOMAIN fun : fun[x] \in Nat,
           NEW y \in DOMAIN fun
    PROVE  SumFunction(fun) = fun[y] + SumFunction(Part(fun, DOMAIN fun \ {y}))
<1> DEFINE sum == CHOOSE sum : SumRecursion(fun, sum)
<1>1. SumRecursion(fun, sum)
    BY SumExists
<1>2. SumFunction(fun) = sum[DOMAIN fun]
    BY SumFunctionUnfolds
<1> HIDE DEF sum
<1>3. sum[DOMAIN fun] = fun[y] + sum[DOMAIN fun \ {y}]
    BY <1>1, AnyOrder
<1>4. SumFunction(Part(fun, DOMAIN fun \ {y})) = sum[DOMAIN fun \ {y}]
    BY <1>1, SumOfPart
<1> QED BY <1>2, <1>3, <1>4

\* One term changes.
LEMMA SumChange ==
    ASSUME NEW f, NEW g, DOMAIN f = DOMAIN g, IsFiniteSet(DOMAIN f),
           \A x \in DOMAIN f : f[x] \in Nat /\ g[x] \in Nat,
           NEW y \in DOMAIN f, \A x \in DOMAIN f \ {y} : g[x] = f[x]
    PROVE  SumFunction(g) + f[y] = SumFunction(f) + g[y]
<1> DEFINE rest == SumFunction(Part(f, DOMAIN f \ {y}))
<1>1. SumFunction(f) = f[y] + rest
    BY SumSplit
<1>2. SumFunction(g) = g[y] + SumFunction(Part(g, DOMAIN g \ {y}))
    BY SumSplit
<1>3. Part(g, DOMAIN g \ {y}) = Part(f, DOMAIN f \ {y})
    BY DEF Part
<1>4. rest \in Nat
    <2>1. IsFiniteSet(DOMAIN f \ {y})
        BY FS_RemoveElement
    <2> QED BY <2>1, FiniteSumNat DEF Part
<1> HIDE DEF rest
<1>5. SumFunction(g) = g[y] + rest
    BY <1>2, <1>3 DEF rest
<1>6. f[y] \in Nat /\ g[y] \in Nat
    OBVIOUS
<1> QED BY <1>1, <1>4, <1>5, <1>6

\* One term is added.
LEMMA SumMore ==
    ASSUME NEW f, NEW g, NEW y, y \notin DOMAIN f, DOMAIN g = DOMAIN f \cup {y},
           IsFiniteSet(DOMAIN f), f = [x \in DOMAIN f |-> f[x]],
           \A x \in DOMAIN g : g[x] \in Nat, \A x \in DOMAIN f : g[x] = f[x]
    PROVE  SumFunction(g) = SumFunction(f) + g[y]
<1>1. IsFiniteSet(DOMAIN g)
    BY FS_AddElement
<1>2. SumFunction(g) = g[y] + SumFunction(Part(g, DOMAIN g \ {y}))
    BY <1>1, SumSplit
<1>3. Part(g, DOMAIN g \ {y}) = f
    <2>1. DOMAIN g \ {y} = DOMAIN f
        OBVIOUS
    <2> QED BY <2>1 DEF Part
<1>4. SumFunction(f) \in Nat /\ g[y] \in Nat
    BY FiniteSumNat
<1> QED BY <1>2, <1>3, <1>4

\* Terms that are zero may be left out.
LEMMA SumWithoutZeros ==
    ASSUME NEW f, NEW g, IsFiniteSet(DOMAIN f), \A x \in DOMAIN f : f[x] \in Nat,
           DOMAIN g \subseteq DOMAIN f, g = [x \in DOMAIN g |-> g[x]],
           f = [x \in DOMAIN f |-> f[x]],
           \A x \in DOMAIN g : g[x] = f[x], \A x \in DOMAIN f \ DOMAIN g : f[x] = 0
    PROVE  SumFunction(f) = SumFunction(g)
<1> DEFINE With(s) == Part(f, DOMAIN g \cup s)
           rest == DOMAIN f \ DOMAIN g
           G == {s \in SUBSET rest : SumFunction(With(s)) = SumFunction(g)}
<1>1. {} \in G
    <2>1. With({}) = g
        BY DEF Part
    <2> QED BY <2>1
<1>2. ASSUME NEW s \in SUBSET rest, s \in G, NEW x \in rest \ s PROVE s \cup {x} \in G
    <2>1. IsFiniteSet(DOMAIN g \cup s)
        BY FS_Subset
    <2>2. /\ DOMAIN With(s) = DOMAIN g \cup s /\ DOMAIN With(s \cup {x}) = DOMAIN With(s) \cup {x}
          /\ x \notin DOMAIN With(s) /\ With(s) = [z \in DOMAIN With(s) |-> With(s)[z]]
          /\ \A z \in DOMAIN With(s) : With(s \cup {x})[z] = With(s)[z]
          /\ \A z \in DOMAIN With(s \cup {x}) : With(s \cup {x})[z] \in Nat
          /\ With(s \cup {x})[x] = 0
        BY DEF Part
    <2> HIDE DEF With
    <2>3. SumFunction(With(s \cup {x})) = SumFunction(With(s)) + 0
        BY <2>1, <2>2, SumMore
    <2>4. SumFunction(With(s)) \in Nat
        <3>1. \A z \in DOMAIN With(s) : With(s)[z] \in Nat
            BY <2>2
        <3> QED BY <2>1, <2>2, <3>1, FiniteSumNat
    <2> QED BY <1>2, <2>3, <2>4
<1>3. IsFiniteSet(rest)
    BY FS_Subset
<1>4. rest \in G
    <2> HIDE DEF G, rest
    <2> QED BY <1>1, <1>2, <1>3, SubsetInduction
<1>5. With(rest) = f
    <2>1. DOMAIN g \cup rest = DOMAIN f
        OBVIOUS
    <2> QED BY <2>1 DEF Part
<1> QED BY <1>4, <1>5

\* A sum of zeros.
LEMMA SumOfZeros ==
    ASSUME NEW f, IsFiniteSet(DOMAIN f), f = [x \in DOMAIN f |-> f[x]],
           \A x \in DOMAIN f : f[x] = 0
    PROVE  SumFunction(f) = 0
<1> DEFINE none == [x \in {} |-> 0]
<1>1. SumFunction(none) = 0
    BY SumNone
<1>2. DOMAIN none = {} /\ none = [x \in DOMAIN none |-> none[x]]
    OBVIOUS
<1> HIDE DEF none
<1>3. SumFunction(f) = SumFunction(none)
    <2>1. \A x \in DOMAIN f : f[x] \in Nat
        OBVIOUS
    <2> QED BY <1>2, <2>1, SumWithoutZeros
<1> QED BY <1>1, <1>3

\* No term is more than the sum.
LEMMA TermAtMostSum ==
    ASSUME NEW f, IsFiniteSet(DOMAIN f), \A x \in DOMAIN f : f[x] \in Nat, NEW y \in DOMAIN f
    PROVE  f[y] <= SumFunction(f)
<1>1. SumFunction(f) = f[y] + SumFunction(Part(f, DOMAIN f \ {y}))
    BY SumSplit
<1>2. SumFunction(Part(f, DOMAIN f \ {y})) \in Nat
    <2>1. IsFiniteSet(DOMAIN f \ {y})
        BY FS_RemoveElement
    <2> QED BY <2>1, FiniteSumNat DEF Part
<1>3. f[y] \in Nat
    OBVIOUS
<1> QED BY <1>1, <1>2, <1>3

\* A part of a sum grows by the term it takes in.
LEMMA PartGrows ==
    ASSUME NEW f, IsFiniteSet(DOMAIN f), \A x \in DOMAIN f : f[x] \in Nat,
           NEW s \in SUBSET DOMAIN f, NEW y \in DOMAIN f \ s
    PROVE  /\ SumFunction(Part(f, s)) \in Nat
           /\ SumFunction(Part(f, s \cup {y})) = SumFunction(Part(f, s)) + f[y]
<1> DEFINE part == Part(f, s)
           more == Part(f, s \cup {y})
<1>1. /\ DOMAIN part = s /\ DOMAIN more = s \cup {y} /\ part = [x \in DOMAIN part |-> part[x]]
      /\ \A x \in s : part[x] = f[x] /\ more[x] = f[x]
      /\ more[y] = f[y]
    BY DEF Part
<1>2. IsFiniteSet(s)
    BY FS_Subset
<1> HIDE DEF part, more
<1>3. SumFunction(part) \in Nat
    BY <1>1, <1>2, FiniteSumNat
<1>4. SumFunction(more) = SumFunction(part) + more[y]
    <2>1. y \notin DOMAIN part /\ DOMAIN more = DOMAIN part \cup {y} /\ IsFiniteSet(DOMAIN part)
        BY <1>1, <1>2
    <2>2. (\A x \in DOMAIN more : more[x] \in Nat) /\ \A x \in DOMAIN part : more[x] = part[x]
        BY <1>1
    <2> QED BY <1>1, <2>1, <2>2, SumMore
<1> QED BY <1>1, <1>3, <1>4 DEF part, more

\* Fewer terms, none of them larger, make no larger sum.
LEMMA SumAtMost ==
    ASSUME NEW f, NEW g, IsFiniteSet(DOMAIN g), \A x \in DOMAIN g : g[x] \in Nat,
           DOMAIN f \subseteq DOMAIN g, f = [x \in DOMAIN f |-> f[x]],
           \A x \in DOMAIN f : f[x] \in Nat /\ f[x] <= g[x]
    PROVE  SumFunction(f) <= SumFunction(g)
<1> DEFINE all == DOMAIN g
           h == [x \in all |-> IF x \in DOMAIN f THEN f[x] ELSE 0]
           G == {s \in SUBSET all : SumFunction(Part(h, s)) <= SumFunction(Part(g, s))}
<1>1. /\ DOMAIN h = all /\ h = [x \in DOMAIN h |-> h[x]]
      /\ \A x \in all : h[x] \in Nat /\ h[x] <= g[x]
      /\ \A x \in DOMAIN f : f[x] = h[x]
      /\ \A x \in all \ DOMAIN f : h[x] = 0
    OBVIOUS
<1> HIDE DEF h
<1>2. SumFunction(h) = SumFunction(f)
    BY <1>1, SumWithoutZeros
<1>3. {} \in G
    <2>1. DOMAIN Part(h, {}) = {} /\ DOMAIN Part(g, {}) = {}
        BY DEF Part
    <2>2. SumFunction(Part(h, {})) = 0 /\ SumFunction(Part(g, {})) = 0
        BY <2>1, SumNone
    <2> QED BY <2>2
<1>4. ASSUME NEW s \in SUBSET all, s \in G, NEW x \in all \ s PROVE s \cup {x} \in G
    <2>1. /\ SumFunction(Part(h, s)) \in Nat
          /\ SumFunction(Part(h, s \cup {x})) = SumFunction(Part(h, s)) + h[x]
        <3>1. s \in SUBSET DOMAIN h /\ x \in DOMAIN h \ s /\ IsFiniteSet(DOMAIN h)
            BY <1>1
        <3>2. \A z \in DOMAIN h : h[z] \in Nat
            BY <1>1
        <3> QED BY <3>1, <3>2, PartGrows
    <2>2. /\ SumFunction(Part(g, s)) \in Nat
          /\ SumFunction(Part(g, s \cup {x})) = SumFunction(Part(g, s)) + g[x]
        BY PartGrows
    <2>3. SumFunction(Part(h, s)) <= SumFunction(Part(g, s)) /\ s \cup {x} \in SUBSET all
        BY <1>4
    <2>4. h[x] \in Nat /\ g[x] \in Nat /\ h[x] <= g[x]
        BY <1>1
    <2> QED BY <2>1, <2>2, <2>3, <2>4
<1>5. all \in G
    <2> HIDE DEF G
    <2> QED BY <1>3, <1>4, SubsetInduction
<1>6. SumFunction(Part(g, all)) = SumFunction(g)
    <2>1. PICK sum : SumRecursion(g, sum) /\ SumFunction(g) = sum[all]
        BY SumExists, SumFunctionUnfolds
    <2> QED BY <2>1, SumOfPart
<1>7. Part(h, all) = h
    BY <1>1 DEF Part
<1> QED BY <1>2, <1>5, <1>6, <1>7

\* A sum over two sets of terms that have none in common.
LEMMA SumDisjoint ==
    ASSUME NEW f, IsFiniteSet(DOMAIN f), \A x \in DOMAIN f : f[x] \in Nat,
           NEW a \in SUBSET DOMAIN f, NEW b \in SUBSET DOMAIN f, a \cap b = {}
    PROVE  SumFunction(Part(f, a \cup b)) = SumFunction(Part(f, a)) + SumFunction(Part(f, b))
<1> DEFINE G == {s \in SUBSET b : SumFunction(Part(f, a \cup s))
                                    = SumFunction(Part(f, a)) + SumFunction(Part(f, s))}
<1>1. IsFiniteSet(a) /\ IsFiniteSet(b)
    BY FS_Subset
<1>2. \A s \in SUBSET DOMAIN f : SumFunction(Part(f, s)) \in Nat
    <2> SUFFICES ASSUME NEW s \in SUBSET DOMAIN f PROVE SumFunction(Part(f, s)) \in Nat
        OBVIOUS
    <2>1. DOMAIN Part(f, s) = s /\ \A x \in s : Part(f, s)[x] \in Nat
        BY DEF Part
    <2>2. IsFiniteSet(s)
        BY FS_Subset
    <2> QED BY <2>1, <2>2, FiniteSumNat
<1>3. {} \in G
    <2>1. DOMAIN Part(f, {}) = {} /\ a \cup {} = a
        BY DEF Part
    <2>2. SumFunction(Part(f, {})) = 0
        BY <2>1, SumNone
    <2>3. SumFunction(Part(f, a)) \in Nat
        BY <1>2
    <2> QED BY <2>1, <2>2, <2>3
<1>4. ASSUME NEW s \in SUBSET b, s \in G, NEW x \in b \ s PROVE s \cup {x} \in G
    <2>1. /\ a \cup s \in SUBSET DOMAIN f /\ x \in DOMAIN f \ (a \cup s)
          /\ s \in SUBSET DOMAIN f /\ x \in DOMAIN f \ s
        OBVIOUS
    <2>2. SumFunction(Part(f, s \cup {x})) = SumFunction(Part(f, s)) + f[x]
        BY <2>1, PartGrows
    <2>3. SumFunction(Part(f, (a \cup s) \cup {x})) = SumFunction(Part(f, a \cup s)) + f[x]
        BY <2>1, PartGrows
    <2>4. SumFunction(Part(f, a \cup s)) = SumFunction(Part(f, a)) + SumFunction(Part(f, s))
        BY <1>4
    <2>5. /\ SumFunction(Part(f, a)) \in Nat /\ SumFunction(Part(f, s)) \in Nat
          /\ f[x] \in Nat /\ (a \cup s) \cup {x} = a \cup (s \cup {x})
        BY <1>2, <2>1
    <2>6. SumFunction(Part(f, a \cup (s \cup {x})))
             = SumFunction(Part(f, a)) + SumFunction(Part(f, s \cup {x}))
        <3>1. PICK u, v, w, z : /\ u = SumFunction(Part(f, a)) /\ v = SumFunction(Part(f, s))
                                /\ w = SumFunction(Part(f, s \cup {x})) /\ z = f[x]
            OBVIOUS
        <3>2. u \in Nat /\ v \in Nat /\ z \in Nat /\ w = v + z
            BY <2>2, <2>5, <3>1
        <3>3. SumFunction(Part(f, a \cup (s \cup {x}))) = (u + v) + z
            BY <2>3, <2>4, <2>5, <3>1
        <3>4. (u + v) + z = u + w
            BY <3>2
        <3> QED BY <3>1, <3>3, <3>4
    <2> QED BY <2>6
<1>5. b \in G
    <2> HIDE DEF G
    <2> QED BY <1>1, <1>3, <1>4, SubsetInduction
<1> QED BY <1>5

\* One term is its own sum.
LEMMA SumOfOne ==
    ASSUME NEW f, NEW y, DOMAIN f = {y}, f[y] \in Nat
    PROVE  SumFunction(f) = f[y]
<1>1. SumFunction(f) = f[y] + SumFunction(Part(f, DOMAIN f \ {y}))
    <2>1. IsFiniteSet(DOMAIN f) /\ y \in DOMAIN f /\ \A x \in DOMAIN f : f[x] \in Nat
        BY FS_Singleton
    <2> QED BY <2>1, SumSplit
<1>2. SumFunction(Part(f, DOMAIN f \ {y})) = 0
    <2>1. DOMAIN Part(f, DOMAIN f \ {y}) = {}
        BY DEF Part
    <2> QED BY <2>1, SumNone
<1> QED BY <1>1, <1>2
=============================================================================
