---------------------------- MODULE SumTheorems -----------------------------
(***************************************************************************)
(* Facts about SumFunctionOnSet and SumFunction of the community modules,  *)
(* the sums in which bills, allocations, carts and reports are expressed.  *)
(* The sum of f over S is defined by recursion on S, an element chosen at  *)
(* a time: here it is shown to be the sum whatever the order.              *)
(***************************************************************************)
EXTENDS Integers, FiniteSets, Functions, FiniteSetTheorems, WellFoundedInduction, TLAPS

-----------------------------------------------------------------------------
(* Induction, stated for sets of numbers and sets of sets.                 *)

\* A set of numbers has a least one.
LEMMA LeastNumber ==
    ASSUME NEW S, S \subseteq Nat, S # {}
    PROVE  \E least \in S : \A n \in S : least <= n
  <1> DEFINE R == OpToRel(<, Nat)
  <1>1. IsWellFoundedOn(R, Nat)
    BY NatLessThanWellFounded
  <1> HIDE DEF R
  <1>2. PICK least \in S : \A n \in S : ~ (<<n, least>> \in R)
    BY ONLY <1>1, WFMin, S \subseteq Nat, S # {}
  <1>3. \A n \in S : ~ (n < least)
    BY <1>2 DEF R, OpToRel
  <1> QED
    BY <1>3

\* A set of numbers that holds zero, and with a number the next one, holds them all.
LEMMA EveryNumber ==
    ASSUME NEW Good, 0 \in Good, \A n \in Nat : n \in Good => n + 1 \in Good
    PROVE  Nat \subseteq Good
  <1> SUFFICES ASSUME Nat \ Good # {} PROVE FALSE
    OBVIOUS
  <1> DEFINE Bad == Nat \ Good
  <1>1. PICK n \in Bad : \A m \in Bad : n <= m
    BY LeastNumber
  <1>2. n # 0 /\ n - 1 \in Nat
    BY <1>1
  <1>3. n - 1 \in Good
    BY <1>1, <1>2
  <1> QED
    BY <1>1, <1>2, <1>3

\* What holds of a finite set whenever it holds of the smaller ones holds of them all.
LEMMA SmallerFirst ==
    ASSUME NEW S, IsFiniteSet(S), NEW Good,
           \A T \in SUBSET S :
               (\A U \in SUBSET T : U # T => U \in Good) => T \in Good
    PROVE  \A T \in SUBSET S : T \in Good
  <1> SUFFICES ASSUME NEW B \in SUBSET S, B \notin Good
               PROVE  FALSE
    OBVIOUS
  <1> DEFINE Sizes == {n \in Nat : \E T \in SUBSET S : T \notin Good /\ Cardinality(T) = n}
  <1>1. \A T \in SUBSET S : IsFiniteSet(T) /\ Cardinality(T) \in Nat
    BY FS_Subset, FS_CardinalityType
  <1>2. Sizes # {}
    BY <1>1
  <1>3. PICK n \in Sizes : \A m \in Sizes : n <= m
    BY <1>2, LeastNumber
  <1>4. PICK T \in SUBSET S : T \notin Good /\ Cardinality(T) = n
    BY <1>3
  <1>5. ASSUME NEW U \in SUBSET T, U # T
        PROVE  U \in Good
    <2>1. U \in SUBSET S
      OBVIOUS
    <2>2. Cardinality(U) <= n /\ Cardinality(U) # n
      BY <1>1, <1>4, <1>5, FS_Subset
    <2>3. Cardinality(U) \in Nat /\ n \in Nat
      BY <1>1, <2>1, <1>3
    <2>4. Cardinality(U) \notin Sizes
      BY <1>3, <2>2, <2>3
    <2> QED
      BY <2>1, <2>3, <2>4
  <1> QED
    BY <1>4, <1>5

\* What holds of the empty set, and of a set with an element more when it holds of
\* the set, holds of a finite set.
LEMMA EverySubset ==
    ASSUME NEW S, IsFiniteSet(S), NEW Good, {} \in Good,
           \A T \in SUBSET S : \A x \in S \ T : T \in Good => T \cup {x} \in Good
    PROVE  S \in Good
  <1>1. ASSUME NEW T \in SUBSET S, \A U \in SUBSET T : U # T => U \in Good
        PROVE  T \in Good
    <2>1. CASE T = {}
      BY <2>1
    <2>2. ASSUME NEW x \in T
          PROVE  T \in Good
      <3>1. T \ {x} \in SUBSET S /\ x \in S \ (T \ {x}) /\ T \ {x} # T
        OBVIOUS
      <3>2. T \ {x} \in Good
        BY <1>1, <3>1
      <3>3. (T \ {x}) \cup {x} = T
        OBVIOUS
      <3> QED
        BY <3>1, <3>2, <3>3
    <2> QED
      BY <2>1, <2>2
  <1>2. \A T \in SUBSET S : T \in Good
    BY <1>1, SmallerFirst
  <1> QED
    BY <1>2

-----------------------------------------------------------------------------
(* The recursion that defines a sum has a solution.                        *)

\* The element the recursion takes first.
FirstTaken(T) == CHOOSE x \in T : TRUE

\* A function on a set of sets that is the sum of f as far as it is defined.
Accumulates(g, f, D) ==
    g = [T \in D |-> IF T = {} THEN 0 ELSE f[FirstTaken(T)] + g[T \ {FirstTaken(T)}]]

LEMMA FirstTakenElement == ASSUME NEW T, T # {} PROVE FirstTaken(T) \in T
  BY DEF FirstTaken

LEMMA AccumulationExists ==
    ASSUME NEW f, NEW S, IsFiniteSet(S)
    PROVE  \E g : Accumulates(g, f, SUBSET S)
  <1> DEFINE Upto(n) == {T \in SUBSET S : Cardinality(T) <= n}
             Good == {n \in Nat : \E g : Accumulates(g, f, Upto(n))}
  <1>1. \A T \in SUBSET S : IsFiniteSet(T) /\ Cardinality(T) \in Nat
    BY FS_Subset, FS_CardinalityType
  <1>2. 0 \in Good
    <2> DEFINE g == [T \in Upto(0) |-> 0]
    <2>1. \A T \in Upto(0) : T = {}
      BY <1>1, FS_EmptySet
    <2>2. Accumulates(g, f, Upto(0))
      BY <2>1 DEF Accumulates
    <2> QED
      BY <2>2
  <1>3. ASSUME NEW n \in Nat, n \in Good
        PROVE  n + 1 \in Good
    <2>1. PICK g : Accumulates(g, f, Upto(n))
      BY <1>3
    <2> DEFINE h == [T \in Upto(n + 1) |-> IF T = {} THEN 0
                                           ELSE f[FirstTaken(T)] + g[T \ {FirstTaken(T)}]]
    <2>2. ASSUME NEW T \in Upto(n + 1), T # {}
          PROVE  T \ {FirstTaken(T)} \in Upto(n)
      <3>1. FirstTaken(T) \in T
        BY <2>2, FirstTakenElement
      <3>2. Cardinality(T \ {FirstTaken(T)}) = Cardinality(T) - 1
        BY <1>1, <3>1, FS_RemoveElement
      <3> QED
        BY <1>1, <3>2
    <2>3. ASSUME NEW T \in Upto(n)
          PROVE  T \in Upto(n + 1) /\ h[T] = g[T]
      <3>1. T \in Upto(n + 1)
        BY <1>1
      <3>2. g[T] = IF T = {} THEN 0 ELSE f[FirstTaken(T)] + g[T \ {FirstTaken(T)}]
        BY <2>1, <2>3 DEF Accumulates
      <3> QED
        BY <3>1, <3>2
    <2>4. ASSUME NEW T \in Upto(n + 1)
          PROVE  h[T] = IF T = {} THEN 0 ELSE f[FirstTaken(T)] + h[T \ {FirstTaken(T)}]
      BY <2>2, <2>3
    <2>5. h = [T \in Upto(n + 1) |-> h[T]]
      OBVIOUS
    <2> HIDE DEF h, Upto
    <2>6. Accumulates(h, f, Upto(n + 1))
      BY <2>4, <2>5 DEF Accumulates
    <2> QED
      BY <2>6
  <1> HIDE DEF Good
  <1>4. Cardinality(S) \in Good
    BY <1>1, <1>2, <1>3, EveryNumber
  <1>5. Upto(Cardinality(S)) = SUBSET S
    BY FS_Subset, FS_CardinalityType
  <1> QED
    BY <1>4, <1>5 DEF Good

\* Two of them agree wherever both are defined.
LEMMA AccumulationsAgree ==
    ASSUME NEW f, NEW S, IsFiniteSet(S), NEW T \in SUBSET S, NEW g, NEW h,
           Accumulates(g, f, SUBSET S), Accumulates(h, f, SUBSET T)
    PROVE  g[T] = h[T]
  <1> DEFINE Good == {U \in SUBSET T : g[U] = h[U]}
  <1>1. IsFiniteSet(T)
    BY FS_Subset
  <1>2. ASSUME NEW U \in SUBSET T, \A V \in SUBSET U : V # U => V \in Good
        PROVE  U \in Good
    <2>1. g[U] = IF U = {} THEN 0 ELSE f[FirstTaken(U)] + g[U \ {FirstTaken(U)}]
      BY DEF Accumulates
    <2>2. h[U] = IF U = {} THEN 0 ELSE f[FirstTaken(U)] + h[U \ {FirstTaken(U)}]
      BY DEF Accumulates
    <2>3. CASE U = {}
      BY <2>1, <2>2, <2>3
    <2>4. CASE U # {}
      <3>1. FirstTaken(U) \in U
        BY <2>4, FirstTakenElement
      <3>2. U \ {FirstTaken(U)} \in Good
        BY <1>2, <3>1
      <3> QED
        BY <2>1, <2>2, <2>4, <3>2
    <2> QED
      BY <2>3, <2>4
  <1> SUFFICES T \in Good
    OBVIOUS
  <1> HIDE DEF Good
  <1>3. \A U \in SUBSET T : U \in Good
    BY <1>1, <1>2, SmallerFirst
  <1> QED
    BY <1>3

LEMMA SumAccumulates ==
    ASSUME NEW f, NEW S, IsFiniteSet(S)
    PROVE  \E g : Accumulates(g, f, SUBSET S) /\ SumFunctionOnSet(f, S) = g[S]
  <1> DEFINE g == CHOOSE it : it = [s \in SUBSET S |->
                    IF s = {} THEN 0
                    ELSE f[CHOOSE x \in s : TRUE] + it[s \ {CHOOSE x \in s : TRUE}]]
  <1>1. SumFunctionOnSet(f, S) = g[S]
    BY DEF SumFunctionOnSet, FoldFunctionOnSet, MapThenFoldSet
  <1>2. \E it : Accumulates(it, f, SUBSET S)
    BY AccumulationExists
  <1>3. Accumulates(g, f, SUBSET S)
    BY <1>2 DEF Accumulates, FirstTaken
  <1> QED
    BY <1>1, <1>3

-----------------------------------------------------------------------------
(* What a sum is.                                                          *)

LEMMA SumOnNothing == \A f : SumFunctionOnSet(f, {}) = 0
  <1> SUFFICES ASSUME NEW f PROVE SumFunctionOnSet(f, {}) = 0
    OBVIOUS
  <1>1. IsFiniteSet({})
    BY FS_EmptySet
  <1>2. PICK g : Accumulates(g, f, SUBSET {}) /\ SumFunctionOnSet(f, {}) = g[{}]
    BY <1>1, SumAccumulates
  <1> QED
    BY <1>2 DEF Accumulates

LEMMA SumStep ==
    ASSUME NEW f, NEW S, IsFiniteSet(S), S # {}
    PROVE  SumFunctionOnSet(f, S)
             = f[FirstTaken(S)] + SumFunctionOnSet(f, S \ {FirstTaken(S)})
  <1> DEFINE R == S \ {FirstTaken(S)}
  <1>1. IsFiniteSet(R) /\ R \in SUBSET S
    BY FS_Subset
  <1>2. PICK g : Accumulates(g, f, SUBSET S) /\ SumFunctionOnSet(f, S) = g[S]
    BY SumAccumulates
  <1>3. PICK h : Accumulates(h, f, SUBSET R) /\ SumFunctionOnSet(f, R) = h[R]
    BY <1>1, SumAccumulates
  <1>4. g[R] = h[R]
    BY <1>1, <1>2, <1>3, AccumulationsAgree
  <1>5. g[S] = f[FirstTaken(S)] + g[R]
    BY <1>2 DEF Accumulates
  <1> QED
    BY <1>2, <1>3, <1>4, <1>5

\* A sum of integers is an integer.
LEMMA SumType ==
    ASSUME NEW S, IsFiniteSet(S), NEW f, \A x \in S : f[x] \in Int
    PROVE  SumFunctionOnSet(f, S) \in Int
  <1> DEFINE Good == {T \in SUBSET S : SumFunctionOnSet(f, T) \in Int}
  <1>1. ASSUME NEW T \in SUBSET S, \A U \in SUBSET T : U # T => U \in Good
        PROVE  T \in Good
    <2>1. CASE T = {}
      BY <2>1, SumOnNothing
    <2>2. CASE T # {}
      <3>1. FirstTaken(T) \in T
        BY <2>2, FirstTakenElement
      <3>2. T \ {FirstTaken(T)} \in Good
        BY <1>1, <3>1
      <3>3. IsFiniteSet(T)
        BY FS_Subset
      <3> HIDE DEF Good
      <3>4. SumFunctionOnSet(f, T) = f[FirstTaken(T)] + SumFunctionOnSet(f, T \ {FirstTaken(T)})
        BY <2>2, <3>3, SumStep
      <3> QED
        BY <3>1, <3>2, <3>4 DEF Good
    <2> QED
      BY <2>1, <2>2
  <1>2. \A T \in SUBSET S : T \in Good
    BY <1>1, SmallerFirst
  <1> QED
    BY <1>2

\* It is the same whichever element is taken first.
LEMMA SumWithout ==
    ASSUME NEW S, IsFiniteSet(S), NEW f, \A x \in S : f[x] \in Int
    PROVE  \A x \in S : SumFunctionOnSet(f, S) = f[x] + SumFunctionOnSet(f, S \ {x})
  <1> DEFINE Sum(T) == SumFunctionOnSet(f, T)
             Good == {T \in SUBSET S : \A x \in T : Sum(T) = f[x] + Sum(T \ {x})}
  <1>1. \A T \in SUBSET S : IsFiniteSet(T) /\ Sum(T) \in Int
    BY FS_Subset, SumType
  <1>2. \A T \in SUBSET S : T # {} => Sum(T) = f[FirstTaken(T)] + Sum(T \ {FirstTaken(T)})
    BY <1>1, SumStep
  <1> HIDE DEF Sum
  <1>3. ASSUME NEW T \in SUBSET S, \A U \in SUBSET T : U # T => U \in Good
        PROVE  T \in Good
    <2> SUFFICES ASSUME NEW x \in T PROVE Sum(T) = f[x] + Sum(T \ {x})
      OBVIOUS
    <2> DEFINE c == FirstTaken(T)
    <2>1. c \in T
      BY FirstTakenElement
    <2> HIDE DEF c
    <2>2. Sum(T) = f[c] + Sum(T \ {c})
      BY <1>2 DEF c
    <2>3. CASE x = c
      BY <2>2, <2>3
    <2>4. CASE x # c
      <3> DEFINE Rest == T \ {c, x}
      <3>1. T \ {c} \in Good /\ T \ {x} \in Good
        BY <1>3, <2>1
      <3>2. (T \ {c}) \ {x} = Rest /\ (T \ {x}) \ {c} = Rest
        OBVIOUS
      <3>3. x \in T \ {c} /\ c \in T \ {x}
        BY <2>1, <2>4
      <3>4. Sum(T \ {c}) = f[x] + Sum((T \ {c}) \ {x})
        BY <3>1, <3>3
      <3>5. Sum(T \ {x}) = f[c] + Sum((T \ {x}) \ {c})
        BY <3>1, <3>3
      <3>6. Sum(Rest) \in Int /\ f[x] \in Int /\ f[c] \in Int
        BY <1>1, <2>1
      <3> HIDE DEF Rest
      <3>7. Sum(T \ {c}) = f[x] + Sum(Rest)
        BY <3>2, <3>4
      <3>8. Sum(T \ {x}) = f[c] + Sum(Rest)
        BY <3>2, <3>5
      <3> QED
        BY <2>2, <3>6, <3>7, <3>8
    <2> QED
      BY <2>3, <2>4
  <1> HIDE DEF Good
  <1>4. S \in Good
    BY <1>3, SmallerFirst
  <1> QED
    BY <1>4 DEF Good, Sum

\* One element more.
LEMMA SumWith ==
    ASSUME NEW S, IsFiniteSet(S), NEW f, NEW x, x \notin S,
           \A y \in S \cup {x} : f[y] \in Int
    PROVE  SumFunctionOnSet(f, S \cup {x}) = f[x] + SumFunctionOnSet(f, S)
  <1>1. IsFiniteSet(S \cup {x})
    BY FS_AddElement
  <1>2. (S \cup {x}) \ {x} = S
    OBVIOUS
  <1>3. SumFunctionOnSet(f, S \cup {x}) = f[x] + SumFunctionOnSet(f, (S \cup {x}) \ {x})
    BY <1>1, SumWithout
  <1> QED
    BY <1>2, <1>3

\* What finitely many things are mapped to are finitely many.
LEMMA ImageFinite ==
    ASSUME NEW S, IsFiniteSet(S), NEW f
    PROVE  IsFiniteSet({f[x] : x \in S})
  <1> DEFINE Image(T) == {f[x] : x \in T}
             Good == {T \in SUBSET S : IsFiniteSet(Image(T))}
  <1>1. {} \in Good
    <2>1. Image({}) = {}
      OBVIOUS
    <2> HIDE DEF Image
    <2> QED
      BY <2>1, FS_EmptySet
  <1>2. ASSUME NEW T \in SUBSET S, NEW x \in S \ T, T \in Good
        PROVE  T \cup {x} \in Good
    <2>1. Image(T \cup {x}) = Image(T) \cup {f[x]}
      OBVIOUS
    <2>a. IsFiniteSet(Image(T))
      BY <1>2
    <2> HIDE DEF Image
    <2>2. ASSUME NEW U, IsFiniteSet(U), NEW y
          PROVE  IsFiniteSet(U \cup {y})
      BY ONLY <2>2, FS_AddElement, ZenonT(60)
    <2>3. IsFiniteSet(Image(T \cup {x}))
      BY ONLY <2>a, <2>1, <2>2
    <2> QED
      BY <2>3
  <1> HIDE DEF Good
  <1>3. S \in Good
    BY <1>1, <1>2, EverySubset
  <1> QED
    BY <1>3 DEF Good

-----------------------------------------------------------------------------
(* How sums compare.                                                       *)

\* Terms that are no greater add up to no more.
LEMMA SumOrder ==
    ASSUME NEW S, IsFiniteSet(S), NEW f, NEW g,
           \A x \in S : f[x] \in Int /\ g[x] \in Int /\ f[x] <= g[x]
    PROVE  SumFunctionOnSet(f, S) <= SumFunctionOnSet(g, S)
  <1> DEFINE F(T) == SumFunctionOnSet(f, T)
             G(T) == SumFunctionOnSet(g, T)
             Good == {T \in SUBSET S : F(T) <= G(T)}
  <1>1. \A T \in SUBSET S : IsFiniteSet(T) /\ F(T) \in Int /\ G(T) \in Int
    BY FS_Subset, SumType
  <1>2. F({}) = 0 /\ G({}) = 0
    BY SumOnNothing
  <1>3. \A T \in SUBSET S : \A x \in S \ T :
            F(T \cup {x}) = f[x] + F(T) /\ G(T \cup {x}) = g[x] + G(T)
    BY <1>1, SumWith
  <1> HIDE DEF F, G
  <1>4. {} \in Good
    BY <1>2
  <1>5. ASSUME NEW T \in SUBSET S, NEW x \in S \ T, T \in Good
        PROVE  T \cup {x} \in Good
    BY <1>1, <1>3, <1>5
  <1> HIDE DEF Good
  <1>6. S \in Good
    BY <1>4, <1>5, EverySubset
  <1> QED
    BY <1>6 DEF Good, F, G

\* The same terms add up to the same.
LEMMA SumAgrees ==
    ASSUME NEW S, IsFiniteSet(S), NEW f, NEW g,
           \A x \in S : f[x] \in Int /\ g[x] = f[x]
    PROVE  SumFunctionOnSet(g, S) = SumFunctionOnSet(f, S)
  <1>1. SumFunctionOnSet(f, S) <= SumFunctionOnSet(g, S)
    BY SumOrder
  <1>2. SumFunctionOnSet(g, S) <= SumFunctionOnSet(f, S)
    BY SumOrder
  <1>3. SumFunctionOnSet(f, S) \in Int /\ SumFunctionOnSet(g, S) \in Int
    BY SumType
  <1> QED
    BY <1>1, <1>2, <1>3

\* One term changed.
LEMMA SumChanged ==
    ASSUME NEW S, IsFiniteSet(S), NEW f, NEW g, NEW x \in S,
           \A y \in S : f[y] \in Int /\ g[y] \in Int,
           \A y \in S \ {x} : g[y] = f[y]
    PROVE  SumFunctionOnSet(g, S) = SumFunctionOnSet(f, S) - f[x] + g[x]
  <1> DEFINE R == S \ {x}
  <1>1. IsFiniteSet(R)
    BY FS_Subset
  <1>2. SumFunctionOnSet(f, S) = f[x] + SumFunctionOnSet(f, R)
    BY SumWithout
  <1>3. SumFunctionOnSet(g, S) = g[x] + SumFunctionOnSet(g, R)
    BY SumWithout
  <1>4. SumFunctionOnSet(g, R) = SumFunctionOnSet(f, R)
    BY <1>1, SumAgrees
  <1>5. SumFunctionOnSet(f, R) \in Int /\ f[x] \in Int /\ g[x] \in Int
    BY <1>1, SumType
  <1> HIDE DEF R
  <1> QED
    BY <1>2, <1>3, <1>4, <1>5

\* Terms that add up term by term.
LEMMA SumOfSums ==
    ASSUME NEW S, IsFiniteSet(S), NEW f, NEW g, NEW h,
           \A x \in S : f[x] \in Int /\ g[x] \in Int /\ h[x] = f[x] + g[x]
    PROVE  SumFunctionOnSet(h, S) = SumFunctionOnSet(f, S) + SumFunctionOnSet(g, S)
  <1> DEFINE F(T) == SumFunctionOnSet(f, T)
             G(T) == SumFunctionOnSet(g, T)
             H(T) == SumFunctionOnSet(h, T)
             Good == {T \in SUBSET S : H(T) = F(T) + G(T)}
  <1>1. \A T \in SUBSET S : IsFiniteSet(T) /\ F(T) \in Int /\ G(T) \in Int
    BY FS_Subset, SumType
  <1>2. F({}) = 0 /\ G({}) = 0 /\ H({}) = 0
    BY SumOnNothing
  <1>3. \A T \in SUBSET S : \A x \in S \ T :
            /\ F(T \cup {x}) = f[x] + F(T)
            /\ G(T \cup {x}) = g[x] + G(T)
            /\ H(T \cup {x}) = h[x] + H(T)
    <2> SUFFICES ASSUME NEW T \in SUBSET S, NEW x \in S \ T
                 PROVE  /\ F(T \cup {x}) = f[x] + F(T)
                        /\ G(T \cup {x}) = g[x] + G(T)
                        /\ H(T \cup {x}) = h[x] + H(T)
      OBVIOUS
    <2>1. IsFiniteSet(T) /\ x \notin T
      BY <1>1
    <2>2. \A y \in T \cup {x} : f[y] \in Int /\ g[y] \in Int /\ h[y] \in Int
      OBVIOUS
    <2>3. F(T \cup {x}) = f[x] + F(T)
      BY <2>1, <2>2, SumWith
    <2>4. G(T \cup {x}) = g[x] + G(T)
      BY <2>1, <2>2, SumWith
    <2>5. H(T \cup {x}) = h[x] + H(T)
      BY <2>1, <2>2, SumWith
    <2> QED
      BY <2>3, <2>4, <2>5
  <1> HIDE DEF F, G, H
  <1>4. {} \in Good
    BY <1>2
  <1>5. ASSUME NEW T \in SUBSET S, NEW x \in S \ T, T \in Good
        PROVE  T \cup {x} \in Good
    <2>1. /\ F(T) \in Int /\ G(T) \in Int /\ f[x] \in Int /\ g[x] \in Int
          /\ h[x] = f[x] + g[x] /\ H(T) = F(T) + G(T)
      BY <1>1, <1>5
    <2>2. H(T \cup {x}) = F(T \cup {x}) + G(T \cup {x})
      BY <1>3, <2>1
    <2> QED
      BY <2>2
  <1> HIDE DEF Good
  <1>6. S \in Good
    BY <1>4, <1>5, EverySubset
  <1> QED
    BY <1>6 DEF Good, F, G, H

\* The sum over two sets that share no element.
LEMMA SumOfParts ==
    ASSUME NEW S, IsFiniteSet(S), NEW U, IsFiniteSet(U), S \cap U = {}, NEW f,
           \A x \in S \cup U : f[x] \in Int
    PROVE  SumFunctionOnSet(f, S \cup U) = SumFunctionOnSet(f, S) + SumFunctionOnSet(f, U)
  <1> DEFINE F(T) == SumFunctionOnSet(f, T)
             Good == {T \in SUBSET S : F(T \cup U) = F(T) + F(U)}
  <1>1. IsFiniteSet(S \cup U)
    BY FS_Union
  <1>2. \A T \in SUBSET (S \cup U) : IsFiniteSet(T) /\ F(T) \in Int
    BY <1>1, FS_Subset, SumType
  <1>3. F({}) = 0
    BY SumOnNothing
  <1>4. \A T \in SUBSET (S \cup U) : \A x \in (S \cup U) \ T : F(T \cup {x}) = f[x] + F(T)
    BY <1>2, SumWith
  <1> HIDE DEF F
  <1>5. {} \in Good
    BY <1>2, <1>3
  <1>6. ASSUME NEW T \in SUBSET S, NEW x \in S \ T, T \in Good
        PROVE  T \cup {x} \in Good
    <2>1. F(T \cup {x}) = f[x] + F(T)
      BY <1>4
    <2>2. x \in (S \cup U) \ (T \cup U) /\ T \cup U \in SUBSET (S \cup U)
      OBVIOUS
    <2>3. F((T \cup U) \cup {x}) = f[x] + F(T \cup U)
      BY <1>4, <2>2
    <2>4. (T \cup U) \cup {x} = (T \cup {x}) \cup U
      OBVIOUS
    <2>5. F(T) \in Int /\ F(U) \in Int /\ f[x] \in Int /\ F(T \cup U) = F(T) + F(U)
      BY <1>2, <1>6
    <2>6. F((T \cup {x}) \cup U) = f[x] + (F(T) + F(U))
      BY <2>3, <2>4, <2>5
    <2>7. F((T \cup {x}) \cup U) = F(T \cup {x}) + F(U)
      BY <2>1, <2>5, <2>6
    <2> QED
      BY <2>7
  <1> HIDE DEF Good
  <1>7. S \in Good
    BY <1>5, <1>6, EverySubset
  <1> QED
    BY <1>7 DEF Good, F

\* Terms that are all zero.
LEMMA SumOfZeros ==
    ASSUME NEW S, IsFiniteSet(S), NEW f, \A x \in S : f[x] = 0
    PROVE  SumFunctionOnSet(f, S) = 0
  <1> DEFINE Good == {T \in SUBSET S : SumFunctionOnSet(f, T) = 0}
  <1>1. {} \in Good
    BY SumOnNothing
  <1>2. ASSUME NEW T \in SUBSET S, NEW x \in S \ T, T \in Good
        PROVE  T \cup {x} \in Good
    <2>1. IsFiniteSet(T)
      BY FS_Subset
    <2>2. \A y \in T \cup {x} : f[y] \in Int
      OBVIOUS
    <2>3. SumFunctionOnSet(f, T \cup {x}) = f[x] + SumFunctionOnSet(f, T)
      BY <2>1, <2>2, SumWith
    <2> QED
      BY <1>2, <2>3
  <1> HIDE DEF Good
  <1>3. S \in Good
    BY <1>1, <1>2, EverySubset
  <1> QED
    BY <1>3 DEF Good

\* Every term multiplied.
LEMMA SumMultiplied ==
    ASSUME NEW S, IsFiniteSet(S), NEW c \in Int, NEW f, NEW g,
           \A x \in S : f[x] \in Int /\ g[x] = c * f[x]
    PROVE  SumFunctionOnSet(g, S) = c * SumFunctionOnSet(f, S)
  <1> DEFINE Good == {T \in SUBSET S : SumFunctionOnSet(g, T) = c * SumFunctionOnSet(f, T)}
  <1>1. {} \in Good
    BY SumOnNothing
  <1>2. ASSUME NEW T \in SUBSET S, NEW x \in S \ T, T \in Good
        PROVE  T \cup {x} \in Good
    <2>1. IsFiniteSet(T)
      BY FS_Subset
    <2>2. \A y \in T \cup {x} : f[y] \in Int /\ g[y] \in Int
      OBVIOUS
    <2>3. SumFunctionOnSet(f, T \cup {x}) = f[x] + SumFunctionOnSet(f, T)
      BY <2>1, <2>2, SumWith
    <2>4. SumFunctionOnSet(g, T \cup {x}) = g[x] + SumFunctionOnSet(g, T)
      BY <2>1, <2>2, SumWith
    <2>5. SumFunctionOnSet(f, T) \in Int
      BY <2>1, <2>2, SumType
    <2>6. g[x] = c * f[x] /\ f[x] \in Int
      OBVIOUS
    <2>7. c * (f[x] + SumFunctionOnSet(f, T)) = c * f[x] + c * SumFunctionOnSet(f, T)
      BY <2>5, <2>6
    <2> QED
      BY <1>2, <2>3, <2>4, <2>6, <2>7
  <1> HIDE DEF Good
  <1>3. S \in Good
    BY <1>1, <1>2, EverySubset
  <1> QED
    BY <1>3 DEF Good

\* Terms that are zero outside a part of the set.
LEMMA SumOfPart ==
    ASSUME NEW S, IsFiniteSet(S), NEW T \in SUBSET S, NEW f,
           \A x \in S : f[x] \in Int, \A x \in S \ T : f[x] = 0
    PROVE  SumFunctionOnSet(f, S) = SumFunctionOnSet(f, T)
  <1> DEFINE F(U) == SumFunctionOnSet(f, U)
  <1>1. IsFiniteSet(T) /\ IsFiniteSet(S \ T)
    BY FS_Subset
  <1>2. F(T \cup (S \ T)) = F(T) + F(S \ T)
    BY <1>1, SumOfParts
  <1>3. T \cup (S \ T) = S
    OBVIOUS
  <1>4. F(S \ T) = 0
    BY <1>1, SumOfZeros
  <1>5. F(T) \in Int
    BY <1>1, SumType
  <1> HIDE DEF F
  <1>6. F(S) = F(T) + 0
    BY <1>2, <1>3, <1>4
  <1>7. F(S) = F(T)
    BY <1>5, <1>6
  <1> QED
    BY <1>7 DEF F

\* Terms that are no less than zero: so is their sum, and none is greater than it.
LEMMA SumOfNaturals ==
    ASSUME NEW S, IsFiniteSet(S), NEW f, \A x \in S : f[x] \in Nat
    PROVE  /\ SumFunctionOnSet(f, S) \in Nat
           /\ \A x \in S : f[x] <= SumFunctionOnSet(f, S)
  <1> DEFINE F(T) == SumFunctionOnSet(f, T)
             Good == {T \in SUBSET S : F(T) \in Nat}
  <1>1. ASSUME NEW T \in SUBSET S PROVE IsFiniteSet(T) /\ F(T) \in Int
    <2>1. IsFiniteSet(T) /\ \A x \in T : f[x] \in Int
      BY FS_Subset
    <2> QED
      BY <2>1, SumType
  <1>2. F({}) = 0
    BY SumOnNothing
  <1>3. ASSUME NEW T \in SUBSET S, NEW x \in S \ T
        PROVE  F(T \cup {x}) = f[x] + F(T)
    <2>1. \A y \in T \cup {x} : f[y] \in Int
      OBVIOUS
    <2>2. IsFiniteSet(T)
      BY <1>1
    <2> QED
      BY <2>1, <2>2, SumWith
  <1>4. \A T \in SUBSET S : \A x \in T : F(T) = f[x] + F(T \ {x})
    BY <1>1, SumWithout
  <1> HIDE DEF F
  <1>5. {} \in Good
    BY <1>2
  <1>6. ASSUME NEW T \in SUBSET S, NEW x \in S \ T, T \in Good
        PROVE  T \cup {x} \in Good
    BY <1>3, <1>6
  <1>7. ASSUME NEW T \in SUBSET S
        PROVE  T \in Good
    <2> HIDE DEF Good
    <2> QED
      BY <1>1, <1>5, <1>6, EverySubset
  <1>8. ASSUME NEW x \in S
        PROVE  f[x] <= F(S)
    <2>1. F(S \ {x}) \in Nat /\ f[x] \in Nat
      BY <1>7
    <2>2. F(S) = f[x] + F(S \ {x})
      BY <1>4
    <2> QED
      BY <2>1, <2>2
  <1> QED
    BY <1>7, <1>8 DEF F

-----------------------------------------------------------------------------
(* How sums are rewritten.                                                 *)

\* A function with an argument more.
Extends(g, f, x) ==
    /\ x \notin DOMAIN f /\ DOMAIN g = DOMAIN f \cup {x}
    /\ g[x] \in Int
    /\ \A y \in DOMAIN f : f[y] \in Int /\ g[y] = f[y]

LEMMA SumExtended ==
    ASSUME NEW f, NEW g, NEW x, IsFiniteSet(DOMAIN f), Extends(g, f, x)
    PROVE  SumFunction(g) = SumFunction(f) + g[x]
  <1> DEFINE S == DOMAIN f
  <1> USE DEF Extends
  <1>1. \A y \in S \cup {x} : g[y] \in Int
    OBVIOUS
  <1>2. SumFunctionOnSet(g, S \cup {x}) = g[x] + SumFunctionOnSet(g, S)
    BY <1>1, SumWith
  <1>3. SumFunctionOnSet(g, S) = SumFunctionOnSet(f, S)
    BY SumAgrees
  <1>4. SumFunctionOnSet(f, S) \in Int
    BY SumType
  <1>5. SumFunction(g) = g[x] + SumFunctionOnSet(f, S)
    BY <1>2, <1>3 DEF SumFunction
  <1>6. SumFunction(f) = SumFunctionOnSet(f, S)
    BY DEF SumFunction
  <1> QED
    BY <1>4, <1>5, <1>6

\* Every term taken back.
LEMMA SumNegated ==
    ASSUME NEW S, IsFiniteSet(S), NEW f, NEW g,
           \A x \in S : f[x] \in Int /\ g[x] = -f[x]
    PROVE  SumFunctionOnSet(g, S) = -SumFunctionOnSet(f, S)
  <1> DEFINE zero == [x \in S |-> 0]
             F == SumFunctionOnSet(f, S)
             G == SumFunctionOnSet(g, S)
  <1>1. SumFunctionOnSet(zero, S) = 0
    BY SumOfZeros
  <1>2. \A x \in S : f[x] \in Int /\ g[x] \in Int /\ zero[x] = f[x] + g[x]
    OBVIOUS
  <1>3. SumFunctionOnSet(zero, S) = F + G
    BY <1>2, SumOfSums
  <1>4. F \in Int /\ G \in Int
    BY <1>2, SumType
  <1> HIDE DEF F, G, zero
  <1>5. G = -F
    BY <1>1, <1>3, <1>4
  <1> QED
    BY <1>5 DEF F, G

\* The same terms under other names.
LEMMA SumRenamed ==
    ASSUME NEW S, IsFiniteSet(S), NEW f, NEW g, NEW name, DOMAIN name = S,
           \A x, y \in S : name[x] = name[y] => x = y,
           \A x \in S : f[name[x]] \in Int /\ g[x] = f[name[x]]
    PROVE  SumFunctionOnSet(f, {name[x] : x \in S}) = SumFunctionOnSet(g, S)
  <1> DEFINE Names(T) == {name[x] : x \in T}
             Good == {T \in SUBSET S : /\ IsFiniteSet(Names(T))
                                       /\ SumFunctionOnSet(f, Names(T)) = SumFunctionOnSet(g, T)}
  <1>1. {} \in Good
    <2>1. Names({}) = {}
      OBVIOUS
    <2> HIDE DEF Names
    <2> QED
      BY <2>1, SumOnNothing, FS_EmptySet
  <1>2. ASSUME NEW T \in SUBSET S, NEW x \in S \ T, T \in Good
        PROVE  T \cup {x} \in Good
    <2>1. Names(T \cup {x}) = Names(T) \cup {name[x]} /\ name[x] \notin Names(T)
      OBVIOUS
    <2>2. \A n \in Names(T) \cup {name[x]} : f[n] \in Int
      OBVIOUS
    <2>3. IsFiniteSet(T)
      BY FS_Subset
    <2>4. /\ IsFiniteSet(Names(T))
          /\ SumFunctionOnSet(f, Names(T)) = SumFunctionOnSet(g, T)
      BY <1>2
    <2> HIDE DEF Names
    <2>5. SumFunctionOnSet(f, Names(T) \cup {name[x]})
            = f[name[x]] + SumFunctionOnSet(f, Names(T))
      BY <2>1, <2>2, <2>4, SumWith
    <2>6. SumFunctionOnSet(g, T \cup {x}) = g[x] + SumFunctionOnSet(g, T)
      <3>1. \A y \in T \cup {x} : g[y] \in Int
        OBVIOUS
      <3> QED
        BY <2>3, <3>1, SumWith
    <2>7. IsFiniteSet(Names(T) \cup {name[x]})
      BY <2>4, FS_AddElement
    <2>8. SumFunctionOnSet(f, Names(T \cup {x})) = SumFunctionOnSet(g, T \cup {x})
      BY <2>1, <2>4, <2>5, <2>6
    <2> QED
      BY <2>1, <2>7, <2>8
  <1> HIDE DEF Good
  <1>3. S \in Good
    BY <1>1, <1>2, EverySubset
  <1> QED
    BY <1>3 DEF Good

\* What g adds up for a key k of K are the terms f of the x in S that have this key.
Grouped(S, K, key, f, g) ==
    /\ \A x \in S : key[x] \in K /\ f[x] \in Int
    /\ \A k \in K : g[k] = SumFunctionOnSet(f, {x \in S : key[x] = k})

\* The terms that have a key in common are added up first.
LEMMA SumOfGroups ==
    ASSUME NEW S, IsFiniteSet(S), NEW K, IsFiniteSet(K), NEW key, NEW f, NEW g,
           Grouped(S, K, key, f, g)
    PROVE  SumFunctionOnSet(g, K) = SumFunctionOnSet(f, S)
  <1> USE DEF Grouped
  <1> DEFINE Group(k) == {x \in S : key[x] = k}
             Within(T) == {x \in S : key[x] \in T}
             Good == {T \in SUBSET K : SumFunctionOnSet(g, T) = SumFunctionOnSet(f, Within(T))}
  <1>0. ASSUME NEW T
        PROVE  /\ IsFiniteSet(Within(T)) /\ IsFiniteSet(Group(T))
               /\ Within(T) \in SUBSET S /\ Group(T) \in SUBSET S
    <2>1. Within(T) \in SUBSET S /\ Group(T) \in SUBSET S
      OBVIOUS
    <2> HIDE DEF Within, Group
    <2> QED
      BY <2>1, FS_Subset
  <1>a. ASSUME NEW k \in K
        PROVE  g[k] = SumFunctionOnSet(f, Group(k)) /\ g[k] \in Int
    <2>1. g[k] = SumFunctionOnSet(f, Group(k))
      OBVIOUS
    <2> HIDE DEF Group
    <2>2. IsFiniteSet(Group(k)) /\ \A x \in Group(k) : f[x] \in Int
      BY <1>0
    <2> QED
      BY <2>1, <2>2, SumType
  <1>1. {} \in Good
    <2>1. Within({}) = {}
      OBVIOUS
    <2> QED
      BY <2>1, SumOnNothing
  <1>2. ASSUME NEW T \in SUBSET K, NEW k \in K \ T, T \in Good
        PROVE  T \cup {k} \in Good
    <2>1. Within(T \cup {k}) = Group(k) \cup Within(T) /\ Group(k) \cap Within(T) = {}
      OBVIOUS
    <2> HIDE DEF Group, Within
    <2>2. SumFunctionOnSet(f, Group(k) \cup Within(T))
              = SumFunctionOnSet(f, Group(k)) + SumFunctionOnSet(f, Within(T))
      BY <1>0, <2>1, SumOfParts
    <2>3. IsFiniteSet(T) /\ \A m \in T \cup {k} : g[m] \in Int
      BY <1>a, FS_Subset
    <2>4. SumFunctionOnSet(g, T \cup {k}) = g[k] + SumFunctionOnSet(g, T)
      BY <2>3, SumWith
    <2> QED
      BY <1>2, <1>a, <2>1, <2>2, <2>4
  <1> HIDE DEF Good
  <1>3. K \in Good
    BY <1>1, <1>2, EverySubset
  <1>4. Within(K) = S
    OBVIOUS
  <1> QED
    BY <1>3, <1>4 DEF Good

\* Of what is in S, Given is given, with the values v, and each other thing takes back
\* one of them, no two the same one; Left are those nothing takes back.
TakesBack(S, Given, of, v, signed, Left) ==
    /\ Given \in SUBSET S /\ DOMAIN of = S \ Given
    /\ \A n \in S \ Given : of[n] \in Given
    /\ \A m, n \in S \ Given : of[m] = of[n] => m = n
    /\ \A n \in Given : v[n] \in Int /\ signed[n] = v[n]
    /\ \A n \in S \ Given : signed[n] = -v[of[n]]
    /\ Left = {p \in Given : \A n \in S \ Given : of[n] # p}

\* What stands is what was given and not taken back.
LEMMA SumTakenBack ==
    ASSUME NEW S, IsFiniteSet(S), NEW Given, NEW of, NEW v, NEW signed, NEW Left,
           TakesBack(S, Given, of, v, signed, Left)
    PROVE  SumFunctionOnSet(signed, S) = SumFunctionOnSet(v, Left)
  <1> USE DEF TakesBack
  <1> DEFINE Back == S \ Given
             Gone == {of[n] : n \in Back}
             taken == [n \in Back |-> v[of[n]]]
  <1>1. IsFiniteSet(Given) /\ IsFiniteSet(Back)
    BY FS_Subset
  <1>2. Gone \in SUBSET Given /\ Left = Given \ Gone
    OBVIOUS
  <1>3. IsFiniteSet(Gone) /\ IsFiniteSet(Given \ Gone)
    BY <1>1, <1>2, FS_Subset
  <1>4. Given \cup Back = S /\ (Given \ Gone) \cup Gone = Given
    BY <1>2
  <1>5. \A n \in Back : v[of[n]] \in Int /\ taken[n] = v[of[n]]
    OBVIOUS
  <1>6. \A n \in Back : taken[n] \in Int /\ signed[n] = -taken[n] /\ signed[n] \in Int
    BY <1>5
  <1>7. SumFunctionOnSet(v, Gone) = SumFunctionOnSet(taken, Back)
    <2> HIDE DEF taken
    <2> QED
      BY <1>1, <1>5, SumRenamed
  <1> HIDE DEF taken, Gone
  <1>8. SumFunctionOnSet(signed, Back) = -SumFunctionOnSet(taken, Back)
    BY <1>1, <1>6, SumNegated
  <1>9. SumFunctionOnSet(signed, Given \cup Back)
          = SumFunctionOnSet(signed, Given) + SumFunctionOnSet(signed, Back)
    BY <1>1, <1>6, SumOfParts
  <1>10. SumFunctionOnSet(signed, Given) = SumFunctionOnSet(v, Given)
    BY <1>1, SumAgrees
  <1>11. SumFunctionOnSet(v, (Given \ Gone) \cup Gone)
           = SumFunctionOnSet(v, Given \ Gone) + SumFunctionOnSet(v, Gone)
    BY <1>2, <1>3, SumOfParts
  <1> DEFINE A == SumFunctionOnSet(v, Given \ Gone)
             B == SumFunctionOnSet(v, Gone)
  <1>12. A \in Int /\ B \in Int
    BY <1>2, <1>3, SumType
  <1>13. SumFunctionOnSet(signed, S) = SumFunctionOnSet(v, Given) + (-B)
    BY <1>4, <1>7, <1>8, <1>9, <1>10
  <1>14. SumFunctionOnSet(v, Given) = A + B
    BY <1>4, <1>11
  <1> HIDE DEF A, B
  <1>15. SumFunctionOnSet(signed, S) = A
    BY <1>12, <1>13, <1>14
  <1> QED
    BY <1>2, <1>15 DEF A
=============================================================================
