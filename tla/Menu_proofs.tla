----------------------------- MODULE Menu_proofs ------------------------------
(***************************************************************************)
(* Proofs about Menu, for any categories, items, options, stock, ranges    *)
(* and requests under way.                                                 *)
(***************************************************************************)
EXTENDS MenuProps, SumTheorems, TLAPS

USE MenuAssumption

-----------------------------------------------------------------------------
(* Lists in display order.                                                 *)

Ahead(x, y, pos) == pos[x] < pos[y] \/ (pos[x] = pos[y] /\ Rank[x] < Rank[y])
InOrder(list, S, pos) ==
    /\ list \in [1..Cardinality(S) -> S]
    /\ \A j, k \in DOMAIN list : j < k => Ahead(list[j], list[k], pos)

\* What can be put in order: finitely many rows with places and unique ids.
Orderable(S, pos) ==
    /\ IsFiniteSet(S) /\ S \subseteq Listed /\ pos \in [Listed -> Nat]
    /\ \A x, y \in S : Rank[x] = Rank[y] => x = y

LEMMA AheadIsAnOrder ==
    ASSUME NEW S, NEW pos, Orderable(S, pos)
    PROVE  /\ \A x \in S : ~Ahead(x, x, pos)
           /\ \A x, y, z \in S : Ahead(x, y, pos) /\ Ahead(y, z, pos) => Ahead(x, z, pos)
           /\ \A x, y \in S : x # y => Ahead(x, y, pos) \/ Ahead(y, x, pos)
  <1>1. \A x \in S : pos[x] \in Nat /\ Rank[x] \in Nat
    BY DEF Orderable
  <1>2. \A x, y \in S : Rank[x] = Rank[y] => x = y
    BY DEF Orderable
  <1> QED
    BY <1>1, <1>2 DEF Ahead

\* Those before x, and the place that leaves for x.
Earlier(x, S, pos) == {y \in S : Ahead(y, x, pos)}
PlaceOf(x, S, pos) == Cardinality(Earlier(x, S, pos)) + 1

LEMMA Places ==
    ASSUME NEW S, NEW pos, Orderable(S, pos)
    PROVE  /\ Cardinality(S) \in Nat
           /\ \A x \in S : PlaceOf(x, S, pos) \in 1..Cardinality(S)
           /\ \A x, y \in S : Ahead(x, y, pos) => PlaceOf(x, S, pos) < PlaceOf(y, S, pos)
           /\ \A x, y \in S : PlaceOf(x, S, pos) = PlaceOf(y, S, pos) => x = y
  <1>0. IsFiniteSet(S) /\ Cardinality(S) \in Nat
    BY FS_CardinalityType DEF Orderable
  <1>1. ASSUME NEW x \in S
        PROVE  /\ IsFiniteSet(Earlier(x, S, pos)) /\ Earlier(x, S, pos) \in SUBSET (S \ {x})
               /\ Cardinality(Earlier(x, S, pos)) \in Nat
               /\ Cardinality(Earlier(x, S, pos)) <= Cardinality(S) - 1
    <2>1. Earlier(x, S, pos) \in SUBSET (S \ {x})
      BY AheadIsAnOrder DEF Earlier
    <2>2. IsFiniteSet(S \ {x}) /\ Cardinality(S \ {x}) = Cardinality(S) - 1
      BY <1>0, FS_RemoveElement
    <2> QED
      BY <2>1, <2>2, FS_Subset, FS_CardinalityType
  <1>2. \A x \in S : PlaceOf(x, S, pos) \in 1..Cardinality(S)
    BY <1>0, <1>1 DEF PlaceOf
  <1>3. ASSUME NEW x \in S, NEW y \in S, Ahead(x, y, pos)
        PROVE  PlaceOf(x, S, pos) < PlaceOf(y, S, pos)
    <2>1. Earlier(x, S, pos) \in SUBSET (Earlier(y, S, pos) \ {x})
      BY <1>3, AheadIsAnOrder DEF Earlier
    <2>2. x \in Earlier(y, S, pos)
      BY <1>3 DEF Earlier
    <2>3. /\ IsFiniteSet(Earlier(y, S, pos) \ {x})
          /\ Cardinality(Earlier(y, S, pos) \ {x}) = Cardinality(Earlier(y, S, pos)) - 1
      BY <1>1, <2>2, FS_RemoveElement
    <2>4. Cardinality(Earlier(x, S, pos)) <= Cardinality(Earlier(y, S, pos)) - 1
      BY <2>1, <2>3, FS_Subset
    <2>5. Cardinality(Earlier(x, S, pos)) \in Nat /\ Cardinality(Earlier(y, S, pos)) \in Nat
      BY <1>1
    <2> QED
      BY <2>4, <2>5 DEF PlaceOf
  <1>4. ASSUME NEW x \in S, NEW y \in S, PlaceOf(x, S, pos) = PlaceOf(y, S, pos), x # y
        PROVE  FALSE
    <2>1. Ahead(x, y, pos) \/ Ahead(y, x, pos)
      BY <1>4, AheadIsAnOrder
    <2>2. PlaceOf(x, S, pos) \in 1..Cardinality(S)
      BY <1>2
    <2>3. PlaceOf(x, S, pos) < PlaceOf(y, S, pos) \/ PlaceOf(y, S, pos) < PlaceOf(x, S, pos)
      BY <1>3, <2>1
    <2> QED
      BY <1>0, <1>4, <2>2, <2>3
  <1> QED
    BY <1>0, <1>2, <1>3, <1>4

LEMMA InOrderExists ==
    ASSUME NEW S, NEW pos, Orderable(S, pos)
    PROVE  \E list : InOrder(list, S, pos)
  <1> DEFINE n == Cardinality(S)
             place == [x \in S |-> PlaceOf(x, S, pos)]
             list == [k \in 1..n |-> CHOOSE x \in S : place[x] = k]
  <1>1. n \in Nat /\ IsFiniteSet(S) /\ \A x \in S : place[x] = PlaceOf(x, S, pos)
    BY Places DEF Orderable
  <1>2. /\ \A x \in S : place[x] \in 1..n
        /\ \A x, y \in S : Ahead(x, y, pos) => place[x] < place[y]
        /\ \A x, y \in S : place[x] = place[y] => x = y
    BY <1>1, Places
  <1>3. place \in [S -> 1..n]
    BY <1>2
  <1> HIDE DEF place
  <1>4. place \in Surjection(S, 1..n)
    <2>1. place \in Injection(S, 1..n)
      BY <1>2, <1>3 DEF Injection, IsInjective
    <2>2. IsFiniteSet(1..n) /\ Cardinality(1..n) = n
      BY <1>1, FS_Interval
    <2> HIDE DEF n
    <2>3. Cardinality(1..n) = Cardinality(S)
      BY <2>2 DEF n
    <2> QED
      BY <2>1, <2>2, <2>3, FS_Injection
  <1> HIDE DEF n
  <1>5. ASSUME NEW k \in 1..n
        PROVE  list[k] \in S /\ place[list[k]] = k
    <2>1. \E x \in S : place[x] = k
      BY <1>4 DEF Surjection
    <2>2. list[k] = CHOOSE x \in S : place[x] = k
      OBVIOUS
    <2> QED
      BY <2>1, <2>2
  <1>6. DOMAIN list = 1..n
    OBVIOUS
  <1>l. list = [k \in 1..n |-> list[k]]
    OBVIOUS
  <1> HIDE DEF list
  <1>7. ASSUME NEW j \in 1..n, NEW k \in 1..n, j < k
        PROVE  Ahead(list[j], list[k], pos)
    <2>1. /\ list[j] \in S /\ list[k] \in S /\ place[list[j]] = j /\ place[list[k]] = k
      BY <1>5
    <2>2. list[j] # list[k] /\ ~(place[list[k]] < place[list[j]])
      BY <1>1, <1>7, <2>1
    <2> QED
      BY <1>2, <2>1, <2>2, AheadIsAnOrder
  <1>8. list \in [1..n -> S]
    BY <1>5, <1>l
  <1>9. InOrder(list, S, pos)
    BY <1>6, <1>7, <1>8 DEF InOrder, n
  <1> QED
    BY <1>9

\* Every element is listed once, at its place.
LEMMA ListedOnce ==
    ASSUME NEW S, NEW pos, Orderable(S, pos), NEW list, InOrder(list, S, pos)
    PROVE  /\ DOMAIN list = 1..Cardinality(S) /\ Cardinality(S) \in Nat
           /\ \A k \in DOMAIN list : list[k] \in S /\ PlaceOf(list[k], S, pos) = k
           /\ \A j, k \in DOMAIN list : list[j] = list[k] => j = k
           /\ \A x \in S : \E k \in DOMAIN list : list[k] = x
  <1> DEFINE n == Cardinality(S)
  <1>1. n \in Nat /\ IsFiniteSet(S)
    BY Places DEF Orderable
  <1>2. list \in [1..n -> S] /\ \A j, k \in 1..n : j < k => Ahead(list[j], list[k], pos)
    BY DEF InOrder
  <1>n. n = Cardinality(S)
    OBVIOUS
  <1> HIDE DEF n
  <1>3. ASSUME NEW j \in 1..n, NEW k \in 1..n, list[j] = list[k], j # k
        PROVE  FALSE
    <2>1. j < k \/ k < j
      BY <1>1, <1>3
    <2>2. Ahead(list[j], list[k], pos) \/ Ahead(list[k], list[j], pos)
      BY <1>2, <2>1
    <2>3. list[j] \in S
      BY <1>2
    <2> QED
      BY <1>3, <2>2, <2>3, AheadIsAnOrder
  <1>4. list \in Surjection(1..n, S)
    <2>1. list \in Injection(1..n, S)
      BY <1>2, <1>3 DEF Injection, IsInjective
    <2>2. IsFiniteSet(1..n) /\ Cardinality(1..n) = n
      BY <1>1, FS_Interval
    <2>3. Cardinality(1..n) = Cardinality(S)
      BY <2>2, <1>n
    <2> QED
      BY <1>1, <2>1, <2>3, FS_Injection
  <1>5. \A x \in S : \E k \in 1..n : list[k] = x
    BY <1>4 DEF Surjection
  <1>6. ASSUME NEW k \in 1..n
        PROVE  PlaceOf(list[k], S, pos) = k
    <2> DEFINE E == Earlier(list[k], S, pos)
               part == [j \in 1..(k - 1) |-> list[j]]
    <2>1. k \in Nat /\ k - 1 \in Nat /\ \A j \in 1..(k - 1) : j \in 1..n /\ j < k
      BY <1>1
    <2>2. \A j \in 1..(k - 1) : part[j] = list[j] /\ list[j] \in E
      BY <1>2, <2>1 DEF Earlier
    <2>3. ASSUME NEW y \in E
          PROVE  \E j \in 1..(k - 1) : part[j] = y
      <3>1. y \in S /\ Ahead(y, list[k], pos)
        BY DEF Earlier
      <3>2. PICK j \in 1..n : list[j] = y
        BY <1>5, <3>1
      <3>3. ~(k < j) /\ j # k
        <4>1. list[k] \in S
          BY <1>2
        <4>2. k < j => Ahead(list[k], y, pos)
          BY <1>2, <3>2
        <4> QED
          BY <3>1, <3>2, <4>1, <4>2, AheadIsAnOrder
      <3>4. j \in 1..(k - 1)
        BY <1>1, <3>2, <3>3
      <3> QED
        BY <2>2, <3>2, <3>4
    <2>4. part \in [1..(k - 1) -> E]
      BY <2>2
    <2>5. \A i, j \in 1..(k - 1) : part[i] = part[j] => i = j
      BY <1>3, <2>1, <2>2
    <2> HIDE DEF part, E
    <2>6. part \in Bijection(1..(k - 1), E)
      BY <2>3, <2>4, <2>5 DEF Bijection, Injection, IsInjective, Surjection
    <2>7. ExistsBijection(1..(k - 1), E)
      BY <2>6 DEF ExistsBijection
    <2>8. Cardinality(E) = k - 1
      BY <2>1, <2>7, FS_CountingElements
    <2> QED
      BY <2>1, <2>8 DEF PlaceOf, E
  <1> QED
    BY <1>1, <1>2, <1>3, <1>5, <1>6, <1>n, ZenonT(60)

\* There is one way to put them in order.
LEMMA OneOrder ==
    ASSUME NEW S, NEW pos, Orderable(S, pos), NEW l, InOrder(l, S, pos), NEW m, InOrder(m, S, pos)
    PROVE  l = m
  <1>1. DOMAIN l = DOMAIN m /\ DOMAIN l = 1..Cardinality(S)
    BY ListedOnce
  <1>2. ASSUME NEW k \in DOMAIN l
        PROVE  l[k] = m[k]
    <2>1. l[k] \in S /\ m[k] \in S /\ PlaceOf(l[k], S, pos) = k /\ PlaceOf(m[k], S, pos) = k
      BY <1>1, ListedOnce
    <2> QED
      BY <2>1, Places
  <1>3. l \in [1..Cardinality(S) -> S] /\ m \in [1..Cardinality(S) -> S]
    BY DEF InOrder
  <1>4. l = [k \in DOMAIN l |-> l[k]] /\ m = [k \in DOMAIN l |-> m[k]]
    BY ONLY <1>1, <1>3
  <1> QED
    BY ONLY <1>2, <1>4

\* A set has subsets of every size up to its own.
LEMMA SubsetOfSize ==
    ASSUME NEW S, IsFiniteSet(S), NEW k \in Nat, k <= Cardinality(S)
    PROVE  \E T \in SUBSET S : Cardinality(T) = k
  <1> DEFINE Good == {m \in Nat : m <= Cardinality(S) => \E T \in SUBSET S : Cardinality(T) = m}
  <1>1. 0 \in Good
    BY FS_EmptySet
  <1>2. ASSUME NEW m \in Nat, m \in Good
        PROVE  m + 1 \in Good
    <2> SUFFICES ASSUME m + 1 <= Cardinality(S)
                 PROVE  \E T \in SUBSET S : Cardinality(T) = m + 1
      OBVIOUS
    <2>1. Cardinality(S) \in Nat
      BY FS_CardinalityType
    <2>2. PICK T \in SUBSET S : Cardinality(T) = m
      BY <1>2, <2>1
    <2>3. T # S
      BY <2>1, <2>2
    <2>4. PICK x \in S : x \notin T
      BY <2>3
    <2>5. IsFiniteSet(T)
      BY FS_Subset
    <2>6. Cardinality(T \cup {x}) = m + 1
      BY <2>2, <2>4, <2>5, FS_AddElement
    <2>7. T \cup {x} \in SUBSET S
      BY <2>4
    <2> QED
      BY <2>6, <2>7
  <1> HIDE DEF Good
  <1>3. k \in Good
    BY <1>1, <1>2, EveryNumber
  <1> QED
    BY <1>3 DEF Good


-----------------------------------------------------------------------------
(* What is offered and what is accepted.                                   *)

Shapes ==
    /\ status \in [Rows -> {"ABSENT", "LIVE", "DELETED"}]
    /\ item \in [Items -> Form]
    /\ range \in [Groups -> [min : Nat, max : Nat]]
    /\ active \in [Listed -> BOOLEAN]
    /\ ownSoldOut \in [Entities -> BOOLEAN] /\ stockSoldOut \in [Stock -> BOOLEAN]
    /\ link \in [Entities -> Stock \cup {NoStock}]
    /\ position \in [Listed -> Nat]

\* The chosen options of a group.
Of(g, selection) == {c \in selection : GroupOf[c] = g}

LEMMA Chosen ==
    ASSUME Shapes, NEW i, NEW selection \in SUBSET OptionChoices
    PROVE  selection \subseteq UNION {Selectable(g) : g \in LiveGroups(i)}
           <=> \A c \in selection : /\ active[c] /\ status[c] = "LIVE" /\ GroupOf[c] \in LiveGroups(i)
                                    /\ ~SoldOut(c)
  <1>1. ASSUME NEW c \in OptionChoices
        PROVE  c \in UNION {Selectable(g) : g \in LiveGroups(i)}
               <=> /\ active[c] /\ status[c] = "LIVE" /\ GroupOf[c] \in LiveGroups(i)
                   /\ ~SoldOut(c)
    <2>1. \A g : c \in Selectable(g)
             <=> active[c] /\ status[c] = "LIVE" /\ GroupOf[c] = g /\ ~SoldOut(c)
      BY DEF Selectable, LiveChoices, Live
    <2>2. c \in UNION {Selectable(g) : g \in LiveGroups(i)}
          <=> \E g \in LiveGroups(i) : c \in Selectable(g)
      OBVIOUS
    <2> QED
      BY <2>1, <2>2
  <1>2. (selection \subseteq UNION {Selectable(g) : g \in LiveGroups(i)})
        <=> \A c \in selection : c \in UNION {Selectable(g) : g \in LiveGroups(i)}
    OBVIOUS
  <1> QED
    BY <1>1, <1>2

\* How many options of a group are chosen, when only what is offered is.
LEMMA ChosenCount ==
    ASSUME Shapes, NEW g \in Groups, NEW selection \in SUBSET OptionChoices
    PROVE  /\ Cardinality(Of(g, selection)) \in Nat
           /\ IsFiniteSet(Selectable(g)) /\ Cardinality(Selectable(g)) \in Nat
           /\ (\A c \in selection : active[c] /\ status[c] = "LIVE" /\ ~SoldOut(c))
                 => Cardinality(Of(g, selection)) <= Cardinality(Selectable(g))
  <1>1. IsFiniteSet(OptionChoices)
    BY FS_Subset DEF Listed
  <1>2. Selectable(g) \in SUBSET OptionChoices /\ Of(g, selection) \in SUBSET OptionChoices
    BY DEF Selectable, LiveChoices, Live, Of
  <1>3. IsFiniteSet(Selectable(g)) /\ IsFiniteSet(Of(g, selection))
    BY <1>1, <1>2, FS_Subset
  <1>4. Cardinality(Of(g, selection)) \in Nat /\ Cardinality(Selectable(g)) \in Nat
    BY <1>3, FS_CardinalityType
  <1>5. ASSUME \A c \in selection : active[c] /\ status[c] = "LIVE" /\ ~SoldOut(c)
        PROVE  Cardinality(Of(g, selection)) <= Cardinality(Selectable(g))
    <2>1. Of(g, selection) \in SUBSET Selectable(g)
      BY <1>5 DEF Of, Selectable, LiveChoices, Live
    <2> QED
      BY <1>3, <2>1, FS_Subset
  <1> QED
    BY <1>3, <1>4, <1>5

\* The buttons let one choose what checkSelectedCount accepts.
LEMMA CountsAgree ==
    ASSUME Shapes, NEW g \in Groups, NEW n \in Nat, NEW offered \in Nat, n <= offered
    PROVE  (MayToggle(g, n) /\ (Required(g) => offered >= range[g].min /\ n >= range[g].min))
           <=> CountAccepted(g, n)
  <1>1. range[g].min \in Nat /\ range[g].max \in Nat
    BY DEF Shapes
  <1> QED
    BY <1>1 DEF MayToggle, Required, MultiSelect, CountAccepted, NoLimit

LEMMA ChoiceAgrees ==
    ASSUME Shapes, NEW i \in Live(Items), status[item[i].category] = "LIVE", NEW target,
           NEW selection \in SUBSET OptionChoices
    PROVE  CanChoose(target, i, selection) <=> LineAccepted(target, i, selection)
  <1>1. LiveGroups(i) \subseteq Groups /\ status[i] = "LIVE"
    BY DEF LiveGroups, Live
  <1> DEFINE Offered == \A c \in selection :
                 /\ active[c] /\ status[c] = "LIVE" /\ GroupOf[c] \in LiveGroups(i) /\ ~SoldOut(c)
             Fits(g) == MayToggle(g, Cardinality(Of(g, selection)))
                        /\ (Required(g) => /\ Cardinality(Selectable(g)) >= range[g].min
                                           /\ Cardinality(Of(g, selection)) >= range[g].min)
             Counts(g) == CountAccepted(g, Cardinality(Of(g, selection)))
             Sold == active[i] /\ ChannelAllows(i, target) /\ ~SoldOut(i)
  <1>2. CanChoose(target, i, selection)
        <=> Sold /\ Offered /\ \A g \in LiveGroups(i) : Fits(g)
    <2>1. selection \subseteq UNION {Selectable(g) : g \in LiveGroups(i)} <=> Offered
      BY Chosen
    <2>2. OnMenu(target, i) <=> active[i] /\ ChannelAllows(i, target)
      BY <1>1 DEF OnMenu
    <2>3. CanChoose(target, i, selection)
          <=> /\ OnMenu(target, i) /\ ~SoldOut(i)
              /\ selection \subseteq UNION {Selectable(g) : g \in LiveGroups(i)}
              /\ \A g \in LiveGroups(i) : MayToggle(g, Cardinality(Of(g, selection)))
              /\ \A g \in LiveGroups(i) : Required(g) =>
                    /\ Cardinality(Selectable(g)) >= range[g].min
                    /\ Cardinality(Of(g, selection)) >= range[g].min
      BY DEF CanChoose, CanConfirm, Of
    <2> HIDE DEF Offered
    <2> QED
      BY <2>1, <2>2, <2>3
  <1>3. LineAccepted(target, i, selection)
        <=> Sold /\ Offered /\ \A g \in LiveGroups(i) : Counts(g)
    BY <1>1 DEF LineAccepted, OptionsAccepted, Of
  <1>4. ASSUME Offered, NEW g \in LiveGroups(i)
        PROVE  Fits(g) <=> Counts(g)
    <2>1. /\ g \in Groups /\ Cardinality(Of(g, selection)) \in Nat
          /\ Cardinality(Selectable(g)) \in Nat
          /\ Cardinality(Of(g, selection)) <= Cardinality(Selectable(g))
      BY <1>1, <1>4, ChosenCount
    <2> QED
      BY <2>1, CountsAgree
  <1> HIDE DEF Offered, Fits, Counts, Sold
  <1> QED
    BY <1>2, <1>3, <1>4

\* What the options of item i are chosen from.
OptionsOf(i) == {c \in OptionChoices : status[c] # "ABSENT" /\ ItemOf[GroupOf[c]] = i}

LEMMA WarningAgrees ==
    ASSUME Shapes, NEW i \in Live(Items), \A g \in LiveGroups(i) : ValidRange(range[g])
    PROVE  BlockedRequiredGroups(i) = {}
           <=> \E selection \in SUBSET OptionsOf(i) : OptionsAccepted(i, selection)
  <1>1. LiveGroups(i) \subseteq Groups /\ \A g \in LiveGroups(i) : ItemOf[g] = i
    BY DEF LiveGroups, Live
  <1>2. \A g \in LiveGroups(i) : /\ range[g].min \in Nat /\ range[g].max \in Nat
                                 /\ range[g].max # NoLimit => range[g].min <= range[g].max
    BY <1>1 DEF Shapes, ValidRange
  <1>3. BlockedRequiredGroups(i)
        = {g \in LiveGroups(i) : Required(g) /\ Cardinality(Selectable(g)) < range[g].min}
    <2>1. \A g : {c \in Live(OptionChoices) : GroupOf[c] = g /\ active[c] /\ ~SoldOut(c)}
                 = Selectable(g)
      BY DEF Selectable, LiveChoices
    <2> QED
      BY <2>1 DEF BlockedRequiredGroups, LiveGroups
  <1>4. ASSUME NEW selection \in SUBSET OptionsOf(i), OptionsAccepted(i, selection)
        PROVE  BlockedRequiredGroups(i) = {}
    <2>1. selection \in SUBSET OptionChoices
      BY DEF OptionsOf
    <2>2. /\ \A c \in selection : active[c] /\ status[c] = "LIVE" /\ ~SoldOut(c)
          /\ \A g \in LiveGroups(i) : CountAccepted(g, Cardinality(Of(g, selection)))
      BY <1>4 DEF OptionsAccepted, Of
    <2>3. ASSUME NEW g \in LiveGroups(i)
          PROVE  ~(Cardinality(Selectable(g)) < range[g].min)
      <3>1. /\ Cardinality(Of(g, selection)) \in Nat /\ Cardinality(Selectable(g)) \in Nat
            /\ Cardinality(Of(g, selection)) <= Cardinality(Selectable(g))
        BY <1>1, <2>1, <2>2, ChosenCount
      <3>2. Cardinality(Of(g, selection)) >= range[g].min
        BY <2>2 DEF CountAccepted
      <3> QED
        BY <1>2, <3>1, <3>2
    <2> QED
      BY <1>3, <2>3
  <1>5. ASSUME BlockedRequiredGroups(i) = {}
        PROVE  \E selection \in SUBSET OptionsOf(i) : OptionsAccepted(i, selection)
    <2> DEFINE pick == [g \in LiveGroups(i) |->
                           CHOOSE T \in SUBSET Selectable(g) : Cardinality(T) = range[g].min]
               selection == UNION {pick[g] : g \in LiveGroups(i)}
    <2>1. ASSUME NEW g \in LiveGroups(i)
          PROVE  pick[g] \in SUBSET Selectable(g) /\ Cardinality(pick[g]) = range[g].min
      <3>1. IsFiniteSet(Selectable(g)) /\ Cardinality(Selectable(g)) \in Nat
        <4>1. {} \in SUBSET OptionChoices /\ g \in Groups
          BY <1>1
        <4> QED
          BY <4>1, ChosenCount
      <3>2. range[g].min \in Nat /\ range[g].min <= Cardinality(Selectable(g))
        BY <1>2, <1>3, <1>5, <3>1 DEF Required
      <3>3. \E T \in SUBSET Selectable(g) : Cardinality(T) = range[g].min
        BY <3>1, <3>2, SubsetOfSize
      <3> QED
        BY <3>3
    <2> HIDE DEF pick
    <2>2. \A c \in selection : \E g \in LiveGroups(i) : c \in pick[g]
      OBVIOUS
    <2>3. ASSUME NEW g \in LiveGroups(i), NEW c \in pick[g]
          PROVE  /\ c \in OptionChoices /\ GroupOf[c] = g /\ active[c] /\ status[c] = "LIVE"
                 /\ ~SoldOut(c) /\ c \in selection
      BY <2>1 DEF Selectable, LiveChoices, Live
    <2>4. selection \in SUBSET OptionsOf(i)
      BY <1>1, <2>2, <2>3 DEF OptionsOf
    <2>5. ASSUME NEW g \in LiveGroups(i)
          PROVE  CountAccepted(g, Cardinality(Of(g, selection)))
      <3>1. Of(g, selection) = pick[g]
        BY <2>2, <2>3 DEF Of
      <3>2. Cardinality(Of(g, selection)) = range[g].min
        BY <2>1, <3>1
      <3> QED
        BY <1>2, <3>2 DEF CountAccepted
    <2>6. OptionsAccepted(i, selection)
      <3>1. \A c \in selection : /\ active[c] /\ status[c] = "LIVE" /\ GroupOf[c] \in LiveGroups(i)
                                 /\ ~SoldOut(c)
        BY <2>2, <2>3
      <3> HIDE DEF selection
      <3> QED
        BY <2>5, <3>1 DEF OptionsAccepted, Of
    <2> QED
      BY <2>4, <2>6
  <1> QED
    BY <1>4, <1>5

LEMMA ScreensAlike == Shapes => ScreensAgree
  <1> SUFFICES ASSUME Shapes, NEW i \in Live(Items)
               PROVE  /\ status[item[i].category] = "LIVE" =>
                            \A target \in {"TABLE", "FRONT"} : \A selection \in SUBSET OptionsOf(i) :
                               CanChoose(target, i, selection) <=> LineAccepted(target, i, selection)
                      /\ (\A g \in LiveGroups(i) : ValidRange(range[g])) =>
                            (BlockedRequiredGroups(i) = {} <=>
                               \E selection \in SUBSET OptionsOf(i) : OptionsAccepted(i, selection))
    BY DEF ScreensAgree, OptionsOf
  <1>1. SUBSET OptionsOf(i) \subseteq SUBSET OptionChoices
    BY DEF OptionsOf
  <1>2. ASSUME status[item[i].category] = "LIVE", NEW target \in {"TABLE", "FRONT"},
               NEW selection \in SUBSET OptionsOf(i)
        PROVE  CanChoose(target, i, selection) <=> LineAccepted(target, i, selection)
    BY <1>1, <1>2, ChoiceAgrees
  <1>3. ASSUME \A g \in LiveGroups(i) : ValidRange(range[g])
        PROVE  BlockedRequiredGroups(i) = {}
               <=> \E selection \in SUBSET OptionsOf(i) : OptionsAccepted(i, selection)
    BY <1>3, WarningAgrees
  <1> QED
    BY <1>2, <1>3


-----------------------------------------------------------------------------
(* The inductive invariant: besides its shape, what links, homes and the    *)
(* requests under way refer to.                                            *)

KitchenInv == \A i \in Items : item[i].cooking => item[i].kitchen

\* Before it exists nothing is linked; what is on sale is linked to live stock only.
LinksInv ==
    /\ \A e \in Entities : status[e] = "ABSENT" => link[e] = NoStock
    /\ \A e \in Entities : status[e] = "LIVE" /\ link[e] # NoStock => status[link[e]] = "LIVE"

HomesInv ==
    /\ \A x \in Opening : status[x] # "ABSENT"
    /\ \A i \in Items \cap Opening :
          status[i] = "LIVE" => status[item[i].category] = "LIVE"
    /\ \A c \in OptionChoices \cap Opening :
          status[c] = "LIVE" => status[GroupOf[c]] = "LIVE"

Parents == Categories \cup Items \cup Groups
EditForm == [category : Categories, channel : {"TABLE", "FRONT", "BOTH"},
             cooking : BOOLEAN, kitchen : BOOLEAN, shown : BOOLEAN, position : Nat]

\* A list shows rows, each once.
Listing(list) ==
    /\ list \in Seq(Listed)
    /\ \A j, k \in 1..Len(list) : list[j] = list[k] => j = k

\* A request is about a row of its kind, with what that handler or screen has read.
Proper(q) ==
    /\ q.op = "EDIT" => q.on \in Items /\ q.what \in EditForm
    /\ q.op = "CREATE_ITEM" => q.on \in Items /\ q.what \in Categories
    /\ q.op = "CREATE_GROUP" => q.on \in Groups /\ q.what \in Ranges
    /\ q.op = "PATCH_GROUP" => q.on \in Groups /\ q.what \in GroupPatches
    /\ q.op = "ADD_CHOICE" => q.on \in OptionChoices
    /\ q.op = "TOGGLE" => q.what \in Entities \X BOOLEAN
    /\ q.op = "REORDER" => q.on \in Parents /\ Listing(q.what)

RequestsInv == DOMAIN req = Reqs /\ \A r \in Reqs : Proper(req[r])

MenuInv == Shapes /\ KitchenInv /\ LinksInv /\ HomesInv /\ RequestsInv

LEMMA MenuInvTypeOK == MenuInv => TypeOK
  BY DEF MenuInv, Shapes, KitchenInv, LinksInv, HomesInv, TypeOK, Live, Entities

LEMMA InitMenuInv == Init => MenuInv
  <1> SUFFICES ASSUME Init PROVE MenuInv
    OBVIOUS
  <1>1. PICK home \in Opening \cap Categories :
           item = [i \in Items |-> [category |-> home, channel |-> "BOTH",
                                    cooking |-> TRUE, kitchen |-> TRUE]]
    BY DEF Init
  <1>2. item \in [Items -> Form]
    BY <1>1 DEF Form
  <1>3. \A i \in Items : item[i].category = home /\ item[i].kitchen
    BY <1>1
  <1>4. Shapes
    <2>1. /\ status \in [Rows -> {"ABSENT", "LIVE", "DELETED"}]
          /\ active \in [Listed -> BOOLEAN]
      BY DEF Init
    <2>2. range \in [Groups -> [min : Nat, max : Nat]]
      BY DEF Init, SelectRange, NoLimit
    <2>3. /\ ownSoldOut \in [Entities -> BOOLEAN] /\ stockSoldOut \in [Stock -> BOOLEAN]
          /\ link \in [Entities -> Stock \cup {NoStock}]
          /\ position \in [Listed -> Nat]
      BY DEF Init
    <2> QED
      BY <1>2, <2>1, <2>2, <2>3 DEF Shapes
  <1>5. KitchenInv
    BY <1>3 DEF KitchenInv
  <1>6. LinksInv
    BY DEF Init, LinksInv
  <1>7. HomesInv
    <2>1. \A x \in Rows : status[x] = IF x \in Opening THEN "LIVE" ELSE "ABSENT"
      BY DEF Init
    <2>2. home \in Rows /\ status[home] = "LIVE"
      BY <2>1 DEF Rows
    <2>3. \A c \in OptionChoices \cap Opening : status[GroupOf[c]] = "LIVE"
      BY <2>1
    <2> QED
      BY <1>3, <2>1, <2>2, <2>3 DEF HomesInv
  <1>8. RequestsInv
    BY DEF Init, RequestsInv, Proper, Idle
  <1> QED
    BY <1>4, <1>5, <1>6, <1>7, <1>8 DEF MenuInv

-----------------------------------------------------------------------------
(* What every step keeps.                                                  *)

\* Rows come, and go, once; nothing on sale loses its stock, its category or its
\* group by a step.
Moves ==
    /\ status' \in [Rows -> {"ABSENT", "LIVE", "DELETED"}]
    /\ \A x \in Rows : \/ status'[x] = status[x]
                       \/ status[x] = "ABSENT" /\ status'[x] = "LIVE"
                       \/ status[x] = "LIVE" /\ status'[x] = "DELETED"
    /\ \A e \in Entities :
          \/ link'[e] = link[e]
          \/ status[e] = "LIVE" /\ (link'[e] = NoStock \/ status'[link'[e]] = "LIVE")
    /\ \A e \in Entities :
          status'[e] = "LIVE" /\ link'[e] # NoStock /\ status[link'[e]] = "LIVE"
             => status'[link'[e]] = "LIVE"
    /\ \A i \in Items :
          /\ status[i] = "LIVE" /\ status'[i] = "LIVE" /\ status[item[i].category] = "LIVE"
          => status'[item'[i].category] = "LIVE"
    /\ \A c \in OptionChoices :
          /\ status[c] = "LIVE" /\ status'[c] = "LIVE" /\ status[GroupOf[c]] = "LIVE"
          => status'[GroupOf[c]] = "LIVE"

LEMMA MovesKeepHomes ==
    ASSUME LinksInv, HomesInv, Moves
    PROVE  LinksInv' /\ HomesInv'
  <1>0. /\ \A e \in Entities : e \in Rows
        /\ \A x \in Opening : x \in Rows
        /\ \A i \in Items \cap Opening : i \in Rows
    BY DEF Entities, Rows
  <1>1. ASSUME NEW e \in Entities
        PROVE  /\ status'[e] = "ABSENT" => link'[e] = NoStock
               /\ status'[e] = "LIVE" /\ link'[e] # NoStock => status'[link'[e]] = "LIVE"
    BY <1>0 DEF LinksInv, Moves
  <1>2. \A x \in Opening : status'[x] # "ABSENT"
    BY <1>0 DEF HomesInv, Moves
  <1>3. \A i \in Items \cap Opening :
           status'[i] = "LIVE" => status'[item'[i].category] = "LIVE"
    BY <1>0 DEF HomesInv, Moves
  <1>4. \A c \in OptionChoices \cap Opening :
           status'[c] = "LIVE" => status'[GroupOf[c]] = "LIVE"
    BY <1>0 DEF HomesInv, Moves
  <1> QED
    BY <1>1, <1>2, <1>3, <1>4 DEF LinksInv, HomesInv

\* When no row comes or goes, no item moves and nothing is linked or unlinked.
LEMMA StillMoves ==
    ASSUME Shapes, UNCHANGED <<status, item, link>>
    PROVE  Moves
  BY DEF Moves, Shapes

LEMMA ComesMoves ==
    ASSUME Shapes, NEW x \in Rows, Comes(x), link' = link,
           \A i \in Items : status[i] = "LIVE" => item'[i] = item[i]
    PROVE  Moves
  <1>1. status \in [Rows -> {"ABSENT", "LIVE", "DELETED"}]
    BY DEF Shapes
  <1>2. /\ status' = [status EXCEPT ![x] = "LIVE"] /\ status[x] = "ABSENT"
        /\ status' \in [Rows -> {"ABSENT", "LIVE", "DELETED"}]
    BY <1>1 DEF Comes
  <1>3. \A y \in Rows : status'[y] = IF y = x THEN "LIVE" ELSE status[y]
    BY <1>1, <1>2
  <1>4. \A i \in Items : item[i].category \in Rows
    BY DEF Shapes, Form, Rows
  <1>5. \A e \in Entities : link[e] # NoStock => link[e] \in Rows
    BY DEF Shapes, Rows
  <1>6. \A c \in OptionChoices : GroupOf[c] \in Rows
    BY DEF Rows
  <1>7. \A y \in Rows : /\ \/ status'[y] = status[y]
                           \/ status[y] = "ABSENT" /\ status'[y] = "LIVE"
                        /\ status[y] = "LIVE" => status'[y] = "LIVE"
    BY ONLY <1>2, <1>3
  <1> QED
    BY <1>2, <1>4, <1>5, <1>6, <1>7 DEF Moves

\* Rows may go that nothing which stays refers to.
LEMMA GoesMoves ==
    ASSUME Shapes, NEW S \in SUBSET Rows, Goes(S), UNCHANGED <<item, link>>,
           \A x \in S : status[x] = "LIVE",
           \A e \in Entities : status[e] = "LIVE" /\ link[e] # NoStock /\ link[e] \in S => e \in S,
           \A i \in Items : status[i] = "LIVE" /\ item[i].category \in S => i \in S,
           \A c \in OptionChoices : status[c] = "LIVE" /\ GroupOf[c] \in S => c \in S
    PROVE  Moves
  <1>1. status \in [Rows -> {"ABSENT", "LIVE", "DELETED"}]
    BY DEF Shapes
  <1>2. /\ status' \in [Rows -> {"ABSENT", "LIVE", "DELETED"}]
        /\ \A y \in Rows : status'[y] = IF y \in S THEN "DELETED" ELSE status[y]
    BY <1>1 DEF Goes
  <1>3. \A i \in Items : item[i].category \in Rows /\ i \in Rows
    BY DEF Shapes, Form, Rows
  <1>4. \A e \in Entities : e \in Rows /\ (link[e] # NoStock => link[e] \in Rows)
    BY DEF Shapes, Rows, Entities
  <1>5. \A c \in OptionChoices : GroupOf[c] \in Rows /\ c \in Rows
    BY DEF Rows
  <1>6. \A y \in Rows : /\ status'[y] = status[y] \/ (status[y] = "LIVE" /\ status'[y] = "DELETED")
                        /\ status'[y] = "LIVE" => y \notin S
                        /\ status[y] = "LIVE" /\ y \notin S => status'[y] = "LIVE"
    BY <1>2
  <1> QED
    BY <1>2, <1>3, <1>4, <1>5, <1>6 DEF Moves

\* The requests under way, when one begins, ends, or none does.
LEMMA Begins ==
    ASSUME RequestsInv, NEW r \in Reqs, NEW op, NEW on, NEW what, Begin(r, op, on, what),
           Proper([op |-> op, on |-> on, what |-> what])
    PROVE  RequestsInv'
  <1> DEFINE new == [op |-> op, on |-> on, what |-> what]
  <1>1. req' = [req EXCEPT ![r] = new]
    BY DEF Begin
  <1>2. Proper(new)
    OBVIOUS
  <1> HIDE DEF new
  <1>3. DOMAIN req' = Reqs /\ \A q \in Reqs : req'[q] = new \/ req'[q] = req[q]
    BY <1>1 DEF RequestsInv
  <1>4. ASSUME NEW q \in Reqs
        PROVE  Proper(req'[q])
    <2>1. CASE req'[q] = new
      BY ONLY <1>2, <2>1
    <2>2. CASE req'[q] = req[q]
      <3>1. Proper(req[q])
        BY DEF RequestsInv
      <3> QED
        BY ONLY <2>2, <3>1
    <2> QED
      BY <1>3, <2>1, <2>2
  <1> QED
    BY <1>3, <1>4 DEF RequestsInv

LEMMA Ends ==
    ASSUME RequestsInv, NEW r \in Reqs, Done(r)
    PROVE  RequestsInv'
  <1>1. Proper(Idle)
    BY DEF Proper, Idle
  <1>2. DOMAIN req' = Reqs /\ \A q \in Reqs : req'[q] = Idle \/ req'[q] = req[q]
    BY DEF RequestsInv, Done
  <1>3. ASSUME NEW q \in Reqs
        PROVE  Proper(req'[q])
    <2>1. CASE req'[q] = Idle
      BY ONLY <1>1, <2>1
    <2>2. CASE req'[q] = req[q]
      <3>1. Proper(req[q])
        BY DEF RequestsInv
      <3> QED
        BY ONLY <2>2, <3>1
    <2> QED
      BY <1>2, <2>1, <2>2
  <1> QED
    BY <1>2, <1>3 DEF RequestsInv

LEMMA Others ==
    ASSUME RequestsInv, UNCHANGED req
    PROVE  RequestsInv'
  BY DEF RequestsInv

-----------------------------------------------------------------------------
(* The lists that are shown.                                               *)

\* What is shown under p is what is there, in display order.
AsOrdered == \A p \in Parents : /\ Orderable(Children(p), position)
                                /\ InOrder(Shown(p), Children(p), position)

LEMMA ChildrenAlike ==
    ASSUME NEW p \in Parents
    PROVE  \/ Children(p) \subseteq Items
           \/ Children(p) \subseteq Groups
           \/ Children(p) \subseteq OptionChoices
  BY DEF Children, Live

LEMMA ShownAsOrdered == Shapes => AsOrdered
  <1> SUFFICES ASSUME Shapes, NEW p \in Parents
               PROVE  /\ Orderable(Children(p), position)
                      /\ InOrder(Shown(p), Children(p), position)
    BY DEF AsOrdered
  <1>1. Orderable(Children(p), position)
    <2>1. Children(p) \subseteq Listed /\ \A x, y \in Children(p) : Rank[x] = Rank[y] => x = y
      BY ChildrenAlike DEF Listed
    <2>2. IsFiniteSet(Children(p))
      BY <2>1, FS_Subset
    <2> QED
      BY <2>1, <2>2 DEF Orderable, Shapes
  <1>2. PICK list : InOrder(list, Children(p), position)
    BY <1>1, InOrderExists
  <1> DEFINE Sorted(l) == \A j, k \in DOMAIN l : j < k => Before(l[j], l[k])
             lists == [1..Cardinality(Children(p)) -> Children(p)]
  <1>3. list \in lists /\ Sorted(list)
    BY <1>2 DEF InOrder, Ahead, Before
  <1>4. Shown(p) = CHOOSE l \in lists : Sorted(l)
    BY DEF Shown
  <1> HIDE DEF Sorted, lists
  <1>5. Shown(p) \in lists /\ Sorted(Shown(p))
    BY <1>3, <1>4
  <1>6. InOrder(Shown(p), Children(p), position)
    BY <1>5 DEF InOrder, Ahead, Before, Sorted, lists
  <1> QED
    BY <1>1, <1>6

LEMMA ShownIsListing ==
    ASSUME Shapes, NEW p \in Parents
    PROVE  Listing(Shown(p))
  <1>1. Orderable(Children(p), position) /\ InOrder(Shown(p), Children(p), position)
    BY ShownAsOrdered DEF AsOrdered
  <1>2. /\ DOMAIN Shown(p) = 1..Cardinality(Children(p)) /\ Cardinality(Children(p)) \in Nat
        /\ \A k \in DOMAIN Shown(p) : Shown(p)[k] \in Children(p)
        /\ \A j, k \in DOMAIN Shown(p) : Shown(p)[j] = Shown(p)[k] => j = k
    BY <1>1, ListedOnce
  <1>3. Children(p) \subseteq Listed
    BY <1>1 DEF Orderable
  <1>4. Shown(p) \in [1..Cardinality(Children(p)) -> Listed]
    BY <1>1, <1>3 DEF InOrder
  <1>5. Shown(p) \in Seq(Listed) /\ Len(Shown(p)) = Cardinality(Children(p))
    BY <1>2, <1>4
  <1> QED
    BY <1>2, <1>5 DEF Listing

-----------------------------------------------------------------------------
(* Every action keeps the invariant.                                       *)

Kept == Shapes' /\ KitchenInv' /\ RequestsInv' /\ Moves

\* What screens and handlers read changes nothing else.
LEMMA ReadsKeep ==
    ASSUME MenuInv, UNCHANGED <<status, item, range, active, stockVars, position>>, RequestsInv'
    PROVE  Kept
  <1>1. UNCHANGED <<status, item, link>>
    BY DEF stockVars
  <1>2. Moves
    BY <1>1, StillMoves DEF MenuInv
  <1>3. Shapes' /\ KitchenInv'
    BY DEF MenuInv, Shapes, KitchenInv, stockVars
  <1> QED
    BY <1>2, <1>3 DEF Kept

LEMMA ReadingSteps ==
    ASSUME MenuInv, NEW r \in Reqs,
           \/ \E i \in Items : OpenEditor(r, i) \/ \E c \in Categories : CreateItemChecks(r, i, c)
           \/ \E g \in Groups : \/ \E given \in Ranges : CreateGroupChecks(r, g, given)
                                \/ \E patch \in GroupPatches : PatchGroupChecks(r, g, patch)
           \/ \E c \in OptionChoices : AddChoiceChecks(r, c)
           \/ \E p \in Parents : ShowList(r, p)
           \/ \E s \in Stock : ShowStock(r, s)
           \/ Abandon(r)
    PROVE  Kept
  <1> USE DEF MenuInv
  <1>1. ASSUME NEW i \in Items, OpenEditor(r, i)
        PROVE  Kept
    <2> DEFINE form == [category |-> item[i].category, channel |-> item[i].channel,
                        cooking |-> item[i].cooking, kitchen |-> item[i].kitchen,
                        shown |-> active[i], position |-> position[i]]
    <2>1. Begin(r, "EDIT", i, form) /\ UNCHANGED <<status, item, range, active, stockVars, position>>
      BY <1>1 DEF OpenEditor
    <2>2. form \in EditForm
      <3>1. item[i] \in Form /\ active[i] \in BOOLEAN /\ position[i] \in Nat
        BY DEF Shapes, Listed
      <3> QED
        BY <3>1 DEF Form, EditForm
    <2> HIDE DEF form
    <2>3. Proper([op |-> "EDIT", on |-> i, what |-> form])
      BY <2>2 DEF Proper
    <2> QED
      BY <2>1, <2>3, Begins, ReadsKeep
  <1>2. ASSUME NEW i \in Items, NEW c \in Categories, CreateItemChecks(r, i, c)
        PROVE  Kept
    <2>1. Proper([op |-> "CREATE_ITEM", on |-> i, what |-> c])
      BY DEF Proper
    <2>2. Begin(r, "CREATE_ITEM", i, c) /\ UNCHANGED <<status, item, range, active, stockVars, position>>
      BY <1>2 DEF CreateItemChecks
    <2> QED
      BY <2>1, <2>2, Begins, ReadsKeep
  <1>3. ASSUME NEW g \in Groups, NEW given \in Ranges, CreateGroupChecks(r, g, given)
        PROVE  Kept
    <2>1. Proper([op |-> "CREATE_GROUP", on |-> g, what |-> given])
      BY DEF Proper
    <2>2. Begin(r, "CREATE_GROUP", g, given) /\ UNCHANGED <<status, item, range, active, stockVars, position>>
      BY <1>3 DEF CreateGroupChecks
    <2> QED
      BY <2>1, <2>2, Begins, ReadsKeep
  <1>4. ASSUME NEW g \in Groups, NEW patch \in GroupPatches, PatchGroupChecks(r, g, patch)
        PROVE  Kept
    <2>1. Proper([op |-> "PATCH_GROUP", on |-> g, what |-> patch])
      BY DEF Proper
    <2>2. Begin(r, "PATCH_GROUP", g, patch) /\ UNCHANGED <<status, item, range, active, stockVars, position>>
      BY <1>4 DEF PatchGroupChecks
    <2> QED
      BY <2>1, <2>2, Begins, ReadsKeep
  <1>5. ASSUME NEW c \in OptionChoices, AddChoiceChecks(r, c)
        PROVE  Kept
    <2>1. Proper([op |-> "ADD_CHOICE", on |-> c, what |-> << >>])
      BY DEF Proper
    <2>2. Begin(r, "ADD_CHOICE", c, << >>) /\ UNCHANGED <<status, item, range, active, stockVars, position>>
      BY <1>5 DEF AddChoiceChecks
    <2> QED
      BY <2>1, <2>2, Begins, ReadsKeep
  <1>6. ASSUME NEW p \in Parents, ShowList(r, p)
        PROVE  Kept
    <2>1. Proper([op |-> "REORDER", on |-> p, what |-> Shown(p)])
      BY ShownIsListing DEF Proper
    <2>2. Begin(r, "REORDER", p, Shown(p)) /\ UNCHANGED <<status, item, range, active, stockVars, position>>
      BY <1>6 DEF ShowList
    <2> QED
      BY <2>1, <2>2, Begins, ReadsKeep
  <1>7. ASSUME NEW s \in Stock, ShowStock(r, s)
        PROVE  Kept
    <2>1. PICK e \in Users(s) : Begin(r, "TOGGLE", s, <<e, ~stockSoldOut[s]>>)
      BY <1>7 DEF ShowStock
    <2>2. e \in Entities /\ stockSoldOut[s] \in BOOLEAN
      BY DEF Users, Live, Shapes
    <2>3. Proper([op |-> "TOGGLE", on |-> s, what |-> <<e, ~stockSoldOut[s]>>])
      BY <2>2 DEF Proper
    <2>4. UNCHANGED <<status, item, range, active, stockVars, position>>
      BY <1>7 DEF ShowStock
    <2> QED
      BY <2>1, <2>3, <2>4, Begins, ReadsKeep
  <1>8. ASSUME Abandon(r)
        PROVE  Kept
    <2>1. Done(r) /\ UNCHANGED <<status, item, range, active, stockVars, position>>
      BY <1>8 DEF Abandon
    <2> QED
      BY <2>1, Ends, ReadsKeep
  <1> QED
    BY <1>1, <1>2, <1>3, <1>4, <1>5, <1>6, <1>7, <1>8

LEMMA CategorySteps ==
    ASSUME MenuInv, NEW c \in Categories, CreateCategory(c) \/ DeleteCategory(c)
    PROVE  Kept
  <1> USE DEF MenuInv
  <1>1. UNCHANGED <<item, range, active, stockVars, position, req>> /\ c \in Rows
    BY DEF CreateCategory, DeleteCategory, Rows
  <1>2. Moves
    <2>1. CASE CreateCategory(c)
      BY <1>1, <2>1, ComesMoves DEF CreateCategory, stockVars
    <2>2. CASE DeleteCategory(c)
      <3>1. /\ Goes({c}) /\ status[c] = "LIVE"
            /\ \A i \in Items : status[i] = "LIVE" => item[i].category # c
        BY <2>2 DEF DeleteCategory, Live, IsEmpty
      <3>2. \A e \in Entities : link[e] # NoStock => link[e] # c
        BY DEF Shapes
      <3>3. \A o \in OptionChoices : GroupOf[o] # c
        OBVIOUS
      <3> QED
        BY <1>1, <3>1, <3>2, <3>3, GoesMoves DEF stockVars
    <2> QED
      BY <2>1, <2>2
  <1>3. Shapes' /\ KitchenInv'
    BY <1>1, <1>2 DEF Shapes, KitchenInv, stockVars, Moves
  <1> QED
    BY <1>1, <1>2, <1>3, Others DEF Kept

LEMMA CreateItemWritesKeeps ==
    ASSUME MenuInv, NEW r \in Reqs, NEW ch \in {"TABLE", "FRONT", "BOTH"}, CreateItemWrites(r, ch)
    PROVE  Kept
  <1> USE DEF MenuInv
  <1> DEFINE i == req[r].on
             row == [category |-> req[r].what, channel |-> ch, cooking |-> TRUE, kitchen |-> TRUE]
  <1>1. i \in Items /\ req[r].what \in Categories
    BY DEF CreateItemWrites, RequestsInv, Proper
  <1>2. row \in Form /\ row.kitchen
    BY <1>1 DEF Form
  <1>3. /\ Comes(i) /\ Done(r) /\ UNCHANGED <<range, stockVars, position>>
        /\ item' = [item EXCEPT ![i] = row] /\ active' = [active EXCEPT ![i] = TRUE]
    BY DEF CreateItemWrites
  <1> HIDE DEF i, row
  <1>4. /\ item' \in [Items -> Form] /\ active' \in [Listed -> BOOLEAN]
        /\ \A j \in Items : item'[j] = IF j = i THEN row ELSE item[j]
    BY <1>1, <1>2, <1>3 DEF Shapes, Listed
  <1>5. Moves
    <2>1. i \in Rows /\ \A j \in Items : status[j] = "LIVE" => item'[j] = item[j]
      BY <1>1, <1>3, <1>4 DEF Comes, Rows
    <2> QED
      BY <1>3, <2>1, ComesMoves DEF stockVars
  <1>6. Shapes'
    BY <1>3, <1>4, <1>5 DEF Shapes, stockVars, Moves
  <1>7. KitchenInv'
    BY <1>2, <1>4 DEF KitchenInv
  <1> QED
    BY <1>3, <1>5, <1>6, <1>7, Ends DEF Kept

\* A change in the editor leaves a form.
LEMMA EditsAreForms ==
    ASSUME NEW old \in EditForm, NEW form \in Edits(old)
    PROVE  form \in EditForm
  <1>1. \/ \E c \in Categories : form = [old EXCEPT !.category = c]
        \/ \E t \in {"TABLE", "FRONT", "BOTH"} : form = [old EXCEPT !.channel = t]
        \/ \E b \in BOOLEAN : form = [old EXCEPT !.cooking = b, !.kitchen = b \/ old.kitchen]
        \/ \E b \in BOOLEAN : form = [old EXCEPT !.kitchen = b \/ old.cooking]
        \/ form = [old EXCEPT !.shown = ~old.shown]
    BY DEF Edits
  <1>2. CASE \E c \in Categories : form = [old EXCEPT !.category = c]
    BY <1>2 DEF EditForm
  <1>3. CASE \E t \in {"TABLE", "FRONT", "BOTH"} : form = [old EXCEPT !.channel = t]
    BY <1>3 DEF EditForm
  <1>4. CASE \E b \in BOOLEAN : form = [old EXCEPT !.cooking = b, !.kitchen = b \/ old.kitchen]
    BY <1>4, ZenonT(60) DEF EditForm
  <1>5. CASE \E b \in BOOLEAN : form = [old EXCEPT !.kitchen = b \/ old.cooking]
    BY <1>5 DEF EditForm
  <1>6. CASE form = [old EXCEPT !.shown = ~old.shown]
    BY <1>6 DEF EditForm
  <1> QED
    BY <1>1, <1>2, <1>3, <1>4, <1>5, <1>6

LEMMA UpdateMenuItemKeeps ==
    ASSUME MenuInv, NEW r \in Reqs, UpdateMenuItem(r)
    PROVE  Kept
  <1> USE DEF MenuInv
  <1> DEFINE i == req[r].on
             RowOf(form) == [category |-> form.category, channel |-> form.channel,
                             cooking |-> form.cooking, kitchen |-> form.kitchen]
  <1>1. /\ i \in Items /\ req[r].what \in EditForm /\ status[i] = "LIVE"
        /\ Done(r) /\ UNCHANGED <<status, range, stockVars>>
    BY DEF UpdateMenuItem, RequestsInv, Proper, Live
  <1>2. PICK form \in Edits(req[r].what) :
           /\ MayMove(i, form) /\ (form.cooking => form.kitchen)
           /\ item' = [item EXCEPT ![i] = RowOf(form)]
           /\ active' = [active EXCEPT ![i] = form.shown]
           /\ position' = [position EXCEPT ![i] = form.position]
    BY DEF UpdateMenuItem
  <1> DEFINE row == RowOf(form)
  <1>3. form \in EditForm
    BY <1>1, <1>2, EditsAreForms
  <1>4. /\ row \in Form /\ (row.cooking => row.kitchen)
        /\ row.category = item[i].category \/ status[row.category] = "LIVE"
        /\ form.shown \in BOOLEAN /\ form.position \in Nat
    BY <1>2, <1>3 DEF Form, EditForm, MayMove
  <1>5. item' = [item EXCEPT ![i] = row]
    BY <1>2
  <1> HIDE DEF i, row, RowOf
  <1>6. /\ item' \in [Items -> Form] /\ active' \in [Listed -> BOOLEAN]
        /\ position' \in [Listed -> Nat]
        /\ \A j \in Items : item'[j] = IF j = i THEN row ELSE item[j]
    BY <1>1, <1>2, <1>4, <1>5 DEF Shapes, Listed
  <1>7. Moves
    <2>1. \A j \in Items : item'[j].category = item[j].category
                           \/ status[item'[j].category] = "LIVE"
      BY <1>4, <1>6
    <2>2. status \in [Rows -> {"ABSENT", "LIVE", "DELETED"}]
      BY DEF Shapes
    <2> QED
      BY <1>1, <2>1, <2>2 DEF Moves, stockVars
  <1>8. Shapes'
    BY <1>1, <1>6 DEF Shapes, stockVars
  <1>9. KitchenInv'
    BY <1>4, <1>6 DEF KitchenInv
  <1> QED
    BY <1>1, <1>7, <1>8, <1>9, Ends DEF Kept

LEMMA ItemSteps ==
    ASSUME MenuInv, NEW i \in Items, DeleteMenuItem(i) \/ \E b \in BOOLEAN : PatchSoldOut(i, b)
    PROVE  Kept
  <1> USE DEF MenuInv
  <1>1. CASE DeleteMenuItem(i)
    <2>1. /\ status[i] = "LIVE" /\ Goes({i}) /\ active' = [active EXCEPT ![i] = FALSE]
          /\ UNCHANGED <<item, range, stockVars, position, req>>
      BY <1>1 DEF DeleteMenuItem, Live
    <2>2. /\ \A e \in Entities : link[e] # NoStock => link[e] # i
          /\ \A j \in Items : item[j].category # i
          /\ \A o \in OptionChoices : GroupOf[o] # i
          /\ i \in Rows /\ i \in Listed
      <3>1. \A e \in Entities : link[e] \in Stock \cup {NoStock}
        BY DEF Shapes
      <3>2. \A j \in Items : item[j].category \in Categories
        BY DEF Shapes, Form
      <3> QED
        BY <3>1, <3>2 DEF Rows, Listed
    <2>3. Moves
      BY <2>1, <2>2, GoesMoves DEF stockVars
    <2>4. Shapes' /\ KitchenInv'
      BY <2>1, <2>2, <2>3 DEF Shapes, KitchenInv, stockVars, Moves
    <2> QED
      BY <2>1, <2>3, <2>4, Others DEF Kept
  <1>2. CASE \E b \in BOOLEAN : PatchSoldOut(i, b)
    <2>1. PICK b \in BOOLEAN : PatchSoldOut(i, b)
      BY <1>2
    <2>2. /\ ownSoldOut' = [ownSoldOut EXCEPT ![i] = b]
          /\ UNCHANGED <<status, item, range, active, link, stockSoldOut, position, req>>
      BY <2>1 DEF PatchSoldOut
    <2>3. ownSoldOut' \in [Entities -> BOOLEAN]
      BY <2>2 DEF Shapes
    <2>4. Shapes' /\ KitchenInv'
      BY <2>2, <2>3 DEF Shapes, KitchenInv
    <2> QED
      BY <2>2, <2>4, StillMoves, Others DEF Kept
  <1> QED
    BY <1>1, <1>2

LEMMA CreateGroupWritesKeeps ==
    ASSUME MenuInv, NEW r \in Reqs, CreateGroupWrites(r)
    PROVE  Kept
  <1> USE DEF MenuInv
  <1> DEFINE g == req[r].on
             given == req[r].what
  <1>1. g \in Groups /\ given \in [min : Nat, max : Nat]
    BY DEF CreateGroupWrites, RequestsInv, Proper
  <1>2. /\ Comes(g) /\ Done(r) /\ UNCHANGED <<item, stockVars, position>>
        /\ range' = [range EXCEPT ![g] = given] /\ active' = [active EXCEPT ![g] = TRUE]
    BY DEF CreateGroupWrites
  <1> HIDE DEF g, given
  <1>3. range' \in [Groups -> [min : Nat, max : Nat]] /\ active' \in [Listed -> BOOLEAN]
    BY <1>1, <1>2 DEF Shapes, Listed
  <1>4. Moves
    BY <1>1, <1>2, ComesMoves DEF stockVars, Rows
  <1>5. Shapes' /\ KitchenInv'
    BY <1>2, <1>3, <1>4 DEF Shapes, KitchenInv, stockVars, Moves
  <1> QED
    BY <1>2, <1>4, <1>5, Ends DEF Kept

\* A patch leaves a range and a flag.
LEMMA PatchedRow ==
    ASSUME Shapes, NEW g \in Groups, NEW patch \in GroupPatches
    PROVE  /\ Patched(g, patch).min \in Nat /\ Patched(g, patch).max \in Nat
           /\ Patched(g, patch).active \in BOOLEAN
  <1> DEFINE row == [min |-> range[g].min, max |-> range[g].max, active |-> active[g]]
  <1>1. range[g].min \in Nat /\ range[g].max \in Nat /\ active[g] \in BOOLEAN
    BY DEF Shapes, Listed
  <1>2. /\ DOMAIN row = {"min", "max", "active"}
        /\ row["min"] \in Nat /\ row["max"] \in Nat /\ row["active"] \in BOOLEAN
    BY <1>1
  <1>3. Patched(g, patch) = [f \in DOMAIN row |-> IF f \in DOMAIN patch THEN patch[f] ELSE row[f]]
    BY DEF Patched
  <1>4. /\ "min" \in DOMAIN patch => patch["min"] \in Nat
        /\ "max" \in DOMAIN patch => patch["max"] \in Nat
        /\ "active" \in DOMAIN patch => patch["active"] \in BOOLEAN
    <2>1. \A q \in Ranges : q.min \in Nat /\ q.max \in Nat /\ DOMAIN q = {"min", "max"}
      OBVIOUS
    <2>2. CASE \E q \in Ranges : patch = [min |-> q.min]
      BY <2>1, <2>2
    <2>3. CASE \E q \in Ranges : patch = [max |-> q.max]
      BY <2>1, <2>3
    <2>4. CASE patch \in Ranges
      BY <2>1, <2>4
    <2>5. CASE \E b \in BOOLEAN : patch = [active |-> b]
      BY <2>5
    <2> QED
      BY <2>2, <2>3, <2>4, <2>5 DEF GroupPatches
  <1> HIDE DEF row
  <1> QED
    BY <1>2, <1>3, <1>4

LEMMA PatchGroupWritesKeeps ==
    ASSUME MenuInv, NEW r \in Reqs, PatchGroupWrites(r)
    PROVE  Kept
  <1> USE DEF MenuInv
  <1> DEFINE g == req[r].on
             after == Patched(g, req[r].what)
  <1>1. g \in Groups /\ req[r].what \in GroupPatches
    BY DEF PatchGroupWrites, RequestsInv, Proper
  <1>2. /\ Done(r) /\ UNCHANGED <<status, item, stockVars, position>>
        /\ range' = [range EXCEPT ![g] = SelectRange(after.min, after.max)]
        /\ active' = [active EXCEPT ![g] = after.active]
    BY DEF PatchGroupWrites
  <1>3. after.min \in Nat /\ after.max \in Nat /\ after.active \in BOOLEAN
    BY <1>1, PatchedRow
  <1> HIDE DEF g, after
  <1>4. SelectRange(after.min, after.max) \in [min : Nat, max : Nat]
    BY <1>3 DEF SelectRange
  <1>5. range' \in [Groups -> [min : Nat, max : Nat]] /\ active' \in [Listed -> BOOLEAN]
    BY <1>1, <1>2, <1>3, <1>4 DEF Shapes, Listed
  <1>6. Moves
    BY <1>2, StillMoves DEF stockVars
  <1>7. Shapes' /\ KitchenInv'
    BY <1>2, <1>5 DEF Shapes, KitchenInv, stockVars
  <1> QED
    BY <1>2, <1>6, <1>7, Ends DEF Kept

LEMMA DeleteOptionGroupKeeps ==
    ASSUME MenuInv, NEW g \in Groups, DeleteOptionGroup(g)
    PROVE  Kept
  <1> USE DEF MenuInv
  <1> DEFINE S == {g} \cup {c \in Live(OptionChoices) : GroupOf[c] = g}
  <1>1. /\ status[g] = "LIVE" /\ Goes(S) /\ active' = [active EXCEPT ![g] = FALSE]
        /\ UNCHANGED <<item, range, stockVars, position, req>>
    BY DEF DeleteOptionGroup, Live
  <1>2. /\ S \in SUBSET (Groups \cup OptionChoices)
        /\ \A x \in S : status[x] = "LIVE"
        /\ \A c \in OptionChoices : status[c] = "LIVE" /\ GroupOf[c] \in S => c \in S
    BY <1>1 DEF Live
  <1> HIDE DEF S
  <1>3. /\ \A e \in Entities : link[e] # NoStock => link[e] \notin S
        /\ \A j \in Items : item[j].category \notin S
        /\ S \in SUBSET Rows
    BY <1>2 DEF Shapes, Form, Rows, Listed
  <1>4. Moves
    BY <1>1, <1>2, <1>3, GoesMoves DEF stockVars
  <1>5. active' \in [Listed -> BOOLEAN]
    BY <1>1 DEF Shapes, Listed
  <1>6. Shapes' /\ KitchenInv'
    BY <1>1, <1>4, <1>5 DEF Shapes, KitchenInv, stockVars, Moves
  <1> QED
    BY <1>1, <1>4, <1>6, Others DEF Kept

LEMMA ChoiceSteps ==
    ASSUME MenuInv, NEW c \in OptionChoices,
           DeleteOptionChoice(c) \/ \E b \in BOOLEAN : UpdateOptionChoice(c, b)
    PROVE  Kept
  <1> USE DEF MenuInv
  <1>1. CASE DeleteOptionChoice(c)
    <2>1. /\ status[c] = "LIVE" /\ Goes({c}) /\ active' = [active EXCEPT ![c] = FALSE]
          /\ UNCHANGED <<item, range, stockVars, position, req>>
      BY <1>1 DEF DeleteOptionChoice, Live
    <2>2. /\ \A e \in Entities : link[e] # NoStock => link[e] # c
          /\ \A j \in Items : item[j].category # c
          /\ \A o \in OptionChoices : GroupOf[o] # c
          /\ c \in Rows
      BY DEF Shapes, Form, Rows, Listed
    <2>3. Moves
      BY <2>1, <2>2, GoesMoves DEF stockVars
    <2>4. active' \in [Listed -> BOOLEAN]
      BY <2>1 DEF Shapes, Listed
    <2>5. Shapes' /\ KitchenInv'
      BY <2>1, <2>3, <2>4 DEF Shapes, KitchenInv, stockVars, Moves
    <2> QED
      BY <2>1, <2>3, <2>5, Others DEF Kept
  <1>2. CASE \E b \in BOOLEAN : UpdateOptionChoice(c, b)
    <2>1. PICK b \in BOOLEAN : UpdateOptionChoice(c, b)
      BY <1>2
    <2>2. /\ active' = [active EXCEPT ![c] = b]
          /\ UNCHANGED <<status, item, range, stockVars, position, req>>
      BY <2>1 DEF UpdateOptionChoice
    <2>3. active' \in [Listed -> BOOLEAN]
      BY <2>2 DEF Shapes, Listed
    <2>4. Shapes' /\ KitchenInv'
      BY <2>2, <2>3 DEF Shapes, KitchenInv, stockVars
    <2>5. Moves
      BY <2>2, StillMoves DEF stockVars
    <2> QED
      BY <2>2, <2>4, <2>5, Others DEF Kept
  <1> QED
    BY <1>1, <1>2

LEMMA AddChoiceWritesKeeps ==
    ASSUME MenuInv, NEW r \in Reqs, AddChoiceWrites(r)
    PROVE  Kept
  <1> USE DEF MenuInv
  <1> DEFINE c == req[r].on
  <1>1. c \in OptionChoices
    BY DEF AddChoiceWrites, RequestsInv, Proper
  <1>2. /\ Comes(c) /\ Done(r) /\ UNCHANGED <<item, range, stockVars, position>>
        /\ active' = [active EXCEPT ![c] = TRUE]
    BY DEF AddChoiceWrites
  <1> HIDE DEF c
  <1>3. active' \in [Listed -> BOOLEAN]
    BY <1>1, <1>2 DEF Shapes, Listed
  <1>4. Moves
    BY <1>1, <1>2, ComesMoves DEF stockVars, Rows
  <1>5. Shapes' /\ KitchenInv'
    BY <1>2, <1>3, <1>4 DEF Shapes, KitchenInv, stockVars, Moves
  <1> QED
    BY <1>2, <1>4, <1>5, Ends DEF Kept

LEMMA StockSteps ==
    ASSUME MenuInv, NEW s \in Stock, CreateInventoryItem(s) \/ DeleteInventoryItem(s)
    PROVE  Kept
  <1> USE DEF MenuInv
  <1>1. UNCHANGED <<item, range, active, stockVars, position, req>> /\ s \in Rows
    BY DEF CreateInventoryItem, DeleteInventoryItem, Rows
  <1>2. Moves
    <2>1. CASE CreateInventoryItem(s)
      BY <1>1, <2>1, ComesMoves DEF CreateInventoryItem, stockVars
    <2>2. CASE DeleteInventoryItem(s)
      <3>1. /\ Goes({s}) /\ status[s] = "LIVE"
            /\ \A e \in Entities : status[e] = "LIVE" => link[e] # s
        BY <2>2 DEF DeleteInventoryItem, Live, Users
      <3>2. /\ \A j \in Items : item[j].category # s
            /\ \A o \in OptionChoices : GroupOf[o] # s
        BY DEF Shapes, Form, Listed
      <3> QED
        BY <1>1, <3>1, <3>2, GoesMoves DEF stockVars
    <2> QED
      BY <2>1, <2>2
  <1>3. Shapes' /\ KitchenInv'
    BY <1>1, <1>2 DEF Shapes, KitchenInv, stockVars, Moves
  <1> QED
    BY <1>1, <1>2, <1>3, Others DEF Kept

LEMMA LinkSteps ==
    ASSUME MenuInv, NEW e \in Entities,
           RemoveInventoryLink(e) \/ \E s \in Stock : SetInventoryLink(e, s)
    PROVE  Kept
  <1> USE DEF MenuInv
  <1>1. /\ status[e] = "LIVE" /\ UNCHANGED <<status, item, range, active, stockSoldOut, position, req>>
        /\ \E t : /\ link' = [link EXCEPT ![e] = t]
                  /\ t = NoStock \/ (t \in Stock /\ status[t] = "LIVE")
    BY DEF RemoveInventoryLink, SetInventoryLink, Live
  <1>2. PICK t : /\ link' = [link EXCEPT ![e] = t]
                 /\ t = NoStock \/ (t \in Stock /\ status[t] = "LIVE")
    BY <1>1
  <1>3. /\ link' \in [Entities -> Stock \cup {NoStock}]
        /\ \A f \in Entities : link'[f] = IF f = e THEN t ELSE link[f]
    BY <1>2 DEF Shapes
  <1>4. ownSoldOut' \in [Entities -> BOOLEAN]
    <2>1. CASE RemoveInventoryLink(e)
      <3>1. ownSoldOut' = [ownSoldOut EXCEPT ![e] = Inherited(e)]
        BY <2>1 DEF RemoveInventoryLink
      <3>2. SoldOut(e) \in BOOLEAN
        BY DEF SoldOut, Linked, Shapes
      <3> QED
        BY <3>1, <3>2 DEF Shapes, Inherited
    <2>2. CASE \E s \in Stock : SetInventoryLink(e, s)
      BY <2>2 DEF SetInventoryLink, Shapes
    <2> QED
      BY <2>1, <2>2
  <1>5. Moves
    <2>1. status \in [Rows -> {"ABSENT", "LIVE", "DELETED"}]
      BY DEF Shapes
    <2> QED
      BY <1>1, <1>2, <1>3, <2>1 DEF Moves
  <1>6. Shapes' /\ KitchenInv'
    BY <1>1, <1>3, <1>4 DEF Shapes, KitchenInv
  <1> QED
    BY <1>1, <1>5, <1>6, Others DEF Kept

\* What ApplySoldOut leaves is of its shape.
LEMMA SoldOutShapes ==
    ASSUME Shapes, NEW targets, NEW soldOut \in BOOLEAN, ApplySoldOut(targets, soldOut)
    PROVE  ownSoldOut' \in [Entities -> BOOLEAN] /\ stockSoldOut' \in [Stock -> BOOLEAN]
  BY DEF ApplySoldOut, Shapes

LEMMA SoldOutKeeps ==
    ASSUME MenuInv, NEW targets, NEW soldOut \in BOOLEAN, ApplySoldOut(targets, soldOut),
           UNCHANGED <<status, item, range, active, link, position>>, RequestsInv'
    PROVE  Kept
  <1> USE DEF MenuInv
  <1>1. ownSoldOut' \in [Entities -> BOOLEAN] /\ stockSoldOut' \in [Stock -> BOOLEAN]
    BY SoldOutShapes
  <1>2. Shapes' /\ KitchenInv'
    BY <1>1 DEF Shapes, KitchenInv
  <1>3. Moves
    BY StillMoves
  <1> QED
    BY <1>2, <1>3 DEF Kept

LEMMA SoldOutSteps ==
    ASSUME MenuInv,
           \/ \E targets, b : b \in BOOLEAN /\ SetSoldOut(targets, b)
           \/ \E r \in Reqs : ConfirmToggle(r)
    PROVE  Kept
  <1> USE DEF MenuInv
  <1>1. ASSUME NEW targets, NEW b \in BOOLEAN, SetSoldOut(targets, b)
        PROVE  Kept
    BY <1>1, Others, SoldOutKeeps DEF SetSoldOut
  <1>2. ASSUME NEW r \in Reqs, ConfirmToggle(r)
        PROVE  Kept
    <2>1. req[r].what[2] \in BOOLEAN
      BY <1>2 DEF ConfirmToggle, RequestsInv, Proper
    <2>2. /\ ApplySoldOut({req[r].what[1]}, req[r].what[2]) /\ Done(r)
          /\ UNCHANGED <<status, item, range, active, link, position>>
      BY <1>2 DEF ConfirmToggle
    <2>3. RequestsInv'
      BY <2>2, Ends
    <2> QED
      BY <2>1, <2>2, <2>3, SoldOutKeeps
  <1> QED
    BY <1>1, <1>2

\* Moving an entry up or down: the same rows, each once.
LEMMA MovedIsListing ==
    ASSUME NEW list, Listing(list), NEW m \in Moved(list)
    PROVE  /\ Listing(m) /\ Len(m) = Len(list) /\ Range(m) = Range(list)
  <1>1. /\ list \in Seq(Listed) /\ Len(list) \in Nat /\ DOMAIN list = 1..Len(list)
        /\ \A j \in 1..Len(list) : list[j] \in Listed
        /\ \A j, k \in 1..Len(list) : list[j] = list[k] => j = k
    <2>1. list \in Seq(Listed) /\ \A j, k \in 1..Len(list) : list[j] = list[k] => j = k
      BY DEF Listing
    <2>2. Len(list) \in Nat /\ DOMAIN list = 1..Len(list)
      BY <2>1
    <2>3. \A j \in 1..Len(list) : list[j] \in Listed
      BY ONLY <2>1
    <2> QED
      BY ONLY <2>1, <2>2, <2>3
  <1>2. PICK i \in 1..(Len(list) - 1) :
           m = [list EXCEPT ![i] = list[i + 1], ![i + 1] = list[i]]
    BY DEF Moved
  <1> DEFINE n == Len(list)
             at(k) == IF k = i THEN i + 1 ELSE IF k = i + 1 THEN i ELSE k
  <1>3. i \in 1..n /\ i + 1 \in 1..n
    BY <1>1, <1>2
  <1>4. \A k \in 1..n : at(k) \in 1..n /\ at(at(k)) = k
    BY <1>3
  <1>5. DOMAIN m = 1..n /\ \A k \in 1..n : m[k] = list[at(k)]
    BY <1>1, <1>2, <1>3
  <1>6. m = [k \in 1..n |-> m[k]]
    BY <1>1, <1>2
  <1> HIDE DEF n, at
  <1>7. \A k \in 1..n : m[k] \in Listed
    BY <1>1, <1>4, <1>5 DEF n
  <1>8. m \in Seq(Listed) /\ Len(m) = n
    <2>1. m \in [1..n -> Listed] /\ n \in Nat
      BY <1>1, <1>6, <1>7 DEF n
    <2> QED
      BY <1>5, <2>1
  <1>9. \A j, k \in 1..n : m[j] = m[k] => j = k
    <2>1. \A j, k \in 1..n : at(j) = at(k) => j = k
      BY <1>4
    <2> QED
      BY <1>1, <1>4, <1>5, <2>1 DEF n
  <1>10. Range(m) = Range(list)
    BY <1>1, <1>4, <1>5 DEF Range, n
  <1> QED
    BY <1>8, <1>9, <1>10 DEF Listing, n

\* Each row of the list gets the place it has there, less one.
LEMMA PlacesGiven ==
    ASSUME Shapes, NEW list, Listing(list),
           position' = [x \in DOMAIN position |-> IF \E k \in DOMAIN list : list[k] = x
                                                 THEN (CHOOSE k \in DOMAIN list : list[k] = x) - 1
                                                 ELSE position[x]]
    PROVE  /\ position' \in [Listed -> Nat]
           /\ \A k \in 1..Len(list) : position'[list[k]] = k - 1
           /\ \A x \in Listed : x \notin Range(list) => position'[x] = position[x]
  <1>1. /\ Len(list) \in Nat /\ DOMAIN list = 1..Len(list)
        /\ \A j \in 1..Len(list) : list[j] \in Listed
        /\ \A j, k \in 1..Len(list) : list[j] = list[k] => j = k
    BY DEF Listing
  <1>2. position \in [Listed -> Nat] /\ DOMAIN position = Listed
    BY DEF Shapes
  <1> DEFINE n == Len(list)
             spot(x) == CHOOSE k \in 1..n : list[k] = x
             put(x) == IF \E k \in 1..n : list[k] = x THEN spot(x) - 1 ELSE position[x]
  <1>3. position' = [x \in Listed |-> put(x)]
    BY <1>1, <1>2
  <1>4. \A x : (\E k \in 1..n : list[k] = x) => spot(x) \in 1..n /\ list[spot(x)] = x
    OBVIOUS
  <1> HIDE DEF n, spot
  <1>5. \A x \in Listed : put(x) \in Nat
    BY <1>1, <1>2, <1>4 DEF n
  <1>6. \A k \in 1..n : put(list[k]) = k - 1
    <2>1. \A k \in 1..n : spot(list[k]) = k
      BY <1>1, <1>4 DEF n
    <2> QED
      BY <2>1
  <1>7. \A x \in Listed : x \notin Range(list) => put(x) = position[x]
    BY <1>1 DEF Range, n
  <1> HIDE DEF put
  <1>8. \A x \in Listed : position'[x] = put(x)
    BY <1>3
  <1>9. position' \in [Listed -> Nat]
    BY <1>3, <1>5
  <1> QED
    BY <1>1, <1>6, <1>7, <1>8, <1>9 DEF n

LEMMA ApplyOrderKeeps ==
    ASSUME MenuInv, NEW r \in Reqs, ApplyOrder(r)
    PROVE  Kept
  <1> USE DEF MenuInv
  <1>1. Listing(req[r].what)
    BY DEF ApplyOrder, RequestsInv, Proper
  <1>2. /\ Done(r) /\ UNCHANGED <<status, item, range, active, stockVars>>
        /\ \E list \in Moved(req[r].what) :
              position' = [x \in DOMAIN position |-> IF \E k \in DOMAIN list : list[k] = x
                                                    THEN (CHOOSE k \in DOMAIN list : list[k] = x) - 1
                                                    ELSE position[x]]
    BY DEF ApplyOrder
  <1>3. position' \in [Listed -> Nat]
    BY <1>1, <1>2, MovedIsListing, PlacesGiven
  <1>4. Shapes' /\ KitchenInv'
    BY <1>2, <1>3 DEF Shapes, KitchenInv, stockVars
  <1>5. Moves
    BY <1>2, StillMoves DEF stockVars
  <1> QED
    BY <1>2, <1>4, <1>5, Ends DEF Kept

LEMMA StepKeeps ==
    ASSUME MenuInv, [Next]_vars
    PROVE  Kept
  <1>1. CASE UNCHANGED vars
    <2>1. UNCHANGED <<status, item, range, active, stockVars, position>> /\ UNCHANGED req
      BY <1>1 DEF vars, stockVars
    <2> QED
      BY <2>1, ReadsKeep, Others DEF MenuInv
  <1>2. CASE \E c \in Categories : CreateCategory(c) \/ DeleteCategory(c)
    BY <1>2, CategorySteps
  <1>3. CASE \E i \in Items : DeleteMenuItem(i) \/ \E b \in BOOLEAN : PatchSoldOut(i, b)
    BY <1>3, ItemSteps
  <1>4. CASE OptionGroupRequests
    <2>1. CASE \E g \in Groups : DeleteOptionGroup(g)
      BY <2>1, DeleteOptionGroupKeeps
    <2>2. CASE \E c \in OptionChoices :
                  DeleteOptionChoice(c) \/ \E b \in BOOLEAN : UpdateOptionChoice(c, b)
      BY <2>2, ChoiceSteps
    <2>3. ASSUME NEW r \in Reqs,
                 \/ \E g \in Groups : \/ \E given \in Ranges : CreateGroupChecks(r, g, given)
                                      \/ \E patch \in GroupPatches : PatchGroupChecks(r, g, patch)
                 \/ \E c \in OptionChoices : AddChoiceChecks(r, c)
          PROVE  Kept
      BY <2>3, ReadingSteps
    <2>4. ASSUME NEW r \in Reqs, CreateGroupWrites(r) \/ PatchGroupWrites(r) \/ AddChoiceWrites(r)
          PROVE  Kept
      BY <2>4, CreateGroupWritesKeeps, PatchGroupWritesKeeps, AddChoiceWritesKeeps
    <2> QED
      BY <1>4, <2>1, <2>2, <2>3, <2>4 DEF OptionGroupRequests
  <1>5. CASE Reordering
    <2>1. ASSUME NEW r \in Reqs, \E p \in Parents : ShowList(r, p)
          PROVE  Kept
      BY <2>1, ReadingSteps
    <2> QED
      BY <1>5, <2>1, ApplyOrderKeeps DEF Reordering, Parents
  <1>6. CASE \E s \in Stock : CreateInventoryItem(s) \/ DeleteInventoryItem(s)
    BY <1>6, StockSteps
  <1>7. CASE \E e \in Entities : RemoveInventoryLink(e) \/ \E s \in Stock : SetInventoryLink(e, s)
    BY <1>7, LinkSteps
  <1>8. CASE \E targets \in {{e, f} : e, f \in Entities}, b \in BOOLEAN : SetSoldOut(targets, b)
    BY <1>8, SoldOutSteps
  <1>9. ASSUME NEW r \in Reqs,
               \/ \E i \in Items : OpenEditor(r, i) \/ \E c \in Categories : CreateItemChecks(r, i, c)
               \/ \E s \in Stock : ShowStock(r, s)
               \/ Abandon(r)
        PROVE  Kept
    BY <1>9, ReadingSteps
  <1>10. ASSUME NEW r \in Reqs,
                \/ \E ch \in {"TABLE", "FRONT", "BOTH"} : CreateItemWrites(r, ch)
                \/ UpdateMenuItem(r)
                \/ ConfirmToggle(r)
         PROVE  Kept
    BY <1>10, CreateItemWritesKeeps, UpdateMenuItemKeeps, SoldOutSteps
  <1> QED
    BY <1>1, <1>2, <1>3, <1>4, <1>5, <1>6, <1>7, <1>8, <1>9, <1>10 DEF Next

LEMMA NextMenuInv == MenuInv /\ [Next]_vars => MenuInv'
  <1> SUFFICES ASSUME MenuInv, [Next]_vars PROVE MenuInv'
    OBVIOUS
  <1>1. Kept
    BY StepKeeps
  <1>2. LinksInv' /\ HomesInv'
    BY <1>1, MovesKeepHomes DEF MenuInv, Kept
  <1> QED
    BY <1>1, <1>2 DEF MenuInv, Kept

\* Links, homes and the requests under way stay what the handlers take them for.
THEOREM Invariant == Spec => []MenuInv
  BY InitMenuInv, NextMenuInv, PTL DEF Spec

\* Rows keep the shape of the schema; what is on sale is linked to no deleted stock
\* item and stands in no deleted category or group (inventory.ts, menuCatalog.ts).
THEOREM TypeCorrect == Spec => []TypeOK
  BY Invariant, MenuInvTypeOK, PTL

\* What guests and cashiers can choose is what is accepted, and the warning is given
\* for exactly the items that cannot be sold (optionRules.ts, menuCatalog.ts).
THEOREM ScreensAgreeHolds == Spec => []ScreensAgree
  <1>1. MenuInv => Shapes
    BY DEF MenuInv
  <1> QED
    BY <1>1, Invariant, ScreensAlike, PTL

-----------------------------------------------------------------------------
(* What becomes sold out, or available again.                              *)

\* What a step may do to what stays on sale.
Accounted(e) ==
    SoldOut(e)' # SoldOut(e) /\ status'[e] = "LIVE" =>
        \/ link'[e] # link[e] /\ link'[e] # NoStock
        \/ \E t \in Entities : e \in {t} \cup Impact(t) /\ Pressed(t, SoldOut(e)')

\* What is on sale is linked to live stock, before and after.
LEMMA OwnOrLinked ==
    ASSUME MenuInv, MenuInv', NEW e \in Live(Entities), status'[e] = "LIVE"
    PROVE  /\ SoldOut(e) = IF link[e] = NoStock THEN ownSoldOut[e] ELSE stockSoldOut[link[e]]
           /\ SoldOut(e)' = IF link'[e] = NoStock THEN ownSoldOut'[e] ELSE stockSoldOut'[link'[e]]
           /\ Linked(e) <=> link[e] # NoStock
           /\ e \in Entities /\ link[e] \in Stock \cup {NoStock}
  <1>1. e \in Entities /\ status[e] = "LIVE"
    BY DEF Live
  <1>2. /\ link[e] # NoStock => status[link[e]] = "LIVE"
        /\ link'[e] # NoStock => status'[link'[e]] = "LIVE"
        /\ link[e] \in Stock \cup {NoStock}
    BY <1>1 DEF MenuInv, LinksInv, Shapes
  <1> QED
    BY <1>1, <1>2 DEF SoldOut, Linked

\* What is set reaches one of the targets or what shares its stock item, and nothing else.
LEMMA SetReaches ==
    ASSUME MenuInv, MenuInv', NEW targets, NEW b, ApplySoldOut(targets, b), UNCHANGED link,
           NEW e \in Live(Entities), SoldOut(e)' # SoldOut(e), status'[e] = "LIVE"
    PROVE  SoldOut(e)' = b /\ \E t \in targets : e \in {t} \cup Impact(t)
  <1>1. /\ SoldOut(e) = IF link[e] = NoStock THEN ownSoldOut[e] ELSE stockSoldOut[link[e]]
        /\ SoldOut(e)' = IF link[e] = NoStock THEN ownSoldOut'[e] ELSE stockSoldOut'[link[e]]
        /\ Linked(e) <=> link[e] # NoStock
        /\ e \in Entities /\ link[e] \in Stock \cup {NoStock}
    BY OwnOrLinked
  <1>2. /\ targets \subseteq Live(Entities)
        /\ \A s \in Stock : stockSoldOut'[s] = IF \E t \in targets : Linked(t) /\ link[t] = s
                                              THEN b ELSE stockSoldOut[s]
        /\ \A f \in Entities : ownSoldOut'[f] = IF f \in targets /\ ~Linked(f)
                                               THEN b ELSE ownSoldOut[f]
    BY DEF ApplySoldOut
  <1>3. CASE link[e] = NoStock
    <2>1. SoldOut(e)' = b /\ e \in targets
      BY <1>1, <1>2, <1>3
    <2> QED
      BY <2>1
  <1>4. CASE link[e] # NoStock
    <2>1. PICK t \in targets : Linked(t) /\ link[t] = link[e]
      BY <1>1, <1>2, <1>4
    <2>2. SoldOut(e)' = b
      BY <1>1, <1>2, <1>4, <2>1
    <2>3. e \in Impact(t)
      BY <2>1 DEF Impact, Users
    <2> QED
      BY <2>1, <2>2, <2>3
  <1> QED
    BY <1>3, <1>4

\* The button for one or two, where they are shown.
LEMMA ButtonPressed ==
    ASSUME MenuInv, MenuInv', NEW u \in Entities, NEW v \in Entities, NEW b \in BOOLEAN,
           SetSoldOut({u, v}, b), NEW e \in Live(Entities)
    PROVE  Accounted(e)
  <1> SUFFICES ASSUME SoldOut(e)' # SoldOut(e), status'[e] = "LIVE"
               PROVE  \E t \in Entities : e \in {t} \cup Impact(t) /\ Pressed(t, SoldOut(e)')
    BY DEF Accounted
  <1>1. ApplySoldOut({u, v}, b) /\ UNCHANGED link
    BY DEF SetSoldOut
  <1>2. SoldOut(e)' = b /\ \E t \in {u, v} : e \in {t} \cup Impact(t)
    BY <1>1, SetReaches
  <1>3. ASSUME NEW t \in {u, v}
        PROVE  Pressed(t, b)
    <2>1. {u, v} = {v, u}
      OBVIOUS
    <2> QED
      BY <2>1 DEF Pressed
  <1> QED
    BY <1>2, <1>3

\* The stock page's, confirmed.
LEMMA ToggleConfirmed ==
    ASSUME MenuInv, MenuInv', NEW r \in Reqs, ConfirmToggle(r), NEW e \in Live(Entities)
    PROVE  Accounted(e)
  <1> SUFFICES ASSUME SoldOut(e)' # SoldOut(e), status'[e] = "LIVE"
               PROVE  \E t \in Entities : e \in {t} \cup Impact(t) /\ Pressed(t, SoldOut(e)')
    BY DEF Accounted
  <1> DEFINE t == req[r].what[1]
             b == req[r].what[2]
  <1>1. /\ req[r].op = "TOGGLE" /\ ApplySoldOut({t}, b) /\ UNCHANGED link
        /\ req[r].what \in Entities \X BOOLEAN
    <2>1. Proper(req[r])
      BY DEF MenuInv, RequestsInv
    <2> QED
      BY <2>1 DEF ConfirmToggle, Proper
  <1>2. t \in Entities /\ req[r].what = <<t, b>>
    BY <1>1
  <1> HIDE DEF t, b
  <1>3. SoldOut(e)' = b /\ e \in {t} \cup Impact(t)
    BY <1>1, SetReaches
  <1>4. Pressed(t, b)
    BY <1>1, <1>2 DEF Pressed
  <1> QED
    BY <1>2, <1>3, <1>4

\* The button of the menu page: the item's own flag.
LEMMA OwnButtonPressed ==
    ASSUME MenuInv, MenuInv', NEW i \in Items, NEW b \in BOOLEAN, PatchSoldOut(i, b),
           NEW e \in Live(Entities)
    PROVE  Accounted(e)
  <1> SUFFICES ASSUME SoldOut(e)' # SoldOut(e), status'[e] = "LIVE"
               PROVE  \E t \in Entities : e \in {t} \cup Impact(t) /\ Pressed(t, SoldOut(e)')
    BY DEF Accounted
  <1>1. /\ ownSoldOut' = [ownSoldOut EXCEPT ![i] = b] /\ status[i] = "LIVE"
        /\ UNCHANGED <<status, link, stockSoldOut>>
    BY DEF PatchSoldOut, Live
  <1>2. /\ SoldOut(e) = IF link[e] = NoStock THEN ownSoldOut[e] ELSE stockSoldOut[link[e]]
        /\ SoldOut(e)' = IF link[e] = NoStock THEN ownSoldOut'[e] ELSE stockSoldOut[link[e]]
        /\ Linked(e) <=> link[e] # NoStock
        /\ e \in Entities
    BY <1>1, OwnOrLinked
  <1>3. ownSoldOut \in [Entities -> BOOLEAN] /\ stockSoldOut \in [Stock -> BOOLEAN]
    BY DEF MenuInv, Shapes
  <1>4. e = i /\ SoldOut(e)' = b
    BY <1>1, <1>2, <1>3
  <1>5. Pressed(e, b)
    BY <1>4 DEF Pressed
  <1> QED
    BY <1>2, <1>4, <1>5

LEMMA LinkAccounted ==
    ASSUME MenuInv, MenuInv', NEW f \in Entities, NEW e \in Live(Entities),
           RemoveInventoryLink(f) \/ \E s \in Stock : SetInventoryLink(f, s)
    PROVE  Accounted(e)
  <1> SUFFICES ASSUME SoldOut(e)' # SoldOut(e), status'[e] = "LIVE"
               PROVE  link'[e] # link[e] /\ link'[e] # NoStock
    BY DEF Accounted
  <1>1. /\ SoldOut(e) = IF link[e] = NoStock THEN ownSoldOut[e] ELSE stockSoldOut[link[e]]
        /\ SoldOut(e)' = IF link'[e] = NoStock THEN ownSoldOut'[e] ELSE stockSoldOut'[link'[e]]
        /\ e \in Entities
    BY OwnOrLinked
  <1>2. link \in [Entities -> Stock \cup {NoStock}] /\ ownSoldOut \in [Entities -> BOOLEAN]
    BY DEF MenuInv, Shapes
  <1>3. CASE RemoveInventoryLink(f)
    <2>1. /\ ownSoldOut' = [ownSoldOut EXCEPT ![f] = SoldOut(f)]
          /\ link' = [link EXCEPT ![f] = NoStock] /\ stockSoldOut' = stockSoldOut
      BY <1>3 DEF RemoveInventoryLink, Inherited
    <2> HIDE DEF SoldOut
    <2>2. CASE e = f
      BY <1>1, <1>2, <2>1, <2>2
    <2>3. CASE e # f
      BY <1>1, <1>2, <2>1, <2>3
    <2> QED
      BY <2>2, <2>3
  <1>4. CASE \E s \in Stock : SetInventoryLink(f, s)
    <2>1. PICK s \in Stock : SetInventoryLink(f, s)
      BY <1>4
    <2>2. /\ link' = [link EXCEPT ![f] = s] /\ UNCHANGED <<ownSoldOut, stockSoldOut>>
      BY <2>1 DEF SetInventoryLink
    <2> QED
      BY <1>1, <1>2, <2>2
  <1> QED
    BY <1>3, <1>4

LEMMA StockUntouched ==
    ASSUME MenuInv, MenuInv', UNCHANGED stockVars, NEW e \in Live(Entities)
    PROVE  Accounted(e)
  <1> SUFFICES ASSUME status'[e] = "LIVE"
               PROVE  SoldOut(e)' = SoldOut(e)
    BY DEF Accounted
  <1>1. /\ SoldOut(e) = IF link[e] = NoStock THEN ownSoldOut[e] ELSE stockSoldOut[link[e]]
        /\ SoldOut(e)' = IF link'[e] = NoStock THEN ownSoldOut'[e] ELSE stockSoldOut'[link'[e]]
    BY OwnOrLinked
  <1> QED
    BY <1>1 DEF stockVars

LEMMA StepAccounted ==
    ASSUME MenuInv, MenuInv', [Next]_vars, NEW e \in Live(Entities)
    PROVE  Accounted(e)
  <1>1. CASE UNCHANGED stockVars
    BY <1>1, StockUntouched
  <1>2. CASE \E i \in Items, b \in BOOLEAN : PatchSoldOut(i, b)
    BY <1>2, OwnButtonPressed
  <1>3. CASE \E f \in Entities : RemoveInventoryLink(f) \/ \E s \in Stock : SetInventoryLink(f, s)
    BY <1>3, LinkAccounted
  <1>4. CASE \E targets \in {{t, u} : t, u \in Entities}, b \in BOOLEAN : SetSoldOut(targets, b)
    <2>1. PICK targets \in {{t, u} : t, u \in Entities}, b \in BOOLEAN : SetSoldOut(targets, b)
      BY <1>4
    <2>2. PICK u \in Entities, v \in Entities : targets = {u, v}
      OBVIOUS
    <2>3. SetSoldOut({u, v}, b)
      BY <2>1, <2>2
    <2> QED
      BY <2>3, ButtonPressed
  <1>5. CASE \E r \in Reqs : ConfirmToggle(r)
    BY <1>5, ToggleConfirmed
  <1>6. \/ UNCHANGED stockVars
        \/ \E i \in Items, b \in BOOLEAN : PatchSoldOut(i, b)
        \/ \E f \in Entities : RemoveInventoryLink(f) \/ \E s \in Stock : SetInventoryLink(f, s)
        \/ \E targets \in {{t, u} : t, u \in Entities}, b \in BOOLEAN : SetSoldOut(targets, b)
        \/ \E r \in Reqs : ConfirmToggle(r)
    <2>1. ASSUME \E c \in Categories : CreateCategory(c) \/ DeleteCategory(c)
          PROVE  UNCHANGED stockVars
      BY <2>1 DEF CreateCategory, DeleteCategory
    <2>2. ASSUME NEW i \in Items, DeleteMenuItem(i)
          PROVE  UNCHANGED stockVars
      BY <2>2 DEF DeleteMenuItem
    <2>3. ASSUME NEW s \in Stock, CreateInventoryItem(s) \/ DeleteInventoryItem(s)
          PROVE  UNCHANGED stockVars
      BY <2>3 DEF CreateInventoryItem, DeleteInventoryItem
    <2>4. ASSUME OptionGroupRequests
          PROVE  UNCHANGED stockVars
      BY <2>4 DEF OptionGroupRequests, DeleteOptionGroup, DeleteOptionChoice, UpdateOptionChoice,
                  CreateGroupChecks, PatchGroupChecks, CreateGroupWrites, PatchGroupWrites,
                  AddChoiceChecks, AddChoiceWrites
    <2>5. ASSUME Reordering
          PROVE  UNCHANGED stockVars
      BY <2>5 DEF Reordering, ShowList, ApplyOrder
    <2>6. ASSUME NEW r \in Reqs,
                 \/ \E i \in Items :
                       OpenEditor(r, i) \/ \E c \in Categories : CreateItemChecks(r, i, c)
                 \/ \E ch \in {"TABLE", "FRONT", "BOTH"} : CreateItemWrites(r, ch)
                 \/ UpdateMenuItem(r)
                 \/ \E s \in Stock : ShowStock(r, s)
                 \/ Abandon(r)
          PROVE  UNCHANGED stockVars
      BY <2>6 DEF OpenEditor, CreateItemChecks, CreateItemWrites, UpdateMenuItem, ShowStock, Abandon
    <2>7. ASSUME UNCHANGED vars
          PROVE  UNCHANGED stockVars
      BY <2>7 DEF vars, stockVars
    <2> QED
      BY <2>1, <2>2, <2>3, <2>4, <2>5, <2>6, <2>7 DEF Next
  <1> QED
    BY <1>1, <1>2, <1>3, <1>4, <1>5, <1>6

\* What is on sale becomes sold out, or available again, only by being linked, or by a
\* request for it or for something that is linked to its stock item when the request
\* arrives, and then as the request says (inventory.ts:35-39, 303-304, 339-340).
THEOREM NothingStirsHolds == Spec => NothingStirs
  <1>1. MenuInv /\ MenuInv' /\ [Next]_vars =>
           [\A e \in Live(Entities) :
               SoldOut(e)' # SoldOut(e) /\ status'[e] = "LIVE" =>
                  \/ link'[e] # link[e] /\ link'[e] # NoStock
                  \/ \E t \in Entities : e \in {t} \cup Impact(t) /\ Pressed(t, SoldOut(e)')]_vars
    <2> SUFFICES ASSUME MenuInv, MenuInv', [Next]_vars, NEW e \in Live(Entities)
                 PROVE  SoldOut(e)' # SoldOut(e) /\ status'[e] = "LIVE" =>
                           \/ link'[e] # link[e] /\ link'[e] # NoStock
                           \/ \E t \in Entities :
                                 e \in {t} \cup Impact(t) /\ Pressed(t, SoldOut(e)')
      BY SMTT(60)
    <2>1. Accounted(e)
      BY StepAccounted
    <2> QED
      BY <2>1 DEF Accounted
  <1> QED
    BY <1>1, Invariant, PTL DEF Spec, NothingStirs

-----------------------------------------------------------------------------
(* Display order.                                                          *)

\* No row is in two lists.
LEMMA ChildrenApart ==
    ASSUME NEW p \in Parents, NEW q \in Parents, p # q
    PROVE  Children(p) \cap Children(q) = {}
  BY DEF Children, Live, Parents

\* A list whose rows have the places they have in it is in order.
LEMMA OrderedByPlace ==
    ASSUME NEW S, IsFiniteSet(S), NEW list, Listing(list), Range(list) = S, NEW pos,
           \A k \in 1..Len(list) : pos[list[k]] = k - 1
    PROVE  InOrder(list, S, pos)
  <1> DEFINE n == Len(list)
  <1>1. /\ n \in Nat /\ DOMAIN list = 1..n
        /\ \A j, k \in 1..n : list[j] = list[k] => j = k
        /\ \A k \in 1..n : list[k] \in S
        /\ \A x \in S : \E k \in 1..n : list[k] = x
        /\ list = [k \in 1..n |-> list[k]]
    <2>1. list \in Seq(Listed) /\ \A j, k \in 1..n : list[j] = list[k] => j = k
      BY DEF Listing
    <2>2. n \in Nat /\ DOMAIN list = 1..n
      BY <2>1
    <2>3. list = [k \in 1..n |-> list[k]]
      BY <2>1, <2>2
    <2>4. S = {list[k] : k \in 1..n}
      BY <2>2 DEF Range
    <2> HIDE DEF n
    <2> QED
      BY <2>1, <2>2, <2>3, <2>4
  <1> HIDE DEF n
  <1>2. list \in [1..n -> S]
    BY <1>1
  <1>3. Cardinality(S) = n
    <2>1. list \in Bijection(1..n, S)
      BY <1>1, <1>2 DEF Bijection, Injection, IsInjective, Surjection
    <2>2. ExistsBijection(1..n, S)
      BY <2>1 DEF ExistsBijection
    <2> QED
      BY <1>1, <2>2, FS_CountingElements
  <1>4. \A j, k \in 1..n : j < k => Ahead(list[j], list[k], pos)
    <2>1. \A k \in 1..n : pos[list[k]] = k - 1
      BY DEF n
    <2> QED
      BY <1>1, <2>1 DEF Ahead
  <1> QED
    BY <1>1, <1>2, <1>3, <1>4 DEF InOrder

\* A list is in order as long as its rows keep their places.
LEMMA OrderKept ==
    ASSUME NEW S, NEW list, NEW pos, NEW new, InOrder(list, S, pos), \A x \in S : new[x] = pos[x]
    PROVE  InOrder(list, S, new)
  <1>1. DOMAIN list = 1..Cardinality(S) /\ \A k \in DOMAIN list : list[k] \in S
    BY DEF InOrder
  <1> QED
    BY <1>1 DEF InOrder, Ahead

LEMMA AppliedAsSeen ==
    ASSUME MenuInv, AsOrdered, AsOrdered', NEW r \in Reqs, ApplyOrder(r), NEW p \in Parents
    PROVE  IF p = req[r].on THEN Shown(p)' \in Moved(req[r].what) ELSE Shown(p)' = Shown(p)
  <1> DEFINE on == req[r].on
             seen == req[r].what
  <1>1. /\ on \in Parents /\ Listing(seen) /\ Range(seen) = Children(on)
        /\ UNCHANGED <<status, item>>
    <2>1. Proper(req[r])
      BY DEF MenuInv, RequestsInv
    <2> QED
      BY <2>1 DEF ApplyOrder, SameList, Proper
  <1>2. PICK list \in Moved(seen) :
           position' = [x \in DOMAIN position |-> IF \E k \in DOMAIN list : list[k] = x
                                                 THEN (CHOOSE k \in DOMAIN list : list[k] = x) - 1
                                                 ELSE position[x]]
    BY DEF ApplyOrder
  <1> HIDE DEF on, seen
  <1>3. Listing(list) /\ Range(list) = Children(on)
    BY <1>1, MovedIsListing
  <1>4. /\ \A k \in 1..Len(list) : position'[list[k]] = k - 1
        /\ \A x \in Listed : x \notin Range(list) => position'[x] = position[x]
    BY <1>2, <1>3, PlacesGiven DEF MenuInv
  <1>5. Children(p)' = Children(p)
    BY <1>1 DEF Children, Live
  <1>6. /\ Orderable(Children(p), position) /\ InOrder(Shown(p), Children(p), position)
        /\ Orderable(Children(p), position') /\ InOrder(Shown(p)', Children(p), position')
    BY <1>5 DEF AsOrdered
  <1>7. CASE p = on
    <2>1. InOrder(list, Children(p), position')
      BY <1>3, <1>4, <1>6, <1>7, OrderedByPlace DEF Orderable
    <2>2. Shown(p)' = list
      BY <1>6, <2>1, OneOrder
    <2> QED
      BY <1>2, <1>7, <2>2 DEF on, seen
  <1>8. CASE p # on
    <2>1. \A x \in Children(p) : position'[x] = position[x]
      <3>1. Children(p) \cap Range(list) = {}
        BY <1>1, <1>3, <1>8, ChildrenApart
      <3>2. Children(p) \subseteq Listed
        BY <1>6 DEF Orderable
      <3> QED
        BY <1>4, <3>1, <3>2
    <2>2. InOrder(Shown(p), Children(p), position')
      BY <1>6, <2>1, OrderKept
    <2>3. Shown(p)' = Shown(p)
      BY <1>6, <2>2, OneOrder
    <2> QED
      BY <1>8, <2>3 DEF on
  <1> QED
    BY <1>7, <1>8

LEMMA StepReorders ==
    ASSUME MenuInv, AsOrdered, AsOrdered', [Next]_vars, NEW r \in Reqs,
           position' # position, req[r].op = "REORDER", req'[r].op = "NONE",
           NEW p \in Parents
    PROVE  IF p = req[r].on THEN Shown(p)' \in Moved(req[r].what) ELSE Shown(p)' = Shown(p)
  <1>1. PICK q \in Reqs : ApplyOrder(q)
    <2>1. ASSUME \E c \in Categories : CreateCategory(c) \/ DeleteCategory(c)
          PROVE  FALSE
      BY <2>1 DEF CreateCategory, DeleteCategory
    <2>2. ASSUME \E i \in Items : DeleteMenuItem(i) \/ \E b \in BOOLEAN : PatchSoldOut(i, b)
          PROVE  FALSE
      BY <2>2 DEF DeleteMenuItem, PatchSoldOut
    <2>3. ASSUME \E s \in Stock : CreateInventoryItem(s) \/ DeleteInventoryItem(s)
          PROVE  FALSE
      BY <2>3 DEF CreateInventoryItem, DeleteInventoryItem
    <2>4. ASSUME OptionGroupRequests
          PROVE  FALSE
      BY <2>4 DEF OptionGroupRequests, DeleteOptionGroup, DeleteOptionChoice, UpdateOptionChoice,
                  CreateGroupChecks, PatchGroupChecks, CreateGroupWrites, PatchGroupWrites,
                  AddChoiceChecks, AddChoiceWrites
    <2>5. ASSUME Reordering
          PROVE  \E q \in Reqs : ApplyOrder(q)
      BY <2>5 DEF Reordering, ShowList
    <2>6. ASSUME NEW q \in Reqs,
                 \/ \E i \in Items :
                       OpenEditor(q, i) \/ \E c \in Categories : CreateItemChecks(q, i, c)
                 \/ \E ch \in {"TABLE", "FRONT", "BOTH"} : CreateItemWrites(q, ch)
                 \/ \E s \in Stock : ShowStock(q, s)
                 \/ ConfirmToggle(q)
                 \/ Abandon(q)
          PROVE  FALSE
      BY <2>6 DEF OpenEditor, CreateItemChecks, CreateItemWrites, ShowStock, ConfirmToggle, Abandon
    <2>9. ASSUME NEW q \in Reqs, UpdateMenuItem(q)
          PROVE  FALSE
      <3>1. /\ DOMAIN req = Reqs /\ req' = [req EXCEPT ![q] = Idle] /\ req[q].op = "EDIT"
        BY <2>9 DEF UpdateMenuItem, Done, MenuInv, RequestsInv
      <3> QED
        BY <3>1
    <2>7. ASSUME \/ \E e \in Entities :
                       RemoveInventoryLink(e) \/ \E s \in Stock : SetInventoryLink(e, s)
                 \/ \E targets \in {{e, f} : e, f \in Entities}, b \in BOOLEAN :
                       SetSoldOut(targets, b)
          PROVE  FALSE
      BY <2>7 DEF RemoveInventoryLink, SetInventoryLink, SetSoldOut
    <2>8. ~UNCHANGED vars
      BY DEF vars
    <2> QED
      BY <2>1, <2>2, <2>3, <2>4, <2>5, <2>6, <2>7, <2>8, <2>9 DEF Next
  <1>2. q = r
    <2>1. DOMAIN req = Reqs /\ req' = [req EXCEPT ![q] = Idle]
      BY <1>1 DEF ApplyOrder, Done, MenuInv, RequestsInv
    <2> QED
      BY <2>1
  <1> QED
    BY <1>1, <1>2, AppliedAsSeen

\* A new order is stored as it was seen, one entry moved, and no other list changes
\* (menuCatalog.ts).
THEOREM ReorderedAsSeenHolds == Spec => ReorderedAsSeen
  <1>1. MenuInv => AsOrdered
    BY ShownAsOrdered DEF MenuInv
  <1>2. MenuInv /\ AsOrdered /\ AsOrdered' /\ [Next]_vars =>
           [\A r \in Reqs :
               position' # position /\ req[r].op = "REORDER" /\ req'[r].op = "NONE" =>
                  \A p \in Categories \cup Items \cup Groups :
                     IF p = req[r].on THEN Shown(p)' \in Moved(req[r].what)
                     ELSE Shown(p)' = Shown(p)]_vars
    BY StepReorders DEF Parents
  <1> QED
    BY <1>1, <1>2, Invariant, PTL DEF Spec, ReorderedAsSeen
=============================================================================
