------------------------- MODULE CounterSale_proofs -------------------------
(***************************************************************************)
(* Proofs about CounterSale, for any menu, carts, coupons, tills,          *)
(* confirmations in flight and keys; CounterSale implements Checkout.      *)
(***************************************************************************)
EXTENDS CounterSaleProps, SumTheorems, SequenceTheorems, TLAPS

USE CounterAssumption

-----------------------------------------------------------------------------
(* Sums over the lines of a cart.                                          *)

LEMMA FunctionSeq == ASSUME NEW T, NEW n \in Nat, NEW f \in [1..n -> T] PROVE f \in Seq(T)
  OBVIOUS

LEMMA SumOfLines ==
    ASSUME NEW amounts \in Seq(Nat)
    PROVE  /\ DOMAIN amounts = 1..Len(amounts) /\ Len(amounts) \in Nat
           /\ IsFiniteSet(DOMAIN amounts)
           /\ \A l \in DOMAIN amounts : amounts[l] \in Nat
           /\ SumOf(amounts) = SumFunctionOnSet(amounts, DOMAIN amounts)
           /\ SumOf(amounts) \in Nat
           /\ \A l \in DOMAIN amounts : amounts[l] <= SumOf(amounts)
  <1>1. DOMAIN amounts = 1..Len(amounts) /\ Len(amounts) \in Nat
    OBVIOUS
  <1>2. IsFiniteSet(DOMAIN amounts)
    BY <1>1, FS_Interval
  <1>3. \A l \in DOMAIN amounts : amounts[l] \in Nat
    BY <1>1, ElementOfSeq
  <1>4. SumOf(amounts) = SumFunctionOnSet(amounts, DOMAIN amounts)
    BY DEF SumOf, SumFunction
  <1>5. /\ SumFunctionOnSet(amounts, DOMAIN amounts) \in Nat
        /\ \A l \in DOMAIN amounts : amounts[l] <= SumFunctionOnSet(amounts, DOMAIN amounts)
    BY <1>2, <1>3, SumOfNaturals
  <1> QED
    BY <1>1, <1>2, <1>3, <1>4, <1>5

-----------------------------------------------------------------------------
(* Giving out a discount (discountAllocation.ts)                           *)

\* To multiply by more than nothing keeps the order.
LEMMA Multiplied ==
    ASSUME NEW a \in Nat \ {0}, NEW b \in Int, NEW c \in Int
    PROVE  a * b <= a * c <=> b <= c
  OBVIOUS

\* A division rounds down.
LEMMA Division ==
    ASSUME NEW a \in Nat, NEW b \in Nat \ {0}
    PROVE  /\ a \div b \in Nat
           /\ b * (a \div b) <= a
           /\ a < b * ((a \div b) + 1)
  <1> DEFINE q == a \div b
             whole == b * q
             rest == a % b
             more == b * (q + 1)
  <1>1. a = whole + rest /\ rest \in 0..(b - 1) /\ q \in Int
    OBVIOUS
  <1> HIDE DEF q
  <1>2. more = whole + b /\ whole \in Int
    BY <1>1
  <1>3. q + 1 <= 0 => more <= 0
    <2>1. more <= b * 0 <=> q + 1 <= 0
      BY <1>1, Multiplied
    <2>2. b * 0 = 0
      OBVIOUS
    <2> QED
      BY <2>1, <2>2
  <1> HIDE DEF whole, rest, more
  <1>4. q \in Nat /\ whole <= a /\ a < more
    BY <1>1, <1>2, <1>3
  <1> QED
    BY <1>4 DEF q, whole, more

\* What remains of a number smaller than the divisor is the number.
LEMMA Remainder ==
    ASSUME NEW a \in Nat, NEW b \in Nat \ {0}
    PROVE  a % b \in 0..(b - 1) /\ (a < b => a % b = a)
  <1> DEFINE q == a \div b
             whole == b * q
             rest == a % b
  <1>1. a = whole + rest /\ rest \in 0..(b - 1) /\ q \in Int
    OBVIOUS
  <1>2. q \in Nat
    BY Division
  <1> HIDE DEF q
  <1>3. whole \in Int
    BY <1>1
  <1>4. a < b => q = 0
    <2> SUFFICES ASSUME a < b, q # 0 PROVE FALSE
      OBVIOUS
    <2>1. 1 \in Int /\ 1 <= q
      BY <1>2
    <2>2. b * 1 <= b * q <=> 1 <= q
      BY <1>1, <2>1, Multiplied, ZenonT(60)
    <2>3. b * 1 = b
      OBVIOUS
    <2>4. b <= whole
      BY <2>1, <2>2, <2>3
    <2> HIDE DEF whole, rest
    <2> QED
      BY <1>1, <1>3, <2>4
  <1>5. q = 0 => whole = 0
    OBVIOUS
  <1> HIDE DEF whole, rest
  <1> QED
    BY <1>1, <1>3, <1>4, <1>5 DEF rest

\* Deals(g, ...): g says what is left and given after each turn of D.
Deals(g, total, amounts, D) ==
    g = [turn \in D |->
            IF turn = 0
            THEN [left |-> total - SumOf(Shares(total, amounts)), given |-> Shares(total, amounts)]
            ELSE GiveOne(g[turn - 1], ((turn - 1) % Len(amounts)) + 1, amounts)]

\* The first turns can be described.
LEMMA DealBegins ==
    ASSUME NEW total, NEW amounts
    PROVE  \A k \in Nat : \E g : Deals(g, total, amounts, 0..k)
  <1> DEFINE Good == {k \in Nat : \E g : Deals(g, total, amounts, 0..k)}
             first == [left |-> total - SumOf(Shares(total, amounts)),
                       given |-> Shares(total, amounts)]
             Next1(g, turn) == GiveOne(g[turn - 1], ((turn - 1) % Len(amounts)) + 1, amounts)
  <1>1. 0 \in Good
    <2> DEFINE g == [turn \in 0..0 |-> first]
    <2>1. g = [turn \in 0..0 |-> IF turn = 0 THEN first ELSE Next1(g, turn)]
      OBVIOUS
    <2>2. Deals(g, total, amounts, 0..0)
      BY <2>1 DEF Deals
    <2> QED
      BY <2>2
  <1>2. ASSUME NEW k \in Nat, k \in Good
        PROVE  k + 1 \in Good
    <2>1. PICK g : Deals(g, total, amounts, 0..k)
      BY <1>2
    <2> DEFINE h == [turn \in 0..(k + 1) |-> IF turn <= k THEN g[turn] ELSE Next1(g, turn)]
    <2>2. g = [turn \in 0..k |-> IF turn = 0 THEN first ELSE Next1(g, turn)]
      BY <2>1 DEF Deals
    <2> HIDE DEF first
    <2>3. ASSUME NEW turn \in 0..(k + 1)
          PROVE  h[turn] = IF turn = 0 THEN first ELSE Next1(h, turn)
      <3>1. CASE turn <= k
        <4>1. turn \in 0..k /\ h[turn] = g[turn]
          BY <3>1
        <4>2. turn # 0 => turn - 1 \in 0..(k + 1) /\ turn - 1 <= k
          BY <4>1
        <4>3. turn # 0 => h[turn - 1] = g[turn - 1]
          BY <4>2
        <4>4. g[turn] = IF turn = 0 THEN first ELSE Next1(g, turn)
          BY <2>2, <4>1
        <4> QED
          BY <4>1, <4>3, <4>4
      <3>2. CASE turn = k + 1
        <4>1. turn # 0 /\ ~(turn <= k) /\ turn - 1 = k /\ k \in 0..(k + 1) /\ k <= k
          BY <3>2
        <4>2. h[turn] = Next1(g, turn) /\ h[turn - 1] = g[turn - 1]
          BY <4>1
        <4> QED
          BY <4>1, <4>2
      <3> QED
        BY <3>1, <3>2
    <2>4. h = [turn \in 0..(k + 1) |-> IF turn = 0 THEN first ELSE Next1(h, turn)]
      <3>1. h = [turn \in 0..(k + 1) |-> h[turn]]
        OBVIOUS
      <3> HIDE DEF h, Next1
      <3> QED
        BY <2>3, <3>1
    <2>5. Deals(h, total, amounts, 0..(k + 1))
      BY <2>4 DEF Deals, first
    <2> QED
      BY <2>5
  <1> HIDE DEF Good
  <1>3. Nat \subseteq Good
    BY <1>1, <1>2, EveryNumber
  <1> QED
    BY <1>3 DEF Good

\* In one way only.
LEMMA DealsAgree ==
    ASSUME NEW total, NEW amounts, NEW k \in Nat, NEW m \in Nat, k <= m,
           NEW g, Deals(g, total, amounts, 0..k), NEW h, Deals(h, total, amounts, 0..m)
    PROVE  \A turn \in 0..k : g[turn] = h[turn]
  <1> DEFINE Good == {turn \in Nat : turn <= k => g[turn] = h[turn]}
  <1>1. 0 \in Good
    BY DEF Deals
  <1>2. ASSUME NEW turn \in Nat, turn \in Good
        PROVE  turn + 1 \in Good
    <2> SUFFICES ASSUME turn + 1 <= k PROVE g[turn + 1] = h[turn + 1]
      OBVIOUS
    <2>1. g[turn] = h[turn] /\ turn + 1 \in 0..k /\ turn + 1 \in 0..m
      BY <1>2
    <2>2. turn + 1 # 0 /\ (turn + 1) - 1 = turn
      OBVIOUS
    <2>3. /\ g[turn + 1] = GiveOne(g[turn], (turn % Len(amounts)) + 1, amounts)
          /\ h[turn + 1] = GiveOne(h[turn], (turn % Len(amounts)) + 1, amounts)
      BY <2>1, <2>2 DEF Deals
    <2> QED
      BY <2>1, <2>3
  <1> HIDE DEF Good
  <1>3. Nat \subseteq Good
    BY <1>1, <1>2, EveryNumber
  <1> QED
    BY <1>3 DEF Good

\* GiveOut describes them all.
LEMMA GiveOutDeals ==
    ASSUME NEW total, NEW amounts
    PROVE  Deals(GiveOut(total, amounts), total, amounts, Nat)
  <1> DEFINE Part(k) == CHOOSE g : Deals(g, total, amounts, 0..k)
             all == [turn \in Nat |-> Part(turn)[turn]]
             first == [left |-> total - SumOf(Shares(total, amounts)),
                       given |-> Shares(total, amounts)]
             Next1(g, turn) == GiveOne(g[turn - 1], ((turn - 1) % Len(amounts)) + 1, amounts)
  <1>1. ASSUME NEW k \in Nat
        PROVE  Deals(Part(k), total, amounts, 0..k)
    BY DealBegins
  <1> HIDE DEF Part
  <1>2. ASSUME NEW turn \in Nat
        PROVE  all[turn] = IF turn = 0 THEN first ELSE Next1(all, turn)
    <2>0. turn \in 0..turn
      OBVIOUS
    <2>1. Part(turn)[turn] = IF turn = 0 THEN first ELSE Next1(Part(turn), turn)
      BY <1>1, <2>0 DEF Deals
    <2>2. ASSUME turn # 0
          PROVE  Part(turn)[turn - 1] = all[turn - 1]
      <3>1. turn - 1 \in Nat /\ turn - 1 \in 0..(turn - 1) /\ turn - 1 <= turn
        BY <2>2
      <3>2. Part(turn - 1)[turn - 1] = Part(turn)[turn - 1]
        BY <1>1, <3>1, DealsAgree
      <3> QED
        BY <3>1, <3>2
    <2> HIDE DEF first
    <2> QED
      BY <2>1, <2>2
  <1>3. all = [turn \in Nat |-> IF turn = 0 THEN first ELSE Next1(all, turn)]
    <2>1. all = [turn \in Nat |-> all[turn]]
      OBVIOUS
    <2> HIDE DEF all, Next1, first
    <2> QED
      BY <1>2, <2>1
  <1> DEFINE it == CHOOSE g : g = [turn \in Nat |-> IF turn = 0 THEN first ELSE Next1(g, turn)]
  <1>4. it = [turn \in Nat |-> IF turn = 0 THEN first ELSE Next1(it, turn)]
    <2> HIDE DEF all
    <2> QED
      BY <1>3
  <1>5. GiveOut(total, amounts) = it
    BY DEF GiveOut
  <1> HIDE DEF it
  <1> QED
    BY <1>4, <1>5 DEF Deals

\* The share of a line, and one more if it has room for it.
RoundedUp(total, amounts) ==
    [l \in DOMAIN amounts |-> Shares(total, amounts)[l]
                                + IF Shares(total, amounts)[l] < amounts[l] THEN 1 ELSE 0]

\* A discount of some amounts, worth no more than they.
Allocatable(total, amounts) ==
    amounts \in Seq(Nat) /\ total \in Nat /\ total <= SumOf(amounts) /\ SumOf(amounts) # 0

\* The shares lie below what they are shares of, and no line has room for one more
\* unless it is one more than its share of the total.
LEMMA SharesBounded ==
    ASSUME NEW total, NEW amounts, Allocatable(total, amounts)
    PROVE  LET S == Shares(total, amounts)
               U == RoundedUp(total, amounts)
               G == SumOf(amounts) IN
           /\ S \in Seq(Nat) /\ U \in Seq(Nat) /\ DOMAIN S = DOMAIN amounts
           /\ DOMAIN U = DOMAIN amounts
           /\ \A l \in DOMAIN amounts :
                 /\ S[l] <= amounts[l] /\ U[l] = S[l] + IF S[l] < amounts[l] THEN 1 ELSE 0
                 /\ G * S[l] <= total * amounts[l] /\ total * amounts[l] <= G * U[l]
  <1> DEFINE S == Shares(total, amounts)
             U == RoundedUp(total, amounts)
             G == SumOf(amounts)
  <1>1. /\ amounts \in Seq(Nat) /\ total \in Nat /\ total <= G /\ G \in Nat \ {0}
        /\ DOMAIN amounts = 1..Len(amounts) /\ Len(amounts) \in Nat
        /\ \A l \in DOMAIN amounts : amounts[l] \in Nat
    BY SumOfLines DEF Allocatable
  <1>2. /\ DOMAIN S = DOMAIN amounts /\ DOMAIN U = DOMAIN amounts
        /\ \A l \in DOMAIN amounts :
              /\ S[l] = (total * amounts[l]) \div G
              /\ U[l] = S[l] + IF S[l] < amounts[l] THEN 1 ELSE 0
    BY DEF Shares, RoundedUp
  <1> HIDE DEF S, U, G
  <1>3. ASSUME NEW l \in DOMAIN amounts
        PROVE  /\ S[l] \in Nat /\ S[l] <= amounts[l] /\ U[l] \in Nat
               /\ G * S[l] <= total * amounts[l] /\ total * amounts[l] <= G * U[l]
    <2> DEFINE a == amounts[l]
               x == total * a
    <2>1. a \in Nat /\ x \in Nat /\ S[l] = x \div G
      BY <1>1, <1>2
    <2> HIDE DEF a, x
    <2>2. S[l] \in Nat /\ G * S[l] <= x /\ x < G * (S[l] + 1)
      BY ZenonT(60), <1>1, <2>1, Division
    <2>3. x <= G * a
      <3>1. a * total <= a * G
        BY <1>1, <2>1, Multiplied
      <3> QED
        BY <1>1, <2>1, <3>1 DEF x
    <2>4. G * S[l] <= G * a
      <3>1. G * S[l] \in Int /\ G * a \in Int
        BY <1>1, <2>1, <2>2
      <3> QED
        BY <2>1, <2>2, <2>3, <3>1
    <2>5. S[l] <= a
      <3>1. S[l] \in Int /\ a \in Int /\ G \in Nat \ {0}
        BY <1>1, <2>1, <2>2
      <3>2. G * S[l] <= G * a <=> S[l] <= a
        BY <3>1, Multiplied, ZenonT(60)
      <3> QED
        BY <2>4, <3>2
    <2>6. CASE S[l] < a
      <3>1. U[l] = S[l] + 1
        BY <1>2, <2>6 DEF a
      <3>2. G * (S[l] + 1) \in Int
        BY <1>1, <2>2
      <3>3. x <= G * (S[l] + 1)
        BY <2>1, <2>2, <3>2
      <3> QED
        BY <2>2, <2>5, <3>1, <3>3 DEF a, x
    <2>7. CASE ~(S[l] < a)
      <3>1. U[l] = S[l] /\ S[l] = a
        BY <1>2, <2>1, <2>2, <2>5, <2>7 DEF a
      <3> QED
        BY <2>2, <2>3, <2>5, <3>1 DEF a, x
    <2> QED
      BY <2>6, <2>7
  <1>4. S \in Seq(Nat) /\ U \in Seq(Nat)
    <2>1. S = [l \in 1..Len(amounts) |-> S[l]] /\ U = [l \in 1..Len(amounts) |-> U[l]]
      <3>1. S = [l \in DOMAIN S |-> S[l]] /\ U = [l \in DOMAIN U |-> U[l]]
        BY DEF S, U, Shares, RoundedUp
      <3> QED
        BY <1>1, <1>2, <3>1
    <2>2. S \in [1..Len(amounts) -> Nat] /\ U \in [1..Len(amounts) -> Nat]
      BY <1>1, <1>3, <2>1
    <2> QED
      BY <1>1, <2>2, FunctionSeq
  <1> QED
    BY <1>2, <1>3, <1>4 DEF S, U, G

\* The shares add up to no more than the total, and rounded up to no less.
LEMMA SharesAddUp ==
    ASSUME NEW total, NEW amounts, Allocatable(total, amounts)
    PROVE  SumOf(Shares(total, amounts)) <= total /\ total <= SumOf(RoundedUp(total, amounts))
  <1> DEFINE S == Shares(total, amounts)
             U == RoundedUp(total, amounts)
             G == SumOf(amounts)
             D == DOMAIN amounts
             x == [l \in D |-> total * amounts[l]]
             low == [l \in D |-> G * S[l]]
             high == [l \in D |-> G * U[l]]
  <1>1. /\ amounts \in Seq(Nat) /\ total \in Nat /\ G \in Nat \ {0} /\ IsFiniteSet(D)
        /\ G = SumFunctionOnSet(amounts, D) /\ \A l \in D : amounts[l] \in Nat
    BY SumOfLines DEF Allocatable
  <1>2. /\ S \in Seq(Nat) /\ U \in Seq(Nat) /\ DOMAIN S = D /\ DOMAIN U = D
        /\ \A l \in D : G * S[l] <= total * amounts[l] /\ total * amounts[l] <= G * U[l]
    BY SharesBounded
  <1> HIDE DEF S, U, G
  <1>3. /\ SumOf(S) = SumFunctionOnSet(S, D) /\ SumOf(S) \in Nat /\ \A l \in D : S[l] \in Nat
        /\ SumOf(U) = SumFunctionOnSet(U, D) /\ SumOf(U) \in Nat /\ \A l \in D : U[l] \in Nat
    BY <1>2, SumOfLines
  <1>4. \A l \in D : /\ x[l] = total * amounts[l] /\ x[l] \in Int
                     /\ low[l] = G * S[l] /\ low[l] \in Int
                     /\ high[l] = G * U[l] /\ high[l] \in Int
    BY SMTT(60), <1>1, <1>3
  <1> HIDE DEF D, x, low, high
  <1>5. SumFunctionOnSet(x, D) = total * G
    <2>1. \A l \in D : amounts[l] \in Int /\ x[l] = total * amounts[l]
      BY <1>1, <1>4
    <2>2. total \in Int
      BY <1>1
    <2>3. SumFunctionOnSet(x, D) = total * SumFunctionOnSet(amounts, D)
      BY ONLY <1>1, <2>1, <2>2, SumMultiplied
    <2> QED
      BY <1>1, <2>3
  <1>6. SumFunctionOnSet(low, D) = G * SumOf(S)
    <2>1. G \in Int /\ \A l \in D : S[l] \in Int /\ low[l] = G * S[l]
      BY <1>1, <1>3, <1>4
    <2>2. SumFunctionOnSet(low, D) = G * SumFunctionOnSet(S, D)
      BY ONLY <1>1, <2>1, SumMultiplied
    <2> QED
      BY <1>3, <2>2
  <1>7. SumFunctionOnSet(high, D) = G * SumOf(U)
    <2>1. G \in Int /\ \A l \in D : U[l] \in Int /\ high[l] = G * U[l]
      BY <1>1, <1>3, <1>4
    <2>2. SumFunctionOnSet(high, D) = G * SumFunctionOnSet(U, D)
      BY ONLY <1>1, <2>1, SumMultiplied
    <2> QED
      BY <1>3, <2>2
  <1>8. SumFunctionOnSet(low, D) <= SumFunctionOnSet(x, D)
    <2>1. \A l \in D : low[l] \in Int /\ x[l] \in Int /\ low[l] <= x[l]
      BY <1>2, <1>4
    <2> QED
      BY <1>1, <2>1, SumOrder
  <1>9. SumFunctionOnSet(x, D) <= SumFunctionOnSet(high, D)
    <2>1. \A l \in D : x[l] \in Int /\ high[l] \in Int /\ x[l] <= high[l]
      BY <1>2, <1>4
    <2> QED
      BY <1>1, <2>1, SumOrder
  <1>10. total * G = G * total
    BY <1>1
  <1>11. G * SumOf(S) <= G * total /\ G * total <= G * SumOf(U)
    BY <1>5, <1>6, <1>7, <1>8, <1>9, <1>10
  <1>12. SumOf(S) <= total /\ total <= SumOf(U)
    <2>1. SumOf(S) \in Int /\ SumOf(U) \in Int /\ total \in Int /\ G \in Nat \ {0}
      BY <1>1, <1>3
    <2>2. /\ G * SumOf(S) <= G * total <=> SumOf(S) <= total
          /\ G * total <= G * SumOf(U) <=> total <= SumOf(U)
      BY <2>1, Multiplied, ZenonT(60)
    <2> QED
      BY <1>11, <2>2
  <1> QED
    BY <1>12 DEF S, U

\* What is left and given after some turns.
Dealt(s, total, amounts) ==
    /\ s.left \in Nat /\ s.given \in Seq(Nat) /\ DOMAIN s.given = DOMAIN amounts
    /\ \A l \in DOMAIN amounts : Shares(total, amounts)[l] <= s.given[l]
                                 /\ s.given[l] <= amounts[l]
    /\ s.left + SumOf(s.given) = total

\* Line l has been given as much as it has to be given at least.
Served(s, l, total, amounts) == RoundedUp(total, amounts)[l] <= s.given[l]

\* One turn.
LEMMA OneTurn ==
    ASSUME NEW total, NEW amounts, Allocatable(total, amounts), NEW s, NEW l \in DOMAIN amounts,
           Dealt(s, total, amounts)
    PROVE  LET next == GiveOne(s, l, amounts) IN
           /\ Dealt(next, total, amounts)
           /\ s.left = 0 => next.left = 0
           /\ next.left > 0 => s.left > 0 /\ Served(next, l, total, amounts)
           /\ \A m \in DOMAIN amounts : s.given[m] <= next.given[m]
  <1> DEFINE next == GiveOne(s, l, amounts)
             S == Shares(total, amounts)
             U == RoundedUp(total, amounts)
  <1>1. /\ amounts \in Seq(Nat) /\ total \in Nat
        /\ \A m \in DOMAIN amounts : amounts[m] \in Nat
    BY SumOfLines DEF Allocatable
  <1>2. \A m \in DOMAIN amounts : /\ S[m] \in Nat /\ U[m] \in Nat /\ S[m] <= amounts[m]
                                  /\ U[m] <= amounts[m] /\ U[m] <= S[m] + 1
    <2>1. /\ S \in Seq(Nat) /\ U \in Seq(Nat) /\ DOMAIN S = DOMAIN amounts
          /\ DOMAIN U = DOMAIN amounts
          /\ \A m \in DOMAIN amounts : /\ S[m] <= amounts[m]
                                       /\ U[m] = S[m] + IF S[m] < amounts[m] THEN 1 ELSE 0
      BY SharesBounded
    <2> HIDE DEF S, U
    <2>2. ASSUME NEW m \in DOMAIN amounts
          PROVE  S[m] \in Nat /\ U[m] \in Nat
      BY <2>1, SumOfLines
    <2>3. ASSUME NEW m \in DOMAIN amounts
          PROVE  U[m] <= amounts[m] /\ U[m] <= S[m] + 1
      <3>1. S[m] \in Nat /\ amounts[m] \in Nat /\ S[m] <= amounts[m]
        BY <1>1, <2>1, <2>2
      <3>2. CASE S[m] < amounts[m]
        <4>1. U[m] = S[m] + 1
          BY <2>1, <3>2
        <4> QED
          BY <3>1, <3>2, <4>1
      <3>3. CASE ~(S[m] < amounts[m])
        <4>1. U[m] = S[m] + 0
          BY <2>1, <3>3
        <4> QED
          BY <3>1, <4>1
      <3> QED
        BY <3>2, <3>3
    <2> QED
      BY <2>1, <2>2, <2>3
  <1> HIDE DEF S, U
  <1> DEFINE left == s.left
             given == s.given
  <1>3. /\ left \in Nat /\ given \in Seq(Nat) /\ DOMAIN given = DOMAIN amounts
        /\ \A m \in DOMAIN amounts : S[m] <= given[m] /\ given[m] <= amounts[m]
        /\ left + SumOf(given) = total
    BY DEF Dealt, S
  <1>a. next = IF left > 0 /\ given[l] < amounts[l]
               THEN [left |-> left - 1, given |-> [given EXCEPT ![l] = given[l] + 1]]
               ELSE s
    BY DEF GiveOne
  <1> HIDE DEF left, given, next
  <1>4. /\ DOMAIN given = 1..Len(given) /\ IsFiniteSet(DOMAIN given)
        /\ \A m \in DOMAIN amounts : given[m] \in Nat
        /\ SumOf(given) = SumFunctionOnSet(given, DOMAIN given) /\ SumOf(given) \in Nat
    BY <1>3, SumOfLines
  <1>5. CASE left > 0 /\ given[l] < amounts[l]
    <2> DEFINE more == [given EXCEPT ![l] = given[l] + 1]
    <2>1. next.left = left - 1 /\ next.given = more
      BY <1>5, <1>a
    <2>2. /\ DOMAIN more = DOMAIN amounts /\ more[l] = given[l] + 1 /\ more[l] \in Nat
          /\ \A m \in DOMAIN amounts \ {l} : more[m] = given[m]
      BY <1>3, <1>4
    <2>3. more \in Seq(Nat)
      BY <1>3, <1>4, ExceptSeq
    <2> HIDE DEF more
    <2>4. SumOf(more) = SumOf(given) + 1
      <3> DEFINE D == DOMAIN amounts
      <3>1. SumOf(more) = SumFunctionOnSet(more, D) /\ SumOf(given) = SumFunctionOnSet(given, D)
        BY <1>3, <1>4, <2>2, <2>3, SumOfLines
      <3>2. IsFiniteSet(D) /\ l \in D /\ \A m \in D : given[m] \in Int /\ more[m] \in Int
        BY <1>3, <1>4, <2>2
      <3>3. \A m \in D \ {l} : more[m] = given[m]
        BY <2>2
      <3> HIDE DEF D
      <3>4. SumFunctionOnSet(more, D) = SumFunctionOnSet(given, D) - given[l] + more[l]
        BY ONLY <3>2, <3>3, SumChanged
      <3> QED
        BY <1>4, <2>2, <3>1, <3>4
    <2>5. ASSUME NEW m \in DOMAIN amounts
          PROVE  S[m] <= more[m] /\ more[m] <= amounts[m] /\ given[m] <= more[m]
      <3>1. /\ S[m] \in Nat /\ given[m] \in Nat /\ amounts[m] \in Nat
            /\ S[m] <= given[m] /\ given[m] <= amounts[m]
        BY <1>1, <1>2, <1>3, <1>4
      <3>2. \/ more[m] = given[m] + 1 /\ given[m] < amounts[m]
            \/ more[m] = given[m]
        BY <1>5, <2>2
      <3> QED
        BY ONLY <3>1, <3>2
    <2>6. Dealt(next, total, amounts)
      <3>1. left - 1 \in Nat /\ (left - 1) + SumOf(more) = total
        BY <1>1, <1>3, <1>4, <1>5, <2>4
      <3> QED
        BY <2>1, <2>2, <2>3, <2>5, <3>1 DEF Dealt, S
    <2>7. Served(next, l, total, amounts)
      <3>1. /\ U[l] \in Nat /\ S[l] \in Nat /\ given[l] \in Nat
            /\ U[l] <= S[l] + 1 /\ S[l] <= given[l] /\ more[l] = given[l] + 1
        BY <1>2, <1>3, <1>4, <2>2
      <3>2. U[l] <= more[l]
        BY ONLY <3>1
      <3> QED
        BY <2>1, <3>2 DEF Served, U
    <2>8. left # 0 /\ \A m \in DOMAIN amounts : given[m] <= next.given[m]
      BY <1>3, <1>5, <2>1, <2>5
    <2> QED
      BY <1>5, <2>6, <2>7, <2>8 DEF next, left, given
  <1>6. CASE ~(left > 0 /\ given[l] < amounts[l])
    <2>1. next = s
      BY <1>6, <1>a
    <2>2. left > 0 => U[l] <= given[l]
      <3> SUFFICES ASSUME left > 0 PROVE U[l] <= given[l]
        OBVIOUS
      <3>1. given[l] = amounts[l]
        BY <1>1, <1>3, <1>4, <1>6
      <3> QED
        BY <1>2, <3>1
    <2>3. \A m \in DOMAIN amounts : given[m] <= given[m]
      BY <1>4
    <2>4. left > 0 => Served(s, l, total, amounts)
      BY <2>2 DEF Served, U, given
    <2>5. s.left = left /\ s.given = given
      BY DEF left, given
    <2> QED
      BY <2>1, <2>3, <2>4, <2>5 DEF next
  <1> QED
    BY <1>5, <1>6

\* After some turns: while something is left, each line whose turn has come has been
\* given its share and one more.
LEMMA Turns ==
    ASSUME NEW total, NEW amounts, Allocatable(total, amounts)
    PROVE  \A turn \in Nat :
              LET s == GiveOut(total, amounts)[turn] IN
              /\ Dealt(s, total, amounts)
              /\ s.left > 0 => \A l \in DOMAIN amounts : l <= turn => Served(s, l, total, amounts)
  <1> DEFINE after == GiveOut(total, amounts)
             n == Len(amounts)
             S == Shares(total, amounts)
             Good == {turn \in Nat :
                         /\ Dealt(after[turn], total, amounts)
                         /\ after[turn].left > 0 => \A l \in DOMAIN amounts :
                               l <= turn => Served(after[turn], l, total, amounts)}
  <1>1. /\ amounts \in Seq(Nat) /\ total \in Nat /\ DOMAIN amounts = 1..n /\ n \in Nat
        /\ \A l \in DOMAIN amounts : amounts[l] \in Nat
    BY SumOfLines DEF Allocatable
  <1>2. n # 0
    <2>1. SumOf(amounts) # 0 /\ SumOf(amounts) = SumFunctionOnSet(amounts, DOMAIN amounts)
      BY SumOfLines DEF Allocatable
    <2>2. SUFFICES ASSUME n = 0 PROVE FALSE
      OBVIOUS
    <2>3. DOMAIN amounts = {}
      BY <1>1, <2>2
    <2> QED
      BY <2>1, <2>3, SumOnNothing
  <1>3. Deals(after, total, amounts, Nat)
    BY GiveOutDeals
  <1> HIDE DEF after, n
  <1>4. after[0] = [left |-> total - SumOf(S), given |-> S]
    BY <1>3 DEF Deals
  <1>5. \A turn \in Nat : after[turn + 1] = GiveOne(after[turn], (turn % n) + 1, amounts)
    <2> TAKE turn \in Nat
    <2>1. turn + 1 \in Nat /\ turn + 1 # 0 /\ (turn + 1) - 1 = turn
      OBVIOUS
    <2> QED
      BY <1>3, <2>1 DEF Deals, n
  <1>6. 0 \in Good
    <2>1. /\ S \in Seq(Nat) /\ DOMAIN S = DOMAIN amounts /\ SumOf(S) <= total
          /\ \A l \in DOMAIN amounts : S[l] <= amounts[l]
      BY SharesBounded, SharesAddUp
    <2> HIDE DEF S
    <2>2. SumOf(S) \in Nat /\ \A l \in DOMAIN amounts : S[l] \in Nat
      BY <2>1, SumOfLines
    <2>3. total - SumOf(S) \in Nat /\ (total - SumOf(S)) + SumOf(S) = total
      BY <1>1, <2>1, <2>2
    <2>4. \A l \in DOMAIN amounts : S[l] <= S[l]
      BY <2>2
    <2>5. after[0].left = total - SumOf(S) /\ after[0].given = S
      BY <1>4
    <2>6. Dealt(after[0], total, amounts)
      BY <2>1, <2>3, <2>4, <2>5 DEF Dealt, S
    <2>7. \A l \in DOMAIN amounts : ~(l <= 0)
      BY <1>1
    <2> QED
      BY <2>6, <2>7
  <1>7. ASSUME NEW turn \in Nat, turn \in Good
        PROVE  turn + 1 \in Good
    <2> DEFINE s == after[turn]
               l == (turn % n) + 1
               next == after[turn + 1]
    <2>1. l \in DOMAIN amounts /\ (turn + 1 \in DOMAIN amounts => l = turn + 1)
      <3>1. turn % n \in 0..(n - 1) /\ (turn < n => turn % n = turn)
        BY <1>1, <1>2, Remainder
      <3> QED
        BY <1>1, <3>1
    <2>2. next = GiveOne(s, l, amounts)
      BY <1>5
    <2>3. /\ Dealt(s, total, amounts)
          /\ s.left > 0 => \A m \in DOMAIN amounts : m <= turn => Served(s, m, total, amounts)
      BY <1>7
    <2> HIDE DEF s, l, next
    <2>4. /\ Dealt(next, total, amounts)
          /\ next.left > 0 => s.left > 0 /\ Served(next, l, total, amounts)
          /\ \A m \in DOMAIN amounts : s.given[m] <= next.given[m]
      BY <2>1, <2>2, <2>3, OneTurn
    <2>5. ASSUME next.left > 0, NEW m \in DOMAIN amounts, m <= turn + 1
          PROVE  Served(next, m, total, amounts)
      <3>1. CASE m <= turn
        <4>1. Served(s, m, total, amounts)
          BY <2>3, <2>4, <2>5, <3>1
        <4>2. /\ s.given \in Seq(Nat) /\ DOMAIN s.given = DOMAIN amounts
              /\ next.given \in Seq(Nat) /\ DOMAIN next.given = DOMAIN amounts
              /\ RoundedUp(total, amounts) \in Seq(Nat)
              /\ DOMAIN RoundedUp(total, amounts) = DOMAIN amounts
          BY <2>3, <2>4, SharesBounded DEF Dealt
        <4>3. /\ s.given[m] \in Nat /\ next.given[m] \in Nat /\ RoundedUp(total, amounts)[m] \in Nat
              /\ s.given[m] <= next.given[m] /\ RoundedUp(total, amounts)[m] <= s.given[m]
          BY <2>4, <4>1, <4>2, SumOfLines DEF Served
        <4>4. RoundedUp(total, amounts)[m] <= next.given[m]
          BY ONLY <4>3
        <4> QED
          BY <4>4 DEF Served
      <3>2. CASE m = turn + 1
        BY <2>1, <2>4, <2>5, <3>2
      <3>3. m \in Nat
        BY <1>1
      <3> QED
        BY <2>5, <3>1, <3>2, <3>3
    <2> QED
      BY <2>4, <2>5 DEF next
  <1> HIDE DEF Good
  <1>8. Nat \subseteq Good
    BY <1>6, <1>7, EveryNumber
  <1> QED
    BY <1>8 DEF Good, after

\* The whole total is given out, and no line is given more than its amount.
LEMMA AllGivenOut ==
    ASSUME NEW total, NEW amounts, Allocatable(total, amounts)
    PROVE  LET shares == AllocateProportional(total, amounts) IN
           /\ shares \in Seq(Nat) /\ DOMAIN shares = DOMAIN amounts
           /\ \A l \in DOMAIN amounts : shares[l] <= amounts[l]
           /\ SumOf(shares) = total
  <1> DEFINE n == Len(amounts)
             turns == n * total
             s == GiveOut(total, amounts)[turns]
             U == RoundedUp(total, amounts)
  <1>1. total \in Nat /\ n \in Nat /\ DOMAIN amounts = 1..n /\ IsFiniteSet(DOMAIN amounts)
    BY SumOfLines DEF Allocatable
  <1>2. turns \in Nat
    BY <1>1
  <1>3. total # 0 => n <= turns
    <2> SUFFICES ASSUME total # 0 PROVE n <= turns
      OBVIOUS
    <2>1. CASE n = 0
      BY <1>1, <1>2, <2>1
    <2>2. CASE n # 0
      <3>1. n \in Nat \ {0} /\ 1 \in Int /\ total \in Int /\ 1 <= total
        BY <1>1, <2>2
      <3>2. n * 1 <= n * total <=> 1 <= total
        BY <3>1, Multiplied, ZenonT(60)
      <3>3. n * 1 = n
        BY ONLY <3>1
      <3> QED
        BY <3>1, <3>2, <3>3
    <2> QED
      BY <2>1, <2>2
  <1> HIDE DEF n, turns
  <1>4. /\ Dealt(s, total, amounts)
        /\ s.left > 0 => \A l \in DOMAIN amounts : l <= turns => Served(s, l, total, amounts)
    BY <1>2, Turns
  <1>5. AllocateProportional(total, amounts) = s.given
    BY DEF AllocateProportional, turns, n
  <1> DEFINE given == s.given
  <1>6. /\ s.left \in Nat /\ given \in Seq(Nat) /\ DOMAIN given = DOMAIN amounts
        /\ \A l \in DOMAIN amounts : given[l] <= amounts[l]
        /\ s.left + SumOf(given) = total
    BY <1>4 DEF Dealt
  <1>7. s.left > 0 => \A l \in DOMAIN amounts : l <= turns => U[l] <= given[l]
    BY <1>4 DEF Served
  <1> HIDE DEF s, given
  <1>8. /\ SumOf(given) \in Nat /\ SumOf(given) = SumFunctionOnSet(given, DOMAIN amounts)
        /\ \A l \in DOMAIN amounts : given[l] \in Nat
    BY <1>6, SumOfLines
  <1>9. s.left = 0
    <2> SUFFICES ASSUME s.left # 0 PROVE FALSE
      OBVIOUS
    <2>1. s.left > 0 /\ total # 0
      BY <1>1, <1>6, <1>8
    <2>2. \A l \in DOMAIN amounts : l <= turns
      BY <1>1, <1>2, <1>3, <2>1
    <2>3. \A l \in DOMAIN amounts : U[l] <= given[l]
      BY <1>7, <2>1, <2>2
    <2>4. U \in Seq(Nat) /\ DOMAIN U = DOMAIN amounts /\ total <= SumOf(U)
      BY SharesBounded, SharesAddUp
    <2> HIDE DEF U
    <2>5. /\ SumOf(U) \in Nat /\ SumOf(U) = SumFunctionOnSet(U, DOMAIN amounts)
          /\ \A l \in DOMAIN amounts : U[l] \in Nat
      BY <2>4, SumOfLines
    <2>6. \A l \in DOMAIN amounts : U[l] \in Int /\ given[l] \in Int /\ U[l] <= given[l]
      BY <1>8, <2>3, <2>5
    <2>7. SumFunctionOnSet(U, DOMAIN amounts) <= SumFunctionOnSet(given, DOMAIN amounts)
      BY <1>1, <2>6, SumOrder
    <2> QED
      BY <1>1, <1>6, <1>8, <2>1, <2>4, <2>5, <2>7
  <1>10. SumOf(given) = total
    BY <1>1, <1>6, <1>8, <1>9
  <1> QED
    BY <1>5, <1>6, <1>10 DEF given

-----------------------------------------------------------------------------
(* The quote (quoteCounterSale)                                            *)

\* What of a quote the books are made from.
WellQuoted(quote) ==
    /\ quote \in Quote
    /\ DOMAIN quote.discounts = DOMAIN quote.lines
    /\ \A l \in DOMAIN quote.lines : quote.discounts[l] <= LineTotal(quote.lines[l])
    /\ SumOf(quote.discounts) = quote.discount
    /\ quote.discount <= Subtotal(quote)
    /\ quote.coupon = NoCoupon => quote.discount = 0

MenuShape == menu \in [Items -> [price : Nat, soldOut : BOOLEAN]]

\* What a line costs is at least the price of its item.
LEMMA LineWorth ==
    ASSUME NEW line \in Line
    PROVE  LineTotal(line) \in Nat /\ line.price <= LineTotal(line)
  <1> DEFINE unit == line.price + Extra[line.item]
             units == Quantity[line.item]
  <1>1. line.price \in Nat /\ unit \in Nat /\ units \in Nat \ {0} /\ line.price <= unit
    BY DEF Line, CounterAssumption
  <1>2. LineTotal(line) = unit * units
    BY DEF LineTotal
  <1> HIDE DEF unit, units
  <1>3. CASE unit = 0
    BY <1>1, <1>2, <1>3
  <1>4. CASE unit # 0
    <2>1. unit \in Nat \ {0} /\ 1 \in Int /\ units \in Int /\ 1 <= units
      BY <1>1, <1>4
    <2>2. unit * 1 <= unit * units <=> 1 <= units
      BY <2>1, Multiplied, ZenonT(60)
    <2> DEFINE all == unit * units
    <2>3. unit * 1 = unit /\ all \in Nat
      BY ONLY <1>1
    <2>4. unit <= all
      BY <2>1, <2>2, <2>3
    <2> HIDE DEF all
    <2>5. line.price <= all
      BY <1>1, <2>3, <2>4
    <2> QED
      BY <1>2, <2>3, <2>5 DEF all
  <1> QED
    BY <1>3, <1>4

LEMMA LinesWorth ==
    ASSUME NEW lines \in Seq(Line)
    PROVE  /\ LineAmounts(lines) \in Seq(Nat) /\ DOMAIN LineAmounts(lines) = DOMAIN lines
           /\ DOMAIN lines = 1..Len(lines) /\ Len(lines) \in Nat
           /\ IsFiniteSet(DOMAIN lines)
           /\ \A l \in DOMAIN lines : /\ lines[l] \in Line
                                      /\ LineAmounts(lines)[l] = LineTotal(lines[l])
                                      /\ LineTotal(lines[l]) \in Nat
           /\ SumOf(LineAmounts(lines)) \in Nat
  <1>1. DOMAIN lines = 1..Len(lines) /\ Len(lines) \in Nat
    OBVIOUS
  <1>2. \A l \in DOMAIN lines : lines[l] \in Line /\ LineTotal(lines[l]) \in Nat
    BY <1>1, ElementOfSeq, LineWorth
  <1>3. LineAmounts(lines) = [l \in 1..Len(lines) |-> LineTotal(lines[l])]
    BY <1>1 DEF LineAmounts
  <1>4. LineAmounts(lines) \in [1..Len(lines) -> Nat]
    BY <1>1, <1>2, <1>3
  <1>5. LineAmounts(lines) \in Seq(Nat)
    BY <1>1, <1>4, FunctionSeq
  <1>6. \A l \in DOMAIN lines : LineAmounts(lines)[l] = LineTotal(lines[l])
    BY <1>1, <1>3
  <1>7. SumOf(LineAmounts(lines)) \in Nat
    BY <1>5, SumOfLines
  <1>8. DOMAIN LineAmounts(lines) = DOMAIN lines
    BY <1>1, <1>3
  <1>9. IsFiniteSet(DOMAIN lines)
    BY <1>1, FS_Interval
  <1> QED
    BY <1>1, <1>2, <1>5, <1>6, <1>7, <1>8, <1>9

LEMMA ResolvedShape ==
    ASSUME MenuShape, NEW cart \in Seq(Items)
    PROVE  /\ Resolved(cart) \in Seq(Line) /\ DOMAIN Resolved(cart) = DOMAIN cart
           /\ \A l \in DOMAIN cart : Resolved(cart)[l] = [item |-> cart[l], price |-> menu[cart[l]].price]
  <1>1. DOMAIN cart = 1..Len(cart) /\ Len(cart) \in Nat /\ \A l \in DOMAIN cart : cart[l] \in Items
    BY ElementOfSeq
  <1>2. \A l \in DOMAIN cart : menu[cart[l]].price \in Nat
    BY <1>1 DEF MenuShape
  <1>3. Resolved(cart) \in [1..Len(cart) -> Line]
    BY <1>1, <1>2 DEF Resolved, Line
  <1>4. Resolved(cart) \in Seq(Line)
    BY <1>1, <1>3, FunctionSeq
  <1> QED
    BY <1>4 DEF Resolved

\* One line gets everything.
LEMMA SumOfOneLine ==
    ASSUME NEW D, IsFiniteSet(D), NEW x \in D, NEW a \in Int
    PROVE  SumFunctionOnSet([l \in D |-> IF l = x THEN a ELSE 0], D) = a
  <1> DEFINE f == [l \in D |-> IF l = x THEN a ELSE 0]
  <1>1. \A l \in D : f[l] \in Int
    OBVIOUS
  <1>2. \A l \in D \ {x} : f[l] = 0
    OBVIOUS
  <1>3. f[x] = a
    OBVIOUS
  <1> HIDE DEF f
  <1>4. SumFunctionOnSet(f, D) = f[x] + SumFunctionOnSet(f, D \ {x})
    BY <1>1, SumWithout
  <1>5. SumFunctionOnSet(f, D \ {x}) = 0
    <2>1. IsFiniteSet(D \ {x})
      BY FS_Subset
    <2> QED
      BY <1>2, <2>1, SumOfZeros
  <1> QED
    BY <1>3, <1>4, <1>5 DEF f

\* What a till may ask a quote for.
Asked(body) ==
    body.cart \in Seq(Items) /\ body.coupon \in Coupons \cup {NoCoupon} /\ body.target \in Nat

\* A quote that is given adds up, and its coupon is worth something.
LEMMA QuoteMade ==
    ASSUME MenuShape, NEW body, Asked(body), Quotable(body)
    PROVE  /\ WellQuoted(QuoteOf(body)) /\ QuoteOf(body).coupon = body.coupon
           /\ QuoteOf(body).lines # << >>
           /\ body.coupon # NoCoupon => QuoteOf(body).discount > 0 /\ Redeemable(body.coupon)
  <1> DEFINE lines == Resolved(body.cart)
             amounts == LineAmounts(lines)
             discount == CouponDiscount(body, lines)
             discounts == QuoteOf(body).discounts
             x == TargetLine(body)
             D == DOMAIN lines
  <1>1. /\ body.cart \in Seq(Items) /\ body.coupon \in Coupons \cup {NoCoupon}
        /\ lines \in Seq(Line) /\ D = DOMAIN body.cart    <2>1. body.cart \in Seq(Items) /\ body.coupon \in Coupons \cup {NoCoupon}
      BY DEF Asked
    <2> QED
      BY <2>1, ResolvedShape
  <1>2. /\ body.cart # << >>
        /\ body.coupon # NoCoupon => /\ Redeemable(body.coupon) /\ discount > 0
                                     /\ IsAmount(body.coupon) \/ x \in D
    BY <1>1 DEF Quotable, Candidates
  <1>3. /\ QuoteOf(body).lines = lines /\ QuoteOf(body).coupon = body.coupon
        /\ QuoteOf(body).discount = discount
        /\ discounts = IF discount = 0 THEN [l \in D |-> 0]
                       ELSE IF IsAmount(body.coupon) THEN AllocateProportional(discount, amounts)
                       ELSE [l \in D |-> IF l = x THEN discount ELSE 0]
    BY DEF QuoteOf
  <1>4. discount = IF body.coupon = NoCoupon THEN 0
                   ELSE IF IsAmount(body.coupon) THEN Smaller(Benefit[body.coupon], SumOf(amounts))
                   ELSE Smaller(lines[x].price, SumOf(amounts))
    BY DEF CouponDiscount
  <1>a. QuoteOf(body) = [lines |-> lines, coupon |-> body.coupon, discount |-> discount,
                         discounts |-> discounts]
    BY DEF QuoteOf
  <1> HIDE DEF lines, discount, discounts, x
  <1>5. /\ amounts \in Seq(Nat) /\ DOMAIN amounts = D /\ D = 1..Len(lines) /\ Len(lines) \in Nat
        /\ IsFiniteSet(D) /\ SumOf(amounts) \in Nat
        /\ \A l \in D : /\ lines[l] \in Line /\ amounts[l] = LineTotal(lines[l])
                        /\ amounts[l] \in Nat /\ lines[l].price \in Nat
                        /\ lines[l].price <= amounts[l]
    <2>1. /\ amounts \in Seq(Nat) /\ DOMAIN amounts = D /\ D = 1..Len(lines)
          /\ Len(lines) \in Nat /\ IsFiniteSet(D) /\ SumOf(amounts) \in Nat
          /\ \A l \in D : /\ lines[l] \in Line /\ amounts[l] = LineTotal(lines[l])
                          /\ LineTotal(lines[l]) \in Nat
      BY <1>1, LinesWorth
    <2>2. \A l \in D : lines[l].price <= LineTotal(lines[l])
      BY <2>1, LineWorth
    <2>3. \A l \in D : lines[l].price \in Nat
      BY <2>1 DEF Line
    <2> HIDE DEF amounts, D
    <2> QED
      BY <2>1, <2>2, <2>3
  <1> HIDE DEF amounts, D
  <1>6. discount \in Nat /\ discount <= SumOf(amounts)
    <2>1. body.coupon # NoCoupon => Benefit[body.coupon] \in Nat
      BY <1>1
    <2>2. body.coupon # NoCoupon /\ ~IsAmount(body.coupon) => lines[x].price \in Nat
      BY <1>2, <1>5
    <2> QED
      BY <1>4, <1>5, <2>1, <2>2 DEF Smaller
  <1>7. /\ discounts \in Seq(Nat) /\ DOMAIN discounts = D
        /\ \A l \in D : discounts[l] <= amounts[l]
        /\ SumOf(discounts) = discount
    <2>1. CASE discount = 0
      <3>1. discounts = [l \in D |-> 0]
        BY <1>3, <2>1
      <3>2. discounts \in Seq(Nat)
        BY <1>5, <3>1, FunctionSeq
      <3>3. SumOf(discounts) = 0
        <4>1. SumFunctionOnSet(discounts, D) = 0
          BY <1>5, <3>1, SumOfZeros
        <4> QED
          BY <3>1, <4>1 DEF SumOf, SumFunction
      <3> QED
        BY <1>5, <2>1, <3>1, <3>2, <3>3
    <2>2. CASE discount # 0 /\ IsAmount(body.coupon)
      <3>1. discounts = AllocateProportional(discount, amounts)
        BY <1>3, <2>2
      <3>2. Allocatable(discount, amounts)
        BY <1>5, <1>6, <2>2 DEF Allocatable
      <3> QED
        BY <1>5, <3>1, <3>2, AllGivenOut
    <2>3. CASE discount # 0 /\ ~IsAmount(body.coupon)
      <3>1. discounts = [l \in D |-> IF l = x THEN discount ELSE 0]
        BY <1>3, <2>3
      <3>2. x \in D /\ discount <= lines[x].price
        <4>1. body.coupon # NoCoupon
          BY <1>4, <2>3
        <4>2. x \in D /\ discount = Smaller(lines[x].price, SumOf(amounts))
          BY <1>2, <1>4, <2>3, <4>1
        <4> QED
          BY <1>5, <4>2 DEF Smaller
      <3>3. discounts \in Seq(Nat)
        <4>1. discounts \in [1..Len(lines) -> Nat]
          BY <1>5, <1>6, <3>1
        <4> QED
          BY <1>5, <4>1, FunctionSeq
      <3>4. SumOf(discounts) = discount
        <4>1. SumFunctionOnSet(discounts, D) = discount
          <5>1. IsFiniteSet(D) /\ x \in D /\ discount \in Int
            BY <1>5, <1>6, <3>2
          <5>2. SumFunctionOnSet([l \in D |-> IF l = x THEN discount ELSE 0], D) = discount
            BY ONLY <5>1, SumOfOneLine
          <5> QED
            BY <3>1, <5>2
        <4> QED
          BY <3>1, <4>1 DEF SumOf, SumFunction
      <3>5. \A l \in D : discounts[l] <= amounts[l]
        <4>1. lines[x].price \in Nat /\ lines[x].price <= amounts[x] /\ amounts[x] \in Nat
          BY <1>5, <3>2
        <4>2. discount <= amounts[x]
          BY <1>6, <3>2, <4>1
        <4> QED
          BY <1>5, <3>1, <4>2
      <3> QED
        BY <3>1, <3>3, <3>4, <3>5
    <2> QED
      BY <2>1, <2>2, <2>3
  <1>8. body.coupon = NoCoupon => discount = 0
    BY <1>4
  <1>9. QuoteOf(body) \in Quote
    BY <1>1, <1>6, <1>7, <1>a DEF Quote
  <1>10. lines # << >>
    <2>1. Len(body.cart) # 0 /\ DOMAIN body.cart = 1..Len(body.cart)
      BY <1>1, <1>2, EmptySeq
    <2>2. 1 \in DOMAIN body.cart
      BY <1>1, <2>1
    <2> QED
      BY <1>1, <2>2 DEF D
  <1>11. WellQuoted(QuoteOf(body))
    <2>1. Subtotal(QuoteOf(body)) = SumOf(amounts)
      BY <1>3 DEF Subtotal, amounts
    <2> QED
      BY <1>3, <1>5, <1>6, <1>7, <1>8, <1>9, <2>1 DEF WellQuoted, discounts, D
  <1> QED
    BY <1>2, <1>3, <1>10, <1>11

-----------------------------------------------------------------------------
(* The shapes.                                                             *)

OrderStatuses == ActiveOrderStatuses \cup NotCharged \cup {"SERVED"}
OrderRow == [sale : Nat, status : OrderStatuses,
             lines : UNION {[part -> Line] : part \in SUBSET Nat}, live : SUBSET Nat]
PaymentRecord == [sale : Nat, kind : PaymentKinds, amount : Nat,
                  coupon : Coupons \cup {NoCoupon},
                  allocations : UNION {[part -> Nat] : part \in SUBSET Nat},
                  reversedPaymentId : Nat]

Shapes ==
    /\ MenuShape /\ \A i \in Items : menu[i].price \in Prices[i]
    /\ settings \in Settings
    /\ coupons \in [Coupons -> {"AVAILABLE", "USED", "CANCELLED"}]
    /\ expired \subseteq Coupons
    /\ sales \in Seq(SaleRow)
    /\ orders \in Seq(OrderRow)
    /\ payments \in Seq(PaymentRecord)
    /\ redemptions \in [Coupons -> [sale : Nat, status : {"NONE", "LIVE", "CANCELLED"}]]
    /\ till \in [Tills -> Till]
    /\ req \in [Reqs -> Request]

-----------------------------------------------------------------------------
(* The inductive invariant.                                                *)

\* Keys are counted from one, and a till sends no key beyond the bound.
KeysInv ==
    /\ \A t \in Tills : till[t].key # 0
    /\ \A r \in Reqs : req[r].pc # "idle" => req[r].key \in 1..MaxKeys
    /\ \A n \in DOMAIN sales : sales[n].key \in 1..MaxKeys

\* A key of a till has bought one sale at most.
OneSale ==
    \A m, n \in DOMAIN sales :
        sales[m].till = sales[n].till /\ sales[m].key = sales[n].key => m = n

\* An order belongs to a sale, and what is taken back is not served.
OrdersInv ==
    \A o \in DOMAIN orders :
        /\ orders[o].sale \in DOMAIN sales
        /\ IsFiniteSet(DOMAIN orders[o].lines)
        /\ orders[o].live \subseteq DOMAIN orders[o].lines
        /\ sales[orders[o].sale].status = "CANCELLED" => orders[o].status = "CANCELLED"

\* The row is a refund of the other.
Refunds(row, old) ==
    /\ old.kind \in Originals
    /\ row.sale = old.sale /\ row.amount = old.amount /\ row.allocations = old.allocations
    /\ row.coupon = NoCoupon

\* An original is refunded when its sale has been taken back, and then once.
RefundsInv ==
    /\ \A p \in DOMAIN payments :
          /\ payments[p].sale \in DOMAIN sales
          /\ payments[p].kind \in Originals =>
                /\ payments[p].reversedPaymentId = 0
                /\ sales[payments[p].sale].status = "CANCELLED" => Reversed(p)
          /\ payments[p].kind = "REFUND" =>
                /\ payments[p].reversedPaymentId \in DOMAIN payments
                /\ Refunds(payments[p], payments[payments[p].reversedPaymentId])
                /\ sales[payments[p].sale].status = "CANCELLED"
    /\ \A p, q \in DOMAIN payments :
          /\ payments[p].kind = "REFUND" /\ payments[q].kind = "REFUND"
          /\ payments[p].reversedPaymentId = payments[q].reversedPaymentId
          => p = q

\* What an order was sold for, whatever has been cancelled of it.
FullAmount(order) == SumFunction([l \in DOMAIN order.lines |-> LineTotal(order.lines[l])])
Worth(n) == SumFunction([o \in RowsOf(orders, n) |-> FullAmount(orders[o])])
OfKinds(rows, n, kinds) == {p \in RowsOf(rows, n) : rows[p].kind \in kinds}
OriginalsOf(n, kinds) == OfKinds(payments, n, kinds)

\* The discount and the charge of a sale make up what it was sold for.
MoneyInv == \A n \in DOMAIN sales : Worth(n) = Amounts(OriginalsOf(n, Originals))

CounterInv ==
    /\ Shapes /\ KeysInv /\ OneSale /\ OrdersInv /\ RefundsInv /\ MoneyInv
    /\ CouponBuysOneDiscount /\ AllocationsAddUp

-----------------------------------------------------------------------------
(* What the tills show and what is in flight.                              *)

TillsOK ==
    /\ till \in [Tills -> Till] /\ \A t \in Tills : till[t].key # 0
    /\ req \in [Reqs -> Request]
    /\ \A r \in Reqs : req[r].pc # "idle" => req[r].key \in 1..MaxKeys

LEMMA NothingShown == NoQuote \in Quote /\ EmptyOrder \in Order /\ Idle \in Request /\ Idle.pc = "idle"
  <1>1. << >> \in Seq(Items) /\ << >> \in Seq(Line) /\ << >> \in Seq(Nat)
    OBVIOUS
  <1>2. NoQuote \in Quote /\ EmptyOrder \in Order /\ NoBody \in Body
    BY <1>1 DEF NoQuote, Quote, EmptyOrder, Order, NoBody, Body
  <1>3. (CHOOSE t \in Tills : TRUE) \in Tills
    OBVIOUS
  <1>4. Idle \in Request
    BY <1>2, <1>3 DEF Idle, Request
  <1> QED
    BY <1>2, <1>4 DEF Idle

LEMMA NewTillShape == ASSUME NEW key \in Nat PROVE NewTill(key) \in Till /\ NewTill(key).key = key
  BY NothingShown DEF NewTill, Till

LEMMA FreshKeys ==
    ASSUME TillsOK, NEW t \in Tills
    PROVE  FreshKey(t) \in Nat \ {0}
  <1>1. till[t].key \in Nat \ {0}
    BY DEF TillsOK, Till
  <1> QED
    BY <1>1 DEF FreshKey

\* One till is changed.
LEMMA TillChanged ==
    ASSUME TillsOK, NEW t \in Tills, NEW new \in Till, new.key # 0,
           till' = [till EXCEPT ![t] = new], UNCHANGED req
    PROVE  TillsOK'
  BY DEF TillsOK

LEMMA OrderChanged ==
    ASSUME TillsOK, NEW t \in Tills, NEW order \in Order, ChangeOrder(t, order)
    PROVE  TillsOK'
  <1> DEFINE old == till[t]
             new == [old EXCEPT !.order = order, !.key = FreshKey(t),
                        !.quoting = order.cart # << >>,
                        !.quote = IF order.cart = << >> THEN NoQuote ELSE old.quote,
                        !.quoteError = old.quoteError /\ order.cart # << >>]
  <1>1. till' = [till EXCEPT ![t] = new] /\ UNCHANGED req
    BY DEF ChangeOrder, TillsOK
  <1>2. old \in Till /\ FreshKey(t) \in Nat \ {0}
    BY FreshKeys DEF TillsOK
  <1>3. new \in Till /\ new.key # 0
    <2> DEFINE quote == IF order.cart = << >> THEN NoQuote ELSE old.quote
               quoting == order.cart # << >>
               error == old.quoteError /\ order.cart # << >>
    <2>1. quote \in Quote /\ quoting \in BOOLEAN /\ error \in BOOLEAN
      BY <1>2, NothingShown DEF Till
    <2>2. new = [old EXCEPT !.order = order, !.key = FreshKey(t), !.quoting = quoting,
                            !.quote = quote, !.quoteError = error]
      OBVIOUS
    <2> HIDE DEF quote, quoting, error, new, old
    <2> QED
      BY <1>2, <2>1, <2>2 DEF Till
  <1> HIDE DEF new
  <1> QED
    BY <1>1, <1>3, TillChanged

LEMMA TillsEdited ==
    ASSUME TillsOK, NEW t \in Tills,
           \/ \E cart \in Carts \cup {<< >>} : EditCart(t, cart)
           \/ \E c \in Coupons : CheckCoupon(t, c)
           \/ RemoveCoupon(t)
           \/ \E l \in DOMAIN till[t].order.cart : ChooseTarget(t, l)
    PROVE  TillsOK'
  <1> DEFINE order == till[t].order
  <1>1. order \in Order /\ order.cart \in Seq(Items)
    BY DEF TillsOK, Till, Order
  <1>2. ASSUME NEW cart \in Carts \cup {<< >>}, EditCart(t, cart)
        PROVE  TillsOK'
    <2>1. cart \in Seq(Items)
      <3>1. cart \in Carts => cart \in Seq(Items)
        BY CounterAssumption DEF CounterAssumption
      <3>2. cart = << >> => cart \in Seq(Items)
        OBVIOUS
      <3> QED
        BY <3>1, <3>2
    <2>2. [order EXCEPT !.cart = cart] \in Order
      BY <1>1, <2>1 DEF Order
    <2> QED
      BY <1>2, <2>2, OrderChanged DEF EditCart
  <1>3. ASSUME NEW c \in Coupons \cup {NoCoupon}
        PROVE  [order EXCEPT !.coupon = c, !.target = 0] \in Order
    BY <1>1 DEF Order
  <1>4. ASSUME NEW c \in Coupons, CheckCoupon(t, c)
        PROVE  TillsOK'
    BY <1>3, <1>4, OrderChanged DEF CheckCoupon
  <1>5. ASSUME RemoveCoupon(t)
        PROVE  TillsOK'
    BY <1>3, <1>5, OrderChanged DEF RemoveCoupon
  <1>6. ASSUME NEW l \in DOMAIN order.cart, ChooseTarget(t, l)
        PROVE  TillsOK'
    <2>1. l \in Nat
      BY <1>1
    <2>2. [order EXCEPT !.target = l] \in Order
      BY <1>1, <2>1 DEF Order
    <2> QED
      BY <1>6, <2>2, OrderChanged DEF ChooseTarget
  <1> QED
    BY <1>2, <1>4, <1>5, <1>6

LEMMA TillsWork ==
    ASSUME TillsOK, MenuShape, NEW t \in Tills,
           \/ ChooseMethod(t)
           \/ ReceiveQuote(t)
           \/ \E r \in Reqs : Confirm(t, r)
           \/ LoseAnswer(t)
           \/ RecoverPrevious(t)
    PROVE  TillsOK'
  <1> DEFINE old == till[t]
  <1>1. old \in Till /\ old.key \in Nat \ {0} /\ FreshKey(t) \in Nat \ {0}
    BY FreshKeys DEF TillsOK, Till
  <1>2. ASSUME ChooseMethod(t)
        PROVE  TillsOK'
    <2> DEFINE new == [old EXCEPT !.key = FreshKey(t)]
    <2>1. till' = [till EXCEPT ![t] = new] /\ UNCHANGED req
      BY <1>2 DEF ChooseMethod, TillsOK
    <2>2. new \in Till /\ new.key # 0
      BY <1>1 DEF Till
    <2> HIDE DEF new
    <2> QED
      BY <2>1, <2>2, TillChanged
  <1>3. ASSUME ReceiveQuote(t)
        PROVE  TillsOK'
    <2> DEFINE quote == IF Quotable(old.order) THEN QuoteOf(old.order) ELSE NoQuote
               error == ~Quotable(old.order)
               new == [old EXCEPT !.quoting = FALSE, !.quote = quote, !.quoteError = error]
    <2>1. till' = [till EXCEPT ![t] = new] /\ UNCHANGED req
      BY <1>3 DEF ReceiveQuote, TillsOK
    <2>2. Asked(old.order)
      BY <1>1 DEF Till, Order, Asked
    <2>3. quote \in Quote /\ error \in BOOLEAN
      BY <2>2, QuoteMade, NothingShown DEF WellQuoted
    <2> HIDE DEF quote, error, old
    <2>4. new \in Till /\ new.key # 0
      BY <1>1, <2>3 DEF Till
    <2> HIDE DEF new
    <2> QED
      BY <2>1, <2>4, TillChanged
  <1>4. ASSUME NEW r \in Reqs, Confirm(t, r)
        PROVE  TillsOK'
    <2> DEFINE new == [old EXCEPT !.waiting = r, !.recoverHint = FALSE]
               method == TotalAmount(old.quote) > 0
               body == [cart |-> old.order.cart, coupon |-> old.order.coupon,
                        target |-> old.order.target, method |-> method]
               sent == [pc |-> "received", till |-> t, key |-> old.key, body |-> body,
                        quote |-> old.quote]
    <2>1. /\ till' = [till EXCEPT ![t] = new] /\ req' = [req EXCEPT ![r] = sent]
          /\ old.key <= MaxKeys
      BY <1>4 DEF Confirm, TillsOK
    <2>2. new \in Till /\ new.key # 0
      BY <1>1 DEF Till
    <2>3. method \in BOOLEAN
      OBVIOUS
    <2>4. old.order \in Order /\ old.quote \in Quote
      BY <1>1 DEF Till
    <2> HIDE DEF old, new, method
    <2>5. body \in Body
      BY <2>3, <2>4 DEF Order, Body
    <2>6. old.key \in 1..MaxKeys
      BY <1>1, <2>1
    <2> HIDE DEF body
    <2>7. sent \in Request /\ sent.key \in 1..MaxKeys
      BY <1>1, <2>4, <2>5, <2>6 DEF Request
    <2> HIDE DEF sent
    <2> QED
      BY <2>1, <2>2, <2>7 DEF TillsOK
  <1>5. ASSUME LoseAnswer(t)
        PROVE  TillsOK'
    <2> DEFINE new == [old EXCEPT !.waiting = NoReq, !.recoverHint = TRUE]
    <2>1. till' = [till EXCEPT ![t] = new] /\ UNCHANGED req
      BY <1>5 DEF LoseAnswer, TillsOK
    <2>2. new \in Till /\ new.key # 0
      BY <1>1 DEF Till
    <2> HIDE DEF new
    <2> QED
      BY <2>1, <2>2, TillChanged
  <1>6. ASSUME RecoverPrevious(t)
        PROVE  TillsOK'
    <2>1. NewTill(FreshKey(t)) \in Till /\ NewTill(FreshKey(t)).key # 0
      BY <1>1, NewTillShape
    <2> QED
      BY <1>6, <2>1, TillChanged DEF RecoverPrevious
  <1> QED
    BY <1>2, <1>3, <1>4, <1>5, <1>6

\* An answer is taken by the tills that wait for it.
LEMMA TillsAnswered ==
    ASSUME TillsOK, NEW r \in Reqs, NEW answered \in [Tills -> Till],
           \A t \in Tills : answered[t].key # 0, AnswerTill(r, answered)
    PROVE  TillsOK'
  <1>1. till' = [t \in Tills |-> IF till[t].waiting = r THEN answered[t] ELSE till[t]]
    BY DEF AnswerTill
  <1>2. till' \in [Tills -> Till] /\ \A t \in Tills : till'[t].key # 0
    BY <1>1 DEF TillsOK
  <1>3. req' = [req EXCEPT ![r] = Idle]
    BY DEF AnswerTill, Finish
  <1>4. /\ req' \in [Reqs -> Request]
        /\ \A q \in Reqs : req'[q].pc # "idle" => req'[q].key \in 1..MaxKeys
    BY <1>3, NothingShown DEF TillsOK
  <1> QED
    BY <1>2, <1>4 DEF TillsOK

LEMMA SaleAnswered ==
    ASSUME TillsOK, NEW r \in Reqs, AnswerSale(r)
    PROVE  TillsOK'
  <1> DEFINE answered == [t \in Tills |-> NewTill(FreshKey(t))]
  <1>1. answered \in [Tills -> Till] /\ \A t \in Tills : answered[t].key # 0
    <2>1. \A t \in Tills : NewTill(FreshKey(t)) \in Till /\ NewTill(FreshKey(t)).key # 0
      BY FreshKeys, NewTillShape
    <2> QED
      BY <2>1
  <1>2. AnswerTill(r, answered)
    BY DEF AnswerSale
  <1> HIDE DEF answered
  <1> QED
    BY <1>1, <1>2, TillsAnswered

LEMMA ErrorAnswered ==
    ASSUME TillsOK, NEW r \in Reqs, AnswerError(r)
    PROVE  TillsOK'
  <1> DEFINE answered == [t \in Tills |-> [till[t] EXCEPT !.waiting = NoReq, !.recoverHint = TRUE]]
  <1>1. answered \in [Tills -> Till] /\ \A t \in Tills : answered[t].key # 0
    <2>1. ASSUME NEW old \in Till, old.key # 0
          PROVE  /\ [old EXCEPT !.waiting = NoReq, !.recoverHint = TRUE] \in Till
                 /\ [old EXCEPT !.waiting = NoReq, !.recoverHint = TRUE].key # 0
      BY <2>1 DEF Till
    <2>2. \A t \in Tills : till[t] \in Till /\ till[t].key # 0
      BY DEF TillsOK
    <2> QED
      BY <2>1, <2>2
  <1>2. AnswerTill(r, answered)
    BY DEF AnswerError
  <1> HIDE DEF answered
  <1> QED
    BY <1>1, <1>2, TillsAnswered

LEMMA StaleAnswered ==
    ASSUME TillsOK, NEW r \in Reqs, NEW quote \in Quote, AnswerStale(r, quote)
    PROVE  TillsOK'
  <1> DEFINE answered == [t \in Tills |-> [till[t] EXCEPT !.waiting = NoReq, !.quote = quote]]
  <1>1. answered \in [Tills -> Till] /\ \A t \in Tills : answered[t].key # 0
    <2>1. ASSUME NEW old \in Till, old.key # 0
          PROVE  /\ [old EXCEPT !.waiting = NoReq, !.quote = quote] \in Till
                 /\ [old EXCEPT !.waiting = NoReq, !.quote = quote].key # 0
      BY <2>1 DEF Till
    <2>2. \A t \in Tills : till[t] \in Till /\ till[t].key # 0
      BY DEF TillsOK
    <2> QED
      BY <2>1, <2>2
  <1>2. AnswerTill(r, answered)
    BY DEF AnswerStale
  <1> HIDE DEF answered
  <1> QED
    BY <1>1, <1>2, TillsAnswered

LEMMA TillsServed ==
    ASSUME TillsOK, MenuShape, NEW r \in Reqs, Serve(r)
    PROVE  TillsOK'
  <1>1. Asked(req[r].body)
    BY DEF TillsOK, Request, Body, Asked
  <1>2. ASSUME LookUp(r)
        PROVE  TillsOK'
    <2>1. ASSUME req[r].pc = "received", req' = [req EXCEPT ![r].pc = "confirming"], UNCHANGED till
          PROVE  TillsOK'
      <3> DEFINE new == [req[r] EXCEPT !.pc = "confirming"]
      <3>1. req' = [req EXCEPT ![r] = new]
        BY <2>1
      <3>2. new \in Request /\ new.key = req[r].key
        <4> DEFINE old == req[r]
        <4>1. old \in Request
          BY DEF TillsOK
        <4> HIDE DEF old
        <4>2. [old EXCEPT !.pc = "confirming"] \in Request
          BY <4>1 DEF Request
        <4>3. [old EXCEPT !.pc = "confirming"].key = old.key
          BY <4>1 DEF Request
        <4> QED
          BY <4>2, <4>3 DEF old
      <3> HIDE DEF new
      <3> QED
        BY ZenonT(60), <2>1, <3>1, <3>2 DEF TillsOK
    <2> QED
      BY <1>2, <2>1, SaleAnswered, ErrorAnswered DEF LookUp
  <1>3. ASSUME CommitSale(r)
        PROVE  TillsOK'
    BY <1>3, SaleAnswered DEF CommitSale
  <1>4. ASSUME CommitDuplicate(r)
        PROVE  TillsOK'
    BY <1>4, SaleAnswered, ErrorAnswered DEF CommitDuplicate
  <1>5. ASSUME RefuseCommit(r)
        PROVE  TillsOK'
    <2>1. Quotable(req[r].body) => QuoteOf(req[r].body) \in Quote
      BY <1>1, QuoteMade DEF WellQuoted
    <2> QED
      BY <1>5, <2>1, StaleAnswered, ErrorAnswered DEF RefuseCommit
  <1> QED
    BY <1>2, <1>3, <1>4, <1>5 DEF Serve

LEMMA TillsKept ==
    ASSUME TillsOK, MenuShape, [Next]_vars
    PROVE  TillsOK'
  <1>1. ASSUME NEW t \in Tills, Cashier(t)
        PROVE  TillsOK'
    BY <1>1, TillsEdited, TillsWork DEF Cashier
  <1>2. ASSUME NEW r \in Reqs, Serve(r)
        PROVE  TillsOK'
    BY <1>2, TillsServed
  <1>3. ASSUME Fulfil
        PROVE  TillsOK'
    <2>1. UNCHANGED <<till, req>>
      BY <1>3 DEF Fulfil, AcceptOrder, RejectOrder, StartPreparing, MarkReady, PickedUp,
                  RevertServedToReady, ApplyTransition, CancelOrder, CancelSale
    <2> QED
      BY SMTT(60), <2>1 DEF TillsOK
  <1>4. ASSUME Administer
        PROVE  TillsOK'
    <2>1. UNCHANGED <<till, req>>
      BY <1>4 DEF Administer, ChangePrice, SetSoldOut, UpdateSettings, CancelCoupon, Expire
    <2> QED
      BY <2>1 DEF TillsOK
  <1>5. ASSUME Restart
        PROVE  TillsOK'
    <2>1. UNCHANGED till /\ req' = [r \in Reqs |-> Idle]
      BY <1>5 DEF Restart
    <2> QED
      BY <2>1, NothingShown DEF TillsOK
  <1>6. ASSUME UNCHANGED vars
        PROVE  TillsOK'
    BY <1>6 DEF vars, TillsOK
  <1> QED
    BY <1>1, <1>2, <1>3, <1>4, <1>5, <1>6 DEF Next

-----------------------------------------------------------------------------
(* What a step does to the books.                                          *)

\* The kitchen, or who cancels in it, turns order o into the row: it still is an order
\* of its sale and its lines, no line of it comes back, and what is not charged stays so.
Moved(o, row) ==
    /\ row \in OrderRow /\ row.sale = orders[o].sale /\ row.lines = orders[o].lines
    /\ row.live \subseteq orders[o].live
    /\ orders[o].status \in NotCharged => row.status = orders[o].status
    /\ orders' = [orders EXCEPT ![o] = row]
    /\ UNCHANGED <<sales, payments, coupons, redemptions>>

KitchenStep == \E o \in DOMAIN orders : \E row \in OrderRow : Moved(o, row)

LEMMA TransitionMoves ==
    ASSUME orders \in Seq(OrderRow), NEW o \in DOMAIN orders, NEW from, NEW to \in OrderStatuses,
           from \notin NotCharged, ApplyTransition(o, from, to)
    PROVE  KitchenStep
  <1> DEFINE old == orders[o]
             row == [old EXCEPT !.status = to]
  <1>1. old \in OrderRow
    BY ElementOfSeq
  <1>2. old.status = from /\ orders' = [orders EXCEPT ![o] = row]
        /\ UNCHANGED <<sales, payments, coupons, redemptions>>
    BY DEF ApplyTransition
  <1>3. row \in OrderRow /\ row.sale = old.sale /\ row.lines = old.lines /\ row.live = old.live
    <2> HIDE DEF old
    <2> QED
      BY <1>1 DEF OrderRow
  <1> HIDE DEF row
  <1> QED
    BY <1>2, <1>3 DEF KitchenStep, Moved

LEMMA CancellationMoves ==
    ASSUME orders \in Seq(OrderRow), NEW o \in DOMAIN orders, NEW lines, CancelOrder(o, lines)
    PROVE  KitchenStep
  <1> DEFINE old == orders[o]
             live == old.live \ lines
             status == IF old.status \in Cancellable
                          /\ (lines = DOMAIN old.lines \/ live = {})
                       THEN "CANCELLED" ELSE old.status
             row == [old EXCEPT !.live = live, !.status = status]
  <1>1. old \in OrderRow
    BY ElementOfSeq
  <1>2. orders' = [orders EXCEPT ![o] = row]
        /\ UNCHANGED <<sales, payments, coupons, redemptions>>
    BY DEF CancelOrder
  <1>3. /\ status \in OrderStatuses /\ live \in SUBSET Nat /\ live \subseteq old.live
        /\ old.status \in NotCharged => status = old.status
    <2> HIDE DEF old
    <2> QED
      BY <1>1 DEF OrderRow, OrderStatuses, NotCharged, Cancellable
  <1> HIDE DEF live, status
  <1>4. row \in OrderRow /\ row.sale = old.sale /\ row.lines = old.lines /\ row.live = live
        /\ row.status = status
    <2> HIDE DEF old
    <2> QED
      BY ZenonT(60), <1>1, <1>3 DEF OrderRow
  <1> HIDE DEF row
  <1> QED
    BY <1>2, <1>3, <1>4 DEF KitchenStep, Moved

LEMMA StepCases ==
    ASSUME orders \in Seq(OrderRow), [Next]_vars
    PROVE  \/ \E r \in Reqs : CommitSale(r)
           \/ \E n \in DOMAIN sales : CancelSale(n)
           \/ KitchenStep
           \/ \E c \in Coupons : CancelCoupon(c)
           \/ UNCHANGED books
  <1>1. ASSUME NEW t \in Tills, Cashier(t)
        PROVE  UNCHANGED books
    BY ZenonT(60), <1>1 DEF Cashier, EditCart, CheckCoupon, RemoveCoupon, ChooseTarget, ChangeOrder,
                ChooseMethod, ReceiveQuote, Confirm, LoseAnswer, RecoverPrevious
  <1>2. ASSUME NEW r \in Reqs, Serve(r)
        PROVE  CommitSale(r) \/ UNCHANGED books
    BY <1>2 DEF Serve, LookUp, CommitDuplicate, RefuseCommit
  <1>3. ASSUME NEW o \in DOMAIN orders,
               \/ AcceptOrder(o) \/ RejectOrder(o) \/ StartPreparing(o)
               \/ MarkReady(o) \/ PickedUp(o) \/ RevertServedToReady(o)
        PROVE  KitchenStep
    <2>1. /\ {"ACCEPTED", "REJECTED", "PREPARING", "READY", "SERVED"} \subseteq OrderStatuses
          /\ {"NEW", "ACCEPTED", "PREPARING", "READY", "SERVED"} \cap NotCharged = {}
      BY DEF OrderStatuses, NotCharged, ActiveOrderStatuses, Cancellable
    <2>2. \E from, to : from \notin NotCharged /\ to \in OrderStatuses /\ ApplyTransition(o, from, to)
      <3>1. CASE AcceptOrder(o)
        BY <2>1, <3>1 DEF AcceptOrder
      <3>2. CASE RejectOrder(o)
        BY <2>1, <3>2 DEF RejectOrder
      <3>3. CASE StartPreparing(o)
        BY <2>1, <3>3 DEF StartPreparing
      <3>4. CASE MarkReady(o)
        BY <2>1, <3>4 DEF MarkReady
      <3>5. CASE PickedUp(o)
        BY <2>1, <3>5 DEF PickedUp
      <3>6. CASE RevertServedToReady(o)
        BY <2>1, <3>6 DEF RevertServedToReady
      <3> QED
        BY <1>3, <3>1, <3>2, <3>3, <3>4, <3>5, <3>6
    <2> QED
      BY <2>2, TransitionMoves
  <1>4. ASSUME Fulfil
        PROVE  KitchenStep \/ \E n \in DOMAIN sales : CancelSale(n)
    BY <1>3, <1>4, CancellationMoves DEF Fulfil
  <1>5. ASSUME Administer
        PROVE  UNCHANGED books \/ \E c \in Coupons : CancelCoupon(c)
    BY <1>5 DEF Administer, ChangePrice, SetSoldOut, UpdateSettings, Expire
  <1>6. ASSUME Restart
        PROVE  UNCHANGED books
    BY <1>6 DEF Restart
  <1>7. ASSUME UNCHANGED vars
        PROVE  UNCHANGED books
    BY <1>7 DEF vars
  <1> QED
    BY <1>1, <1>2, <1>4, <1>5, <1>6, <1>7 DEF Next

\* The settings and the menu keep their shapes.
LEMMA AdminKept ==
    ASSUME MenuShape, \A i \in Items : menu[i].price \in Prices[i], settings \in Settings,
           expired \subseteq Coupons, [Next]_vars
    PROVE  /\ MenuShape' /\ \A i \in Items : menu'[i].price \in Prices[i]
           /\ settings' \in Settings /\ expired' \subseteq Coupons
  <1>1. CASE UNCHANGED admin
    BY <1>1 DEF admin, MenuShape
  <1>2. ASSUME NEW i \in Items, NEW price \in Prices[i], ChangePrice(i, price)
        PROVE  /\ MenuShape' /\ \A j \in Items : menu'[j].price \in Prices[j]
               /\ settings' \in Settings /\ expired' \subseteq Coupons
    <2>1. price \in Nat
      OBVIOUS
    <2>2. menu' = [menu EXCEPT ![i].price = price] /\ UNCHANGED <<settings, expired>>
      BY <1>2 DEF ChangePrice
    <2> DEFINE old == menu[i]
               new == [old EXCEPT !.price = price]
    <2>3. menu' = [menu EXCEPT ![i] = new]
      BY <2>2
    <2>4. old \in [price : Nat, soldOut : BOOLEAN]
      BY DEF MenuShape
    <2> HIDE DEF old
    <2>5. new \in [price : Nat, soldOut : BOOLEAN] /\ new.price \in Prices[i]
      BY <2>1, <2>4
    <2> HIDE DEF new
    <2>6. MenuShape'
      BY <2>3, <2>5 DEF MenuShape
    <2>7. \A j \in Items : menu'[j] = IF j = i THEN new ELSE menu[j]
      BY <2>3 DEF MenuShape
    <2>8. \A j \in Items : menu'[j].price \in Prices[j]
      BY <2>5, <2>7
    <2> QED
      BY <2>2, <2>6, <2>8
  <1>3. ASSUME NEW i \in Items, SetSoldOut(i)
        PROVE  /\ MenuShape' /\ \A j \in Items : menu'[j].price \in Prices[j]
               /\ settings' \in Settings /\ expired' \subseteq Coupons
    <2>1. menu' = [menu EXCEPT ![i].soldOut = ~@] /\ UNCHANGED <<settings, expired>>
      BY <1>3 DEF SetSoldOut
    <2> DEFINE old == menu[i]
               flag == ~old.soldOut
               new == [old EXCEPT !.soldOut = flag]
    <2>2. flag \in BOOLEAN
      OBVIOUS
    <2>3. menu' = [menu EXCEPT ![i] = new]
      BY <2>1
    <2>4. old \in [price : Nat, soldOut : BOOLEAN] /\ old.price \in Prices[i]
      BY DEF MenuShape
    <2> HIDE DEF old, flag
    <2>5. new \in [price : Nat, soldOut : BOOLEAN] /\ new.price \in Prices[i]
      BY <2>2, <2>4
    <2> HIDE DEF new
    <2>6. MenuShape'
      BY <2>3, <2>5 DEF MenuShape
    <2>7. \A j \in Items : menu'[j] = IF j = i THEN new ELSE menu[j]
      BY <2>3 DEF MenuShape
    <2>8. \A j \in Items : menu'[j].price \in Prices[j]
      BY <2>5, <2>7
    <2> QED
      BY <2>1, <2>6, <2>8
  <1>4. ASSUME NEW value \in Switches, UpdateSettings(value)
        PROVE  settings' \in Settings /\ UNCHANGED <<menu, expired>>
    BY <1>4 DEF UpdateSettings, Settings
  <1>5. ASSUME NEW c \in Coupons, Expire(c)
        PROVE  expired' \subseteq Coupons /\ UNCHANGED <<menu, settings>>
    BY <1>5 DEF Expire
  <1>6. \/ UNCHANGED admin
        \/ \E i \in Items : \E price \in Prices[i] : ChangePrice(i, price)
        \/ \E i \in Items : SetSoldOut(i)
        \/ \E value \in Switches : UpdateSettings(value)
        \/ \E c \in Coupons : Expire(c)
    <2>1. ASSUME NEW t \in Tills, Cashier(t)
          PROVE  UNCHANGED admin
      BY ZenonT(60), <2>1
         DEF Cashier, EditCart, CheckCoupon, RemoveCoupon, ChooseTarget, ChangeOrder,
                  ChooseMethod, ReceiveQuote, Confirm, LoseAnswer, RecoverPrevious
    <2>2. ASSUME NEW r \in Reqs, Serve(r)
          PROVE  UNCHANGED admin
      BY SMTT(60), <2>2 DEF Serve, LookUp, CommitSale, CommitDuplicate, RefuseCommit
    <2>3. ASSUME Fulfil
          PROVE  UNCHANGED admin
      BY <2>3 DEF Fulfil, AcceptOrder, RejectOrder, StartPreparing, MarkReady, PickedUp,
                  RevertServedToReady, ApplyTransition, CancelOrder, CancelSale
    <2>4. ASSUME Restart
          PROVE  UNCHANGED admin
      BY <2>4 DEF Restart
    <2>5. ASSUME NEW c \in Coupons, CancelCoupon(c)
          PROVE  UNCHANGED admin
      BY <2>5 DEF CancelCoupon
    <2>6. ASSUME UNCHANGED vars
          PROVE  UNCHANGED admin
      BY <2>6 DEF vars
    <2>7. MaySellOut \subseteq Items
      OBVIOUS
    <2>8. ASSUME Administer
          PROVE  \/ UNCHANGED admin
                 \/ \E i \in Items : \E price \in Prices[i] : ChangePrice(i, price)
                 \/ \E i \in Items : SetSoldOut(i)
                 \/ \E value \in Switches : UpdateSettings(value)
                 \/ \E c \in Coupons : Expire(c)
      BY <2>5, <2>7, <2>8 DEF Administer
    <2> QED
      BY <2>1, <2>2, <2>3, <2>4, <2>6, <2>8 DEF Next
  <1>7. CASE \E value \in Switches : UpdateSettings(value)
    BY <1>4, <1>7 DEF MenuShape
  <1>8. CASE \E c \in Coupons : Expire(c)
    BY <1>5, <1>8 DEF MenuShape
  <1> QED
    BY <1>1, <1>2, <1>3, <1>6, <1>7, <1>8

-----------------------------------------------------------------------------
(* The orders of a sale.                                                   *)

\* The new rows share the lines out: line l goes to the row key[l].
SharesOut(new, n, lines, key) ==
    /\ new \in Seq(OrderRow) /\ key \in [DOMAIN lines -> DOMAIN new]
    /\ \A i \in DOMAIN new :
          /\ new[i].sale = n /\ new[i].status \in {"NEW", "SERVED"}
          /\ new[i].live = {l \in DOMAIN lines : key[l] = i}
          /\ DOMAIN new[i].lines = new[i].live
          /\ \A l \in new[i].live : new[i].lines[l] = lines[l]

\* The row of one serving mode.
PartRow(n, lines, part, status) ==
    [sale |-> n, status |-> status, lines |-> [l \in part |-> lines[l]], live |-> part]

LEMMA PartRowShape ==
    ASSUME NEW n \in Nat, NEW lines \in Seq(Line), NEW part \in SUBSET DOMAIN lines,
           NEW status \in {"NEW", "SERVED"}
    PROVE  LET row == PartRow(n, lines, part, status) IN
           /\ row \in OrderRow /\ row.sale = n /\ row.status = status /\ row.live = part
           /\ DOMAIN row.lines = part /\ \A l \in part : row.lines[l] = lines[l]
  <1>1. \A l \in part : lines[l] \in Line
    BY ElementOfSeq
  <1>2. part \in SUBSET Nat
    OBVIOUS
  <1>3. [l \in part |-> lines[l]] \in [part -> Line]
    BY <1>1
  <1>4. status \in OrderStatuses
    BY DEF OrderStatuses, ActiveOrderStatuses, Cancellable
  <1> DEFINE some == [l \in part |-> lines[l]]
  <1>5. some \in UNION {[p -> Line] : p \in SUBSET Nat}
    BY <1>2, <1>3
  <1>6. DOMAIN some = part /\ \A l \in part : some[l] = lines[l]
    OBVIOUS
  <1> HIDE DEF some
  <1>7. PartRow(n, lines, part, status) = [sale |-> n, status |-> status, lines |-> some, live |-> part]
    BY DEF PartRow, some
  <1> QED
    BY <1>2, <1>4, <1>5, <1>6, <1>7 DEF OrderRow

LEMMA PairJoined ==
    ASSUME NEW S, NEW a \in S, NEW b \in S
    PROVE  /\ <<a>> \o <<b>> = <<a, b>> /\ <<a>> \o << >> = <<a>> /\ << >> \o <<b>> = <<b>>
           /\ <<a, b>> \in Seq(S) /\ <<a>> \in Seq(S) /\ <<b>> \in Seq(S)
           /\ DOMAIN <<a, b>> = 1..2 /\ DOMAIN <<a>> = 1..1 /\ DOMAIN <<b>> = 1..1
  <1>1. /\ <<a, b>> \in Seq(S) /\ <<a>> \in Seq(S) /\ <<b>> \in Seq(S)
        /\ Len(<<a, b>>) = 2 /\ Len(<<a>>) = 1 /\ Len(<<b>>) = 1
    OBVIOUS
  <1> DEFINE s == <<a>> \o <<b>>
  <1>2. /\ s \in Seq(S) /\ Len(s) = 1 + 1
        /\ \A i \in 1..(1 + 1) : s[i] = IF i <= 1 THEN <<a>>[i] ELSE <<b>>[i - 1]
    BY <1>1, ConcatProperties
  <1> HIDE DEF s
  <1>3. Len(s) = 2 /\ s[1] = a /\ s[2] = b
    BY <1>2
  <1>4. s = <<a, b>>
    <2> DEFINE pair == <<a, b>>
    <2>1. pair \in Seq(S) /\ Len(pair) = 2 /\ pair[1] = a /\ pair[2] = b
      BY <1>1
    <2> HIDE DEF pair
    <2>2. Len(s) = Len(pair) /\ \A i \in 1..Len(s) : s[i] = pair[i]
      <3>1. \A i \in 1..2 : i = 1 \/ i = 2
        OBVIOUS
      <3> QED
        BY <1>3, <2>1, <3>1
    <2>3. s = pair
      BY <1>2, <2>1, <2>2, SeqEqual
    <2> QED
      BY <2>3 DEF pair
  <1>5. <<a>> \o << >> = <<a>> /\ << >> \o <<b>> = <<b>>
    BY <1>1, ConcatEmptySeq
  <1>6. DOMAIN <<a, b>> = 1..2 /\ DOMAIN <<a>> = 1..1 /\ DOMAIN <<b>> = 1..1
    BY <1>1, LenProperties
  <1> QED
    BY <1>1, <1>4, <1>5, <1>6 DEF s

LEMMA OrdersMade ==
    ASSUME NEW n \in Nat, NEW lines \in Seq(Line), lines # << >>
    PROVE  \E key : SharesOut(OrdersFor(n, lines), n, lines, key)
  <1> DEFINE D == DOMAIN lines
             K == {l \in D : ServingMode[lines[l].item] = "KITCHEN"}
             C == {l \in D : ServingMode[lines[l].item] = "COUNTER"}
             cooked == PartRow(n, lines, K, "NEW")
             handed == PartRow(n, lines, C, "SERVED")
             new == OrdersFor(n, lines)
  <1>1. new = (IF K = {} THEN << >> ELSE <<cooked>>) \o (IF C = {} THEN << >> ELSE <<handed>>)
    BY DEF OrdersFor, PartRow
  <1>2. \A l \in D : lines[l].item \in Items
    <2>1. \A l \in D : lines[l] \in Line
      BY ElementOfSeq
    <2> QED
      BY <2>1 DEF Line
  <1>3. D = K \cup C /\ K \cap C = {}
    BY <1>2
  <1>4. D # {} /\ K \in SUBSET D /\ C \in SUBSET D
    <2>1. Len(lines) \in Nat \ {0} /\ D = 1..Len(lines)
      BY EmptySeq
    <2>2. 1 \in D
      BY <2>1
    <2> QED
      BY <2>2
  <1>5. /\ cooked \in OrderRow /\ cooked.sale = n /\ cooked.status = "NEW" /\ cooked.live = K
        /\ DOMAIN cooked.lines = K /\ \A l \in K : cooked.lines[l] = lines[l]
    <2> HIDE DEF K
    <2> QED
      BY <1>4, PartRowShape
  <1>6. /\ handed \in OrderRow /\ handed.sale = n /\ handed.status = "SERVED" /\ handed.live = C
        /\ DOMAIN handed.lines = C /\ \A l \in C : handed.lines[l] = lines[l]
    <2> HIDE DEF C
    <2> QED
      BY <1>4, PartRowShape
  <1> HIDE DEF K, C, cooked, handed, new
  <1>7. ASSUME K # {}, C # {}
        PROVE  \E key : SharesOut(new, n, lines, key)
    <2>1. new = <<cooked, handed>>
      <3>1. new = <<cooked>> \o <<handed>>
        BY <1>1, <1>7
      <3>2. <<cooked>> \o <<handed>> = <<cooked, handed>>
        BY <1>5, <1>6, PairJoined
      <3> QED
        BY <3>1, <3>2
    <2> DEFINE key == [l \in D |-> IF l \in K THEN 1 ELSE 2]
    <2>2. new \in Seq(OrderRow) /\ DOMAIN new = {1, 2} /\ new[1] = cooked /\ new[2] = handed
      BY <1>5, <1>6, <2>1
    <2>3. {l \in D : key[l] = 1} = K /\ {l \in D : key[l] = 2} = C
      BY <1>3
    <2>4. key \in [D -> {1, 2}]
      OBVIOUS
    <2> HIDE DEF key
    <2>5. \A i \in {1, 2} :
            /\ new[i].sale = n /\ new[i].status \in {"NEW", "SERVED"}
            /\ new[i].live = {l \in D : key[l] = i}
            /\ DOMAIN new[i].lines = new[i].live
            /\ \A l \in new[i].live : new[i].lines[l] = lines[l]
      BY <1>5, <1>6, <2>2, <2>3
    <2>6. SharesOut(new, n, lines, key)
      BY <2>2, <2>4, <2>5 DEF SharesOut
    <2> QED
      BY <2>6
  <1>8. ASSUME NEW row \in {cooked, handed}, new = <<row>>, row.live = D,
               DOMAIN row.lines = D, \A l \in D : row.lines[l] = lines[l]
        PROVE  \E key : SharesOut(new, n, lines, key)
    <2> DEFINE key == [l \in D |-> 1]
    <2>1. new \in Seq(OrderRow) /\ DOMAIN new = {1} /\ new[1] = row
      BY <1>5, <1>6, <1>8
    <2>2. {l \in D : key[l] = 1} = D /\ key \in [D -> {1}]
      OBVIOUS
    <2> HIDE DEF key
    <2>3. row.sale = n /\ row.status \in {"NEW", "SERVED"}
      BY <1>5, <1>6
    <2>4. \A i \in {1} :
            /\ new[i].sale = n /\ new[i].status \in {"NEW", "SERVED"}
            /\ new[i].live = {l \in D : key[l] = i}
            /\ DOMAIN new[i].lines = new[i].live
            /\ \A l \in new[i].live : new[i].lines[l] = lines[l]
      BY <1>8, <2>1, <2>2, <2>3
    <2>5. SharesOut(new, n, lines, key)
      BY <2>1, <2>2, <2>4 DEF SharesOut
    <2> QED
      BY <2>5
  <1>9. CASE K = {}
    <2>1. C = D /\ new = << >> \o <<handed>>
      BY <1>1, <1>3, <1>4, <1>9
    <2>2. new = <<handed>>
      BY <1>6, <2>1, PairJoined
    <2> QED
      BY <1>6, <1>8, <2>1, <2>2 DEF new
  <1>10. CASE C = {}
    <2>1. K = D /\ K # {} /\ new = <<cooked>> \o << >>
      BY <1>1, <1>3, <1>4, <1>10
    <2>2. new = <<cooked>>
      BY <1>5, <2>1, PairJoined
    <2> QED
      BY <1>5, <1>8, <2>1, <2>2 DEF new
  <1> QED
    BY <1>7, <1>9, <1>10 DEF new

-----------------------------------------------------------------------------
(* The payments of a sale.                                                 *)

\* What a line costs when its discount is taken off.
Net(quote) == [l \in DOMAIN quote.lines |-> LineTotal(quote.lines[l]) - quote.discounts[l]]

LEMMA NetWorth ==
    ASSUME NEW quote, WellQuoted(quote)
    PROVE  /\ Net(quote) \in Seq(Nat) /\ DOMAIN Net(quote) = DOMAIN quote.lines
           /\ quote.discounts \in Seq(Nat) /\ quote.lines \in Seq(Line)
           /\ quote.discount \in Nat /\ TotalAmount(quote) \in Nat
           /\ quote.discount + TotalAmount(quote) = Subtotal(quote)
           /\ SumOf(Net(quote)) = TotalAmount(quote)
           /\ \A l \in DOMAIN quote.lines :
                 quote.discounts[l] + Net(quote)[l] = LineTotal(quote.lines[l])
  <1> DEFINE lines == quote.lines
             discounts == quote.discounts
             net == Net(quote)
             amounts == LineAmounts(lines)
             D == DOMAIN lines
  <1>1. /\ lines \in Seq(Line) /\ discounts \in Seq(Nat) /\ quote.discount \in Nat
        /\ DOMAIN discounts = D /\ SumOf(discounts) = quote.discount
        /\ quote.discount <= Subtotal(quote)
        /\ \A l \in D : discounts[l] <= LineTotal(lines[l])
    BY DEF WellQuoted, Quote
  <1>2. \A l \in D : net[l] = LineTotal(lines[l]) - discounts[l]
    BY DEF Net
  <1>3. /\ amounts \in Seq(Nat) /\ DOMAIN amounts = D /\ D = 1..Len(lines) /\ Len(lines) \in Nat
        /\ IsFiniteSet(D) /\ SumOf(amounts) \in Nat
        /\ \A l \in D : amounts[l] = LineTotal(lines[l]) /\ LineTotal(lines[l]) \in Nat
    BY <1>1, LinesWorth
  <1>4. Subtotal(quote) = SumOf(amounts) /\ TotalAmount(quote) = Subtotal(quote) - quote.discount
    BY DEF Subtotal, TotalAmount
  <1>a. net = [l \in D |-> net[l]]
    BY DEF Net
  <1> HIDE DEF lines, discounts, net, amounts, D
  <1>5. /\ SumOf(discounts) = SumFunctionOnSet(discounts, D)
        /\ \A l \in D : discounts[l] \in Nat
    BY <1>1, SumOfLines
  <1>6. \A l \in D : net[l] \in Nat /\ discounts[l] + net[l] = LineTotal(lines[l])
    BY SMTT(60), <1>1, <1>2, <1>3, <1>5
  <1>7. net \in Seq(Nat) /\ DOMAIN net = D
    <2>1. net \in [1..Len(lines) -> Nat]
      BY <1>3, <1>6, <1>a
    <2> QED
      BY <1>3, <1>a, <2>1, FunctionSeq
  <1>8. SumOf(net) = SumFunctionOnSet(net, D) /\ SumOf(amounts) = SumFunctionOnSet(amounts, D)
    BY <1>3, <1>7, SumOfLines
  <1>9. SumFunctionOnSet(amounts, D) = SumFunctionOnSet(discounts, D) + SumFunctionOnSet(net, D)
    <2>1. \A l \in D : discounts[l] \in Int /\ net[l] \in Int /\ amounts[l] = discounts[l] + net[l]
      BY <1>3, <1>5, <1>6
    <2> QED
      BY ONLY <1>3, <2>1, SumOfSums
  <1>10. SumOf(net) \in Nat
    BY <1>7, SumOfLines
  <1>11. TotalAmount(quote) \in Nat /\ quote.discount + TotalAmount(quote) = Subtotal(quote)
         /\ SumOf(net) = TotalAmount(quote)
    BY <1>1, <1>3, <1>4, <1>5, <1>8, <1>9, <1>10
  <1> QED
    BY <1>1, <1>6, <1>7, <1>11 DEF lines, discounts, net, D

\* The row of a discount, and of a charge.
IsDiscount(row, n, quote) ==
    /\ row.sale = n /\ row.reversedPaymentId = 0 /\ row.kind = "DISCOUNT"
    /\ quote.coupon # NoCoupon /\ row.coupon = quote.coupon /\ row.amount = quote.discount
    /\ row.allocations = [l \in Positive(quote.discounts) |-> quote.discounts[l]]
IsCharge(row, n, quote) ==
    /\ row.sale = n /\ row.reversedPaymentId = 0 /\ row.kind = "CHARGE"
    /\ TotalAmount(quote) # 0 /\ row.coupon = NoCoupon /\ row.amount = TotalAmount(quote)
    /\ row.allocations = [l \in Positive(Net(quote)) |-> Net(quote)[l]]

\* The new rows are the discount, if there is a coupon, and the charge, if there is
\* something to pay.
Pays(new, n, quote) ==
    /\ new \in Seq(PaymentRecord)
    /\ \A i \in DOMAIN new : IsDiscount(new[i], n, quote) \/ IsCharge(new[i], n, quote)
    /\ \A i, j \in DOMAIN new : new[i].kind = new[j].kind => i = j
    /\ quote.coupon # NoCoupon => \E i \in DOMAIN new : new[i].kind = "DISCOUNT"
    /\ TotalAmount(quote) # 0 => \E i \in DOMAIN new : new[i].kind = "CHARGE"

LEMMA PaymentRowShape ==
    ASSUME NEW n \in Nat, NEW kind \in PaymentKinds, NEW amount \in Nat, NEW amounts \in Seq(Nat),
           NEW coupon \in Coupons \cup {NoCoupon}
    PROVE  LET row == PaymentRow(n, kind, amount, amounts, coupon) IN
           /\ row \in PaymentRecord /\ row.sale = n /\ row.kind = kind /\ row.amount = amount
           /\ row.coupon = coupon /\ row.reversedPaymentId = 0
           /\ row.allocations = [l \in Positive(amounts) |-> amounts[l]]
  <1> DEFINE part == Positive(amounts)
             some == [l \in part |-> amounts[l]]
  <1>1. part \in SUBSET Nat
    BY DEF Positive
  <1>2. \A l \in part : amounts[l] \in Nat
    BY SumOfLines DEF Positive
  <1> HIDE DEF part
  <1>3. some \in UNION {[p -> Nat] : p \in SUBSET Nat}
    BY <1>1, <1>2
  <1>4. PaymentRow(n, kind, amount, amounts, coupon)
          = [sale |-> n, kind |-> kind, amount |-> amount, coupon |-> coupon,
             allocations |-> some, reversedPaymentId |-> 0]
    BY DEF PaymentRow, part
  <1>5. some = [l \in Positive(amounts) |-> amounts[l]]
    BY DEF part
  <1> HIDE DEF some
  <1> QED
    BY <1>3, <1>4, <1>5 DEF PaymentRecord

LEMMA PaymentsMade ==
    ASSUME NEW n \in Nat, NEW quote, WellQuoted(quote)
    PROVE  Pays(PaymentsFor(n, quote), n, quote)
  <1> DEFINE total == TotalAmount(quote)
             given == PaymentRow(n, "DISCOUNT", quote.discount, quote.discounts, quote.coupon)
             paid == PaymentRow(n, "CHARGE", total, Net(quote), NoCoupon)
             new == PaymentsFor(n, quote)
  <1>1. new = (IF quote.coupon = NoCoupon THEN << >> ELSE <<given>>)
              \o (IF total = 0 THEN << >> ELSE <<paid>>)
    BY DEF PaymentsFor, Net
  <1>2. /\ quote.coupon \in Coupons \cup {NoCoupon} /\ quote.discount \in Nat /\ total \in Nat
        /\ quote.discounts \in Seq(Nat) /\ Net(quote) \in Seq(Nat)
    BY NetWorth DEF WellQuoted, Quote
  <1>3. "DISCOUNT" \in PaymentKinds /\ "CHARGE" \in PaymentKinds
    BY DEF PaymentKinds
  <1>4. /\ given \in PaymentRecord /\ given.kind = "DISCOUNT"
        /\ quote.coupon # NoCoupon => IsDiscount(given, n, quote)
    <2>1. /\ given \in PaymentRecord /\ given.sale = n /\ given.kind = "DISCOUNT"
          /\ given.amount = quote.discount
          /\ given.coupon = quote.coupon /\ given.reversedPaymentId = 0
          /\ given.allocations = [l \in Positive(quote.discounts) |-> quote.discounts[l]]
      <3> DEFINE kind == "DISCOUNT"
                 amount == quote.discount
                 amounts == quote.discounts
                 coupon == quote.coupon
      <3>1. /\ kind \in PaymentKinds /\ amount \in Nat /\ amounts \in Seq(Nat)
            /\ coupon \in Coupons \cup {NoCoupon}
        BY <1>2, <1>3
      <3> HIDE DEF kind, amount, amounts, coupon
      <3> DEFINE row == PaymentRow(n, kind, amount, amounts, coupon)
      <3>2. /\ row \in PaymentRecord /\ row.sale = n /\ row.kind = kind /\ row.amount = amount
            /\ row.coupon = coupon /\ row.reversedPaymentId = 0
            /\ row.allocations = [l \in Positive(amounts) |-> amounts[l]]
        BY <3>1, PaymentRowShape
      <3> HIDE DEF row
      <3> QED
        BY <3>2 DEF row, kind, amount, amounts, coupon
    <2> HIDE DEF given
    <2> QED
      BY <2>1 DEF IsDiscount
  <1>5. /\ paid \in PaymentRecord /\ paid.kind = "CHARGE"
        /\ total # 0 => IsCharge(paid, n, quote)
    <2>1. /\ paid \in PaymentRecord /\ paid.sale = n /\ paid.kind = "CHARGE" /\ paid.amount = total
          /\ paid.coupon = NoCoupon /\ paid.reversedPaymentId = 0
          /\ paid.allocations = [l \in Positive(Net(quote)) |-> Net(quote)[l]]
      <3> DEFINE kind == "CHARGE"
                 amounts == Net(quote)
                 coupon == NoCoupon
      <3>1. /\ kind \in PaymentKinds /\ total \in Nat /\ amounts \in Seq(Nat)
            /\ coupon \in Coupons \cup {NoCoupon}
        BY <1>2, <1>3
      <3> HIDE DEF kind, amounts, coupon, total
      <3> DEFINE row == PaymentRow(n, kind, total, amounts, coupon)
      <3>2. /\ row \in PaymentRecord /\ row.sale = n /\ row.kind = kind /\ row.amount = total
            /\ row.coupon = coupon /\ row.reversedPaymentId = 0
            /\ row.allocations = [l \in Positive(amounts) |-> amounts[l]]
        BY <3>1, PaymentRowShape
      <3> HIDE DEF row
      <3> QED
        BY <3>2 DEF row, kind, amounts, coupon
    <2> HIDE DEF paid
    <2> QED
      BY <2>1 DEF IsCharge
  <1> HIDE DEF total, given, paid, new
  <1>6. ASSUME quote.coupon # NoCoupon, total # 0
        PROVE  Pays(new, n, quote)
    <2>0. new = <<given>> \o <<paid>>
      BY <1>1, <1>6
    <2>1. new = <<given, paid>>
      <3>1. given \in PaymentRecord /\ paid \in PaymentRecord
        BY <1>4, <1>5
      <3>2. <<given>> \o <<paid>> = <<given, paid>>
        BY ONLY <3>1, PairJoined
      <3> QED
        BY <2>0, <3>2
    <2>2. new \in Seq(PaymentRecord) /\ DOMAIN new = {1, 2} /\ new[1] = given /\ new[2] = paid
      BY <1>4, <1>5, <2>1
    <2> QED
      BY <1>4, <1>5, <1>6, <2>2 DEF Pays, total
  <1>7. ASSUME quote.coupon # NoCoupon, total = 0
        PROVE  Pays(new, n, quote)
    <2>1. new = <<given>>
      BY <1>1, <1>4, <1>7, PairJoined
    <2>2. new \in Seq(PaymentRecord) /\ DOMAIN new = {1} /\ new[1] = given
      BY <1>4, <2>1
    <2> QED
      BY <1>4, <1>7, <2>2 DEF Pays, total
  <1>8. ASSUME quote.coupon = NoCoupon, total # 0
        PROVE  Pays(new, n, quote)
    <2>1. new = <<paid>>
      BY <1>1, <1>5, <1>8, PairJoined
    <2>2. new \in Seq(PaymentRecord) /\ DOMAIN new = {1} /\ new[1] = paid
      BY <1>5, <2>1
    <2> QED
      BY <1>5, <1>8, <2>2 DEF Pays, total
  <1>9. ASSUME quote.coupon = NoCoupon, total = 0
        PROVE  Pays(new, n, quote)
    <2>1. new = << >> \o << >>
      BY <1>1, <1>9
    <2>2. new \in Seq(PaymentRecord) /\ DOMAIN new = {}
      BY <2>1
    <2> QED
      BY <1>9, <2>2 DEF Pays, total
  <1> QED
    BY <1>6, <1>7, <1>8, <1>9 DEF new

-----------------------------------------------------------------------------
(* A sale is made.                                                         *)

\* s with the rows of new after its own.
Joins(s, new, all) ==
    /\ DOMAIN s = 1..Len(s) /\ Len(s) \in Nat
    /\ DOMAIN s \subseteq DOMAIN all /\ \A i \in DOMAIN s : all[i] = s[i]
    /\ \A i \in DOMAIN all \ DOMAIN s : i - Len(s) \in DOMAIN new /\ all[i] = new[i - Len(s)]
    /\ \A j \in DOMAIN new : Len(s) + j \in DOMAIN all \ DOMAIN s /\ all[Len(s) + j] = new[j]

LEMMA Joining ==
    ASSUME NEW S, NEW s \in Seq(S), NEW new \in Seq(S)
    PROVE  s \o new \in Seq(S) /\ Joins(s, new, s \o new)
  <1> DEFINE all == s \o new
  <1>1. /\ all \in Seq(S) /\ Len(all) = Len(s) + Len(new)
        /\ \A i \in 1..(Len(s) + Len(new)) :
              all[i] = IF i <= Len(s) THEN s[i] ELSE new[i - Len(s)]
    BY ConcatProperties
  <1>2. /\ DOMAIN s = 1..Len(s) /\ DOMAIN new = 1..Len(new) /\ Len(s) \in Nat /\ Len(new) \in Nat
    BY LenProperties
  <1> HIDE DEF all
  <1>3. DOMAIN all = 1..(Len(s) + Len(new))
    BY <1>1, LenProperties
  <1>4. \A i \in DOMAIN s : i \in DOMAIN all /\ all[i] = s[i]
    BY <1>1, <1>2, <1>3
  <1>5. \A i \in DOMAIN all \ DOMAIN s : i - Len(s) \in DOMAIN new /\ all[i] = new[i - Len(s)]
    BY <1>1, <1>2, <1>3
  <1>6. ASSUME NEW j \in DOMAIN new
        PROVE  Len(s) + j \in DOMAIN all \ DOMAIN s /\ all[Len(s) + j] = new[j]
    <2>1. /\ Len(s) + j \in 1..(Len(s) + Len(new)) /\ ~(Len(s) + j <= Len(s))
          /\ (Len(s) + j) - Len(s) = j
      BY <1>2
    <2> QED
      BY <1>1, <1>2, <1>3, <2>1
  <1> QED
    BY <1>1, <1>2, <1>4, <1>5, <1>6 DEF Joins, all

\* What request r asks for is sold as number n.
Sells(r, n, quote, served, key, paid) ==
    /\ r \in Reqs /\ req[r].pc # "idle" /\ SaleOf(req[r].till, req[r].key) = {}
    /\ n = Len(sales) + 1
    /\ WellQuoted(quote) /\ quote.lines # << >> /\ quote = req[r].quote
    /\ quote.coupon # NoCoupon => quote.discount > 0 /\ coupons[quote.coupon] = "AVAILABLE"
    /\ sales' = Append(sales, [till |-> req[r].till, key |-> req[r].key, body |-> req[r].body,
                               status |-> "COMPLETED"])
    /\ orders' = orders \o served /\ SharesOut(served, n, quote.lines, key)
    /\ payments' = payments \o paid /\ Pays(paid, n, quote)
    /\ coupons' = [c \in Coupons |-> IF c = quote.coupon THEN "USED" ELSE coupons[c]]
    /\ redemptions' = [c \in Coupons |->
          IF c = quote.coupon THEN [sale |-> n, status |-> "LIVE"] ELSE redemptions[c]]

LEMMA Selling ==
    ASSUME Shapes, NEW r \in Reqs, CommitSale(r)
    PROVE  \E n, quote, served, key, paid : Sells(r, n, quote, served, key, paid)
  <1> DEFINE n == Len(sales) + 1
             body == req[r].body
             quote == QuoteOf(body)
             served == OrdersFor(n, quote.lines)
             paid == PaymentsFor(n, quote)
  <1>1. Asked(body) /\ n \in Nat /\ MenuShape
    BY DEF Shapes, Request, Body, Asked
  <1>2. Quotable(body) /\ quote = req[r].quote
    BY DEF CommitSale, QuoteStands
  <1>3. /\ WellQuoted(quote) /\ quote.coupon = body.coupon /\ quote.lines # << >>
        /\ body.coupon # NoCoupon => quote.discount > 0 /\ Redeemable(body.coupon)
    BY <1>1, <1>2, QuoteMade
  <1>4. req[r].pc # "idle" /\ SaleOf(req[r].till, req[r].key) = {}
    BY DEF CommitSale, SameKey
  <1>5. /\ sales' = Append(sales, [till |-> req[r].till, key |-> req[r].key, body |-> req[r].body,
                                   status |-> "COMPLETED"])
        /\ orders' = orders \o served /\ payments' = payments \o paid
        /\ coupons' = [c \in Coupons |-> IF c = quote.coupon THEN "USED" ELSE coupons[c]]
        /\ redemptions' = [c \in Coupons |->
               IF c = quote.coupon THEN [sale |-> n, status |-> "LIVE"] ELSE redemptions[c]]
    BY DEF CommitSale, Consumed
  <1> HIDE DEF n, quote, served, paid, body
  <1>6. quote.lines \in Seq(Line)
    BY <1>3, NetWorth
  <1>7. PICK key : SharesOut(served, n, quote.lines, key)
    BY <1>1, <1>3, <1>6, OrdersMade DEF served
  <1>8. Pays(paid, n, quote)
    BY <1>1, <1>3, PaymentsMade DEF paid
  <1>9. quote.coupon # NoCoupon => quote.discount > 0 /\ coupons[quote.coupon] = "AVAILABLE"
    BY <1>3 DEF Redeemable
  <1>10. Sells(r, n, quote, served, key, paid)
    BY <1>2, <1>3, <1>4, <1>5, <1>7, <1>8, <1>9 DEF Sells, n
  <1> QED
    BY <1>10

LEMMA SellingRows ==
    ASSUME Shapes, NEW r, NEW n, NEW quote, NEW served, NEW key, NEW paid,
           Sells(r, n, quote, served, key, paid)
    PROVE  /\ n \in Nat \ {0} /\ n \notin DOMAIN sales
           /\ sales' \in Seq(SaleRow) /\ DOMAIN sales' = DOMAIN sales \cup {n}
           /\ \A m \in DOMAIN sales : sales'[m] = sales[m]
           /\ sales'[n].till = req[r].till /\ sales'[n].key = req[r].key
           /\ sales'[n].status = "COMPLETED"
           /\ orders' \in Seq(OrderRow) /\ Joins(orders, served, orders')
           /\ payments' \in Seq(PaymentRecord) /\ Joins(payments, paid, payments')
  <1> DEFINE row == [till |-> req[r].till, key |-> req[r].key, body |-> req[r].body,
                     status |-> "COMPLETED"]
  <1>1. row \in SaleRow /\ row.till = req[r].till /\ row.key = req[r].key
        /\ row.status = "COMPLETED"
    <2>1. req[r] \in Request
      BY DEF Sells, Shapes
    <2> QED
      BY <2>1 DEF Request, SaleRow
  <1>2. sales' = Append(sales, row) /\ n = Len(sales) + 1 /\ sales \in Seq(SaleRow)
    BY DEF Sells, Shapes
  <1> HIDE DEF row
  <1>3. /\ n \in Nat \ {0} /\ n \notin DOMAIN sales
        /\ sales' \in Seq(SaleRow) /\ DOMAIN sales' = DOMAIN sales \cup {n}
        /\ \A m \in DOMAIN sales : sales'[m] = sales[m]
        /\ sales'[n] = row
    BY <1>1, <1>2
  <1>4. orders' \in Seq(OrderRow) /\ Joins(orders, served, orders')
    <2>1. orders \in Seq(OrderRow) /\ served \in Seq(OrderRow) /\ orders' = orders \o served
      BY DEF Shapes, Sells, SharesOut
    <2> QED
      BY <2>1, Joining
  <1>5. payments' \in Seq(PaymentRecord) /\ Joins(payments, paid, payments')
    <2>1. payments \in Seq(PaymentRecord) /\ paid \in Seq(PaymentRecord) /\ payments' = payments \o paid
      BY DEF Shapes, Sells, Pays
    <2> QED
      BY <2>1, Joining
  <1> QED
    BY <1>1, <1>3, <1>4, <1>5

-----------------------------------------------------------------------------
(* A sale is taken back.                                                   *)

Increasing(list, S) ==
    /\ list \in [1..Cardinality(S) -> S]
    /\ \A i, j \in DOMAIN list : i < j => list[i] < list[j]

\* Finitely many numbers have a greatest.
LEMMA GreatestNumber ==
    ASSUME NEW S, IsFiniteSet(S), S \subseteq Nat, S # {}
    PROVE  \E top \in S : \A n \in S : n <= top
  <1> DEFINE Good == {T \in SUBSET S : T # {} => \E top \in T : \A n \in T : n <= top}
  <1>1. {} \in Good
    OBVIOUS
  <1>2. ASSUME NEW T \in SUBSET S, NEW x \in S \ T, T \in Good
        PROVE  T \cup {x} \in Good
    <2>1. CASE T = {}
      BY <2>1
    <2>2. CASE T # {}
      <3>1. PICK top \in T : \A n \in T : n <= top
        BY <1>2, <2>2
      <3>2. CASE x <= top
        <4>1. \A n \in T \cup {x} : n <= top
          BY <3>1, <3>2
        <4> QED
          BY <3>1, <4>1
      <3>3. CASE ~(x <= top)
        <4>1. \A n \in T \cup {x} : n <= x
          BY <3>1, <3>3
        <4> QED
          BY <4>1
      <3> QED
        BY <3>2, <3>3
    <2> QED
      BY <2>1, <2>2
  <1> HIDE DEF Good
  <1>3. S \in Good
    BY <1>1, <1>2, EverySubset
  <1> QED
    BY <1>3 DEF Good

LEMMA IncreasingExists ==
    ASSUME NEW S, IsFiniteSet(S), S \subseteq Nat
    PROVE  \E list : Increasing(list, S)
  <1> DEFINE Good == {T \in SUBSET S : \E list : Increasing(list, T)}
  <1>1. ASSUME NEW T \in SUBSET S, \A U \in SUBSET T : U # T => U \in Good
        PROVE  T \in Good
    <2>0. IsFiniteSet(T)
      BY FS_Subset
    <2>1. CASE T = {}
      <3>1. Cardinality(T) = 0
        BY <2>1, FS_EmptySet
      <3> DEFINE list == [i \in 1..0 |-> i]
      <3>2. Increasing(list, T)
        BY <3>1 DEF Increasing
      <3> QED
        BY <3>2
    <2>2. CASE T # {}
      <3>1. PICK top \in T : \A n \in T : n <= top
        BY <2>0, <2>2, GreatestNumber
      <3> DEFINE R == T \ {top}
                 k == Cardinality(R)
      <3>2. R \in Good
        BY <1>1, <3>1
      <3>3. PICK list : Increasing(list, R)
        BY <3>2
      <3>4. k \in Nat /\ Cardinality(T) = k + 1
        <4>1. Cardinality(R) = Cardinality(T) - 1 /\ Cardinality(R) \in Nat /\ Cardinality(T) \in Nat
          BY <2>0, <3>1, FS_RemoveElement, FS_Subset, FS_CardinalityType
        <4> QED
          BY <4>1
      <3>5. list \in [1..k -> R] /\ \A i, j \in 1..k : i < j => list[i] < list[j]
        BY <3>3 DEF Increasing
      <3>6. \A x \in R : x < top /\ x \in Nat
        BY <3>1
      <3> HIDE DEF R, k
      <3> DEFINE more == [i \in 1..(k + 1) |-> IF i <= k THEN list[i] ELSE top]
      <3>7. more \in [1..(k + 1) -> T]
        BY <3>1, <3>4, <3>5 DEF R
      <3>8. ASSUME NEW i \in 1..(k + 1), NEW j \in 1..(k + 1), i < j
            PROVE  more[i] < more[j]
        <4>1. i \in 1..k /\ i <= k /\ more[i] = list[i] /\ list[i] \in R
          BY <3>4, <3>5, <3>8
        <4>2. CASE j <= k
          <5>1. j \in 1..k /\ more[j] = list[j]
            BY <3>4, <4>2
          <5> QED
            BY <3>5, <3>8, <4>1, <5>1
        <4>3. CASE ~(j <= k)
          BY <3>6, <4>1, <4>3
        <4> QED
          BY <4>2, <4>3
      <3> HIDE DEF more
      <3>9. Increasing(more, T)
        BY <3>4, <3>7, <3>8 DEF Increasing
      <3> QED
        BY <3>9
    <2> QED
      BY <2>1, <2>2
  <1> HIDE DEF Good
  <1>2. S \in Good
    BY <1>1, SmallerFirst
  <1> QED
    BY <1>2 DEF Good

\* Ascending lists the set, and each element once.
LEMMA AscendingLists ==
    ASSUME NEW S, IsFiniteSet(S), S \subseteq Nat
    PROVE  LET list == Ascending(S) IN
           /\ list \in [1..Cardinality(S) -> S] /\ Cardinality(S) \in Nat
           /\ \A i, j \in DOMAIN list : list[i] = list[j] => i = j
           /\ \A x \in S : \E i \in DOMAIN list : list[i] = x
  <1> DEFINE list == Ascending(S)
             k == Cardinality(S)
  <1>1. Increasing(list, S)
    BY IncreasingExists DEF Ascending, Increasing
  <1>2. k \in Nat
    BY FS_CardinalityType
  <1>3. list \in [1..k -> S] /\ \A i, j \in 1..k : i < j => list[i] < list[j]
    BY <1>1 DEF Increasing
  <1> HIDE DEF list, k
  <1>4. \A i, j \in 1..k : list[i] = list[j] => i = j
    <2> SUFFICES ASSUME NEW i \in 1..k, NEW j \in 1..k, list[i] = list[j], i # j
                 PROVE  FALSE
      OBVIOUS
    <2>1. list[i] \in Nat /\ list[j] \in Nat
      BY <1>3
    <2>2. i < j \/ j < i
      BY <1>2
    <2> QED
      BY <1>3, <2>1, <2>2
  <1>5. list \in Surjection(1..k, S)
    <2>1. list \in Injection(1..k, S)
      BY <1>3, <1>4 DEF Injection, IsInjective
    <2>2. IsFiniteSet(1..k) /\ Cardinality(1..k) = k
      BY <1>2, FS_Interval
    <2>3. Cardinality(1..k) = Cardinality(S)
      BY <2>2 DEF k
    <2> QED
      BY <2>1, <2>2, <2>3, FS_Injection
  <1>6. \A x \in S : \E i \in 1..k : list[i] = x
    BY <1>5 DEF Surjection
  <1> QED
    BY <1>2, <1>3, <1>4, <1>6 DEF list, k

\* Sale n is taken back: refunds holds a refund of each of its payments not refunded yet.
GivesBack(n, list, refunds) ==
    /\ n \in DOMAIN sales /\ sales[n].status = "COMPLETED"
    /\ sales' = [sales EXCEPT ![n].status = "CANCELLED"]
    /\ refunds \in Seq(PaymentRecord) /\ DOMAIN refunds = DOMAIN list
    /\ \A i \in DOMAIN list : list[i] \in Refundable(n) /\ refunds[i] = RefundRow(list[i])
    /\ \A i, j \in DOMAIN list : list[i] = list[j] => i = j
    /\ \A p \in Refundable(n) : \E i \in DOMAIN list : list[i] = p
    /\ payments' = payments \o refunds
    /\ orders' = [o \in DOMAIN orders |->
          IF orders[o].sale = n THEN [orders[o] EXCEPT !.status = "CANCELLED"] ELSE orders[o]]
    /\ redemptions' = [c \in Coupons |->
          IF redemptions[c] = [sale |-> n, status |-> "LIVE"]
          THEN [sale |-> n, status |-> "CANCELLED"] ELSE redemptions[c]]
    /\ UNCHANGED coupons

LEMMA RefundShape ==
    ASSUME payments \in Seq(PaymentRecord), NEW p \in DOMAIN payments
    PROVE  LET row == RefundRow(p)
               old == payments[p] IN
           /\ row \in PaymentRecord /\ row.kind = "REFUND" /\ row.coupon = NoCoupon
           /\ row.reversedPaymentId = p /\ row.sale = old.sale /\ row.amount = old.amount
           /\ row.allocations = old.allocations
  <1> DEFINE old == payments[p]
             row == [old EXCEPT !.kind = "REFUND", !.coupon = NoCoupon, !.reversedPaymentId = p]
  <1>1. old \in PaymentRecord /\ p \in Nat
    BY ElementOfSeq
  <1>2. RefundRow(p) = row
    BY DEF RefundRow
  <1> HIDE DEF old
  <1>3. /\ row \in PaymentRecord /\ row.kind = "REFUND" /\ row.coupon = NoCoupon
        /\ row.reversedPaymentId = p /\ row.sale = old.sale /\ row.amount = old.amount
        /\ row.allocations = old.allocations
    BY <1>1 DEF PaymentRecord, PaymentKinds
  <1> HIDE DEF row
  <1> QED
    BY <1>2, <1>3 DEF old

LEMMA TakingBack ==
    ASSUME Shapes, NEW n \in DOMAIN sales, CancelSale(n)
    PROVE  \E list, refunds : GivesBack(n, list, refunds)
  <1> DEFINE S == Refundable(n)
             list == Ascending(S)
             k == Cardinality(S)
             refunds == [i \in DOMAIN list |-> RefundRow(list[i])]
  <1>1. S \subseteq DOMAIN payments /\ IsFiniteSet(S) /\ S \subseteq Nat
    <2>1. DOMAIN payments = 1..Len(payments) /\ Len(payments) \in Nat
      BY LenProperties DEF Shapes
    <2>2. IsFiniteSet(DOMAIN payments) /\ S \subseteq DOMAIN payments
      BY <2>1, FS_Interval DEF Refundable, RowsOf
    <2>3. DOMAIN payments \subseteq Nat
      BY <2>1
    <2> QED
      BY <2>2, <2>3, FS_Subset
  <1> HIDE DEF S
  <1>2. /\ list \in [1..k -> S] /\ k \in Nat
        /\ \A i, j \in DOMAIN list : list[i] = list[j] => i = j
        /\ \A x \in S : \E i \in DOMAIN list : list[i] = x
    BY <1>1, AscendingLists
  <1> HIDE DEF list, k
  <1>3. \A p \in S : RefundRow(p) \in PaymentRecord
    BY <1>1, RefundShape DEF Shapes
  <1>4. refunds \in [1..k -> PaymentRecord]
    BY <1>2, <1>3
  <1>5. refunds \in Seq(PaymentRecord)
    BY <1>2, <1>4, FunctionSeq
  <1>6. DOMAIN refunds = DOMAIN list /\ \A i \in DOMAIN list : refunds[i] = RefundRow(list[i])
    OBVIOUS
  <1>7. /\ sales[n].status = "COMPLETED" /\ sales' = [sales EXCEPT ![n].status = "CANCELLED"]
        /\ payments' = payments \o refunds
        /\ orders' = [o \in DOMAIN orders |->
              IF orders[o].sale = n THEN [orders[o] EXCEPT !.status = "CANCELLED"] ELSE orders[o]]
        /\ redemptions' = [c \in Coupons |->
              IF redemptions[c] = [sale |-> n, status |-> "LIVE"]
              THEN [sale |-> n, status |-> "CANCELLED"] ELSE redemptions[c]]
        /\ UNCHANGED coupons
    BY DEF CancelSale, S, list
  <1> HIDE DEF refunds
  <1>8. GivesBack(n, list, refunds)
    BY <1>2, <1>5, <1>6, <1>7 DEF GivesBack, S
  <1> QED
    BY <1>8

LEMMA TakingBackRows ==
    ASSUME Shapes, NEW n, NEW list, NEW refunds, GivesBack(n, list, refunds)
    PROVE  /\ sales' \in Seq(SaleRow) /\ DOMAIN sales' = DOMAIN sales
           /\ \A m \in DOMAIN sales : /\ sales'[m].till = sales[m].till
                                      /\ sales'[m].key = sales[m].key
                                      /\ m # n => sales'[m] = sales[m]
           /\ sales'[n].status = "CANCELLED"
           /\ orders' \in Seq(OrderRow) /\ DOMAIN orders' = DOMAIN orders
           /\ \A o \in DOMAIN orders :
                 /\ orders'[o].sale = orders[o].sale /\ orders'[o].lines = orders[o].lines
                 /\ orders'[o].live = orders[o].live
                 /\ orders[o].sale = n => orders'[o].status = "CANCELLED"
                 /\ orders[o].sale # n => orders'[o] = orders[o]
           /\ payments' \in Seq(PaymentRecord) /\ Joins(payments, refunds, payments')
  <1>1. payments' \in Seq(PaymentRecord) /\ Joins(payments, refunds, payments')
    <2>1. payments \in Seq(PaymentRecord) /\ refunds \in Seq(PaymentRecord)
          /\ payments' = payments \o refunds
      BY DEF Shapes, GivesBack
    <2> QED
      BY <2>1, Joining
  <1>2. ASSUME NEW o \in DOMAIN orders
        PROVE  LET row == [orders[o] EXCEPT !.status = "CANCELLED"] IN
               /\ row \in OrderRow /\ row.sale = orders[o].sale /\ row.lines = orders[o].lines
               /\ row.live = orders[o].live /\ row.status = "CANCELLED"
    <2> DEFINE old == orders[o]
    <2>1. old \in OrderRow
      BY ElementOfSeq DEF Shapes
    <2>2. "CANCELLED" \in OrderStatuses
      BY DEF OrderStatuses, NotCharged
    <2> HIDE DEF old
    <2>3. LET row == [old EXCEPT !.status = "CANCELLED"] IN
          /\ row \in OrderRow /\ row.sale = old.sale /\ row.lines = old.lines
          /\ row.live = old.live /\ row.status = "CANCELLED"
      BY <2>1, <2>2 DEF OrderRow
    <2> QED
      BY <2>3 DEF old
  <1>3. orders' = [o \in DOMAIN orders |->
          IF orders[o].sale = n THEN [orders[o] EXCEPT !.status = "CANCELLED"] ELSE orders[o]]
    BY DEF GivesBack
  <1>4. /\ DOMAIN orders' = DOMAIN orders
        /\ \A o \in DOMAIN orders :
                 /\ orders'[o] \in OrderRow
                 /\ orders'[o].sale = orders[o].sale /\ orders'[o].lines = orders[o].lines
                 /\ orders'[o].live = orders[o].live
                 /\ orders[o].sale = n => orders'[o].status = "CANCELLED"
                 /\ orders[o].sale # n => orders'[o] = orders[o]
    <2>1. \A o \in DOMAIN orders : orders[o] \in OrderRow
      BY ElementOfSeq DEF Shapes
    <2> QED
      BY <1>2, <1>3, <2>1
  <1>5. orders' \in Seq(OrderRow)
    <2>1. DOMAIN orders = 1..Len(orders) /\ Len(orders) \in Nat
      BY LenProperties DEF Shapes
    <2>2. orders' \in [1..Len(orders) -> OrderRow]
      BY <1>3, <1>4, <2>1
    <2> QED
      BY <2>1, <2>2, FunctionSeq
  <1>6. /\ sales' \in Seq(SaleRow) /\ DOMAIN sales' = DOMAIN sales
        /\ \A m \in DOMAIN sales : /\ sales'[m].till = sales[m].till
                                   /\ sales'[m].key = sales[m].key
                                   /\ m # n => sales'[m] = sales[m]
        /\ sales'[n].status = "CANCELLED"
    <2> DEFINE old == sales[n]
               row == [old EXCEPT !.status = "CANCELLED"]
    <2>1. n \in DOMAIN sales /\ sales \in Seq(SaleRow) /\ sales' = [sales EXCEPT ![n] = row]
      BY DEF GivesBack, Shapes
    <2>2. old \in SaleRow
      BY <2>1, ElementOfSeq
    <2> HIDE DEF old
    <2>3. row \in SaleRow /\ row.till = old.till /\ row.key = old.key /\ row.status = "CANCELLED"
      BY <2>2 DEF SaleRow
    <2> HIDE DEF row
    <2>4. /\ sales' \in Seq(SaleRow) /\ DOMAIN sales' = DOMAIN sales /\ sales'[n] = row
          /\ \A m \in DOMAIN sales \ {n} : sales'[m] = sales[m]
      BY <2>1, <2>3, ExceptSeq, LenProperties
    <2> QED
      BY <2>1, <2>3, <2>4 DEF old
  <1> QED
    BY <1>1, <1>4, <1>5, <1>6

-----------------------------------------------------------------------------
(* Shapes, keys and orders are kept.                                       *)

\* What is left of the orders by the kitchen and by time.
OrdersStay ==
    /\ orders' \in Seq(OrderRow) /\ DOMAIN orders' = DOMAIN orders
    /\ \A o \in DOMAIN orders :
          /\ orders'[o].sale = orders[o].sale /\ orders'[o].lines = orders[o].lines
          /\ orders'[o].live \subseteq orders[o].live
          /\ orders[o].status \in NotCharged => orders'[o].status = orders[o].status

LEMMA KitchenRows ==
    ASSUME Shapes, KitchenStep
    PROVE  OrdersStay /\ UNCHANGED <<sales, payments, coupons, redemptions>>
  <1>1. PICK o \in DOMAIN orders, row \in OrderRow : Moved(o, row)
    BY DEF KitchenStep
  <1>2. /\ orders \in Seq(OrderRow) /\ orders' = [orders EXCEPT ![o] = row]
        /\ row.sale = orders[o].sale /\ row.lines = orders[o].lines
        /\ row.live \subseteq orders[o].live
        /\ orders[o].status \in NotCharged => row.status = orders[o].status
        /\ UNCHANGED <<sales, payments, coupons, redemptions>>
    BY <1>1 DEF Moved, Shapes
  <1>3. /\ orders' \in Seq(OrderRow) /\ DOMAIN orders' = DOMAIN orders /\ orders'[o] = row
        /\ \A x \in DOMAIN orders \ {o} : orders'[x] = orders[x]
    BY <1>2, ExceptSeq, LenProperties
  <1>4. \A x \in DOMAIN orders :
          /\ orders'[x].sale = orders[x].sale /\ orders'[x].lines = orders[x].lines
          /\ orders'[x].live \subseteq orders[x].live
          /\ orders[x].status \in NotCharged => orders'[x].status = orders[x].status
    BY <1>2, <1>3
  <1> QED
    BY <1>2, <1>3, <1>4 DEF OrdersStay

LEMMA TillsAreKept == ASSUME Shapes, KeysInv PROVE TillsOK
  BY DEF Shapes, KeysInv, TillsOK

LEMMA ShapesKept ==
    ASSUME Shapes, KeysInv, [Next]_vars
    PROVE  Shapes'
  <1>1. /\ MenuShape' /\ \A i \in Items : menu'[i].price \in Prices[i]
        /\ settings' \in Settings /\ expired' \subseteq Coupons
    BY AdminKept DEF Shapes
  <1>2. till' \in [Tills -> Till] /\ req' \in [Reqs -> Request]
    <2>1. TillsOK /\ MenuShape
      BY TillsAreKept DEF Shapes
    <2>2. TillsOK'
      BY <2>1, TillsKept
    <2> QED
      BY <2>2 DEF TillsOK
  <1> DEFINE Booked == /\ coupons' \in [Coupons -> {"AVAILABLE", "USED", "CANCELLED"}]
                       /\ sales' \in Seq(SaleRow) /\ orders' \in Seq(OrderRow)
                       /\ payments' \in Seq(PaymentRecord)
                       /\ redemptions' \in [Coupons ->
                              [sale : Nat, status : {"NONE", "LIVE", "CANCELLED"}]]
  <1>3. ASSUME NEW r \in Reqs, CommitSale(r)
        PROVE  Booked
    <2>1. PICK n, quote, served, key, paid : Sells(r, n, quote, served, key, paid)
      BY <1>3, Selling
    <2>2. /\ n \in Nat /\ sales' \in Seq(SaleRow) /\ orders' \in Seq(OrderRow)
          /\ payments' \in Seq(PaymentRecord)
      BY <2>1, SellingRows
    <2>3. /\ coupons' \in [Coupons -> {"AVAILABLE", "USED", "CANCELLED"}]
          /\ redemptions' \in [Coupons -> [sale : Nat, status : {"NONE", "LIVE", "CANCELLED"}]]
      BY <2>1, <2>2 DEF Sells, Shapes
    <2> QED
      BY <2>2, <2>3
  <1>4. ASSUME NEW n \in DOMAIN sales, CancelSale(n)
        PROVE  Booked
    <2>1. PICK list, refunds : GivesBack(n, list, refunds)
      BY <1>4, TakingBack
    <2>2. sales' \in Seq(SaleRow) /\ orders' \in Seq(OrderRow) /\ payments' \in Seq(PaymentRecord)
      BY <2>1, TakingBackRows
    <2>3. n \in Nat
      BY LenProperties DEF Shapes
    <2>4. /\ coupons' \in [Coupons -> {"AVAILABLE", "USED", "CANCELLED"}]
          /\ redemptions' \in [Coupons -> [sale : Nat, status : {"NONE", "LIVE", "CANCELLED"}]]
      BY <2>1, <2>3 DEF GivesBack, Shapes
    <2> QED
      BY <2>2, <2>4
  <1>5. ASSUME KitchenStep
        PROVE  Booked
    BY <1>5, KitchenRows DEF OrdersStay, Shapes
  <1>6. ASSUME NEW c \in Coupons, CancelCoupon(c)
        PROVE  Booked
    BY <1>6 DEF CancelCoupon, Shapes
  <1>7. ASSUME UNCHANGED books
        PROVE  Booked
    BY <1>7 DEF books, Shapes
  <1>8. Booked
    <2>1. orders \in Seq(OrderRow)
      BY DEF Shapes
    <2> QED
      BY <1>3, <1>4, <1>5, <1>6, <1>7, <2>1, StepCases
  <1> QED
    BY <1>1, <1>2, <1>8 DEF Shapes

LEMMA KeysKept ==
    ASSUME Shapes, KeysInv, OneSale, [Next]_vars
    PROVE  KeysInv' /\ OneSale'
  <1>1. /\ \A t \in Tills : till'[t].key # 0
        /\ \A r \in Reqs : req'[r].pc # "idle" => req'[r].key \in 1..MaxKeys
    <2>1. TillsOK /\ MenuShape
      BY TillsAreKept DEF Shapes
    <2>2. TillsOK'
      BY <2>1, TillsKept
    <2> QED
      BY <2>2 DEF TillsOK
  <1> DEFINE Keyed == /\ \A n \in DOMAIN sales' : sales'[n].key \in 1..MaxKeys
                      /\ \A m, n \in DOMAIN sales' : /\ sales'[m].till = sales'[n].till
                                                     /\ sales'[m].key = sales'[n].key
                                                     => m = n
  <1>2. ASSUME NEW r \in Reqs, CommitSale(r)
        PROVE  Keyed
    <2>1. PICK n, quote, served, key, paid : Sells(r, n, quote, served, key, paid)
      BY <1>2, Selling
    <2>2. /\ DOMAIN sales' = DOMAIN sales \cup {n} /\ \A m \in DOMAIN sales : sales'[m] = sales[m]
          /\ sales'[n].till = req[r].till /\ sales'[n].key = req[r].key
      BY <2>1, SellingRows
    <2>3. /\ req[r].key \in 1..MaxKeys
          /\ \A m \in DOMAIN sales : ~(sales[m].till = req[r].till /\ sales[m].key = req[r].key)
      BY <2>1 DEF Sells, KeysInv, SaleOf
    <2> QED
      BY ZenonT(60), <2>2, <2>3 DEF KeysInv, OneSale
  <1>3. ASSUME NEW n \in DOMAIN sales, CancelSale(n)
        PROVE  Keyed
    <2>1. PICK list, refunds : GivesBack(n, list, refunds)
      BY <1>3, TakingBack
    <2>2. /\ DOMAIN sales' = DOMAIN sales
          /\ \A m \in DOMAIN sales : sales'[m].till = sales[m].till /\ sales'[m].key = sales[m].key
      BY <2>1, TakingBackRows
    <2> QED
      BY <2>2 DEF KeysInv, OneSale
  <1>4. ASSUME UNCHANGED sales
        PROVE  Keyed
    BY <1>4 DEF KeysInv, OneSale
  <1>5. Keyed
    <2>1. orders \in Seq(OrderRow)
      BY DEF Shapes
    <2> QED
      BY <1>2, <1>3, <1>4, <2>1, StepCases, KitchenRows, Zenon DEF CancelCoupon, books
  <1> QED
    BY <1>1, <1>5 DEF KeysInv, OneSale

\* The rows a sale adds.
LEMMA SoldRows ==
    ASSUME Shapes, NEW r, NEW n, NEW quote, NEW served, NEW key, NEW paid,
           Sells(r, n, quote, served, key, paid)
    PROVE  /\ DOMAIN orders \subseteq DOMAIN orders' /\ DOMAIN payments \subseteq DOMAIN payments'
           /\ \A o \in DOMAIN orders : orders'[o] = orders[o]
           /\ \A o \in DOMAIN orders' \ DOMAIN orders :
                 /\ orders'[o].sale = n /\ orders'[o].status \in {"NEW", "SERVED"}
                 /\ orders'[o].live = {l \in DOMAIN quote.lines : key[l] = o - Len(orders)}
                 /\ DOMAIN orders'[o].lines = orders'[o].live
                 /\ \A l \in orders'[o].live : orders'[o].lines[l] = quote.lines[l]
           /\ \A p \in DOMAIN payments : payments'[p] = payments[p]
           /\ \A p \in DOMAIN payments' \ DOMAIN payments :
                 IsDiscount(payments'[p], n, quote) \/ IsCharge(payments'[p], n, quote)
           /\ \A p, q \in DOMAIN payments' \ DOMAIN payments :
                 payments'[p].kind = payments'[q].kind => p = q
           /\ quote.coupon # NoCoupon =>
                 \E p \in DOMAIN payments' \ DOMAIN payments : payments'[p].kind = "DISCOUNT"
           /\ TotalAmount(quote) # 0 =>
                 \E p \in DOMAIN payments' \ DOMAIN payments : payments'[p].kind = "CHARGE"
  <1>1. Joins(orders, served, orders') /\ Joins(payments, paid, payments')
    BY SellingRows
  <1>2. SharesOut(served, n, quote.lines, key) /\ Pays(paid, n, quote)
    BY DEF Sells
  <1>3. ASSUME NEW o \in DOMAIN orders' \ DOMAIN orders
        PROVE  /\ orders'[o].sale = n /\ orders'[o].status \in {"NEW", "SERVED"}
               /\ orders'[o].live = {l \in DOMAIN quote.lines : key[l] = o - Len(orders)}
               /\ DOMAIN orders'[o].lines = orders'[o].live
               /\ \A l \in orders'[o].live : orders'[o].lines[l] = quote.lines[l]
    <2> DEFINE i == o - Len(orders)
    <2>1. i \in DOMAIN served /\ orders'[o] = served[i]
      BY <1>1 DEF Joins
    <2> HIDE DEF i
    <2>2. /\ served[i].sale = n /\ served[i].status \in {"NEW", "SERVED"}
          /\ served[i].live = {l \in DOMAIN quote.lines : key[l] = i}
          /\ DOMAIN served[i].lines = served[i].live
          /\ \A l \in served[i].live : served[i].lines[l] = quote.lines[l]
      BY <1>2, <2>1 DEF SharesOut
    <2> QED
      BY <2>1, <2>2 DEF i
  <1>4. ASSUME NEW p \in DOMAIN payments' \ DOMAIN payments
        PROVE  /\ p - Len(payments) \in DOMAIN paid /\ payments'[p] = paid[p - Len(payments)]
               /\ IsDiscount(payments'[p], n, quote) \/ IsCharge(payments'[p], n, quote)
               /\ p \in Int
    <2>1. p - Len(payments) \in DOMAIN paid /\ payments'[p] = paid[p - Len(payments)]
      BY <1>1 DEF Joins
    <2>2. p \in Int
      <3>1. payments' \in Seq(PaymentRecord)
        BY SellingRows
      <3>2. DOMAIN payments' = 1..Len(payments')
        BY ONLY <3>1, LenProperties
      <3> QED
        BY <3>2
    <2> QED
      BY <1>2, <2>1, <2>2 DEF Pays
  <1>5. ASSUME NEW p \in DOMAIN payments' \ DOMAIN payments,
               NEW q \in DOMAIN payments' \ DOMAIN payments, payments'[p].kind = payments'[q].kind
        PROVE  p = q
    <2>1. p - Len(payments) = q - Len(payments)
      BY <1>2, <1>4, <1>5 DEF Pays
    <2>2. Len(payments) \in Int
      BY <1>1 DEF Joins
    <2> QED
      BY <1>4, <2>1, <2>2
  <1>6. ASSUME NEW kind, NEW j \in DOMAIN paid, paid[j].kind = kind
        PROVE  \E p \in DOMAIN payments' \ DOMAIN payments : payments'[p].kind = kind
    BY <1>1, <1>6 DEF Joins
  <1>7. /\ DOMAIN orders \subseteq DOMAIN orders' /\ DOMAIN payments \subseteq DOMAIN payments'
        /\ \A o \in DOMAIN orders : orders'[o] = orders[o]
        /\ \A p \in DOMAIN payments : payments'[p] = payments[p]
    BY <1>1 DEF Joins
  <1>8. /\ quote.coupon # NoCoupon => \E j \in DOMAIN paid : paid[j].kind = "DISCOUNT"
        /\ TotalAmount(quote) # 0 => \E j \in DOMAIN paid : paid[j].kind = "CHARGE"
    BY <1>2 DEF Pays
  <1> QED
    BY <1>3, <1>4, <1>5, <1>6, <1>7, <1>8

\* The rows that taking a sale back adds.
LEMMA RefundedRows ==
    ASSUME Shapes, NEW n, NEW list, NEW refunds, GivesBack(n, list, refunds)
    PROVE  /\ DOMAIN payments \subseteq DOMAIN payments'
           /\ \A p \in DOMAIN payments : payments'[p] = payments[p]
           /\ \A q \in DOMAIN payments' \ DOMAIN payments :
                 LET p == payments'[q].reversedPaymentId IN
                 /\ p \in Refundable(n) /\ payments'[q].kind = "REFUND"
                 /\ Refunds(payments'[q], payments[p])
           /\ \A q, s \in DOMAIN payments' \ DOMAIN payments :
                 payments'[q].reversedPaymentId = payments'[s].reversedPaymentId => q = s
           /\ \A p \in Refundable(n) : \E q \in DOMAIN payments' \ DOMAIN payments :
                 payments'[q].reversedPaymentId = p
  <1>1. Joins(payments, refunds, payments') /\ payments \in Seq(PaymentRecord)
    BY TakingBackRows DEF Shapes
  <1>2. /\ DOMAIN refunds = DOMAIN list
        /\ \A i \in DOMAIN list : list[i] \in Refundable(n) /\ refunds[i] = RefundRow(list[i])
        /\ \A i, j \in DOMAIN list : list[i] = list[j] => i = j
        /\ \A p \in Refundable(n) : \E i \in DOMAIN list : list[i] = p
    BY DEF GivesBack
  <1>3. \A p \in Refundable(n) : p \in DOMAIN payments /\ payments[p].kind \in Originals
    BY DEF Refundable, RowsOf
  <1>4. ASSUME NEW i \in DOMAIN list
        PROVE  /\ refunds[i].kind = "REFUND" /\ refunds[i].reversedPaymentId = list[i]
               /\ Refunds(refunds[i], payments[list[i]])
    <2>1. list[i] \in DOMAIN payments /\ payments[list[i]].kind \in Originals
      BY <1>2, <1>3
    <2> DEFINE row == RefundRow(list[i])
    <2>2. /\ row.kind = "REFUND" /\ row.coupon = NoCoupon
          /\ row.reversedPaymentId = list[i] /\ row.sale = payments[list[i]].sale
          /\ row.amount = payments[list[i]].amount
          /\ row.allocations = payments[list[i]].allocations
      BY <1>1, <2>1, RefundShape
    <2>3. refunds[i] = row
      BY <1>2
    <2> HIDE DEF row
    <2> QED
      BY <2>1, <2>2, <2>3 DEF Refunds
  <1>5. ASSUME NEW q \in DOMAIN payments' \ DOMAIN payments
        PROVE  /\ q - Len(payments) \in DOMAIN list /\ payments'[q] = refunds[q - Len(payments)]
               /\ payments'[q].reversedPaymentId = list[q - Len(payments)] /\ q \in Int
    <2>1. q - Len(payments) \in DOMAIN list /\ payments'[q] = refunds[q - Len(payments)]
      BY <1>1, <1>2 DEF Joins
    <2>2. q \in Int
      BY TakingBackRows, LenProperties
    <2> QED
      BY <1>4, <2>1, <2>2
  <1>6. ASSUME NEW q \in DOMAIN payments' \ DOMAIN payments
        PROVE  LET p == payments'[q].reversedPaymentId IN
               /\ p \in Refundable(n) /\ payments'[q].kind = "REFUND"
               /\ Refunds(payments'[q], payments[p])
    BY <1>2, <1>4, <1>5
  <1>7. ASSUME NEW q \in DOMAIN payments' \ DOMAIN payments,
               NEW s \in DOMAIN payments' \ DOMAIN payments,
               payments'[q].reversedPaymentId = payments'[s].reversedPaymentId
        PROVE  q = s
    <2>1. q - Len(payments) = s - Len(payments)
      BY <1>2, <1>5, <1>7
    <2>2. Len(payments) \in Int
      BY <1>1 DEF Joins
    <2> QED
      BY <1>5, <2>1, <2>2
  <1>8. ASSUME NEW p \in Refundable(n)
        PROVE  \E q \in DOMAIN payments' \ DOMAIN payments : payments'[q].reversedPaymentId = p
    <2>1. PICK i \in DOMAIN list : list[i] = p
      BY <1>2
    <2>2. /\ Len(payments) + i \in DOMAIN payments' \ DOMAIN payments
          /\ payments'[Len(payments) + i] = refunds[i]
      BY <1>1, <1>2, <2>1 DEF Joins
    <2> QED
      BY <1>4, <2>1, <2>2
  <1>9. DOMAIN payments \subseteq DOMAIN payments' /\ \A p \in DOMAIN payments : payments'[p] = payments[p]
    BY <1>1 DEF Joins
  <1> QED
    BY <1>6, <1>7, <1>8, <1>9

LEMMA OrdersKept ==
    ASSUME Shapes, OrdersInv, [Next]_vars
    PROVE  OrdersInv'
  <1>1. ASSUME NEW r \in Reqs, CommitSale(r)
        PROVE  OrdersInv'
    <2>1. PICK n, quote, served, key, paid : Sells(r, n, quote, served, key, paid)
      BY <1>1, Selling
    <2>2. /\ DOMAIN sales' = DOMAIN sales \cup {n} /\ \A m \in DOMAIN sales : sales'[m] = sales[m]
          /\ sales'[n].status = "COMPLETED"
      BY <2>1, SellingRows
    <2>3. ASSUME NEW o \in DOMAIN orders
          PROVE  /\ orders'[o] = orders[o] /\ orders[o].sale \in DOMAIN sales
                 /\ sales'[orders[o].sale] = sales[orders[o].sale]
      BY <2>1, <2>2, SoldRows DEF OrdersInv
    <2>4. ASSUME NEW o \in DOMAIN orders' \ DOMAIN orders
          PROVE  /\ orders'[o].sale = n /\ DOMAIN orders'[o].lines = orders'[o].live
                 /\ IsFiniteSet(DOMAIN orders'[o].lines)
      <3> DEFINE row == orders'[o]
                 D == DOMAIN quote.lines
      <3>1. /\ row.sale = n /\ row.live = {l \in D : key[l] = o - Len(orders)}
            /\ DOMAIN row.lines = row.live
        BY <2>1, SoldRows
      <3>2. IsFiniteSet(D)
        <4>1. quote.lines \in Seq(Line)
          BY <2>1, NetWorth DEF Sells
        <4> QED
          BY <4>1, LinesWorth
      <3> HIDE DEF row, D
      <3>3. IsFiniteSet(DOMAIN row.lines)
        BY <3>1, <3>2, FS_Subset
      <3> QED
        BY <3>1, <3>3 DEF row
    <2>5. \A o \in DOMAIN orders' :
            /\ orders'[o].sale \in DOMAIN sales'
            /\ IsFiniteSet(DOMAIN orders'[o].lines)
            /\ orders'[o].live \subseteq DOMAIN orders'[o].lines
            /\ sales'[orders'[o].sale].status = "CANCELLED" => orders'[o].status = "CANCELLED"
      BY <2>2, <2>3, <2>4 DEF OrdersInv
    <2> QED
      BY <2>5 DEF OrdersInv
  <1>2. ASSUME NEW n \in DOMAIN sales, CancelSale(n)
        PROVE  OrdersInv'
    <2>1. PICK list, refunds : GivesBack(n, list, refunds)
      BY <1>2, TakingBack
    <2>2. /\ DOMAIN sales' = DOMAIN sales
          /\ \A m \in DOMAIN sales : m # n => sales'[m] = sales[m]
          /\ DOMAIN orders' = DOMAIN orders
          /\ \A o \in DOMAIN orders :
                 /\ orders'[o].sale = orders[o].sale /\ orders'[o].lines = orders[o].lines
                 /\ orders'[o].live = orders[o].live
                 /\ orders[o].sale = n => orders'[o].status = "CANCELLED"
                 /\ orders[o].sale # n => orders'[o] = orders[o]
      BY <2>1, TakingBackRows
    <2>3. ASSUME NEW o \in DOMAIN orders
          PROVE  /\ orders'[o].sale \in DOMAIN sales'
                 /\ IsFiniteSet(DOMAIN orders'[o].lines)
                 /\ orders'[o].live \subseteq DOMAIN orders'[o].lines
                 /\ sales'[orders'[o].sale].status = "CANCELLED" => orders'[o].status = "CANCELLED"
      <3>1. /\ orders[o].sale \in DOMAIN sales /\ IsFiniteSet(DOMAIN orders[o].lines)
            /\ orders[o].live \subseteq DOMAIN orders[o].lines
            /\ sales[orders[o].sale].status = "CANCELLED" => orders[o].status = "CANCELLED"
        BY DEF OrdersInv
      <3>2. CASE orders[o].sale = n
        BY <2>2, <3>1, <3>2
      <3>3. CASE orders[o].sale # n
        BY <2>2, <3>1, <3>3
      <3> QED
        BY <3>2, <3>3
    <2> QED
      BY <2>2, <2>3 DEF OrdersInv
  <1>3. ASSUME KitchenStep
        PROVE  OrdersInv'
    <2>1. OrdersStay /\ UNCHANGED sales
      BY <1>3, KitchenRows
    <2>2. "CANCELLED" \in NotCharged
      BY DEF NotCharged
    <2> QED
      BY <2>1, <2>2 DEF OrdersInv, OrdersStay
  <1>4. ASSUME UNCHANGED <<sales, orders>>
        PROVE  OrdersInv'
    BY <1>4 DEF OrdersInv
  <1>5. orders \in Seq(OrderRow)
    BY DEF Shapes
  <1> QED
    BY <1>1, <1>2, <1>3, <1>4, <1>5, StepCases, Zenon DEF CancelCoupon, books

\* The parts of RefundsInv.
RowsRelated ==
    \A p \in DOMAIN payments :
       /\ payments[p].sale \in DOMAIN sales
       /\ payments[p].kind \in Originals =>
             /\ payments[p].reversedPaymentId = 0
             /\ sales[payments[p].sale].status = "CANCELLED" => Reversed(p)
       /\ payments[p].kind = "REFUND" =>
             /\ payments[p].reversedPaymentId \in DOMAIN payments
             /\ Refunds(payments[p], payments[payments[p].reversedPaymentId])
             /\ sales[payments[p].sale].status = "CANCELLED"
RefundedOnce ==
    \A p, q \in DOMAIN payments :
       /\ payments[p].kind = "REFUND" /\ payments[q].kind = "REFUND"
       /\ payments[p].reversedPaymentId = payments[q].reversedPaymentId
       => p = q

LEMMA RefundsKept ==
    ASSUME Shapes, RefundsInv, [Next]_vars
    PROVE  RefundsInv'
  <1>0. RowsRelated /\ RefundedOnce
    BY DEF RefundsInv, RowsRelated, RefundedOnce
  <1>1. ASSUME NEW r \in Reqs, CommitSale(r)
        PROVE  RowsRelated' /\ RefundedOnce'
    <2>1. PICK n, quote, served, key, paid : Sells(r, n, quote, served, key, paid)
      BY <1>1, Selling
    <2>2. /\ DOMAIN sales' = DOMAIN sales \cup {n} /\ \A m \in DOMAIN sales : sales'[m] = sales[m]
          /\ sales'[n].status = "COMPLETED"
      BY <2>1, SellingRows
    <2>3. /\ DOMAIN payments \subseteq DOMAIN payments'
          /\ \A p \in DOMAIN payments : payments'[p] = payments[p]
          /\ \A p \in DOMAIN payments' \ DOMAIN payments :
                IsDiscount(payments'[p], n, quote) \/ IsCharge(payments'[p], n, quote)
      BY <2>1, SoldRows
    <2>4. \A p \in DOMAIN payments' \ DOMAIN payments :
             /\ payments'[p].sale = n /\ payments'[p].reversedPaymentId = 0
             /\ payments'[p].kind # "REFUND"
      BY <2>3 DEF IsDiscount, IsCharge
    <2>5. \A p \in DOMAIN payments : Reversed(p) => Reversed(p)'
      BY <2>3 DEF Reversed
    <2>7. ASSUME NEW p \in DOMAIN payments'
          PROVE  /\ payments'[p].sale \in DOMAIN sales'
                 /\ payments'[p].kind \in Originals =>
                       /\ payments'[p].reversedPaymentId = 0
                       /\ sales'[payments'[p].sale].status = "CANCELLED" => Reversed(p)'
                 /\ payments'[p].kind = "REFUND" =>
                       /\ payments'[p].reversedPaymentId \in DOMAIN payments'
                       /\ Refunds(payments'[p], payments'[payments'[p].reversedPaymentId])
                       /\ sales'[payments'[p].sale].status = "CANCELLED"
      <3>1. CASE p \in DOMAIN payments
        <4>1. payments'[p] = payments[p] /\ payments[p].sale \in DOMAIN sales
              /\ sales'[payments[p].sale] = sales[payments[p].sale]
          BY <1>0, <2>2, <2>3, <3>1 DEF RowsRelated
        <4>2. payments[p].kind = "REFUND" =>
                 /\ payments[p].reversedPaymentId \in DOMAIN payments'
                 /\ Refunds(payments[p], payments'[payments[p].reversedPaymentId])
          BY <1>0, <2>3, <3>1 DEF RowsRelated
        <4> QED
          BY <1>0, <2>2, <2>5, <3>1, <4>1, <4>2 DEF RowsRelated
      <3>2. CASE p \notin DOMAIN payments
        BY <2>2, <2>4, <3>2
      <3> QED
        BY <3>1, <3>2
    <2>8. RowsRelated'
      BY <2>7 DEF RowsRelated
    <2>9. RefundedOnce'
      BY <1>0, <2>3, <2>4 DEF RefundedOnce
    <2> QED
      BY <2>8, <2>9
  <1>2. ASSUME NEW n \in DOMAIN sales, CancelSale(n)
        PROVE  RowsRelated' /\ RefundedOnce'
    <2>1. PICK list, refunds : GivesBack(n, list, refunds)
      BY <1>2, TakingBack
    <2>2. /\ DOMAIN sales' = DOMAIN sales /\ \A m \in DOMAIN sales : m # n => sales'[m] = sales[m]
          /\ sales'[n].status = "CANCELLED"
      BY <2>1, TakingBackRows
    <2>3. /\ DOMAIN payments \subseteq DOMAIN payments'
          /\ \A p \in DOMAIN payments : payments'[p] = payments[p]
          /\ \A q \in DOMAIN payments' \ DOMAIN payments :
                LET p == payments'[q].reversedPaymentId IN
                /\ p \in Refundable(n) /\ payments'[q].kind = "REFUND"
                /\ Refunds(payments'[q], payments[p])
          /\ \A q, s \in DOMAIN payments' \ DOMAIN payments :
                payments'[q].reversedPaymentId = payments'[s].reversedPaymentId => q = s
          /\ \A p \in Refundable(n) : \E q \in DOMAIN payments' \ DOMAIN payments :
                payments'[q].reversedPaymentId = p
      BY <2>1, RefundedRows
    <2>4. \A p \in Refundable(n) : /\ p \in DOMAIN payments /\ payments[p].sale = n
                                   /\ payments[p].kind \in Originals /\ ~Reversed(p)
      BY DEF Refundable, RowsOf
    <2>5. \A p \in DOMAIN payments : Reversed(p) => Reversed(p)'
      BY <2>3 DEF Reversed
    <2>7. ASSUME NEW p \in DOMAIN payments, payments[p].kind \in Originals, payments[p].sale = n
          PROVE  Reversed(p)'
      <3>1. CASE Reversed(p)
        BY <2>5, <3>1
      <3>2. CASE ~Reversed(p)
        <4>1. p \in Refundable(n)
          BY <2>7, <3>2 DEF Refundable, RowsOf
        <4> QED
          BY <2>3, <4>1 DEF Reversed
      <3> QED
        BY <3>1, <3>2
    <2>8. ASSUME NEW p \in DOMAIN payments'
          PROVE  /\ payments'[p].sale \in DOMAIN sales'
                 /\ payments'[p].kind \in Originals =>
                       /\ payments'[p].reversedPaymentId = 0
                       /\ sales'[payments'[p].sale].status = "CANCELLED" => Reversed(p)'
                 /\ payments'[p].kind = "REFUND" =>
                       /\ payments'[p].reversedPaymentId \in DOMAIN payments'
                       /\ Refunds(payments'[p], payments'[payments'[p].reversedPaymentId])
                       /\ sales'[payments'[p].sale].status = "CANCELLED"
      <3>1. CASE p \in DOMAIN payments
        <4>1. payments'[p] = payments[p] /\ payments[p].sale \in DOMAIN sales
          BY <1>0, <2>3, <3>1 DEF RowsRelated
        <4>2. payments[p].sale # n => sales'[payments[p].sale] = sales[payments[p].sale]
          BY <2>2, <4>1
        <4>3. payments[p].kind \in Originals =>
                 /\ payments[p].reversedPaymentId = 0
                 /\ sales'[payments[p].sale].status = "CANCELLED" => Reversed(p)'
          BY <1>0, <2>5, <2>7, <3>1, <4>2 DEF RowsRelated
        <4>4. payments[p].kind = "REFUND" =>
                 /\ payments[p].reversedPaymentId \in DOMAIN payments'
                 /\ Refunds(payments[p], payments'[payments[p].reversedPaymentId])
                 /\ sales'[payments[p].sale].status = "CANCELLED"
          BY <1>0, <2>2, <2>3, <3>1, <4>2 DEF RowsRelated
        <4> QED
          BY <2>2, <4>1, <4>3, <4>4
      <3>2. CASE p \notin DOMAIN payments
        <4> DEFINE q == payments'[p].reversedPaymentId
        <4>1. /\ q \in Refundable(n) /\ payments'[p].kind = "REFUND"
              /\ Refunds(payments'[p], payments[q])
          BY <2>3, <3>2
        <4>2. q \in DOMAIN payments /\ payments[q].sale = n
          BY <2>4, <4>1
        <4>3. q \in DOMAIN payments' /\ Refunds(payments'[p], payments'[q])
          BY <2>3, <4>1, <4>2
        <4>4. payments'[p].sale = n
          BY <4>1, <4>2 DEF Refunds
        <4> QED
          BY <2>2, <4>1, <4>3, <4>4 DEF Originals
      <3> QED
        BY <3>1, <3>2
    <2>9. RowsRelated'
      BY <2>8 DEF RowsRelated
    <2>10. ASSUME NEW p \in DOMAIN payments', NEW q \in DOMAIN payments',
                  payments'[p].kind = "REFUND", payments'[q].kind = "REFUND",
                  payments'[p].reversedPaymentId = payments'[q].reversedPaymentId
           PROVE  p = q
      <3>1. CASE p \in DOMAIN payments /\ q \in DOMAIN payments
        BY <1>0, <2>3, <2>10, <3>1 DEF RefundedOnce
      <3>2. ASSUME NEW x \in DOMAIN payments, NEW y \in DOMAIN payments' \ DOMAIN payments,
                   payments'[x].reversedPaymentId = payments'[y].reversedPaymentId
            PROVE  FALSE
        <4>1. ~Reversed(payments'[y].reversedPaymentId)
          BY <2>3, <2>4
        <4>2. Reversed(payments[x].reversedPaymentId)
          BY DEF Reversed
        <4> QED
          BY <2>3, <3>2, <4>1, <4>2
      <3>3. CASE p \notin DOMAIN payments /\ q \notin DOMAIN payments
        BY <2>3, <2>10, <3>3
      <3> QED
        BY <2>10, <3>1, <3>2, <3>3
    <2>11. RefundedOnce'
      BY <2>10 DEF RefundedOnce
    <2> QED
      BY <2>9, <2>11
  <1>3. ASSUME UNCHANGED <<sales, payments>>
        PROVE  RowsRelated' /\ RefundedOnce'
    BY <1>0, <1>3 DEF RowsRelated, RefundedOnce, Refunds, Reversed
  <1>4. RowsRelated' /\ RefundedOnce'
    <2>1. orders \in Seq(OrderRow)
      BY DEF Shapes
    <2> QED
      BY <1>1, <1>2, <1>3, <2>1, StepCases, KitchenRows, Zenon DEF CancelCoupon, books
  <1> QED
    BY <1>4 DEF RefundsInv, RowsRelated, RefundedOnce

-----------------------------------------------------------------------------
(* What a sale was sold for is what was paid for it.                       *)

\* What some of the rows amount to.
PaidBy(rows, S) == SumFunction([p \in S |-> rows[p].amount])

LEMMA PaidParts ==
    ASSUME NEW rows \in Seq(PaymentRecord), NEW S \in SUBSET DOMAIN rows
    PROVE  /\ IsFiniteSet(S) /\ PaidBy(rows, S) \in Nat
           /\ \A p \in S : PaidBy(rows, {p}) = rows[p].amount
           /\ PaidBy(rows, {}) = 0
           /\ \A T \in SUBSET S : PaidBy(rows, S) = PaidBy(rows, T) + PaidBy(rows, S \ T)
  <1> DEFINE D == DOMAIN rows
             f == [p \in D |-> rows[p].amount]
  <1>1. IsFiniteSet(D) /\ \A p \in D : f[p] \in Nat
    <2>1. D = 1..Len(rows) /\ Len(rows) \in Nat
      BY LenProperties
    <2>2. \A p \in D : rows[p] \in PaymentRecord
      BY ElementOfSeq
    <2> QED
      BY <2>1, <2>2, FS_Interval DEF PaymentRecord
  <1>2. \A p \in D : f[p] = rows[p].amount
    OBVIOUS
  <1> HIDE DEF f, D
  <1>3. ASSUME NEW T \in SUBSET D
        PROVE  IsFiniteSet(T) /\ PaidBy(rows, T) = SumFunctionOnSet(f, T) /\ PaidBy(rows, T) \in Nat
    <2> DEFINE g == [p \in T |-> rows[p].amount]
    <2>1. IsFiniteSet(T)
      BY <1>1, FS_Subset
    <2>2. PaidBy(rows, T) = SumFunctionOnSet(g, T)
      BY DEF PaidBy, SumFunction
    <2>3. \A p \in T : f[p] \in Int /\ g[p] = f[p]
      BY <1>1, <1>2
    <2> HIDE DEF g
    <2>4. SumFunctionOnSet(g, T) = SumFunctionOnSet(f, T)
      BY <2>1, <2>3, SumAgrees
    <2>5. SumFunctionOnSet(f, T) \in Nat
      <3>1. \A p \in T : f[p] \in Nat
        BY <1>1
      <3> QED
        BY <2>1, <3>1, SumOfNaturals
    <2> QED
      BY <2>1, <2>2, <2>4, <2>5
  <1>4. S \in SUBSET D
    BY DEF D
  <1>5. ASSUME NEW T \in SUBSET S
        PROVE  PaidBy(rows, S) = PaidBy(rows, T) + PaidBy(rows, S \ T)
    <2>1. T \in SUBSET D /\ S \ T \in SUBSET D /\ T \cap (S \ T) = {} /\ T \cup (S \ T) = S
      BY <1>4
    <2>2. IsFiniteSet(T) /\ IsFiniteSet(S \ T) /\ \A p \in T \cup (S \ T) : f[p] \in Int
      BY <1>1, <1>3, <2>1
    <2>3. SumFunctionOnSet(f, T \cup (S \ T))
            = SumFunctionOnSet(f, T) + SumFunctionOnSet(f, S \ T)
      BY <2>1, <2>2, SumOfParts
    <2> QED
      BY <1>3, <1>4, <2>1, <2>3
  <1>6. PaidBy(rows, {}) = 0
    BY <1>3, SumOnNothing
  <1>7. ASSUME NEW p \in S
        PROVE  PaidBy(rows, {p}) = rows[p].amount
    <2>1. {p} \in SUBSET D /\ {} \in SUBSET D /\ p \notin {} /\ {} \cup {p} = {p}
      BY <1>4
    <2>2. IsFiniteSet({}) /\ \A y \in {} \cup {p} : f[y] \in Int
      BY <1>1, <2>1, FS_EmptySet
    <2>3. SumFunctionOnSet(f, {} \cup {p}) = f[p] + SumFunctionOnSet(f, {})
      BY ONLY <2>1, <2>2, SumWith
    <2>4. f[p] = rows[p].amount /\ f[p] \in Nat
      BY <1>1, <1>2, <2>1
    <2> QED
      BY <1>3, <2>1, <2>3, <2>4, SumOnNothing
  <1> QED
    BY <1>3, <1>4, <1>5, <1>6, <1>7

\* A sale none of whose orders has been added or re-written is worth what it was.
LEMMA WorthStays ==
    ASSUME NEW m, DOMAIN orders \subseteq DOMAIN orders',
           \A o \in DOMAIN orders : /\ orders'[o].sale = orders[o].sale
                                    /\ orders'[o].lines = orders[o].lines,
           \A o \in DOMAIN orders' \ DOMAIN orders : orders'[o].sale # m
    PROVE  Worth(m)' = Worth(m)
  <1> DEFINE R == RowsOf(orders, m)
  <1>1. RowsOf(orders', m) = R
    BY DEF RowsOf
  <1>2. \A o \in R : FullAmount(orders'[o]) = FullAmount(orders[o])
    BY DEF FullAmount, RowsOf
  <1> HIDE DEF R
  <1>3. [o \in R |-> FullAmount(orders'[o])] = [o \in R |-> FullAmount(orders[o])]
    BY <1>2
  <1> QED
    BY <1>1, <1>3 DEF Worth, R

\* No row of the kinds has been added for the sale.
LEMMA PaidStays ==
    ASSUME NEW m, NEW kinds, DOMAIN payments \subseteq DOMAIN payments',
           \A p \in DOMAIN payments : payments'[p] = payments[p],
           \A p \in DOMAIN payments' \ DOMAIN payments :
               payments'[p].sale # m \/ payments'[p].kind \notin kinds
    PROVE  /\ OriginalsOf(m, kinds)' = OriginalsOf(m, kinds)
           /\ Amounts(OriginalsOf(m, kinds))' = Amounts(OriginalsOf(m, kinds))
  <1> DEFINE S == OriginalsOf(m, kinds)
  <1>1. OfKinds(payments', m, kinds) = S
    BY DEF OriginalsOf, OfKinds, RowsOf
  <1>2. \A p \in S : payments'[p].amount = payments[p].amount
    BY DEF OriginalsOf, OfKinds, RowsOf
  <1> HIDE DEF S
  <1>3. [p \in S |-> payments'[p].amount] = [p \in S |-> payments[p].amount]
    BY <1>2
  <1>4. OriginalsOf(m, kinds)' = S
    BY <1>1 DEF OriginalsOf
  <1>5. Amounts(OriginalsOf(m, kinds))' = SumFunction([p \in S |-> payments'[p].amount])
    BY <1>4 DEF Amounts
  <1> QED
    BY <1>3, <1>4, <1>5 DEF Amounts, S

\* The orders of a sale that is made are worth its subtotal.
LEMMA NewWorth ==
    ASSUME Shapes, OrdersInv, NEW r, NEW n, NEW quote, NEW served, NEW key, NEW paid,
           Sells(r, n, quote, served, key, paid)
    PROVE  Worth(n)' = Subtotal(quote)
  <1> DEFINE lines == quote.lines
             D == DOMAIN lines
             K == DOMAIN orders' \ DOMAIN orders
             f == LineAmounts(lines)
             group == [l \in D |-> Len(orders) + key[l]]
             g == [o \in K |-> FullAmount(orders'[o])]
             Part(o) == {l \in D : group[l] = o}
  <1>1. /\ n \notin DOMAIN sales /\ orders' \in Seq(OrderRow) /\ Joins(orders, served, orders')
    BY SellingRows
  <1>2. /\ DOMAIN orders \subseteq DOMAIN orders' /\ \A o \in DOMAIN orders : orders'[o] = orders[o]
        /\ \A o \in K :
              /\ orders'[o].sale = n
              /\ orders'[o].live = {l \in DOMAIN quote.lines : key[l] = o - Len(orders)}
              /\ DOMAIN orders'[o].lines = orders'[o].live
              /\ \A l \in orders'[o].live : orders'[o].lines[l] = quote.lines[l]
    BY SoldRows
  <1>3. RowsOf(orders', n) = K
    <2>1. \A o \in DOMAIN orders : orders'[o].sale # n
      BY <1>1, <1>2 DEF OrdersInv
    <2> QED
      BY <1>2, <2>1 DEF RowsOf
  <1>4. /\ IsFiniteSet(D) /\ lines \in Seq(Line)
        /\ \A l \in D : f[l] = LineTotal(lines[l]) /\ f[l] \in Nat
    <2>1. lines \in Seq(Line)
      BY NetWorth DEF Sells
    <2> QED
      BY <2>1, LinesWorth
  <1>5. SumFunction(f) = SumFunctionOnSet(f, D) /\ Subtotal(quote) = SumFunction(f)
    BY DEF SumFunction, Subtotal, SumOf, LineAmounts
  <1>6. IsFiniteSet(K) /\ K \subseteq Nat
    <2>1. DOMAIN orders' = 1..Len(orders') /\ Len(orders') \in Nat
      BY <1>1, LenProperties
    <2>2. IsFiniteSet(DOMAIN orders')
      BY <2>1, FS_Interval
    <2> QED
      BY <2>1, <2>2, FS_Subset
  <1>7. /\ key \in [D -> DOMAIN served] /\ DOMAIN served \subseteq Int /\ Len(orders) \in Nat
        /\ \A j \in DOMAIN served : Len(orders) + j \in K
    BY <1>1, LenProperties DEF Sells, SharesOut, Joins
  <1>8. \A l \in D : group[l] \in K
    BY <1>7
  <1>9. ASSUME NEW o \in K
        PROVE  g[o] = SumFunctionOnSet(f, Part(o))
    <2> DEFINE row == orders'[o]
               P == Part(o)
               h == [l \in P |-> LineTotal(row.lines[l])]
    <2>1. \A l \in D : group[l] = o <=> key[l] = o - Len(orders)
      BY <1>6, <1>7
    <2>g. g[o] = FullAmount(row)
      OBVIOUS
    <2>h. \A l \in P : h[l] = LineTotal(row.lines[l])
      OBVIOUS
    <2> HIDE DEF group, f, g
    <2>p. P = {l \in D : key[l] = o - Len(orders)}
      BY <2>1
    <2>2. DOMAIN row.lines = P /\ \A l \in P : row.lines[l] = lines[l]
      BY ZenonT(60), <1>2, <2>p
    <2>3. g[o] = SumFunctionOnSet(h, P)
      BY <2>2, <2>g DEF FullAmount, SumFunction
    <2>4. P \in SUBSET D /\ IsFiniteSet(P)
      BY <1>4, FS_Subset
    <2> HIDE DEF P, h, row, D, lines
    <2>5. \A l \in P : f[l] \in Int /\ h[l] = f[l]
      BY <1>4, <2>2, <2>4, <2>h
    <2>6. SumFunctionOnSet(h, P) = SumFunctionOnSet(f, P)
      BY <2>4, <2>5, SumAgrees
    <2> QED
      BY <2>3, <2>6 DEF P
  <1>10. SumFunctionOnSet(g, K) = SumFunctionOnSet(f, D)
    <2>1. Grouped(D, K, group, f, g)
      <3>2. \A o \in K : g[o] = SumFunctionOnSet(f, {l \in D : group[l] = o})
        BY <1>9
      <3> HIDE DEF D, K, group, f, g
      <3>1. \A l \in D : group[l] \in K /\ f[l] \in Int
        BY <1>4, <1>8
      <3> QED
        BY ONLY <3>1, <3>2 DEF Grouped
    <2> HIDE DEF D, K, group, f, g
    <2> QED
      BY <1>4, <1>6, <2>1, SumOfGroups
  <1>11. Worth(n)' = SumFunctionOnSet(g, K)
    BY <1>3 DEF Worth, SumFunction
  <1> QED
    BY <1>5, <1>10, <1>11

\* What is paid for a sale that is made: its discount, and its total.
LEMMA NewMoney ==
    ASSUME Shapes, RefundsInv, NEW r, NEW n, NEW quote, NEW served, NEW key, NEW paid,
           Sells(r, n, quote, served, key, paid)
    PROVE  /\ Amounts(OriginalsOf(n, {"DISCOUNT"}))' = quote.discount
           /\ Amounts(OriginalsOf(n, {"CHARGE"}))' = TotalAmount(quote)
           /\ Amounts(OriginalsOf(n, Originals))' = Subtotal(quote)
  <1> DEFINE K == DOMAIN payments' \ DOMAIN payments
             Of(kind) == OfKinds(payments', n, {kind})
             All == OfKinds(payments', n, Originals)
  <1>1. n \notin DOMAIN sales /\ payments' \in Seq(PaymentRecord)
    BY SellingRows
  <1>2. /\ DOMAIN payments \subseteq DOMAIN payments'
        /\ \A p \in DOMAIN payments : payments'[p] = payments[p]
        /\ \A p \in K : IsDiscount(payments'[p], n, quote) \/ IsCharge(payments'[p], n, quote)
        /\ \A p, q \in K : payments'[p].kind = payments'[q].kind => p = q
        /\ quote.coupon # NoCoupon => \E p \in K : payments'[p].kind = "DISCOUNT"
        /\ TotalAmount(quote) # 0 => \E p \in K : payments'[p].kind = "CHARGE"
    BY SoldRows
  <1>3. RowsOf(payments', n) = K
    <2>1. \A p \in DOMAIN payments : payments'[p].sale # n
      BY <1>1, <1>2 DEF RefundsInv
    <2>2. \A p \in K : payments'[p].sale = n
      BY <1>2 DEF IsDiscount, IsCharge
    <2> QED
      BY <1>2, <2>1, <2>2 DEF RowsOf
  <1>4. /\ quote.discount \in Nat /\ TotalAmount(quote) \in Nat
        /\ quote.discount + TotalAmount(quote) = Subtotal(quote)
        /\ quote.coupon = NoCoupon => quote.discount = 0
    BY NetWorth DEF Sells, WellQuoted
  <1>5. \A kind : Of(kind) = {p \in K : payments'[p].kind = kind}
    BY <1>3 DEF OfKinds
  <1>6. \A p \in K : /\ payments'[p].kind = "DISCOUNT" =>
                           payments'[p].amount = quote.discount /\ quote.coupon # NoCoupon
                     /\ payments'[p].kind = "CHARGE" =>
                           payments'[p].amount = TotalAmount(quote) /\ TotalAmount(quote) # 0
                     /\ payments'[p].kind \in {"DISCOUNT", "CHARGE"}
    BY <1>2 DEF IsDiscount, IsCharge
  <1>7. /\ All = Of("DISCOUNT") \cup Of("CHARGE") /\ Of("DISCOUNT") \cap Of("CHARGE") = {}
        /\ All \in SUBSET DOMAIN payments'
    BY DEF OfKinds, RowsOf, Originals
  <1> HIDE DEF K, Of, All
  <1>8. \A p \in DOMAIN payments' : PaidBy(payments', {p}) = payments'[p].amount
    BY <1>1, PaidParts
  <1>9. PaidBy(payments', {}) = 0
    BY <1>1, PaidParts
  <1>10. PaidBy(payments', Of("DISCOUNT")) = quote.discount
    <2>1. CASE quote.coupon = NoCoupon
      <3>1. Of("DISCOUNT") = {}
        BY <1>5, <1>6, <2>1
      <3> QED
        BY <1>4, <1>9, <2>1, <3>1
    <2>2. CASE quote.coupon # NoCoupon
      <3>1. PICK p \in K : payments'[p].kind = "DISCOUNT"
        BY <1>2, <2>2
      <3>a. \A q \in K : payments'[q].kind = "DISCOUNT" => q = p
        BY <1>2, <3>1
      <3>2. Of("DISCOUNT") = {p} /\ payments'[p].amount = quote.discount
        BY <1>5, <1>6, <3>1, <3>a
      <3>3. p \in DOMAIN payments'
        BY DEF K
      <3> QED
        BY <1>8, <3>2, <3>3
    <2> QED
      BY <2>1, <2>2
  <1>11. PaidBy(payments', Of("CHARGE")) = TotalAmount(quote)
    <2>1. CASE TotalAmount(quote) = 0
      <3>1. Of("CHARGE") = {}
        BY <1>5, <1>6, <2>1
      <3> QED
        BY <1>9, <2>1, <3>1
    <2>2. CASE TotalAmount(quote) # 0
      <3>1. PICK p \in K : payments'[p].kind = "CHARGE"
        BY <1>2, <2>2
      <3>a. \A q \in K : payments'[q].kind = "CHARGE" => q = p
        BY <1>2, <3>1
      <3>2. Of("CHARGE") = {p} /\ payments'[p].amount = TotalAmount(quote)
        BY <1>5, <1>6, <3>1, <3>a
      <3>3. p \in DOMAIN payments'
        BY DEF K
      <3> QED
        BY <1>8, <3>2, <3>3
    <2> QED
      BY <2>1, <2>2
  <1>12. PaidBy(payments', All) = PaidBy(payments', Of("DISCOUNT")) + PaidBy(payments', Of("CHARGE"))
    <2>1. Of("DISCOUNT") \in SUBSET All /\ All \ Of("DISCOUNT") = Of("CHARGE")
      BY <1>7
    <2>2. \A T \in SUBSET All : PaidBy(payments', All) = PaidBy(payments', T) + PaidBy(payments', All \ T)
      BY ZenonT(60), <1>1, <1>7, PaidParts
    <2> QED
      BY <2>1, <2>2
  <1>13. /\ Amounts(OriginalsOf(n, {"DISCOUNT"}))' = PaidBy(payments', Of("DISCOUNT"))
         /\ Amounts(OriginalsOf(n, {"CHARGE"}))' = PaidBy(payments', Of("CHARGE"))
         /\ Amounts(OriginalsOf(n, Originals))' = PaidBy(payments', All)
    BY DEF Amounts, PaidBy, OriginalsOf, Of, All
  <1> QED
    BY <1>4, <1>10, <1>11, <1>12, <1>13

LEMMA MoneyKept ==
    ASSUME Shapes, OrdersInv, RefundsInv, MoneyInv, [Next]_vars
    PROVE  MoneyInv'
  <1>1. ASSUME NEW r \in Reqs, CommitSale(r)
        PROVE  MoneyInv'
    <2>1. PICK n, quote, served, key, paid : Sells(r, n, quote, served, key, paid)
      BY <1>1, Selling
    <2>2. n \notin DOMAIN sales /\ DOMAIN sales' = DOMAIN sales \cup {n}
      BY <2>1, SellingRows
    <2>3. Worth(n)' = Amounts(OriginalsOf(n, Originals))'
      BY <2>1, NewWorth, NewMoney
    <2>a. /\ DOMAIN orders \subseteq DOMAIN orders' /\ DOMAIN payments \subseteq DOMAIN payments'
          /\ \A o \in DOMAIN orders : orders'[o] = orders[o]
          /\ \A o \in DOMAIN orders' \ DOMAIN orders : orders'[o].sale = n
          /\ \A p \in DOMAIN payments : payments'[p] = payments[p]
          /\ \A p \in DOMAIN payments' \ DOMAIN payments :
                IsDiscount(payments'[p], n, quote) \/ IsCharge(payments'[p], n, quote)
      BY <2>1, SoldRows
    <2>b. \A p \in DOMAIN payments' \ DOMAIN payments : payments'[p].sale = n
      BY <2>a DEF IsDiscount, IsCharge
    <2>4. ASSUME NEW m \in DOMAIN sales
          PROVE  Worth(m)' = Amounts(OriginalsOf(m, Originals))'
      <3>0. m # n
        BY <2>2
      <3>1. Worth(m)' = Worth(m)
        BY <2>a, <3>0, WorthStays
      <3>2. Amounts(OriginalsOf(m, Originals))' = Amounts(OriginalsOf(m, Originals))
        BY <2>a, <2>b, <3>0, PaidStays
      <3> QED
        BY <3>1, <3>2 DEF MoneyInv
    <2> QED
      BY <2>2, <2>3, <2>4 DEF MoneyInv
  <1>2. ASSUME NEW n \in DOMAIN sales, CancelSale(n)
        PROVE  MoneyInv'
    <2>1. PICK list, refunds : GivesBack(n, list, refunds)
      BY <1>2, TakingBack
    <2>2. /\ DOMAIN sales' = DOMAIN sales /\ DOMAIN orders' = DOMAIN orders
          /\ \A o \in DOMAIN orders : orders'[o].sale = orders[o].sale /\ orders'[o].lines = orders[o].lines
      BY <2>1, TakingBackRows
    <2>3. ASSUME NEW m \in DOMAIN sales
          PROVE  Worth(m)' = Amounts(OriginalsOf(m, Originals))'
      <3>1. Worth(m)' = Worth(m)
        BY <2>2, WorthStays
      <3>2. Amounts(OriginalsOf(m, Originals))' = Amounts(OriginalsOf(m, Originals))
        <4>1. /\ DOMAIN payments \subseteq DOMAIN payments'
              /\ \A p \in DOMAIN payments : payments'[p] = payments[p]
              /\ \A p \in DOMAIN payments' \ DOMAIN payments : payments'[p].kind = "REFUND"
          BY <2>1, RefundedRows
        <4>2. "REFUND" \notin Originals
          BY DEF Originals
        <4> QED
          BY <4>1, <4>2, PaidStays
      <3> QED
        BY <3>1, <3>2 DEF MoneyInv
    <2> QED
      BY <2>2, <2>3 DEF MoneyInv
  <1>3. ASSUME OrdersStay, UNCHANGED <<sales, payments>>
        PROVE  MoneyInv'
    <2>1. ASSUME NEW m \in DOMAIN sales
          PROVE  Worth(m)' = Amounts(OriginalsOf(m, Originals))'
      <3>1. Worth(m)' = Worth(m)
        BY <1>3, WorthStays DEF OrdersStay
      <3>2. Amounts(OriginalsOf(m, Originals))' = Amounts(OriginalsOf(m, Originals))
        BY <1>3, PaidStays
      <3> QED
        BY <3>1, <3>2 DEF MoneyInv
    <2> QED
      BY <1>3, <2>1 DEF MoneyInv
  <1>4. UNCHANGED orders => OrdersStay
    BY DEF OrdersStay, Shapes
  <1>5. orders \in Seq(OrderRow)
    BY DEF Shapes
  <1> QED
    BY <1>1, <1>2, <1>3, <1>4, <1>5, StepCases, KitchenRows, Zenon DEF CancelCoupon, books

-----------------------------------------------------------------------------
(* A coupon buys one discount.                                             *)

Bought(c) == {p \in DOMAIN payments : payments[p].coupon = c}
\* Coupon c has bought row p, and nothing else.
BuysWith(c, p) ==
    /\ p \in DOMAIN payments /\ Bought(c) = {p}
    /\ payments[p].kind = "DISCOUNT" /\ payments[p].amount > 0
    /\ redemptions[c].sale = payments[p].sale
    /\ redemptions[c].status = IF Reversed(p) THEN "CANCELLED" ELSE "LIVE"
OneDiscount(c) ==
    /\ coupons[c] # "USED" => Bought(c) = {} /\ redemptions[c].status = "NONE"
    /\ coupons[c] = "USED" => \E p \in DOMAIN payments : BuysWith(c, p)

LEMMA DiscountPerCoupon == CouponBuysOneDiscount <=> \A c \in Coupons : OneDiscount(c)
  <1>1. ASSUME NEW c \in Coupons
        PROVE  (\E p \in Bought(c) : /\ Bought(c) = {p}
                   /\ payments[p].kind = "DISCOUNT" /\ payments[p].amount > 0
                   /\ redemptions[c].sale = payments[p].sale
                   /\ redemptions[c].status = IF Reversed(p) THEN "CANCELLED" ELSE "LIVE")
               <=> \E p \in DOMAIN payments : BuysWith(c, p)
    BY DEF BuysWith, Bought
  <1> QED
    BY <1>1, Zenon DEF CouponBuysOneDiscount, OneDiscount, Bought

\* What is reversed belongs to a sale taken back.
LEMMA ReversedWhenTakenBack ==
    ASSUME Shapes, RefundsInv
    PROVE  /\ \A q \in DOMAIN payments : \/ payments[q].reversedPaymentId = 0
                                         \/ payments[q].reversedPaymentId \in DOMAIN payments
           /\ 0 \notin DOMAIN payments
           /\ \A p \in DOMAIN payments : Reversed(p) => sales[payments[p].sale].status = "CANCELLED"
           /\ \A p \in DOMAIN payments : payments[p].kind \in {"CHARGE", "DISCOUNT", "REFUND"}
  <1>1. ASSUME NEW q \in DOMAIN payments
        PROVE  /\ payments[q].kind \in Originals \/ payments[q].kind = "REFUND"
               /\ payments[q].kind \in {"CHARGE", "DISCOUNT", "REFUND"}
    <2>1. payments[q] \in PaymentRecord
      BY ElementOfSeq DEF Shapes
    <2> QED
      BY <2>1 DEF PaymentRecord, PaymentKinds, Originals
  <1>2. 0 \notin DOMAIN payments
    BY LenProperties DEF Shapes
  <1>3. ASSUME NEW p \in DOMAIN payments, Reversed(p)
        PROVE  sales[payments[p].sale].status = "CANCELLED"
    <2>1. PICK q \in DOMAIN payments : payments[q].reversedPaymentId = p
      BY <1>3 DEF Reversed
    <2>2. payments[q].kind = "REFUND"
      BY <1>1, <1>2, <2>1 DEF RefundsInv
    <2> QED
      BY <2>1, <2>2 DEF RefundsInv, Refunds
  <1> QED
    BY <1>1, <1>2, <1>3 DEF RefundsInv

LEMMA CouponsKept ==
    ASSUME Shapes, RefundsInv, CouponBuysOneDiscount, [Next]_vars
    PROVE  CouponBuysOneDiscount'
  <1>0. \A c \in Coupons : OneDiscount(c)
    BY DiscountPerCoupon
  <1> DEFINE Kept == \A c \in Coupons : OneDiscount(c)'
  <1>1. ASSUME NEW r \in Reqs, CommitSale(r)
        PROVE  Kept
    <2>1. PICK n, quote, served, key, paid : Sells(r, n, quote, served, key, paid)
      BY <1>1, Selling
    <2> DEFINE K == DOMAIN payments' \ DOMAIN payments
    <2>2. /\ DOMAIN payments \subseteq DOMAIN payments'
          /\ \A p \in DOMAIN payments : payments'[p] = payments[p]
          /\ \A p \in K : IsDiscount(payments'[p], n, quote) \/ IsCharge(payments'[p], n, quote)
          /\ \A p, q \in K : payments'[p].kind = payments'[q].kind => p = q
          /\ quote.coupon # NoCoupon => \E p \in K : payments'[p].kind = "DISCOUNT"
      BY <2>1, SoldRows
    <2>3. /\ quote.coupon # NoCoupon => quote.discount > 0 /\ coupons[quote.coupon] = "AVAILABLE"
          /\ coupons' = [c \in Coupons |-> IF c = quote.coupon THEN "USED" ELSE coupons[c]]
          /\ redemptions' = [c \in Coupons |->
                IF c = quote.coupon THEN [sale |-> n, status |-> "LIVE"] ELSE redemptions[c]]
      BY <2>1 DEF Sells
    <2>4. \A p \in K :
             /\ payments'[p].reversedPaymentId = 0 /\ payments'[p].sale = n
             /\ payments'[p].kind = "DISCOUNT" =>
                   payments'[p].coupon = quote.coupon /\ payments'[p].amount = quote.discount
             /\ payments'[p].kind # "DISCOUNT" => payments'[p].coupon = NoCoupon
      BY <2>2 DEF IsDiscount, IsCharge
    <2>5. \A p \in DOMAIN payments' : Reversed(p)' <=> (p \in DOMAIN payments /\ Reversed(p))
      <3> SUFFICES ASSUME NEW p \in DOMAIN payments'
                   PROVE  Reversed(p)' <=> (p \in DOMAIN payments /\ Reversed(p))
        OBVIOUS
      <3>1. p # 0
        <4>1. payments' \in Seq(PaymentRecord)
          BY <2>1, SellingRows
        <4>2. DOMAIN payments' = 1..Len(payments')
          BY ONLY <4>1, LenProperties
        <4> QED
          BY <4>2
      <3>2. \A q \in DOMAIN payments' :
              payments'[q].reversedPaymentId = p =>
                  /\ q \in DOMAIN payments /\ payments[q].reversedPaymentId = p
                  /\ p \in DOMAIN payments
        BY <2>2, <2>4, <3>1, ReversedWhenTakenBack
      <3> QED
        BY <2>2, <3>2 DEF Reversed
    <2>6. ASSUME NEW c \in Coupons, c # quote.coupon
          PROVE  OneDiscount(c)'
      <3>1. Bought(c)' = Bought(c)
        <4>1. \A p \in K : payments'[p].coupon # c
          BY <2>4, <2>6 DEF CounterAssumption
        <4> QED
          BY <2>2, <4>1 DEF Bought
      <3>2. coupons'[c] = coupons[c] /\ redemptions'[c] = redemptions[c]
        BY <2>3, <2>6
      <3>3. OneDiscount(c)
        BY <1>0
      <3>4. \A p \in DOMAIN payments : BuysWith(c, p) => BuysWith(c, p)'
        BY <2>2, <2>5, <3>1, <3>2 DEF BuysWith
      <3> QED
        BY <2>2, <3>1, <3>2, <3>3, <3>4 DEF OneDiscount
    <2>7. ASSUME quote.coupon \in Coupons
          PROVE  OneDiscount(quote.coupon)'
      <3> DEFINE c == quote.coupon
      <3>1. c # NoCoupon /\ coupons[c] = "AVAILABLE" /\ quote.discount > 0
        BY <2>3, <2>7 DEF CounterAssumption
      <3>2. Bought(c) = {}
        BY <1>0, <2>7, <3>1 DEF OneDiscount
      <3>3. PICK p \in K : payments'[p].kind = "DISCOUNT"
        BY <2>2, <3>1
      <3>4. Bought(c)' = {p}
        <4>1. \A q \in DOMAIN payments' : payments'[q].coupon = c => q \in K
          BY <2>2, <3>2 DEF Bought
        <4>2. \A q \in K : payments'[q].coupon = c => q = p
          BY ZenonT(60), <2>2, <2>4, <3>1, <3>3
        <4>3. payments'[p].coupon = c
          BY <2>4, <3>3
        <4> QED
          BY <4>1, <4>2, <4>3 DEF Bought
      <3>5. coupons'[c] = "USED" /\ redemptions'[c] = [sale |-> n, status |-> "LIVE"]
        BY <2>3, <2>7
      <3>6. ~Reversed(p)'
        BY <2>5, <3>3
      <3>7. BuysWith(c, p)'
        BY <2>4, <3>1, <3>3, <3>4, <3>5, <3>6 DEF BuysWith
      <3> QED
        BY <3>3, <3>5, <3>7 DEF OneDiscount
    <2> QED
      BY <2>6, <2>7
  <1>2. ASSUME NEW n \in DOMAIN sales, CancelSale(n)
        PROVE  Kept
    <2>1. PICK list, refunds : GivesBack(n, list, refunds)
      BY <1>2, TakingBack
    <2> DEFINE K == DOMAIN payments' \ DOMAIN payments
    <2>2. /\ DOMAIN payments \subseteq DOMAIN payments'
          /\ \A p \in DOMAIN payments : payments'[p] = payments[p]
          /\ \A q \in K : LET p == payments'[q].reversedPaymentId IN
                /\ p \in Refundable(n) /\ payments'[q].kind = "REFUND"
                /\ Refunds(payments'[q], payments[p])
          /\ \A p \in Refundable(n) : \E q \in K : payments'[q].reversedPaymentId = p
      BY <2>1, RefundedRows
    <2>3. /\ sales[n].status = "COMPLETED" /\ UNCHANGED coupons
          /\ redemptions' = [c \in Coupons |->
                IF redemptions[c] = [sale |-> n, status |-> "LIVE"]
                THEN [sale |-> n, status |-> "CANCELLED"] ELSE redemptions[c]]
      BY <2>1 DEF GivesBack
    <2>4. \A q \in K : payments'[q].coupon = NoCoupon
      BY <2>2 DEF Refunds
    <2>5. \A p \in DOMAIN payments : Reversed(p)' <=> Reversed(p) \/ p \in Refundable(n)
      BY <2>2 DEF Reversed
    <2>6. ASSUME NEW c \in Coupons
          PROVE  OneDiscount(c)'
      <3>1. Bought(c)' = Bought(c)
        <4>1. \A p \in K : payments'[p].coupon # c
          BY <2>4 DEF CounterAssumption
        <4> QED
          BY <2>2, <4>1 DEF Bought
      <3>2. coupons'[c] = coupons[c] /\ OneDiscount(c)
        BY <1>0, <2>3
      <3>3. CASE coupons[c] # "USED"
        <4>1. Bought(c) = {} /\ redemptions[c].status = "NONE"
          BY <3>2, <3>3 DEF OneDiscount
        <4>2. redemptions'[c].status = "NONE"
          BY <2>3, <4>1
        <4> QED
          BY <3>1, <3>2, <3>3, <4>1, <4>2 DEF OneDiscount
      <3>4. CASE coupons[c] = "USED"
        <4>1. PICK p \in DOMAIN payments : BuysWith(c, p)
          BY <3>2, <3>4 DEF OneDiscount
        <4>2. redemptions[c] \in [sale : Nat, status : {"NONE", "LIVE", "CANCELLED"}]
          BY DEF Shapes
        <4>3. CASE payments[p].sale = n
          <5>1. ~Reversed(p) /\ p \in Refundable(n)
            BY <2>3, <4>1, <4>3, ReversedWhenTakenBack DEF BuysWith, Refundable, RowsOf, Originals
          <5>2. redemptions[c] = [sale |-> n, status |-> "LIVE"]
            BY <4>1, <4>2, <4>3, <5>1 DEF BuysWith
          <5>3. redemptions'[c] = [sale |-> n, status |-> "CANCELLED"] /\ Reversed(p)'
            BY <2>3, <2>5, <5>1, <5>2
          <5>4. BuysWith(c, p)'
            BY <2>2, <3>1, <4>1, <4>3, <5>3 DEF BuysWith
          <5> QED
            BY <2>2, <3>2, <3>4, <5>4 DEF OneDiscount
        <4>4. CASE payments[p].sale # n
          <5>1. p \notin Refundable(n)
            BY <4>4 DEF Refundable, RowsOf
          <5>2. redemptions'[c] = redemptions[c]
            BY <2>3, <4>1, <4>4 DEF BuysWith
          <5>3. BuysWith(c, p)'
            BY <2>2, <2>5, <3>1, <4>1, <5>1, <5>2 DEF BuysWith
          <5> QED
            BY <2>2, <3>2, <3>4, <5>3 DEF OneDiscount
        <4> QED
          BY <4>3, <4>4
      <3> QED
        BY <3>3, <3>4
    <2> QED
      BY <2>6
  <1>3. ASSUME UNCHANGED <<payments, coupons, redemptions>>
        PROVE  Kept
    <2>1. ASSUME NEW d \in Coupons
          PROVE  OneDiscount(d)'
      <3>1. /\ Bought(d)' = Bought(d) /\ redemptions'[d] = redemptions[d] /\ coupons'[d] = coupons[d]
            /\ DOMAIN payments' = DOMAIN payments
            /\ \A p \in DOMAIN payments : BuysWith(d, p) => BuysWith(d, p)'
        BY <1>3 DEF Bought, BuysWith, Reversed
      <3> QED
        BY <1>0, <3>1 DEF OneDiscount
    <2> QED
      BY <2>1
  <1>4. ASSUME NEW c \in Coupons, CancelCoupon(c)
        PROVE  Kept
    <2>1. /\ coupons[c] = "AVAILABLE" /\ coupons' = [coupons EXCEPT ![c] = "CANCELLED"]
          /\ UNCHANGED <<payments, redemptions>>
      BY <1>4 DEF CancelCoupon
    <2>2. ASSUME NEW d \in Coupons
          PROVE  OneDiscount(d)'
      <3>1. coupons'[d] = "USED" <=> coupons[d] = "USED"
        BY <2>1 DEF Shapes
      <3>2. Bought(d)' = Bought(d) /\ redemptions'[d] = redemptions[d]
            /\ \A p \in DOMAIN payments : BuysWith(d, p) => BuysWith(d, p)'
        BY <2>1 DEF Bought, BuysWith, Reversed
      <3> QED
        BY <1>0, <2>1, <3>1, <3>2 DEF OneDiscount
    <2> QED
      BY <2>2
  <1>5. Kept
    <2>1. orders \in Seq(OrderRow)
      BY DEF Shapes
    <2> HIDE DEF Kept
    <2> QED
      BY <1>1, <1>2, <1>3, <1>4, <2>1, StepCases, KitchenRows, Zenon DEF books
  <1>6. (\A c \in Coupons : OneDiscount(c))' => CouponBuysOneDiscount'
    BY DiscountPerCoupon, PTL
  <1> QED
    BY <1>5, <1>6

-----------------------------------------------------------------------------
(* The allocations add up.                                                 *)

LEMMA SumOfOne == ASSUME NEW f, NEW p, f[p] \in Int PROVE SumFunctionOnSet(f, {p}) = f[p]
  <1>1. SumFunctionOnSet(f, {} \cup {p}) = f[p] + SumFunctionOnSet(f, {})
    <2>1. IsFiniteSet({}) /\ p \notin {} /\ \A y \in {} \cup {p} : f[y] \in Int
      BY FS_EmptySet
    <2> QED
      BY ONLY <2>1, SumWith
  <1>2. {} \cup {p} = {p}
    OBVIOUS
  <1> QED
    BY <1>1, <1>2, SumOnNothing

\* What is allocated is all of it, though a line that is given nothing is left out.
LEMMA SumOfPositive ==
    ASSUME NEW amounts \in Seq(Nat)
    PROVE  SumOf([l \in Positive(amounts) |-> amounts[l]]) = SumOf(amounts)
  <1> DEFINE D == DOMAIN amounts
             P == Positive(amounts)
             g == [l \in P |-> amounts[l]]
  <1>1. /\ IsFiniteSet(D) /\ \A l \in D : amounts[l] \in Nat
        /\ SumOf(amounts) = SumFunctionOnSet(amounts, D)
    BY SumOfLines
  <1>2. P \in SUBSET D /\ \A l \in D \ P : amounts[l] = 0
    BY <1>1 DEF Positive
  <1>3. IsFiniteSet(P)
    BY <1>1, <1>2, FS_Subset
  <1>4. SumOf(g) = SumFunctionOnSet(g, P)
    BY DEF SumOf, SumFunction
  <1>5. \A l \in P : amounts[l] \in Int /\ g[l] = amounts[l]
    BY <1>1, <1>2
  <1>6. \A l \in D : amounts[l] \in Int
    BY <1>1
  <1> HIDE DEF D, P, g
  <1>7. SumFunctionOnSet(g, P) = SumFunctionOnSet(amounts, P)
    BY <1>3, <1>5, SumAgrees
  <1>8. SumFunctionOnSet(amounts, D) = SumFunctionOnSet(amounts, P)
    BY <1>1, <1>2, <1>6, SumOfPart
  <1> QED
    BY <1>1, <1>4, <1>7, <1>8 DEF g, P

\* The originals of sale n that pay for line l, and what they pay.
PayingFor(rows, n, l) == {p \in OfKinds(rows, n, Originals) : l \in DOMAIN rows[p].allocations}
LinePaid(rows, n, l) ==
    SumFunction([p \in PayingFor(rows, n, l) |-> rows[p].allocations[l]])
RowsAddUp == \A p \in DOMAIN payments : SumOf(payments[p].allocations) = payments[p].amount
LinesAddUp ==
    \A o \in DOMAIN orders : \A l \in DOMAIN orders[o].lines :
        LinePaid(payments, orders[o].sale, l) = LineTotal(orders[o].lines[l])

LEMMA AllocationParts == AllocationsAddUp <=> RowsAddUp /\ LinesAddUp
  <1>1. ASSUME NEW o \in DOMAIN orders, NEW l \in DOMAIN orders[o].lines
        PROVE  LET shares == {p \in RowsOf(payments, orders[o].sale) :
                                /\ payments[p].kind \in Originals
                                /\ l \in DOMAIN payments[p].allocations}
               IN  LinePaid(payments, orders[o].sale, l)
                   = SumFunction([p \in shares |-> payments[p].allocations[l]])
    <2> DEFINE shares == {p \in RowsOf(payments, orders[o].sale) :
                             /\ payments[p].kind \in Originals
                             /\ l \in DOMAIN payments[p].allocations}
    <2>1. PayingFor(payments, orders[o].sale, l) = shares
      BY DEF PayingFor, OfKinds
    <2> HIDE DEF shares
    <2>2. LinePaid(payments, orders[o].sale, l)
            = SumFunction([p \in shares |-> payments[p].allocations[l]])
      BY <2>1 DEF LinePaid
    <2> QED
      BY <2>2 DEF shares
  <1> QED
    BY <1>1, Zenon DEF AllocationsAddUp, RowsAddUp, LinesAddUp

\* A sale that nothing is paid for any more is paid for as it was.
LEMMA LinePaidStays ==
    ASSUME NEW m, NEW l, DOMAIN payments \subseteq DOMAIN payments',
           \A p \in DOMAIN payments : payments'[p] = payments[p],
           \A p \in DOMAIN payments' \ DOMAIN payments :
               payments'[p].sale # m \/ payments'[p].kind \notin Originals
    PROVE  LinePaid(payments', m, l) = LinePaid(payments, m, l)
  <1> DEFINE S == PayingFor(payments, m, l)
  <1>1. PayingFor(payments', m, l) = S
    BY DEF PayingFor, OfKinds, RowsOf
  <1>2. \A p \in S : payments'[p].allocations[l] = payments[p].allocations[l]
    BY DEF PayingFor, OfKinds, RowsOf
  <1> HIDE DEF S
  <1>3. [p \in S |-> payments'[p].allocations[l]] = [p \in S |-> payments[p].allocations[l]]
    BY <1>2
  <1> QED
    BY <1>1, <1>3 DEF LinePaid, S

\* A line of a sale that is made is paid for by its discount and by the rest.
LEMMA NewLinePaid ==
    ASSUME Shapes, RefundsInv, NEW r, NEW n, NEW quote, NEW served, NEW key, NEW paid,
           Sells(r, n, quote, served, key, paid), NEW l \in DOMAIN quote.lines
    PROVE  LinePaid(payments', n, l) = LineTotal(quote.lines[l])
  <1> DEFINE K == DOMAIN payments' \ DOMAIN payments
             S == PayingFor(payments', n, l)
             f == [p \in S |-> payments'[p].allocations[l]]
             Given == {p \in S : payments'[p].kind = "DISCOUNT"}
             Paid == {p \in S : payments'[p].kind = "CHARGE"}
             off == quote.discounts[l]
             net == Net(quote)[l]
  <1>1. n \notin DOMAIN sales /\ payments' \in Seq(PaymentRecord)
    BY SellingRows
  <1>2. /\ DOMAIN payments \subseteq DOMAIN payments'
        /\ \A p \in DOMAIN payments : payments'[p] = payments[p]
        /\ \A p \in K : IsDiscount(payments'[p], n, quote) \/ IsCharge(payments'[p], n, quote)
        /\ \A p, q \in K : payments'[p].kind = payments'[q].kind => p = q
        /\ quote.coupon # NoCoupon => \E p \in K : payments'[p].kind = "DISCOUNT"
        /\ TotalAmount(quote) # 0 => \E p \in K : payments'[p].kind = "CHARGE"
    BY SoldRows
  <1>3. RowsOf(payments', n) = K
    <2>1. \A p \in DOMAIN payments : payments'[p].sale # n
      BY <1>1, <1>2 DEF RefundsInv
    <2>2. \A p \in K : payments'[p].sale = n
      BY <1>2 DEF IsDiscount, IsCharge
    <2> QED
      BY <1>2, <2>1, <2>2 DEF RowsOf
  <1>4. /\ off \in Nat /\ net \in Nat /\ off + net = LineTotal(quote.lines[l])
        /\ l \in DOMAIN quote.discounts /\ l \in DOMAIN Net(quote)
        /\ off # 0 => quote.coupon # NoCoupon
        /\ net # 0 => TotalAmount(quote) # 0
    <2>1. /\ Net(quote) \in Seq(Nat) /\ DOMAIN Net(quote) = DOMAIN quote.lines
          /\ quote.discounts \in Seq(Nat)
          /\ SumOf(Net(quote)) = TotalAmount(quote)
          /\ off + net = LineTotal(quote.lines[l])
      BY NetWorth DEF Sells
    <2>2. /\ DOMAIN quote.discounts = DOMAIN quote.lines
          /\ SumOf(quote.discounts) = quote.discount
          /\ quote.coupon = NoCoupon => quote.discount = 0
      BY DEF Sells, WellQuoted
    <2>3. off \in Nat /\ off <= SumOf(quote.discounts)
      BY <2>1, <2>2, SumOfLines
    <2>4. net \in Nat /\ net <= SumOf(Net(quote))
      BY <2>1, SumOfLines
    <2> QED
      BY SMTT(60), <2>1, <2>2, <2>3, <2>4
  <1>5. ASSUME NEW p \in K
        PROVE  /\ payments'[p].kind \in {"DISCOUNT", "CHARGE"} /\ payments'[p].kind \in Originals
               /\ payments'[p].kind = "DISCOUNT" =>
                     /\ l \in DOMAIN payments'[p].allocations <=> off > 0
                     /\ off > 0 => payments'[p].allocations[l] = off
               /\ payments'[p].kind = "CHARGE" =>
                     /\ l \in DOMAIN payments'[p].allocations <=> net > 0
                     /\ net > 0 => payments'[p].allocations[l] = net
    <2> DEFINE row == payments'[p]
    <2>1. IsDiscount(row, n, quote) \/ IsCharge(row, n, quote)
      BY <1>2
    <2> HIDE DEF row
    <2>2. CASE IsDiscount(row, n, quote)
      <3>1. /\ row.kind = "DISCOUNT"
            /\ row.allocations = [x \in Positive(quote.discounts) |-> quote.discounts[x]]
        BY <2>2 DEF IsDiscount
      <3>2. l \in Positive(quote.discounts) <=> off > 0
        BY <1>4 DEF Positive
      <3> QED
        BY <3>1, <3>2 DEF row, Originals
    <2>3. CASE IsCharge(row, n, quote)
      <3>1. /\ row.kind = "CHARGE"
            /\ row.allocations = [x \in Positive(Net(quote)) |-> Net(quote)[x]]
        BY <2>3 DEF IsCharge
      <3>2. l \in Positive(Net(quote)) <=> net > 0
        BY <1>4 DEF Positive
      <3> QED
        BY <3>1, <3>2 DEF row, Originals
    <2> QED
      BY <2>1, <2>2, <2>3
  <1>6. /\ Given = {p \in K : payments'[p].kind = "DISCOUNT" /\ off > 0}
        /\ Paid = {p \in K : payments'[p].kind = "CHARGE" /\ net > 0}
        /\ S = Given \cup Paid /\ Given \cap Paid = {}
    <2>1. S = {p \in K : l \in DOMAIN payments'[p].allocations}
      BY <1>3, <1>5 DEF PayingFor, OfKinds
    <2> HIDE DEF S, K, off, net
    <2> QED
      BY <1>5, <2>1
  <1>7. \A p \in S : f[p] = payments'[p].allocations[l]
    OBVIOUS
  <1>8. LinePaid(payments', n, l) = SumFunctionOnSet(f, S)
    BY DEF LinePaid, SumFunction
  <1>9. IsFiniteSet(S)
    <2>1. S \in SUBSET DOMAIN payments'
      BY DEF PayingFor, OfKinds, RowsOf
    <2> HIDE DEF S
    <2> QED
      BY <1>1, <2>1, PaidParts
  <1> HIDE DEF K, S, f, Given, Paid, off, net
  <1>10. \A p \in S : f[p] \in Int
    <2>1. \A p \in Given : f[p] = off
      BY <1>5, <1>6, <1>7
    <2>2. \A p \in Paid : f[p] = net
      BY <1>5, <1>6, <1>7
    <2> QED
      BY <1>4, <1>6, <2>1, <2>2
  <1>11. SumFunctionOnSet(f, Given) = off
    <2>1. CASE off = 0
      <3>1. Given = {}
        BY <1>6, <2>1
      <3> QED
        BY <2>1, <3>1, SumOnNothing
    <2>2. CASE off > 0
      <3>1. PICK p \in K : payments'[p].kind = "DISCOUNT"
        BY <1>2, <1>4, <2>2 DEF K
      <3>2. \A q \in K : payments'[q].kind = "DISCOUNT" => q = p
        BY <1>2, <3>1 DEF K
      <3>3. Given = {p} /\ p \in S
        BY <1>6, <2>2, <3>1, <3>2
      <3>4. f[p] = off
        BY <1>5, <1>7, <2>2, <3>1, <3>3
      <3> QED
        BY <1>10, <3>3, <3>4, SumOfOne
    <2> QED
      BY <1>4, <2>1, <2>2
  <1>12. SumFunctionOnSet(f, Paid) = net
    <2>1. CASE net = 0
      <3>1. Paid = {}
        BY <1>6, <2>1
      <3> QED
        BY <2>1, <3>1, SumOnNothing
    <2>2. CASE net > 0
      <3>1. PICK p \in K : payments'[p].kind = "CHARGE"
        BY <1>2, <1>4, <2>2 DEF K
      <3>2. \A q \in K : payments'[q].kind = "CHARGE" => q = p
        BY <1>2, <3>1 DEF K
      <3>3. Paid = {p} /\ p \in S
        BY <1>6, <2>2, <3>1, <3>2
      <3>4. f[p] = net
        BY <1>5, <1>7, <2>2, <3>1, <3>3
      <3> QED
        BY <1>10, <3>3, <3>4, SumOfOne
    <2> QED
      BY <1>4, <2>1, <2>2
  <1>13. SumFunctionOnSet(f, Given \cup Paid) = SumFunctionOnSet(f, Given) + SumFunctionOnSet(f, Paid)
    <2>1. IsFiniteSet(Given) /\ IsFiniteSet(Paid) /\ \A p \in Given \cup Paid : f[p] \in Int
      BY <1>6, <1>9, <1>10, FS_Subset
    <2> QED
      BY <1>6, <2>1, SumOfParts
  <1> QED
    BY <1>4, <1>6, <1>8, <1>11, <1>12, <1>13

LEMMA AllocationsKept ==
    ASSUME Shapes, OrdersInv, RefundsInv, AllocationsAddUp, [Next]_vars
    PROVE  RowsAddUp' /\ LinesAddUp'
  <1>0. RowsAddUp /\ LinesAddUp
    BY AllocationParts
  <1>1. ASSUME NEW r \in Reqs, CommitSale(r)
        PROVE  RowsAddUp' /\ LinesAddUp'
    <2>1. PICK n, quote, served, key, paid : Sells(r, n, quote, served, key, paid)
      BY <1>1, Selling
    <2>2. n \notin DOMAIN sales
      BY <2>1, SellingRows
    <2>3. /\ DOMAIN orders \subseteq DOMAIN orders' /\ DOMAIN payments \subseteq DOMAIN payments'
          /\ \A o \in DOMAIN orders : orders'[o] = orders[o]
          /\ \A o \in DOMAIN orders' \ DOMAIN orders :
                /\ orders'[o].sale = n
                /\ orders'[o].live = {l \in DOMAIN quote.lines : key[l] = o - Len(orders)}
                /\ DOMAIN orders'[o].lines = orders'[o].live
                /\ \A l \in orders'[o].live : orders'[o].lines[l] = quote.lines[l]
          /\ \A p \in DOMAIN payments : payments'[p] = payments[p]
          /\ \A p \in DOMAIN payments' \ DOMAIN payments :
                IsDiscount(payments'[p], n, quote) \/ IsCharge(payments'[p], n, quote)
      BY <2>1, SoldRows
    <2>4. \A p \in DOMAIN payments' \ DOMAIN payments : payments'[p].sale = n
      BY <2>3 DEF IsDiscount, IsCharge
    <2>5. ASSUME NEW p \in DOMAIN payments' \ DOMAIN payments
          PROVE  SumOf(payments'[p].allocations) = payments'[p].amount
      <3> DEFINE row == payments'[p]
      <3>1. IsDiscount(row, n, quote) \/ IsCharge(row, n, quote)
        BY <2>3
      <3>2. /\ quote.discounts \in Seq(Nat) /\ Net(quote) \in Seq(Nat)
            /\ SumOf(quote.discounts) = quote.discount
            /\ SumOf(Net(quote)) = TotalAmount(quote)
        BY <2>1, NetWorth DEF Sells, WellQuoted
      <3>3. /\ SumOf([x \in Positive(quote.discounts) |-> quote.discounts[x]]) = quote.discount
            /\ SumOf([x \in Positive(Net(quote)) |-> Net(quote)[x]]) = TotalAmount(quote)
        BY <3>2, SumOfPositive
      <3> HIDE DEF row
      <3>4. SumOf(row.allocations) = row.amount
        BY <3>1, <3>3 DEF IsDiscount, IsCharge
      <3> QED
        BY <3>4 DEF row
    <2>6. RowsAddUp'
      BY <1>0, <2>3, <2>5 DEF RowsAddUp
    <2>7. ASSUME NEW o \in DOMAIN orders', NEW l \in DOMAIN orders'[o].lines
          PROVE  LinePaid(payments', orders'[o].sale, l) = LineTotal(orders'[o].lines[l])
      <3>1. CASE o \in DOMAIN orders
        <4>1. orders'[o] = orders[o] /\ orders[o].sale # n
          BY <2>2, <2>3, <3>1 DEF OrdersInv
        <4>2. LinePaid(payments', orders[o].sale, l) = LinePaid(payments, orders[o].sale, l)
          <5> DEFINE m == orders[o].sale
          <5>1. \A p \in DOMAIN payments' \ DOMAIN payments :
                  payments'[p].sale # m \/ payments'[p].kind \notin Originals
            BY <2>4, <4>1
          <5> HIDE DEF m
          <5>2. LinePaid(payments', m, l) = LinePaid(payments, m, l)
            BY <2>3, <5>1, LinePaidStays
          <5> QED
            BY <5>2 DEF m
        <4> QED
          BY <1>0, <3>1, <4>1, <4>2 DEF LinesAddUp
      <3>2. CASE o \notin DOMAIN orders
        <4>1. /\ orders'[o].sale = n /\ l \in DOMAIN quote.lines
              /\ orders'[o].lines[l] = quote.lines[l]
          BY ZenonT(60), <2>3, <3>2
        <4> QED
          BY <2>1, <4>1, NewLinePaid
      <3> QED
        BY <3>1, <3>2
    <2>8. LinesAddUp'
      BY <2>7 DEF LinesAddUp
    <2> QED
      BY <2>6, <2>8
  <1>2. ASSUME NEW n \in DOMAIN sales, CancelSale(n)
        PROVE  RowsAddUp' /\ LinesAddUp'
    <2>1. PICK list, refunds : GivesBack(n, list, refunds)
      BY <1>2, TakingBack
    <2>2. /\ DOMAIN orders' = DOMAIN orders
          /\ \A o \in DOMAIN orders : orders'[o].sale = orders[o].sale /\ orders'[o].lines = orders[o].lines
      BY <2>1, TakingBackRows
    <2>3. /\ DOMAIN payments \subseteq DOMAIN payments'
          /\ \A p \in DOMAIN payments : payments'[p] = payments[p]
          /\ \A q \in DOMAIN payments' \ DOMAIN payments :
                LET p == payments'[q].reversedPaymentId IN
                /\ p \in Refundable(n) /\ payments'[q].kind = "REFUND"
                /\ Refunds(payments'[q], payments[p])
      BY <2>1, RefundedRows
    <2>4. ASSUME NEW q \in DOMAIN payments' \ DOMAIN payments
          PROVE  SumOf(payments'[q].allocations) = payments'[q].amount
      <3> DEFINE p == payments'[q].reversedPaymentId
      <3>1. p \in DOMAIN payments
        BY <2>3 DEF Refundable, RowsOf
      <3>2. payments'[q].allocations = payments[p].allocations /\ payments'[q].amount = payments[p].amount
        BY <2>3 DEF Refunds
      <3> QED
        BY <1>0, <3>1, <3>2 DEF RowsAddUp
    <2>5. RowsAddUp'
      BY <1>0, <2>3, <2>4 DEF RowsAddUp
    <2>6. "REFUND" \notin Originals
      BY DEF Originals
    <2>7. \A m, l : LinePaid(payments', m, l) = LinePaid(payments, m, l)
      BY <2>3, <2>6, LinePaidStays
    <2>8. LinesAddUp'
      <3>1. ASSUME NEW o \in DOMAIN orders', NEW l \in DOMAIN orders'[o].lines
            PROVE  LinePaid(payments', orders'[o].sale, l) = LineTotal(orders'[o].lines[l])
        <4>1. /\ o \in DOMAIN orders /\ l \in DOMAIN orders[o].lines
              /\ orders'[o].sale = orders[o].sale /\ orders'[o].lines = orders[o].lines
          BY <2>2
        <4>2. LinePaid(payments, orders[o].sale, l) = LineTotal(orders[o].lines[l])
          BY <1>0, <4>1 DEF LinesAddUp
        <4> QED
          BY <2>7, <4>1, <4>2
      <3> QED
        BY <3>1 DEF LinesAddUp
    <2> QED
      BY <2>5, <2>8
  <1>3. ASSUME OrdersStay, UNCHANGED payments
        PROVE  RowsAddUp' /\ LinesAddUp'
    BY <1>0, <1>3 DEF RowsAddUp, LinesAddUp, OrdersStay
  <1>4. UNCHANGED orders => OrdersStay
    BY DEF OrdersStay, Shapes
  <1>5. orders \in Seq(OrderRow)
    BY DEF Shapes
  <1> QED
    BY <1>1, <1>2, <1>3, <1>4, <1>5, StepCases, KitchenRows, Zenon DEF CancelCoupon, books


-----------------------------------------------------------------------------
(* The invariant.                                                          *)

LEMMA CounterBegins == Init => CounterInv
  <1> SUFFICES ASSUME Init PROVE CounterInv
    OBVIOUS
  <1>1. sales = << >> /\ orders = << >> /\ payments = << >>
    BY DEF Init
  <1>2. \A s : s = << >> => DOMAIN s = {} /\ \A T : s \in Seq(T)
    OBVIOUS
  <1>3. /\ DOMAIN sales = {} /\ DOMAIN orders = {} /\ DOMAIN payments = {}
        /\ sales \in Seq(SaleRow) /\ orders \in Seq(OrderRow) /\ payments \in Seq(PaymentRecord)
    BY <1>1, <1>2
  <1>4. \A i \in Items : menu[i] = [price |-> Min(Prices[i]), soldOut |-> FALSE]
                         /\ Min(Prices[i]) \in Prices[i] /\ Min(Prices[i]) \in Nat
    <2> SUFFICES ASSUME NEW i \in Items
                 PROVE  /\ menu[i] = [price |-> Min(Prices[i]), soldOut |-> FALSE]
                        /\ Min(Prices[i]) \in Prices[i] /\ Min(Prices[i]) \in Nat
      OBVIOUS
    <2>1. Prices[i] \subseteq Nat /\ Prices[i] # {}
      BY DEF CounterAssumption
    <2>2. \E least \in Prices[i] : \A p \in Prices[i] : least <= p
      BY ONLY <2>1, LeastNumber
    <2>3. Min(Prices[i]) \in Prices[i]
      BY <2>2 DEF Min
    <2> QED
      BY <2>1, <2>3 DEF Init
  <1>5. MenuShape /\ \A i \in Items : menu[i].price \in Prices[i]
    <2>1. menu = [i \in Items |-> [price |-> Min(Prices[i]), soldOut |-> FALSE]]
      BY DEF Init
    <2>2. \A i \in Items : [price |-> Min(Prices[i]), soldOut |-> FALSE] \in [price : Nat, soldOut : BOOLEAN]
      BY <1>4
    <2>3. MenuShape
      BY <2>1, <2>2 DEF MenuShape
    <2>4. ASSUME NEW i \in Items
          PROVE  menu[i].price \in Prices[i]
      <3> DEFINE price == Min(Prices[i])
      <3>1. menu[i] = [price |-> price, soldOut |-> FALSE] /\ price \in Prices[i]
        BY <1>4
      <3> HIDE DEF price
      <3>2. menu[i].price = price
        BY <3>1
      <3> QED
        BY <3>1, <3>2
    <2> QED
      BY <2>3, <2>4
  <1>6. /\ settings \in Settings /\ expired \subseteq Coupons
        /\ coupons \in [Coupons -> {"AVAILABLE", "USED", "CANCELLED"}]
        /\ redemptions \in [Coupons -> [sale : Nat, status : {"NONE", "LIVE", "CANCELLED"}]]
    BY DEF Init, Settings
  <1>7. till = [t \in Tills |-> NewTill(1)] /\ req = [r \in Reqs |-> Idle]
    BY DEF Init
  <1>8. NewTill(1) \in Till /\ NewTill(1).key = 1 /\ Idle \in Request /\ Idle.pc = "idle"
    BY NewTillShape, NothingShown
  <1>9. till \in [Tills -> Till] /\ req \in [Reqs -> Request]
    BY <1>7, <1>8
  <1>10. KeysInv
    BY <1>3, <1>7, <1>8 DEF KeysInv
  <1>11. Shapes
    BY <1>3, <1>5, <1>6, <1>9 DEF Shapes
  <1>12. OneSale /\ OrdersInv /\ RefundsInv /\ MoneyInv
    BY <1>3 DEF OneSale, OrdersInv, RefundsInv, MoneyInv
  <1>13. CouponBuysOneDiscount
    <2>1. \A c \in Coupons : coupons[c] # "USED" /\ redemptions[c].status = "NONE" /\ Bought(c) = {}
      BY <1>3 DEF Init, Bought
    <2> QED
      BY <2>1, DiscountPerCoupon DEF OneDiscount
  <1>14. AllocationsAddUp
    BY <1>3 DEF AllocationsAddUp
  <1> QED
    BY <1>10, <1>11, <1>12, <1>13, <1>14 DEF CounterInv

LEMMA CounterKept == CounterInv /\ [Next]_vars => CounterInv'
  <1> SUFFICES ASSUME CounterInv, [Next]_vars PROVE CounterInv'
    OBVIOUS
  <1>1. /\ Shapes /\ KeysInv /\ OneSale /\ OrdersInv /\ RefundsInv /\ MoneyInv
        /\ CouponBuysOneDiscount /\ AllocationsAddUp
    BY DEF CounterInv
  <1>2. Shapes' /\ KeysInv' /\ OneSale'
    BY <1>1, ShapesKept, KeysKept
  <1>3. OrdersInv' /\ RefundsInv' /\ MoneyInv'
    BY <1>1, OrdersKept, RefundsKept, MoneyKept
  <1>4. CouponBuysOneDiscount'
    BY <1>1, CouponsKept
  <1>5. AllocationsAddUp'
    <2>1. RowsAddUp' /\ LinesAddUp'
      BY <1>1, AllocationsKept
    <2>2. (RowsAddUp /\ LinesAddUp)' => AllocationsAddUp'
      BY AllocationParts, PTL
    <2> QED
      BY <2>1, <2>2
  <1> QED
    BY <1>2, <1>3, <1>4, <1>5 DEF CounterInv

\* The inductive invariant holds in every state: keys are used once, what has been
\* paid for a sale is what it was sold for, and is refunded once, when it is taken back.
THEOREM Invariant == Spec => []CounterInv
  <1> QED
    BY CounterBegins, CounterKept, PTL DEF Spec

\* The rows, the tills and the requests have the shapes that counterSale.ts and
\* CounterSalePage.tsx give them, and rows refer to rows that exist.
THEOREM TypeCorrect == Spec => []TypeOK
  <1>1. ASSUME CounterInv
        PROVE  TypeOK
    <2>1. Shapes /\ OrdersInv /\ RefundsInv
      BY <1>1 DEF CounterInv
    <2>2. ASSUME NEW o \in DOMAIN orders
          PROVE  /\ orders[o].status \in ActiveOrderStatuses \cup NotCharged \cup {"SERVED"}
                 /\ \A l \in DOMAIN orders[o].lines : orders[o].lines[l] \in Line
      <3>1. orders[o] \in OrderRow
        BY <2>1, ElementOfSeq DEF Shapes
      <3>2. PICK part \in SUBSET Nat : orders[o].lines \in [part -> Line]
        BY <3>1 DEF OrderRow
      <3> QED
        BY <3>1, <3>2 DEF OrderRow, OrderStatuses
    <2>3. ASSUME NEW p \in DOMAIN payments
          PROVE  /\ payments[p].kind \in PaymentKinds /\ payments[p].amount \in Nat
                 /\ payments[p].coupon \in Coupons \cup {NoCoupon}
      <3>1. payments[p] \in PaymentRecord
        BY <2>1, ElementOfSeq DEF Shapes
      <3> QED
        BY <3>1 DEF PaymentRecord
    <2>4. \A p \in DOMAIN payments : payments[p].reversedPaymentId \in {0} \cup DOMAIN payments
      BY <2>1, ReversedWhenTakenBack
    <2>5. \A i \in Items : menu[i] \in [price : Prices[i], soldOut : BOOLEAN]
      <3> SUFFICES ASSUME NEW i \in Items
                   PROVE  menu[i] \in [price : Prices[i], soldOut : BOOLEAN]
        OBVIOUS
      <3>1. menu[i] \in [price : Nat, soldOut : BOOLEAN] /\ menu[i].price \in Prices[i]
        BY <2>1 DEF Shapes, MenuShape
      <3> QED
        BY <3>1
    <2> QED
      BY <2>1, <2>2, <2>3, <2>4, <2>5 DEF TypeOK, Shapes, OrdersInv, RefundsInv
  <1> QED
    BY <1>1, Invariant, PTL

\* A used coupon bought exactly one discount, and its redemption lives as long as that.
THEOREM CouponBuysOneDiscountHolds == Spec => []CouponBuysOneDiscount
  <1>1. CounterInv => CouponBuysOneDiscount
    BY DEF CounterInv
  <1> QED
    BY <1>1, Invariant, PTL

\* What is allocated to a line is its price, and a payment is the sum of its
\* allocations: splitAllocations and discountAllocation.ts lose no won to rounding.
THEOREM AllocationsAddUpHolds == Spec => []AllocationsAddUp
  <1>1. CounterInv => AllocationsAddUp
    BY DEF CounterInv
  <1> QED
    BY <1>1, Invariant, PTL

-----------------------------------------------------------------------------
(* The ledger of a sale.                                                   *)

\* Fewer terms, and none of them greater, add up to no more.
LEMMA SumOfFewer ==
    ASSUME NEW S, IsFiniteSet(S), NEW T \in SUBSET S, NEW f, NEW g,
           \A x \in S : f[x] \in Nat, \A x \in T : g[x] \in Nat /\ g[x] <= f[x]
    PROVE  /\ SumFunctionOnSet(g, T) \in Nat /\ SumFunctionOnSet(f, S) \in Nat
           /\ SumFunctionOnSet(g, T) <= SumFunctionOnSet(f, S)
  <1>1. IsFiniteSet(T) /\ IsFiniteSet(S \ T)
    BY FS_Subset
  <1>2. SumFunctionOnSet(g, T) <= SumFunctionOnSet(f, T)
    <2>1. \A x \in T : g[x] \in Int /\ f[x] \in Int /\ g[x] <= f[x]
      OBVIOUS
    <2> QED
      BY <1>1, <2>1, SumOrder
  <1>3. SumFunctionOnSet(f, T \cup (S \ T)) = SumFunctionOnSet(f, T) + SumFunctionOnSet(f, S \ T)
    <2>1. T \cap (S \ T) = {} /\ \A x \in T \cup (S \ T) : f[x] \in Int
      OBVIOUS
    <2> QED
      BY <1>1, <2>1, SumOfParts
  <1>4. T \cup (S \ T) = S
    OBVIOUS
  <1>5. SumFunctionOnSet(g, T) \in Nat
    BY <1>1, SumOfNaturals
  <1>6. SumFunctionOnSet(f, S) \in Nat
    BY SumOfNaturals
  <1>7. SumFunctionOnSet(f, T) \in Nat
    <2>1. \A x \in T : f[x] \in Nat
      OBVIOUS
    <2> QED
      BY ONLY <1>1, <2>1, SumOfNaturals
  <1>8. SumFunctionOnSet(f, S \ T) \in Nat
    <2>1. \A x \in S \ T : f[x] \in Nat
      OBVIOUS
    <2> QED
      BY ONLY <1>1, <2>1, SumOfNaturals
  <1> DEFINE all == SumFunctionOnSet(f, S)
             kept == SumFunctionOnSet(f, T)
             rest == SumFunctionOnSet(f, S \ T)
             less == SumFunctionOnSet(g, T)
  <1>9. all = kept + rest
    BY <1>3, <1>4
  <1> HIDE DEF all, kept, rest, less
  <1>10. all \in Nat /\ kept \in Nat /\ rest \in Nat /\ less \in Nat /\ less <= kept
    BY <1>2, <1>5, <1>6, <1>7, <1>8 DEF all, kept, rest, less
  <1>11. less <= all
    BY <1>9, <1>10
  <1> QED
    BY <1>5, <1>6, <1>11 DEF all, less

\* An order that has lost lines is worth no more, and never more than it was sold for.
LEMMA OrderWorth ==
    ASSUME NEW order \in OrderRow, IsFiniteSet(DOMAIN order.lines),
           order.live \subseteq DOMAIN order.lines
    PROVE  /\ LiveAmount(order) \in Nat /\ FullAmount(order) \in Nat
           /\ LiveAmount(order) <= FullAmount(order)
           /\ order.live = DOMAIN order.lines => LiveAmount(order) = FullAmount(order)
           /\ \A other : other.lines = order.lines /\ other.live \subseteq order.live
                 => LiveAmount(other) \in Nat /\ LiveAmount(other) <= LiveAmount(order)
  <1> DEFINE D == DOMAIN order.lines
             f == [l \in D |-> LineTotal(order.lines[l])]
  <1>1. \A l \in D : f[l] = LineTotal(order.lines[l]) /\ f[l] \in Nat
    <2>1. PICK part \in SUBSET Nat : order.lines \in [part -> Line]
      BY DEF OrderRow
    <2>2. \A l \in D : order.lines[l] \in Line
      BY <2>1
    <2> QED
      BY <2>2, LineWorth
  <1>2. FullAmount(order) = SumFunctionOnSet(f, D)
    BY DEF FullAmount, SumFunction
  <1> HIDE DEF f
  <1>3. ASSUME NEW other, other.lines = order.lines, other.live \subseteq D
        PROVE  /\ LiveAmount(other) = SumFunctionOnSet(f, other.live)
               /\ IsFiniteSet(other.live)
    <2> DEFINE live == other.live
               g == [l \in live |-> LineTotal(order.lines[l])]
    <2>1. LiveAmount(other) = SumFunctionOnSet(g, live)
      BY <1>3 DEF LiveAmount, SumFunction
    <2>2. IsFiniteSet(live)
      BY <1>3, FS_Subset
    <2>3. \A l \in live : f[l] \in Int /\ g[l] = f[l]
      BY <1>1, <1>3
    <2> HIDE DEF g, live
    <2>4. SumFunctionOnSet(g, live) = SumFunctionOnSet(f, live)
      BY <2>2, <2>3, SumAgrees
    <2> QED
      BY <2>1, <2>2, <2>4 DEF live
  <1>4. LiveAmount(order) = SumFunctionOnSet(f, order.live) /\ IsFiniteSet(order.live)
    BY <1>3
  <1>5. ASSUME NEW S \in SUBSET D, NEW T \in SUBSET S, IsFiniteSet(S)
        PROVE  /\ SumFunctionOnSet(f, T) \in Nat /\ SumFunctionOnSet(f, S) \in Nat
               /\ SumFunctionOnSet(f, T) <= SumFunctionOnSet(f, S)
    <2>1. /\ \A l \in S : f[l] \in Nat
          /\ \A l \in T : f[l] \in Nat /\ f[l] <= f[l]
      BY <1>1
    <2> QED
      BY ONLY <1>5, <2>1, SumOfFewer
  <1>6. /\ LiveAmount(order) \in Nat /\ FullAmount(order) \in Nat
        /\ LiveAmount(order) <= FullAmount(order)
    BY <1>2, <1>4, <1>5
  <1>7. ASSUME NEW other, other.lines = order.lines, other.live \subseteq order.live
        PROVE  LiveAmount(other) \in Nat /\ LiveAmount(other) <= LiveAmount(order)
    BY <1>3, <1>4, <1>5, <1>7
  <1> QED
    BY <1>2, <1>4, <1>6, <1>7

\* The orders of sale n that are charged for.
Charged(rows, n) == {o \in RowsOf(rows, n) : rows[o].status \notin NotCharged}

LEMMA OrderAmounts ==
    ASSUME Shapes, OrdersInv, NEW n
    PROVE  /\ OrderAmount(n) \in Nat /\ Worth(n) \in Nat /\ OrderAmount(n) <= Worth(n)
           /\ (\A o \in RowsOf(orders, n) : orders[o].status \notin NotCharged
                                            /\ orders[o].live = DOMAIN orders[o].lines)
                 => OrderAmount(n) = Worth(n)
           /\ (\A o \in RowsOf(orders, n) : orders[o].status \in NotCharged)
                 => OrderAmount(n) = 0
  <1> DEFINE S == RowsOf(orders, n)
             T == Charged(orders, n)
             f == [o \in S |-> FullAmount(orders[o])]
             g == [o \in T |-> LiveAmount(orders[o])]
  <1>1. IsFiniteSet(S) /\ T \in SUBSET S /\ S \subseteq DOMAIN orders
    <2>1. DOMAIN orders = 1..Len(orders) /\ Len(orders) \in Nat
      BY LenProperties DEF Shapes
    <2>2. IsFiniteSet(DOMAIN orders)
      BY <2>1, FS_Interval
    <2> QED
      BY <2>2, FS_Subset DEF RowsOf, Charged
  <1>2. \A o \in S : /\ LiveAmount(orders[o]) \in Nat /\ FullAmount(orders[o]) \in Nat
                     /\ LiveAmount(orders[o]) <= FullAmount(orders[o])
                     /\ orders[o].live = DOMAIN orders[o].lines =>
                           LiveAmount(orders[o]) = FullAmount(orders[o])
    <2> SUFFICES ASSUME NEW o \in S
                 PROVE  /\ LiveAmount(orders[o]) \in Nat /\ FullAmount(orders[o]) \in Nat
                        /\ LiveAmount(orders[o]) <= FullAmount(orders[o])
                        /\ orders[o].live = DOMAIN orders[o].lines =>
                              LiveAmount(orders[o]) = FullAmount(orders[o])
      OBVIOUS
    <2>1. /\ orders[o] \in OrderRow /\ IsFiniteSet(DOMAIN orders[o].lines)
          /\ orders[o].live \subseteq DOMAIN orders[o].lines
      BY <1>1, ElementOfSeq DEF Shapes, OrdersInv
    <2> QED
      BY <2>1, OrderWorth
  <1>3. /\ OrderAmount(n) = SumFunctionOnSet(g, T) /\ Worth(n) = SumFunctionOnSet(f, S)
    BY DEF OrderAmount, Worth, SumFunction, Charged
  <1>4. /\ \A o \in S : f[o] = FullAmount(orders[o])
        /\ \A o \in T : g[o] = LiveAmount(orders[o])
        /\ T = {o \in S : orders[o].status \notin NotCharged}
    BY DEF Charged
  <1> HIDE DEF S, T, f, g
  <1>5. /\ \A o \in S : f[o] \in Nat
        /\ \A o \in T : g[o] \in Nat /\ g[o] <= f[o]
    BY <1>1, <1>2, <1>4
  <1>6. OrderAmount(n) \in Nat /\ Worth(n) \in Nat /\ OrderAmount(n) <= Worth(n)
    <2>1. /\ SumFunctionOnSet(g, T) \in Nat /\ SumFunctionOnSet(f, S) \in Nat
          /\ SumFunctionOnSet(g, T) <= SumFunctionOnSet(f, S)
      BY ONLY <1>1, <1>5, SumOfFewer
    <2> QED
      BY <1>3, <2>1
  <1>7. ASSUME \A o \in S : orders[o].status \notin NotCharged
                            /\ orders[o].live = DOMAIN orders[o].lines
        PROVE  OrderAmount(n) = Worth(n)
    <2>1. T = S
      BY <1>4, <1>7
    <2>2. \A o \in S : f[o] \in Int /\ g[o] = f[o]
      BY <1>2, <1>4, <1>5, <1>7, <2>1
    <2>3. SumFunctionOnSet(g, S) = SumFunctionOnSet(f, S)
      BY <1>1, <2>2, SumAgrees
    <2> QED
      BY <1>3, <2>1, <2>3
  <1>8. ASSUME \A o \in S : orders[o].status \in NotCharged
        PROVE  OrderAmount(n) = 0
    <2>1. T = {}
      BY <1>4, <1>8
    <2> QED
      BY <1>3, <2>1, SumOnNothing
  <1> QED
    BY <1>6, <1>7, <1>8 DEF S

\* No step gives a sale that has been made more to serve.
Shrinks(n) ==
    /\ DOMAIN orders \subseteq DOMAIN orders'
    /\ \A o \in DOMAIN orders :
          /\ orders'[o].sale = orders[o].sale /\ orders'[o].lines = orders[o].lines
          /\ orders'[o].live \subseteq orders[o].live
          /\ orders[o].status \in NotCharged => orders'[o].status \in NotCharged
    /\ \A o \in DOMAIN orders' \ DOMAIN orders : orders'[o].sale # n

LEMMA OrderAmountShrinks ==
    ASSUME Shapes, OrdersInv, NEW n, Shrinks(n)
    PROVE  OrderAmount(n)' <= OrderAmount(n)
  <1> DEFINE S == Charged(orders, n)
             T == Charged(orders', n)
             f == [o \in S |-> LiveAmount(orders[o])]
             g == [o \in T |-> LiveAmount(orders'[o])]
  <1>1. IsFiniteSet(S) /\ S \subseteq DOMAIN orders
    <2>1. DOMAIN orders = 1..Len(orders) /\ Len(orders) \in Nat
      BY LenProperties DEF Shapes
    <2>2. IsFiniteSet(DOMAIN orders)
      BY <2>1, FS_Interval
    <2> QED
      BY <2>2, FS_Subset DEF RowsOf, Charged
  <1>2. T \in SUBSET S
    BY DEF Charged, RowsOf, Shrinks
  <1>3. ASSUME NEW o \in S
        PROVE  /\ LiveAmount(orders[o]) \in Nat
               /\ o \in T => /\ LiveAmount(orders'[o]) \in Nat
                             /\ LiveAmount(orders'[o]) <= LiveAmount(orders[o])
    <2>1. /\ orders[o] \in OrderRow /\ IsFiniteSet(DOMAIN orders[o].lines)
          /\ orders[o].live \subseteq DOMAIN orders[o].lines
      BY <1>1, ElementOfSeq DEF Shapes, OrdersInv
    <2>2. orders'[o].lines = orders[o].lines /\ orders'[o].live \subseteq orders[o].live
      BY <1>1 DEF Shrinks
    <2> QED
      BY <2>1, <2>2, OrderWorth
  <1>4. OrderAmount(n) = SumFunctionOnSet(f, S) /\ OrderAmount(n)' = SumFunctionOnSet(g, T)
    BY DEF OrderAmount, SumFunction, Charged
  <1>5. /\ \A o \in S : f[o] = LiveAmount(orders[o])
        /\ \A o \in T : g[o] = LiveAmount(orders'[o])
    OBVIOUS
  <1> HIDE DEF S, T, f, g
  <1>6. /\ \A o \in S : f[o] \in Nat
        /\ \A o \in T : g[o] \in Nat /\ g[o] <= f[o]
    BY <1>2, <1>3, <1>5
  <1>7. SumFunctionOnSet(g, T) <= SumFunctionOnSet(f, S)
    BY ONLY <1>1, <1>2, <1>6, SumOfFewer
  <1> QED
    BY <1>4, <1>7

\* The refunds of sale n's originals of a kind.
RefundsOf(n, kind) ==
    {p \in RowsOf(payments, n) :
        /\ payments[p].kind = "REFUND"
        /\ payments[payments[p].reversedPaymentId].kind = kind}

LEMMA NetAmounts ==
    ASSUME Shapes, RefundsInv, NEW n \in DOMAIN sales, NEW kind \in Originals
    PROVE  /\ Amounts(OriginalsOf(n, {kind})) \in Nat
           /\ sales[n].status # "CANCELLED" => NetOf(n, kind) = Amounts(OriginalsOf(n, {kind}))
           /\ sales[n].status = "CANCELLED" => NetOf(n, kind) = 0
  <1> DEFINE Given == OriginalsOf(n, {kind})
             Back == RefundsOf(n, kind)
  <1>1. NetOf(n, kind) = Amounts(Given) - Amounts(Back)
    <2>1. {p \in RowsOf(payments, n) : payments[p].kind = kind} = Given
      BY DEF OriginalsOf, OfKinds
    <2> QED
      BY <2>1 DEF NetOf, RefundsOf
  <1>2. payments \in Seq(PaymentRecord) /\ Given \in SUBSET DOMAIN payments /\ Back \in SUBSET DOMAIN payments
    BY DEF Shapes, OriginalsOf, OfKinds, RowsOf, RefundsOf
  <1>3. /\ \A p \in Given : /\ p \in DOMAIN payments /\ payments[p].sale = n
                            /\ payments[p].kind = kind
        /\ \A q \in Back : /\ q \in DOMAIN payments /\ payments[q].sale = n
                           /\ payments[q].kind = "REFUND"
                           /\ payments[payments[q].reversedPaymentId].kind = kind
    BY DEF OriginalsOf, OfKinds, RowsOf, RefundsOf
  <1>4. \A S \in SUBSET DOMAIN payments :
          /\ IsFiniteSet(S) /\ Amounts(S) \in Nat /\ Amounts({}) = 0
    BY <1>2, PaidParts DEF Amounts, PaidBy
  <1> HIDE DEF Given, Back
  <1>5. ASSUME sales[n].status # "CANCELLED"
        PROVE  Back = {}
    BY <1>3, <1>5 DEF RefundsInv
  <1>6. ASSUME sales[n].status = "CANCELLED"
        PROVE  Amounts(Back) = Amounts(Given)
    <2> DEFINE name == [q \in Back |-> payments[q].reversedPaymentId]
               f == [p \in Given |-> payments[p].amount]
               g == [q \in Back |-> payments[q].amount]
    <2>1. ASSUME NEW q \in Back
          PROVE  name[q] \in Given /\ payments[q].amount = payments[name[q]].amount
      <3>1. /\ payments[q].reversedPaymentId \in DOMAIN payments
            /\ payments[q].sale = payments[payments[q].reversedPaymentId].sale
            /\ payments[q].amount = payments[payments[q].reversedPaymentId].amount
        BY <1>3 DEF RefundsInv, Refunds
      <3> QED
        BY <1>3, <3>1 DEF Given, OriginalsOf, OfKinds, RowsOf
    <2>z. /\ 0 \notin DOMAIN payments
          /\ \A p \in DOMAIN payments : payments[p].kind \in {"CHARGE", "DISCOUNT", "REFUND"}
      BY ReversedWhenTakenBack
    <2>2. ASSUME NEW p \in Given
          PROVE  \E q \in Back : name[q] = p
      <3>1. Reversed(p) /\ p \in DOMAIN payments /\ p # 0
        <4>1. p \in DOMAIN payments /\ payments[p].sale = n /\ payments[p].kind \in Originals
          BY <1>3
        <4>2. p # 0
          BY <2>z, <4>1
        <4> QED
          BY <1>6, <4>1, <4>2 DEF RefundsInv
      <3>2. PICK q \in DOMAIN payments : payments[q].reversedPaymentId = p
        BY <3>1 DEF Reversed
      <3>3. payments[q].kind = "REFUND"
        <4>1. payments[q].kind \notin Originals
          BY <3>1, <3>2 DEF RefundsInv
        <4> QED
          BY <2>z, <4>1 DEF Originals
      <3>4. payments[q].sale = n /\ payments[payments[q].reversedPaymentId].kind = kind
        <4>1. payments[q].sale = payments[p].sale
          BY <3>2, <3>3 DEF RefundsInv, Refunds
        <4> QED
          BY <1>3, <3>2, <4>1
      <3>5. q \in Back
        BY <3>2, <3>3, <3>4 DEF Back, RefundsOf, RowsOf
      <3> QED
        BY <3>2, <3>5
    <2>3. \A x, y \in Back : name[x] = name[y] => x = y
      BY <1>3 DEF RefundsInv
    <2>5. /\ \A p \in Given : f[p] \in Int
          /\ \A q \in Back : f[name[q]] \in Int /\ g[q] = f[name[q]]
      <3>1. \A p \in Given : payments[p] \in PaymentRecord
        BY <1>2, ElementOfSeq
      <3>2. \A p \in Given : payments[p].amount \in Nat
        BY <3>1 DEF PaymentRecord
      <3> QED
        BY <2>1, <3>2
    <2>6. IsFiniteSet(Back) /\ DOMAIN name = Back
      BY <1>2, <1>4
    <2>7. Amounts(Given) = SumFunctionOnSet(f, Given) /\ Amounts(Back) = SumFunctionOnSet(g, Back)
      BY DEF Amounts, SumFunction
    <2> HIDE DEF name, f, g
    <2>4. {name[q] : q \in Back} = Given
      BY ONLY <2>1, <2>2
    <2>8. SumFunctionOnSet(f, {name[q] : q \in Back}) = SumFunctionOnSet(g, Back)
      BY ONLY <2>3, <2>5, <2>6, SumRenamed
    <2> QED
      BY <2>4, <2>7, <2>8
  <1>7. Amounts(Given) \in Nat /\ Amounts(Back) \in Nat /\ Amounts({}) = 0
    BY <1>2, <1>4
  <1>8. ASSUME sales[n].status # "CANCELLED"
        PROVE  NetOf(n, kind) = Amounts(Given)
    <2>1. Amounts(Back) = 0
      BY <1>5, <1>7, <1>8
    <2> QED
      BY ONLY <1>1, <1>7, <2>1
  <1>9. ASSUME sales[n].status = "CANCELLED"
        PROVE  NetOf(n, kind) = 0
    BY <1>1, <1>6, <1>7, <1>9
  <1> QED
    BY <1>7, <1>8, <1>9 DEF Given

\* What was paid for a sale is its discount and its charge.
LEMMA PaidForWorth ==
    ASSUME Shapes, MoneyInv, NEW n \in DOMAIN sales
    PROVE  Worth(n) = Amounts(OriginalsOf(n, {"DISCOUNT"})) + Amounts(OriginalsOf(n, {"CHARGE"}))
  <1> DEFINE All == OriginalsOf(n, Originals)
             Given == OriginalsOf(n, {"DISCOUNT"})
             Paid == OriginalsOf(n, {"CHARGE"})
  <1>1. /\ payments \in Seq(PaymentRecord) /\ All \in SUBSET DOMAIN payments
        /\ Given \in SUBSET All /\ All \ Given = Paid
    BY DEF Shapes, OriginalsOf, OfKinds, RowsOf, Originals
  <1>2. Worth(n) = Amounts(All)
    BY DEF MoneyInv
  <1> HIDE DEF All, Given, Paid
  <1>3. \A T \in SUBSET All : PaidBy(payments, All) = PaidBy(payments, T) + PaidBy(payments, All \ T)
    BY <1>1, PaidParts
  <1>4. PaidBy(payments, All) = PaidBy(payments, Given) + PaidBy(payments, Paid)
    BY <1>1, <1>3
  <1> QED
    BY <1>2, <1>4 DEF Amounts, PaidBy, Given, Paid

\* What is still owed for a sale is what its orders have lost, and nothing of one that
\* has been taken back.
Ledger(n) ==
    /\ OrderAmount(n) \in Nat /\ Worth(n) \in Nat /\ OrderAmount(n) <= Worth(n)
    /\ (\A o \in RowsOf(orders, n) : orders[o].status \notin NotCharged
                                     /\ orders[o].live = DOMAIN orders[o].lines)
          => OrderAmount(n) = Worth(n)
    /\ sales[n].status # "CANCELLED" =>
          /\ DiscountAmount(n) = Amounts(OriginalsOf(n, {"DISCOUNT"}))
          /\ NetCharged(n) = Amounts(OriginalsOf(n, {"CHARGE"}))
          /\ NetCharged(n) \in Nat
          /\ RemainingAmount(n) = OrderAmount(n) - Worth(n)
    /\ sales[n].status = "CANCELLED" =>
          DiscountAmount(n) = 0 /\ NetCharged(n) = 0 /\ RemainingAmount(n) = 0

Ledgers == \A n \in DOMAIN sales : Ledger(n)

LEMMA SaleLedger == CounterInv => Ledgers
  <1> SUFFICES ASSUME CounterInv, NEW n \in DOMAIN sales
               PROVE  Ledger(n)
    BY DEF Ledgers
  <1>1. Shapes /\ OrdersInv /\ RefundsInv /\ MoneyInv
    BY DEF CounterInv
  <1> DEFINE served == OrderAmount(n)
             worth == Worth(n)
             given == Amounts(OriginalsOf(n, {"DISCOUNT"}))
             paid == Amounts(OriginalsOf(n, {"CHARGE"}))
  <1>2. /\ served \in Nat /\ worth \in Nat /\ served <= worth
        /\ (\A o \in RowsOf(orders, n) : orders[o].status \notin NotCharged
                                         /\ orders[o].live = DOMAIN orders[o].lines)
              => served = worth
        /\ (\A o \in RowsOf(orders, n) : orders[o].status \in NotCharged) => served = 0
    BY <1>1, OrderAmounts
  <1>3. /\ given \in Nat /\ paid \in Nat
        /\ sales[n].status # "CANCELLED" => DiscountAmount(n) = given /\ NetCharged(n) = paid
        /\ sales[n].status = "CANCELLED" => DiscountAmount(n) = 0 /\ NetCharged(n) = 0
    <2>1. "DISCOUNT" \in Originals /\ "CHARGE" \in Originals
      BY DEF Originals
    <2> QED
      BY <1>1, <2>1, NetAmounts DEF DiscountAmount, NetCharged
  <1>4. worth = given + paid
    BY <1>1, PaidForWorth
  <1>5. RemainingAmount(n) = served - DiscountAmount(n) - NetCharged(n)
    BY DEF RemainingAmount
  <1>6. sales[n].status = "CANCELLED" =>
           \A o \in RowsOf(orders, n) : orders[o].status \in NotCharged
    BY <1>1 DEF OrdersInv, RowsOf, NotCharged
  <1> HIDE DEF served, worth, given, paid
  <1>7. ASSUME sales[n].status # "CANCELLED"
        PROVE  RemainingAmount(n) = served - worth
    <2>1. DiscountAmount(n) = given /\ NetCharged(n) = paid
      BY <1>3, <1>7
    <2>2. RemainingAmount(n) = served - given - paid
      BY <1>5, <2>1
    <2> QED
      BY ONLY <1>2, <1>3, <1>4, <2>2
  <1>8. ASSUME sales[n].status = "CANCELLED"
        PROVE  RemainingAmount(n) = 0
    <2>1. DiscountAmount(n) = 0 /\ NetCharged(n) = 0 /\ served = 0
      BY <1>2, <1>3, <1>6, <1>8
    <2>2. RemainingAmount(n) = 0 - 0 - 0
      BY <1>5, <2>1
    <2> QED
      BY ONLY <2>2
  <1> QED
    BY <1>2, <1>3, <1>7, <1>8 DEF Ledger, served, worth, given, paid

\* A completed sale owes nothing, and is owed something only when the kitchen rejected
\* or cancelled part of it: computeCounterSaleLedger of a sale paid in advance.
THEOREM PaidInAdvanceHolds == Spec => []PaidInAdvance
  <1>1. ASSUME CounterInv, NEW n \in DOMAIN sales, sales[n].status = "COMPLETED"
        PROVE  /\ RemainingAmount(n) <= 0
               /\ RemainingAmount(n) < 0 =>
                     \E o \in RowsOf(orders, n) :
                        \/ orders[o].status \in NotCharged
                        \/ orders[o].live # DOMAIN orders[o].lines
    <2>1. /\ OrderAmount(n) \in Nat /\ Worth(n) \in Nat /\ OrderAmount(n) <= Worth(n)
          /\ RemainingAmount(n) = OrderAmount(n) - Worth(n)
          /\ (\A o \in RowsOf(orders, n) : orders[o].status \notin NotCharged
                                           /\ orders[o].live = DOMAIN orders[o].lines)
                => OrderAmount(n) = Worth(n)
      BY <1>1, SaleLedger DEF Ledgers, Ledger
    <2>2. RemainingAmount(n) <= 0 /\ (RemainingAmount(n) < 0 => OrderAmount(n) # Worth(n))
      BY <2>1
    <2> QED
      BY <2>1, <2>2
  <1>2. CounterInv => PaidInAdvance
    BY <1>1 DEF PaidInAdvance
  <1> QED
    BY <1>2, Invariant, PTL

\* A sale taken back is settled for good (cancelCounterSale): nothing is kept of its
\* money or its discount, each payment was refunded once, and nothing is left to serve.
THEOREM CancelledSaleSettledHolds == Spec => []CancelledSaleSettled
  <1>1. ASSUME CounterInv, NEW n \in DOMAIN sales, sales[n].status = "CANCELLED"
        PROVE  /\ RemainingAmount(n) = 0 /\ NetCharged(n) = 0 /\ DiscountAmount(n) = 0
               /\ \A p \in RowsOf(payments, n) : payments[p].kind \in Originals =>
                     Cardinality({q \in DOMAIN payments : payments[q].reversedPaymentId = p}) = 1
               /\ \A o \in RowsOf(orders, n) : orders[o].status = "CANCELLED"
    <2>1. Shapes /\ OrdersInv /\ RefundsInv
      BY <1>1 DEF CounterInv
    <2>2. RemainingAmount(n) = 0 /\ NetCharged(n) = 0 /\ DiscountAmount(n) = 0
      BY <1>1, SaleLedger DEF Ledgers, Ledger
    <2>3. \A o \in RowsOf(orders, n) : orders[o].status = "CANCELLED"
      BY <1>1, <2>1 DEF OrdersInv, RowsOf
    <2>4. ASSUME NEW p \in RowsOf(payments, n), payments[p].kind \in Originals
          PROVE  Cardinality({q \in DOMAIN payments : payments[q].reversedPaymentId = p}) = 1
      <3> DEFINE Back == {q \in DOMAIN payments : payments[q].reversedPaymentId = p}
      <3>1. p \in DOMAIN payments /\ payments[p].sale = n
        BY DEF RowsOf
      <3>2. Reversed(p)
        BY <1>1, <2>1, <2>4, <3>1 DEF RefundsInv
      <3>3. PICK q \in DOMAIN payments : payments[q].reversedPaymentId = p
        BY <3>2 DEF Reversed
      <3>4. \A x \in Back : payments[x].kind = "REFUND"
        <4>1. /\ 0 \notin DOMAIN payments
              /\ \A x \in DOMAIN payments : payments[x].kind \in {"CHARGE", "DISCOUNT", "REFUND"}
          BY <2>1, ReversedWhenTakenBack
        <4>2. \A x \in Back : payments[x].kind \notin Originals
          BY <2>1, <3>1, <4>1 DEF RefundsInv
        <4> QED
          BY <4>1, <4>2 DEF Originals
      <3>5. \A x \in Back : x = q
        BY <2>1, <3>3, <3>4 DEF RefundsInv
      <3>6. Back = {q}
        BY <3>3, <3>5
      <3> QED
        BY <3>6, FS_Singleton
    <2> QED
      BY <2>2, <2>3, <2>4
  <1>2. CounterInv => CancelledSaleSettled
    BY <1>1, Zenon DEF CancelledSaleSettled
  <1> QED
    BY <1>2, Invariant, PTL

LEMMA SalesLast ==
    ASSUME CounterInv, [Next]_vars, NEW n \in DOMAIN sales
    PROVE  /\ n \in DOMAIN sales' /\ Shrinks(n) /\ Worth(n)' = Worth(n)
           /\ sales'[n].status # "CANCELLED" => sales[n].status # "CANCELLED"
  <1>0. Shapes /\ OrdersInv
    BY DEF CounterInv
  <1> DEFINE Lasts == /\ n \in DOMAIN sales' /\ Shrinks(n) /\ Worth(n)' = Worth(n)
                      /\ sales'[n].status # "CANCELLED" => sales[n].status # "CANCELLED"
  <1>1. ASSUME NEW r \in Reqs, CommitSale(r)
        PROVE  Lasts
    <2>1. PICK m, quote, served, key, paid : Sells(r, m, quote, served, key, paid)
      BY <1>0, <1>1, Selling
    <2>2. /\ m \notin DOMAIN sales /\ DOMAIN sales' = DOMAIN sales \cup {m}
          /\ \A x \in DOMAIN sales : sales'[x] = sales[x]
      BY <1>0, <2>1, SellingRows
    <2>3. /\ DOMAIN orders \subseteq DOMAIN orders'
          /\ \A o \in DOMAIN orders : orders'[o] = orders[o]
          /\ \A o \in DOMAIN orders' \ DOMAIN orders : orders'[o].sale = m
      BY <1>0, <2>1, SoldRows
    <2>4. m # n
      BY <2>2
    <2>5. Shrinks(n)
      BY <2>3, <2>4 DEF Shrinks
    <2>6. Worth(n)' = Worth(n)
      BY <2>3, <2>4, WorthStays
    <2> QED
      BY <2>2, <2>5, <2>6
  <1>2. ASSUME NEW m \in DOMAIN sales, CancelSale(m)
        PROVE  Lasts
    <2>1. PICK list, refunds : GivesBack(m, list, refunds)
      BY <1>0, <1>2, TakingBack
    <2>2. /\ DOMAIN sales' = DOMAIN sales
          /\ \A x \in DOMAIN sales : x # m => sales'[x] = sales[x]
          /\ sales'[m].status = "CANCELLED"
          /\ DOMAIN orders' = DOMAIN orders
          /\ \A o \in DOMAIN orders :
                 /\ orders'[o].sale = orders[o].sale /\ orders'[o].lines = orders[o].lines
                 /\ orders'[o].live = orders[o].live
                 /\ orders[o].sale = m => orders'[o].status = "CANCELLED"
                 /\ orders[o].sale # m => orders'[o] = orders[o]
      BY <1>0, <2>1, TakingBackRows
    <2>3. "CANCELLED" \in NotCharged
      BY DEF NotCharged
    <2>4. Shrinks(n)
      BY <2>2, <2>3 DEF Shrinks
    <2>5. Worth(n)' = Worth(n)
      BY <2>2, WorthStays
    <2> QED
      BY <2>2, <2>4, <2>5
  <1>3. ASSUME OrdersStay, UNCHANGED sales
        PROVE  Lasts
    <2>1. Shrinks(n)
      BY <1>3 DEF OrdersStay, Shrinks
    <2>2. Worth(n)' = Worth(n)
      BY <1>3, WorthStays DEF OrdersStay
    <2> QED
      BY <1>3, <2>1, <2>2
  <1>4. UNCHANGED orders => OrdersStay
    BY <1>0 DEF OrdersStay, Shapes
  <1>5. orders \in Seq(OrderRow)
    BY <1>0 DEF Shapes
  <1>6. KitchenStep => OrdersStay /\ UNCHANGED sales
    BY <1>0, KitchenRows
  <1>7. (\E c \in Coupons : CancelCoupon(c)) => UNCHANGED <<orders, sales>>
    BY DEF CancelCoupon
  <1>8. UNCHANGED books => UNCHANGED <<orders, sales>>
    BY DEF books
  <1> HIDE DEF Lasts
  <1>9. Lasts
    BY <1>1, <1>2, <1>3, <1>4, <1>5, <1>6, <1>7, <1>8, StepCases, Zenon
  <1> QED
    BY <1>9 DEF Lasts

\* A payment row is never changed.
LEMMA PaymentsLast ==
    ASSUME Shapes, [Next]_vars, NEW p \in DOMAIN payments
    PROVE  p \in DOMAIN payments' /\ payments'[p] = payments[p]
  <1>1. ASSUME NEW r \in Reqs, CommitSale(r)
        PROVE  p \in DOMAIN payments' /\ payments'[p] = payments[p]
    <2>1. PICK n, quote, served, key, paid : Sells(r, n, quote, served, key, paid)
      BY <1>1, Selling
    <2> QED
      BY <2>1, SoldRows
  <1>2. ASSUME NEW n \in DOMAIN sales, CancelSale(n)
        PROVE  p \in DOMAIN payments' /\ payments'[p] = payments[p]
    <2>1. PICK list, refunds : GivesBack(n, list, refunds)
      BY <1>2, TakingBack
    <2> QED
      BY <2>1, RefundedRows
  <1>3. ASSUME UNCHANGED payments
        PROVE  p \in DOMAIN payments' /\ payments'[p] = payments[p]
    BY <1>3
  <1>4. orders \in Seq(OrderRow)
    BY DEF Shapes
  <1>5. (\E c \in Coupons : CancelCoupon(c)) => UNCHANGED payments
    BY DEF CancelCoupon
  <1>6. UNCHANGED books => UNCHANGED payments
    BY DEF books
  <1> QED
    BY <1>1, <1>2, <1>3, <1>4, <1>5, <1>6, StepCases, KitchenRows, Zenon

\* "Refund needed" disappears from a sale only when the refund is recorded, never
\* because of what the kitchen does next.
THEOREM RefundOwedUntilRecordedHolds == Spec => RefundOwedUntilRecorded
  <1>1. ASSUME CounterInv, CounterInv', [Next]_vars, NEW n \in DOMAIN sales,
               RefundNeeded(n), ~RefundNeeded(n)',
               NEW p \in RowsOf(payments, n), payments[p].kind \in Originals
        PROVE  Reversed(p)'
    <2>1. /\ n \in DOMAIN sales' /\ Shrinks(n) /\ Worth(n)' = Worth(n)
      BY <1>1, SalesLast
    <2>2. Shapes /\ OrdersInv /\ RefundsInv
      BY <1>1 DEF CounterInv
    <2>3. OrderAmount(n)' <= OrderAmount(n)
      BY <2>1, <2>2, OrderAmountShrinks
    <2>4. Ledger(n) /\ Ledger(n)'
      <3>1. Ledgers /\ Ledgers'
        BY <1>1, SaleLedger, PTL
      <3> QED
        BY <2>1, <3>1 DEF Ledgers
    <2>5. sales'[n].status = "CANCELLED"
      <3> SUFFICES ASSUME sales'[n].status # "CANCELLED"
                   PROVE  FALSE
        OBVIOUS
      <3>1. sales'[n] \in SaleRow
        BY <1>1, <2>1, ElementOfSeq DEF CounterInv, Shapes
      <3>2. sales'[n].status = "COMPLETED" /\ sales[n].status = "COMPLETED"
        BY <1>1, <3>1 DEF SaleRow, RefundNeeded
      <3>3. /\ RemainingAmount(n) = OrderAmount(n) - Worth(n)
            /\ OrderAmount(n) \in Nat /\ Worth(n) \in Nat
        BY <2>4, <3>2 DEF Ledger
      <3>4. /\ RemainingAmount(n)' = OrderAmount(n)' - Worth(n)'
            /\ OrderAmount(n)' \in Nat
        BY <2>4, <3>2 DEF Ledger
      <3>5. RemainingAmount(n) < 0 /\ ~(RemainingAmount(n)' < 0)
        BY <1>1, <3>2 DEF RefundNeeded
      <3> QED
        BY <2>1, <2>3, <3>3, <3>4, <3>5
    <2>6. RefundsInv'
      BY <1>1 DEF CounterInv
    <2>7. p \in DOMAIN payments /\ payments[p].sale = n
      BY DEF RowsOf
    <2>8. p \in DOMAIN payments' /\ payments'[p] = payments[p]
      BY <1>1, <2>2, <2>7, PaymentsLast
    <2> QED
      BY <1>1, <2>5, <2>6, <2>7, <2>8 DEF RefundsInv
  <1>2. ASSUME CounterInv, CounterInv', [Next]_vars
        PROVE  \A n \in DOMAIN sales : RefundNeeded(n) /\ ~RefundNeeded(n)' =>
                   \A p \in RowsOf(payments, n) : payments[p].kind \in Originals => Reversed(p)'
    BY <1>1, <1>2
  <1>3. CounterInv /\ CounterInv' /\ [Next]_vars
          => [\A n \in DOMAIN sales : RefundNeeded(n) /\ ~RefundNeeded(n)' =>
                 \A p \in RowsOf(payments, n) : payments[p].kind \in Originals => Reversed(p)']_vars
    BY <1>2
  <1> QED
    BY <1>3, Invariant, PTL DEF Spec, RefundOwedUntilRecorded

\* However prices, sold-out flags and coupons change in between, a sale is made for the
\* lines, the discount and the total that the till showed when its cashier confirmed.
THEOREM SoldAsShownHolds == Spec => SoldAsShown
  <1>1. ASSUME CounterInv, CounterInv', [Next]_vars, NEW n \in DOMAIN sales' \ DOMAIN sales
        PROVE  \E r \in Reqs : /\ sales'[n].till = req[r].till /\ sales'[n].key = req[r].key
                               /\ OrderAmount(n)' = Subtotal(req[r].quote)
                               /\ DiscountAmount(n)' = req[r].quote.discount
                               /\ NetCharged(n)' = TotalAmount(req[r].quote)
    <2>1. Shapes /\ OrdersInv /\ RefundsInv
      BY <1>1 DEF CounterInv
    <2>2. ASSUME NEW m \in DOMAIN sales, CancelSale(m)
          PROVE  DOMAIN sales' = DOMAIN sales
      <3>1. PICK list, refunds : GivesBack(m, list, refunds)
        BY <2>1, <2>2, TakingBack
      <3> QED
        BY <2>1, <3>1, TakingBackRows
    <2>3. KitchenStep => UNCHANGED sales
      BY <2>1, KitchenRows
    <2>4. (\E c \in Coupons : CancelCoupon(c)) => UNCHANGED sales
      BY DEF CancelCoupon
    <2>5. UNCHANGED books => UNCHANGED sales
      BY DEF books
    <2>6. orders \in Seq(OrderRow)
      BY <2>1 DEF Shapes
    <2>7. PICK r \in Reqs : CommitSale(r)
      BY <1>1, <2>2, <2>3, <2>4, <2>5, <2>6, StepCases
    <2>8. PICK m, quote, served, key, paid : Sells(r, m, quote, served, key, paid)
      BY <2>1, <2>7, Selling
    <2>9. /\ n = m /\ m \notin DOMAIN sales /\ quote = req[r].quote
          /\ sales'[n].till = req[r].till /\ sales'[n].key = req[r].key
          /\ sales'[n].status = "COMPLETED"
      <3>1. /\ m \notin DOMAIN sales /\ DOMAIN sales' = DOMAIN sales \cup {m}
            /\ sales'[m].till = req[r].till /\ sales'[m].key = req[r].key
            /\ sales'[m].status = "COMPLETED"
        BY <2>1, <2>8, SellingRows
      <3>2. quote = req[r].quote
        BY <2>8 DEF Sells
      <3> QED
        BY <3>1, <3>2
    <2>10. /\ Worth(n)' = Subtotal(quote)
           /\ Amounts(OriginalsOf(n, {"DISCOUNT"}))' = quote.discount
           /\ Amounts(OriginalsOf(n, {"CHARGE"}))' = TotalAmount(quote)
      BY <2>1, <2>8, <2>9, NewWorth, NewMoney
    <2>11. Ledger(n)'
      <3>1. Ledgers'
        BY <1>1, SaleLedger, PTL
      <3> QED
        BY <3>1 DEF Ledgers
    <2>12. \A o \in RowsOf(orders', n) : orders'[o].status \notin NotCharged
                                         /\ orders'[o].live = DOMAIN orders'[o].lines
      <3>1. /\ \A o \in DOMAIN orders : orders'[o] = orders[o]
            /\ \A o \in DOMAIN orders' \ DOMAIN orders :
                  /\ orders'[o].status \in {"NEW", "SERVED"}
                  /\ DOMAIN orders'[o].lines = orders'[o].live
        BY <2>1, <2>8, SoldRows
      <3>2. \A o \in DOMAIN orders : orders'[o].sale # n
        BY <2>1, <2>9, <3>1 DEF OrdersInv
      <3> QED
        BY <3>1, <3>2 DEF RowsOf, NotCharged
    <2>13. OrderAmount(n)' = Worth(n)'
      BY <2>11, <2>12 DEF Ledger
    <2>14. /\ DiscountAmount(n)' = Amounts(OriginalsOf(n, {"DISCOUNT"}))'
           /\ NetCharged(n)' = Amounts(OriginalsOf(n, {"CHARGE"}))'
      BY <2>9, <2>11 DEF Ledger
    <2> QED
      BY <2>9, <2>10, <2>13, <2>14
  <1>2. CounterInv /\ CounterInv' /\ [Next]_vars
          => [\A n \in DOMAIN sales' \ DOMAIN sales : \E r \in Reqs :
                 /\ sales'[n].till = req[r].till /\ sales'[n].key = req[r].key
                 /\ OrderAmount(n)' = Subtotal(req[r].quote)
                 /\ DiscountAmount(n)' = req[r].quote.discount
                 /\ NetCharged(n)' = TotalAmount(req[r].quote)]_vars
    BY <1>1
  <1> QED
    BY <1>2, Invariant, PTL DEF Spec, SoldAsShown

-----------------------------------------------------------------------------
(* Checkout.                                                               *)

KeyOf(n) == <<sales[n].till, sales[n].key>>

\* What a key of a till has bought, and what Checkout sees of it.
KeysSold ==
    /\ \A n \in DOMAIN sales :
          /\ KeyOf(n) \in TillKeys /\ SoldFor(KeyOf(n)) = {n}
          /\ Receipt[KeyOf(n)] = sales[n].status /\ Cash[KeyOf(n)] = NetCharged(n)
          /\ NetCharged(n) \in Nat
          /\ sales[n].status \in {"COMPLETED", "CANCELLED"}
    /\ \A k \in TillKeys : \A n \in DOMAIN sales :
          KeyOf(n) = k => Receipt[k] = sales[n].status /\ Cash[k] = NetCharged(n)
    /\ \A k \in TillKeys :
          /\ SoldFor(k) # {} => \E n \in DOMAIN sales : KeyOf(n) = k
          /\ SoldFor(k) = {} => Receipt[k] = "UNSOLD" /\ Cash[k] = 0
    /\ DOMAIN Receipt = TillKeys /\ DOMAIN Cash = TillKeys
    /\ Receipt = [k \in TillKeys |-> Receipt[k]] /\ Cash = [k \in TillKeys |-> Cash[k]]

LEMMA KeysSoldOnce == CounterInv => KeysSold
  <1> SUFFICES ASSUME CounterInv PROVE KeysSold
    OBVIOUS
  <1>1. Shapes /\ KeysInv /\ OneSale
    BY DEF CounterInv
  <1>2. ASSUME NEW n \in DOMAIN sales
        PROVE  /\ KeyOf(n) \in TillKeys /\ SoldFor(KeyOf(n)) = {n}
               /\ sales[n].status \in {"COMPLETED", "CANCELLED"}
    <2>1. sales[n] \in SaleRow
      BY <1>1, ElementOfSeq DEF Shapes
    <2>2. sales[n].key \in 1..MaxKeys /\ sales[n].till \in Tills
      BY <1>1, <2>1 DEF KeysInv, SaleRow
    <2>3. \A m \in DOMAIN sales : KeyOf(m) = KeyOf(n) => m = n
      BY <1>1 DEF OneSale, KeyOf
    <2>4. SoldFor(KeyOf(n)) = {m \in DOMAIN sales : KeyOf(m) = KeyOf(n)}
      BY DEF SoldFor, KeyOf
    <2>5. KeyOf(n) \in TillKeys
      BY <2>2 DEF TillKeys, KeyOf
    <2>6. SoldFor(KeyOf(n)) = {n}
      BY ONLY <2>3, <2>4, n \in DOMAIN sales
    <2>7. sales[n].status \in {"COMPLETED", "CANCELLED"}
      BY <2>1 DEF SaleRow
    <2> QED
      BY <2>5, <2>6, <2>7
  <1>3. ASSUME NEW n \in DOMAIN sales
        PROVE  NetCharged(n) \in Nat
    <2>1. Ledger(n)
      BY SaleLedger DEF Ledgers
    <2> QED
      BY <2>1 DEF Ledger
  <1>4. ASSUME NEW n \in DOMAIN sales
        PROVE  Receipt[KeyOf(n)] = sales[n].status /\ Cash[KeyOf(n)] = NetCharged(n)
    <2> DEFINE k == KeyOf(n)
               f == [m \in SoldFor(k) |-> NetCharged(m)]
    <2>1. k \in TillKeys /\ SoldFor(k) = {n}
      BY <1>2
    <2> HIDE DEF k
    <2>2. Receipt[k] = sales[Min(SoldFor(k))].status /\ Cash[k] = SumFunctionOnSet(f, SoldFor(k))
      BY <2>1 DEF Receipt, Cash, SumFunction
    <2>3. Min({n}) = n
      <3>1. n \in Nat
        BY <1>1, LenProperties DEF Shapes
      <3> QED
        BY <3>1 DEF Min
    <2>4. f[n] = NetCharged(n)
      BY <2>1
    <2> HIDE DEF f
    <2>5. SumFunctionOnSet(f, {n}) = NetCharged(n)
      <3>1. f[n] \in Int
        BY <1>3, <2>4
      <3> QED
        BY ONLY <2>4, <3>1, SumOfOne
    <2> QED
      BY <2>1, <2>2, <2>3, <2>5 DEF k
  <1>5. ASSUME NEW k \in TillKeys, SoldFor(k) = {}
        PROVE  Receipt[k] = "UNSOLD" /\ Cash[k] = 0
    <2>1. Receipt[k] = "UNSOLD"
      BY <1>5 DEF Receipt
    <2> DEFINE f == [m \in SoldFor(k) |-> NetCharged(m)]
    <2>2. Cash[k] = SumFunctionOnSet(f, SoldFor(k))
      BY DEF Cash, SumFunction
    <2> HIDE DEF f
    <2> QED
      BY <1>5, <2>1, <2>2, SumOnNothing
  <1>6. ASSUME NEW k \in TillKeys, SoldFor(k) # {}
        PROVE  \E n \in DOMAIN sales : KeyOf(n) = k
    BY <1>6 DEF SoldFor, KeyOf
  <1>7. /\ DOMAIN Receipt = TillKeys /\ DOMAIN Cash = TillKeys
        /\ Receipt = [k \in TillKeys |-> Receipt[k]] /\ Cash = [k \in TillKeys |-> Cash[k]]
    BY DEF Receipt, Cash
  <1> QED
    BY <1>2, <1>3, <1>4, <1>5, <1>6, <1>7 DEF KeysSold


LEMMA CashStays ==
    ASSUME CounterInv, CounterInv', NEW n \in DOMAIN sales, n \in DOMAIN sales',
           sales'[n].status = sales[n].status,
           DOMAIN payments \subseteq DOMAIN payments',
           \A p \in DOMAIN payments : payments'[p] = payments[p],
           \A p \in DOMAIN payments' \ DOMAIN payments :
               payments'[p].sale # n \/ payments'[p].kind \notin {"CHARGE"}
    PROVE  NetCharged(n)' = NetCharged(n)
  <1>1. Ledger(n) /\ Ledger(n)'
    <2>1. Ledgers /\ Ledgers'
      BY SaleLedger, PTL
    <2> QED
      BY <2>1 DEF Ledgers
  <1>2. Amounts(OriginalsOf(n, {"CHARGE"}))' = Amounts(OriginalsOf(n, {"CHARGE"}))
    BY PaidStays
  <1>3. CASE sales[n].status = "CANCELLED"
    BY <1>1, <1>3 DEF Ledger
  <1>4. CASE sales[n].status # "CANCELLED"
    BY <1>1, <1>2, <1>4 DEF Ledger
  <1> QED
    BY <1>3, <1>4

\* A key stays as it is when no sale of it is made, taken back or paid for.
LEMMA KeyStays ==
    ASSUME KeysSold, KeysSold', NEW k \in TillKeys, DOMAIN sales \subseteq DOMAIN sales',
           \A n \in DOMAIN sales : KeyOf(n)' = KeyOf(n),
           \A n \in DOMAIN sales' : KeyOf(n)' = k =>
               /\ n \in DOMAIN sales /\ sales'[n].status = sales[n].status
               /\ NetCharged(n)' = NetCharged(n)
    PROVE  Receipt'[k] = Receipt[k] /\ Cash'[k] = Cash[k]
  <1>1. CASE \E n \in DOMAIN sales : KeyOf(n) = k
    <2>1. PICK n \in DOMAIN sales : KeyOf(n) = k
      BY <1>1
    <2>2. n \in DOMAIN sales' /\ KeyOf(n)' = k
      BY <2>1
    <2>3. Receipt[k] = sales[n].status /\ Cash[k] = NetCharged(n)
      BY <2>1 DEF KeysSold
    <2>4. Receipt'[k] = sales'[n].status /\ Cash'[k] = NetCharged(n)'
      BY <2>2 DEF KeysSold
    <2> QED
      BY <2>2, <2>3, <2>4
  <1>2. CASE ~\E n \in DOMAIN sales : KeyOf(n) = k
    <2>1. ~\E n \in DOMAIN sales' : KeyOf(n)' = k
      BY <1>2
    <2>2. Receipt[k] = "UNSOLD" /\ Cash[k] = 0
      BY <1>2 DEF KeysSold
    <2>3. Receipt'[k] = "UNSOLD" /\ Cash'[k] = 0
      BY <2>1 DEF KeysSold
    <2> QED
      BY <2>2, <2>3
  <1> QED
    BY <1>1, <1>2

LEMMA OneKeyChanges ==
    ASSUME KeysSold, KeysSold', NEW k \in TillKeys,
           \A j \in TillKeys \ {k} : Receipt'[j] = Receipt[j] /\ Cash'[j] = Cash[j]
    PROVE  /\ Receipt' = [Receipt EXCEPT ![k] = Receipt'[k]]
           /\ Cash' = [Cash EXCEPT ![k] = Cash'[k]]
  <1>1. /\ DOMAIN Receipt = TillKeys /\ DOMAIN Cash = TillKeys
        /\ Receipt' = [j \in TillKeys |-> Receipt'[j]] /\ Cash' = [j \in TillKeys |-> Cash'[j]]
    BY DEF KeysSold, TillKeys
  <1> QED
    BY <1>1

\* What Checkout sees of the coupons.
VouchersShown ==
    /\ Voucher = [c \in Coupons |-> Voucher[c]]
    /\ \A c \in Coupons : /\ coupons[c] = "AVAILABLE" => Voucher[c] = "AVAILABLE"
                          /\ coupons[c] = "CANCELLED" => Voucher[c] = "WITHDRAWN"
                          /\ coupons[c] = "USED" => Voucher[c] = "SPENT"

LEMMA Shown == VouchersShown
  <1>1. Voucher = [c \in Coupons |-> Voucher[c]]
    BY DEF Voucher
  <1>2. /\ VoucherOf("AVAILABLE") = "AVAILABLE" /\ VoucherOf("CANCELLED") = "WITHDRAWN"
        /\ VoucherOf("USED") = "SPENT"
    BY DEF VoucherOf
  <1>3. \A c \in Coupons : Voucher[c] = VoucherOf(coupons[c])
    BY DEF Voucher
  <1> QED
    BY <1>1, <1>2, <1>3 DEF VouchersShown

\* A coupon whose row stays is still shown the same.
LEMMA VoucherStays ==
    ASSUME NEW c \in Coupons, coupons'[c] = coupons[c]
    PROVE  Voucher'[c] = Voucher[c]
  BY DEF Voucher

LEMMA SaleSells ==
    ASSUME CounterInv, CounterInv', KeysSold, KeysSold', NEW r \in Reqs, CommitSale(r)
    PROVE  Counter!Next
  <1>0. Shapes /\ KeysInv /\ OrdersInv /\ RefundsInv
    BY DEF CounterInv
  <1>1. PICK m, quote, served, key, paid : Sells(r, m, quote, served, key, paid)
    BY <1>0, Selling
  <1> DEFINE k == <<req[r].till, req[r].key>>
  <1>2. /\ m \notin DOMAIN sales /\ DOMAIN sales' = DOMAIN sales \cup {m}
        /\ \A n \in DOMAIN sales : sales'[n] = sales[n]
        /\ sales'[m].till = req[r].till /\ sales'[m].key = req[r].key
        /\ sales'[m].status = "COMPLETED"
    BY <1>0, <1>1, SellingRows
  <1>3. KeyOf(m)' = k
    BY <1>2 DEF KeyOf
  <1>4. \A n \in DOMAIN sales : KeyOf(n)' = KeyOf(n)
    BY <1>2 DEF KeyOf
  <1>5. k \in TillKeys /\ \A n \in DOMAIN sales : KeyOf(n) # k
    <2>1. \A n \in DOMAIN sales : ~(sales[n].till = req[r].till /\ sales[n].key = req[r].key)
      BY <1>1 DEF Sells, SaleOf
    <2>2. \A n \in DOMAIN sales : KeyOf(n) # k
      BY <2>1 DEF KeyOf
    <2>3. req[r].till \in Tills /\ req[r].key \in 1..MaxKeys
      BY <1>0, <1>1 DEF Sells, KeysInv, Shapes, Request
    <2> QED
      BY <2>2, <2>3 DEF TillKeys
  <1> HIDE DEF k
  <1>6. Receipt[k] = "UNSOLD" /\ Receipt'[k] = "COMPLETED" /\ Cash'[k] \in Nat
    <2>1. Receipt[k] = "UNSOLD"
      BY ZenonT(60), <1>5 DEF KeysSold
    <2>2. Receipt'[k] = sales'[m].status /\ Cash'[k] = NetCharged(m)' /\ NetCharged(m)' \in Nat
      BY <1>2, <1>3, <1>5 DEF KeysSold
    <2> QED
      BY <1>2, <2>1, <2>2
  <1>7. ASSUME NEW n \in DOMAIN sales
        PROVE  NetCharged(n)' = NetCharged(n)
    <2>1. /\ DOMAIN payments \subseteq DOMAIN payments'
          /\ \A p \in DOMAIN payments : payments'[p] = payments[p]
          /\ \A p \in DOMAIN payments' \ DOMAIN payments : payments'[p].sale = m
      <3>1. /\ DOMAIN payments \subseteq DOMAIN payments'
            /\ \A p \in DOMAIN payments : payments'[p] = payments[p]
            /\ \A p \in DOMAIN payments' \ DOMAIN payments :
                   IsDiscount(payments'[p], m, quote) \/ IsCharge(payments'[p], m, quote)
        BY <1>0, <1>1, SoldRows
      <3> QED
        BY <3>1 DEF IsDiscount, IsCharge
    <2>2. m # n /\ n \in DOMAIN sales' /\ sales'[n].status = sales[n].status
      BY <1>2
    <2> QED
      BY <2>1, <2>2, CashStays
  <1>8. ASSUME NEW j \in TillKeys \ {k}
        PROVE  Receipt'[j] = Receipt[j] /\ Cash'[j] = Cash[j]
    BY <1>2, <1>3, <1>4, <1>7, KeyStays
  <1>9. /\ Receipt' = [Receipt EXCEPT ![k] = Receipt'[k]]
        /\ Cash' = [Cash EXCEPT ![k] = Cash'[k]]
    BY <1>5, <1>8, OneKeyChanges
  <1>10. /\ quote.coupon \in Coupons \cup {NoCoupon}
         /\ quote.coupon # NoCoupon => coupons[quote.coupon] = "AVAILABLE"
         /\ coupons' = [c \in Coupons |-> IF c = quote.coupon THEN "USED" ELSE coupons[c]]
    BY <1>1 DEF Sells, WellQuoted, Quote
  <1>11. Voucher' = [c \in Coupons |-> IF c = quote.coupon THEN "SPENT" ELSE Voucher[c]]
    <2>1. VouchersShown'
      BY Shown, PTL
    <2>2. ASSUME NEW c \in Coupons
          PROVE  Voucher'[c] = IF c = quote.coupon THEN "SPENT" ELSE Voucher[c]
      <3>1. CASE c = quote.coupon
        <4>1. coupons'[c] = "USED"
          BY <1>10, <3>1
        <4> QED
          BY <2>1, <3>1, <4>1 DEF VouchersShown
      <3>2. CASE c # quote.coupon
        <4>1. coupons'[c] = coupons[c]
          BY <1>10, <3>2
        <4> QED
          BY <3>2, <4>1, VoucherStays
      <3> QED
        BY <3>1, <3>2
    <2>3. Voucher' = [c \in Coupons |-> Voucher'[c]]
      BY <2>1 DEF VouchersShown
    <2> QED
      BY <2>2, <2>3
  <1>12. quote.coupon # NoCoupon => Voucher[quote.coupon] = "AVAILABLE"
    BY <1>10, Shown DEF VouchersShown
  <1>13. Counter!Sell(k, quote.coupon)
    BY <1>6, <1>9, <1>11, <1>12 DEF Counter!Sell
  <1> QED
    BY <1>5, <1>10, <1>13 DEF Counter!Next

LEMMA CancellationTakesBack ==
    ASSUME CounterInv, CounterInv', KeysSold, KeysSold', NEW m \in DOMAIN sales, CancelSale(m)
    PROVE  Counter!Next
  <1>0. Shapes
    BY DEF CounterInv
  <1>1. PICK list, refunds : GivesBack(m, list, refunds)
    BY <1>0, TakingBack
  <1> DEFINE k == KeyOf(m)
  <1>2. /\ DOMAIN sales' = DOMAIN sales
        /\ \A n \in DOMAIN sales : /\ sales'[n].till = sales[n].till
                                   /\ sales'[n].key = sales[n].key
                                   /\ n # m => sales'[n] = sales[n]
        /\ sales'[m].status = "CANCELLED" /\ sales[m].status = "COMPLETED"
    <2>1. /\ DOMAIN sales' = DOMAIN sales
          /\ \A n \in DOMAIN sales : /\ sales'[n].till = sales[n].till
                                     /\ sales'[n].key = sales[n].key
                                     /\ n # m => sales'[n] = sales[n]
          /\ sales'[m].status = "CANCELLED"
      BY <1>0, <1>1, TakingBackRows
    <2> QED
      BY <1>1, <2>1 DEF GivesBack
  <1>3. \A n \in DOMAIN sales : KeyOf(n)' = KeyOf(n)
    BY <1>2 DEF KeyOf
  <1>4. k \in TillKeys /\ KeyOf(m) = k
    BY DEF KeysSold
  <1> HIDE DEF k
  <1>5. Receipt[k] = "COMPLETED" /\ Receipt'[k] = "CANCELLED" /\ Cash'[k] = 0
    <2>1. Receipt[k] = "COMPLETED"
      BY <1>2, <1>4 DEF KeysSold
    <2>2. Receipt'[k] = sales'[m].status /\ Cash'[k] = NetCharged(m)'
      BY <1>2, <1>3, <1>4 DEF KeysSold
    <2>3. NetCharged(m)' = 0
      <3>1. Ledgers'
        BY SaleLedger, PTL
      <3> QED
        BY <1>2, <3>1 DEF Ledgers, Ledger
    <2> QED
      BY <1>2, <2>1, <2>2, <2>3
  <1>6. ASSUME NEW n \in DOMAIN sales, n # m
        PROVE  NetCharged(n)' = NetCharged(n)
    <2>1. /\ DOMAIN payments \subseteq DOMAIN payments'
          /\ \A p \in DOMAIN payments : payments'[p] = payments[p]
          /\ \A p \in DOMAIN payments' \ DOMAIN payments : payments'[p].kind = "REFUND"
      BY <1>0, <1>1, RefundedRows
    <2>2. \A p \in DOMAIN payments' \ DOMAIN payments : payments'[p].kind \notin {"CHARGE"}
      BY <2>1
    <2>3. n \in DOMAIN sales' /\ sales'[n].status = sales[n].status
      BY <1>2, <1>6
    <2> QED
      BY <2>1, <2>2, <2>3, CashStays
  <1>7. ASSUME NEW j \in TillKeys \ {k}
        PROVE  Receipt'[j] = Receipt[j] /\ Cash'[j] = Cash[j]
    BY ZenonT(60), <1>2, <1>3, <1>4, <1>6, KeyStays
  <1>8. /\ Receipt' = [Receipt EXCEPT ![k] = Receipt'[k]]
        /\ Cash' = [Cash EXCEPT ![k] = Cash'[k]]
    BY <1>4, <1>7, OneKeyChanges
  <1>9. UNCHANGED Voucher
    BY <1>1 DEF GivesBack, Voucher
  <1>10. Counter!TakeBack(k)
    BY <1>5, <1>8, <1>9 DEF Counter!TakeBack
  <1> QED
    BY <1>4, <1>10 DEF Counter!Next

LEMMA BooksNotTouched ==
    ASSUME UNCHANGED <<sales, payments>>
    PROVE  UNCHANGED <<Receipt, Cash>>
  BY DEF Receipt, Cash, SoldFor, NetCharged, NetOf, Amounts, RowsOf

LEMMA CouponWithdrawn ==
    ASSUME Shapes, NEW c \in Coupons, CancelCoupon(c)
    PROVE  Counter!Next
  <1>1. /\ coupons[c] = "AVAILABLE" /\ coupons' = [coupons EXCEPT ![c] = "CANCELLED"]
        /\ UNCHANGED <<sales, payments>>
    BY DEF CancelCoupon
  <1>2. DOMAIN coupons = Coupons
    BY DEF Shapes
  <1>3. Voucher[c] = "AVAILABLE" /\ Voucher' = [Voucher EXCEPT ![c] = "WITHDRAWN"]
    <2>1. VouchersShown /\ VouchersShown'
      BY Shown, PTL
    <2>2. Voucher[c] = "AVAILABLE" /\ Voucher'[c] = "WITHDRAWN"
      BY <1>1, <1>2, <2>1 DEF VouchersShown
    <2>3. \A d \in Coupons \ {c} : Voucher'[d] = Voucher[d]
      BY <1>1, <1>2, VoucherStays
    <2>4. /\ Voucher = [d \in Coupons |-> Voucher[d]]
          /\ Voucher' = [d \in Coupons |-> Voucher'[d]]
      BY <2>1 DEF VouchersShown
    <2> QED
      BY <2>2, <2>3, <2>4
  <1>4. Counter!Withdraw(c)
    BY <1>1, <1>3, BooksNotTouched DEF Counter!Withdraw
  <1> QED
    BY <1>4 DEF Counter!Next

\* Whatever is resent, refused, cooked or taken back, each step is a sale, a cancellation
\* or a withdrawal of Checkout, or none of its business.
THEOREM ImplementsCheckoutHolds == Spec => ImplementsCheckout
  <1>1. Init => Counter!Init
    <2> SUFFICES ASSUME Init PROVE Counter!Init
      OBVIOUS
    <2>1. sales = << >> /\ coupons = [c \in Coupons |-> "AVAILABLE"] /\ CounterInv
      BY CounterBegins DEF Init
    <2>2. KeysSold /\ DOMAIN sales = {}
      BY <2>1, KeysSoldOnce
    <2>3. \A k \in TillKeys : SoldFor(k) = {}
      BY <2>2 DEF SoldFor
    <2>4. \A k \in TillKeys : Receipt[k] = "UNSOLD" /\ Cash[k] = 0
      BY <2>2, <2>3 DEF KeysSold
    <2>5. Receipt = [k \in TillKeys |-> "UNSOLD"] /\ Cash = [k \in TillKeys |-> 0]
      BY <2>2, <2>4 DEF KeysSold
    <2>6. Voucher = [c \in Coupons |-> "AVAILABLE"]
      <3>1. \A c \in Coupons : Voucher[c] = "AVAILABLE"
        BY <2>1, Shown DEF VouchersShown
      <3> QED
        BY <3>1, Shown DEF VouchersShown
    <2> QED
      BY <2>5, <2>6 DEF Counter!Init
  <1>2. ASSUME CounterInv, CounterInv', [Next]_vars
        PROVE  [Counter!Next]_<<Receipt, Cash, Voucher>>
    <2>1. KeysSold /\ KeysSold'
      BY <1>2, KeysSoldOnce, PTL
    <2>2. Shapes /\ orders \in Seq(OrderRow)
      BY <1>2 DEF CounterInv, Shapes
    <2>3. UNCHANGED <<sales, payments, coupons>> => UNCHANGED <<Receipt, Cash, Voucher>>
      BY BooksNotTouched DEF Voucher
    <2>4. KitchenStep => UNCHANGED <<sales, payments, coupons>>
      BY <2>2, KitchenRows
    <2>5. UNCHANGED books => UNCHANGED <<sales, payments, coupons>>
      BY DEF books
    <2>6. (\E r \in Reqs : CommitSale(r)) => Counter!Next
      BY <1>2, <2>1, SaleSells
    <2>7. (\E m \in DOMAIN sales : CancelSale(m)) => Counter!Next
      BY <1>2, <2>1, CancellationTakesBack
    <2>8. (\E c \in Coupons : CancelCoupon(c)) => Counter!Next
      BY <2>2, CouponWithdrawn
    <2>9. Counter!Next \/ UNCHANGED <<sales, payments, coupons>>
      BY <1>2, <2>2, <2>4, <2>5, <2>6, <2>7, <2>8, StepCases, Zenon
    <2> QED
      BY <2>3, <2>9
  <1> QED
    BY <1>1, <1>2, Invariant, PTL DEF Spec, ImplementsCheckout, Counter!Spec
=============================================================================
