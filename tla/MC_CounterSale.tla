--------------------------- MODULE MC_CounterSale ----------------------------
(***************************************************************************)
(* Small instances of CounterSale for TLC.                                 *)
(***************************************************************************)
EXTENDS CounterSaleProps, TLC

CONSTANTS udon, spin

\* Udon with a paid option is cooked, two spins of the roulette are handed over.
MCItems == {udon, spin}
MCExtra == (udon :> 1) @@ (spin :> 0)
MCQuantity == (udon :> 1) @@ (spin :> 2)
MCServingMode == (udon :> "KITCHEN") @@ (spin :> "COUNTER")

\* Which price the administrator may change.
UdonChanges == (udon :> {0, 1}) @@ (spin :> {1})

\* What the cashier may put together: one cart to be sold once under every change,
\* one to be sold twice at a time.
Mixed == <<udon, spin>>
Spins == <<spin>>
MixedOrSpins == {Mixed, Spins}

\* The first coupon is worth an amount, any other one pays for an udon.
MCBenefit == [c \in Coupons |-> 1]
First == CHOOSE c \in Coupons : TRUE
MCTargets == [c \in Coupons |-> IF c = First THEN {} ELSE {udon}]

\* Everything on; sales switched off; the payment method deactivated.
SwitchedOff == {[orderingEnabled |-> b, paymentsEnabled |-> b, methodActive |-> c] :
                   b, c \in BOOLEAN} \ {[orderingEnabled |-> FALSE, paymentsEnabled |-> FALSE,
                                         methodActive |-> FALSE]}

\* Nothing but this cart is on the screens, in flight or sold.
Only(cart) ==
    /\ \A b \in {till[t].order : t \in Tills} \cup {req[r].body : r \in Reqs}
                 \cup {sales[n].body : n \in DOMAIN sales} : b.cart \in {<< >>, cart}
    /\ \A t \in Tills : Len(till[t].quote.lines) \in {0, Len(cart)}
    /\ \A r \in Reqs : Len(req[r].quote.lines) \in {0, Len(cart)}

\* Either one sale of the mixed cart is made, by one request at a time and without
\* restarts that a till waits through, while the administrator and time change
\* everything, ...
OneSale ==
    /\ Only(Mixed) /\ \A r \in Reqs : req[r].key <= 1
    /\ Cardinality({r \in Reqs : req[r].pc # "idle"}) <= 1
    /\ \A t \in Tills : till[t].waiting # NoReq => req[till[t].waiting].pc # "idle"
\* ... or two keys and two requests fight over spins and one coupon at steady prices.
TwoKeys ==
    /\ Only(Spins) /\ \A t \in Tills : till[t].order.coupon \in {First, NoCoupon}
    /\ menu = [i \in MCItems |-> [price |-> Min(Prices[i]), soldOut |-> FALSE]]
    /\ settings = [orderingEnabled |-> TRUE, paymentsEnabled |-> TRUE, methodActive |-> TRUE]
    /\ expired = {} /\ \A c \in Coupons \ {First} : coupons[c] = "AVAILABLE"
Stories == OneSale \/ TwoKeys

\* With the one sale made nothing else is sold: the till and the administrator rest,
\* and what follows is up to the kitchen and to the cashier who takes it back.
SoldAndLeftAlone == sales # << >> /\ ~TwoKeys => UNCHANGED <<admin, coupons, till, req>>

RequestSymmetry == Permutations(Reqs)
=============================================================================
