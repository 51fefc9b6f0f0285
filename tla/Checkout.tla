------------------------------ MODULE Checkout -------------------------------
(***************************************************************************)
(* What paying at the counter promises, whatever the network, the other    *)
(* tills and the kitchen do: an idempotency key buys at most one sale, a   *)
(* coupon is spent on at most one sale, and a sale that is taken back      *)
(* leaves none of its money in the drawer while its coupon stays spent.    *)
(***************************************************************************)
EXTENDS Naturals

CONSTANTS Keys, Coupons, NoCoupon

VARIABLES
    receipt,   \* key: UNSOLD, COMPLETED or CANCELLED
    cash,      \* key: the money kept for it
    voucher    \* coupon: AVAILABLE, WITHDRAWN by the administrator, or SPENT

Init ==
    /\ receipt = [k \in Keys |-> "UNSOLD"]
    /\ cash = [k \in Keys |-> 0]
    /\ voucher = [c \in Coupons |-> "AVAILABLE"]

\* Any amount may be taken, nothing included: a coupon can pay for everything.
Sell(k, c) ==
    /\ receipt[k] = "UNSOLD"
    /\ receipt' = [receipt EXCEPT ![k] = "COMPLETED"]
    /\ cash'[k] \in Nat
    /\ cash' = [cash EXCEPT ![k] = cash'[k]]
    /\ c # NoCoupon => voucher[c] = "AVAILABLE"
    /\ voucher' = [d \in Coupons |-> IF d = c THEN "SPENT" ELSE voucher[d]]

TakeBack(k) ==
    /\ receipt[k] = "COMPLETED"
    /\ receipt' = [receipt EXCEPT ![k] = "CANCELLED"]
    /\ cash' = [cash EXCEPT ![k] = 0]
    /\ UNCHANGED voucher

Withdraw(c) ==
    /\ voucher[c] = "AVAILABLE"
    /\ voucher' = [voucher EXCEPT ![c] = "WITHDRAWN"]
    /\ UNCHANGED <<receipt, cash>>

Next ==
    \/ \E k \in Keys :
          \/ \E c \in Coupons \cup {NoCoupon} : Sell(k, c)
          \/ TakeBack(k)
    \/ \E c \in Coupons : Withdraw(c)

Spec == Init /\ [][Next]_<<receipt, cash, voucher>>
=============================================================================
