-------------------------- MODULE CounterSaleProps ---------------------------
(***************************************************************************)
(* What paying at the counter promises the customer, the cashier and the   *)
(* books; CounterSale is also shown to implement Checkout.                 *)
(***************************************************************************)
EXTENDS CounterSale

Line == [item : Items, price : Nat]
Order == [cart : Seq(Items), coupon : Coupons \cup {NoCoupon}, target : Nat]
Body == [cart : Seq(Items), coupon : Coupons \cup {NoCoupon}, target : Nat,
         method : BOOLEAN]
Quote == [lines : Seq(Line), coupon : Coupons \cup {NoCoupon},
          discount : Nat, discounts : Seq(Nat)]
Till == [order : Order, key : Nat, quote : Quote, quoting : BOOLEAN,
         quoteError : BOOLEAN, waiting : Reqs \cup {NoReq}, recoverHint : BOOLEAN]
Request == [pc : {"idle", "received", "confirming"}, till : Tills, key : Nat,
            body : Body, quote : Quote]
Settings == [orderingEnabled : BOOLEAN, paymentsEnabled : BOOLEAN, methodActive : BOOLEAN]
SaleRow == [till : Tills, key : Nat, body : Body, status : {"COMPLETED", "CANCELLED"}]
PaymentKinds == {"CHARGE", "DISCOUNT", "REFUND"}

\* The type invariant: the rows, tills and requests have their shapes, and a row
\* refers to rows that exist.
TypeOK ==
    /\ \A i \in Items : menu[i] \in [price : Prices[i], soldOut : BOOLEAN]
    /\ settings \in Settings
    /\ coupons \in [Coupons -> {"AVAILABLE", "USED", "CANCELLED"}]
    /\ expired \subseteq Coupons
    /\ sales \in Seq(SaleRow)
    /\ \A o \in DOMAIN orders :
          /\ orders[o].sale \in DOMAIN sales
          /\ orders[o].status \in ActiveOrderStatuses \cup NotCharged \cup {"SERVED"}
          /\ \A l \in DOMAIN orders[o].lines : orders[o].lines[l] \in Line
          /\ orders[o].live \subseteq DOMAIN orders[o].lines
    /\ \A p \in DOMAIN payments :
          /\ payments[p].sale \in DOMAIN sales
          /\ payments[p].kind \in PaymentKinds
          /\ payments[p].amount \in Nat
          /\ payments[p].coupon \in Coupons \cup {NoCoupon}
          /\ payments[p].reversedPaymentId \in {0} \cup DOMAIN payments
    /\ redemptions \in [Coupons -> [sale : Nat, status : {"NONE", "LIVE", "CANCELLED"}]]
    /\ till \in [Tills -> Till]
    /\ req \in [Reqs -> Request]

-----------------------------------------------------------------------------
(* Paying                                                                  *)

\* However prices, sold-out flags and coupons change between the quote and the
\* payment, a sale is made for the lines, the discount and the total that the
\* till showed when its cashier confirmed, and books exactly that.
SoldAsShown ==
    [][\A n \in DOMAIN sales' \ DOMAIN sales : \E r \in Reqs :
          /\ sales'[n].till = req[r].till /\ sales'[n].key = req[r].key
          /\ OrderAmount(n)' = Subtotal(req[r].quote)
          /\ DiscountAmount(n)' = req[r].quote.discount
          /\ NetCharged(n)' = TotalAmount(req[r].quote)]_vars

\* A used coupon bought exactly one discount of a sale, greater than nothing, and
\* its redemption is live as long as that discount has not been taken back.
CouponBuysOneDiscount ==
    \A c \in Coupons :
        LET bought == {p \in DOMAIN payments : payments[p].coupon = c}
        IN  /\ coupons[c] # "USED" => bought = {} /\ redemptions[c].status = "NONE"
            /\ coupons[c] = "USED" => \E p \in bought :
                  /\ bought = {p}
                  /\ payments[p].kind = "DISCOUNT" /\ payments[p].amount > 0
                  /\ redemptions[c].sale = payments[p].sale
                  /\ redemptions[c].status = IF Reversed(p) THEN "CANCELLED" ELSE "LIVE"

\* Per line, the discount and the money allocated to it make up its price, and
\* the allocations of a payment add up to its amount: no won is lost to rounding.
AllocationsAddUp ==
    /\ \A p \in DOMAIN payments : SumOf(payments[p].allocations) = payments[p].amount
    /\ \A o \in DOMAIN orders : \A l \in DOMAIN orders[o].lines :
          LET shares == {p \in RowsOf(payments, orders[o].sale) :
                            /\ payments[p].kind \in Originals
                            /\ l \in DOMAIN payments[p].allocations}
          IN  SumFunction([p \in shares |-> payments[p].allocations[l]])
              = LineTotal(orders[o].lines[l])

-----------------------------------------------------------------------------
(* Afterwards                                                              *)

\* Counter sales are paid in advance: a completed sale never owes anything, and
\* is owed something only when the kitchen rejected or cancelled part of it.
PaidInAdvance ==
    \A n \in DOMAIN sales : sales[n].status = "COMPLETED" =>
        /\ RemainingAmount(n) <= 0
        /\ RemainingAmount(n) < 0 =>
              \E o \in RowsOf(orders, n) :
                 \/ orders[o].status \in NotCharged
                 \/ orders[o].live # DOMAIN orders[o].lines

\* A sale taken back is settled for good: it keeps no money and no discount, each
\* of its payments was refunded once, and nothing of it is left to serve.
CancelledSaleSettled ==
    \A n \in DOMAIN sales : sales[n].status = "CANCELLED" =>
        /\ RemainingAmount(n) = 0 /\ NetCharged(n) = 0 /\ DiscountAmount(n) = 0
        /\ \A p \in RowsOf(payments, n) : payments[p].kind \in Originals =>
              Cardinality({q \in DOMAIN payments : payments[q].reversedPaymentId = p}) = 1
        /\ \A o \in RowsOf(orders, n) : orders[o].status = "CANCELLED"

\* "Refund needed" disappears from a sale only when the refund is recorded, never
\* because of what the kitchen does next.
RefundOwedUntilRecorded ==
    [][\A n \in DOMAIN sales : RefundNeeded(n) /\ ~RefundNeeded(n)' =>
          \A p \in RowsOf(payments, n) : payments[p].kind \in Originals => Reversed(p)']_vars

-----------------------------------------------------------------------------
(* Checkout                                                                *)

TillKeys == Tills \X (1..MaxKeys)

SoldFor(k) == {n \in DOMAIN sales : <<sales[n].till, sales[n].key>> = k}

Receipt ==
    [k \in TillKeys |->
        IF SoldFor(k) = {} THEN "UNSOLD" ELSE sales[Min(SoldFor(k))].status]

Cash == [k \in TillKeys |-> SumFunction([n \in SoldFor(k) |-> NetCharged(n)])]

VoucherOf(status) == CASE status = "AVAILABLE" -> "AVAILABLE"
                       [] status = "CANCELLED" -> "WITHDRAWN"
                       [] status = "USED"      -> "SPENT"

Voucher == [c \in Coupons |-> VoucherOf(coupons[c])]

Counter == INSTANCE Checkout WITH Keys <- TillKeys, receipt <- Receipt, cash <- Cash, voucher <- Voucher

\* The refinement: whatever is resent, refused, cooked or taken back, each step is
\* a sale, a cancellation or a withdrawal of Checkout, or none of its business.
ImplementsCheckout == Counter!Spec
=============================================================================
