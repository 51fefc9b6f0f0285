------------------------------- MODULE Billing -------------------------------
(***************************************************************************)
(* The table bill of services/billing.ts as pure operators over the rows   *)
(* of the order and payment tables.  An order row carries the lines it was *)
(* placed with and the set of those lines that are not cancelled.  Payment *)
(* rows are append-only; a reversal names the row it reverses by its index.*)
(***************************************************************************)
EXTENDS Integers, Sequences, FiniteSetsExt

CONSTANTS
    Items,        \* an order line as ordered: menu item, chosen options, quantity
    UnitPrice,    \* its price without options
    Extra,        \* the price of its options, per unit
    Quantity      \* the number of units ordered

ASSUME ItemAssumption ==
    /\ UnitPrice \in [Items -> Nat]
    /\ Extra \in [Items -> Nat]
    /\ Quantity \in [Items -> Nat \ {0}]

\* Unserved work (ACTIVE_ORDER_STATUSES) and the orders a bill leaves out.
ActiveOrderStatuses == {"NEW", "ACCEPTED", "PREPARING", "READY"}
NotCharged == {"CANCELLED", "REJECTED"}
OrderStatuses == ActiveOrderStatuses \cup {"SERVED"} \cup NotCharged

Originals == {"CHARGE", "DISCOUNT"}
Reversals == {"VOID", "REFUND"}

UnitAmount(i) == UnitPrice[i] + Extra[i]
LineAmount(i) == UnitAmount(i) * Quantity[i]

RowsOf(rows, s) == {n \in DOMAIN rows : rows[n].session = s}

(***************************************************************************)
(* computeBill                                                             *)
(***************************************************************************)
OrderAmount(o) ==
    IF o.status \in NotCharged THEN 0
    ELSE SumFunction([l \in o.live |-> LineAmount(o.lines[l])])

TotalAmount(orders, s) ==
    SumFunction([n \in RowsOf(orders, s) |-> OrderAmount(orders[n])])

\* The kind of the row whose amount a row adds to or takes back.
Axis(payments, n) ==
    IF payments[n].kind \in Originals THEN payments[n].kind
    ELSE payments[payments[n].reversedPaymentId].kind

Signed(payments, n) ==
    IF payments[n].kind \in Originals THEN payments[n].amount
    ELSE -payments[n].amount

SumOnAxis(payments, s, axis) ==
    SumFunction([n \in {m \in RowsOf(payments, s) : Axis(payments, m) = axis} |->
                    Signed(payments, n)])

ChargedAmount(payments, s) == SumOnAxis(payments, s, "CHARGE")
DiscountAmount(payments, s) == SumOnAxis(payments, s, "DISCOUNT")
PaidAmount(payments, s) == ChargedAmount(payments, s) + DiscountAmount(payments, s)

RemainingAmount(orders, payments, s) ==
    TotalAmount(orders, s) - PaidAmount(payments, s)

UnservedOrders(orders, s) ==
    {n \in RowsOf(orders, s) : orders[n].status \in ActiveOrderStatuses}

(***************************************************************************)
(* computeItemPaymentStatus: the units of line l of order n already paid.  *)
(***************************************************************************)
Allocated(payment, n, l) ==
    SumFunction([a \in {b \in payment.allocations : b.order = n /\ b.line = l} |-> a.quantity])

PaidQuantity(payments, n, l) ==
    SumFunction([p \in DOMAIN payments |->
                    IF payments[p].kind \in Originals THEN Allocated(payments[p], n, l)
                    ELSE -Allocated(payments[p], n, l)])

RemainingQuantity(orders, payments, n, l) ==
    Quantity[orders[n].lines[l]] - PaidQuantity(payments, n, l)
=============================================================================
