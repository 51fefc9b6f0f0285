----------------------------- MODULE Reporting ------------------------------
(***************************************************************************)
(* computeRevenueSummary and computeClosingPreview as pure operators over  *)
(* a set of payment rows.  A row is dated; a reversal names its original,  *)
(* which may be dated outside the window that is being added up.           *)
(***************************************************************************)
EXTENDS Integers, FiniteSetsExt

Reversals == {"VOID", "REFUND"}
CouponMethod == "COUPON"     \* COUPON_DISCOUNT_METHOD
CashMethods == {"CASH"}      \* PaymentMethod rows with isCash

InWindow(rows, from, until) == {p \in rows : from <= p.at /\ p.at <= until}

\* The row a reversal takes back, read by its id whatever its date.
Original(rows, p) ==
    IF p.kind \in Reversals THEN CHOOSE q \in rows : q.id = p.of ELSE p

\* Fault: a reversal is told from its own kind, never from its original.
IsDiscountByKind(rows, p) == p.kind = "DISCOUNT"

IsDiscount(rows, p) == Original(rows, p).kind = "DISCOUNT"

Signed(p) == IF p.kind \in Reversals THEN -p.amount ELSE p.amount
Net(S) == SumFunction([p \in S |-> Signed(p)])
Total(S) == SumFunction([p \in S |-> p.amount])

\* The rows of a window that move money, and those that waive it.
Takings(rows, w) == {p \in w : ~IsDiscount(rows, p)}
Waived(rows, w) == {p \in w : IsDiscount(rows, p)}
ByCoupon(rows, w) ==
    {p \in Waived(rows, w) : Original(rows, p).method = CouponMethod}

\* The payment side of the summary.
Summary(rows, from, until) ==
    LET w == InWindow(rows, from, until)
        takings == Takings(rows, w) IN
    [charged  |-> Total({p \in takings : p.kind = "CHARGE"}),
     refunded |-> Total({p \in takings : p.kind \in Reversals}),
     byMethod |-> [m \in {p.method : p \in takings} |-> Net({p \in takings : p.method = m})],
     counter  |-> Net({p \in takings : p.channel = "COUNTER"}),
     table    |-> Net({p \in takings : p.channel = "TABLE"}),
     coupon   |-> Net(ByCoupon(rows, w)),
     manual   |-> Net(Waived(rows, w) \ ByCoupon(rows, w))]

Revenue(s) == s.charged - s.refunded

ExpectedCash(s) ==
    SumFunctionOnSet(s.byMethod, DOMAIN s.byMethod \cap CashMethods)

\* What the allocations of the window give to menu items, read on its own.
MenuPaid(rows, from, until) ==
    Net({p \in Takings(rows, InWindow(rows, from, until)) : p.allocated})

\* The coupon side: redemptions by the time of use, the cancelled ones for nothing.
CouponGiven(redemptions, from, until) ==
    Total({d \in InWindow(redemptions, from, until) : ~d.cancelled})
=============================================================================
