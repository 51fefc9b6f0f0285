---------------------------- MODULE CounterSale -----------------------------
(***************************************************************************)
(* Paying at the counter without a table: the till in the browser          *)
(* (CounterSalePage.tsx), confirmCounterSale on the server, and what       *)
(* happens to the sale afterwards in the kitchen and when it is taken back *)
(* (counterSale.ts, order.ts).                                             *)
(*                                                                         *)
(* A till sends a confirmation with the key, the cart and the quote it     *)
(* shows.  The answer may never reach it while the server goes on, and it  *)
(* then sends again under the same key; so several confirmations of one    *)
(* key can be in flight, each between its look-up of the key and its       *)
(* transaction.  A transaction is atomic (connection_limit=1, and          *)
(* withWriteConflictRetry runs the whole of it again).                     *)
(***************************************************************************)
EXTENDS Integers, Sequences, FiniteSetsExt

CONSTANTS
    Items,            \* a cart line: menu item, chosen options and quantity
    Extra, Quantity,  \* its options' price per unit, and its units
    ServingMode,      \* KITCHEN or COUNTER
    Prices,           \* the prices the administrator may give a menu item
    MaySellOut,       \* the items that may be marked sold out and back
    Carts,            \* the carts a cashier may compose
    Coupons, NoCoupon,
    Benefit, Targets, \* AMOUNT: its value; ITEM: the items it pays one unit of
    Perishable,       \* the coupons whose batch has an expiresAt
    Tills, Reqs, NoReq,
    Switches,         \* the values the administrator may give the settings
    MayCrash,         \* the process may be restarted
    MaxKeys           \* bound on the idempotency keys of a till

ASSUME CounterAssumption ==
    /\ Extra \in [Items -> Nat]
    /\ Quantity \in [Items -> Nat \ {0}]
    /\ ServingMode \in [Items -> {"KITCHEN", "COUNTER"}]
    /\ Prices \in [Items -> SUBSET Nat] /\ \A i \in Items : Prices[i] # {}
    /\ MaySellOut \subseteq Items
    /\ Carts \subseteq Seq(Items)
    /\ NoCoupon \notin Coupons /\ NoReq \notin Reqs
    /\ Benefit \in [Coupons -> Nat]
    /\ Targets \in [Coupons -> SUBSET Items]
    /\ Perishable \subseteq Coupons
    /\ Tills # {}
    /\ Switches \subseteq [orderingEnabled : BOOLEAN, paymentsEnabled : BOOLEAN,
                           methodActive : BOOLEAN]
    /\ MayCrash \in BOOLEAN
    /\ MaxKeys \in Nat

VARIABLES
    menu,          \* MenuItem: price and the sold-out flag
    settings,      \* OperationSettings, and whether the payment method is active
    coupons,       \* Coupon.status
    expired,       \* the coupons whose expiresAt has passed
    sales,         \* CounterSale rows; the row's number is its saleNo
    orders,        \* the Order rows of the sales, with their items
    payments,      \* the Payment rows of the sales, with their allocations
    redemptions,   \* CouponRedemption of each coupon, unique by couponId
    till,          \* what each till shows and waits for
    req            \* the confirmations in flight

admin == <<menu, settings, expired>>
books == <<sales, orders, payments, coupons, redemptions>>
vars == <<admin, books, till, req>>

-----------------------------------------------------------------------------
(* The quote (quoteCounterSale, discountAllocation.ts)                     *)

LineTotal(line) == (line.price + Extra[line.item]) * Quantity[line.item]
LineAmounts(lines) == [l \in DOMAIN lines |-> LineTotal(lines[l])]
SumOf(amounts) == SumFunction(amounts)
Smaller(a, b) == IF a < b THEN a ELSE b

\* Fault: the remainder left by rounding down is given to no line.
AllocateRoundedDown(total, amounts) ==
    [l \in DOMAIN amounts |-> (total * amounts[l]) \div SumOf(amounts)]

\* A share floor(total * amount / grand) each.
Shares(total, amounts) == [l \in DOMAIN amounts |-> (total * amounts[l]) \div SumOf(amounts)]

\* Line l is given one of what is left, if anything is, and if it still has room.
GiveOne(was, l, amounts) ==
    IF was.left > 0 /\ was.given[l] < amounts[l]
    THEN [left |-> was.left - 1, given |-> [was.given EXCEPT ![l] = @ + 1]]
    ELSE was

\* The shares, and what is left given out round and round over the lines.
GiveOut(total, amounts) ==
    LET After[turn \in Nat] ==
            IF turn = 0
            THEN [left |-> total - SumOf(Shares(total, amounts)), given |-> Shares(total, amounts)]
            ELSE GiveOne(After[turn - 1], ((turn - 1) % Len(amounts)) + 1, amounts)
    IN  After

\* The loop ends when nothing is left: each round gives at least one, and the turns
\* after that one change nothing.
AllocateProportional(total, amounts) == GiveOut(total, amounts)[Len(amounts) * total].given

\* resolveOrderLines: the prices of the moment; nothing sold out is sold.
Resolved(cart) == [l \in DOMAIN cart |-> [item |-> cart[l], price |-> menu[cart[l]].price]]
OnSale(cart) == \A l \in DOMAIN cart : ~menu[cart[l]].soldOut

IsAmount(c) == Targets[c] = {}
\* Fault: only a cancelled or expired coupon is refused.
RedeemableUnlessCancelled(c) == coupons[c] # "CANCELLED" /\ c \notin expired
Redeemable(c) == coupons[c] = "AVAILABLE" /\ c \notin expired
Candidates(c, cart) == {l \in DOMAIN cart : cart[l] \in Targets[c]}
\* The line an ITEM coupon pays for: the one asked for, else the first.
TargetLine(body) == IF body.target # 0 THEN body.target
                    ELSE Min(Candidates(body.coupon, body.cart))

\* computeCouponDiscount: never more than the sale is worth; an ITEM coupon pays
\* for one unit without its options.
CouponDiscount(body, lines) ==
    LET subtotal == SumOf(LineAmounts(lines))
    IN  IF body.coupon = NoCoupon THEN 0
        ELSE IF IsAmount(body.coupon) THEN Smaller(Benefit[body.coupon], subtotal)
        ELSE Smaller(lines[TargetLine(body)].price, subtotal)

Quotable(body) ==
    /\ body.cart # << >>
    /\ OnSale(body.cart)
    /\ body.coupon # NoCoupon =>
          /\ Redeemable(body.coupon)
          /\ \/ IsAmount(body.coupon)
             \/ /\ Candidates(body.coupon, body.cart) # {}
                /\ TargetLine(body) \in Candidates(body.coupon, body.cart)
          /\ CouponDiscount(body, Resolved(body.cart)) > 0

\* A quote, which is also what its hash identifies.
QuoteOf(body) ==
    LET lines    == Resolved(body.cart)
        discount == CouponDiscount(body, lines)
    IN  [lines |-> lines,
         coupon |-> body.coupon,
         discount |-> discount,
         discounts |->
            IF discount = 0 THEN [l \in DOMAIN lines |-> 0]
            ELSE IF IsAmount(body.coupon)
                 THEN AllocateProportional(discount, LineAmounts(lines))
            ELSE [l \in DOMAIN lines |-> IF l = TargetLine(body) THEN discount ELSE 0]]

NoQuote == [lines |-> << >>, coupon |-> NoCoupon, discount |-> 0, discounts |-> << >>]
Subtotal(quote) == SumOf(LineAmounts(quote.lines))
TotalAmount(quote) == Subtotal(quote) - quote.discount

-----------------------------------------------------------------------------
(* The till (CounterSalePage.tsx)                                          *)

EmptyOrder == [cart |-> << >>, coupon |-> NoCoupon, target |-> 0]
NewTill(key) == [order |-> EmptyOrder, key |-> key, quote |-> NoQuote,
                 quoting |-> FALSE, quoteError |-> FALSE,
                 waiting |-> NoReq, recoverHint |-> FALSE]

NoBody == [cart |-> << >>, coupon |-> NoCoupon, target |-> 0, method |-> FALSE]
Idle == [pc |-> "idle", till |-> CHOOSE t \in Tills : TRUE, key |-> 0, body |-> NoBody, quote |-> NoQuote]

Init ==
    /\ menu = [i \in Items |-> [price |-> Min(Prices[i]), soldOut |-> FALSE]]
    /\ settings = [orderingEnabled |-> TRUE, paymentsEnabled |-> TRUE, methodActive |-> TRUE]
    /\ coupons = [c \in Coupons |-> "AVAILABLE"]
    /\ expired = {}
    /\ sales = << >>
    /\ orders = << >>
    /\ payments = << >>
    /\ redemptions = [c \in Coupons |-> [sale |-> 0, status |-> "NONE"]]
    /\ till = [t \in Tills |-> NewTill(1)]
    /\ req = [r \in Reqs |-> Idle]

\* Fault: the key of a sale that was taken back is forgotten.
SaleStanding(t, key) ==
    {n \in DOMAIN sales : /\ sales[n].till = t /\ sales[n].key = key
                          /\ sales[n].status = "COMPLETED"}
SaleOf(t, key) == {n \in DOMAIN sales : sales[n].till = t /\ sales[n].key = key}

InUse(t, key) == \/ SaleOf(t, key) # {}
                 \/ \E r \in Reqs : /\ req[r].pc # "idle"
                                    /\ req[r].till = t /\ req[r].key = key

\* resetIdempotencyKey: a key the server has never seen.  One it knows nothing
\* of is as good as new.
FreshKey(t) == IF InUse(t, till[t].key) THEN till[t].key + 1 ELSE till[t].key

\* Changing the order resets the key, and asks for a quote while the one of the
\* previous order is still on the screen.
ChangeOrder(t, order) ==
    /\ till' = [till EXCEPT
          ![t].order = order,
          ![t].key = FreshKey(t),
          ![t].quoting = order.cart # << >>,
          ![t].quote = IF order.cart = << >> THEN NoQuote ELSE @,
          ![t].quoteError = @ /\ order.cart # << >>]
    /\ UNCHANGED <<admin, books, req>>

EditCart(t, cart) ==
    /\ cart # till[t].order.cart
    /\ ChangeOrder(t, [till[t].order EXCEPT !.cart = cart])

CheckCoupon(t, c) ==
    /\ till[t].order.coupon = NoCoupon
    /\ Redeemable(c)
    /\ ChangeOrder(t, [till[t].order EXCEPT !.coupon = c, !.target = 0])

RemoveCoupon(t) ==
    /\ till[t].order.coupon # NoCoupon
    /\ ChangeOrder(t, [till[t].order EXCEPT !.coupon = NoCoupon, !.target = 0])

ChooseTarget(t, l) ==
    /\ till[t].order.coupon # NoCoupon
    /\ l \in Candidates(till[t].order.coupon, till[t].order.cart)
    /\ l # till[t].order.target
    /\ ChangeOrder(t, [till[t].order EXCEPT !.target = l])

\* Another method, or another amount of cash, is a new request for the same order.
ChooseMethod(t) ==
    /\ till[t].quote # NoQuote /\ TotalAmount(till[t].quote) > 0
    /\ till' = [till EXCEPT ![t].key = FreshKey(t)]
    /\ UNCHANGED <<admin, books, req>>

\* Asked for once per change of the order, never when the menu changes.
ReceiveQuote(t) ==
    /\ till[t].quoting
    /\ till' = [till EXCEPT
          ![t].quoting = FALSE,
          ![t].quote = IF Quotable(till[t].order) THEN QuoteOf(till[t].order) ELSE NoQuote,
          ![t].quoteError = ~Quotable(till[t].order)]
    /\ UNCHANGED <<admin, books, req>>

\* The order on the screen is sent with the quote on the screen, which may still
\* be the one of an earlier order; a method is sent unless that quote is free.
Confirm(t, r) ==
    /\ till[t].waiting = NoReq
    /\ till[t].quote # NoQuote /\ ~till[t].quoteError
    /\ till[t].key <= MaxKeys
    /\ req[r].pc = "idle"
    /\ \A u \in Tills : till[u].waiting # r
    /\ req' = [req EXCEPT ![r] =
          [pc |-> "received", till |-> t, key |-> till[t].key,
           body |-> [cart |-> till[t].order.cart, coupon |-> till[t].order.coupon,
                     target |-> till[t].order.target,
                     method |-> TotalAmount(till[t].quote) > 0],
           quote |-> till[t].quote]]
    /\ till' = [till EXCEPT ![t].waiting = r, ![t].recoverHint = FALSE]
    /\ UNCHANGED <<admin, books>>

\* No answer: a NetworkError.  The key stays, and so does everything shown.
LoseAnswer(t) ==
    /\ till[t].waiting # NoReq
    /\ till' = [till EXCEPT ![t].waiting = NoReq, ![t].recoverHint = TRUE]
    /\ UNCHANGED <<admin, books, req>>

\* "Check the previous payment", offered after an error: the key is asked for
\* again, and a sale found under it is shown until a new one is begun.
RecoverPrevious(t) ==
    /\ till[t].recoverHint
    /\ SaleOf(t, till[t].key) # {}
    /\ till' = [till EXCEPT ![t] = NewTill(FreshKey(t))]
    /\ UNCHANGED <<admin, books, req>>

-----------------------------------------------------------------------------
(* Confirmation (confirmCounterSale)                                       *)

Finish(r) == req' = [req EXCEPT ![r] = Idle]

\* The till takes an answer only if it still waits for it.
AnswerTill(r, answered) ==
    /\ till' = [t \in Tills |-> IF till[t].waiting = r THEN answered[t] ELSE till[t]]
    /\ Finish(r)

AnswerSale(r) == AnswerTill(r, [t \in Tills |-> NewTill(FreshKey(t))])
AnswerError(r) ==
    AnswerTill(r, [t \in Tills |-> [till[t] EXCEPT !.waiting = NoReq, !.recoverHint = TRUE]])
AnswerStale(r, quote) ==
    AnswerTill(r, [t \in Tills |-> [till[t] EXCEPT !.waiting = NoReq, !.quote = quote]])

SameKey(r) == SaleOf(req[r].till, req[r].key)
Operating == settings.orderingEnabled /\ settings.paymentsEnabled

\* A known key is answered with its sale if it was sent with the same body, and
\* is a conflict otherwise.  An empty cart does not pass the schema.
LookUp(r) ==
    /\ req[r].pc = "received"
    /\ \/ /\ SameKey(r) = {}
          /\ Operating
          /\ req[r].body.cart # << >>
          /\ req' = [req EXCEPT ![r].pc = "confirming"]
          /\ UNCHANGED till
       \/ /\ \E n \in SameKey(r) : sales[n].body = req[r].body
          /\ AnswerSale(r)
       \/ /\ \/ SameKey(r) = {} /\ (~Operating \/ req[r].body.cart = << >>)
             \/ \E n \in SameKey(r) : sales[n].body # req[r].body
          /\ AnswerError(r)
    /\ UNCHANGED <<admin, books>>

\* Fault: the transaction takes the new quote without comparing it.
QuoteAccepted(r) ==
    /\ Operating
    /\ Quotable(req[r].body)
    /\ TotalAmount(req[r].quote) > 0 => settings.methodActive

\* The transaction re-computes the quote and compares it with the one shown.
QuoteStands(r) ==
    /\ Operating
    /\ Quotable(req[r].body)
    /\ QuoteOf(req[r].body) = req[r].quote
    /\ TotalAmount(req[r].quote) > 0 => settings.methodActive

\* Fault: each of the two orders counts the items of both.
OrdersForAll(n, lines) ==
    LET Part(mode, status) ==
            LET part == {l \in DOMAIN lines : ServingMode[lines[l].item] = mode}
            IN  IF part = {} THEN << >>
                ELSE <<[sale |-> n, status |-> status,
                        lines |-> [l \in part |-> lines[l]], live |-> DOMAIN lines]>>
    IN  Part("KITCHEN", "NEW") \o Part("COUNTER", "SERVED")

\* The cooked lines become an order for the kitchen, the others one that is
\* served by being paid.
OrdersFor(n, lines) ==
    LET Part(mode, status) ==
            LET part == {l \in DOMAIN lines : ServingMode[lines[l].item] = mode}
            IN  IF part = {} THEN << >>
                ELSE <<[sale |-> n, status |-> status,
                        lines |-> [l \in part |-> lines[l]], live |-> part]>>
    IN  Part("KITCHEN", "NEW") \o Part("COUNTER", "SERVED")

Positive(amounts) == {l \in DOMAIN amounts : amounts[l] > 0}
PaymentRow(n, kind, amount, amounts, coupon) ==
    [sale |-> n, kind |-> kind, amount |-> amount, coupon |-> coupon,
     allocations |-> [l \in Positive(amounts) |-> amounts[l]],
     reversedPaymentId |-> 0]

\* Fault: the charge forgets the discount.
PaymentsForSubtotal(n, quote) ==
    LET net == [l \in DOMAIN quote.lines |->
                   LineTotal(quote.lines[l]) - quote.discounts[l]]
    IN  (IF quote.coupon = NoCoupon THEN << >>
         ELSE <<PaymentRow(n, "DISCOUNT", quote.discount, quote.discounts, quote.coupon)>>)
        \o <<PaymentRow(n, "CHARGE", Subtotal(quote), net, NoCoupon)>>

\* One DISCOUNT row if a coupon was used, one CHARGE row unless the sale is free.
PaymentsFor(n, quote) ==
    LET net == [l \in DOMAIN quote.lines |->
                   LineTotal(quote.lines[l]) - quote.discounts[l]]
    IN  (IF quote.coupon = NoCoupon THEN << >>
         ELSE <<PaymentRow(n, "DISCOUNT", quote.discount, quote.discounts, quote.coupon)>>)
        \o (IF TotalAmount(quote) = 0 THEN << >>
            ELSE <<PaymentRow(n, "CHARGE", TotalAmount(quote), net, NoCoupon)>>)

\* A coupon that is no longer available undoes the sale; Quotable has checked it.
Consumed(coupon) == [c \in Coupons |-> IF c = coupon THEN "USED" ELSE coupons[c]]

\* The transaction: sale, orders, coupon, discount and charge, or none of them.
CommitSale(r) ==
    LET n     == Len(sales) + 1
        quote == QuoteOf(req[r].body)
    IN  /\ req[r].pc = "confirming"
        /\ QuoteStands(r)
        /\ SameKey(r) = {}
        /\ sales' = Append(sales, [till |-> req[r].till, key |-> req[r].key,
                                   body |-> req[r].body, status |-> "COMPLETED"])
        /\ orders' = orders \o OrdersFor(n, quote.lines)
        /\ payments' = payments \o PaymentsFor(n, quote)
        /\ coupons' = Consumed(quote.coupon)
        /\ redemptions' = [c \in Coupons |->
               IF c = quote.coupon THEN [sale |-> n, status |-> "LIVE"] ELSE redemptions[c]]
        /\ AnswerSale(r)
        /\ UNCHANGED admin

\* P2002: another request of the key has committed since the look-up.
CommitDuplicate(r) ==
    /\ req[r].pc = "confirming"
    /\ QuoteStands(r)
    /\ SameKey(r) # {}
    /\ IF \E n \in SameKey(r) : sales[n].body = req[r].body
       THEN AnswerSale(r)
       ELSE AnswerError(r)
    /\ UNCHANGED <<admin, books>>

\* QUOTE_STALE carries the new quote back; every other error is only shown.
RefuseCommit(r) ==
    /\ req[r].pc = "confirming"
    /\ ~QuoteStands(r)
    /\ IF Operating /\ Quotable(req[r].body) /\ QuoteOf(req[r].body) # req[r].quote
       THEN AnswerStale(r, QuoteOf(req[r].body))
       ELSE AnswerError(r)
    /\ UNCHANGED <<admin, books>>

\* The process is restarted: what it was doing is forgotten, what it committed stays.
Restart ==
    /\ MayCrash
    /\ \E r \in Reqs : req[r].pc # "idle"
    /\ req' = [r \in Reqs |-> Idle]
    /\ UNCHANGED <<admin, books, till>>

-----------------------------------------------------------------------------
(* The sale afterwards (order.ts, counterSale.ts, serving.routes.ts)       *)

Cancellable == {"NEW", "ACCEPTED", "PREPARING"}
ActiveOrderStatuses == Cancellable \cup {"READY"}
NotCharged == {"CANCELLED", "REJECTED"}

\* Fault: the update is not conditional on the status the screen showed.
ApplyTransitionBlindly(o, from, to) ==
    /\ orders' = [orders EXCEPT ![o].status = to]
    /\ UNCHANGED <<admin, sales, payments, coupons, redemptions, till, req>>

\* One conditional update: of two members of staff only one succeeds.
ApplyTransition(o, from, to) ==
    /\ orders[o].status = from
    /\ orders' = [orders EXCEPT ![o].status = to]
    /\ UNCHANGED <<admin, sales, payments, coupons, redemptions, till, req>>

AcceptOrder(o) == ApplyTransition(o, "NEW", "ACCEPTED")
RejectOrder(o) == ApplyTransition(o, "NEW", "REJECTED")
StartPreparing(o) == ApplyTransition(o, "ACCEPTED", "PREPARING")
MarkReady(o) == ApplyTransition(o, "PREPARING", "READY")
PickedUp(o) == ApplyTransition(o, "READY", "SERVED")
RevertServedToReady(o) == ApplyTransition(o, "SERVED", "READY")

\* The whole order while it may still be cancelled, or some of its lines.
CancelOrder(o, lines) ==
    LET whole == lines = DOMAIN orders[o].lines
        live  == orders[o].live \ lines
    IN  /\ whole => orders[o].status \in Cancellable \cup {"CANCELLED"}
        /\ orders' = [orders EXCEPT
              ![o].live = live,
              ![o].status = IF @ \in Cancellable /\ (whole \/ live = {})
                            THEN "CANCELLED" ELSE @]
        /\ UNCHANGED <<admin, sales, payments, coupons, redemptions, till, req>>

RowsOf(rows, n) == {p \in DOMAIN rows : rows[p].sale = n}
Originals == {"CHARGE", "DISCOUNT"}
Reversed(p) == \E q \in DOMAIN payments : payments[q].reversedPaymentId = p
\* Fault: only the money is refunded, the discount stays given.
RefundableCharges(n) ==
    {p \in RowsOf(payments, n) : payments[p].kind = "CHARGE" /\ ~Reversed(p)}
Refundable(n) ==
    {p \in RowsOf(payments, n) : payments[p].kind \in Originals /\ ~Reversed(p)}
RefundRow(p) == [payments[p] EXCEPT !.kind = "REFUND", !.coupon = NoCoupon,
                                    !.reversedPaymentId = p]

\* The numbers of rows, in the order of the rows.
Ascending(S) ==
    CHOOSE s \in [1..Cardinality(S) -> S] : \A i, j \in DOMAIN s : i < j => s[i] < s[j]

\* Taking a sale back: every payment is refunded, every order is cancelled, and
\* the coupon's redemption is cancelled while the coupon stays used.
CancelSale(n) ==
    LET refundable == Ascending(Refundable(n))
    IN  /\ sales[n].status = "COMPLETED"
        /\ sales' = [sales EXCEPT ![n].status = "CANCELLED"]
        /\ payments' = payments \o [i \in DOMAIN refundable |-> RefundRow(refundable[i])]
        /\ orders' = [o \in DOMAIN orders |->
              IF orders[o].sale = n THEN [orders[o] EXCEPT !.status = "CANCELLED"]
              ELSE orders[o]]
        /\ redemptions' = [c \in Coupons |->
              IF redemptions[c] = [sale |-> n, status |-> "LIVE"]
              THEN [sale |-> n, status |-> "CANCELLED"] ELSE redemptions[c]]
        /\ UNCHANGED <<admin, coupons, till, req>>

\* computeCounterSaleLedger, and what shapeSale says of the sale.
LiveAmount(order) == SumFunction([l \in order.live |-> LineTotal(order.lines[l])])
OrderAmount(n) ==
    SumFunction([o \in {x \in RowsOf(orders, n) : orders[x].status \notin NotCharged} |->
                    LiveAmount(orders[o])])
Amounts(rows) == SumFunction([p \in rows |-> payments[p].amount])
NetOf(n, kind) ==
    Amounts({p \in RowsOf(payments, n) : payments[p].kind = kind})
    - Amounts({p \in RowsOf(payments, n) :
                  /\ payments[p].kind = "REFUND"
                  /\ payments[payments[p].reversedPaymentId].kind = kind})
NetCharged(n) == NetOf(n, "CHARGE")
DiscountAmount(n) == NetOf(n, "DISCOUNT")
RemainingAmount(n) == OrderAmount(n) - DiscountAmount(n) - NetCharged(n)
RefundNeeded(n) == sales[n].status = "COMPLETED" /\ RemainingAmount(n) < 0

-----------------------------------------------------------------------------
(* The administrator                                                       *)

ChangePrice(i, price) ==
    /\ price # menu[i].price
    /\ menu' = [menu EXCEPT ![i].price = price]
    /\ UNCHANGED <<settings, expired, books, till, req>>

SetSoldOut(i) ==
    /\ menu' = [menu EXCEPT ![i].soldOut = ~@]
    /\ UNCHANGED <<settings, expired, books, till, req>>

UpdateSettings(value) ==
    /\ value # settings
    /\ settings' = value
    /\ UNCHANGED <<menu, expired, books, till, req>>

\* Only a coupon nobody has used.
CancelCoupon(c) ==
    /\ coupons[c] = "AVAILABLE"
    /\ coupons' = [coupons EXCEPT ![c] = "CANCELLED"]
    /\ UNCHANGED <<admin, sales, orders, payments, redemptions, till, req>>

\* Time passes expiresAt.
Expire(c) ==
    /\ c \in Perishable \ expired
    /\ expired' = expired \cup {c}
    /\ UNCHANGED <<menu, settings, books, till, req>>

-----------------------------------------------------------------------------
Cashier(t) ==
    \/ \E cart \in Carts \cup {<< >>} : EditCart(t, cart)
    \/ \E c \in Coupons : CheckCoupon(t, c)
    \/ RemoveCoupon(t)
    \/ \E l \in DOMAIN till[t].order.cart : ChooseTarget(t, l)
    \/ ChooseMethod(t)
    \/ ReceiveQuote(t)
    \/ \E r \in Reqs : Confirm(t, r)
    \/ LoseAnswer(t)
    \/ RecoverPrevious(t)

Serve(r) == LookUp(r) \/ CommitSale(r) \/ CommitDuplicate(r) \/ RefuseCommit(r)

Fulfil ==
    \/ \E o \in DOMAIN orders :
          \/ AcceptOrder(o) \/ RejectOrder(o) \/ StartPreparing(o)
          \/ MarkReady(o) \/ PickedUp(o) \/ RevertServedToReady(o)
          \/ \E lines \in (SUBSET DOMAIN orders[o].lines) \ {{}} : CancelOrder(o, lines)
    \/ \E n \in DOMAIN sales : CancelSale(n)

Administer ==
    \/ \E i \in Items : \E price \in Prices[i] : ChangePrice(i, price)
    \/ \E i \in MaySellOut : SetSoldOut(i)
    \/ \E value \in Switches : UpdateSettings(value)
    \/ \E c \in Coupons : CancelCoupon(c) \/ Expire(c)

Next ==
    \/ \E t \in Tills : Cashier(t)
    \/ \E r \in Reqs : Serve(r)
    \/ Fulfil
    \/ Administer
    \/ Restart

Spec == Init /\ [][Next]_vars
=============================================================================
