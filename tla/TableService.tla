---------------------------- MODULE TableService ----------------------------
(***************************************************************************)
(* The life of a table on one server: a table is opened for a party, the   *)
(* party's devices join, order and call staff, the kitchen and the hall    *)
(* move the orders on, the counter takes money, and the session is closed  *)
(* by hand or by maybeAutoSettleTableSession.                              *)
(*                                                                         *)
(* The server is one Node process over SQLite with connection_limit=1: a   *)
(* Prisma statement, or a whole $transaction, is atomic, and the handlers  *)
(* interleave wherever they await between two of them.  A handler that     *)
(* acts on an earlier read is therefore a request in req with a step per   *)
(* statement; a handler whose outcome depends on one statement or one      *)
(* transaction only is a single action.  Statement pre-checks that the     *)
(* transaction repeats are folded into it.                                 *)
(***************************************************************************)
EXTENDS Billing

CONSTANTS
    Tables,
    Reqs,             \* slots for handlers in flight
    Baskets,          \* what one order may hold: sequences of Items
    Coupons, NoCoupon,
    Benefit,          \* the value of an AMOUNT coupon
    Targets,          \* the items an ITEM coupon pays for; {} for AMOUNT
    Locks,            \* the lock pairs the administrator may set on a table
    Switches,         \* the values the administrator may give the settings
    MayCrash,         \* the process may be restarted
    MaxSessions, MaxOrders, MaxPayments, MaxCalls   \* bounds on the rows

LockPairs == [ordersLocked : BOOLEAN, paymentsLocked : BOOLEAN]
SettingsRecords == [orderingEnabled : BOOLEAN, paymentsEnabled : BOOLEAN]

ASSUME ServiceAssumption ==
    /\ Baskets \subseteq Seq(Items)
    /\ NoCoupon \notin Coupons
    /\ Benefit \in [Coupons -> Nat]
    /\ Targets \in [Coupons -> SUBSET Items]
    /\ Locks \subseteq LockPairs
    /\ Switches \subseteq SettingsRecords
    /\ MayCrash \in BOOLEAN
    /\ MaxSessions \in Nat /\ MaxOrders \in Nat
    /\ MaxPayments \in Nat /\ MaxCalls \in Nat

VARIABLES
    tables,        \* Table: status and the two locks
    settings,      \* OperationSettings
    sessions,      \* TableSession rows, in the order they were opened
    orders,        \* Order rows with their items
    payments,      \* Payment rows
    calls,         \* StaffCallRequest rows
    coupons,       \* Coupon.status
    redemptions,   \* CouponRedemption of each coupon, unique by couponId
    req,           \* the handlers in flight
    total          \* the order total a handler's computeBill has read so far

floor == <<tables, sessions>>
ledger == <<payments, coupons, redemptions>>
vars == <<tables, settings, sessions, orders, payments, calls, coupons,
          redemptions, req, total>>

LiveStatuses == {"ACTIVE", "PAID_PENDING_SERVICE"}
OpenCallStatuses == {"PENDING", "ACKED"}

\* The statement or transaction a request executes next.
SettleSteps == {"settleSession", "settleOrders", "settlePayments", "settleCount",
                "settleClose", "settlePend", "settleRevert"}
Steps == {"idle", "joining", "gating", "ordering", "calling", "voiding",
          "couponCancelling"} \cup SettleSteps

Request(pc, s, row, seen) == [pc |-> pc, session |-> s, row |-> row, seen |-> seen]
Idle == Request("idle", 0, 0, "NONE")
Done(r) == req' = [req EXCEPT ![r] = Idle]
Goto(r, pc) == req' = [req EXCEPT ![r].pc = pc]
StartSettle(r, s) == req' = [req EXCEPT ![r] = Request("settleSession", s, 0, "NONE")]

IsLive(s) == sessions[s].status \in LiveStatuses
LiveSessions(t) == {s \in DOMAIN sessions : sessions[s].table = t /\ IsLive(s)}
\* findFirst over the live sessions of a table, newest first.
IsCurrent(s) == /\ IsLive(s)
                /\ \A q \in LiveSessions(sessions[s].table) : q <= s
OpenCalls(s) == {c \in RowsOf(calls, s) : calls[c].status \in OpenCallStatuses}
Remaining(s) == RemainingAmount(orders, payments, s)
InFlight(pcs) == Cardinality({r \in Reqs : req[r].pc \in pcs})
LeastOf(a, b) == IF a < b THEN a ELSE b
NonNegative(a) == IF a < 0 THEN 0 ELSE a

Init ==
    /\ tables = [t \in Tables |->
                    [status |-> "AVAILABLE", ordersLocked |-> FALSE, paymentsLocked |-> FALSE]]
    /\ settings = [orderingEnabled |-> TRUE, paymentsEnabled |-> TRUE]
    /\ sessions = << >>
    /\ orders = << >>
    /\ payments = << >>
    /\ calls = << >>
    /\ coupons = [c \in Coupons |-> "AVAILABLE"]
    /\ redemptions = [c \in Coupons |-> [session |-> 0, status |-> "NONE"]]
    /\ req = [r \in Reqs |-> Idle]
    /\ total = [r \in Reqs |-> 0]

-----------------------------------------------------------------------------
(* Tables and sessions (tableSession.ts, admin.routes.ts)                  *)

OpenTable(t) ==
    /\ tables[t].status = "AVAILABLE"
    /\ Len(sessions) < MaxSessions
    /\ tables' = [tables EXCEPT ![t].status = "OPEN"]
    /\ sessions' = Append(sessions, [table |-> t, status |-> "ACTIVE",
                                     closeReason |-> "NONE", joined |-> FALSE])
    /\ UNCHANGED <<settings, orders, calls, ledger, req, total>>

\* Fault: the table is given the session's status instead of being freed.
EndSessionTableClosed(s, reason) ==
    /\ sessions' = [sessions EXCEPT ![s].status = "CLOSED",
                                    ![s].closeReason = reason,
                                    ![s].joined = FALSE]
    /\ tables' = [tables EXCEPT ![sessions[s].table].status = "CLOSED"]

\* The transaction every way of closing shares: the session ends, the table is
\* freed and the devices that joined are revoked.
EndSession(s, reason) ==
    /\ sessions' = [sessions EXCEPT ![s].status = "CLOSED",
                                    ![s].closeReason = reason,
                                    ![s].joined = FALSE]
    /\ tables' = [tables EXCEPT ![sessions[s].table].status =
                     IF @ \in {"OPEN", "SETTLING"} THEN "AVAILABLE" ELSE @]

HasBlockers(s) ==
    Remaining(s) # 0 \/ UnservedOrders(orders, s) # {} \/ OpenCalls(s) # {}

CloseTable(s) ==
    /\ IsCurrent(s)
    /\ ~HasBlockers(s)
    /\ EndSession(s, "NORMAL")
    /\ UNCHANGED <<settings, orders, calls, ledger, req, total>>

ForceCloseTable(s) ==
    /\ IsCurrent(s)
    /\ EndSession(s, "FORCE_CLOSED")
    /\ UNCHANGED <<settings, orders, calls, ledger, req, total>>

\* The search for a live session comes first, the conditional update after it;
\* a table that is AVAILABLE then has none (TableSessionAgreement).
DisableTable(t) ==
    /\ LiveSessions(t) = {}
    /\ tables[t].status \in {"AVAILABLE", "DISABLED"}
    /\ tables' = [tables EXCEPT ![t].status = "DISABLED"]
    /\ UNCHANGED <<settings, sessions, orders, calls, ledger, req, total>>

EnableTable(t) ==
    /\ tables[t].status = "DISABLED"
    /\ tables' = [tables EXCEPT ![t].status = "AVAILABLE"]
    /\ UNCHANGED <<settings, sessions, orders, calls, ledger, req, total>>

UpdateTable(t, l) ==
    /\ tables' = [tables EXCEPT ![t].ordersLocked = l.ordersLocked,
                                ![t].paymentsLocked = l.paymentsLocked]
    /\ UNCHANGED <<settings, sessions, orders, calls, ledger, req, total>>

UpdateSettings(v) ==
    /\ settings' = v
    /\ UNCHANGED <<floor, orders, calls, ledger, req, total>>

-----------------------------------------------------------------------------
(* Customer devices (customer.routes.ts, requireTableSession.ts)           *)

\* POST /join finds the table's session; the device session is issued by a
\* later statement that does not look at the session again.
StartJoin(r, s) ==
    /\ req[r].pc = "idle"
    /\ IsCurrent(s)
    /\ tables[sessions[s].table].status \in {"OPEN", "SETTLING"}
    /\ req' = [req EXCEPT ![r] = Request("joining", s, 0, "NONE")]
    /\ UNCHANGED <<floor, settings, orders, calls, ledger, total>>

IssueDeviceSession(r) ==
    /\ req[r].pc = "joining"
    /\ sessions' = [sessions EXCEPT ![req[r].session].joined = TRUE]
    /\ Done(r)
    /\ UNCHANGED <<tables, settings, orders, calls, ledger, total>>

\* requireTableSession: an unrevoked device of a live session at a table in use.
PassesSessionGate(s) ==
    /\ sessions[s].joined
    /\ IsLive(s)
    /\ tables[sessions[s].table].status \in {"OPEN", "SETTLING"}

StartOrder(r, s) ==
    /\ req[r].pc = "idle"
    /\ Len(orders) + InFlight({"gating", "ordering"}) < MaxOrders
    /\ PassesSessionGate(s)
    /\ sessions[s].status = "ACTIVE"
    /\ ~tables[sessions[s].table].ordersLocked
    /\ req' = [req EXCEPT ![r] = Request("gating", s, 0, "NONE")]
    /\ UNCHANGED <<floor, settings, orders, calls, ledger, total>>

\* requireOrderableSession reads the settings in a statement of its own.
CheckOrderingEnabled(r) ==
    /\ req[r].pc = "gating"
    /\ IF settings.orderingEnabled THEN Goto(r, "ordering") ELSE Done(r)
    /\ UNCHANGED <<floor, settings, orders, calls, ledger, total>>

\* createOrder inserts without another look at the session, the table or the
\* settings.
CreateOrder(r) ==
    /\ req[r].pc = "ordering"
    /\ \E b \in Baskets :
          orders' = Append(orders, [session |-> req[r].session, status |-> "NEW",
                                    lines |-> b, live |-> DOMAIN b])
    /\ Done(r)
    /\ UNCHANGED <<floor, settings, calls, ledger, total>>

StartStaffCall(r, s) ==
    /\ req[r].pc = "idle"
    /\ Len(calls) + InFlight({"calling"}) < MaxCalls
    /\ PassesSessionGate(s)
    /\ req' = [req EXCEPT ![r] = Request("calling", s, 0, "NONE")]
    /\ UNCHANGED <<floor, settings, orders, calls, ledger, total>>

\* Fault: the transaction does not look for the pending call.
CreateStaffCallTwice(r) ==
    /\ req[r].pc = "calling"
    /\ calls' = Append(calls, [session |-> req[r].session, status |-> "PENDING"])
    /\ Done(r)
    /\ UNCHANGED <<floor, settings, orders, ledger, total>>

CreateStaffCall(r) ==
    /\ req[r].pc = "calling"
    /\ calls' = IF OpenCalls(req[r].session) # {} THEN calls
                ELSE Append(calls, [session |-> req[r].session, status |-> "PENDING"])
    /\ Done(r)
    /\ UNCHANGED <<floor, settings, orders, ledger, total>>

-----------------------------------------------------------------------------
(* The hall and the kitchen (serving.routes.ts, pos.routes.ts, order.ts)   *)

AckCall(c) ==
    /\ calls[c].status = "PENDING"
    /\ calls' = [calls EXCEPT ![c].status = "ACKED"]
    /\ UNCHANGED <<floor, settings, orders, ledger, req, total>>

FinishCall(c) ==
    /\ calls[c].status \in OpenCallStatuses
    /\ calls' = [calls EXCEPT ![c].status = "DONE"]
    /\ UNCHANGED <<floor, settings, orders, ledger, req, total>>

ApplyTransition(o, from, to) ==
    /\ orders[o].status \in from
    /\ orders' = [orders EXCEPT ![o].status = to]
    /\ UNCHANGED <<floor, settings, calls, ledger, total>>

AcceptOrder(o)    == ApplyTransition(o, {"NEW"}, "ACCEPTED") /\ UNCHANGED req
RejectOrder(o)    == ApplyTransition(o, {"NEW"}, "REJECTED") /\ UNCHANGED req
StartPreparing(o) == ApplyTransition(o, {"ACCEPTED"}, "PREPARING") /\ UNCHANGED req
MarkReady(o)      == ApplyTransition(o, {"PREPARING"}, "READY") /\ UNCHANGED req
RevertServedToReady(o) == ApplyTransition(o, {"SERVED"}, "READY") /\ UNCHANGED req

\* Fault: the last order is served and nobody re-evaluates the session.
MarkServedOnly(r, o) ==
    /\ req[r].pc = "idle"
    /\ ApplyTransition(o, {"READY"}, "SERVED")
    /\ UNCHANGED req

MarkServed(r, o) ==
    /\ req[r].pc = "idle"
    /\ ApplyTransition(o, {"READY"}, "SERVED")
    /\ StartSettle(r, orders[o].session)

Cancellable == {"NEW", "ACCEPTED", "PREPARING"}

\* All the lines named: the order is cancelled, if its state allows it.  Some of
\* them: these lines are cancelled in any state, and the order with them when no
\* live line is left and its state still allows it.
CancelOrder(o, lines) ==
    LET whole == lines = DOMAIN orders[o].lines
        live  == orders[o].live \ lines
    IN  /\ whole => orders[o].status \in Cancellable \cup {"CANCELLED"}
        /\ orders' = [orders EXCEPT
              ![o].live = live,
              ![o].status = IF @ \in Cancellable /\ (whole \/ live = {})
                            THEN "CANCELLED" ELSE @]
        /\ UNCHANGED <<floor, settings, calls, ledger, req, total>>

-----------------------------------------------------------------------------
(* Money (payment.ts, tableCoupon.ts)                                      *)

\* assertPaymentStillAllowed, in the transaction that inserts the payment.
PaymentAllowed(s) ==
    /\ IsLive(s)
    /\ ~tables[sessions[s].table].paymentsLocked
    /\ settings.paymentsEnabled

RoomForPayment == Len(payments) + InFlight({"voiding"}) < MaxPayments

PaymentRow(s, kind, amount, original, coupon, allocations) ==
    [session |-> s, kind |-> kind, amount |-> amount, reversedPaymentId |-> original,
     coupon |-> coupon, allocations |-> allocations]

\* Fault: the amount is compared with the total, not with what remains.
PayAmountAgainstTotal(r, s, kind) ==
    /\ req[r].pc = "idle"
    /\ RoomForPayment
    /\ PaymentAllowed(s)
    /\ \E amount \in 1..TotalAmount(orders, s) :
          payments' = Append(payments, PaymentRow(s, kind, amount, 0, NoCoupon, {}))
    /\ StartSettle(r, s)
    /\ UNCHANGED <<floor, settings, orders, calls, coupons, redemptions, total>>

\* A CHARGE by amount or a DISCOUNT.  Cash tendered beyond what is owed records
\* what is owed, so every amount up to the remaining one can be recorded.
PayAmount(r, s, kind) ==
    /\ req[r].pc = "idle"
    /\ RoomForPayment
    /\ PaymentAllowed(s)
    /\ \E amount \in 1..Remaining(s) :
          payments' = Append(payments, PaymentRow(s, kind, amount, 0, NoCoupon, {}))
    /\ StartSettle(r, s)
    /\ UNCHANGED <<floor, settings, orders, calls, coupons, redemptions, total>>

\* Units of the session's lines that an ITEMS payment may take, one entry for
\* each number of units of a line.  Only the order's status is looked at: a line
\* cancelled on its own can still be paid for.
\* Fault: the units already paid for are not deducted.
PayableAgain(s) ==
    UNION {UNION {{[order |-> n, line |-> l, quantity |-> q] :
                       q \in 1..Quantity[orders[n].lines[l]]} :
                  l \in DOMAIN orders[n].lines} :
           n \in {o \in RowsOf(orders, s) : orders[o].status \notin NotCharged}}

Payable(s) ==
    UNION {UNION {{[order |-> n, line |-> l, quantity |-> q] :
                       q \in 1..RemainingQuantity(orders, payments, n, l)} :
                  l \in DOMAIN orders[n].lines} :
           n \in {o \in RowsOf(orders, s) : orders[o].status \notin NotCharged}}

\* A payment names a line at most once.
NamesLinesOnce(allocations) ==
    \A a, b \in allocations : a.order = b.order /\ a.line = b.line => a = b

AllocationAmount(allocations) ==
    SumFunction([a \in allocations |-> UnitAmount(orders[a.order].lines[a.line]) * a.quantity])

PayItems(r, s) ==
    /\ req[r].pc = "idle"
    /\ RoomForPayment
    /\ PaymentAllowed(s)
    /\ \E allocations \in (SUBSET Payable(s)) \ {{}}, amount \in 0..NonNegative(Remaining(s)) :
          /\ NamesLinesOnce(allocations)
          /\ amount = AllocationAmount(allocations)
          /\ payments' = Append(payments,
                            PaymentRow(s, "CHARGE", amount, 0, NoCoupon, allocations))
    /\ StartSettle(r, s)
    /\ UNCHANGED <<floor, settings, orders, calls, coupons, redemptions, total>>

\* A payment is of an amount or of lines; a discount is of an amount.
CreatePayment(r, s) == PayAmount(r, s, "CHARGE") \/ PayItems(r, s)
CreateDiscount(r, s) == PayAmount(r, s, "DISCOUNT")

\* What coupon c takes off the bill (resolveTableCoupon).  The candidates of an
\* ITEM coupon are all the lines of the orders on the bill, at their price
\* without options.
CouponDiscounts(c, s) ==
    LET onBill == {n \in RowsOf(orders, s) : orders[n].status \notin NotCharged}
        items  == UNION {{orders[n].lines[l] : l \in DOMAIN orders[n].lines} : n \in onBill}
        value  == IF Targets[c] = {} THEN {Benefit[c]}
                  ELSE {UnitPrice[i] : i \in items \cap Targets[c]}
    IN  {LeastOf(v, Remaining(s)) : v \in value}

\* Fault: a session may use a second coupon while the first one is live.
ApplyTableCouponTwice(r, s, c) ==
    /\ req[r].pc = "idle"
    /\ RoomForPayment
    /\ PaymentAllowed(s)
    /\ coupons[c] = "AVAILABLE"
    /\ \E amount \in CouponDiscounts(c, s) \cap (1..Remaining(s)) :
          payments' = Append(payments, PaymentRow(s, "DISCOUNT", amount, 0, c, {}))
    /\ coupons' = [coupons EXCEPT ![c] = "USED"]
    /\ redemptions' = [redemptions EXCEPT ![c] = [session |-> s, status |-> "LIVE"]]
    /\ StartSettle(r, s)
    /\ UNCHANGED <<floor, settings, orders, calls, total>>

LiveRedemptions(s) ==
    {c \in Coupons : redemptions[c].session = s /\ redemptions[c].status = "LIVE"}

ApplyTableCoupon(r, s, c) ==
    /\ req[r].pc = "idle"
    /\ RoomForPayment
    /\ PaymentAllowed(s)
    /\ coupons[c] = "AVAILABLE"
    /\ LiveRedemptions(s) = {}
    /\ \E amount \in CouponDiscounts(c, s) \cap (1..Remaining(s)) :
          payments' = Append(payments, PaymentRow(s, "DISCOUNT", amount, 0, c, {}))
    /\ coupons' = [coupons EXCEPT ![c] = "USED"]
    /\ redemptions' = [redemptions EXCEPT ![c] = [session |-> s, status |-> "LIVE"]]
    /\ StartSettle(r, s)
    /\ UNCHANGED <<floor, settings, orders, calls, total>>

ReversalsOf(p) == {n \in DOMAIN payments : payments[n].reversedPaymentId = p}

\* voidPayment: whether the reversal is a VOID or a REFUND is decided by the
\* session's status here, before the transaction.
StartVoid(r, p) ==
    /\ req[r].pc = "idle"
    /\ RoomForPayment
    /\ payments[p].kind \in Originals
    /\ ReversalsOf(p) = {}
    /\ LET s == payments[p].session
           kind == IF sessions[s].status = "CLOSED" THEN "REFUND" ELSE "VOID"
       IN  req' = [req EXCEPT ![r] = Request("voiding", s, p, kind)]
    /\ UNCHANGED <<floor, settings, orders, calls, ledger, total>>

AfterReversal(r) ==
    req' = [req EXCEPT ![r].pc =
               IF payments[req[r].row].coupon = NoCoupon THEN "settleSession"
               ELSE "couponCancelling"]

ReversalRow(r) ==
    PaymentRow(req[r].session, req[r].seen, payments[req[r].row].amount, req[r].row,
               NoCoupon, payments[req[r].row].allocations)

\* Fault: only the idempotency key, which holds the kind, keeps reversals apart.
RecordReversalByKey(r) ==
    /\ req[r].pc = "voiding"
    /\ IF \E n \in ReversalsOf(req[r].row) : payments[n].kind = req[r].seen
       THEN UNCHANGED payments
       ELSE payments' = Append(payments, ReversalRow(r))
    /\ AfterReversal(r)
    /\ UNCHANGED <<floor, settings, orders, calls, coupons, redemptions, total>>

\* The transaction: a reversal with this key is returned as if it were made now,
\* one of the other kind refuses the request.
RecordReversal(r) ==
    /\ req[r].pc = "voiding"
    /\ \/ /\ ReversalsOf(req[r].row) = {}
          /\ payments' = Append(payments, ReversalRow(r))
          /\ AfterReversal(r)
       \/ /\ \E n \in ReversalsOf(req[r].row) : payments[n].kind = req[r].seen
          /\ AfterReversal(r)
          /\ UNCHANGED payments
       \/ /\ ReversalsOf(req[r].row) # {}
          /\ \A n \in ReversalsOf(req[r].row) : payments[n].kind # req[r].seen
          /\ Done(r)
          /\ UNCHANGED payments
    /\ UNCHANGED <<floor, settings, orders, calls, coupons, redemptions, total>>

\* Fault: the redemption is left live when its discount is reversed.
CancelRedemptionNever(r) ==
    /\ req[r].pc = "couponCancelling"
    /\ StartSettle(r, req[r].session)
    /\ UNCHANGED <<floor, settings, orders, calls, ledger, total>>

\* cancelTableCouponRedemption, a statement after the transaction.
CancelTableCouponRedemption(r) ==
    /\ req[r].pc = "couponCancelling"
    /\ LET c == payments[req[r].row].coupon
       IN  redemptions' = [redemptions EXCEPT ![c].status =
               IF redemptions[c].session = req[r].session /\ @ = "LIVE"
               THEN "CANCELLED" ELSE @]
    /\ StartSettle(r, req[r].session)
    /\ UNCHANGED <<floor, settings, orders, calls, payments, coupons, total>>

-----------------------------------------------------------------------------
(* maybeAutoSettleTableSession, a statement or a transaction at a time     *)

\* Fault: a session that is PAID_PENDING_SERVICE is not looked at again.
SettleReadSessionActive(r) ==
    /\ req[r].pc = "settleSession"
    /\ IF sessions[req[r].session].status = "ACTIVE"
       THEN req' = [req EXCEPT ![r] = Request("settleOrders", req[r].session, 0, "ACTIVE")]
       ELSE Done(r)
    /\ UNCHANGED <<floor, settings, orders, calls, ledger, total>>

SettleReadSession(r) ==
    /\ req[r].pc = "settleSession"
    /\ IF IsLive(req[r].session)
       THEN req' = [req EXCEPT ![r] = Request("settleOrders", req[r].session, 0,
                                              sessions[req[r].session].status)]
       ELSE Done(r)
    /\ UNCHANGED <<floor, settings, orders, calls, ledger, total>>

SettleReadOrders(r) ==
    /\ req[r].pc = "settleOrders"
    /\ total' = [total EXCEPT ![r] = TotalAmount(orders, req[r].session)]
    /\ Goto(r, "settlePayments")
    /\ UNCHANGED <<floor, settings, orders, calls, ledger>>

\* Fault: a session nothing is owed for counts as paid.
AfterBillUnguarded(seen, charged, paid) ==
    IF charged = paid THEN "settleCount"
    ELSE IF seen = "PAID_PENDING_SERVICE" THEN "settleRevert"
    ELSE "idle"

\* What a bill with this total and this much paid leads to.
AfterBill(seen, charged, paid) ==
    IF charged = paid /\ paid # 0 THEN "settleCount"
    ELSE IF charged # paid /\ seen = "PAID_PENDING_SERVICE" THEN "settleRevert"
    ELSE "idle"

SettleReadPayments(r) ==
    /\ req[r].pc = "settlePayments"
    /\ LET step == AfterBill(req[r].seen, total[r],
                             PaidAmount(payments, req[r].session))
       IN  IF step = "idle" THEN Done(r) ELSE Goto(r, step)
    /\ total' = [total EXCEPT ![r] = 0]
    /\ UNCHANGED <<floor, settings, orders, calls, ledger>>

SettleCountUnserved(r) ==
    /\ req[r].pc = "settleCount"
    /\ IF UnservedOrders(orders, req[r].session) = {} THEN Goto(r, "settleClose")
       ELSE IF req[r].seen = "ACTIVE" THEN Goto(r, "settlePend")
       ELSE Done(r)
    /\ UNCHANGED <<floor, settings, orders, calls, ledger, total>>

\* The three transitions are conditional on the status the session has now.
SettleClose(r) ==
    /\ req[r].pc = "settleClose"
    /\ IF IsLive(req[r].session) THEN EndSession(req[r].session, "AUTO_SETTLED")
       ELSE UNCHANGED floor
    /\ Done(r)
    /\ UNCHANGED <<settings, orders, calls, ledger, total>>

MoveSession(s, from, to, tableFrom, tableTo) ==
    IF sessions[s].status = from
    THEN /\ sessions' = [sessions EXCEPT ![s].status = to]
         /\ tables' = [tables EXCEPT ![sessions[s].table].status =
                          IF @ = tableFrom THEN tableTo ELSE @]
    ELSE UNCHANGED floor

\* Fault: the session is marked whatever its status is by now.
SettlePendUnconditional(r) ==
    /\ req[r].pc = "settlePend"
    /\ sessions' = [sessions EXCEPT ![req[r].session].status = "PAID_PENDING_SERVICE"]
    /\ tables' = [tables EXCEPT ![sessions[req[r].session].table].status =
                     IF @ = "OPEN" THEN "SETTLING" ELSE @]
    /\ Done(r)
    /\ UNCHANGED <<settings, orders, calls, ledger, total>>

\* Fault: the session is PAID_PENDING_SERVICE and its table still OPEN.
SettlePendSessionOnly(r) ==
    /\ req[r].pc = "settlePend"
    /\ MoveSession(req[r].session, "ACTIVE", "PAID_PENDING_SERVICE", "SETTLING", "SETTLING")
    /\ Done(r)
    /\ UNCHANGED <<settings, orders, calls, ledger, total>>

SettlePend(r) ==
    /\ req[r].pc = "settlePend"
    /\ MoveSession(req[r].session, "ACTIVE", "PAID_PENDING_SERVICE", "OPEN", "SETTLING")
    /\ Done(r)
    /\ UNCHANGED <<settings, orders, calls, ledger, total>>

SettleRevert(r) ==
    /\ req[r].pc = "settleRevert"
    /\ MoveSession(req[r].session, "PAID_PENDING_SERVICE", "ACTIVE", "SETTLING", "OPEN")
    /\ Done(r)
    /\ UNCHANGED <<settings, orders, calls, ledger, total>>

-----------------------------------------------------------------------------
\* The process restarts: what was committed stays, what was in flight is lost.
Crash ==
    /\ MayCrash
    /\ \E r \in Reqs : req[r] # Idle
    /\ req' = [r \in Reqs |-> Idle]
    /\ total' = [r \in Reqs |-> 0]
    /\ UNCHANGED <<floor, settings, orders, calls, ledger>>

Settle(r) ==
    \/ SettleReadSession(r) \/ SettleReadOrders(r) \/ SettleReadPayments(r)
    \/ SettleCountUnserved(r)
    \/ SettleClose(r) \/ SettlePend(r) \/ SettleRevert(r)

\* The next step of a handler in flight.
Continue(r) ==
    \/ IssueDeviceSession(r)
    \/ CheckOrderingEnabled(r) \/ CreateOrder(r)
    \/ CreateStaffCall(r)
    \/ RecordReversal(r) \/ CancelTableCouponRedemption(r)
    \/ Settle(r)

FrontAndAdmin ==
    \/ \E t \in Tables : OpenTable(t) \/ DisableTable(t) \/ EnableTable(t)
    \/ \E s \in DOMAIN sessions : CloseTable(s) \/ ForceCloseTable(s)
    \/ \E t \in Tables, l \in Locks : UpdateTable(t, l)
    \/ \E v \in Switches : UpdateSettings(v)

\* What the kitchen screen may ask for.
Kitchen ==
    \E o \in DOMAIN orders :
        \/ AcceptOrder(o) \/ RejectOrder(o) \/ StartPreparing(o) \/ MarkReady(o)
        \/ \E lines \in (SUBSET DOMAIN orders[o].lines) \ {{}} : CancelOrder(o, lines)

Hall ==
    \/ \E c \in DOMAIN calls : AckCall(c) \/ FinishCall(c)
    \/ \E o \in DOMAIN orders : RevertServedToReady(o)
    \/ Kitchen

\* What the checkout page may ask for, besides a coupon.
Cashier(r) ==
    \/ \E s \in DOMAIN sessions : CreatePayment(r, s) \/ CreateDiscount(r, s)
    \/ \E p \in DOMAIN payments : StartVoid(r, p)

Arrive(r) ==
    \/ \E s \in DOMAIN sessions :
          \/ StartJoin(r, s) \/ StartOrder(r, s) \/ StartStaffCall(r, s)
          \/ \E c \in Coupons : ApplyTableCoupon(r, s, c)
    \/ Cashier(r)
    \/ \E o \in DOMAIN orders : MarkServed(r, o)

Next ==
    \/ FrontAndAdmin
    \/ Hall
    \/ \E r \in Reqs : Arrive(r) \/ Continue(r)
    \/ Crash

Spec == Init /\ [][Next]_vars

\* A started handler is run to its end: Node serves every resolved await, and
\* SQLite's single connection is handed to the waiting statements in turn.
FairSpec == Spec /\ \A r \in Reqs : WF_vars(Continue(r))
=============================================================================
