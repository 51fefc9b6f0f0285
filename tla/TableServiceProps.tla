------------------------- MODULE TableServiceProps --------------------------
(***************************************************************************)
(* What the table service promises: the type invariant, the safety         *)
(* invariants and action properties of TableService, and its liveness.     *)
(***************************************************************************)
EXTENDS TableService

TableRow == [status : {"AVAILABLE", "OPEN", "SETTLING", "DISABLED"},
             ordersLocked : BOOLEAN, paymentsLocked : BOOLEAN]
CloseReasons == {"NONE", "NORMAL", "FORCE_CLOSED", "AUTO_SETTLED"}
SessionRow == [table : Tables,
               status : LiveStatuses \cup {"CLOSED"},
               closeReason : CloseReasons,
               joined : BOOLEAN]
OrderRow == [session : Nat, status : OrderStatuses, lines : Seq(Items), live : SUBSET Nat]
Allocation == [order : Nat, line : Nat, quantity : Nat]
PaymentRecord == [session : Nat, kind : Originals \cup Reversals, amount : Nat,
                  reversedPaymentId : Nat, coupon : Coupons \cup {NoCoupon},
                  allocations : SUBSET Allocation]
CallRow == [session : Nat, status : OpenCallStatuses \cup {"DONE"}]
RequestRecord == [pc : Steps, session : Nat, row : Nat,
                  seen : {"NONE"} \cup Reversals \cup LiveStatuses]

\* The shape the schema gives every row.
RowsOK ==
    /\ tables \in [Tables -> TableRow]
    /\ settings \in SettingsRecords
    /\ sessions \in Seq(SessionRow)
    /\ orders \in Seq(OrderRow)
    /\ payments \in Seq(PaymentRecord)
    /\ calls \in Seq(CallRow)
    /\ coupons \in [Coupons -> {"AVAILABLE", "USED"}]
    /\ redemptions \in [Coupons -> [session : Nat, status : {"NONE", "LIVE", "CANCELLED"}]]
    /\ req \in [Reqs -> RequestRecord]

\* Foreign keys: the session of every row and of every handler in flight exists.
ReferencesOK ==
    /\ \A o \in DOMAIN orders : orders[o].session \in DOMAIN sessions
    /\ \A p \in DOMAIN payments : payments[p].session \in DOMAIN sessions
    /\ \A c \in DOMAIN calls : calls[c].session \in DOMAIN sessions
    /\ \A r \in Reqs : req[r].pc # "idle" => req[r].session \in DOMAIN sessions
    /\ \A r \in Reqs : req[r].pc \in {"voiding", "couponCancelling"} =>
          /\ req[r].row \in DOMAIN payments
          /\ payments[req[r].row].session = req[r].session
    /\ \A r \in Reqs : req[r].pc = "voiding" => req[r].seen \in Reversals

\* The type invariant: rows have the shape the schema gives them, and every row
\* and every handler in flight refers to rows that exist.
TypeOK == RowsOK /\ ReferencesOK

-----------------------------------------------------------------------------
(* Tables and sessions                                                     *)

\* A table has at most one live session, and says OPEN while that session is
\* ACTIVE, SETTLING while it is PAID_PENDING_SERVICE and neither otherwise:
\* "Table.status and TableSession.status never diverge" whatever handlers race.
TableSessionAgreement ==
    /\ \A s, q \in DOMAIN sessions :
          IsLive(s) /\ IsLive(q) /\ sessions[s].table = sessions[q].table => s = q
    /\ \A s \in DOMAIN sessions : IsLive(s) =>
          tables[sessions[s].table].status =
             IF sessions[s].status = "ACTIVE" THEN "OPEN" ELSE "SETTLING"
    /\ \A t \in Tables : tables[t].status \in {"OPEN", "SETTLING"} => LiveSessions(t) # {}

\* A closed session stays closed for the reason it was closed for: no handler
\* that read it while it was live brings it back.
ClosedForGood ==
    [][\A s \in DOMAIN sessions : sessions[s].status = "CLOSED" =>
          /\ sessions'[s].status = "CLOSED"
          /\ sessions'[s].closeReason = sessions[s].closeReason]_vars

\* Automatic closing is the outcome of having taken money: whatever was
\* cancelled meanwhile, a session closed as AUTO_SETTLED has a payment.
AutoCloseTookMoney ==
    \A s \in DOMAIN sessions : sessions[s].closeReason = "AUTO_SETTLED" =>
        \E p \in RowsOf(payments, s) : payments[p].kind \in Originals

\* A session has at most one call nobody has finished, also when a guest asks
\* twice or two devices ask at once.
OneOpenCall ==
    \A s \in DOMAIN sessions : Cardinality(OpenCalls(s)) <= 1

-----------------------------------------------------------------------------
(* Money                                                                   *)

\* A charge or a discount is reversed at most once, by the amount and in the
\* session of the original, whether its reversals see the session live (VOID)
\* or closed (REFUND); a reversal is never itself reversed.
ReversedOnce ==
    /\ \A p, q \in DOMAIN payments :
          payments[p].kind \in Reversals /\ payments[q].kind \in Reversals
          /\ payments[p].reversedPaymentId = payments[q].reversedPaymentId => p = q
    /\ \A p \in DOMAIN payments : payments[p].kind \in Reversals =>
          /\ payments[p].reversedPaymentId \in DOMAIN payments
          /\ LET o == payments[payments[p].reversedPaymentId]
             IN  o.kind \in Originals /\ o.amount = payments[p].amount
                 /\ o.session = payments[p].session

\* The units of a line paid for by item are never negative nor more than were
\* ordered, over every mix of item payments and their reversals.
PaidWithinQuantity ==
    \A o \in DOMAIN orders : \A l \in DOMAIN orders[o].lines :
        PaidQuantity(payments, o, l) \in 0..Quantity[orders[o].lines[l]]

\* More is held than is owed only when something ordered was cancelled or
\* rejected: racing payments, discounts and reversals alone never overcharge,
\* and what is held is never negative.
OverpaidOnlyByCancellation ==
    \A s \in DOMAIN sessions :
        /\ PaidAmount(payments, s) >= 0
        /\ Remaining(s) < 0 =>
              \E o \in RowsOf(orders, s) :
                 \/ orders[o].status \in NotCharged
                 \/ orders[o].live # DOMAIN orders[o].lines

-----------------------------------------------------------------------------
(* Coupons                                                                 *)

\* A coupon is used exactly when it has a redemption, which one discount of the
\* same session stands for; a session has at most one live redemption.
CouponUsedOnce ==
    /\ \A c \in Coupons :
          LET discounts == {p \in DOMAIN payments : payments[p].coupon = c}
          IN  IF coupons[c] = "AVAILABLE"
              THEN redemptions[c].status = "NONE" /\ discounts = {}
              ELSE /\ redemptions[c].status # "NONE"
                   /\ \E p \in discounts :
                        /\ discounts = {p}
                        /\ payments[p].session = redemptions[c].session
                        /\ payments[p].kind = "DISCOUNT"
    /\ \A s \in DOMAIN sessions : Cardinality(LiveRedemptions(s)) <= 1

\* Unless the server stops in between, a redemption is live exactly while its
\* discount stands: reversing the discount cancels it by the time the handler
\* that reversed it goes on.
RedemptionFollowsDiscount ==
    \A c \in Coupons, p \in DOMAIN payments : payments[p].coupon = c =>
        \/ redemptions[c].status = "LIVE" <=> ReversalsOf(p) = {}
        \/ \E r \in Reqs : req[r].pc = "couponCancelling" /\ req[r].row = p

-----------------------------------------------------------------------------
(* Settlement                                                              *)

Quiet(s) == \A r \in Reqs : req[r].pc = "idle" \/ req[r].session # s
NothingCancelled(s) ==
    \A o \in RowsOf(orders, s) :
        /\ orders[o].status \notin NotCharged
        /\ orders[o].live = DOMAIN orders[o].lines
Settled(s) == Remaining(s) = 0 /\ PaidAmount(payments, s) # 0 /\ UnservedOrders(orders, s) = {}

\* When the last payment and the last serving race, one of the two evaluations
\* sees both: a session with everything paid and served, and nothing cancelled,
\* is not left open once no handler works on it.
SettlementNotForgotten ==
    \A s \in DOMAIN sessions : IsLive(s) /\ Quiet(s) /\ NothingCancelled(s) => ~Settled(s)

\* An evaluation under way on a session with everything paid and served ends
\* with the session closed, unless that stops being the case first.
SettleCloses ==
    \A s \in 1..MaxSessions :
        (\E r \in Reqs : req[r].pc = "settleSession" /\ req[r].session = s /\ Settled(s))
        ~> \/ s \in DOMAIN sessions /\ sessions[s].status = "CLOSED"
           \/ s \in DOMAIN sessions /\ ~Settled(s)

-----------------------------------------------------------------------------
(* What the documentation says and the code does not keep                  *)

\* maybeAutoSettleTableSession: the automatic close is the result of all the
\* money due having been received, with nothing left to serve.
AutoCloseOnlySettled ==
    [][\A s \in DOMAIN sessions :
          sessions[s].status # "CLOSED" /\ sessions'[s].closeReason = "AUTO_SETTLED" =>
             Remaining(s) <= 0 /\ UnservedOrders(orders, s) = {}]_vars

=============================================================================
