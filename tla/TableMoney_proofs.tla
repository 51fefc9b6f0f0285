-------------------------- MODULE TableMoney_proofs --------------------------
(***************************************************************************)
(* Proofs about the money of TableService: what a session pays, what is    *)
(* reversed, what is paid by item, and when a session settles itself.      *)
(***************************************************************************)
EXTENDS TableService_proofs, SumTheorems

-----------------------------------------------------------------------------
(* The bill (Billing)                                                      *)

\* What a session holds: its rows added up, the reversals taken back.
Held(rows, s) == SumFunction([n \in RowsOf(rows, s) |-> Signed(rows, n)])

\* What ReversedOnce says of payments, of any payment rows.
BackOnce(rows) ==
    /\ \A p, q \in DOMAIN rows :
          rows[p].kind \in Reversals /\ rows[q].kind \in Reversals
          /\ rows[p].reversedPaymentId = rows[q].reversedPaymentId => p = q
    /\ \A p \in DOMAIN rows : rows[p].kind \in Reversals =>
          /\ rows[p].reversedPaymentId \in DOMAIN rows
          /\ LET o == rows[rows[p].reversedPaymentId]
             IN  o.kind \in Originals /\ o.amount = rows[p].amount
                 /\ o.session = rows[p].session

LEMMA FiniteRows ==
    ASSUME NEW Row, NEW rows \in Seq(Row)
    PROVE  IsFiniteSet(DOMAIN rows) /\ \A S \in SUBSET DOMAIN rows : IsFiniteSet(S)
  <1>1. DOMAIN rows = 1..Len(rows) /\ Len(rows) \in Nat
    OBVIOUS
  <1>2. IsFiniteSet(DOMAIN rows)
    BY <1>1, FS_Interval
  <1> QED
    BY <1>2, FS_Subset

LEMMA SignedType ==
    ASSUME NEW rows \in Seq(PaymentRecord)
    PROVE  \A n \in DOMAIN rows : Signed(rows, n) \in Int
  <1> SUFFICES ASSUME NEW n \in DOMAIN rows PROVE Signed(rows, n) \in Int
    OBVIOUS
  <1>1. rows[n] \in PaymentRecord
    BY ElementOfSeq
  <1>2. rows[n].amount \in Nat
    BY <1>1 DEF PaymentRecord
  <1> QED
    BY <1>2 DEF Signed

\* Charges and discounts together are all a session holds.
LEMMA PaidIsHeld ==
    ASSUME NEW rows \in Seq(PaymentRecord), BackOnce(rows), NEW s
    PROVE  PaidAmount(rows, s) = Held(rows, s)
  <1> DEFINE S == RowsOf(rows, s)
             C == {n \in S : Axis(rows, n) = "CHARGE"}
             D == {n \in S : Axis(rows, n) = "DISCOUNT"}
             f == [n \in S |-> Signed(rows, n)]
             g == [n \in C |-> Signed(rows, n)]
             h == [n \in D |-> Signed(rows, n)]
  <1>1. S \subseteq DOMAIN rows /\ C \subseteq S /\ D \subseteq S /\ C \cap D = {}
    BY DEF RowsOf
  <1>2. IsFiniteSet(S) /\ IsFiniteSet(C) /\ IsFiniteSet(D)
    BY <1>1, FiniteRows
  <1>3. ASSUME NEW n \in S PROVE n \in C \cup D
    <2>1. rows[n] \in PaymentRecord
      BY <1>1, ElementOfSeq
    <2>2. rows[n].kind \in Originals \cup Reversals
      BY <2>1 DEF PaymentRecord
    <2>3. CASE rows[n].kind \in Originals
      <3>1. Axis(rows, n) = rows[n].kind
        BY <2>3, Zenon DEF Axis
      <3> QED
        BY <2>3, <3>1 DEF Originals
    <2>4. CASE rows[n].kind \in Reversals
      <3>1. rows[rows[n].reversedPaymentId].kind \in Originals
        BY <1>1, <2>4 DEF BackOnce
      <3>2. rows[n].kind \notin Originals
        BY <2>4 DEF Originals, Reversals
      <3>3. Axis(rows, n) = rows[rows[n].reversedPaymentId].kind
        BY <3>2, Zenon DEF Axis
      <3> QED
        BY <3>1, <3>3 DEF Originals
    <2> QED
      BY <2>2, <2>3, <2>4
  <1>4. C \cup D = S
    BY <1>1, <1>3
  <1>5. \A n \in S : f[n] \in Int
    BY <1>1, SignedType
  <1>6. \A n \in C : g[n] = f[n]
    OBVIOUS
  <1>7. \A n \in D : h[n] = f[n]
    OBVIOUS
  <1>8. /\ SumFunction(f) = SumFunctionOnSet(f, S)
        /\ SumFunction(g) = SumFunctionOnSet(g, C)
        /\ SumFunction(h) = SumFunctionOnSet(h, D)
    BY DEF SumFunction
  <1>9. PaidAmount(rows, s) = SumFunction(g) + SumFunction(h) /\ Held(rows, s) = SumFunction(f)
    BY DEF PaidAmount, ChargedAmount, DiscountAmount, SumOnAxis, Held
  <1> HIDE DEF f, g, h, C, D, S
  <1>10. SumFunctionOnSet(g, C) = SumFunctionOnSet(f, C)
    BY <1>1, <1>2, <1>5, <1>6, SumAgrees
  <1>11. SumFunctionOnSet(h, D) = SumFunctionOnSet(f, D)
    BY <1>1, <1>2, <1>5, <1>7, SumAgrees
  <1>12. SumFunctionOnSet(f, C \cup D) = SumFunctionOnSet(f, C) + SumFunctionOnSet(f, D)
    BY <1>1, <1>2, <1>4, <1>5, SumOfParts
  <1> QED
    BY <1>4, <1>8, <1>9, <1>10, <1>11, <1>12

\* A reversal only takes back what was given: a session never holds less than nothing.
LEMMA HeldIsNatural ==
    ASSUME NEW rows \in Seq(PaymentRecord), BackOnce(rows), NEW s
    PROVE  Held(rows, s) \in Nat
  <1> DEFINE S == RowsOf(rows, s)
             Given == {n \in S : rows[n].kind \in Originals}
             of == [n \in S \ Given |-> rows[n].reversedPaymentId]
             v == [n \in Given |-> rows[n].amount]
             f == [n \in S |-> Signed(rows, n)]
  <1>1. S \subseteq DOMAIN rows /\ Given \in SUBSET S /\ IsFiniteSet(S)
    BY FiniteRows DEF RowsOf
  <1>2. \A n \in S : rows[n] \in PaymentRecord /\ rows[n].session = s
    BY <1>1, ElementOfSeq DEF RowsOf
  <1>3. \A n \in S \ Given : rows[n].kind \in Reversals
    BY <1>2 DEF PaymentRecord
  <1>4. ASSUME NEW n \in S \ Given
        PROVE  of[n] \in Given /\ rows[of[n]].amount = rows[n].amount
    <2>1. /\ rows[n].reversedPaymentId \in DOMAIN rows
          /\ rows[rows[n].reversedPaymentId].kind \in Originals
          /\ rows[rows[n].reversedPaymentId].amount = rows[n].amount
          /\ rows[rows[n].reversedPaymentId].session = s
      BY <1>1, <1>2, <1>3 DEF BackOnce
    <2> QED
      BY <2>1 DEF RowsOf
  <1>5. \A m, n \in S \ Given : of[m] = of[n] => m = n
    BY <1>1, <1>3 DEF BackOnce
  <1>6. \A n \in Given : v[n] \in Nat /\ v[n] \in Int
    BY <1>2 DEF PaymentRecord
  <1>7. \A n \in Given : f[n] = v[n]
    BY DEF Signed
  <1>8. \A n \in S \ Given : f[n] = -v[of[n]]
    BY <1>4 DEF Signed
  <1>9. DOMAIN of = S \ Given /\ Held(rows, s) = SumFunctionOnSet(f, S)
    BY DEF Held, SumFunction
  <1> DEFINE Left == {p \in Given : \A n \in S \ Given : of[n] # p}
  <1>10. IsFiniteSet(Left) /\ Left \in SUBSET Given
    BY <1>1, FS_Subset
  <1> HIDE DEF S, Given, of, v, f
  <1>11. SumFunctionOnSet(f, S) = SumFunctionOnSet(v, Left)
    <2>1. TakesBack(S, Given, of, v, f, Left)
      BY <1>1, <1>4, <1>5, <1>6, <1>7, <1>8, <1>9 DEF TakesBack
    <2> HIDE DEF Left
    <2> QED
      BY <1>1, <2>1, SumTakenBack
  <1>12. SumFunctionOnSet(v, Left) \in Nat
    <2> HIDE DEF Left
    <2> QED
      BY <1>6, <1>10, SumOfNaturals
  <1> QED
    BY <1>9, <1>11, <1>12

\* A row more changes what its session holds, and no other session's.
LEMMA HeldGrows ==
    ASSUME NEW rows \in Seq(PaymentRecord), NEW row \in PaymentRecord, NEW s
    PROVE  LET more == Append(rows, row) IN
           /\ row.session # s => Held(more, s) = Held(rows, s)
           /\ row.session = s =>
                 Held(more, s) = Held(rows, s)
                                   + (IF row.kind \in Originals THEN row.amount ELSE -row.amount)
  <1> DEFINE more == Append(rows, row)
             new == Len(rows) + 1
             S == RowsOf(rows, s)
             f == [n \in S |-> Signed(rows, n)]
             g == [n \in RowsOf(more, s) |-> Signed(more, n)]
             value == IF row.kind \in Originals THEN row.amount ELSE -row.amount
  <1>1. /\ DOMAIN more = DOMAIN rows \cup {new}
        /\ new \notin DOMAIN rows
        /\ more[new] = row
        /\ \A n \in DOMAIN rows : more[n] = rows[n]
    BY AppendRow
  <1>2. S \subseteq DOMAIN rows /\ IsFiniteSet(S)
    BY FiniteRows DEF RowsOf
  <1> HIDE DEF more, new
  <1>3. \A n \in DOMAIN rows : Signed(more, n) = Signed(rows, n)
    BY <1>1 DEF Signed
  <1>4. CASE row.session # s
    <2>1. RowsOf(more, s) = S
      BY <1>1, <1>4 DEF RowsOf
    <2>2. g = f
      BY <1>2, <1>3, <2>1
    <2> QED
      BY <1>4, <2>2 DEF Held, more
  <1>5. CASE row.session = s
    <2>1. RowsOf(more, s) = S \cup {new} /\ new \notin S
      BY <1>1, <1>2, <1>5 DEF RowsOf
    <2>2. Signed(more, new) = value
      BY <1>1 DEF Signed
    <2>3. value \in Int
      BY DEF PaymentRecord
    <2>4. \A n \in S : f[n] \in Int /\ g[n] = f[n]
      BY <1>2, <1>3, <2>1, SignedType
    <2>5. g[new] = value /\ DOMAIN g = S \cup {new} /\ DOMAIN f = S
      BY <2>1, <2>2
    <2>6. IsFiniteSet(DOMAIN f)
      BY <1>2
    <2> HIDE DEF f, g, S, value
    <2>7. Extends(g, f, new)
      BY <2>1, <2>3, <2>4, <2>5 DEF Extends
    <2>8. SumFunction(g) = SumFunction(f) + g[new]
      BY <2>6, <2>7, SumExtended
    <2> QED
      BY <1>5, <2>5, <2>8 DEF Held, f, g, S, more, value
  <1> QED
    BY <1>4, <1>5 DEF more

-----------------------------------------------------------------------------
(* What a step does to the orders and payments                             *)

\* A charge or a discount of no more than remains, of an amount or of units that
\* are not paid for.
TakesPayment(r, row) ==
    /\ row \in PaymentRecord /\ row.session \in DOMAIN sessions
    /\ row.kind \in Originals /\ row.reversedPaymentId = 0
    /\ row.amount = 0 \/ row.amount <= Remaining(row.session)
    /\ row.allocations \subseteq Payable(row.session) /\ NamesLinesOnce(row.allocations)
    /\ payments' = Append(payments, row)
    /\ row.coupon \in Coupons => coupons[row.coupon] = "AVAILABLE"
    /\ redemptions' = IF row.coupon \in Coupons
                      THEN [redemptions EXCEPT ![row.coupon] =
                               [session |-> row.session, status |-> "LIVE"]]
                      ELSE redemptions
    /\ req[r].pc = "idle" /\ StartSettle(r, row.session)
    /\ UNCHANGED <<orders, sessions, total>>

\* A reversal of a payment nobody has reversed.
TakesPaymentBack(r) ==
    /\ req[r].pc = "voiding" /\ req[r].row \in DOMAIN payments
    /\ payments[req[r].row].kind \in Originals
    /\ payments[req[r].row].session = req[r].session
    /\ req[r].seen \in Reversals
    /\ ReversalsOf(req[r].row) = {}
    /\ ReversalRow(r) \in PaymentRecord
    /\ payments' = Append(payments, ReversalRow(r))
    /\ AfterReversal(r)
    /\ UNCHANGED <<orders, sessions, redemptions, total>>

PlacesOrder(r, row) ==
    /\ row \in OrderRow /\ row.session \in DOMAIN sessions
    /\ row.status = "NEW" /\ row.live = DOMAIN row.lines
    /\ orders' = Append(orders, row)
    /\ req[r].pc = "ordering" /\ Done(r)
    /\ UNCHANGED <<payments, sessions, total>>

\* An order that is charged as it was ordered.
OnBill(order) == order.status \notin NotCharged /\ order.live = DOMAIN order.lines

\* An order moves on or is cancelled, in part or whole: it never comes back on the
\* bill, and it is served by a handler that goes on to look at the session.
ChangesOrder(o, row) ==
    /\ row \in OrderRow
    /\ row.session = orders[o].session /\ row.lines = orders[o].lines
    /\ OnBill(row) => OnBill(orders[o])
    /\ orders' = [orders EXCEPT ![o] = row]
    /\ UNCHANGED <<payments, sessions, total>>
    /\ \/ UNCHANGED req /\ (row.status = "SERVED" => orders[o].status = "SERVED")
       \/ \E r \in Reqs : req[r].pc = "idle" /\ StartSettle(r, orders[o].session)

\* A handler takes money only from what remains.
LEMMA ArrivePays ==
    ASSUME TypeOK, ServiceAssumption, NEW r \in Reqs, Arrive(r)
    PROVE  \/ UNCHANGED <<orders, payments>>
           \/ \E row \in PaymentRecord : TakesPayment(r, row)
           \/ \E o \in DOMAIN orders, row \in OrderRow : ChangesOrder(o, row)
  <1>1. ASSUME NEW s \in DOMAIN sessions,
               StartJoin(r, s) \/ StartOrder(r, s) \/ StartStaffCall(r, s)
        PROVE  UNCHANGED <<orders, payments>>
    BY <1>1 DEF StartJoin, StartOrder, StartStaffCall, ledger
  <1>2. ASSUME NEW s \in DOMAIN sessions, NEW kind \in Originals, PayAmount(r, s, kind)
        PROVE  \E row \in PaymentRecord : TakesPayment(r, row)
    <2>1. PICK amount \in 1..Remaining(s) :
             payments' = Append(payments, PaymentRow(s, kind, amount, 0, NoCoupon, {}))
      BY <1>2 DEF PayAmount
    <2> DEFINE row == PaymentRow(s, kind, amount, 0, NoCoupon, {})
    <2>2. amount \in Nat /\ s \in Nat /\ amount <= Remaining(s)
      BY LenProperties DEF TypeOK, RowsOK
    <2>3. row \in PaymentRecord
      BY <2>2 DEF PaymentRow, PaymentRecord
    <2>4. /\ row.session = s /\ row.kind \in Originals /\ row.reversedPaymentId = 0
          /\ row.amount <= Remaining(s) /\ row.allocations = {}
          /\ row.coupon \notin Coupons
      BY <2>2 DEF PaymentRow, ServiceAssumption
    <2>5. /\ req[r].pc = "idle" /\ StartSettle(r, s)
          /\ UNCHANGED <<orders, sessions, redemptions, total>>
      BY <1>2 DEF PayAmount, floor
    <2> HIDE DEF row
    <2>6. TakesPayment(r, row)
      BY <2>1, <2>3, <2>4, <2>5 DEF TakesPayment, NamesLinesOnce, row
    <2> QED
      BY <2>3, <2>6
  <1>3. ASSUME NEW s \in DOMAIN sessions, PayItems(r, s)
        PROVE  \E row \in PaymentRecord : TakesPayment(r, row)
    <2>1. PICK allocations \in SUBSET Payable(s), amount \in 0..NonNegative(Remaining(s)) :
             /\ NamesLinesOnce(allocations)
             /\ payments' = Append(payments,
                               PaymentRow(s, "CHARGE", amount, 0, NoCoupon, allocations))
      BY <1>3 DEF PayItems
    <2> DEFINE row == PaymentRow(s, "CHARGE", amount, 0, NoCoupon, allocations)
    <2>2. amount \in Nat /\ s \in Nat
      BY LenProperties DEF TypeOK, RowsOK
    <2>3. amount = 0 \/ amount <= Remaining(s)
      BY <2>2 DEF NonNegative
    <2>4. Payable(s) \subseteq Allocation
      BY PayableAllocations
    <2>5. row \in PaymentRecord
      BY <2>2, <2>4 DEF PaymentRow, PaymentRecord, Originals
    <2>6. /\ row.session = s /\ row.kind \in Originals /\ row.reversedPaymentId = 0
          /\ row.amount = amount /\ row.allocations = allocations
          /\ row.coupon \notin Coupons
      BY DEF PaymentRow, Originals, ServiceAssumption
    <2>7. /\ req[r].pc = "idle" /\ StartSettle(r, s)
          /\ UNCHANGED <<orders, sessions, redemptions, total>>
      BY <1>3 DEF PayItems, floor
    <2> HIDE DEF row
    <2>8. TakesPayment(r, row)
      BY <2>1, <2>3, <2>5, <2>6, <2>7 DEF TakesPayment, row
    <2> QED
      BY <2>5, <2>8
  <1>4. ASSUME NEW s \in DOMAIN sessions, NEW c \in Coupons, ApplyTableCoupon(r, s, c)
        PROVE  \E row \in PaymentRecord : TakesPayment(r, row)
    <2>1. PICK amount \in 1..Remaining(s) :
             payments' = Append(payments, PaymentRow(s, "DISCOUNT", amount, 0, c, {}))
      BY <1>4 DEF ApplyTableCoupon
    <2> DEFINE row == PaymentRow(s, "DISCOUNT", amount, 0, c, {})
    <2>2. amount \in Nat /\ s \in Nat /\ amount <= Remaining(s)
      BY LenProperties DEF TypeOK, RowsOK
    <2>3. row \in PaymentRecord
      BY <2>2 DEF PaymentRow, PaymentRecord, Originals
    <2>4. /\ row.session = s /\ row.kind \in Originals /\ row.reversedPaymentId = 0
          /\ row.amount <= Remaining(s) /\ row.allocations = {} /\ row.coupon = c
      BY <2>2 DEF PaymentRow, Originals
    <2>5. /\ req[r].pc = "idle" /\ coupons[c] = "AVAILABLE"
          /\ StartSettle(r, s) /\ UNCHANGED <<orders, sessions, total>>
          /\ redemptions' = [redemptions EXCEPT ![c] = [session |-> s, status |-> "LIVE"]]
      BY <1>4 DEF ApplyTableCoupon, floor
    <2> HIDE DEF row
    <2>6. TakesPayment(r, row)
      BY <2>1, <2>3, <2>4, <2>5 DEF TakesPayment, NamesLinesOnce, row
    <2> QED
      BY <2>3, <2>6
  <1>5. ASSUME NEW p \in DOMAIN payments, StartVoid(r, p) PROVE UNCHANGED <<orders, payments>>
    BY <1>5 DEF StartVoid, ledger
  <1>6. ASSUME NEW o \in DOMAIN orders, MarkServed(r, o)
        PROVE  \E row \in OrderRow : ChangesOrder(o, row)
    <2> DEFINE row == [orders[o] EXCEPT !.status = "SERVED"]
    <2>1. orders[o] \in OrderRow
      BY ElementOfSeq DEF TypeOK, RowsOK
    <2>2. /\ row \in OrderRow /\ row.session = orders[o].session
          /\ row.lines = orders[o].lines /\ row.live = orders[o].live
      BY <2>1 DEF OrderRow, OrderStatuses
    <2>3. orders[o].status = "READY" /\ orders' = [orders EXCEPT ![o] = row]
      BY <1>6 DEF MarkServed, ApplyTransition
    <2>4. UNCHANGED <<payments, sessions, total>>
      BY <1>6 DEF MarkServed, ApplyTransition, floor, ledger
    <2>5. req[r].pc = "idle" /\ StartSettle(r, orders[o].session)
      BY <1>6 DEF MarkServed
    <2> HIDE DEF row
    <2>6. ChangesOrder(o, row)
      BY <2>2, <2>3, <2>4, <2>5 DEF ChangesOrder, OnBill, NotCharged
    <2> QED
      BY <2>2, <2>6
  <1>7. CASE \E s \in DOMAIN sessions :
                \/ StartJoin(r, s) \/ StartOrder(r, s) \/ StartStaffCall(r, s)
                \/ \E c \in Coupons : ApplyTableCoupon(r, s, c)
    BY <1>1, <1>4, <1>7
  <1>8. CASE Cashier(r)
    <2>1. "CHARGE" \in Originals /\ "DISCOUNT" \in Originals
      BY DEF Originals
    <2> QED
      BY <1>2, <1>3, <1>5, <1>8, <2>1, Zenon DEF Cashier, CreatePayment, CreateDiscount
  <1>9. CASE \E o \in DOMAIN orders : MarkServed(r, o)
    BY <1>6, <1>9
  <1> QED
    BY <1>7, <1>8, <1>9, Zenon DEF Arrive

\* The kitchen and the hall put nothing back on a bill.
LEMMA HallChanges ==
    ASSUME TypeOK, Hall
    PROVE  \/ UNCHANGED <<orders, payments>>
           \/ \E o \in DOMAIN orders, row \in OrderRow : ChangesOrder(o, row)
  <1>1. ASSUME NEW c \in DOMAIN calls, AckCall(c) \/ FinishCall(c)
        PROVE  UNCHANGED <<orders, payments>>
    BY <1>1 DEF AckCall, FinishCall, ledger
  <1>2. ASSUME NEW o \in DOMAIN orders,
               \/ AcceptOrder(o) \/ RejectOrder(o) \/ StartPreparing(o)
               \/ MarkReady(o) \/ RevertServedToReady(o)
        PROVE  \E row \in OrderRow : ChangesOrder(o, row)
    <2>1. PICK v \in OrderStatuses \ {"SERVED"} :
             /\ orders' = [orders EXCEPT ![o] = [orders[o] EXCEPT !.status = v]]
             /\ orders[o].status \notin NotCharged
      BY <1>2 DEF AcceptOrder, RejectOrder, StartPreparing, MarkReady,
                  RevertServedToReady, ApplyTransition, OrderStatuses,
                  ActiveOrderStatuses, NotCharged
    <2> DEFINE row == [orders[o] EXCEPT !.status = v]
    <2>2. orders[o] \in OrderRow
      BY ElementOfSeq DEF TypeOK, RowsOK
    <2>3. /\ row \in OrderRow /\ row.session = orders[o].session /\ row.status = v
          /\ row.lines = orders[o].lines /\ row.live = orders[o].live
      BY <2>2 DEF OrderRow
    <2>4. UNCHANGED <<payments, sessions, total, req>>
      BY <1>2 DEF AcceptOrder, RejectOrder, StartPreparing, MarkReady,
                  RevertServedToReady, ApplyTransition, floor, ledger
    <2>5. orders' = [orders EXCEPT ![o] = row]
      BY <2>1
    <2> HIDE DEF row
    <2>6. ChangesOrder(o, row)
      BY <2>1, <2>3, <2>4, <2>5 DEF ChangesOrder, OnBill
    <2> QED
      BY <2>3, <2>6
  <1>3. ASSUME NEW o \in DOMAIN orders,
               NEW lines \in (SUBSET DOMAIN orders[o].lines) \ {{}},
               CancelOrder(o, lines)
        PROVE  \E row \in OrderRow : ChangesOrder(o, row)
    <2>1. orders[o] \in OrderRow
      BY ElementOfSeq DEF TypeOK, RowsOK
    <2> DEFINE live == orders[o].live \ lines
               v == IF /\ orders[o].status \in Cancellable
                       /\ lines = DOMAIN orders[o].lines \/ live = {}
                    THEN "CANCELLED" ELSE orders[o].status
               row == [orders[o] EXCEPT !.live = live, !.status = v]
    <2>2. v \in OrderStatuses /\ (v = "SERVED" => orders[o].status = "SERVED")
      BY <2>1 DEF OrderRow, OrderStatuses, NotCharged
    <2>3. orders' = [orders EXCEPT ![o].live = live, ![o].status = v]
      BY <1>3, Zenon DEF CancelOrder
    <2> HIDE DEF v
    <2>4. orders' = [orders EXCEPT ![o] = row]
      BY <2>1, <2>3 DEF OrderRow
    <2>5. live \in SUBSET Nat
      BY <2>1 DEF OrderRow
    <2>6. UNCHANGED <<payments, sessions, total, req>>
      BY <1>3 DEF CancelOrder, floor, ledger
    <2>7. live # DOMAIN orders[o].lines
      OBVIOUS
    <2> HIDE DEF live
    <2>8. /\ row \in OrderRow /\ row.session = orders[o].session /\ row.status = v
          /\ row.lines = orders[o].lines /\ row.live = live
      BY <2>1, <2>2, <2>5 DEF OrderRow
    <2> HIDE DEF row
    <2>9. row.live # DOMAIN row.lines
      BY <2>8, <2>7
    <2>10. ChangesOrder(o, row)
      BY <2>2, <2>4, <2>8, <2>6, <2>9 DEF ChangesOrder, OnBill
    <2> QED
      BY <2>8, <2>10
  <1> QED
    BY <1>1, <1>2, <1>3, Zenon DEF Hall, Kitchen

\* A handler in flight places an order or takes a payment back.
LEMMA ContinueChanges ==
    ASSUME TypeOK, ServiceAssumption, ReversalInv, NEW r \in Reqs, Continue(r)
    PROVE  \/ UNCHANGED <<orders, payments>>
           \/ TakesPaymentBack(r)
           \/ \E row \in OrderRow : PlacesOrder(r, row)
  <1>1. CASE CreateOrder(r)
    <2>1. PICK b \in Baskets :
             orders' = Append(orders, [session |-> req[r].session, status |-> "NEW",
                                       lines |-> b, live |-> DOMAIN b])
      BY <1>1 DEF CreateOrder
    <2> DEFINE row == [session |-> req[r].session, status |-> "NEW", lines |-> b,
                       live |-> DOMAIN b]
    <2>2. b \in Seq(Items) /\ DOMAIN b \subseteq Nat
      BY LenProperties DEF ServiceAssumption
    <2>3. req[r].session \in DOMAIN sessions /\ req[r].session \in Nat
      BY <1>1 DEF CreateOrder, TypeOK, RowsOK, ReferencesOK, RequestRecord
    <2>4. row \in OrderRow
      BY <2>2, <2>3 DEF OrderRow, OrderStatuses, ActiveOrderStatuses
    <2>5. row.session = req[r].session /\ row.status = "NEW" /\ row.live = DOMAIN row.lines
      OBVIOUS
    <2>6. /\ UNCHANGED <<payments, sessions, total>>
          /\ req[r].pc = "ordering" /\ Done(r)
      BY <1>1 DEF CreateOrder, floor, ledger
    <2>7. orders' = Append(orders, row)
      BY <2>1
    <2> HIDE DEF row
    <2>8. PlacesOrder(r, row)
      BY <2>3, <2>4, <2>5, <2>6, <2>7 DEF PlacesOrder
    <2> QED
      BY <2>4, <2>8
  <1>2. CASE RecordReversal(r)
    <2>1. UNCHANGED <<orders, sessions, redemptions, total>> /\ req[r].pc = "voiding"
      BY <1>2 DEF RecordReversal, floor
    <2>2. CASE UNCHANGED payments
      BY <2>1, <2>2
    <2>3. CASE /\ ReversalsOf(req[r].row) = {} /\ AfterReversal(r)
               /\ payments' = Append(payments, ReversalRow(r))
      <3>1. /\ req[r].row \in DOMAIN payments
            /\ payments[req[r].row] \in PaymentRecord
            /\ payments[req[r].row].kind \in Originals
            /\ payments[req[r].row].session = req[r].session
            /\ req[r].session \in Nat /\ req[r].row \in Nat
            /\ req[r].seen \in Reversals
        BY <2>1, ElementOfSeq, LenProperties
           DEF TypeOK, RowsOK, ReferencesOK, RequestRecord, ReversalInv, VoidingOriginals
      <3>2. ReversalRow(r) \in PaymentRecord
        BY <3>1 DEF ReversalRow, PaymentRow, PaymentRecord
      <3> QED
        BY <2>1, <2>3, <3>1, <3>2 DEF TakesPaymentBack
    <2> QED
      BY <1>2, <2>2, <2>3 DEF RecordReversal
  <1>3. CASE ~CreateOrder(r) /\ ~RecordReversal(r)
    <2>1. UNCHANGED payments
      BY <1>3, ContinueLeaves
    <2>2. CASE IssueDeviceSession(r)
      BY <2>1, <2>2 DEF IssueDeviceSession
    <2>3. CASE CheckOrderingEnabled(r) \/ CreateStaffCall(r) \/ CancelTableCouponRedemption(r)
      BY <2>1, <2>3, Zenon
         DEF CheckOrderingEnabled, CreateStaffCall, CancelTableCouponRedemption
    <2>4. CASE Settle(r)
      BY <2>1, <2>4, Zenon
         DEF Settle, SettleReadSession, SettleReadOrders, SettleReadPayments,
             SettleCountUnserved, SettleClose, SettlePend, SettleRevert
    <2> QED
      BY <1>3, <2>1, <2>2, <2>3, <2>4, Zenon DEF Continue
  <1> QED
    BY <1>1, <1>2, <1>3

\* Every step, as the orders and the payments see it.
LEMMA MoneySteps ==
    ASSUME TypeOK, ServiceAssumption, ReversalInv, [Next]_vars
    PROVE  \/ UNCHANGED <<orders, payments>>
           \/ \E r \in Reqs, row \in PaymentRecord : TakesPayment(r, row)
           \/ \E r \in Reqs : TakesPaymentBack(r)
           \/ \E r \in Reqs, row \in OrderRow : PlacesOrder(r, row)
           \/ \E o \in DOMAIN orders, row \in OrderRow : ChangesOrder(o, row)
  <1>1. CASE FrontAndAdmin
    BY <1>1, Zenon DEF FrontAndAdmin, OpenTable, DisableTable, EnableTable, CloseTable,
                ForceCloseTable, UpdateTable, UpdateSettings, ledger
  <1>2. CASE Hall
    BY <1>2, HallChanges
  <1>3. ASSUME NEW r \in Reqs, Arrive(r) \/ Continue(r)
        PROVE  \/ UNCHANGED <<orders, payments>>
               \/ \E row \in PaymentRecord : TakesPayment(r, row)
               \/ TakesPaymentBack(r)
               \/ \E row \in OrderRow : PlacesOrder(r, row)
               \/ \E o \in DOMAIN orders, row \in OrderRow : ChangesOrder(o, row)
    BY <1>3, ArrivePays, ContinueChanges, Zenon
  <1>4. CASE Crash
    BY <1>4 DEF Crash, ledger
  <1>5. CASE UNCHANGED vars
    BY <1>5 DEF vars
  <1> QED
    BY <1>1, <1>2, <1>3, <1>4, <1>5, Zenon DEF Next

-----------------------------------------------------------------------------
(* More is held than is owed only after a cancellation.                    *)

\* Nothing of the session was cancelled or rejected.
AllOnBill(rows, s) == \A o \in RowsOf(rows, s) : OnBill(rows[o])

LEMMA LineAmountType ==
    ASSUME ItemAssumption, NEW i \in Items
    PROVE  LineAmount(i) \in Nat
  <1>1. UnitPrice[i] \in Nat /\ Extra[i] \in Nat /\ Quantity[i] \in Nat
    BY DEF ItemAssumption
  <1>2. UnitPrice[i] + Extra[i] \in Nat
    BY <1>1
  <1> QED
    BY <1>1, <1>2 DEF LineAmount, UnitAmount

\* An order on the bill is worth what was ordered.
LEMMA OrderAmountType ==
    ASSUME ItemAssumption, NEW row \in OrderRow, OnBill(row)
    PROVE  OrderAmount(row) \in Nat
  <1> DEFINE f == [l \in row.live |-> LineAmount(row.lines[l])]
  <1>1. row.lines \in Seq(Items) /\ row.live = DOMAIN row.lines
    BY DEF OrderRow, OnBill
  <1>2. IsFiniteSet(row.live)
    BY <1>1, FiniteRows
  <1>3. ASSUME NEW l \in row.live PROVE f[l] \in Nat
    <2>1. row.lines[l] \in Items
      BY <1>1, ElementOfSeq
    <2> QED
      BY <2>1, LineAmountType
  <1>4. OrderAmount(row) = SumFunctionOnSet(f, row.live)
    BY DEF OrderAmount, OnBill, SumFunction
  <1> HIDE DEF f
  <1> QED
    BY <1>2, <1>3, <1>4, SumOfNaturals

LEMMA TotalAmountType ==
    ASSUME ItemAssumption, NEW rows \in Seq(OrderRow), NEW s, AllOnBill(rows, s)
    PROVE  /\ TotalAmount(rows, s) \in Nat
           /\ IsFiniteSet(RowsOf(rows, s))
           /\ \A n \in RowsOf(rows, s) : OrderAmount(rows[n]) \in Nat
  <1> DEFINE S == RowsOf(rows, s)
             f == [n \in S |-> OrderAmount(rows[n])]
  <1>1. S \subseteq DOMAIN rows /\ IsFiniteSet(S)
    BY FiniteRows DEF RowsOf
  <1>2. ASSUME NEW n \in S PROVE OrderAmount(rows[n]) \in Nat
    <2>1. rows[n] \in OrderRow /\ OnBill(rows[n])
      BY <1>1, ElementOfSeq DEF AllOnBill
    <2> QED
      BY <2>1, OrderAmountType
  <1>3. \A n \in S : f[n] \in Nat
    BY <1>2
  <1>4. TotalAmount(rows, s) = SumFunctionOnSet(f, S)
    BY DEF TotalAmount, SumFunction
  <1> HIDE DEF f, S
  <1>5. SumFunctionOnSet(f, S) \in Nat
    BY <1>1, <1>3, SumOfNaturals
  <1> QED
    BY <1>1, <1>2, <1>4, <1>5 DEF S

\* An order more raises the bill of its session by its worth.
LEMMA TotalGrows ==
    ASSUME ItemAssumption, NEW rows \in Seq(OrderRow), NEW row \in OrderRow, NEW s,
           AllOnBill(Append(rows, row), s)
    PROVE  /\ AllOnBill(rows, s)
           /\ TotalAmount(Append(rows, row), s) >= TotalAmount(rows, s)
  <1> DEFINE more == Append(rows, row)
             new == Len(rows) + 1
             S == RowsOf(rows, s)
             f == [n \in S |-> OrderAmount(rows[n])]
             g == [n \in RowsOf(more, s) |-> OrderAmount(more[n])]
  <1>1. /\ more \in Seq(OrderRow)
        /\ DOMAIN more = DOMAIN rows \cup {new}
        /\ new \notin DOMAIN rows
        /\ more[new] = row
        /\ \A n \in DOMAIN rows : more[n] = rows[n]
    BY AppendRow
  <1>2. AllOnBill(more, s) /\ S \subseteq DOMAIN rows
    BY DEF RowsOf
  <1> HIDE DEF more, new
  <1>3. AllOnBill(rows, s)
    BY <1>1, <1>2 DEF AllOnBill, RowsOf
  <1>4. /\ TotalAmount(rows, s) \in Nat /\ IsFiniteSet(S)
        /\ \A n \in S : OrderAmount(rows[n]) \in Nat
    BY <1>3, TotalAmountType
  <1>5. TotalAmount(rows, s) = SumFunction(f) /\ TotalAmount(more, s) = SumFunction(g)
    BY DEF TotalAmount
  <1>6. CASE row.session # s
    <2>1. RowsOf(more, s) = S
      BY <1>1, <1>6 DEF RowsOf
    <2>2. g = f
      BY <1>1, <1>2, <2>1
    <2> HIDE DEF f, g
    <2> QED
      BY <1>3, <1>4, <1>5, <2>2 DEF more
  <1>7. CASE row.session = s
    <2>1. RowsOf(more, s) = S \cup {new} /\ new \notin S
      BY <1>1, <1>2, <1>7 DEF RowsOf
    <2>2. g[new] \in Nat
      BY <1>1, <1>2, <2>1, TotalAmountType
    <2>3. \A n \in S : f[n] \in Int /\ g[n] = f[n]
      BY <1>1, <1>2, <1>4, <2>1
    <2>4. DOMAIN g = S \cup {new} /\ DOMAIN f = S
      BY <2>1
    <2>5. IsFiniteSet(DOMAIN f)
      BY <1>4
    <2> HIDE DEF f, g, S
    <2>6. Extends(g, f, new)
      BY <2>1, <2>2, <2>3, <2>4 DEF Extends
    <2>7. SumFunction(g) = SumFunction(f) + g[new]
      BY <2>5, <2>6, SumExtended
    <2>8. TotalAmount(more, s) >= TotalAmount(rows, s)
      BY <1>4, <1>5, <2>2, <2>7
    <2> QED
      BY <1>3, <2>8 DEF more
  <1> QED
    BY <1>6, <1>7

\* An order that moves on and stays on the bill is worth the same.
MovesOn(rows, o, row, next) ==
    /\ row.session = rows[o].session /\ row.lines = rows[o].lines
    /\ OnBill(row) => OnBill(rows[o])
    /\ next = [rows EXCEPT ![o] = row]

LEMMA TotalStays ==
    ASSUME NEW rows \in Seq(OrderRow), NEW o \in DOMAIN rows, NEW row \in OrderRow, NEW s,
           NEW next, MovesOn(rows, o, row, next), AllOnBill(next, s)
    PROVE  AllOnBill(rows, s) /\ TotalAmount(next, s) = TotalAmount(rows, s)
  <1> USE DEF MovesOn
  <1>1. /\ DOMAIN next = DOMAIN rows
        /\ next[o] = row
        /\ \A n \in DOMAIN rows \ {o} : next[n] = rows[n]
    BY ReplaceRow
  <1>3. \A n \in DOMAIN rows : next[n].session = rows[n].session
    BY <1>1
  <1>4. RowsOf(next, s) = RowsOf(rows, s)
    BY <1>1, <1>3 DEF RowsOf
  <1>5. AllOnBill(rows, s)
    <2> SUFFICES ASSUME NEW n \in RowsOf(rows, s) PROVE OnBill(rows[n])
      BY DEF AllOnBill
    <2>1. OnBill(next[n]) /\ n \in DOMAIN rows
      BY <1>4 DEF AllOnBill, RowsOf
    <2>2. CASE n = o
      BY <1>1, <2>1, <2>2
    <2>3. CASE n # o
      BY <1>1, <2>1, <2>3
    <2> QED
      BY <2>2, <2>3
  <1>6. ASSUME NEW n \in RowsOf(rows, s) PROVE OrderAmount(next[n]) = OrderAmount(rows[n])
    <2>1. n \in DOMAIN rows /\ OnBill(next[n]) /\ OnBill(rows[n])
      BY <1>4, <1>5 DEF AllOnBill, RowsOf
    <2>2. CASE n # o
      BY <1>1, <2>1, <2>2
    <2>3. CASE n = o
      <3>1. row.live = rows[o].live /\ row.status \notin NotCharged
            /\ rows[o].status \notin NotCharged
        BY <1>1, <2>1, <2>3 DEF OnBill
      <3>2. OrderAmount(row) = OrderAmount(rows[o])
        BY <3>1 DEF OrderAmount
      <3> QED
        BY <1>1, <2>3, <3>2
    <2> QED
      BY <2>2, <2>3
  <1>7. TotalAmount(next, s) = TotalAmount(rows, s)
    BY <1>4, <1>6 DEF TotalAmount
  <1> QED
    BY <1>5, <1>7

\* Unless something was cancelled, no session holds more than it owes.
NotOverpaid == \A s \in Nat : AllOnBill(orders, s) => Remaining(s) >= 0

LEMMA NotOverpaidInductive ==
    ASSUME TypeOK, TypeOK', ServiceAssumption, ItemAssumption, ReversalInv, ReversalInv',
           NotOverpaid, [Next]_vars
    PROVE  NotOverpaid'
  <1> SUFFICES ASSUME NEW s \in Nat, AllOnBill(orders', s)
               PROVE  Remaining(s)' >= 0
    BY DEF NotOverpaid
  <1>1. /\ payments \in Seq(PaymentRecord) /\ payments' \in Seq(PaymentRecord)
        /\ orders \in Seq(OrderRow) /\ orders' \in Seq(OrderRow)
    BY DEF TypeOK, RowsOK
  <1>2. BackOnce(payments) /\ BackOnce(payments')
    BY DEF ReversalInv, ReversedOnce, BackOnce
  <1>3. /\ PaidAmount(payments, s) = Held(payments, s) /\ Held(payments, s) \in Nat
        /\ PaidAmount(payments', s) = Held(payments', s) /\ Held(payments', s) \in Nat
    BY <1>1, <1>2, PaidIsHeld, HeldIsNatural
  <1>4. /\ Remaining(s) = TotalAmount(orders, s) - Held(payments, s)
        /\ Remaining(s)' = TotalAmount(orders', s) - Held(payments', s)
    BY <1>3 DEF Remaining, RemainingAmount
  <1>5. TotalAmount(orders', s) \in Nat
    BY <1>1, TotalAmountType
  <1>6. AllOnBill(orders, s) => TotalAmount(orders, s) \in Nat /\ Remaining(s) >= 0
    BY <1>1, TotalAmountType DEF NotOverpaid
  <1>7. CASE UNCHANGED <<orders, payments>>
    BY <1>4, <1>6, <1>7
  <1>8. ASSUME NEW r \in Reqs, NEW row \in PaymentRecord, TakesPayment(r, row)
        PROVE  Remaining(s)' >= 0
    <2>1. /\ row.kind \in Originals
          /\ row.amount = 0 \/ row.amount <= Remaining(row.session)
          /\ payments' = Append(payments, row) /\ orders' = orders
      BY <1>8 DEF TakesPayment
    <2>2. row.amount \in Nat
      BY DEF PaymentRecord
    <2>3. CASE row.session # s
      <3>1. Held(payments', s) = Held(payments, s)
        BY <1>1, <2>1, <2>3, HeldGrows
      <3> QED
        BY <1>4, <1>6, <2>1, <3>1
    <2>4. CASE row.session = s
      <3>1. Held(payments', s) = Held(payments, s) + row.amount
        BY <1>1, <2>1, <2>4, HeldGrows
      <3>2. row.amount = 0 \/ row.amount <= Remaining(s)
        BY <2>1, <2>4
      <3>3. AllOnBill(orders, s) /\ TotalAmount(orders', s) = TotalAmount(orders, s)
        BY <2>1
      <3> QED
        BY <1>3, <1>4, <1>6, <2>2, <3>1, <3>2, <3>3
    <2> QED
      BY <2>3, <2>4
  <1>9. ASSUME NEW r \in Reqs, TakesPaymentBack(r)
        PROVE  Remaining(s)' >= 0
    <2> DEFINE row == ReversalRow(r)
    <2>1. row \in PaymentRecord /\ payments' = Append(payments, row) /\ orders' = orders
      BY <1>9 DEF TakesPaymentBack
    <2>2. row.kind \notin Originals
      BY <1>9 DEF TakesPaymentBack, ReversalRow, PaymentRow, Originals, Reversals
    <2>3. row.amount \in Nat
      BY <2>1 DEF PaymentRecord
    <2> HIDE DEF row
    <2>4. \/ Held(payments', s) = Held(payments, s)
          \/ Held(payments', s) = Held(payments, s) + (-row.amount)
      BY <1>1, <2>1, <2>2, HeldGrows
    <2>5. AllOnBill(orders, s) /\ TotalAmount(orders', s) = TotalAmount(orders, s)
      BY <2>1
    <2> QED
      BY <1>3, <1>4, <1>6, <2>3, <2>4, <2>5
  <1>10. ASSUME NEW r \in Reqs, NEW row \in OrderRow, PlacesOrder(r, row)
         PROVE  Remaining(s)' >= 0
    <2>1. orders' = Append(orders, row) /\ payments' = payments
      BY <1>10 DEF PlacesOrder
    <2>2. AllOnBill(orders, s) /\ TotalAmount(orders', s) >= TotalAmount(orders, s)
      BY <1>1, <2>1, TotalGrows
    <2> QED
      BY <1>3, <1>4, <1>5, <1>6, <2>1, <2>2
  <1>11. ASSUME NEW o \in DOMAIN orders, NEW row \in OrderRow, ChangesOrder(o, row)
         PROVE  Remaining(s)' >= 0
    <2>1. MovesOn(orders, o, row, orders') /\ payments' = payments
      BY <1>11 DEF ChangesOrder, MovesOn
    <2>2. AllOnBill(orders, s) /\ TotalAmount(orders', s) = TotalAmount(orders, s)
      BY <1>1, <2>1, TotalStays
    <2> QED
      BY <1>4, <1>6, <2>1, <2>2
  <1> QED
    BY <1>7, <1>8, <1>9, <1>10, <1>11, MoneySteps

\* A payment's reversals are what ReversalInv says of them in every reachable state.
LEMMA MoneyInvariants == Spec => [](TypeOK /\ ReversalInv /\ NotOverpaid)
  <1>1. Init => ReversalInv
    BY EmptySeq DEF Init, ReversalInv, ReversedOnce, VoidingOriginals, Idle, Request
  <1>2. Init => NotOverpaid
    <2> SUFFICES ASSUME Init, NEW s \in Nat PROVE Remaining(s) >= 0
      BY DEF NotOverpaid
    <2>1. orders = << >> /\ payments = << >>
      BY DEF Init
    <2>2. orders \in Seq(OrderRow) /\ payments \in Seq(PaymentRecord)
      BY <2>1, EmptySeq
    <2>3. RowsOf(orders, s) = {} /\ RowsOf(payments, s) = {} /\ BackOnce(payments)
      BY <2>1 DEF RowsOf, BackOnce
    <2>4. DOMAIN [n \in {} |-> OrderAmount(orders[n])] = {}
          /\ DOMAIN [n \in {} |-> Signed(payments, n)] = {}
      OBVIOUS
    <2>5. TotalAmount(orders, s) = 0 /\ Held(payments, s) = 0
      BY <2>3, <2>4, SumOnNothing DEF TotalAmount, Held, SumFunction
    <2>6. PaidAmount(payments, s) = Held(payments, s)
      BY <2>2, <2>3, PaidIsHeld
    <2> QED
      BY <2>5, <2>6 DEF Remaining, RemainingAmount
  <1>3. TypeOK /\ ReversalInv /\ [Next]_vars => ReversalInv'
    BY ReversalInductive, ServiceAssumption
  <1>4. TypeOK /\ TypeOK' /\ ReversalInv /\ ReversalInv' /\ NotOverpaid /\ [Next]_vars
          => NotOverpaid'
    BY NotOverpaidInductive, ServiceAssumption, ItemAssumption
  <1> QED
    BY TypeCorrect, <1>1, <1>2, <1>3, <1>4, PTL DEF Spec

\* However payments, discounts and reversals race with orders and the kitchen, what
\* a session holds is never negative, and it is more than the session owes only
\* when something ordered was cancelled or rejected.
THEOREM OverpaidOnlyByCancellationHolds == Spec => []OverpaidOnlyByCancellation
  <1>1. ASSUME TypeOK, ReversalInv, NotOverpaid
        PROVE  OverpaidOnlyByCancellation
    <2> SUFFICES ASSUME NEW s \in DOMAIN sessions
                 PROVE  /\ PaidAmount(payments, s) >= 0
                        /\ Remaining(s) < 0 =>
                              \E o \in RowsOf(orders, s) :
                                 \/ orders[o].status \in NotCharged
                                 \/ orders[o].live # DOMAIN orders[o].lines
      BY DEF OverpaidOnlyByCancellation
    <2>1. payments \in Seq(PaymentRecord) /\ BackOnce(payments) /\ s \in Nat
      BY <1>1 DEF TypeOK, RowsOK, ReversalInv, ReversedOnce, BackOnce
    <2>2. PaidAmount(payments, s) \in Nat
      BY <2>1, PaidIsHeld, HeldIsNatural
    <2>3. ASSUME AllOnBill(orders, s) PROVE ~(Remaining(s) < 0)
      <3>1. orders \in Seq(OrderRow)
        BY <1>1 DEF TypeOK, RowsOK
      <3>2. TotalAmount(orders, s) \in Nat
        BY <2>3, <3>1, ItemAssumption, TotalAmountType
      <3> QED
        BY <1>1, <2>1, <2>2, <2>3, <3>2 DEF NotOverpaid, Remaining, RemainingAmount
    <2> QED
      BY <2>2, <2>3 DEF AllOnBill, OnBill
  <1> QED
    BY MoneyInvariants, <1>1, PTL

-----------------------------------------------------------------------------
(* Units paid for by item.                                                 *)

\* The units a row takes, or gives back, of line l of order n.
Taken(row, n, l) ==
    IF row.kind \in Originals THEN Allocated(row, n, l) ELSE -Allocated(row, n, l)

\* A payment names a line once or not at all.
LEMMA AllocatedOnce ==
    ASSUME NEW row \in PaymentRecord, NamesLinesOnce(row.allocations), NEW n, NEW l
    PROVE  /\ Allocated(row, n, l) \in Nat
           /\ Allocated(row, n, l) # 0 =>
                 \E a \in row.allocations :
                    a.order = n /\ a.line = l /\ Allocated(row, n, l) = a.quantity
  <1> DEFINE S == {b \in row.allocations : b.order = n /\ b.line = l}
             f == [a \in S |-> a.quantity]
  <1>1. Allocated(row, n, l) = SumFunctionOnSet(f, S)
    BY DEF Allocated, SumFunction
  <1>2. row.allocations \subseteq Allocation
    BY DEF PaymentRecord
  <1>3. \A a, b \in S : a = b
    BY DEF NamesLinesOnce
  <1>4. CASE S = {}
    <2> HIDE DEF S, f
    <2> QED
      BY <1>1, <1>4, SumOnNothing
  <1>5. ASSUME NEW a \in S
        PROVE  Allocated(row, n, l) = a.quantity /\ a.quantity \in Nat
    <2>1. a.quantity \in Nat /\ f[a] = a.quantity
      BY <1>2 DEF Allocation
    <2>2. S = {} \cup {a} /\ a \notin {}
      BY <1>3
    <2> HIDE DEF S, f
    <2>3. IsFiniteSet({}) /\ \A b \in {} \cup {a} : f[b] \in Int
      BY <2>1, FS_EmptySet
    <2>4. SumFunctionOnSet(f, {} \cup {a}) = f[a] + SumFunctionOnSet(f, {})
      BY <2>2, <2>3, SumWith
    <2> QED
      BY <1>1, <2>1, <2>2, <2>4, SumOnNothing
  <1> QED
    BY <1>4, <1>5

\* Rows that name a line once each, and reversals that name what they reverse did.
AllocationsBack(rows) ==
    /\ \A p \in DOMAIN rows : NamesLinesOnce(rows[p].allocations)
    /\ \A p \in DOMAIN rows : rows[p].kind \in Reversals =>
          rows[p].allocations = rows[rows[p].reversedPaymentId].allocations

LEMMA TakenType ==
    ASSUME NEW rows \in Seq(PaymentRecord), NEW p \in DOMAIN rows, AllocationsBack(rows),
           NEW n, NEW l
    PROVE  Allocated(rows[p], n, l) \in Nat /\ Taken(rows[p], n, l) \in Int
  <1>1. rows[p] \in PaymentRecord /\ NamesLinesOnce(rows[p].allocations)
    BY ElementOfSeq DEF AllocationsBack
  <1>2. Allocated(rows[p], n, l) \in Nat
    BY <1>1, AllocatedOnce
  <1> QED
    BY <1>2 DEF Taken

\* No more units are given back than were taken.
LEMMA PaidIsNatural ==
    ASSUME NEW rows \in Seq(PaymentRecord), BackOnce(rows), AllocationsBack(rows),
           NEW n, NEW l
    PROVE  PaidQuantity(rows, n, l) \in Nat
  <1> DEFINE S == DOMAIN rows
             Given == {p \in S : rows[p].kind \in Originals}
             of == [p \in S \ Given |-> rows[p].reversedPaymentId]
             v == [p \in Given |-> Allocated(rows[p], n, l)]
             f == [p \in S |-> IF rows[p].kind \in Originals THEN Allocated(rows[p], n, l)
                               ELSE -Allocated(rows[p], n, l)]
             Left == {p \in Given : \A q \in S \ Given : of[q] # p}
  <1>1. Given \in SUBSET S /\ IsFiniteSet(S) /\ IsFiniteSet(Left)
    BY FiniteRows
  <1>2. ASSUME NEW p \in S \ Given PROVE p \in DOMAIN rows /\ rows[p].kind \in Reversals
    <2>1. rows[p] \in PaymentRecord
      BY ElementOfSeq
    <2> QED
      BY <2>1 DEF PaymentRecord, Originals, Reversals
  <1>3. ASSUME NEW p \in S \ Given
        PROVE  of[p] \in Given /\ rows[of[p]].allocations = rows[p].allocations
    BY <1>2 DEF BackOnce, AllocationsBack
  <1>4. \A p, q \in S \ Given : of[p] = of[q] => p = q
    BY <1>2 DEF BackOnce
  <1>5. \A p \in Given : v[p] \in Nat /\ v[p] \in Int /\ f[p] = v[p]
    BY TakenType
  <1>6. ASSUME NEW p \in S \ Given PROVE f[p] = -v[of[p]]
    <2>1. Allocated(rows[p], n, l) = Allocated(rows[of[p]], n, l)
      BY <1>3 DEF Allocated
    <2> QED
      BY <1>3, <2>1
  <1>7. DOMAIN of = S \ Given /\ PaidQuantity(rows, n, l) = SumFunctionOnSet(f, S)
    BY DEF PaidQuantity, SumFunction
  <1> HIDE DEF S, Given, of, v, f
  <1>8. TakesBack(S, Given, of, v, f, Left)
    BY <1>1, <1>3, <1>4, <1>5, <1>6, <1>7 DEF TakesBack
  <1>9. Left \subseteq Given
    OBVIOUS
  <1> HIDE DEF Left
  <1>10. SumFunctionOnSet(f, S) = SumFunctionOnSet(v, Left)
    BY <1>1, <1>8, SumTakenBack
  <1>11. SumFunctionOnSet(v, Left) \in Nat
    BY <1>1, <1>5, <1>9, SumOfNaturals
  <1> QED
    BY <1>7, <1>10, <1>11

\* A row more takes, or gives back, the units it names.
LEMMA PaidGrows ==
    ASSUME NEW rows \in Seq(PaymentRecord), NEW row \in PaymentRecord,
           AllocationsBack(rows), NamesLinesOnce(row.allocations), NEW n, NEW l
    PROVE  PaidQuantity(Append(rows, row), n, l)
             = PaidQuantity(rows, n, l) + Taken(row, n, l)
  <1> DEFINE more == Append(rows, row)
             new == Len(rows) + 1
             f == [p \in DOMAIN rows |-> Taken(rows[p], n, l)]
             g == [p \in DOMAIN more |-> Taken(more[p], n, l)]
  <1>1. /\ DOMAIN more = DOMAIN rows \cup {new}
        /\ new \notin DOMAIN rows
        /\ more[new] = row
        /\ \A p \in DOMAIN rows : more[p] = rows[p]
    BY AppendRow
  <1> HIDE DEF more, new
  <1>2. PaidQuantity(rows, n, l) = SumFunction(f) /\ PaidQuantity(more, n, l) = SumFunction(g)
    BY DEF PaidQuantity, Taken
  <1>3. IsFiniteSet(DOMAIN f)
    BY FiniteRows
  <1>4. Taken(row, n, l) \in Int
    BY AllocatedOnce DEF Taken
  <1>5. \A p \in DOMAIN rows : Taken(rows[p], n, l) \in Int
    BY TakenType
  <1>6. g[new] = Taken(row, n, l)
    BY <1>1
  <1>7. Extends(g, f, new)
    BY <1>1, <1>4, <1>5 DEF Extends
  <1> HIDE DEF f, g
  <1>8. SumFunction(g) = SumFunction(f) + g[new]
    BY <1>3, <1>7, SumExtended
  <1> QED
    BY <1>2, <1>6, <1>8 DEF more

\* What is not named is not paid for.
LEMMA PaidNothing ==
    ASSUME NEW rows \in Seq(PaymentRecord), NEW n, NEW l, AllocationsBack(rows),
           \A p \in DOMAIN rows : \A a \in rows[p].allocations : a.order # n
    PROVE  PaidQuantity(rows, n, l) = 0
  <1> DEFINE f == [p \in DOMAIN rows |-> Taken(rows[p], n, l)]
  <1>1. PaidQuantity(rows, n, l) = SumFunctionOnSet(f, DOMAIN rows)
    BY DEF PaidQuantity, Taken, SumFunction
  <1>2. ASSUME NEW p \in DOMAIN rows PROVE f[p] = 0
    <2>1. rows[p] \in PaymentRecord /\ NamesLinesOnce(rows[p].allocations)
      BY ElementOfSeq DEF AllocationsBack
    <2>2. Allocated(rows[p], n, l) = 0
      BY <2>1, AllocatedOnce
    <2>3. Taken(rows[p], n, l) = 0 \/ Taken(rows[p], n, l) = -0
      BY <2>2 DEF Taken
    <2> QED
      BY <2>3
  <1>3. IsFiniteSet(DOMAIN rows)
    BY FiniteRows
  <1> HIDE DEF f
  <1> QED
    BY <1>1, <1>2, <1>3, SumOfZeros

\* What the payments name exists, and no line is paid for beyond what was ordered.
AllocationsExist ==
    \A p \in DOMAIN payments : \A a \in payments[p].allocations : a.order \in DOMAIN orders
NotPaidTwice ==
    \A o \in DOMAIN orders : \A l \in DOMAIN orders[o].lines :
        PaidQuantity(payments, o, l) <= Quantity[orders[o].lines[l]]
ItemsInv == AllocationsBack(payments) /\ AllocationsExist /\ NotPaidTwice

\* What can be paid for by item is in the session's orders, and is not paid for.
LEMMA PayableRemains ==
    ASSUME NEW s, NEW a \in Payable(s)
    PROVE  /\ a.order \in DOMAIN orders /\ a.line \in DOMAIN orders[a.order].lines
           /\ a.quantity \in 1..RemainingQuantity(orders, payments, a.order, a.line)
  BY DEF Payable, RowsOf

LEMMA ItemsPaid ==
    ASSUME TypeOK, ItemAssumption, ReversalInv, ItemsInv,
           NEW r \in Reqs, NEW row \in PaymentRecord, TakesPayment(r, row)
    PROVE  ItemsInv'
  <1>1. /\ payments' = Append(payments, row) /\ orders' = orders
        /\ row.allocations \subseteq Payable(row.session) /\ NamesLinesOnce(row.allocations)
        /\ row.kind \in Originals
    BY DEF TakesPayment
  <1>2. payments \in Seq(PaymentRecord) /\ AllocationsBack(payments) /\ BackOnce(payments)
    BY DEF TypeOK, RowsOK, ItemsInv, ReversalInv, ReversedOnce, BackOnce
  <1> DEFINE new == Len(payments) + 1
  <1>3. /\ DOMAIN payments' = DOMAIN payments \cup {new}
        /\ payments'[new] = row
        /\ \A p \in DOMAIN payments : payments'[p] = payments[p]
    BY <1>1, <1>2, AppendRow
  <1> HIDE DEF new
  <1>4. AllocationsBack(payments')
    <2>1. row.kind \notin Reversals
      BY <1>1 DEF Originals, Reversals
    <2>2. \A p \in DOMAIN payments : payments[p].kind \in Reversals =>
             payments[p].reversedPaymentId \in DOMAIN payments
      BY <1>2 DEF BackOnce
    <2> QED
      BY <1>1, <1>2, <1>3, <2>1, <2>2 DEF AllocationsBack
  <1>5. AllocationsExist'
    <2>1. \A a \in row.allocations : a.order \in DOMAIN orders
      BY <1>1, PayableRemains
    <2> QED
      BY <1>1, <1>3, <2>1 DEF ItemsInv, AllocationsExist
  <1>6. ASSUME NEW o \in DOMAIN orders, NEW l \in DOMAIN orders[o].lines
        PROVE  PaidQuantity(payments', o, l) <= Quantity[orders[o].lines[l]]
    <2>1. PaidQuantity(payments', o, l) = PaidQuantity(payments, o, l) + Taken(row, o, l)
      BY <1>1, <1>2, PaidGrows
    <2>2. Taken(row, o, l) = Allocated(row, o, l)
      BY <1>1 DEF Taken
    <2>3. PaidQuantity(payments, o, l) \in Nat /\ Allocated(row, o, l) \in Nat
      BY <1>1, <1>2, PaidIsNatural, AllocatedOnce
    <2>4. Quantity[orders[o].lines[l]] \in Nat
      <3>1. orders[o] \in OrderRow
        BY ElementOfSeq DEF TypeOK, RowsOK
      <3>2. orders[o].lines[l] \in Items
        BY <3>1, ElementOfSeq DEF OrderRow
      <3> QED
        BY <3>2 DEF ItemAssumption
    <2>5. CASE Allocated(row, o, l) = 0
      <3>1. PaidQuantity(payments, o, l) <= Quantity[orders[o].lines[l]]
        BY DEF ItemsInv, NotPaidTwice
      <3> QED
        BY <2>1, <2>2, <2>3, <2>5, <3>1
    <2>6. CASE Allocated(row, o, l) # 0
      <3>1. PICK a \in row.allocations :
               a.order = o /\ a.line = l /\ Allocated(row, o, l) = a.quantity
        BY <1>1, <2>6, AllocatedOnce
      <3>2. a.quantity \in 1..RemainingQuantity(orders, payments, o, l)
        BY <1>1, <3>1, PayableRemains
      <3>3. a.quantity <= Quantity[orders[o].lines[l]] - PaidQuantity(payments, o, l)
        BY <2>3, <2>4, <3>2 DEF RemainingQuantity
      <3> QED
        BY <2>1, <2>2, <2>3, <2>4, <3>1, <3>3
    <2> QED
      BY <2>5, <2>6
  <1>7. NotPaidTwice'
    BY <1>1, <1>6 DEF NotPaidTwice
  <1> QED
    BY <1>4, <1>5, <1>7 DEF ItemsInv

LEMMA ItemsReversed ==
    ASSUME TypeOK, ItemAssumption, ReversalInv, ItemsInv,
           NEW r \in Reqs, TakesPaymentBack(r)
    PROVE  ItemsInv'
  <1> DEFINE original == req[r].row
             row == ReversalRow(r)
             new == Len(payments) + 1
  <1>1. /\ payments' = Append(payments, row) /\ orders' = orders
        /\ row \in PaymentRecord /\ original \in DOMAIN payments
        /\ row.allocations = payments[original].allocations
        /\ row.reversedPaymentId = original
        /\ row.kind \notin Originals
    BY DEF TakesPaymentBack, ReversalRow, PaymentRow, Originals, Reversals
  <1>2. payments \in Seq(PaymentRecord) /\ AllocationsBack(payments) /\ BackOnce(payments)
    BY DEF TypeOK, RowsOK, ItemsInv, ReversalInv, ReversedOnce, BackOnce
  <1>3. /\ DOMAIN payments' = DOMAIN payments \cup {new}
        /\ payments'[new] = row
        /\ \A p \in DOMAIN payments : payments'[p] = payments[p]
    BY <1>1, <1>2, AppendRow
  <1> HIDE DEF new, row, original
  <1>4. NamesLinesOnce(row.allocations)
    BY <1>1, <1>2 DEF AllocationsBack
  <1>5. AllocationsBack(payments')
    <2>1. \A p \in DOMAIN payments : payments[p].kind \in Reversals =>
             payments[p].reversedPaymentId \in DOMAIN payments
      BY <1>2 DEF BackOnce
    <2> QED
      BY <1>1, <1>2, <1>3, <1>4, <2>1 DEF AllocationsBack
  <1>6. AllocationsExist'
    BY <1>1, <1>3 DEF ItemsInv, AllocationsExist
  <1>7. ASSUME NEW o \in DOMAIN orders, NEW l \in DOMAIN orders[o].lines
        PROVE  PaidQuantity(payments', o, l) <= Quantity[orders[o].lines[l]]
    <2>1. PaidQuantity(payments', o, l) = PaidQuantity(payments, o, l) + Taken(row, o, l)
      BY <1>1, <1>2, <1>4, PaidGrows
    <2>2. PaidQuantity(payments, o, l) \in Nat /\ Allocated(row, o, l) \in Nat
      BY <1>1, <1>2, <1>4, PaidIsNatural, AllocatedOnce
    <2>3. Taken(row, o, l) = -Allocated(row, o, l)
      BY <1>1 DEF Taken
    <2>4. Quantity[orders[o].lines[l]] \in Nat
      <3>1. orders[o] \in OrderRow
        BY ElementOfSeq DEF TypeOK, RowsOK
      <3>2. orders[o].lines[l] \in Items
        BY <3>1, ElementOfSeq DEF OrderRow
      <3> QED
        BY <3>2 DEF ItemAssumption
    <2>5. PaidQuantity(payments, o, l) <= Quantity[orders[o].lines[l]]
      BY DEF ItemsInv, NotPaidTwice
    <2> QED
      BY <2>1, <2>2, <2>3, <2>4, <2>5
  <1>8. NotPaidTwice'
    BY <1>1, <1>7 DEF NotPaidTwice
  <1> QED
    BY <1>5, <1>6, <1>8 DEF ItemsInv

LEMMA ItemsOrdered ==
    ASSUME TypeOK, ItemAssumption, ItemsInv,
           NEW r \in Reqs, NEW row \in OrderRow, PlacesOrder(r, row)
    PROVE  ItemsInv'
  <1> DEFINE new == Len(orders) + 1
  <1>1. orders' = Append(orders, row) /\ payments' = payments
    BY DEF PlacesOrder
  <1>2. orders \in Seq(OrderRow) /\ payments \in Seq(PaymentRecord) /\ AllocationsBack(payments)
    BY DEF TypeOK, RowsOK, ItemsInv
  <1>3. /\ DOMAIN orders' = DOMAIN orders \cup {new}
        /\ new \notin DOMAIN orders
        /\ orders'[new] = row
        /\ \A o \in DOMAIN orders : orders'[o] = orders[o]
    BY <1>1, <1>2, AppendRow
  <1> HIDE DEF new
  <1>4. AllocationsBack(payments') /\ AllocationsExist'
    BY <1>1, <1>2, <1>3 DEF ItemsInv, AllocationsExist
  <1>5. ASSUME NEW l \in DOMAIN row.lines
        PROVE  PaidQuantity(payments, new, l) <= Quantity[row.lines[l]]
    <2>1. \A p \in DOMAIN payments : \A a \in payments[p].allocations : a.order # new
      BY <1>3 DEF ItemsInv, AllocationsExist
    <2>2. PaidQuantity(payments, new, l) = 0
      BY <1>2, <2>1, PaidNothing
    <2>3. row.lines[l] \in Items
      BY ElementOfSeq DEF OrderRow
    <2>4. Quantity[row.lines[l]] \in Nat
      BY <2>3 DEF ItemAssumption
    <2> QED
      BY <2>2, <2>4
  <1>6. NotPaidTwice'
    BY <1>1, <1>3, <1>5 DEF ItemsInv, NotPaidTwice
  <1> QED
    BY <1>4, <1>6 DEF ItemsInv

LEMMA ItemsInductive ==
    ASSUME TypeOK, ServiceAssumption, ItemAssumption, ReversalInv, ItemsInv, [Next]_vars
    PROVE  ItemsInv'
  <1>1. CASE UNCHANGED <<orders, payments>>
    BY <1>1 DEF ItemsInv, AllocationsExist, NotPaidTwice
  <1>2. ASSUME NEW o \in DOMAIN orders, NEW row \in OrderRow, ChangesOrder(o, row)
        PROVE  ItemsInv'
    <2>1. /\ payments' = payments /\ orders' = [orders EXCEPT ![o] = row]
          /\ row.lines = orders[o].lines
      BY <1>2 DEF ChangesOrder
    <2>2. orders \in Seq(OrderRow)
      BY DEF TypeOK, RowsOK
    <2>3. /\ DOMAIN orders' = DOMAIN orders
          /\ orders'[o] = row
          /\ \A n \in DOMAIN orders \ {o} : orders'[n] = orders[n]
      BY <2>1, <2>2, ReplaceRow
    <2>4. \A n \in DOMAIN orders : orders'[n].lines = orders[n].lines
      BY <2>1, <2>3
    <2> QED
      BY <2>1, <2>3, <2>4 DEF ItemsInv, AllocationsExist, NotPaidTwice
  <1>3. ASSUME NEW r \in Reqs, NEW row \in OrderRow, PlacesOrder(r, row)
        PROVE  ItemsInv'
    BY <1>3, ItemsOrdered
  <1> QED
    BY <1>1, <1>2, <1>3, ItemsPaid, ItemsReversed, MoneySteps

\* Over every mix of payments by item and their reversals, whatever handlers race,
\* the units of a line paid for are never negative nor more than were ordered.
THEOREM PaidWithinQuantityHolds == Spec => []PaidWithinQuantity
  <1>1. Init => ItemsInv
    <2> SUFFICES ASSUME Init PROVE ItemsInv
      OBVIOUS
    <2>1. DOMAIN payments = {} /\ DOMAIN orders = {}
      BY DEF Init
    <2> QED
      BY <2>1 DEF ItemsInv, AllocationsBack, AllocationsExist, NotPaidTwice
  <1>2. TypeOK /\ ReversalInv /\ ItemsInv /\ [Next]_vars => ItemsInv'
    BY ItemsInductive, ServiceAssumption, ItemAssumption
  <1>3. ASSUME TypeOK, ReversalInv, ItemsInv
        PROVE  PaidWithinQuantity
    <2> SUFFICES ASSUME NEW o \in DOMAIN orders, NEW l \in DOMAIN orders[o].lines
                 PROVE  PaidQuantity(payments, o, l) \in 0..Quantity[orders[o].lines[l]]
      BY DEF PaidWithinQuantity
    <2>1. /\ payments \in Seq(PaymentRecord) /\ BackOnce(payments)
          /\ AllocationsBack(payments)
      BY <1>3 DEF TypeOK, RowsOK, ReversalInv, ReversedOnce, BackOnce, ItemsInv
    <2>2. PaidQuantity(payments, o, l) \in Nat
      BY <2>1, PaidIsNatural
    <2>3. Quantity[orders[o].lines[l]] \in Nat
      <3>1. orders[o] \in OrderRow
        BY <1>3, ElementOfSeq DEF TypeOK, RowsOK
      <3>2. orders[o].lines[l] \in Items
        BY <3>1, ElementOfSeq DEF OrderRow
      <3> QED
        BY <3>2, ItemAssumption DEF ItemAssumption
    <2>4. PaidQuantity(payments, o, l) <= Quantity[orders[o].lines[l]]
      BY <1>3 DEF ItemsInv, NotPaidTwice
    <2> QED
      BY <2>2, <2>3, <2>4
  <1> QED
    BY MoneyInvariants, <1>1, <1>2, <1>3, PTL DEF Spec

-----------------------------------------------------------------------------
(* The handlers                                                            *)

\* A handler that is entered starts at one of these steps.
LEMMA ArriveStarts ==
    ASSUME TypeOK, NEW r \in Reqs, Arrive(r)
    PROVE  /\ req[r].pc = "idle"
           /\ UNCHANGED total
           /\ \E h \in RequestRecord :
                 /\ h.pc \in {"joining", "gating", "calling", "voiding", "settleSession"}
                 /\ req' = [req EXCEPT ![r] = h]
  <1> DEFINE First == {"joining", "gating", "calling", "voiding", "settleSession"}
  <1>1. DOMAIN sessions \subseteq Nat /\ DOMAIN payments \subseteq Nat
    BY LenProperties DEF TypeOK, RowsOK
  <1>2. ASSUME NEW pc \in First, NEW s \in Nat, NEW n \in Nat,
               NEW seen \in {"NONE"} \cup Reversals
        PROVE  Request(pc, s, n, seen) \in RequestRecord /\ Request(pc, s, n, seen).pc = pc
    <2>1. pc \in Steps
      BY DEF Steps, SettleSteps
    <2> QED
      BY <2>1 DEF Request, RequestRecord
  <1>3. ASSUME NEW s \in DOMAIN sessions,
               StartJoin(r, s) \/ StartOrder(r, s) \/ StartStaffCall(r, s)
        PROVE  /\ req[r].pc = "idle"
               /\ UNCHANGED total
               /\ \E pc \in First : req' = [req EXCEPT ![r] = Request(pc, s, 0, "NONE")]
    BY <1>3, Zenon DEF StartJoin, StartOrder, StartStaffCall
  <1>4. ASSUME NEW s \in DOMAIN sessions, NEW c \in Coupons, ApplyTableCoupon(r, s, c)
        PROVE  req[r].pc = "idle" /\ UNCHANGED total /\ StartSettle(r, s)
    BY <1>4, Zenon DEF ApplyTableCoupon
  <1>5. ASSUME NEW s \in DOMAIN sessions, CreatePayment(r, s) \/ CreateDiscount(r, s)
        PROVE  req[r].pc = "idle" /\ UNCHANGED total /\ StartSettle(r, s)
    BY <1>5, Zenon DEF CreatePayment, CreateDiscount, PayAmount, PayItems
  <1>6. ASSUME NEW p \in DOMAIN payments, StartVoid(r, p)
        PROVE  /\ req[r].pc = "idle"
               /\ UNCHANGED total
               /\ \E s \in Nat, seen \in Reversals :
                     req' = [req EXCEPT ![r] = Request("voiding", s, p, seen)]
    <2>1. payments[p].session \in Nat
      BY <1>1 DEF TypeOK, ReferencesOK
    <2>2. "VOID" \in Reversals /\ "REFUND" \in Reversals
      BY DEF Reversals
    <2>3. \E seen \in Reversals :
             req' = [req EXCEPT ![r] = Request("voiding", payments[p].session, p, seen)]
      BY <1>6, <2>2, Zenon DEF StartVoid
    <2> QED
      BY <1>6, <2>1, <2>3, Zenon DEF StartVoid
  <1>7. ASSUME NEW o \in DOMAIN orders, MarkServed(r, o)
        PROVE  /\ req[r].pc = "idle"
               /\ UNCHANGED total
               /\ orders[o].session \in Nat /\ StartSettle(r, orders[o].session)
    <2>1. orders[o].session \in Nat
      BY <1>1 DEF TypeOK, ReferencesOK
    <2> QED
      BY <1>7, <2>1, Zenon DEF MarkServed, ApplyTransition
  <1>8. ASSUME req[r].pc = "idle", UNCHANGED total,
               \E pc \in First, s \in Nat, n \in Nat, seen \in {"NONE"} \cup Reversals :
                  req' = [req EXCEPT ![r] = Request(pc, s, n, seen)]
        PROVE  /\ req[r].pc = "idle"
               /\ UNCHANGED total
               /\ \E h \in RequestRecord :
                     h.pc \in First /\ req' = [req EXCEPT ![r] = h]
    <2>1. PICK pc \in First, s \in Nat, n \in Nat, seen \in {"NONE"} \cup Reversals :
             req' = [req EXCEPT ![r] = Request(pc, s, n, seen)]
      BY <1>8
    <2>2. /\ Request(pc, s, n, seen) \in RequestRecord
          /\ Request(pc, s, n, seen).pc \in First
      BY <1>2
    <2> QED
      BY <1>8, <2>1, <2>2
  <1>9. ASSUME NEW s \in Nat, StartSettle(r, s), req[r].pc = "idle", UNCHANGED total
        PROVE  \E h \in RequestRecord : h.pc \in First /\ req' = [req EXCEPT ![r] = h]
    BY <1>8, <1>9 DEF StartSettle
  <1> HIDE DEF First
  <1>10. /\ req[r].pc = "idle"
         /\ UNCHANGED total
         /\ \E h \in RequestRecord : h.pc \in First /\ req' = [req EXCEPT ![r] = h]
    <2>1. CASE \E s \in DOMAIN sessions :
                 StartJoin(r, s) \/ StartOrder(r, s) \/ StartStaffCall(r, s)
      BY <1>1, <1>3, <1>8, <2>1
    <2>2. CASE \E s \in DOMAIN sessions :
                 \/ \E c \in Coupons : ApplyTableCoupon(r, s, c)
                 \/ CreatePayment(r, s) \/ CreateDiscount(r, s)
      BY <1>1, <1>4, <1>5, <1>9, <2>2
    <2>3. CASE \E p \in DOMAIN payments : StartVoid(r, p)
      <3>1. "voiding" \in First
        BY DEF First
      <3> QED
        BY <1>1, <1>6, <1>8, <2>3, <3>1
    <2>4. CASE \E o \in DOMAIN orders : MarkServed(r, o)
      BY <1>7, <1>9, <2>4
    <2> QED
      BY <2>1, <2>2, <2>3, <2>4, Zenon DEF Arrive, Cashier
  <1> QED
    BY <1>10 DEF First

\* Where the next step of a handler in flight leads to, and what it has seen then.
LEMMA ContinueLeads ==
    ASSUME TypeOK, NEW r \in Reqs, Continue(r), req'[r].pc # "idle"
    PROVE  /\ req'[r].session = req[r].session
           /\ req'[r].pc = "couponCancelling" =>
                 /\ req[r].pc = "voiding" /\ req'[r].row = req[r].row
                 /\ payments[req[r].row].coupon # NoCoupon
                 /\ RecordReversal(r)
           /\ req'[r].pc = "settleCount" =>
                 req[r].pc = "settlePayments" /\ PaidAmount(payments, req[r].session) # 0
           /\ req'[r].pc = "settleClose" => req[r].pc = "settleCount"
  <1>1. req \in [Reqs -> RequestRecord] /\ req[r] \in RequestRecord
    BY DEF TypeOK, RowsOK
  <1>2. ASSUME Done(r) PROVE FALSE
    <2>1. req'[r] = Idle
      BY <1>1, <1>2 DEF Done
    <2> QED
      BY <2>1 DEF Idle, Request
  <1>3. ASSUME NEW pc, Goto(r, pc)
        PROVE  /\ req'[r].session = req[r].session /\ req'[r].row = req[r].row
               /\ req'[r].pc = pc
    <2>1. req'[r] = [req[r] EXCEPT !.pc = pc]
      BY <1>1, <1>3 DEF Goto
    <2> QED
      BY <1>1, <2>1 DEF RequestRecord
  <1>4. ASSUME NEW pc, NEW seen, req'[r] = Request(pc, req[r].session, 0, seen)
        PROVE  req'[r].session = req[r].session /\ req'[r].pc = pc
    BY <1>4 DEF Request
  <1>5. CASE IssueDeviceSession(r) \/ CreateOrder(r) \/ CreateStaffCall(r)
             \/ SettleClose(r) \/ SettlePend(r) \/ SettleRevert(r)
    <2>1. Done(r)
      BY <1>5, Zenon DEF IssueDeviceSession, CreateOrder, CreateStaffCall, SettleClose,
                         SettlePend, SettleRevert
    <2> QED
      BY <1>2, <2>1
  <1>6. CASE CheckOrderingEnabled(r)
    <2>1. Goto(r, "ordering")
      BY <1>2, <1>6 DEF CheckOrderingEnabled
    <2> QED
      BY <1>3, <2>1
  <1>7. CASE RecordReversal(r)
    <2>1. req[r].pc = "voiding" /\ AfterReversal(r)
      BY <1>2, <1>7 DEF RecordReversal
    <2> DEFINE next == IF payments[req[r].row].coupon = NoCoupon THEN "settleSession"
                       ELSE "couponCancelling"
    <2>2. Goto(r, next)
      BY <2>1 DEF AfterReversal, Goto
    <2>3. /\ req'[r].session = req[r].session /\ req'[r].row = req[r].row
          /\ req'[r].pc = next
      BY <1>3, <2>2
    <2> QED
      BY <1>7, <2>1, <2>3
  <1>8. CASE CancelTableCouponRedemption(r)
    <2>1. req'[r] = Request("settleSession", req[r].session, 0, "NONE")
      BY <1>1, <1>8 DEF CancelTableCouponRedemption, StartSettle
    <2>2. req'[r].session = req[r].session /\ req'[r].pc = "settleSession"
      BY <1>4, <2>1
    <2> QED
      BY <2>2
  <1>9. CASE SettleReadSession(r)
    <2>1. PICK seen : req' = [req EXCEPT ![r] =
                                 Request("settleOrders", req[r].session, 0, seen)]
      BY <1>2, <1>9, Zenon DEF SettleReadSession
    <2>2. req'[r] = Request("settleOrders", req[r].session, 0, seen)
      BY <1>1, <2>1
    <2>3. req'[r].session = req[r].session /\ req'[r].pc = "settleOrders"
      BY <1>4, <2>2
    <2> QED
      BY <2>3
  <1>10. CASE SettleReadOrders(r)
    <2>1. Goto(r, "settlePayments")
      BY <1>10 DEF SettleReadOrders
    <2> QED
      BY <1>3, <2>1
  <1>11. CASE SettleReadPayments(r)
    <2> DEFINE step == AfterBill(req[r].seen, total[r], PaidAmount(payments, req[r].session))
    <2>1. Goto(r, step)
      BY <1>2, <1>11 DEF SettleReadPayments
    <2>2. /\ req'[r].session = req[r].session /\ req'[r].pc = step
          /\ req[r].pc = "settlePayments"
      BY <1>3, <1>11, <2>1 DEF SettleReadPayments
    <2>3. step \in {"settleCount", "settleRevert", "idle"}
          /\ (step = "settleCount" => PaidAmount(payments, req[r].session) # 0)
      BY DEF AfterBill
    <2> HIDE DEF step
    <2> QED
      BY <2>2, <2>3
  <1>12. CASE SettleCountUnserved(r)
    <2>1. req[r].pc = "settleCount" /\ (Goto(r, "settleClose") \/ Goto(r, "settlePend"))
      BY <1>2, <1>12 DEF SettleCountUnserved
    <2> QED
      BY <1>3, <2>1
  <1> QED
    BY <1>5, <1>6, <1>7, <1>8, <1>9, <1>10, <1>11, <1>12, Zenon DEF Continue, Settle

\* A step changes a handler only by entering it, by its own next step, or by a
\* restart.
LEMMA OneHandlerMoves ==
    ASSUME TypeOK, DOMAIN total = Reqs, [Next]_vars, NEW q \in Reqs
    PROVE  \/ req'[q] = req[q] /\ total'[q] = total[q]
           \/ Arrive(q) \/ Continue(q) \/ Crash
  <1>1. req \in [Reqs -> RequestRecord]
    BY DEF TypeOK, RowsOK
  <1>2. CASE FrontAndAdmin
    <2>1. UNCHANGED <<req, total>>
      BY <1>2, Zenon DEF FrontAndAdmin, OpenTable, DisableTable, EnableTable, CloseTable,
                         ForceCloseTable, UpdateTable, UpdateSettings
    <2> QED
      BY <2>1
  <1>3. CASE Hall
    <2>1. UNCHANGED <<req, total>>
      BY <1>3, Zenon DEF Hall, Kitchen, AckCall, FinishCall, AcceptOrder, RejectOrder,
                         StartPreparing, MarkReady, RevertServedToReady, ApplyTransition,
                         CancelOrder
    <2> QED
      BY <2>1
  <1>4. ASSUME NEW r \in Reqs \ {q}, Arrive(r)
        PROVE  req'[q] = req[q] /\ total'[q] = total[q]
    <2>1. PICK h \in RequestRecord : req' = [req EXCEPT ![r] = h]
      BY <1>4, ArriveStarts
    <2>2. UNCHANGED total
      BY <1>4, ArriveStarts
    <2> QED
      BY <1>1, <2>1, <2>2
  <1>5. ASSUME NEW r \in Reqs \ {q}, Continue(r)
        PROVE  req'[q] = req[q] /\ total'[q] = total[q]
    <2>1. \E h : req' = [req EXCEPT ![r] = h]
      <3>1. CASE RecordReversal(r)
        BY <3>1, Zenon DEF RecordReversal, AfterReversal, Done
      <3>2. CASE ~RecordReversal(r)
        BY <1>5, <3>2, ContinueMovesOn, Zenon DEF Done, Goto
      <3> QED
        BY <3>1, <3>2
    <2>2. UNCHANGED total \/ \E n : total' = [total EXCEPT ![r] = n]
      BY <1>5, Zenon
         DEF Continue, IssueDeviceSession, CheckOrderingEnabled, CreateOrder, CreateStaffCall,
             RecordReversal, CancelTableCouponRedemption, Settle, SettleReadSession,
             SettleReadOrders, SettleReadPayments, SettleCountUnserved, SettleClose,
             SettlePend, SettleRevert
    <2>3. req'[q] = req[q]
      BY <1>1, <2>1
    <2>4. total'[q] = total[q]
      BY <2>2
    <2> QED
      BY <2>3, <2>4
  <1>6. CASE UNCHANGED vars
    BY <1>6 DEF vars
  <1> QED
    BY <1>2, <1>3, <1>4, <1>5, <1>6, Zenon DEF Next

-----------------------------------------------------------------------------
(* A session closed by itself has taken money.                             *)

HasOriginal(rows, s) == \E p \in RowsOf(rows, s) : rows[p].kind \in Originals

\* Who holds something has been given something: reversals alone hold nothing.
LEMMA NothingHeld ==
    ASSUME NEW rows \in Seq(PaymentRecord), BackOnce(rows), NEW s, ~HasOriginal(rows, s)
    PROVE  PaidAmount(rows, s) = 0
  <1>1. ASSUME NEW p \in RowsOf(rows, s) PROVE FALSE
    <2>1. p \in DOMAIN rows /\ rows[p] \in PaymentRecord /\ rows[p].session = s
      BY ElementOfSeq DEF RowsOf
    <2>2. rows[p].kind \in Reversals
      BY <2>1 DEF HasOriginal, PaymentRecord
    <2>3. /\ rows[p].reversedPaymentId \in RowsOf(rows, s)
          /\ rows[rows[p].reversedPaymentId].kind \in Originals
      BY <2>1, <2>2 DEF BackOnce, RowsOf
    <2> QED
      BY <2>3 DEF HasOriginal
  <1> DEFINE f == [n \in RowsOf(rows, s) |-> Signed(rows, n)]
  <1>2. RowsOf(rows, s) = {}
    BY <1>1
  <1>3. Held(rows, s) = SumFunctionOnSet(f, {})
    BY <1>2 DEF Held, SumFunction
  <1> HIDE DEF f
  <1>4. Held(rows, s) = 0
    BY <1>3, SumOnNothing
  <1> QED
    BY <1>4, PaidIsHeld

\* Payments are added, never changed or taken away.
LEMMA PaymentsGrow ==
    ASSUME TypeOK, ServiceAssumption, ReversalInv, [Next]_vars
    PROVE  \/ UNCHANGED payments
           \/ \E row \in PaymentRecord : payments' = Append(payments, row)
  <1>1. ASSUME NEW r \in Reqs, NEW row \in PaymentRecord, TakesPayment(r, row)
        PROVE  payments' = Append(payments, row)
    BY <1>1 DEF TakesPayment
  <1>2. ASSUME NEW r \in Reqs, TakesPaymentBack(r)
        PROVE  \E row \in PaymentRecord : payments' = Append(payments, row)
    BY <1>2 DEF TakesPaymentBack
  <1>3. ASSUME NEW r \in Reqs, NEW row \in OrderRow, PlacesOrder(r, row)
        PROVE  UNCHANGED payments
    BY <1>3 DEF PlacesOrder
  <1>4. ASSUME NEW o \in DOMAIN orders, NEW row \in OrderRow, ChangesOrder(o, row)
        PROVE  UNCHANGED payments
    BY <1>4 DEF ChangesOrder
  <1> QED
    BY <1>1, <1>2, <1>3, <1>4, MoneySteps

LEMMA OriginalsStay ==
    ASSUME TypeOK, ServiceAssumption, ReversalInv, [Next]_vars, NEW s, HasOriginal(payments, s)
    PROVE  HasOriginal(payments', s)
  <1>1. ASSUME NEW row \in PaymentRecord, payments' = Append(payments, row)
        PROVE  \A p \in DOMAIN payments : p \in DOMAIN payments' /\ payments'[p] = payments[p]
    BY <1>1, AppendRow DEF TypeOK, RowsOK
  <1>2. \A p \in DOMAIN payments : p \in DOMAIN payments' /\ payments'[p] = payments[p]
    BY <1>1, PaymentsGrow
  <1> QED
    BY <1>2 DEF HasOriginal, RowsOf

\* An evaluation that goes on to count or to close has seen money.
CountsMoney ==
    \A r \in Reqs : req[r].pc \in {"settleCount", "settleClose"} =>
        HasOriginal(payments, req[r].session)

CloseInv == DOMAIN total = Reqs /\ CountsMoney /\ AutoCloseTookMoney

LEMMA TotalsStay ==
    ASSUME DOMAIN total = Reqs, [Next]_vars
    PROVE  DOMAIN total' = Reqs
  <1>1. \/ UNCHANGED total
        \/ \E r \in Reqs : \E n : total' = [total EXCEPT ![r] = n]
        \/ total' = [r \in Reqs |-> 0]
    <2>1. CASE FrontAndAdmin
      BY <2>1, Zenon DEF FrontAndAdmin, OpenTable, DisableTable, EnableTable, CloseTable,
                         ForceCloseTable, UpdateTable, UpdateSettings
    <2>2. CASE Hall
      BY <2>2, Zenon DEF Hall, Kitchen, AckCall, FinishCall, AcceptOrder, RejectOrder,
                         StartPreparing, MarkReady, RevertServedToReady, ApplyTransition,
                         CancelOrder
    <2>3. ASSUME NEW r \in Reqs, Arrive(r) PROVE UNCHANGED total
      BY <2>3, Zenon
         DEF Arrive, Cashier, StartJoin, StartOrder, StartStaffCall, ApplyTableCoupon,
             CreatePayment, CreateDiscount, PayAmount, PayItems, StartVoid, MarkServed,
             ApplyTransition
    <2>4. ASSUME NEW r \in Reqs, Continue(r)
          PROVE  UNCHANGED total \/ \E n : total' = [total EXCEPT ![r] = n]
      BY <2>4, Zenon
         DEF Continue, IssueDeviceSession, CheckOrderingEnabled, CreateOrder, CreateStaffCall,
             RecordReversal, CancelTableCouponRedemption, Settle, SettleReadSession,
             SettleReadOrders, SettleReadPayments, SettleCountUnserved, SettleClose,
             SettlePend, SettleRevert
    <2>5. CASE Crash
      BY <2>5, Zenon DEF Crash
    <2>6. CASE UNCHANGED vars
      BY <2>6 DEF vars
    <2> QED
      BY <2>1, <2>2, <2>3, <2>4, <2>5, <2>6, Zenon DEF Next
  <1> QED
    BY <1>1

LEMMA CountsMoneyInductive ==
    ASSUME TypeOK, ServiceAssumption, ReversalInv, DOMAIN total = Reqs, CountsMoney,
           [Next]_vars
    PROVE  CountsMoney'
  <1> SUFFICES ASSUME NEW r \in Reqs, req'[r].pc \in {"settleCount", "settleClose"}
               PROVE  HasOriginal(payments', req'[r].session)
    BY DEF CountsMoney
  <1>1. req \in [Reqs -> RequestRecord]
    BY DEF TypeOK, RowsOK
  <1>2. HasOriginal(payments, req'[r].session)
    <2>1. CASE req'[r] = req[r]
      BY <2>1 DEF CountsMoney
    <2>2. CASE Arrive(r)
      <3>1. PICK h \in RequestRecord :
               /\ h.pc \in {"joining", "gating", "calling", "voiding", "settleSession"}
               /\ req' = [req EXCEPT ![r] = h]
        BY <2>2, ArriveStarts
      <3>2. req'[r] = h
        BY <1>1, <3>1
      <3> QED
        BY <3>1, <3>2
    <2>3. CASE Continue(r)
      <3>1. /\ req'[r].session = req[r].session
            /\ \/ PaidAmount(payments, req[r].session) # 0
               \/ req[r].pc = "settleCount"
        BY <2>3, ContinueLeads
      <3>2. payments \in Seq(PaymentRecord) /\ BackOnce(payments)
        BY DEF TypeOK, RowsOK, ReversalInv, ReversedOnce, BackOnce
      <3> QED
        BY <3>1, <3>2, NothingHeld DEF CountsMoney
    <2>4. CASE Crash
      <3>1. req'[r] = Idle
        BY <2>4 DEF Crash
      <3> QED
        BY <3>1 DEF Idle, Request
    <2> QED
      BY <2>1, <2>2, <2>3, <2>4, OneHandlerMoves
  <1> QED
    BY <1>2, OriginalsStay

\* A session is closed as AUTO_SETTLED only by an evaluation.
LEMMA AutoClosedBy ==
    ASSUME TypeOK, [Next]_vars, NEW s \in DOMAIN sessions',
           sessions'[s].closeReason = "AUTO_SETTLED"
    PROVE  \/ s \in DOMAIN sessions /\ sessions[s].closeReason = "AUTO_SETTLED"
           \/ \E r \in Reqs : req[r].pc = "settleClose" /\ req[r].session = s
  <1>0. sessions \in Seq(SessionRow)
    BY DEF TypeOK, RowsOK
  <1>1. CASE UNCHANGED sessions
    BY <1>1
  <1>2. ASSUME NEW t \in Tables, OpenTable(t)
        PROVE  s \in DOMAIN sessions /\ sessions[s].closeReason = "AUTO_SETTLED"
    <2> DEFINE row == [table |-> t, status |-> "ACTIVE", closeReason |-> "NONE",
                       joined |-> FALSE]
               new == Len(sessions) + 1
    <2>1. sessions' = Append(sessions, row) /\ row \in SessionRow /\ row.closeReason = "NONE"
      BY <1>2 DEF OpenTable, SessionRow, LiveStatuses, CloseReasons
    <2>2. /\ DOMAIN sessions' = DOMAIN sessions \cup {new}
          /\ sessions'[new] = row
          /\ \A q \in DOMAIN sessions : sessions'[q] = sessions[q]
      BY <1>0, <2>1, AppendRow
    <2> HIDE DEF row, new
    <2> QED
      BY <2>1, <2>2
  <1>3. ASSUME NEW q \in DOMAIN sessions, NEW reason \in CloseReasons, EndSession(q, reason)
        PROVE  /\ s \in DOMAIN sessions
               /\ s # q => sessions[s].closeReason = "AUTO_SETTLED"
               /\ s = q => reason = "AUTO_SETTLED"
    <2>1. /\ DOMAIN sessions' = DOMAIN sessions
          /\ sessions'[q] = [sessions[q] EXCEPT !.status = "CLOSED",
                               !.closeReason = reason, !.joined = FALSE]
          /\ \A n \in DOMAIN sessions \ {q} : sessions'[n] = sessions[n]
      BY <1>3, EndSessionShape
    <2>2. sessions[q] \in SessionRow
      BY <1>0, ElementOfSeq
    <2>3. sessions'[q].closeReason = reason
      BY <2>1, <2>2 DEF SessionRow
    <2> QED
      BY <2>1, <2>3
  <1>4. ASSUME NEW r \in Reqs, IssueDeviceSession(r)
        PROVE  s \in DOMAIN sessions /\ sessions[s].closeReason = "AUTO_SETTLED"
    <2> DEFINE q == req[r].session
    <2>1. q \in DOMAIN sessions
      BY <1>4 DEF IssueDeviceSession, TypeOK, ReferencesOK
    <2>2. /\ DOMAIN sessions' = DOMAIN sessions
          /\ sessions'[q] = [sessions[q] EXCEPT !.joined = TRUE]
          /\ \A n \in DOMAIN sessions \ {q} : sessions'[n] = sessions[n]
      BY <1>4, <2>1, JoinShape DEF IssueDeviceSession
    <2>3. sessions[q] \in SessionRow
      BY <1>0, <2>1, ElementOfSeq
    <2>4. sessions'[q].closeReason = sessions[q].closeReason
      BY <2>2, <2>3 DEF SessionRow
    <2> HIDE DEF q
    <2> QED
      BY <2>2, <2>4
  <1>5. ASSUME NEW r \in Reqs, SettleClose(r) \/ SettlePend(r) \/ SettleRevert(r)
        PROVE  \/ s \in DOMAIN sessions /\ sessions[s].closeReason = "AUTO_SETTLED"
               \/ req[r].pc = "settleClose" /\ req[r].session = s
    <2> DEFINE q == req[r].session
    <2>1. q \in DOMAIN sessions
      BY <1>5 DEF SettleClose, SettlePend, SettleRevert, TypeOK, ReferencesOK
    <2>2. CASE SettleClose(r)
      <3>1. req[r].pc = "settleClose" /\ (EndSession(q, "AUTO_SETTLED") \/ UNCHANGED sessions)
        BY <2>2 DEF SettleClose, floor
      <3>2. "AUTO_SETTLED" \in CloseReasons
        BY DEF CloseReasons
      <3> QED
        BY <1>3, <2>1, <3>1, <3>2
    <2>3. CASE SettlePend(r) \/ SettleRevert(r)
      <3>1. \/ UNCHANGED sessions
            \/ /\ sessions[q].status = "ACTIVE"
               /\ MoveSession(q, "ACTIVE", "PAID_PENDING_SERVICE", "OPEN", "SETTLING")
            \/ /\ sessions[q].status = "PAID_PENDING_SERVICE"
               /\ MoveSession(q, "PAID_PENDING_SERVICE", "ACTIVE", "SETTLING", "OPEN")
        BY <2>3, Zenon DEF SettlePend, SettleRevert, MoveSession, floor
      <3>2. sessions[q] \in SessionRow
        BY <1>0, <2>1, ElementOfSeq
      <3>3. ASSUME NEW from \in LiveStatuses, NEW to \in LiveStatuses,
                   NEW tableFrom \in {"OPEN", "SETTLING"}, NEW tableTo \in {"OPEN", "SETTLING"},
                   sessions[q].status = from, MoveSession(q, from, to, tableFrom, tableTo)
            PROVE  /\ DOMAIN sessions' = DOMAIN sessions
                   /\ sessions'[q].closeReason = sessions[q].closeReason
                   /\ \A n \in DOMAIN sessions \ {q} : sessions'[n] = sessions[n]
        <4>1. /\ DOMAIN sessions' = DOMAIN sessions
              /\ sessions'[q] = [sessions[q] EXCEPT !.status = to]
              /\ \A n \in DOMAIN sessions \ {q} : sessions'[n] = sessions[n]
          BY <2>1, <3>3, MoveSessionShape, SMTT(60)
        <4> QED
          BY <3>2, <4>1 DEF SessionRow
      <3>4. \/ UNCHANGED sessions
            \/ /\ DOMAIN sessions' = DOMAIN sessions
               /\ sessions'[q].closeReason = sessions[q].closeReason
               /\ \A n \in DOMAIN sessions \ {q} : sessions'[n] = sessions[n]
        BY <3>1, <3>3 DEF LiveStatuses
      <3> HIDE DEF q
      <3> QED
        BY <3>4
    <2> QED
      BY <1>5, <2>2, <2>3
  <1>6. CASE FrontAndAdmin
    <2>1. ASSUME NEW q \in DOMAIN sessions, CloseTable(q) \/ ForceCloseTable(q)
          PROVE  s \in DOMAIN sessions /\ sessions[s].closeReason = "AUTO_SETTLED"
      <3>1. \E reason \in CloseReasons \ {"AUTO_SETTLED"} : EndSession(q, reason)
        BY <2>1 DEF CloseTable, ForceCloseTable, CloseReasons
      <3> QED
        BY <1>3, <3>1
    <2>2. \/ \E t \in Tables : OpenTable(t)
          \/ \E q \in DOMAIN sessions : CloseTable(q) \/ ForceCloseTable(q)
          \/ UNCHANGED sessions
      BY <1>6 DEF FrontAndAdmin, DisableTable, EnableTable, UpdateTable, UpdateSettings, floor
    <2> QED
      BY <1>1, <1>2, <2>1, <2>2
  <1>7. CASE Hall
    <2>1. UNCHANGED sessions
      BY <1>7, HallLeaves, Zenon
    <2> QED
      BY <1>1, <2>1
  <1>8. ASSUME NEW r \in Reqs, Arrive(r)
        PROVE  UNCHANGED sessions
    BY <1>8, ArriveLeaves
  <1>9. ASSUME NEW r \in Reqs, Continue(r)
        PROVE  \/ UNCHANGED sessions
               \/ IssueDeviceSession(r)
               \/ SettleClose(r) \/ SettlePend(r) \/ SettleRevert(r)
    BY <1>9 DEF Continue, Settle, CheckOrderingEnabled, CreateOrder, CreateStaffCall,
                RecordReversal, CancelTableCouponRedemption, SettleReadSession,
                SettleReadOrders, SettleReadPayments, SettleCountUnserved, floor
  <1>10. CASE Crash \/ UNCHANGED vars
    BY <1>10 DEF Crash, vars, floor
  <1> QED
    BY <1>1, <1>4, <1>5, <1>6, <1>7, <1>8, <1>9, <1>10 DEF Next

\* However old the bill is that an evaluation acts on, and whatever is cancelled
\* meanwhile, a session closed as AUTO_SETTLED has a charge or a discount.
THEOREM AutoCloseTookMoneyHolds == Spec => []AutoCloseTookMoney
  <1>1. Init => CloseInv
    BY EmptySeq DEF Init, CloseInv, CountsMoney, AutoCloseTookMoney, Idle, Request
  <1>2. ASSUME TypeOK, ReversalInv, CloseInv, [Next]_vars
        PROVE  CloseInv'
    <2>1. DOMAIN total' = Reqs /\ CountsMoney'
      BY <1>2, ServiceAssumption, TotalsStay, CountsMoneyInductive DEF CloseInv
    <2>2. ASSUME NEW s \in DOMAIN sessions', sessions'[s].closeReason = "AUTO_SETTLED"
          PROVE  HasOriginal(payments', s)
      <3>1. HasOriginal(payments, s)
        BY <1>2, <2>2, AutoClosedBy DEF CloseInv, CountsMoney, AutoCloseTookMoney, HasOriginal
      <3> QED
        BY <1>2, <3>1, ServiceAssumption, OriginalsStay
    <2>3. AutoCloseTookMoney'
      BY <2>2 DEF AutoCloseTookMoney, HasOriginal
    <2> QED
      BY <2>1, <2>3 DEF CloseInv
  <1>3. CloseInv => AutoCloseTookMoney
    BY DEF CloseInv
  <1> QED
    BY MoneyInvariants, <1>1, <1>2, <1>3, PTL DEF Spec

-----------------------------------------------------------------------------
(* A redemption follows the discount it stands for.                        *)

\* The handler on its way to cancel the redemption of payment p.
Cancels(r, p) == req[r].pc = "couponCancelling" /\ req[r].row = p

FollowsDiscount(c, p) ==
    \/ redemptions[c].status = "LIVE" <=> ReversalsOf(p) = {}
    \/ \E r \in Reqs : Cancels(r, p)

\* A redemption is cancelled only after its discount is reversed.
CancelsReversed ==
    \A r \in Reqs : req[r].pc = "couponCancelling" => ReversalsOf(req[r].row) # {}

\* The session a coupon was used in is that of its discount.
CouponOfDiscount ==
    \A c \in Coupons : \A p \in DOMAIN payments : payments[p].coupon = c =>
        /\ redemptions[c].session = payments[p].session
        /\ redemptions[c].status # "NONE"
        /\ \A q \in DOMAIN payments : payments[q].coupon = c => q = p

LEMMA DiscountOfCoupon == CouponInv => CouponOfDiscount
  <1> SUFFICES ASSUME CouponInv, NEW c \in Coupons, NEW p \in DOMAIN payments,
                      payments[p].coupon = c
               PROVE  /\ redemptions[c].session = payments[p].session
                      /\ redemptions[c].status # "NONE"
                      /\ \A q \in DOMAIN payments : payments[q].coupon = c => q = p
    BY DEF CouponOfDiscount
  <1>1. CouponBacked(c) /\ coupons[c] # "AVAILABLE"
    BY DEF CouponInv, CouponBacked
  <1>2. PICK d \in DOMAIN payments : StandsFor(d, c)
    BY <1>1 DEF CouponBacked
  <1> QED
    BY <1>1, <1>2 DEF CouponBacked, StandsFor

\* A reversal more is one of the payment it names and of no other.
LEMMA ReversalsGrow ==
    ASSUME TypeOK, NEW row \in PaymentRecord, payments' = Append(payments, row),
           NEW p
    PROVE  /\ row.reversedPaymentId # p => ReversalsOf(p)' = ReversalsOf(p)
           /\ row.reversedPaymentId = p => ReversalsOf(p)' # {}
  <1> DEFINE new == Len(payments) + 1
  <1>1. /\ DOMAIN payments' = DOMAIN payments \cup {new}
        /\ payments'[new] = row
        /\ \A n \in DOMAIN payments : payments'[n] = payments[n]
    BY AppendRow DEF TypeOK, RowsOK
  <1> HIDE DEF new
  <1> QED
    BY <1>1 DEF ReversalsOf

\* Redemptions change with the payment that uses the coupon, or when one is cancelled.
LEMMA RedemptionsStay ==
    ASSUME TypeOK, [Next]_vars, UNCHANGED payments
    PROVE  UNCHANGED redemptions \/ \E r \in Reqs : CancelTableCouponRedemption(r)
  <1>1. CASE FrontAndAdmin
    BY <1>1, Zenon DEF FrontAndAdmin, OpenTable, DisableTable, EnableTable, CloseTable,
                       ForceCloseTable, UpdateTable, UpdateSettings, ledger
  <1>2. CASE Hall
    BY <1>2, HallLeaves
  <1>3. ASSUME NEW r \in Reqs, Arrive(r)
        PROVE  UNCHANGED redemptions
    <2>1. ASSUME NEW s \in DOMAIN sessions, NEW c \in Coupons, ApplyTableCoupon(r, s, c)
          PROVE  FALSE
      <3>1. PICK row : payments' = Append(payments, row)
        BY <2>1 DEF ApplyTableCoupon
      <3>2. payments \in Seq(PaymentRecord)
        BY DEF TypeOK, RowsOK
      <3> QED
        BY <3>1, <3>2, LenProperties
    <2>2. CASE ~(\E s \in DOMAIN sessions, c \in Coupons : ApplyTableCoupon(r, s, c))
      BY <1>3, <2>2, Zenon
         DEF Arrive, Cashier, StartJoin, StartOrder, StartStaffCall, CreatePayment,
             CreateDiscount, PayAmount, PayItems, StartVoid, MarkServed, ApplyTransition, ledger
    <2> QED
      BY <2>1, <2>2
  <1>4. ASSUME NEW r \in Reqs, Continue(r)
        PROVE  UNCHANGED redemptions \/ CancelTableCouponRedemption(r)
    BY <1>4, ContinueLeaves
  <1>5. CASE Crash \/ UNCHANGED vars
    BY <1>5 DEF Crash, vars, ledger
  <1> QED
    BY <1>1, <1>2, <1>3, <1>4, <1>5, Zenon DEF Next

\* A handler on its way to cancel a redemption does so next, unless the server stops.
LEMMA CancelsNext ==
    ASSUME TypeOK, MayCrash = FALSE, DOMAIN total = Reqs, [Next]_vars,
           NEW r \in Reqs, req[r].pc = "couponCancelling"
    PROVE  req'[r] = req[r] \/ CancelTableCouponRedemption(r)
  <1>1. ~Arrive(r)
    BY ArriveStarts
  <1>2. ~Crash
    BY DEF Crash
  <1>3. CASE Continue(r)
    BY <1>3, Zenon
       DEF Continue, IssueDeviceSession, CheckOrderingEnabled, CreateOrder, CreateStaffCall,
           RecordReversal, Settle, SettleReadSession, SettleReadOrders, SettleReadPayments,
           SettleCountUnserved, SettleClose, SettlePend, SettleRevert
  <1> QED
    BY <1>1, <1>2, <1>3, OneHandlerMoves

\* Cancelling the redemption of a reversed discount, and no other.
LEMMA RedemptionCancelled ==
    ASSUME TypeOK, CouponInv, NEW r \in Reqs, CancelTableCouponRedemption(r)
    PROVE  LET p == req[r].row IN
           /\ payments[p].coupon \in Coupons =>
                 redemptions'[payments[p].coupon].status # "LIVE"
           /\ \A c \in Coupons : c # payments[p].coupon => redemptions'[c] = redemptions[c]
  <1> DEFINE p == req[r].row
             d == payments[p].coupon
             now == IF redemptions[d].session = req[r].session /\ redemptions[d].status = "LIVE"
                    THEN "CANCELLED" ELSE redemptions[d].status
  <1>1. redemptions' = [redemptions EXCEPT ![d].status = now]
    BY Zenon DEF CancelTableCouponRedemption
  <1>2. redemptions \in [Coupons -> [session : Nat, status : {"NONE", "LIVE", "CANCELLED"}]]
    BY TypeParts, SMTT(60)
  <1>3. p \in DOMAIN payments /\ payments[p].session = req[r].session
    BY DEF CancelTableCouponRedemption, TypeOK, ReferencesOK
  <1>4. ASSUME d \in Coupons PROVE now # "LIVE"
    <2>1. redemptions[d].session = req[r].session
      BY <1>3, <1>4, DiscountOfCoupon DEF CouponOfDiscount
    <2> QED
      BY <2>1
  <1> HIDE DEF now, d
  <1>5. ASSUME d \in Coupons PROVE redemptions'[d].status # "LIVE"
    <2>1. redemptions[d] \in [session : Nat, status : {"NONE", "LIVE", "CANCELLED"}]
      BY <1>2, <1>5
    <2>2. redemptions'[d] = [redemptions[d] EXCEPT !.status = now]
      BY <1>1, <1>2, <1>5
    <2> QED
      BY <1>4, <1>5, <2>1, <2>2
  <1>6. ASSUME NEW c \in Coupons, c # d PROVE redemptions'[c] = redemptions[c]
    BY <1>1, <1>2, <1>6
  <1> QED
    BY <1>5, <1>6 DEF d

RedemptionInv == CancelsReversed /\ RedemptionFollowsDiscount

LEMMA ReversalRowType ==
    ASSUME TypeOK, ServiceAssumption, NEW r \in Reqs, req[r].pc = "voiding"
    PROVE  /\ ReversalRow(r) \in PaymentRecord
           /\ ReversalRow(r).reversedPaymentId = req[r].row
           /\ ReversalRow(r).coupon \notin Coupons
  <1>1. /\ payments[req[r].row] \in PaymentRecord
        /\ req[r].session \in Nat /\ req[r].row \in Nat
        /\ req[r].seen \in Reversals
    BY ElementOfSeq, LenProperties DEF TypeOK, RowsOK, ReferencesOK, RequestRecord
  <1> QED
    BY <1>1 DEF ReversalRow, PaymentRow, PaymentRecord, ServiceAssumption

LEMMA CancelsReversedInductive ==
    ASSUME TypeOK, ServiceAssumption, ReversalInv, MayCrash = FALSE, DOMAIN total = Reqs,
           CancelsReversed, [Next]_vars
    PROVE  CancelsReversed'
  <1>1. ASSUME NEW p, ReversalsOf(p) # {}
        PROVE  ReversalsOf(p)' # {}
    <2>1. ASSUME NEW row \in PaymentRecord, payments' = Append(payments, row)
          PROVE  ReversalsOf(p)' # {}
      BY <1>1, <2>1, ReversalsGrow
    <2>2. ASSUME UNCHANGED payments PROVE ReversalsOf(p)' # {}
      BY <1>1, <2>2 DEF ReversalsOf
    <2> QED
      BY <2>1, <2>2, PaymentsGrow
  <1> SUFFICES ASSUME NEW r \in Reqs, req'[r].pc = "couponCancelling",
                      NEW p, p = req'[r].row
               PROVE  ReversalsOf(p)' # {}
    BY DEF CancelsReversed, ReversalsOf
  <1>2. CASE req'[r] = req[r]
    <2>1. ReversalsOf(p) # {}
      BY <1>2 DEF CancelsReversed
    <2> QED
      BY <1>1, <2>1
  <1>3. CASE Arrive(r)
    <2>1. PICK h \in RequestRecord :
             /\ h.pc \in {"joining", "gating", "calling", "voiding", "settleSession"}
             /\ req' = [req EXCEPT ![r] = h]
      BY <1>3, ArriveStarts
    <2>2. req'[r] = h
      BY <2>1 DEF TypeOK, RowsOK
    <2> QED
      BY <2>1, <2>2
  <1>4. CASE Continue(r)
    <2>1. RecordReversal(r) /\ req[r].row = p
      BY <1>4, ContinueLeads
    <2>2. CASE ReversalsOf(p) # {}
      BY <1>1, <2>2
    <2>3. CASE ReversalsOf(p) = {}
      <3>1. payments' = Append(payments, ReversalRow(r))
        BY <2>1, <2>3 DEF RecordReversal
      <3>2. ReversalRow(r) \in PaymentRecord /\ ReversalRow(r).reversedPaymentId = p
        BY <2>1, ReversalRowType DEF RecordReversal
      <3> QED
        BY <3>1, <3>2, ReversalsGrow
    <2> QED
      BY <2>2, <2>3
  <1>5. ~Crash
    BY DEF Crash
  <1> QED
    BY <1>2, <1>3, <1>4, <1>5, OneHandlerMoves


LEMMA RedemptionInductive ==
    ASSUME TypeOK, ServiceAssumption, ReversalInv, CouponInv, MayCrash = FALSE,
           DOMAIN total = Reqs, RedemptionInv, [Next]_vars
    PROVE  RedemptionFollowsDiscount'
  <1>1. payments \in Seq(PaymentRecord)
    BY DEF TypeOK, RowsOK
  <1>2. \A c \in Coupons : \A p \in DOMAIN payments :
           payments[p].coupon = c => FollowsDiscount(c, p)
    BY DEF RedemptionInv, RedemptionFollowsDiscount, FollowsDiscount, Cancels
  <1> SUFFICES ASSUME NEW c \in Coupons, NEW p \in DOMAIN payments', payments'[p].coupon = c
               PROVE  FollowsDiscount(c, p)'
    BY DEF RedemptionFollowsDiscount, FollowsDiscount, Cancels
  <1>3. ASSUME UNCHANGED payments
        PROVE  FollowsDiscount(c, p)'
    <2>1. FollowsDiscount(c, p) /\ ReversalsOf(p)' = ReversalsOf(p)
      BY <1>2, <1>3 DEF ReversalsOf
    <2>2. ASSUME NEW r \in Reqs, Cancels(r, p)
          PROVE  FollowsDiscount(c, p)'
      <3>1. CASE req'[r] = req[r]
        BY <2>2, <3>1 DEF FollowsDiscount, Cancels
      <3>2. CASE CancelTableCouponRedemption(r)
        <4>1. redemptions'[c].status # "LIVE"
          BY <1>3, <2>2, <3>2, RedemptionCancelled DEF Cancels
        <4>2. ReversalsOf(p) # {}
          BY <2>2 DEF Cancels, RedemptionInv, CancelsReversed
        <4> QED
          BY <2>1, <4>1, <4>2 DEF FollowsDiscount
      <3> QED
        BY <2>2, <3>1, <3>2, CancelsNext DEF Cancels
    <2>3. CASE /\ redemptions[c].status = "LIVE" <=> ReversalsOf(p) = {}
               /\ \A r \in Reqs : ~Cancels(r, p)
      <3>1. CASE UNCHANGED redemptions
        BY <2>1, <2>3, <3>1 DEF FollowsDiscount
      <3>2. ASSUME NEW r \in Reqs, CancelTableCouponRedemption(r)
            PROVE  FollowsDiscount(c, p)'
        <4>1. req[r].pc = "couponCancelling" /\ req[r].row \in DOMAIN payments /\ req[r].row # p
          BY <2>3, <3>2 DEF CancelTableCouponRedemption, Cancels, TypeOK, ReferencesOK
        <4>2. payments[req[r].row].coupon # c
          BY <1>3, <4>1, DiscountOfCoupon DEF CouponOfDiscount
        <4>3. redemptions'[c].status = redemptions[c].status
          BY <3>2, <4>2, RedemptionCancelled
        <4>4. redemptions'[c].status = "LIVE" <=> ReversalsOf(p)' = {}
          BY <2>1, <2>3, <4>3
        <4> QED
          BY <4>4, SMTT(60) DEF FollowsDiscount
      <3> QED
        BY <1>3, <3>1, <3>2, RedemptionsStay
    <2> QED
      BY <2>1, <2>2, <2>3 DEF FollowsDiscount
  <1>4. ASSUME NEW row \in PaymentRecord, payments' = Append(payments, row)
        PROVE  /\ p \in DOMAIN payments => payments[p].coupon = c /\ FollowsDiscount(c, p)
               /\ p \notin DOMAIN payments => row.coupon = c /\ ReversalsOf(p) = {} /\ p # 0
               /\ \A r \in Reqs : Cancels(r, p) => req'[r] = req[r]
    <2> DEFINE new == Len(payments) + 1
    <2>1. /\ DOMAIN payments' = DOMAIN payments \cup {new}
          /\ payments'[new] = row
          /\ \A n \in DOMAIN payments : payments'[n] = payments[n]
      BY <1>1, <1>4, AppendRow
    <2>2. new # 0
      BY <1>1, LenProperties
    <2>3. payments' # payments
      BY <1>1, <1>4, LenProperties
    <2> HIDE DEF new
    <2>4. ASSUME p \notin DOMAIN payments
          PROVE  row.coupon = c /\ ReversalsOf(p) = {} /\ p # 0
      <3>1. p = new
        BY <2>1, <2>4
      <3>2. ASSUME NEW n \in DOMAIN payments, payments[n].reversedPaymentId = p PROVE FALSE
        <4>1. payments[n].kind \in Originals \/ payments[n].kind \in Reversals
          <5>1. payments[n] \in PaymentRecord
            BY <1>1, <3>2, ElementOfSeq
          <5> QED
            BY <5>1 DEF PaymentRecord
        <4> QED
          BY <2>2, <2>4, <3>1, <3>2, <4>1 DEF ReversalInv, ReversedOnce, VoidingOriginals
      <3> QED
        BY <2>1, <2>2, <3>1, <3>2 DEF ReversalsOf
    <2>5. ASSUME NEW r \in Reqs, Cancels(r, p) PROVE req'[r] = req[r]
      <3>1. ~CancelTableCouponRedemption(r)
        BY <2>3 DEF CancelTableCouponRedemption
      <3> QED
        BY <2>5, <3>1, CancelsNext DEF Cancels
    <2> QED
      BY <1>2, <2>1, <2>4, <2>5
  <1>5. ASSUME NEW r \in Reqs, NEW row \in PaymentRecord, TakesPayment(r, row)
        PROVE  FollowsDiscount(c, p)'
    <2>1. /\ payments' = Append(payments, row) /\ row.reversedPaymentId = 0
          /\ redemptions' = IF row.coupon \in Coupons
                            THEN [redemptions EXCEPT ![row.coupon] =
                                     [session |-> row.session, status |-> "LIVE"]]
                            ELSE redemptions
      BY <1>5 DEF TakesPayment
    <2>2. redemptions \in [Coupons -> [session : Nat, status : {"NONE", "LIVE", "CANCELLED"}]]
      BY DEF TypeOK, RowsOK
    <2>3. p # 0
      BY <1>1, <1>4, <2>1, LenProperties
    <2>4. ReversalsOf(p)' = ReversalsOf(p)
      BY <2>1, <2>3, ReversalsGrow
    <2>5. CASE p \in DOMAIN payments
      <3>1. /\ payments[p].coupon = c /\ FollowsDiscount(c, p)
            /\ \A q \in Reqs : Cancels(q, p) => req'[q] = req[q]
        BY <1>4, <2>1, <2>5
      <3>2. row.coupon # c
        BY <1>5, <2>5, <3>1 DEF TakesPayment, CouponInv, CouponBacked
      <3>3. redemptions'[c] = redemptions[c]
        BY <2>1, <2>2, <3>2
      <3> QED
        BY <2>4, <3>1, <3>3 DEF FollowsDiscount, Cancels
    <2>6. CASE p \notin DOMAIN payments
      <3>1. row.coupon = c /\ ReversalsOf(p) = {}
        BY <1>4, <2>1, <2>6
      <3>2. redemptions'[c].status = "LIVE"
        BY <2>1, <2>2, <3>1
      <3> QED
        BY <2>4, <3>1, <3>2 DEF FollowsDiscount
    <2> QED
      BY <2>5, <2>6
  <1>6. ASSUME NEW r \in Reqs, TakesPaymentBack(r)
        PROVE  FollowsDiscount(c, p)'
    <2> DEFINE row == ReversalRow(r)
    <2>1. /\ payments' = Append(payments, row) /\ row \in PaymentRecord
          /\ UNCHANGED redemptions /\ AfterReversal(r) /\ req[r].pc = "voiding"
      BY <1>6 DEF TakesPaymentBack
    <2>2. row.reversedPaymentId = req[r].row /\ row.coupon \notin Coupons
      BY <2>1, ReversalRowType
    <2> HIDE DEF row
    <2>3. /\ p \in DOMAIN payments /\ payments[p].coupon = c /\ FollowsDiscount(c, p)
          /\ \A q \in Reqs : Cancels(q, p) => req'[q] = req[q]
      BY <1>4, <2>1, <2>2
    <2>4. CASE req[r].row = p
      <3>1. payments[p].coupon # NoCoupon
        BY <2>3 DEF ServiceAssumption
      <3>2. req' = [req EXCEPT ![r].pc = "couponCancelling"]
        BY <2>1, <2>4, <3>1 DEF AfterReversal
      <3>3. req[r] \in RequestRecord /\ req \in [Reqs -> RequestRecord]
        BY DEF TypeOK, RowsOK
      <3>4. req'[r].pc = "couponCancelling" /\ req'[r].row = p
        BY <2>4, <3>2, <3>3 DEF RequestRecord
      <3> QED
        BY <3>4 DEF FollowsDiscount, Cancels
    <2>5. CASE req[r].row # p
      <3>1. ReversalsOf(p)' = ReversalsOf(p)
        BY <2>1, <2>2, <2>5, ReversalsGrow
      <3> QED
        BY <2>1, <2>3, <3>1 DEF FollowsDiscount, Cancels
    <2> QED
      BY <2>4, <2>5
  <1>7. ASSUME NEW r \in Reqs, NEW row \in OrderRow, PlacesOrder(r, row)
        PROVE  UNCHANGED payments
    BY <1>7 DEF PlacesOrder
  <1>8. ASSUME NEW o \in DOMAIN orders, NEW row \in OrderRow, ChangesOrder(o, row)
        PROVE  UNCHANGED payments
    BY <1>8 DEF ChangesOrder
  <1> QED
    BY <1>3, <1>5, <1>6, <1>7, <1>8, MoneySteps

\* What the theorems about coupons and settlement rest on, in every reachable state.
LEMMA SettlementInvariants ==
    Spec => [](TypeOK /\ ReversalInv /\ CouponInv /\ DOMAIN total = Reqs)
  <1>1. Init => CouponInv /\ DOMAIN total = Reqs
    BY EmptySeq DEF Init, CouponInv, CouponBacked
  <1>2. TypeOK /\ CouponInv /\ [Next]_vars => CouponInv'
    BY CouponInductive, ServiceAssumption
  <1>3. DOMAIN total = Reqs /\ [Next]_vars => (DOMAIN total = Reqs)'
    BY TotalsStay
  <1> QED
    BY MoneyInvariants, <1>1, <1>2, <1>3, PTL DEF Spec

\* Unless the server stops in between, a redemption is live exactly while its
\* discount stands, or a handler is about to cancel it: also when the discount is
\* reversed twice at once, or after its session is closed.
THEOREM RedemptionFollowsDiscountHolds ==
    ASSUME MayCrash = FALSE
    PROVE  Spec => []RedemptionFollowsDiscount
  <1>1. Init => RedemptionInv
    BY EmptySeq DEF Init, RedemptionInv, CancelsReversed, RedemptionFollowsDiscount, Idle, Request
  <1>2. TypeOK /\ ReversalInv /\ CouponInv /\ DOMAIN total = Reqs /\ RedemptionInv /\ [Next]_vars
           => RedemptionInv'
    BY CancelsReversedInductive, RedemptionInductive, ServiceAssumption DEF RedemptionInv
  <1>3. RedemptionInv => RedemptionFollowsDiscount
    BY DEF RedemptionInv
  <1> QED
    BY SettlementInvariants, <1>1, <1>2, <1>3, PTL DEF Spec

-----------------------------------------------------------------------------
(* A settled session is not forgotten.                                     *)

\* A handler that will look at session s again, or has seen its whole bill.
Watches(r, s) ==
    /\ req[r].session = s
    /\ \/ req[r].pc \in {"couponCancelling", "settleSession", "settleOrders", "settleCount",
                         "settleClose"}
       \/ req[r].pc = "settlePayments" /\ total[r] = TotalAmount(orders, s)

\* Settled, open and whole: an evaluation that reads it all now closes it.
Due(s) == IsLive(s) /\ NothingCancelled(s) /\ Settled(s)

\* Every session that is due is watched.
DueWatched == \A s \in DOMAIN sessions : Due(s) => \E r \in Reqs : Watches(r, s)

\* What a whole session owes, and what it holds, are amounts.
LEMMA WholeAmounts ==
    ASSUME TypeOK, ItemAssumption, ReversalInv, NEW s, NothingCancelled(s)
    PROVE  /\ AllOnBill(orders, s)
           /\ TotalAmount(orders, s) \in Nat /\ PaidAmount(payments, s) \in Nat
           /\ PaidAmount(payments, s) = Held(payments, s)
           /\ Settled(s) => TotalAmount(orders, s) = PaidAmount(payments, s)
  <1>1. orders \in Seq(OrderRow) /\ payments \in Seq(PaymentRecord) /\ BackOnce(payments)
    BY DEF TypeOK, RowsOK, ReversalInv, ReversedOnce, BackOnce
  <1>2. AllOnBill(orders, s)
    BY DEF NothingCancelled, AllOnBill, OnBill
  <1>3. PaidAmount(payments, s) \in Nat /\ PaidAmount(payments, s) = Held(payments, s)
    BY <1>1, PaidIsHeld, HeldIsNatural
  <1>4. TotalAmount(orders, s) \in Nat
    BY <1>1, <1>2, TotalAmountType
  <1>5. Settled(s) => TotalAmount(orders, s) = PaidAmount(payments, s)
    BY <1>3, <1>4 DEF Settled, Remaining, RemainingAmount
  <1> QED
    BY <1>2, <1>3, <1>4, <1>5

\* A handler that watches a session that stays due, with the same bill, goes on
\* watching it until it closes it.
LEMMA WatchGoesOn ==
    ASSUME TypeOK, ItemAssumption, ReversalInv, MayCrash = FALSE, DOMAIN total = Reqs,
           [Next]_vars,
           NEW s \in DOMAIN sessions, Due(s), Due(s)',
           TotalAmount(orders', s) = TotalAmount(orders, s),
           NEW r \in Reqs, Watches(r, s)
    PROVE  Watches(r, s)'
  <1>1. req \in [Reqs -> RequestRecord] /\ req[r] \in RequestRecord
    BY DEF TypeOK, RowsOK
  <1>2. req[r].pc # "idle"
    BY DEF Watches
  <1>3. CASE req'[r] = req[r] /\ total'[r] = total[r]
    BY <1>3 DEF Watches
  <1>4. ASSUME NEW pc, Goto(r, pc)
        PROVE  req'[r].session = req[r].session /\ req'[r].pc = pc
    <2>1. req'[r] = [req[r] EXCEPT !.pc = pc]
      BY <1>1, <1>4 DEF Goto
    <2> QED
      BY <1>1, <2>1 DEF RequestRecord
  <1>5. ASSUME NEW pc, NEW seen, req' = [req EXCEPT ![r] = Request(pc, s, 0, seen)]
        PROVE  req'[r].session = s /\ req'[r].pc = pc
    BY <1>1, <1>5 DEF Request
  <1>6. CASE req[r].pc = "couponCancelling"
    <2>1. CASE CancelTableCouponRedemption(r)
      <3>1. req' = [req EXCEPT ![r] = Request("settleSession", s, 0, "NONE")]
        BY <2>1 DEF CancelTableCouponRedemption, StartSettle, Watches
      <3>2. req'[r].session = s /\ req'[r].pc = "settleSession"
        BY <1>5, <3>1
      <3> QED
        BY <3>2 DEF Watches
    <2>2. CASE req'[r] = req[r]
      BY <1>6, <2>2 DEF Watches
    <2> QED
      BY <1>6, <2>1, <2>2, CancelsNext
  <1>7. CASE SettleReadSession(r)
    <2>1. \E seen : req' = [req EXCEPT ![r] = Request("settleOrders", s, 0, seen)]
      BY <1>7, Zenon DEF SettleReadSession, Watches, Due
    <2>2. req'[r].session = s /\ req'[r].pc = "settleOrders"
      BY <1>5, <2>1
    <2> QED
      BY <2>2 DEF Watches
  <1>8. CASE SettleReadOrders(r)
    <2>1. Goto(r, "settlePayments") /\ total' = [total EXCEPT ![r] = TotalAmount(orders, s)]
      BY <1>8, Zenon DEF SettleReadOrders, Watches
    <2>2. req'[r].session = s /\ req'[r].pc = "settlePayments"
      BY <1>4, <2>1 DEF Watches
    <2>3. total'[r] = TotalAmount(orders', s)
      BY <2>1
    <2> QED
      BY <2>2, <2>3 DEF Watches
  <1>9. CASE SettleReadPayments(r)
    <2>1. total[r] = TotalAmount(orders, s) /\ req[r].session = s
      BY <1>9 DEF SettleReadPayments, Watches
    <2>2. AfterBill(req[r].seen, total[r], PaidAmount(payments, s)) = "settleCount"
      <3>1. total[r] = PaidAmount(payments, s) /\ PaidAmount(payments, s) # 0
        BY <2>1, WholeAmounts DEF Due, Settled
      <3> QED
        BY <3>1 DEF AfterBill
    <2>3. Goto(r, "settleCount")
      BY <1>9, <2>1, <2>2 DEF SettleReadPayments
    <2>4. req'[r].session = s /\ req'[r].pc = "settleCount"
      BY <1>4, <2>1, <2>3
    <2> QED
      BY <2>4 DEF Watches
  <1>10. CASE SettleCountUnserved(r)
    <2>1. Goto(r, "settleClose") /\ req[r].session = s
      BY <1>10, Zenon DEF SettleCountUnserved, Watches, Due, Settled
    <2>2. req'[r].session = s /\ req'[r].pc = "settleClose"
      BY <1>4, <2>1
    <2> QED
      BY <2>2 DEF Watches
  <1>11. CASE SettleClose(r)
    <2>1. req[r].session = s /\ IsLive(s)
      BY DEF Watches, Due
    <2>2. EndSession(s, "AUTO_SETTLED")
      BY <1>11, <2>1, Zenon DEF SettleClose
    <2>3. "AUTO_SETTLED" \in CloseReasons
      BY DEF CloseReasons
    <2>4. sessions'[s] = [sessions[s] EXCEPT !.status = "CLOSED",
                             !.closeReason = "AUTO_SETTLED", !.joined = FALSE]
      BY <2>2, <2>3, EndSessionShape
    <2>5. sessions[s] \in SessionRow
      BY ElementOfSeq DEF TypeOK, RowsOK
    <2>6. sessions'[s].status = "CLOSED"
      BY <2>4, <2>5 DEF SessionRow
    <2> QED
      BY <2>6 DEF Due, IsLive, LiveStatuses
  <1>12. CASE Continue(r) /\ req[r].pc # "couponCancelling"
    <2>1. req[r].pc \in {"settleSession", "settleOrders", "settlePayments", "settleCount",
                         "settleClose"}
      BY <1>12 DEF Watches
    <2>2. ~IssueDeviceSession(r) /\ ~CheckOrderingEnabled(r) /\ ~CreateOrder(r)
          /\ ~CreateStaffCall(r)
      <3>1. req[r].pc \notin {"joining", "gating", "ordering", "calling"}
        BY <2>1, SMTT(60)
      <3> QED
        BY <3>1 DEF IssueDeviceSession, CheckOrderingEnabled, CreateOrder, CreateStaffCall
    <2>3. ~RecordReversal(r) /\ ~CancelTableCouponRedemption(r) /\ ~SettlePend(r)
          /\ ~SettleRevert(r)
      BY <2>1 DEF RecordReversal, CancelTableCouponRedemption, SettlePend, SettleRevert
    <2> QED
      BY <1>7, <1>8, <1>9, <1>10, <1>11, <1>12, <2>2, <2>3, Zenon DEF Continue, Settle
  <1>13. ~Arrive(r) /\ ~Crash
    BY <1>2, ArriveStarts DEF Crash
  <1> QED
    BY <1>3, <1>6, <1>12, <1>13, OneHandlerMoves

LEMMA DueWatchedInductive ==
    ASSUME TypeOK, TypeOK', ServiceAssumption, ItemAssumption, ReversalInv, ReversalInv',
           MayCrash = FALSE, DOMAIN total = Reqs, DueWatched, [Next]_vars
    PROVE  DueWatched'
  <1> SUFFICES ASSUME NEW s \in DOMAIN sessions', Due(s)'
               PROVE  \E r \in Reqs : Watches(r, s)'
    BY DEF DueWatched
  <1>1. /\ payments \in Seq(PaymentRecord) /\ payments' \in Seq(PaymentRecord)
        /\ orders \in Seq(OrderRow) /\ orders' \in Seq(OrderRow)
        /\ sessions \in Seq(SessionRow) /\ req \in [Reqs -> RequestRecord]
    BY DEF TypeOK, RowsOK
  <1>2. BackOnce(payments) /\ BackOnce(payments')
    BY DEF ReversalInv, ReversedOnce, BackOnce
  <1>3. /\ PaidAmount(payments, s) = Held(payments, s)
        /\ PaidAmount(payments', s) = Held(payments', s)
    BY <1>1, <1>2, PaidIsHeld
  <1>4. /\ AllOnBill(orders', s)
        /\ TotalAmount(orders', s) - PaidAmount(payments', s) = 0
        /\ PaidAmount(payments', s) # 0
        /\ UnservedOrders(orders', s) = {}
    BY DEF Due, NothingCancelled, AllOnBill, OnBill, Settled, Remaining, RemainingAmount
  <1>5. s \in DOMAIN sessions
    <2> SUFFICES ASSUME s \notin DOMAIN sessions PROVE FALSE
      OBVIOUS
    <2>1. UNCHANGED payments
      <3>1. ASSUME NEW r \in Reqs, NEW row \in PaymentRecord, TakesPayment(r, row) PROVE FALSE
        BY <3>1 DEF TakesPayment
      <3>2. ASSUME NEW r \in Reqs, TakesPaymentBack(r) PROVE FALSE
        BY <3>2 DEF TakesPaymentBack
      <3>3. ASSUME NEW r \in Reqs, NEW row \in OrderRow, PlacesOrder(r, row) PROVE FALSE
        BY <3>3 DEF PlacesOrder
      <3>4. ASSUME NEW o \in DOMAIN orders, NEW row \in OrderRow, ChangesOrder(o, row)
            PROVE  FALSE
        BY <3>4 DEF ChangesOrder
      <3> QED
        BY <3>1, <3>2, <3>3, <3>4, MoneySteps
    <2>2. \A p \in DOMAIN payments : payments[p].session \in DOMAIN sessions
      BY DEF TypeOK, ReferencesOK
    <2>3. ~HasOriginal(payments, s)
      BY <2>2 DEF HasOriginal, RowsOf
    <2>4. PaidAmount(payments, s) = 0
      BY <1>1, <1>2, <2>3, NothingHeld
    <2> QED
      BY <1>4, <2>1, <2>4
  <1>6. IsLive(s)
    <2>1. sessions[s] \in SessionRow
      BY <1>1, <1>5, ElementOfSeq
    <2>2. sessions'[s].status # "CLOSED"
      BY DEF Due, IsLive, LiveStatuses
    <2>3. sessions[s].status # "CLOSED"
      BY <1>5, <2>2, ClosedKept
    <2> QED
      BY <2>1, <2>3 DEF SessionRow, IsLive
  <1>7. ASSUME AllOnBill(orders, s), TotalAmount(orders, s) = TotalAmount(orders', s),
               Held(payments, s) = Held(payments', s), UnservedOrders(orders, s) = {}
        PROVE  \E r \in Reqs : Watches(r, s)'
    <2>1. NothingCancelled(s)
      BY <1>7 DEF NothingCancelled, AllOnBill, OnBill
    <2>2. Settled(s)
      BY <1>3, <1>4, <1>7 DEF Settled, Remaining, RemainingAmount
    <2>3. Due(s)
      BY <1>6, <2>1, <2>2 DEF Due
    <2>4. PICK r \in Reqs : Watches(r, s)
      BY <1>5, <2>3 DEF DueWatched
    <2>5. Watches(r, s)'
      BY <1>5, <1>7, <2>3, <2>4, WatchGoesOn
    <2> QED
      BY <2>5
  <1>8. CASE UNCHANGED <<orders, payments>>
    BY <1>4, <1>7, <1>8
  <1>9. ASSUME NEW r \in Reqs, NEW row \in PaymentRecord, TakesPayment(r, row)
        PROVE  \E q \in Reqs : Watches(q, s)'
    <2>1. payments' = Append(payments, row) /\ orders' = orders /\ StartSettle(r, row.session)
      BY <1>9 DEF TakesPayment
    <2>2. CASE row.session = s
      <3>1. req'[r] = Request("settleSession", s, 0, "NONE")
        BY <1>1, <2>1, <2>2 DEF StartSettle
      <3>2. Watches(r, s)'
        BY <3>1 DEF Watches, Request
      <3> QED
        BY <3>2
    <2>3. CASE row.session # s
      <3>1. Held(payments', s) = Held(payments, s)
        BY <1>1, <2>1, <2>3, HeldGrows
      <3> QED
        BY <1>4, <1>7, <2>1, <3>1
    <2> QED
      BY <2>2, <2>3
  <1>10. ASSUME NEW r \in Reqs, TakesPaymentBack(r)
         PROVE  \E q \in Reqs : Watches(q, s)'
    <2>1. /\ payments' = Append(payments, ReversalRow(r)) /\ orders' = orders
          /\ ReversalRow(r) \in PaymentRecord /\ AfterReversal(r)
      BY <1>10 DEF TakesPaymentBack
    <2>2. ReversalRow(r).session = req[r].session
      BY DEF ReversalRow, PaymentRow
    <2>3. CASE req[r].session = s
      <3>1. PICK pc \in {"settleSession", "couponCancelling"} : req' = [req EXCEPT ![r].pc = pc]
        BY <2>1 DEF AfterReversal
      <3>2. req'[r].pc = pc /\ req'[r].session = s
        BY <1>1, <2>3, <3>1 DEF RequestRecord
      <3>3. Watches(r, s)'
        BY <3>2 DEF Watches
      <3> QED
        BY <3>3
    <2>4. CASE req[r].session # s
      <3>1. Held(payments', s) = Held(payments, s)
        BY <1>1, <2>1, <2>2, <2>4, HeldGrows
      <3> QED
        BY <1>4, <1>7, <2>1, <3>1
    <2> QED
      BY <2>3, <2>4
  <1>11. ASSUME NEW r \in Reqs, NEW row \in OrderRow, PlacesOrder(r, row)
         PROVE  \E q \in Reqs : Watches(q, s)'
    <2> DEFINE new == Len(orders) + 1
    <2>1. orders' = Append(orders, row) /\ payments' = payments /\ row.status = "NEW"
      BY <1>11 DEF PlacesOrder
    <2>2. /\ DOMAIN orders' = DOMAIN orders \cup {new}
          /\ orders'[new] = row
          /\ \A n \in DOMAIN orders : orders'[n] = orders[n]
      BY <1>1, <2>1, AppendRow
    <2> HIDE DEF new
    <2>3. row.session # s
      BY <1>4, <2>1, <2>2 DEF UnservedOrders, RowsOf, ActiveOrderStatuses
    <2>4. RowsOf(orders', s) = RowsOf(orders, s)
      BY <2>2, <2>3 DEF RowsOf
    <2>5. \A n \in RowsOf(orders, s) : orders'[n] = orders[n]
      BY <2>2 DEF RowsOf
    <2>6. AllOnBill(orders, s) /\ UnservedOrders(orders, s) = {}
      BY <1>4, <2>4, <2>5 DEF AllOnBill, UnservedOrders
    <2>7. TotalAmount(orders', s) = TotalAmount(orders, s)
      BY <2>4, <2>5 DEF TotalAmount
    <2> QED
      BY <1>7, <2>1, <2>6, <2>7
  <1>12. ASSUME NEW o \in DOMAIN orders, NEW row \in OrderRow, ChangesOrder(o, row)
         PROVE  \E q \in Reqs : Watches(q, s)'
    <2>1. MovesOn(orders, o, row, orders') /\ payments' = payments
      BY <1>12 DEF ChangesOrder, MovesOn
    <2>2. AllOnBill(orders, s) /\ TotalAmount(orders', s) = TotalAmount(orders, s)
      BY <1>1, <1>4, <2>1, TotalStays
    <2>3. /\ DOMAIN orders' = DOMAIN orders
          /\ orders'[o] = row /\ row.session = orders[o].session
          /\ \A n \in DOMAIN orders \ {o} : orders'[n] = orders[n]
      BY <1>1, <2>1, ReplaceRow DEF MovesOn
    <2>4. CASE orders[o].status # "SERVED" /\ orders[o].session = s /\ row.status = "SERVED"
      <3>1. PICK r \in Reqs : StartSettle(r, s)
        BY <1>12, <2>4 DEF ChangesOrder
      <3>2. req'[r] = Request("settleSession", s, 0, "NONE")
        BY <1>1, <3>1 DEF StartSettle
      <3>3. Watches(r, s)'
        BY <3>2 DEF Watches, Request
      <3> QED
        BY <3>3
    <2>5. CASE ~(orders[o].status # "SERVED" /\ orders[o].session = s /\ row.status = "SERVED")
      <3>1. ASSUME NEW n \in UnservedOrders(orders, s) PROVE FALSE
        <4>1. /\ n \in DOMAIN orders /\ orders[n].session = s
              /\ orders[n].status \in ActiveOrderStatuses
          BY DEF UnservedOrders, RowsOf
        <4>2. CASE n # o
          BY <1>4, <2>3, <4>1, <4>2 DEF UnservedOrders, RowsOf
        <4>3. CASE n = o
          <5>1. row.status \notin ActiveOrderStatuses /\ row.status \notin NotCharged
            BY <1>4, <2>3, <4>1, <4>3 DEF UnservedOrders, RowsOf, AllOnBill, OnBill
          <5>2. row.status = "SERVED"
            BY <5>1 DEF OrderRow, OrderStatuses
          <5> QED
            BY <2>5, <4>1, <4>3, <5>2 DEF ActiveOrderStatuses
        <4> QED
          BY <4>2, <4>3
      <3> QED
        BY <1>7, <2>1, <2>2, <3>1
    <2> QED
      BY <2>4, <2>5
  <1> QED
    BY <1>8, <1>9, <1>10, <1>11, <1>12, MoneySteps

\* Unless the server stops in between, a session that is all paid and served, with
\* nothing cancelled, has a handler that goes on to close it, however payments,
\* reversals, orders, servings and earlier evaluations race: it is not left open
\* once no handler works on it.
THEOREM SettlementNotForgottenHolds ==
    ASSUME MayCrash = FALSE
    PROVE  Spec => []SettlementNotForgotten
  <1>1. Init => DueWatched
    BY EmptySeq DEF Init, DueWatched
  <1>2. ASSUME TypeOK, ReversalInv, DOMAIN total = Reqs, TypeOK', ReversalInv', DueWatched,
               [Next]_vars
        PROVE  DueWatched'
    BY <1>2, DueWatchedInductive, ServiceAssumption, ItemAssumption
  <1>3. DueWatched => SettlementNotForgotten
    BY DEF DueWatched, Due, Watches, SettlementNotForgotten, Quiet
  <1> QED
    BY SettlementInvariants, <1>1, <1>2, <1>3, PTL DEF Spec
=============================================================================
