------------------------ MODULE TableService_proofs -------------------------
(***************************************************************************)
(* Proofs about TableService, for every number of tables, handlers, items  *)
(* and rows.                                                               *)
(***************************************************************************)
EXTENDS TableServiceProps, SequenceTheorems, FiniteSetTheorems, TLAPS

USE DEF LiveStatuses, OpenCallStatuses, Steps, SettleSteps, Originals, Reversals

-----------------------------------------------------------------------------
(* Rows are appended and updated in place.                                 *)

\* Appending a row keeps the others and adds it at the end.
LEMMA AppendRow ==
    ASSUME NEW Row, NEW rows \in Seq(Row), NEW row \in Row
    PROVE  /\ Append(rows, row) \in Seq(Row)
           /\ DOMAIN Append(rows, row) = DOMAIN rows \cup {Len(rows) + 1}
           /\ Len(rows) + 1 \notin DOMAIN rows
           /\ Append(rows, row)[Len(rows) + 1] = row
           /\ \A n \in DOMAIN rows : Append(rows, row)[n] = rows[n]
  OBVIOUS

\* Replacing a row keeps the number of rows and the other rows.
LEMMA ReplaceRow ==
    ASSUME NEW Row, NEW rows \in Seq(Row), NEW n \in DOMAIN rows, NEW row \in Row
    PROVE  /\ [rows EXCEPT ![n] = row] \in Seq(Row)
           /\ DOMAIN [rows EXCEPT ![n] = row] = DOMAIN rows
           /\ [rows EXCEPT ![n] = row][n] = row
           /\ \A m \in DOMAIN rows \ {n} : [rows EXCEPT ![n] = row][m] = rows[m]
  <1>1. n \in 1..Len(rows)
    OBVIOUS
  <1> QED
    BY <1>1, ExceptSeq

-----------------------------------------------------------------------------
(* The shapes a step can give tables and sessions.                         *)

\* Ending a live session: it is closed without a device, its table is freed.
LEMMA EndSessionShape ==
    ASSUME TypeOK, NEW s \in DOMAIN sessions, NEW reason \in CloseReasons,
           EndSession(s, reason)
    PROVE  /\ tables' \in [Tables -> TableRow]
           /\ sessions' \in Seq(SessionRow)
           /\ DOMAIN sessions' = DOMAIN sessions
           /\ sessions'[s] = [sessions[s] EXCEPT !.status = "CLOSED",
                                !.closeReason = reason, !.joined = FALSE]
           /\ \A q \in DOMAIN sessions \ {s} : sessions'[q] = sessions[q]
  <1> DEFINE row == [sessions[s] EXCEPT !.status = "CLOSED", !.closeReason = reason,
                                        !.joined = FALSE]
  <1>1. sessions[s] \in SessionRow
    BY ElementOfSeq DEF TypeOK, RowsOK
  <1>2. row \in SessionRow
    BY <1>1 DEF SessionRow
  <1>3. sessions' = [sessions EXCEPT ![s] = row]
    BY DEF EndSession
  <1>4. tables' \in [Tables -> TableRow]
    <2> DEFINE t == sessions[s].table
    <2>1. t \in Tables
      BY <1>1 DEF SessionRow
    <2>2. tables \in [Tables -> TableRow] /\ tables[t] \in TableRow
      BY <2>1 DEF TypeOK, RowsOK
    <2>3. PICK v \in {"AVAILABLE", "OPEN", "SETTLING", "DISABLED"} :
             tables' = [tables EXCEPT ![t] = [tables[t] EXCEPT !.status = v]]
      BY <2>2 DEF EndSession, TableRow
    <2> QED
      BY <2>1, <2>2, <2>3 DEF TableRow
  <1> HIDE DEF row
  <1>5. /\ sessions' \in Seq(SessionRow)
        /\ DOMAIN sessions' = DOMAIN sessions
        /\ sessions'[s] = row
        /\ \A q \in DOMAIN sessions \ {s} : sessions'[q] = sessions[q]
    BY <1>2, <1>3, ReplaceRow DEF TypeOK, RowsOK
  <1> QED
    BY <1>4, <1>5 DEF row

\* Moving a session between its two live statuses moves its table along.
LEMMA MoveSessionShape ==
    ASSUME TypeOK, NEW s \in DOMAIN sessions,
           NEW from \in LiveStatuses, NEW to \in LiveStatuses,
           NEW tableFrom \in {"OPEN", "SETTLING"}, NEW tableTo \in {"OPEN", "SETTLING"},
           sessions[s].status = from,
           MoveSession(s, from, to, tableFrom, tableTo)
    PROVE  /\ tables' \in [Tables -> TableRow]
           /\ sessions' \in Seq(SessionRow)
           /\ DOMAIN sessions' = DOMAIN sessions
           /\ sessions'[s] = [sessions[s] EXCEPT !.status = to]
           /\ \A q \in DOMAIN sessions \ {s} : sessions'[q] = sessions[q]
  <1> DEFINE row == [sessions[s] EXCEPT !.status = to]
  <1>1. sessions[s] \in SessionRow
    BY ElementOfSeq DEF TypeOK, RowsOK
  <1>2. row \in SessionRow
    BY <1>1 DEF SessionRow
  <1>3. sessions' = [sessions EXCEPT ![s] = row]
    BY DEF MoveSession
  <1>4. tables' \in [Tables -> TableRow]
    <2> DEFINE t == sessions[s].table
    <2>1. t \in Tables
      BY <1>1 DEF SessionRow
    <2>2. tables \in [Tables -> TableRow] /\ tables[t] \in TableRow
      BY <2>1 DEF TypeOK, RowsOK
    <2>3. PICK v \in {"AVAILABLE", "OPEN", "SETTLING", "DISABLED"} :
             tables' = [tables EXCEPT ![t] = [tables[t] EXCEPT !.status = v]]
      BY <2>2 DEF MoveSession, TableRow
    <2> QED
      BY <2>1, <2>2, <2>3 DEF TableRow
  <1> HIDE DEF row
  <1>5. /\ sessions' \in Seq(SessionRow)
        /\ DOMAIN sessions' = DOMAIN sessions
        /\ sessions'[s] = row
        /\ \A q \in DOMAIN sessions \ {s} : sessions'[q] = sessions[q]
    BY <1>2, <1>3, ReplaceRow DEF TypeOK, RowsOK
  <1> QED
    BY <1>4, <1>5 DEF row

\* A device issued to a session changes nothing else of it.
LEMMA JoinShape ==
    ASSUME TypeOK, NEW s \in DOMAIN sessions,
           sessions' = [sessions EXCEPT ![s].joined = TRUE]
    PROVE  /\ sessions' \in Seq(SessionRow)
           /\ DOMAIN sessions' = DOMAIN sessions
           /\ sessions'[s] = [sessions[s] EXCEPT !.joined = TRUE]
           /\ \A q \in DOMAIN sessions \ {s} : sessions'[q] = sessions[q]
  <1> DEFINE row == [sessions[s] EXCEPT !.joined = TRUE]
  <1>1. sessions[s] \in SessionRow
    BY ElementOfSeq DEF TypeOK, RowsOK
  <1>2. row \in SessionRow
    BY <1>1 DEF SessionRow
  <1>3. sessions' = [sessions EXCEPT ![s] = row]
    OBVIOUS
  <1> HIDE DEF row
  <1>5. /\ sessions' \in Seq(SessionRow)
        /\ DOMAIN sessions' = DOMAIN sessions
        /\ sessions'[s] = row
        /\ \A q \in DOMAIN sessions \ {s} : sessions'[q] = sessions[q]
    <2>1. [sessions EXCEPT ![s] = row] \in Seq(SessionRow)
      BY <1>2, ReplaceRow DEF TypeOK, RowsOK
    <2>2. /\ DOMAIN [sessions EXCEPT ![s] = row] = DOMAIN sessions
          /\ [sessions EXCEPT ![s] = row][s] = row
          /\ \A q \in DOMAIN sessions \ {s} : [sessions EXCEPT ![s] = row][q] = sessions[q]
      BY <1>2, ReplaceRow DEF TypeOK, RowsOK
    <2> QED
      BY <1>3, <2>1, <2>2
  <1> QED
    BY <1>5 DEF row

\* An order given another status keeps its session and its lines.
LEMMA OrderStatusShape ==
    ASSUME TypeOK, NEW o \in DOMAIN orders, NEW v \in OrderStatuses,
           orders' = [orders EXCEPT ![o] = [orders[o] EXCEPT !.status = v]]
    PROVE  /\ orders' \in Seq(OrderRow)
           /\ DOMAIN orders' = DOMAIN orders
           /\ \A n \in DOMAIN orders : /\ orders'[n].session = orders[n].session
                                       /\ orders'[n].lines = orders[n].lines
  <1> DEFINE row == [orders[o] EXCEPT !.status = v]
  <1>1. orders[o] \in OrderRow
    BY ElementOfSeq DEF TypeOK, RowsOK
  <1>2. /\ row \in OrderRow
        /\ row.session = orders[o].session
        /\ row.lines = orders[o].lines
    BY <1>1 DEF OrderRow
  <1>3. orders' = [orders EXCEPT ![o] = row]
    OBVIOUS
  <1> HIDE DEF row
  <1>4. [orders EXCEPT ![o] = row] \in Seq(OrderRow)
    BY <1>2, ReplaceRow DEF TypeOK, RowsOK
  <1>5. /\ DOMAIN [orders EXCEPT ![o] = row] = DOMAIN orders
        /\ [orders EXCEPT ![o] = row][o] = row
        /\ \A n \in DOMAIN orders \ {o} : [orders EXCEPT ![o] = row][n] = orders[n]
    BY <1>2, ReplaceRow DEF TypeOK, RowsOK
  <1> QED
    BY <1>2, <1>3, <1>4, <1>5

-----------------------------------------------------------------------------
(* The type invariant.                                                     *)

LEMMA TypeInit == Init => TypeOK
  <1> SUFFICES ASSUME Init PROVE TypeOK
    OBVIOUS
  <1>1. RowsOK
    BY EmptySeq DEF Init, RowsOK, Idle, Request, SettingsRecords, RequestRecord, TableRow
  <1>2. ReferencesOK
    BY EmptySeq DEF Init, ReferencesOK, Idle, Request
  <1> QED
    BY <1>1, <1>2 DEF TypeOK

-----------------------------------------------------------------------------
(* What the steps leave alone                                              *)

\* A request that arrives leaves tables, sessions, settings and calls alone.
LEMMA ArriveLeaves ==
    ASSUME NEW r \in Reqs, Arrive(r)
    PROVE  UNCHANGED <<tables, sessions, settings, calls>>
  <1>1. ASSUME NEW s \in DOMAIN sessions, StartJoin(r, s) \/ StartOrder(r, s)
        PROVE  UNCHANGED <<floor, settings, calls>>
    BY <1>1, Zenon DEF StartJoin, StartOrder
  <1>2. ASSUME NEW s \in DOMAIN sessions, StartStaffCall(r, s)
        PROVE  UNCHANGED <<floor, settings, calls>>
    BY <1>2, Zenon DEF StartStaffCall
  <1>3. ASSUME NEW s \in DOMAIN sessions, NEW c \in Coupons, ApplyTableCoupon(r, s, c)
        PROVE  UNCHANGED <<floor, settings, calls>>
    BY <1>3, Zenon DEF ApplyTableCoupon
  <1>4. ASSUME NEW s \in DOMAIN sessions, CreatePayment(r, s) \/ CreateDiscount(r, s)
        PROVE  UNCHANGED <<floor, settings, calls>>
    BY <1>4, Zenon DEF CreatePayment, CreateDiscount, PayAmount, PayItems
  <1>5. ASSUME NEW p \in DOMAIN payments, StartVoid(r, p)
        PROVE  UNCHANGED <<floor, settings, calls>>
    BY <1>5, Zenon DEF StartVoid
  <1>6. ASSUME NEW o \in DOMAIN orders, MarkServed(r, o)
        PROVE  UNCHANGED <<floor, settings, calls>>
    BY <1>6, Zenon DEF MarkServed, ApplyTransition
  <1>7. UNCHANGED <<floor, settings, calls>>
    BY <1>1, <1>2, <1>3, <1>4, <1>5, <1>6, Zenon DEF Arrive, Cashier
  <1> QED
    BY <1>7 DEF floor

\* What is issued to a device is a row of its own, not one of the table.
LEMMA IssueLeaves ==
    ASSUME NEW r \in Reqs, IssueDeviceSession(r)
    PROVE  UNCHANGED <<tables, settings, orders, calls, payments, coupons, redemptions>>
  <1>1. UNCHANGED <<tables, settings, orders, calls, ledger, total>>
    BY Zenon DEF IssueDeviceSession
  <1> QED
    BY <1>1 DEF ledger

\* A handler in flight adds a payment only by recording a reversal, and changes
\* the coupons only by cancelling a redemption.
LEMMA ContinueLeaves ==
    ASSUME NEW r \in Reqs, Continue(r)
    PROVE  /\ ~RecordReversal(r) => UNCHANGED payments
           /\ ~CancelTableCouponRedemption(r) => UNCHANGED redemptions
           /\ UNCHANGED <<settings, coupons>>
  <1>1. CASE IssueDeviceSession(r)
    BY <1>1, IssueLeaves
  <1>2. CASE CheckOrderingEnabled(r)
    BY <1>2 DEF CheckOrderingEnabled, ledger
  <1>3. CASE CreateOrder(r)
    BY <1>3 DEF CreateOrder, ledger
  <1>4. CASE CreateStaffCall(r)
    BY <1>4 DEF CreateStaffCall, ledger
  <1>5. CASE RecordReversal(r)
    BY <1>5, Zenon DEF RecordReversal
  <1>6. CASE CancelTableCouponRedemption(r)
    BY <1>6, Zenon DEF CancelTableCouponRedemption
  <1>7. CASE Settle(r)
    <2>1. CASE SettleReadSession(r) \/ SettleReadOrders(r) \/ SettleReadPayments(r)
               \/ SettleCountUnserved(r)
      <3>1. UNCHANGED <<settings, ledger>>
        BY <2>1, Zenon
           DEF SettleReadSession, SettleReadOrders, SettleReadPayments, SettleCountUnserved
      <3> QED
        BY <3>1 DEF ledger
    <2>2. CASE SettleClose(r) \/ SettlePend(r) \/ SettleRevert(r)
      <3>1. UNCHANGED <<settings, ledger>>
        BY <2>2, Zenon DEF SettleClose, SettlePend, SettleRevert
      <3> QED
        BY <3>1 DEF ledger
    <2> QED
      BY <1>7, <2>1, <2>2 DEF Settle
  <1> QED
    BY <1>1, <1>2, <1>3, <1>4, <1>5, <1>6, <1>7 DEF Continue

\* The kitchen and the hall change orders and calls only.
LEMMA HallLeaves ==
    ASSUME Hall
    PROVE  UNCHANGED <<tables, sessions, settings, payments, coupons, redemptions, req>>
  <1>1. ASSUME NEW c, AckCall(c) \/ FinishCall(c)
        PROVE  UNCHANGED <<floor, settings, ledger, req>>
    BY <1>1, Zenon DEF AckCall, FinishCall
  <1>2. ASSUME NEW o, NEW from, NEW to, ApplyTransition(o, from, to) /\ UNCHANGED req
        PROVE  UNCHANGED <<floor, settings, ledger, req>>
    BY <1>2, Zenon DEF ApplyTransition
  <1>3. ASSUME NEW o, NEW lines, CancelOrder(o, lines)
        PROVE  UNCHANGED <<floor, settings, ledger, req>>
    BY <1>3, Zenon DEF CancelOrder
  <1>4. ASSUME NEW o, \/ AcceptOrder(o) \/ RejectOrder(o) \/ StartPreparing(o) \/ MarkReady(o)
                      \/ RevertServedToReady(o)
        PROVE  UNCHANGED <<floor, settings, ledger, req>>
    BY <1>2, <1>4, Zenon
       DEF AcceptOrder, RejectOrder, StartPreparing, MarkReady, RevertServedToReady
  <1>5. UNCHANGED <<floor, settings, ledger, req>>
    BY <1>1, <1>3, <1>4, Zenon DEF Hall, Kitchen
  <1> QED
    BY <1>5 DEF floor, ledger

\* What an evaluation does to its session: nothing, or one of three moves.
LEMMA SettleMoves ==
    ASSUME NEW r \in Reqs, SettleClose(r) \/ SettlePend(r) \/ SettleRevert(r)
    PROVE  LET s == req[r].session IN
           \/ UNCHANGED floor
           \/ IsLive(s) /\ EndSession(s, "AUTO_SETTLED")
           \/ /\ sessions[s].status = "ACTIVE"
              /\ MoveSession(s, "ACTIVE", "PAID_PENDING_SERVICE", "OPEN", "SETTLING")
           \/ /\ sessions[s].status = "PAID_PENDING_SERVICE"
              /\ MoveSession(s, "PAID_PENDING_SERVICE", "ACTIVE", "SETTLING", "OPEN")
  <1>1. CASE SettleClose(r)
    BY <1>1, Zenon DEF SettleClose
  <1>2. CASE SettlePend(r)
    BY <1>2, Zenon DEF SettlePend, MoveSession
  <1>3. CASE SettleRevert(r)
    BY <1>3, Zenon DEF SettleRevert, MoveSession
  <1> QED
    BY <1>1, <1>2, <1>3

\* A handler that records no reversal ends, or goes on to another of its steps.
LEMMA ContinueMovesOn ==
    ASSUME NEW r \in Reqs, Continue(r), ~RecordReversal(r)
    PROVE  \E pc \in Steps \ {"voiding"} :
               \/ Done(r)
               \/ Goto(r, pc)
               \/ \E s, seen : req' = [req EXCEPT ![r] = Request(pc, s, 0, seen)]
  <1>0. /\ "ordering" \in Steps \ {"voiding"} /\ "settleSession" \in Steps \ {"voiding"}
        /\ "settleOrders" \in Steps \ {"voiding"} /\ "settlePayments" \in Steps \ {"voiding"}
        /\ "settleCount" \in Steps \ {"voiding"} /\ "settleClose" \in Steps \ {"voiding"}
        /\ "settlePend" \in Steps \ {"voiding"} /\ "settleRevert" \in Steps \ {"voiding"}
    BY DEF Steps
  <1>1. CASE IssueDeviceSession(r) \/ CreateOrder(r) \/ CreateStaffCall(r)
    BY <1>0, <1>1, Zenon DEF IssueDeviceSession, CreateOrder, CreateStaffCall
  <1>2. CASE CheckOrderingEnabled(r)
    BY <1>0, <1>2, Zenon DEF CheckOrderingEnabled
  <1>3. CASE CancelTableCouponRedemption(r)
    BY <1>0, <1>3, Zenon DEF CancelTableCouponRedemption, StartSettle
  <1>4. CASE SettleReadSession(r)
    BY <1>0, <1>4, Zenon DEF SettleReadSession
  <1>5. CASE SettleReadOrders(r)
    BY <1>0, <1>5, Zenon DEF SettleReadOrders
  <1>6. CASE SettleReadPayments(r)
    BY <1>0, <1>6, Zenon DEF SettleReadPayments, AfterBill
  <1>7. CASE SettleCountUnserved(r)
    BY <1>0, <1>7, Zenon DEF SettleCountUnserved
  <1>8. CASE SettleClose(r) \/ SettlePend(r) \/ SettleRevert(r)
    BY <1>0, <1>8, Zenon DEF SettleClose, SettlePend, SettleRevert
  <1> QED
    BY <1>1, <1>2, <1>3, <1>4, <1>5, <1>6, <1>7, <1>8, Zenon DEF Continue, Settle

-----------------------------------------------------------------------------
(* The type invariant, a group of actions at a time                        *)

\* Steps at the counter and the administrator's desk.
LEMMA TypeFrontAndAdmin ==
    ASSUME TypeOK, ServiceAssumption, FrontAndAdmin
    PROVE  TypeOK'
  <1> USE DEF TypeOK
  <1>1. ASSUME NEW t \in Tables, OpenTable(t) PROVE TypeOK'
    <2> DEFINE row == [table |-> t, status |-> "ACTIVE", closeReason |-> "NONE",
                       joined |-> FALSE]
    <2>1. row \in SessionRow
      BY DEF SessionRow, CloseReasons
    <2>2. sessions' = Append(sessions, row)
      BY <1>1 DEF OpenTable
    <2> HIDE DEF row
    <2>3. sessions' \in Seq(SessionRow) /\ DOMAIN sessions \subseteq DOMAIN sessions'
      BY <2>1, <2>2, AppendRow DEF RowsOK
    <2>4. tables' \in [Tables -> TableRow]
      <3>1. tables \in [Tables -> TableRow]
        BY DEF RowsOK
      <3>2. [tables[t] EXCEPT !.status = "OPEN"] \in TableRow
        BY <3>1 DEF TableRow
      <3>3. tables' = [tables EXCEPT ![t] = [tables[t] EXCEPT !.status = "OPEN"]]
        BY <1>1 DEF OpenTable
      <3> QED
        BY <3>1, <3>2, <3>3
    <2>5. RowsOK'
      BY <1>1, <2>3, <2>4 DEF RowsOK, OpenTable, ledger
    <2>6. ReferencesOK'
      BY <1>1, <2>3 DEF ReferencesOK, OpenTable, ledger
    <2> QED
      BY <2>5, <2>6
  <1>2. ASSUME NEW t \in Tables, DisableTable(t) \/ EnableTable(t) PROVE TypeOK'
    <2>1. PICK v \in {"AVAILABLE", "DISABLED"} :
             tables' = [tables EXCEPT ![t] = [tables[t] EXCEPT !.status = v]]
      BY <1>2 DEF DisableTable, EnableTable
    <2>2. tables' \in [Tables -> TableRow]
      <3>1. tables \in [Tables -> TableRow]
        BY DEF RowsOK
      <3>2. [tables[t] EXCEPT !.status = v] \in TableRow
        BY <3>1 DEF TableRow
      <3> QED
        BY <2>1, <3>1, <3>2
    <2>3. UNCHANGED <<settings, sessions, orders, calls, ledger, req>>
      BY <1>2 DEF DisableTable, EnableTable
    <2> QED
      BY <2>2, <2>3 DEF RowsOK, ReferencesOK, ledger
  <1>3. ASSUME NEW s \in DOMAIN sessions, CloseTable(s) \/ ForceCloseTable(s)
        PROVE TypeOK'
    <2>1. PICK reason \in CloseReasons : EndSession(s, reason)
      BY <1>3 DEF CloseTable, ForceCloseTable, CloseReasons
    <2>2. /\ tables' \in [Tables -> TableRow]
          /\ sessions' \in Seq(SessionRow)
          /\ DOMAIN sessions' = DOMAIN sessions
      BY <2>1, EndSessionShape
    <2>3. UNCHANGED <<settings, orders, calls, ledger, req>>
      BY <1>3 DEF CloseTable, ForceCloseTable
    <2> QED
      BY <2>2, <2>3 DEF RowsOK, ReferencesOK, ledger
  <1>4. ASSUME NEW t \in Tables, NEW l \in Locks, UpdateTable(t, l) PROVE TypeOK'
    <2> DEFINE row == [tables[t] EXCEPT !.ordersLocked = l.ordersLocked,
                                        !.paymentsLocked = l.paymentsLocked]
    <2>1. l.ordersLocked \in BOOLEAN /\ l.paymentsLocked \in BOOLEAN
      BY DEF ServiceAssumption, LockPairs
    <2>2. tables \in [Tables -> TableRow]
      BY DEF RowsOK
    <2>3. tables[t] \in TableRow
      BY <2>2
    <2>4. row \in TableRow
      BY <2>1, <2>3 DEF TableRow
    <2>5. tables' = [tables EXCEPT ![t] = row]
      BY <1>4, <2>2, <2>3, Zenon DEF UpdateTable
    <2> HIDE DEF row
    <2>6. tables' \in [Tables -> TableRow]
      BY <2>2, <2>4, <2>5
    <2>7. UNCHANGED <<settings, sessions, orders, calls, ledger, req>>
      BY <1>4 DEF UpdateTable
    <2> QED
      BY <2>6, <2>7 DEF RowsOK, ReferencesOK, ledger
  <1>5. ASSUME NEW v \in Switches, UpdateSettings(v) PROVE TypeOK'
    BY <1>5 DEF RowsOK, ReferencesOK, UpdateSettings, ServiceAssumption, floor, ledger
  <1> QED
    BY <1>1, <1>2, <1>3, <1>4, <1>5 DEF FrontAndAdmin

\* Orders and calls worked on in place keep their sessions.
LEMMA TypeHall ==
    ASSUME TypeOK, Hall
    PROVE  TypeOK'
  <1> USE DEF TypeOK
  <1>1. ASSUME NEW c \in DOMAIN calls, AckCall(c) \/ FinishCall(c) PROVE TypeOK'
    <2>1. PICK v \in {"ACKED", "DONE"} :
             calls' = [calls EXCEPT ![c] = [calls[c] EXCEPT !.status = v]]
      BY <1>1 DEF AckCall, FinishCall
    <2> DEFINE row == [calls[c] EXCEPT !.status = v]
    <2>2. calls[c] \in CallRow
      BY ElementOfSeq DEF RowsOK
    <2>3. row \in CallRow /\ row.session = calls[c].session
      BY <2>2 DEF CallRow
    <2>4. calls' = [calls EXCEPT ![c] = row]
      BY <2>1
    <2> HIDE DEF row
    <2>5. /\ calls' \in Seq(CallRow)
          /\ DOMAIN calls' = DOMAIN calls
          /\ calls'[c] = row
          /\ \A n \in DOMAIN calls \ {c} : calls'[n] = calls[n]
      BY <2>3, <2>4, ReplaceRow DEF RowsOK
    <2>6. UNCHANGED <<floor, settings, orders, ledger, req>>
      BY <1>1 DEF AckCall, FinishCall
    <2> QED
      BY <2>3, <2>5, <2>6 DEF RowsOK, ReferencesOK, floor, ledger
  <1>2. ASSUME NEW o \in DOMAIN orders,
               \/ AcceptOrder(o) \/ RejectOrder(o) \/ StartPreparing(o)
               \/ MarkReady(o) \/ RevertServedToReady(o)
        PROVE  TypeOK'
    <2>1. PICK v \in OrderStatuses :
             orders' = [orders EXCEPT ![o] = [orders[o] EXCEPT !.status = v]]
      BY <1>2 DEF AcceptOrder, RejectOrder, StartPreparing, MarkReady,
                  RevertServedToReady, ApplyTransition, OrderStatuses,
                  ActiveOrderStatuses, NotCharged
    <2>2. UNCHANGED <<floor, settings, calls, ledger, req>>
      BY <1>2 DEF AcceptOrder, RejectOrder, StartPreparing, MarkReady,
                  RevertServedToReady, ApplyTransition
    <2> QED
      BY <2>1, <2>2, OrderStatusShape DEF RowsOK, ReferencesOK, floor, ledger
  <1>3. ASSUME NEW o \in DOMAIN orders,
               NEW lines \in (SUBSET DOMAIN orders[o].lines) \ {{}},
               CancelOrder(o, lines)
        PROVE  TypeOK'
    <2>1. orders[o] \in OrderRow
      BY ElementOfSeq DEF RowsOK
    <2>2. PICK v \in OrderStatuses :
             orders' = [orders EXCEPT ![o] = [orders[o] EXCEPT
                           !.live = orders[o].live \ lines, !.status = v]]
      <3> DEFINE live == orders[o].live \ lines
                 v == IF /\ orders[o].status \in Cancellable
                         /\ lines = DOMAIN orders[o].lines \/ live = {}
                      THEN "CANCELLED" ELSE orders[o].status
      <3>1. v \in OrderStatuses
        BY <2>1 DEF OrderRow, OrderStatuses, NotCharged
      <3>2. orders' = [orders EXCEPT ![o].live = live, ![o].status = v]
        BY <1>3, Zenon DEF CancelOrder
      <3> HIDE DEF v
      <3>3. orders' = [orders EXCEPT ![o] = [orders[o] EXCEPT !.live = live, !.status = v]]
        BY <2>1, <3>2 DEF OrderRow
      <3> QED
        BY <3>1, <3>3
    <2> DEFINE row == [orders[o] EXCEPT !.live = orders[o].live \ lines, !.status = v]
    <2>3. row \in OrderRow /\ row.session = orders[o].session
      BY <2>1 DEF OrderRow
    <2>4. orders' = [orders EXCEPT ![o] = row]
      BY <2>2
    <2> HIDE DEF row
    <2>5. /\ orders' \in Seq(OrderRow)
          /\ DOMAIN orders' = DOMAIN orders
          /\ orders'[o] = row
          /\ \A n \in DOMAIN orders \ {o} : orders'[n] = orders[n]
      BY <2>3, <2>4, ReplaceRow DEF RowsOK
    <2>6. UNCHANGED <<floor, settings, calls, ledger, req>>
      BY <1>3 DEF CancelOrder
    <2> QED
      BY <2>3, <2>5, <2>6 DEF RowsOK, ReferencesOK, floor, ledger
  <1> QED
    BY <1>1, <1>2, <1>3 DEF Hall, Kitchen

\* A payment row of an existing session can be added.
LEMMA TypePayment ==
    ASSUME TypeOK, NEW row \in PaymentRecord, row.session \in DOMAIN sessions,
           payments' = Append(payments, row), UNCHANGED <<sessions, orders, calls>>
    PROVE  /\ payments' \in Seq(PaymentRecord)
           /\ DOMAIN payments \subseteq DOMAIN payments'
           /\ \A p \in DOMAIN payments : payments'[p] = payments[p]
           /\ \A p \in DOMAIN payments' : payments'[p].session \in DOMAIN sessions'
  <1>1. payments \in Seq(PaymentRecord)
    BY DEF TypeOK, RowsOK
  <1>2. /\ payments' \in Seq(PaymentRecord)
        /\ DOMAIN payments' = DOMAIN payments \cup {Len(payments) + 1}
        /\ payments'[Len(payments) + 1] = row
        /\ \A p \in DOMAIN payments : payments'[p] = payments[p]
    BY <1>1, AppendRow
  <1> QED
    BY <1>2 DEF TypeOK, ReferencesOK

\* A handler that takes money leaves the rows well formed.
LEMMA TypePay ==
    ASSUME TypeOK, NEW r \in Reqs, NEW s \in DOMAIN sessions,
           NEW row \in PaymentRecord, row.session = s,
           payments' = Append(payments, row), StartSettle(r, s),
           coupons' \in [Coupons -> {"AVAILABLE", "USED"}],
           redemptions' \in [Coupons -> [session : Nat, status : {"NONE", "LIVE", "CANCELLED"}]],
           UNCHANGED <<floor, settings, orders, calls>>
    PROVE  TypeOK'
  <1>0. s \in Nat
    BY LenProperties DEF TypeOK, RowsOK
  <1>1. /\ payments' \in Seq(PaymentRecord)
        /\ DOMAIN payments \subseteq DOMAIN payments'
        /\ \A p \in DOMAIN payments : payments'[p] = payments[p]
        /\ \A p \in DOMAIN payments' : payments'[p].session \in DOMAIN sessions'
    BY TypePayment DEF floor
  <1>2. req' \in [Reqs -> RequestRecord]
    BY <1>0 DEF TypeOK, RowsOK, StartSettle, Request, RequestRecord
  <1>3. RowsOK'
    BY <1>1, <1>2 DEF TypeOK, RowsOK, floor
  <1>4. ReferencesOK'
    BY <1>1 DEF TypeOK, RowsOK, ReferencesOK, StartSettle, Request, floor
  <1> QED
    BY <1>3, <1>4 DEF TypeOK

\* What can be paid for by item names orders and lines by their numbers.
LEMMA PayableAllocations ==
    ASSUME TypeOK, NEW s \in DOMAIN sessions
    PROVE  Payable(s) \subseteq Allocation
  <1>1. ASSUME NEW n \in DOMAIN orders, NEW l \in DOMAIN orders[n].lines
        PROVE  n \in Nat /\ l \in Nat
    <2>1. n \in Nat /\ orders[n] \in OrderRow
      BY LenProperties, ElementOfSeq DEF TypeOK, RowsOK
    <2> QED
      BY <2>1, LenProperties DEF OrderRow
  <1> QED
    BY <1>1 DEF Payable, Allocation, RowsOf

\* A handler that starts, or takes a payment, names rows that exist.
LEMMA TypeArrive ==
    ASSUME TypeOK, ServiceAssumption, NEW r \in Reqs, Arrive(r)
    PROVE  TypeOK'
  <1>1. ASSUME NEW s \in DOMAIN sessions,
               StartJoin(r, s) \/ StartOrder(r, s) \/ StartStaffCall(r, s)
        PROVE  TypeOK'
    <2>1. PICK pc \in {"joining", "gating", "calling"} :
             req' = [req EXCEPT ![r] = Request(pc, s, 0, "NONE")]
      BY <1>1 DEF StartJoin, StartOrder, StartStaffCall
    <2>2. UNCHANGED <<floor, settings, orders, calls, ledger>>
      BY <1>1 DEF StartJoin, StartOrder, StartStaffCall
    <2>3. s \in Nat
      BY LenProperties DEF TypeOK, RowsOK
    <2> QED
      BY <2>1, <2>2, <2>3, SMTT(60) DEF TypeOK, RowsOK, ReferencesOK, Request, RequestRecord,
                              floor, ledger
  <1>2. ASSUME NEW s \in DOMAIN sessions, NEW kind \in Originals, PayAmount(r, s, kind)
        PROVE  TypeOK'
    <2>1. PICK amount \in 1..Remaining(s) :
             payments' = Append(payments, PaymentRow(s, kind, amount, 0, NoCoupon, {}))
      BY <1>2 DEF PayAmount
    <2>2. amount \in Nat /\ s \in Nat
      BY LenProperties DEF TypeOK, RowsOK
    <2>3. PaymentRow(s, kind, amount, 0, NoCoupon, {}) \in PaymentRecord
      BY <2>2 DEF PaymentRow, PaymentRecord
    <2> QED
      BY <1>2, <2>1, <2>3, TypePay DEF PayAmount, PaymentRow, TypeOK, RowsOK
  <1>3. ASSUME NEW s \in DOMAIN sessions, PayItems(r, s)
        PROVE  TypeOK'
    <2>1. PICK allocations \in SUBSET Payable(s), amount \in 0..NonNegative(Remaining(s)) :
             payments' = Append(payments,
                            PaymentRow(s, "CHARGE", amount, 0, NoCoupon, allocations))
      BY <1>3 DEF PayItems
    <2>2. amount \in Nat /\ s \in Nat
      BY LenProperties DEF TypeOK, RowsOK
    <2>3. Payable(s) \subseteq Allocation
      BY PayableAllocations
    <2>4. PaymentRow(s, "CHARGE", amount, 0, NoCoupon, allocations) \in PaymentRecord
      BY <2>2, <2>3 DEF PaymentRow, PaymentRecord
    <2> QED
      BY <1>3, <2>1, <2>4, TypePay DEF PayItems, PaymentRow, TypeOK, RowsOK
  <1>4. ASSUME NEW s \in DOMAIN sessions, NEW c \in Coupons, ApplyTableCoupon(r, s, c)
        PROVE  TypeOK'
    <2>1. PICK amount \in 1..Remaining(s) :
             payments' = Append(payments, PaymentRow(s, "DISCOUNT", amount, 0, c, {}))
      BY <1>4 DEF ApplyTableCoupon
    <2>2. amount \in Nat /\ s \in Nat
      BY LenProperties DEF TypeOK, RowsOK
    <2>3. PaymentRow(s, "DISCOUNT", amount, 0, c, {}) \in PaymentRecord
      BY <2>2 DEF PaymentRow, PaymentRecord
    <2>4. /\ coupons' \in [Coupons -> {"AVAILABLE", "USED"}]
          /\ redemptions' \in [Coupons -> [session : Nat, status : {"NONE", "LIVE", "CANCELLED"}]]
      BY <1>4, <2>2 DEF ApplyTableCoupon, TypeOK, RowsOK
    <2> QED
      BY <1>4, <2>1, <2>3, <2>4, TypePay DEF ApplyTableCoupon, PaymentRow
  <1>5. ASSUME NEW o \in DOMAIN orders, MarkServed(r, o)
        PROVE  TypeOK'
    <2>1. orders' = [orders EXCEPT ![o] = [orders[o] EXCEPT !.status = "SERVED"]]
      BY <1>5 DEF MarkServed, ApplyTransition
    <2>2. UNCHANGED <<floor, settings, calls, ledger>>
      BY <1>5 DEF MarkServed, ApplyTransition
    <2>3. /\ orders' \in Seq(OrderRow)
          /\ DOMAIN orders' = DOMAIN orders
          /\ \A n \in DOMAIN orders : orders'[n].session = orders[n].session
      BY <2>1, OrderStatusShape DEF OrderStatuses
    <2>4. req' = [req EXCEPT ![r] = Request("settleSession", orders[o].session, 0, "NONE")]
      BY <1>5 DEF MarkServed, StartSettle
    <2>5. orders[o].session \in DOMAIN sessions /\ orders[o].session \in Nat
      BY LenProperties DEF TypeOK, RowsOK, ReferencesOK
    <2>6. RowsOK'
      BY <2>2, <2>3, <2>4, <2>5 DEF TypeOK, RowsOK, Request, RequestRecord, floor, ledger
    <2>7. ReferencesOK'
      BY <2>2, <2>3, <2>4, <2>5 DEF TypeOK, RowsOK, ReferencesOK, Request, floor, ledger
    <2> QED
      BY <2>6, <2>7 DEF TypeOK
  <1>6. ASSUME NEW p \in DOMAIN payments, StartVoid(r, p)
        PROVE  TypeOK'
    <2>1. PICK kind \in Reversals :
             req' = [req EXCEPT ![r] = Request("voiding", payments[p].session, p, kind)]
      BY <1>6 DEF StartVoid
    <2>2. UNCHANGED <<floor, settings, orders, calls, ledger>>
      BY <1>6 DEF StartVoid
    <2>3. p \in Nat /\ payments[p].session \in DOMAIN sessions /\ payments[p].session \in Nat
      BY LenProperties DEF TypeOK, RowsOK, ReferencesOK
    <2> QED
      BY <2>1, <2>2, <2>3 DEF TypeOK, RowsOK, ReferencesOK, Request, RequestRecord,
                              floor, ledger
  <1> QED
    BY <1>1, <1>2, <1>3, <1>4, <1>5, <1>6
    DEF Arrive, Cashier, CreatePayment, CreateDiscount, Originals

\* A handler that only moves on keeps its references.
LEMMA TypeMoveOn ==
    ASSUME TypeOK, NEW r \in Reqs, req[r].pc # "idle",
           NEW pc \in Steps \ {"voiding", "couponCancelling"},
           NEW seen \in {"NONE"} \cup Reversals \cup LiveStatuses,
           \/ req' = [req EXCEPT ![r] = Request(pc, req[r].session, 0, seen)]
           \/ Goto(r, pc)
           \/ Done(r)
    PROVE  /\ req' \in [Reqs -> RequestRecord]
           /\ \A q \in Reqs : req'[q].pc # "idle" => req[q].pc # "idle"
                                 /\ req'[q].session = req[q].session
           /\ \A q \in Reqs : req'[q].pc \in {"voiding", "couponCancelling"} =>
                                 req'[q] = req[q]
  <1>1. req \in [Reqs -> RequestRecord] /\ req[r].session \in Nat
    BY DEF TypeOK, RowsOK, RequestRecord
  <1>2. CASE req' = [req EXCEPT ![r] = Request(pc, req[r].session, 0, seen)]
    <2>1. Request(pc, req[r].session, 0, seen) \in RequestRecord
      BY <1>1 DEF RequestRecord, Request
    <2> QED
      BY <1>1, <1>2, <2>1 DEF Request
  <1>3. CASE Goto(r, pc)
    <2>1. [req[r] EXCEPT !.pc = pc] \in RequestRecord
      BY <1>1 DEF RequestRecord
    <2>2. /\ req' = [req EXCEPT ![r] = [req[r] EXCEPT !.pc = pc]]
          /\ [req[r] EXCEPT !.pc = pc].session = req[r].session
          /\ [req[r] EXCEPT !.pc = pc].pc = pc
      BY <1>1, <1>3 DEF Goto, RequestRecord
    <2> QED
      BY <1>1, <2>1, <2>2
  <1>4. CASE Done(r)
    <2>1. Idle \in RequestRecord /\ Idle.pc = "idle"
      BY DEF RequestRecord, Request, Idle
    <2> QED
      BY <1>1, <1>4, <2>1 DEF Done
  <1> QED
    BY <1>2, <1>3, <1>4

\* What TypeOK says of the handlers in flight.
RequestsOK ==
    /\ req \in [Reqs -> RequestRecord]
    /\ \A r \in Reqs : req[r].pc # "idle" => req[r].session \in DOMAIN sessions
    /\ \A r \in Reqs : req[r].pc \in {"voiding", "couponCancelling"} =>
          /\ req[r].row \in DOMAIN payments
          /\ payments[req[r].row].session = req[r].session
    /\ \A r \in Reqs : req[r].pc = "voiding" => req[r].seen \in Reversals

\* A handler that comes to an end or goes on to look at its session again leaves
\* the handlers well formed.
LEMMA RequestReplaced ==
    ASSUME RequestsOK, NEW r \in Reqs, NEW q \in RequestRecord,
           q.pc \notin {"voiding", "couponCancelling"},
           q.pc # "idle" => q.session \in DOMAIN sessions,
           req' = [req EXCEPT ![r] = q],
           DOMAIN sessions' = DOMAIN sessions, UNCHANGED payments
    PROVE  RequestsOK'
  <1>1. req' \in [Reqs -> RequestRecord]
    BY DEF RequestsOK
  <1>2. ASSUME NEW t \in Reqs
        PROVE  /\ req'[t].pc # "idle" => req'[t].session \in DOMAIN sessions'
               /\ req'[t].pc \in {"voiding", "couponCancelling"} =>
                     /\ req'[t].row \in DOMAIN payments'
                     /\ payments'[req'[t].row].session = req'[t].session
               /\ req'[t].pc = "voiding" => req'[t].seen \in Reversals
    <2>1. CASE t = r
      <3>1. req'[t] = q
        BY <2>1 DEF RequestsOK
      <3> QED
        BY <3>1
    <2>2. CASE t # r
      <3>1. req'[t] = req[t]
        BY <2>2 DEF RequestsOK
      <3> QED
        BY <3>1 DEF RequestsOK
    <2> QED
      BY <2>1, <2>2
  <1> QED
    BY <1>1, <1>2 DEF RequestsOK

\* Rows stay well formed where a step changes no more than tables, sessions in
\* place, redemptions and the handlers.
LEMMA TypeKept ==
    ASSUME TypeOK, RequestsOK', UNCHANGED <<settings, orders, calls, payments, coupons>>,
           tables' \in [Tables -> TableRow],
           sessions' \in Seq(SessionRow), DOMAIN sessions' = DOMAIN sessions,
           redemptions' \in [Coupons -> [session : Nat, status : {"NONE", "LIVE", "CANCELLED"}]]
    PROVE  TypeOK'
  <1>1. RowsOK'
    BY DEF TypeOK, RowsOK, RequestsOK
  <1>2. ReferencesOK'
    BY DEF TypeOK, ReferencesOK, RequestsOK
  <1> QED
    BY <1>1, <1>2 DEF TypeOK

\* The floor and the redemptions have their types, and rows refer to numbers.
LEMMA TypeParts ==
    ASSUME TypeOK
    PROVE  /\ tables \in [Tables -> TableRow] /\ sessions \in Seq(SessionRow)
           /\ redemptions \in
                 [Coupons -> [session : Nat, status : {"NONE", "LIVE", "CANCELLED"}]]
           /\ RequestsOK
           /\ DOMAIN sessions \subseteq Nat
  <1>1. sessions \in Seq(SessionRow)
    BY DEF TypeOK, RowsOK
  <1>2. DOMAIN sessions \subseteq Nat
    BY <1>1, LenProperties
  <1> QED
    BY <1>1, <1>2 DEF TypeOK, RowsOK, ReferencesOK, RequestsOK

\* The next step of a handler in flight keeps the rows well formed.
LEMMA TypeContinue ==
    ASSUME TypeOK, ServiceAssumption, NEW r \in Reqs, Continue(r)
    PROVE  TypeOK'
  <1> DEFINE s == req[r].session
  <1>0. s \in DOMAIN sessions /\ s \in Nat
    <2>1. req[r].pc # "idle"
      BY DEF Continue, IssueDeviceSession, CheckOrderingEnabled, CreateOrder,
             CreateStaffCall, RecordReversal, CancelTableCouponRedemption, Settle,
             SettleReadSession, SettleReadOrders, SettleReadPayments,
             SettleCountUnserved, SettleClose, SettlePend, SettleRevert
    <2>2. RequestsOK /\ DOMAIN sessions \subseteq Nat
      BY TypeParts
    <2>3. s \in DOMAIN sessions
      BY <2>1, <2>2 DEF RequestsOK
    <2> QED
      BY <2>2, <2>3, ZenonT(60)
  <1>1. CASE IssueDeviceSession(r)
    <2>1. /\ sessions' \in Seq(SessionRow)
          /\ DOMAIN sessions' = DOMAIN sessions
      BY <1>0, <1>1, JoinShape DEF IssueDeviceSession
    <2> QED
      BY <1>1, <2>1 DEF IssueDeviceSession, Done, Idle, Request, TypeOK, RowsOK,
                        ReferencesOK, RequestRecord, ledger
  <1>2. CASE CheckOrderingEnabled(r) \/ SettleReadSession(r) \/ SettleReadOrders(r)
             \/ SettleReadPayments(r) \/ SettleCountUnserved(r)
    <2>1. UNCHANGED <<floor, settings, orders, calls, ledger>>
      BY <1>2 DEF CheckOrderingEnabled, SettleReadSession, SettleReadOrders,
                  SettleReadPayments, SettleCountUnserved
    <2>2. /\ req[r].pc # "idle"
          /\ \E pc \in Steps \ {"voiding", "couponCancelling"},
                seen \in {"NONE"} \cup Reversals \cup LiveStatuses :
               \/ req' = [req EXCEPT ![r] = Request(pc, req[r].session, 0, seen)]
               \/ Goto(r, pc)
               \/ Done(r)
      BY <1>2 DEF CheckOrderingEnabled, SettleReadSession, SettleReadOrders,
                  SettleReadPayments, SettleCountUnserved, AfterBill, IsLive
    <2>3. /\ req' \in [Reqs -> RequestRecord]
          /\ \A q \in Reqs : req'[q].pc # "idle" => req[q].pc # "idle"
                                /\ req'[q].session = req[q].session
          /\ \A q \in Reqs : req'[q].pc \in {"voiding", "couponCancelling"} =>
                                req'[q] = req[q]
      BY <2>2, TypeMoveOn
    <2> QED
      BY <2>1, <2>3 DEF TypeOK, RowsOK, ReferencesOK, floor, ledger
  <1>3. CASE CreateOrder(r)
    <2>1. PICK b \in Baskets :
             orders' = Append(orders, [session |-> s, status |-> "NEW",
                                       lines |-> b, live |-> DOMAIN b])
      BY <1>3 DEF CreateOrder
    <2> DEFINE row == [session |-> s, status |-> "NEW", lines |-> b, live |-> DOMAIN b]
    <2>2. b \in Seq(Items) /\ DOMAIN b \subseteq Nat
      BY LenProperties DEF ServiceAssumption
    <2>3. row \in OrderRow /\ row.session = s
      BY <1>0, <2>2 DEF OrderRow, OrderStatuses, ActiveOrderStatuses
    <2>4. orders' = Append(orders, row)
      BY <2>1
    <2> HIDE DEF row
    <2>5. /\ orders' \in Seq(OrderRow)
          /\ DOMAIN orders' = DOMAIN orders \cup {Len(orders) + 1}
          /\ orders'[Len(orders) + 1] = row
          /\ \A n \in DOMAIN orders : orders'[n] = orders[n]
      BY <2>3, <2>4, AppendRow DEF TypeOK, RowsOK
    <2> QED
      BY <1>0, <1>3, <2>3, <2>5, ZenonT(60) DEF CreateOrder, Done, Idle, Request, TypeOK, RowsOK,
                                    ReferencesOK, RequestRecord, floor, ledger
  <1>4. CASE CreateStaffCall(r)
    <2> DEFINE row == [session |-> s, status |-> "PENDING"]
    <2>1. row \in CallRow /\ row.session = s
      BY <1>0 DEF CallRow
    <2>2. calls' = calls \/ calls' = Append(calls, row)
      BY <1>4 DEF CreateStaffCall
    <2> HIDE DEF row
    <2>3. /\ calls' \in Seq(CallRow)
          /\ \A n \in DOMAIN calls' : calls'[n].session \in DOMAIN sessions
      <3>1. CASE calls' = calls
        BY <3>1 DEF TypeOK, RowsOK, ReferencesOK
      <3>2. CASE calls' = Append(calls, row)
        <4>1. /\ calls' \in Seq(CallRow)
              /\ DOMAIN calls' = DOMAIN calls \cup {Len(calls) + 1}
              /\ calls'[Len(calls) + 1] = row
              /\ \A n \in DOMAIN calls : calls'[n] = calls[n]
          BY <2>1, <3>2, AppendRow DEF TypeOK, RowsOK
        <4> QED
          BY <1>0, <2>1, <4>1 DEF ReferencesOK, TypeOK
      <3> QED
        BY <2>2, <3>1, <3>2
    <2> QED
      BY <1>4, <2>3 DEF CreateStaffCall, Done, Idle, Request, TypeOK, RowsOK,
                        ReferencesOK, RequestRecord, floor, ledger
  <1>5. CASE RecordReversal(r)
    <2>1. /\ req[r].row \in DOMAIN payments
          /\ payments[req[r].row] \in PaymentRecord
          /\ payments[req[r].row].session = s
          /\ req[r].row \in Nat
          /\ req[r].seen \in Reversals
      BY <1>5, ElementOfSeq, LenProperties DEF RecordReversal, TypeOK, RowsOK, ReferencesOK
    <2>2. UNCHANGED <<floor, settings, orders, calls, coupons, redemptions>>
      BY <1>5 DEF RecordReversal
    <2>3. /\ payments' \in Seq(PaymentRecord)
          /\ DOMAIN payments \subseteq DOMAIN payments'
          /\ \A p \in DOMAIN payments : payments'[p] = payments[p]
          /\ \A p \in DOMAIN payments' : payments'[p].session \in DOMAIN sessions'
      <3>1. CASE UNCHANGED payments
        BY <2>2, <3>1 DEF TypeOK, RowsOK, ReferencesOK, floor
      <3>2. CASE payments' = Append(payments, ReversalRow(r))
        <4>1. ReversalRow(r) \in PaymentRecord /\ ReversalRow(r).session = s
          BY <1>0, <2>1, <3>2 DEF ReversalRow, PaymentRow, PaymentRecord
        <4> QED
          BY <1>0, <2>2, <3>2, <4>1, TypePayment DEF floor
      <3> QED
        BY <1>5, <3>1, <3>2 DEF RecordReversal
    <2>4. PICK pc \in {"settleSession", "couponCancelling", "idle"} :
             \/ Done(r)
             \/ Goto(r, pc) /\ pc # "idle"
      BY <1>5 DEF RecordReversal, AfterReversal, Goto
    <2>5. /\ req' \in [Reqs -> RequestRecord]
          /\ \A q \in Reqs : req'[q].pc # "idle" => req[q].pc # "idle"
                                /\ req'[q].session = req[q].session
          /\ \A q \in Reqs : req'[q].pc \in {"voiding", "couponCancelling"} =>
                /\ req[q].pc \in {"voiding", "couponCancelling"}
                /\ req'[q].row = req[q].row
          /\ \A q \in Reqs : req'[q].pc = "voiding" => req'[q] = req[q]
      <3>1. req \in [Reqs -> RequestRecord] /\ req[r].pc = "voiding"
        BY <1>5 DEF TypeOK, RowsOK, RecordReversal
      <3>2. CASE Done(r)
        <4>1. Idle \in RequestRecord /\ Idle.pc = "idle"
          BY DEF RequestRecord, Request, Idle
        <4> QED
          BY <3>1, <3>2, <4>1 DEF Done
      <3>3. CASE Goto(r, pc) /\ pc # "idle"
        <4> DEFINE next == [req[r] EXCEPT !.pc = pc]
        <4>1. /\ next \in RequestRecord
              /\ next.pc = pc
              /\ next.row = req[r].row
              /\ next.session = req[r].session
          BY <3>1 DEF RequestRecord
        <4>2. req' = [req EXCEPT ![r] = next]
          BY <3>3 DEF Goto
        <4> HIDE DEF next
        <4> QED
          BY <3>1, <4>1, <4>2
      <3> QED
        BY <2>4, <3>2, <3>3
    <2>6. RowsOK'
      BY <2>2, <2>3, <2>5, ZenonT(60) DEF TypeOK, RowsOK, floor
    <2>7. ReferencesOK'
      BY <2>2, <2>3, <2>5 DEF TypeOK, ReferencesOK, floor
    <2> QED
      BY <2>6, <2>7 DEF TypeOK
  <1>6. CASE CancelTableCouponRedemption(r)
    <2> DEFINE c == payments[req[r].row].coupon
               Redemption == [session : Nat, status : {"NONE", "LIVE", "CANCELLED"}]
               now == IF redemptions[c].session = s /\ redemptions[c].status = "LIVE"
                      THEN "CANCELLED" ELSE redemptions[c].status
    <2>1. redemptions' \in [Coupons -> Redemption]
      <3>1. redemptions \in [Coupons -> Redemption]
        BY DEF TypeOK, RowsOK
      <3>2. redemptions' = [redemptions EXCEPT ![c].status = now]
        BY <1>6 DEF CancelTableCouponRedemption
      <3>3. CASE c \in Coupons
        <4>1. redemptions[c] \in Redemption
          BY <3>1, <3>3
        <4>2. now \in {"NONE", "LIVE", "CANCELLED"}
          BY <4>1
        <4> HIDE DEF now, c
        <4>3. [redemptions[c] EXCEPT !.status = now] \in Redemption
          BY <4>1, <4>2
        <4>4. redemptions' = [redemptions EXCEPT ![c] = [redemptions[c] EXCEPT !.status = now]]
          BY <3>2, Zenon
        <4> HIDE DEF Redemption
        <4> QED
          BY <3>1, <3>3, <4>3, <4>4
      <3>4. CASE c \notin Coupons
        <4> HIDE DEF now, c, Redemption
        <4> QED
          BY <3>1, <3>2, <3>4
      <3> QED
        BY <3>3, <3>4
    <2>2. req' = [req EXCEPT ![r] = Request("settleSession", s, 0, "NONE")]
      BY <1>6 DEF CancelTableCouponRedemption, StartSettle
    <2>3. UNCHANGED <<floor, settings, orders, calls, payments, coupons>>
      BY <1>6 DEF CancelTableCouponRedemption
    <2>4. RequestsOK'
      <3> DEFINE q == Request("settleSession", s, 0, "NONE")
      <3>1. q \in RequestRecord /\ q.pc = "settleSession" /\ q.session = s
        BY <1>0 DEF Request, RequestRecord
      <3> HIDE DEF q
      <3>2. RequestsOK
        BY DEF TypeOK, RowsOK, ReferencesOK, RequestsOK
      <3>3. DOMAIN sessions' = DOMAIN sessions
        BY <2>3 DEF floor
      <3>4. req' = [req EXCEPT ![r] = q]
        BY <2>2 DEF q
      <3> QED
        BY <1>0, <2>3, <3>1, <3>2, <3>3, <3>4, RequestReplaced
    <2> HIDE DEF c, now
    <2>5. tables' = tables /\ sessions' = sessions
      BY <2>3 DEF floor
    <2>6. tables' \in [Tables -> TableRow] /\ sessions' \in Seq(SessionRow)
          /\ DOMAIN sessions' = DOMAIN sessions
      BY <2>5, TypeParts
    <2> QED
      BY <2>1, <2>3, <2>4, <2>6, TypeKept
  <1>7. CASE SettleClose(r) \/ SettlePend(r) \/ SettleRevert(r)
    <2>1. /\ tables' \in [Tables -> TableRow]
          /\ sessions' \in Seq(SessionRow)
          /\ DOMAIN sessions' = DOMAIN sessions
      <3>1. CASE UNCHANGED floor
        <4>1. tables' = tables /\ sessions' = sessions
          BY <3>1 DEF floor
        <4> QED
          BY <4>1, TypeParts
      <3>2. CASE EndSession(s, "AUTO_SETTLED")
        <4>1. "AUTO_SETTLED" \in CloseReasons
          BY DEF CloseReasons
        <4> QED
          BY <1>0, <3>2, <4>1, EndSessionShape
      <3>3. CASE /\ sessions[s].status = "ACTIVE"
                 /\ MoveSession(s, "ACTIVE", "PAID_PENDING_SERVICE", "OPEN", "SETTLING")
        BY <1>0, <3>3, MoveSessionShape
      <3>4. CASE /\ sessions[s].status = "PAID_PENDING_SERVICE"
                 /\ MoveSession(s, "PAID_PENDING_SERVICE", "ACTIVE", "SETTLING", "OPEN")
        BY <1>0, <3>4, MoveSessionShape
      <3> QED
        BY <1>7, <3>1, <3>2, <3>3, <3>4, SettleMoves, Zenon
    <2>2. UNCHANGED <<settings, orders, calls, ledger>> /\ Done(r)
      BY <1>7 DEF SettleClose, SettlePend, SettleRevert
    <2>3. RequestsOK'
      <3>1. Idle \in RequestRecord /\ Idle.pc = "idle"
        BY DEF RequestRecord, Request, Idle
      <3>2. RequestsOK
        BY DEF TypeOK, RowsOK, ReferencesOK, RequestsOK
      <3>3. UNCHANGED payments
        BY <2>2 DEF ledger
      <3>4. req' = [req EXCEPT ![r] = Idle]
        BY <2>2 DEF Done
      <3> QED
        BY <2>1, <3>1, <3>2, <3>3, <3>4, RequestReplaced
    <2>4. UNCHANGED <<settings, orders, calls, payments, coupons>> /\ redemptions' = redemptions
      BY <2>2 DEF ledger
    <2> QED
      BY <2>1, <2>3, <2>4, TypeParts, TypeKept
  <1> QED
    BY <1>1, <1>2, <1>3, <1>4, <1>5, <1>6, <1>7 DEF Continue, Settle

\* Type correctness is inductive.
LEMMA TypeInductive ==
    ASSUME TypeOK, ServiceAssumption, [Next]_vars
    PROVE  TypeOK'
  <1>1. CASE FrontAndAdmin
    BY <1>1, TypeFrontAndAdmin
  <1>2. CASE Hall
    BY <1>2, TypeHall
  <1>3. CASE \E r \in Reqs : Arrive(r) \/ Continue(r)
    BY <1>3, TypeArrive, TypeContinue
  <1>4. CASE Crash
    BY <1>4 DEF Crash, Idle, Request, TypeOK, RowsOK, ReferencesOK, RequestRecord,
                floor, ledger
  <1>5. CASE UNCHANGED vars
    BY <1>5 DEF vars, TypeOK, RowsOK, ReferencesOK
  <1> QED
    BY <1>1, <1>2, <1>3, <1>4, <1>5 DEF Next

\* The rows of the database are well formed in every reachable state, and no row
\* or handler in flight refers to a row that does not exist.
THEOREM TypeCorrect == Spec => []TypeOK
  <1>1. TypeOK /\ [Next]_vars => TypeOK'
    BY TypeInductive, ServiceAssumption
  <1> QED
    BY TypeInit, <1>1, PTL DEF Spec

-----------------------------------------------------------------------------
(* Table.status and TableSession.status never diverge.                     *)

\* Every session is of a table.
LEMMA SessionTable ==
    ASSUME TypeOK
    PROVE  \A q \in DOMAIN sessions : sessions[q].table \in Tables
  <1> SUFFICES ASSUME NEW q \in DOMAIN sessions PROVE sessions[q].table \in Tables
    OBVIOUS
  <1>1. sessions[q] \in SessionRow
    BY ElementOfSeq DEF TypeOK, RowsOK
  <1> QED
    BY <1>1 DEF SessionRow

\* What the agreement says of a pair of tables and sessions only depends on the
\* statuses and on which table a session is of.
LEMMA AgreementUnchanged ==
    ASSUME TypeOK, TypeOK', TableSessionAgreement,
           DOMAIN sessions' = DOMAIN sessions,
           \A s \in DOMAIN sessions : /\ sessions'[s].table = sessions[s].table
                                      /\ sessions'[s].status = sessions[s].status,
           \A t \in Tables : tables'[t].status = tables[t].status
    PROVE  TableSessionAgreement'
  <1>1. \A s \in DOMAIN sessions : sessions[s].table \in Tables
    BY SessionTable
  <1> QED
    BY <1>1 DEF TableSessionAgreement, IsLive, LiveSessions

\* A live session that takes another status keeps the agreement when its table
\* takes the status that goes with it.
LEMMA AgreementMoved ==
    ASSUME TypeOK, TypeOK', TableSessionAgreement,
           NEW s \in DOMAIN sessions, IsLive(s), NEW to, NEW tableTo,
           \/ to = "ACTIVE" /\ tableTo = "OPEN"
           \/ to = "PAID_PENDING_SERVICE" /\ tableTo = "SETTLING"
           \/ to = "CLOSED" /\ tableTo = "AVAILABLE",
           DOMAIN sessions' = DOMAIN sessions,
           sessions'[s].table = sessions[s].table, sessions'[s].status = to,
           \A q \in DOMAIN sessions \ {s} : sessions'[q] = sessions[q],
           tables'[sessions[s].table].status = tableTo,
           \A t \in Tables \ {sessions[s].table} : tables'[t].status = tables[t].status
    PROVE  TableSessionAgreement'
  <1> DEFINE t == sessions[s].table
  <1>1. \A q \in DOMAIN sessions : sessions[q].table \in Tables
    BY SessionTable
  <1>2. \A q \in DOMAIN sessions : IsLive(q)' => IsLive(q)
    BY DEF IsLive
  <1>3. \A q \in DOMAIN sessions \ {s} :
           /\ sessions'[q] = sessions[q]
           /\ IsLive(q) => sessions[q].table # t
    BY DEF TableSessionAgreement
  <1>4. \A a, b \in DOMAIN sessions' :
           IsLive(a)' /\ IsLive(b)' /\ sessions'[a].table = sessions'[b].table => a = b
    BY <1>2, <1>3 DEF TableSessionAgreement
  <1>5. ASSUME NEW q \in DOMAIN sessions', IsLive(q)'
        PROVE  tables'[sessions'[q].table].status =
                  IF sessions'[q].status = "ACTIVE" THEN "OPEN" ELSE "SETTLING"
    <2>1. CASE q = s
      BY <1>5, <2>1 DEF IsLive
    <2>2. CASE q # s
      BY <1>1, <1>2, <1>3, <1>5, <2>2 DEF TableSessionAgreement
    <2> QED
      BY <2>1, <2>2
  <1>6. ASSUME NEW u \in Tables, tables'[u].status \in {"OPEN", "SETTLING"}
        PROVE  \E q \in DOMAIN sessions' : sessions'[q].table = u /\ IsLive(q)'
    <2>1. CASE u = t
      BY <1>6, <2>1 DEF IsLive
    <2>2. CASE u # t
      <3>1. PICK q \in DOMAIN sessions : sessions[q].table = u /\ IsLive(q)
        BY <1>6, <2>2 DEF TableSessionAgreement, LiveSessions
      <3>2. q # s
        BY <2>2, <3>1
      <3> QED
        BY <1>3, <3>1, <3>2 DEF IsLive
    <2> QED
      BY <2>1, <2>2
  <1> QED
    BY <1>4, <1>5, <1>6 DEF TableSessionAgreement, LiveSessions, IsLive

\* Ending a live session frees its table.
LEMMA AgreementEnded ==
    ASSUME TypeOK, TypeOK', TableSessionAgreement,
           NEW s \in DOMAIN sessions, IsLive(s), NEW reason \in CloseReasons,
           EndSession(s, reason)
    PROVE  TableSessionAgreement'
  <1>1. sessions[s] \in SessionRow
    BY ElementOfSeq DEF TypeOK, RowsOK
  <1>2. /\ DOMAIN sessions' = DOMAIN sessions
        /\ sessions'[s] = [sessions[s] EXCEPT !.status = "CLOSED",
                             !.closeReason = reason, !.joined = FALSE]
        /\ \A q \in DOMAIN sessions \ {s} : sessions'[q] = sessions[q]
    BY EndSessionShape
  <1>3. sessions'[s].status = "CLOSED" /\ sessions'[s].table = sessions[s].table
    BY <1>1, <1>2 DEF SessionRow
  <1>4. tables[sessions[s].table].status \in {"OPEN", "SETTLING"}
    BY DEF TableSessionAgreement
  <1>5. /\ tables'[sessions[s].table].status = "AVAILABLE"
        /\ \A t \in Tables \ {sessions[s].table} : tables'[t].status = tables[t].status
    <2>1. tables \in [Tables -> TableRow] /\ sessions[s].table \in Tables
      BY <1>1 DEF TypeOK, RowsOK, SessionRow
    <2>2. tables' = [tables EXCEPT ![sessions[s].table] =
                        [tables[sessions[s].table] EXCEPT !.status = "AVAILABLE"]]
      BY <1>4, <2>1 DEF EndSession
    <2>3. [tables[sessions[s].table] EXCEPT !.status = "AVAILABLE"].status = "AVAILABLE"
      BY <2>1 DEF TableRow
    <2> QED
      BY <2>1, <2>2, <2>3
  <1> QED
    BY <1>2, <1>3, <1>5, AgreementMoved

\* Moving a session between its live statuses moves its table along.
LEMMA AgreementSwitched ==
    ASSUME TypeOK, TypeOK', TableSessionAgreement,
           NEW s \in DOMAIN sessions,
           NEW from \in LiveStatuses, NEW to \in LiveStatuses,
           NEW tableFrom \in {"OPEN", "SETTLING"}, NEW tableTo \in {"OPEN", "SETTLING"},
           tableFrom = IF from = "ACTIVE" THEN "OPEN" ELSE "SETTLING",
           tableTo = IF to = "ACTIVE" THEN "OPEN" ELSE "SETTLING",
           sessions[s].status = from,
           MoveSession(s, from, to, tableFrom, tableTo)
    PROVE  TableSessionAgreement'
  <1>1. sessions[s] \in SessionRow /\ IsLive(s)
    BY ElementOfSeq DEF TypeOK, RowsOK, IsLive
  <1>2. /\ DOMAIN sessions' = DOMAIN sessions
        /\ sessions'[s] = [sessions[s] EXCEPT !.status = to]
        /\ \A q \in DOMAIN sessions \ {s} : sessions'[q] = sessions[q]
    BY MoveSessionShape
  <1>3. sessions'[s].status = to /\ sessions'[s].table = sessions[s].table
    BY <1>1, <1>2 DEF SessionRow
  <1>4. tables[sessions[s].table].status = tableFrom
    BY <1>1 DEF TableSessionAgreement
  <1>5. /\ tables'[sessions[s].table].status = tableTo
        /\ \A t \in Tables \ {sessions[s].table} : tables'[t].status = tables[t].status
    <2>1. tables \in [Tables -> TableRow] /\ sessions[s].table \in Tables
      BY <1>1 DEF TypeOK, RowsOK, SessionRow
    <2>2. tables' = [tables EXCEPT ![sessions[s].table] =
                        [tables[sessions[s].table] EXCEPT !.status = tableTo]]
      BY <1>4, <2>1 DEF MoveSession
    <2>3. [tables[sessions[s].table] EXCEPT !.status = tableTo].status = tableTo
      BY <2>1 DEF TableRow
    <2> QED
      BY <2>1, <2>2, <2>3
  <1> QED
    BY <1>1, <1>2, <1>3, <1>5, AgreementMoved, ZenonT(60)

\* A table is opened only while no session of it is live.
LEMMA AgreementOpened ==
    ASSUME TypeOK, TypeOK', TableSessionAgreement, NEW t \in Tables, OpenTable(t)
    PROVE  TableSessionAgreement'
  <1> DEFINE row == [table |-> t, status |-> "ACTIVE", closeReason |-> "NONE",
                     joined |-> FALSE]
             new == Len(sessions) + 1
  <1>1. row \in SessionRow /\ row.table = t /\ row.status = "ACTIVE"
    BY DEF SessionRow, CloseReasons
  <1>2. sessions' = Append(sessions, row)
    BY DEF OpenTable
  <1>3. tables'[t].status = "OPEN"
    BY DEF OpenTable, TypeOK, RowsOK, TableRow
  <1>4. \A u \in Tables \ {t} : tables'[u].status = tables[u].status
    BY DEF OpenTable, TypeOK, RowsOK
  <1>5. \A q \in DOMAIN sessions : IsLive(q) => sessions[q].table # t
    BY DEF OpenTable, TableSessionAgreement
  <1>6. \A q \in DOMAIN sessions : sessions[q].table \in Tables
    BY SessionTable
  <1> HIDE DEF row
  <1>7. /\ DOMAIN sessions' = DOMAIN sessions \cup {new}
        /\ new \notin DOMAIN sessions
        /\ sessions'[new] = row
        /\ \A q \in DOMAIN sessions : sessions'[q] = sessions[q]
    BY <1>1, <1>2, AppendRow DEF TypeOK, RowsOK
  <1> HIDE DEF new
  <1>8. \A a, b \in DOMAIN sessions' :
           IsLive(a)' /\ IsLive(b)' /\ sessions'[a].table = sessions'[b].table => a = b
    BY <1>1, <1>5, <1>7 DEF TableSessionAgreement, IsLive
  <1>9. \A q \in DOMAIN sessions' : IsLive(q)' =>
           tables'[sessions'[q].table].status =
              IF sessions'[q].status = "ACTIVE" THEN "OPEN" ELSE "SETTLING"
    BY <1>1, <1>3, <1>4, <1>5, <1>6, <1>7 DEF TableSessionAgreement, IsLive
  <1>10. \A u \in Tables : tables'[u].status \in {"OPEN", "SETTLING"} =>
            \E q \in DOMAIN sessions' : sessions'[q].table = u /\ IsLive(q)'
    BY <1>1, <1>4, <1>7 DEF TableSessionAgreement, LiveSessions, IsLive
  <1> QED
    BY <1>8, <1>9, <1>10 DEF TableSessionAgreement, LiveSessions, IsLive

\* A table is taken out of service, or put back, only while no session is live.
LEMMA AgreementServiced ==
    ASSUME TypeOK, TypeOK', TableSessionAgreement, NEW t \in Tables,
           DisableTable(t) \/ EnableTable(t)
    PROVE  TableSessionAgreement'
  <1>1. \A q \in DOMAIN sessions : sessions[q].table \in Tables
    BY SessionTable
  <1>2. \A q \in DOMAIN sessions : IsLive(q) => sessions[q].table # t
    BY DEF DisableTable, EnableTable, TableSessionAgreement
  <1>3. tables'[t].status \in {"AVAILABLE", "DISABLED"}
    BY DEF DisableTable, EnableTable, TypeOK, RowsOK, TableRow
  <1>4. \A u \in Tables \ {t} : tables'[u].status = tables[u].status
    BY DEF DisableTable, EnableTable, TypeOK, RowsOK
  <1>5. UNCHANGED sessions
    BY DEF DisableTable, EnableTable
  <1> QED
    BY <1>1, <1>2, <1>3, <1>4, <1>5 DEF TableSessionAgreement, LiveSessions, IsLive

\* Whatever handlers race, the two statuses agree after every step.
LEMMA AgreementInductive ==
    ASSUME TypeOK, TypeOK', TableSessionAgreement, [Next]_vars
    PROVE  TableSessionAgreement'
  <1>1. CASE UNCHANGED floor
    BY <1>1, AgreementUnchanged DEF floor
  <1>2. CASE FrontAndAdmin
    <2>1. ASSUME NEW t \in Tables, OpenTable(t) \/ DisableTable(t) \/ EnableTable(t)
          PROVE  TableSessionAgreement'
      BY <2>1, AgreementOpened, AgreementServiced
    <2>2. ASSUME NEW s \in DOMAIN sessions, CloseTable(s) \/ ForceCloseTable(s)
          PROVE  TableSessionAgreement'
      <3>1. IsLive(s) /\ \E reason \in CloseReasons : EndSession(s, reason)
        BY <2>2 DEF CloseTable, ForceCloseTable, IsCurrent, CloseReasons
      <3> QED
        BY <3>1, AgreementEnded
    <2>3. ASSUME NEW t \in Tables, NEW l \in Locks, UpdateTable(t, l)
          PROVE  TableSessionAgreement'
      <3>1. \A u \in Tables : tables'[u].status = tables[u].status
        BY <2>3 DEF UpdateTable, TypeOK, RowsOK, TableRow
      <3>2. UNCHANGED sessions
        BY <2>3 DEF UpdateTable
      <3> QED
        BY <3>1, <3>2, AgreementUnchanged
    <2>4. ASSUME NEW v \in Switches, UpdateSettings(v)
          PROVE  TableSessionAgreement'
      BY <1>1, <2>4 DEF UpdateSettings
    <2> QED
      BY <1>2, <2>1, <2>2, <2>3, <2>4 DEF FrontAndAdmin
  <1>3. CASE Hall
    <2>1. UNCHANGED <<tables, sessions>>
      BY <1>3, HallLeaves, Zenon
    <2> QED
      BY <2>1, AgreementUnchanged, Zenon
  <1>4. ASSUME NEW r \in Reqs, Arrive(r)
        PROVE  TableSessionAgreement'
    <2>1. UNCHANGED <<tables, sessions>>
      BY <1>4, ArriveLeaves, ZenonT(60)
    <2> QED
      BY <2>1, AgreementUnchanged, Zenon
  <1>5. ASSUME NEW r \in Reqs, Continue(r)
        PROVE  TableSessionAgreement'
    <2>1. CASE IssueDeviceSession(r)
      <3> DEFINE s == req[r].session
      <3>1. s \in DOMAIN sessions
        BY <2>1 DEF IssueDeviceSession, TypeOK, ReferencesOK
      <3>2. sessions[s] \in SessionRow
        BY <3>1, ElementOfSeq DEF TypeOK, RowsOK
      <3>3. /\ DOMAIN sessions' = DOMAIN sessions
            /\ sessions'[s] = [sessions[s] EXCEPT !.joined = TRUE]
            /\ \A q \in DOMAIN sessions \ {s} : sessions'[q] = sessions[q]
        BY <2>1, <3>1, JoinShape DEF IssueDeviceSession
      <3>4. \A q \in DOMAIN sessions : /\ sessions'[q].table = sessions[q].table
                                       /\ sessions'[q].status = sessions[q].status
        BY <3>2, <3>3 DEF SessionRow
      <3>5. UNCHANGED tables
        BY <2>1, IssueLeaves, Zenon
      <3> QED
        BY <3>3, <3>4, <3>5, AgreementUnchanged
    <2>2. CASE SettleClose(r) \/ SettlePend(r) \/ SettleRevert(r)
      <3> DEFINE s == req[r].session
      <3>1. s \in DOMAIN sessions
        BY <2>2 DEF SettleClose, SettlePend, SettleRevert, TypeOK, ReferencesOK
      <3>2. CASE IsLive(s) /\ EndSession(s, "AUTO_SETTLED")
        BY <3>1, <3>2, AgreementEnded DEF CloseReasons
      <3>3. CASE /\ sessions[s].status = "ACTIVE"
                 /\ MoveSession(s, "ACTIVE", "PAID_PENDING_SERVICE", "OPEN", "SETTLING")
        BY <3>1, <3>3, AgreementSwitched
      <3>4. CASE /\ sessions[s].status = "PAID_PENDING_SERVICE"
                 /\ MoveSession(s, "PAID_PENDING_SERVICE", "ACTIVE", "SETTLING", "OPEN")
        BY <3>1, <3>4, AgreementSwitched
      <3> QED
        BY <1>1, <2>2, <3>2, <3>3, <3>4, SettleMoves, Zenon
    <2>3. CASE UNCHANGED floor
      BY <1>1, <2>3
    <2> QED
      BY <1>5, <2>1, <2>2, <2>3
         DEF Continue, Settle, CheckOrderingEnabled, CreateOrder, CreateStaffCall,
             RecordReversal, CancelTableCouponRedemption, SettleReadSession,
             SettleReadOrders, SettleReadPayments, SettleCountUnserved
  <1>6. CASE Crash
    BY <1>1, <1>6 DEF Crash
  <1>7. CASE UNCHANGED vars
    BY <1>1, <1>7 DEF vars, floor
  <1> QED
    BY <1>2, <1>3, <1>4, <1>5, <1>6, <1>7 DEF Next

\* A table never has two live sessions, and its status is always the one that
\* goes with the status of its live session, for any number of tables and of
\* racing handlers, crashes included.
THEOREM TableSessionAgreementHolds == Spec => []TableSessionAgreement
  <1>1. Init => TableSessionAgreement
    BY EmptySeq DEF Init, TableSessionAgreement, LiveSessions
  <1>2. TypeOK /\ TypeOK' /\ TableSessionAgreement /\ [Next]_vars
           => TableSessionAgreement'
    BY AgreementInductive
  <1> QED
    BY TypeCorrect, <1>1, <1>2, PTL DEF Spec

-----------------------------------------------------------------------------
(* A closed session stays closed.                                          *)

\* What a step may do to one session: nothing to a closed one but take a device.
LEMMA ClosedKept ==
    ASSUME TypeOK, [Next]_vars, NEW s \in DOMAIN sessions, sessions[s].status = "CLOSED"
    PROVE  /\ sessions'[s].status = "CLOSED"
           /\ sessions'[s].closeReason = sessions[s].closeReason
  <1>1. sessions[s] \in SessionRow
    BY ElementOfSeq DEF TypeOK, RowsOK
  <1>2. CASE sessions'[s] = sessions[s]
    BY <1>2
  <1>3. ASSUME NEW t \in Tables, OpenTable(t)
        PROVE  sessions'[s] = sessions[s]
    <2>1. sessions' = Append(sessions, [table |-> t, status |-> "ACTIVE",
                                        closeReason |-> "NONE", joined |-> FALSE])
      BY <1>3 DEF OpenTable
    <2> QED
      BY <2>1 DEF TypeOK, RowsOK
  <1>4. ASSUME NEW q \in DOMAIN sessions, NEW reason \in CloseReasons, IsLive(q),
               EndSession(q, reason)
        PROVE  sessions'[s] = sessions[s]
    <2>1. q # s
      BY <1>4 DEF IsLive
    <2> QED
      BY <1>4, <2>1, EndSessionShape
  <1>5. ASSUME NEW r \in Reqs, IssueDeviceSession(r)
        PROVE  /\ sessions'[s].status = sessions[s].status
               /\ sessions'[s].closeReason = sessions[s].closeReason
    <2>1. req[r].session \in DOMAIN sessions
      BY <1>5 DEF IssueDeviceSession, TypeOK, ReferencesOK
    <2>2. \/ sessions'[s] = sessions[s]
          \/ sessions'[s] = [sessions[s] EXCEPT !.joined = TRUE]
      BY <1>5, <2>1, JoinShape DEF IssueDeviceSession
    <2> QED
      BY <1>1, <2>2 DEF SessionRow
  <1>6. ASSUME NEW r \in Reqs, SettleClose(r) \/ SettlePend(r) \/ SettleRevert(r)
        PROVE  sessions'[s] = sessions[s]
    <2> DEFINE q == req[r].session
    <2>1. q \in DOMAIN sessions
      BY <1>6 DEF SettleClose, SettlePend, SettleRevert, TypeOK, ReferencesOK
    <2>2. CASE UNCHANGED floor
      BY <2>2 DEF floor
    <2>3. CASE IsLive(q) /\ EndSession(q, "AUTO_SETTLED")
      BY <1>4, <2>1, <2>3 DEF CloseReasons
    <2>4. CASE /\ sessions[q].status = "ACTIVE"
               /\ MoveSession(q, "ACTIVE", "PAID_PENDING_SERVICE", "OPEN", "SETTLING")
      BY <2>1, <2>4, MoveSessionShape
    <2>5. CASE /\ sessions[q].status = "PAID_PENDING_SERVICE"
               /\ MoveSession(q, "PAID_PENDING_SERVICE", "ACTIVE", "SETTLING", "OPEN")
      BY <2>1, <2>5, MoveSessionShape
    <2> QED
      BY <1>6, <2>2, <2>3, <2>4, <2>5, SettleMoves, Zenon
  <1>7. CASE FrontAndAdmin
    <2>1. ASSUME NEW q \in DOMAIN sessions, CloseTable(q) \/ ForceCloseTable(q)
          PROVE  sessions'[s] = sessions[s]
      <3>1. IsLive(q) /\ \E reason \in CloseReasons : EndSession(q, reason)
        BY <2>1 DEF CloseTable, ForceCloseTable, IsCurrent, CloseReasons
      <3> QED
        BY <1>4, <3>1
    <2>2. \/ \E t \in Tables : OpenTable(t)
          \/ \E q \in DOMAIN sessions : CloseTable(q) \/ ForceCloseTable(q)
          \/ UNCHANGED sessions
      BY <1>7 DEF FrontAndAdmin, DisableTable, EnableTable, UpdateTable, UpdateSettings, floor
    <2> QED
      BY <1>2, <1>3, <2>1, <2>2
  <1>8. CASE Hall
    <2>1. UNCHANGED sessions
      BY <1>8, HallLeaves, Zenon
    <2> QED
      BY <1>2, <2>1
  <1>9. ASSUME NEW r \in Reqs, Arrive(r)
        PROVE  UNCHANGED sessions
    BY <1>9, ArriveLeaves
  <1>10. ASSUME NEW r \in Reqs, Continue(r)
         PROVE  \/ UNCHANGED sessions
                \/ IssueDeviceSession(r)
                \/ SettleClose(r) \/ SettlePend(r) \/ SettleRevert(r)
    BY <1>10 DEF Continue, Settle, CheckOrderingEnabled, CreateOrder, CreateStaffCall,
                 RecordReversal, CancelTableCouponRedemption, SettleReadSession,
                 SettleReadOrders, SettleReadPayments, SettleCountUnserved, floor
  <1>11. CASE Crash \/ UNCHANGED vars
    BY <1>11 DEF Crash, vars, floor
  <1> QED
    BY <1>2, <1>5, <1>6, <1>7, <1>8, <1>9, <1>10, <1>11 DEF Next

\* No handler brings a closed session back or changes the reason it was closed
\* for, however old the state is that the handler acts on.
THEOREM ClosedForGoodHolds == Spec => ClosedForGood
  <1>1. TypeOK /\ [Next]_vars =>
           [\A s \in DOMAIN sessions : sessions[s].status = "CLOSED" =>
               /\ sessions'[s].status = "CLOSED"
               /\ sessions'[s].closeReason = sessions[s].closeReason]_vars
    BY ClosedKept
  <1> QED
    BY TypeCorrect, <1>1, PTL DEF Spec, ClosedForGood

-----------------------------------------------------------------------------
(* At most one call of a session is open.                                  *)

\* OneOpenCall without counting.
OpenCallUnique ==
    \A c, d \in DOMAIN calls :
        /\ calls[c].status \in OpenCallStatuses
        /\ calls[d].status \in OpenCallStatuses
        /\ calls[c].session = calls[d].session
        => c = d

\* Of calls that are unique each session has at most one.
LEMMA OpenCallsCounted == OpenCallUnique => OneOpenCall
  <1> SUFFICES ASSUME OpenCallUnique, NEW s \in DOMAIN sessions
               PROVE  Cardinality(OpenCalls(s)) <= 1
    BY DEF OneOpenCall
  <1>1. \A c, d \in OpenCalls(s) : c = d
    BY DEF OpenCallUnique, OpenCalls, RowsOf
  <1>2. CASE OpenCalls(s) = {}
    BY <1>2, FS_EmptySet
  <1>3. ASSUME NEW c \in OpenCalls(s) PROVE Cardinality(OpenCalls(s)) <= 1
    <2>1. OpenCalls(s) = {c}
      BY <1>1
    <2>2. Cardinality({c}) = 1
      BY FS_Singleton
    <2> QED
      BY <2>1, <2>2
  <1> QED
    BY <1>2, <1>3

\* A call is only added when the session has none open, and none is reopened.
LEMMA OpenCallInductive ==
    ASSUME TypeOK, OpenCallUnique, [Next]_vars
    PROVE  OpenCallUnique'
  <1>1. CASE UNCHANGED calls
    BY <1>1 DEF OpenCallUnique
  <1>2. ASSUME NEW c \in DOMAIN calls, AckCall(c) \/ FinishCall(c)
        PROVE  OpenCallUnique'
    <2>1. PICK v \in {"ACKED", "DONE"} :
             calls' = [calls EXCEPT ![c] = [calls[c] EXCEPT !.status = v]]
      BY <1>2 DEF AckCall, FinishCall
    <2>2. calls[c] \in CallRow /\ calls[c].status \in OpenCallStatuses
      BY <1>2, ElementOfSeq DEF AckCall, FinishCall, TypeOK, RowsOK
    <2> DEFINE row == [calls[c] EXCEPT !.status = v]
    <2>3. row \in CallRow /\ row.session = calls[c].session
      BY <2>2 DEF CallRow
    <2>4. calls' = [calls EXCEPT ![c] = row]
      BY <2>1
    <2> HIDE DEF row
    <2>5. /\ DOMAIN calls' = DOMAIN calls
          /\ calls'[c] = row
          /\ \A n \in DOMAIN calls \ {c} : calls'[n] = calls[n]
      BY <2>3, <2>4, ReplaceRow DEF TypeOK, RowsOK
    <2>6. \A n \in DOMAIN calls' :
             /\ n \in DOMAIN calls
             /\ calls'[n].session = calls[n].session
             /\ calls'[n].status \in OpenCallStatuses => calls[n].status \in OpenCallStatuses
      BY <2>2, <2>3, <2>5
    <2> QED
      BY <2>6 DEF OpenCallUnique
  <1>3. ASSUME NEW r \in Reqs, CreateStaffCall(r)
        PROVE  OpenCallUnique'
    <2> DEFINE s == req[r].session
               row == [session |-> s, status |-> "PENDING"]
               new == Len(calls) + 1
    <2>1. s \in DOMAIN sessions /\ s \in Nat
      BY <1>3, LenProperties DEF CreateStaffCall, TypeOK, RowsOK, ReferencesOK
    <2>2. row \in CallRow /\ row.session = s
      BY <2>1 DEF CallRow
    <2>3. CASE OpenCalls(s) = {} /\ calls' = Append(calls, row)
      <3>1. \A n \in DOMAIN calls :
               calls[n].status \in OpenCallStatuses => calls[n].session # s
        BY <2>3 DEF OpenCalls, RowsOf
      <3> HIDE DEF row
      <3>2. /\ DOMAIN calls' = DOMAIN calls \cup {new}
            /\ new \notin DOMAIN calls
            /\ calls'[new] = row
            /\ \A n \in DOMAIN calls : calls'[n] = calls[n]
        BY <2>2, <2>3, AppendRow DEF TypeOK, RowsOK
      <3> HIDE DEF new
      <3> QED
        BY <2>2, <3>1, <3>2 DEF OpenCallUnique
    <2> QED
      BY <1>1, <1>3, <2>3 DEF CreateStaffCall
  <1>4. \/ UNCHANGED calls
        \/ \E c \in DOMAIN calls : AckCall(c) \/ FinishCall(c)
        \/ \E r \in Reqs : CreateStaffCall(r)
    <2>1. CASE FrontAndAdmin
      BY <2>1 DEF FrontAndAdmin, OpenTable, DisableTable, EnableTable, CloseTable,
                  ForceCloseTable, UpdateTable, UpdateSettings
    <2>2. CASE Hall
      <3>1. ASSUME NEW o, NEW from, NEW to, ApplyTransition(o, from, to)
            PROVE  UNCHANGED calls
        BY <3>1, Zenon DEF ApplyTransition
      <3>2. ASSUME NEW o, NEW lines, CancelOrder(o, lines)
            PROVE  UNCHANGED calls
        BY <3>2, ZenonT(60) DEF CancelOrder
      <3> QED
        BY <2>2, <3>1, <3>2, Zenon
           DEF Hall, Kitchen, AcceptOrder, RejectOrder, StartPreparing, MarkReady,
               RevertServedToReady
    <2>3. ASSUME NEW r \in Reqs, Arrive(r)
          PROVE  UNCHANGED calls
      BY <2>3, ArriveLeaves
    <2>4. ASSUME NEW r \in Reqs, Continue(r)
          PROVE  UNCHANGED calls \/ CreateStaffCall(r)
      BY <2>4 DEF Continue, Settle, IssueDeviceSession, CheckOrderingEnabled, CreateOrder,
                  RecordReversal, CancelTableCouponRedemption, SettleReadSession,
                  SettleReadOrders, SettleReadPayments, SettleCountUnserved,
                  SettleClose, SettlePend, SettleRevert
    <2>5. CASE Crash \/ UNCHANGED vars
      BY <2>5 DEF Crash, vars
    <2> QED
      BY <2>1, <2>2, <2>3, <2>4, <2>5 DEF Next
  <1> QED
    BY <1>1, <1>2, <1>3, <1>4

\* Two guests who call at once, and staff who answer meanwhile, never leave a
\* session with two open calls.
THEOREM OneOpenCallHolds == Spec => []OneOpenCall
  <1>1. Init => OpenCallUnique
    BY EmptySeq DEF Init, OpenCallUnique
  <1>2. TypeOK /\ OpenCallUnique /\ [Next]_vars => OpenCallUnique'
    BY OpenCallInductive
  <1> QED
    BY TypeCorrect, OpenCallsCounted, <1>1, <1>2, PTL DEF Spec

-----------------------------------------------------------------------------
(* A payment is reversed at most once.                                     *)

\* A handler that reverses a payment holds an original; only a reversal names
\* another payment.
VoidingOriginals ==
    /\ \A r \in Reqs : req[r].pc = "voiding" => payments[req[r].row].kind \in Originals
    /\ \A p \in DOMAIN payments :
          payments[p].kind \in Originals => payments[p].reversedPaymentId = 0

\* ReversedOnce with what makes it inductive.
ReversalInv == ReversedOnce /\ VoidingOriginals

\* An original added to the payments leaves the reversals alone.
LEMMA ReversalsPaid ==
    ASSUME TypeOK, ReversalInv, NEW r \in Reqs,
           NEW row \in PaymentRecord, row.kind \in Originals, row.reversedPaymentId = 0,
           payments' = Append(payments, row),
           \A q \in Reqs \ {r} : req'[q] = req[q], req'[r].pc # "voiding"
    PROVE  ReversalInv'
  <1> DEFINE new == Len(payments) + 1
  <1>1. /\ DOMAIN payments' = DOMAIN payments \cup {new}
        /\ new \notin DOMAIN payments
        /\ payments'[new] = row
        /\ \A n \in DOMAIN payments : payments'[n] = payments[n]
    BY AppendRow DEF TypeOK, RowsOK
  <1> HIDE DEF new
  <1>2. \A q \in Reqs : req'[q].pc = "voiding" =>
           /\ req'[q] = req[q]
           /\ req[q].row \in DOMAIN payments
    BY DEF TypeOK, ReferencesOK
  <1> QED
    BY <1>1, <1>2 DEF ReversalInv, ReversedOnce, VoidingOriginals

\* The transaction of voidPayment adds a reversal only when there is none.
LEMMA ReversalsRecorded ==
    ASSUME TypeOK, ReversalInv, NEW r \in Reqs, RecordReversal(r)
    PROVE  ReversalInv'
  <1> DEFINE original == req[r].row
             new == Len(payments) + 1
             row == ReversalRow(r)
  <1>1. /\ original \in DOMAIN payments
        /\ payments[original] \in PaymentRecord
        /\ payments[original].kind \in Originals
        /\ payments[original].session = req[r].session
        /\ req[r].session \in Nat /\ original \in Nat
        /\ req[r].seen \in Reversals
    BY ElementOfSeq, LenProperties
       DEF RecordReversal, TypeOK, RowsOK, ReferencesOK, RequestRecord, ReversalInv,
           VoidingOriginals
  <1>2. \A q \in Reqs : req'[q].pc = "voiding" =>
           /\ req'[q] = req[q]
           /\ req[q].row \in DOMAIN payments
    <2>1. req \in [Reqs -> RequestRecord]
      BY DEF TypeOK, RowsOK
    <2>2. req'[r].pc # "voiding" /\ \A q \in Reqs \ {r} : req'[q] = req[q]
      BY <2>1 DEF RecordReversal, AfterReversal, Done, Idle, Request, RequestRecord
    <2> QED
      BY <2>2 DEF TypeOK, ReferencesOK
  <1>3. CASE UNCHANGED payments
    BY <1>2, <1>3 DEF ReversalInv, ReversedOnce, VoidingOriginals
  <1>4. CASE payments' = Append(payments, row) /\ ReversalsOf(original) = {}
    <2>1. /\ row \in PaymentRecord
          /\ row.kind \in Reversals
          /\ row.reversedPaymentId = original
          /\ row.amount = payments[original].amount
          /\ row.session = payments[original].session
      BY <1>1 DEF ReversalRow, PaymentRow, PaymentRecord
    <2> HIDE DEF row
    <2>2. /\ DOMAIN payments' = DOMAIN payments \cup {new}
          /\ new \notin DOMAIN payments
          /\ payments'[new] = row
          /\ \A n \in DOMAIN payments : payments'[n] = payments[n]
      BY <1>4, <2>1, AppendRow DEF TypeOK, RowsOK
    <2> HIDE DEF new
    <2>3. \A n \in DOMAIN payments : payments[n].reversedPaymentId # original
      BY <1>4 DEF ReversalsOf
    <2>4. \A p, q \in DOMAIN payments' :
             payments'[p].kind \in Reversals /\ payments'[q].kind \in Reversals
             /\ payments'[p].reversedPaymentId = payments'[q].reversedPaymentId => p = q
      BY <2>1, <2>2, <2>3 DEF ReversalInv, ReversedOnce
    <2>5. \A p \in DOMAIN payments' : payments'[p].kind \in Reversals =>
             /\ payments'[p].reversedPaymentId \in DOMAIN payments'
             /\ LET o == payments'[payments'[p].reversedPaymentId]
                IN  o.kind \in Originals /\ o.amount = payments'[p].amount
                    /\ o.session = payments'[p].session
      BY <1>1, <2>1, <2>2 DEF ReversalInv, ReversedOnce
    <2>6. VoidingOriginals'
      BY <1>2, <2>1, <2>2 DEF ReversalInv, VoidingOriginals
    <2> QED
      BY <2>4, <2>5, <2>6 DEF ReversalInv, ReversedOnce
  <1> QED
    BY <1>3, <1>4 DEF RecordReversal

\* A step that leaves the payments alone keeps the invariant when the handlers
\* that are reversing afterwards hold originals.
LEMMA ReversalsUntouched ==
    ASSUME ReversalInv, UNCHANGED payments,
           \A q \in Reqs : req'[q].pc = "voiding" =>
                 \/ req'[q] = req[q]
                 \/ payments[req'[q].row].kind \in Originals
    PROVE  ReversalInv'
  BY DEF ReversalInv, ReversedOnce, VoidingOriginals

\* Whatever handlers race, no payment gets a second reversal.
LEMMA ReversalInductive ==
    ASSUME TypeOK, ServiceAssumption, ReversalInv, [Next]_vars
    PROVE  ReversalInv'
  <1>0. req \in [Reqs -> RequestRecord]
    BY DEF TypeOK, RowsOK
  <1>1. CASE FrontAndAdmin
    <2>1. UNCHANGED <<payments, req>>
      BY <1>1 DEF FrontAndAdmin, OpenTable, DisableTable, EnableTable, CloseTable,
                  ForceCloseTable, UpdateTable, UpdateSettings, ledger
    <2> QED
      BY <2>1, ReversalsUntouched
  <1>2. CASE Hall
    <2>1. UNCHANGED <<payments, req>>
      BY <1>2 DEF Hall, Kitchen, AckCall, FinishCall, AcceptOrder, RejectOrder, StartPreparing,
                  MarkReady, RevertServedToReady, ApplyTransition, CancelOrder, ledger
    <2> QED
      BY <2>1, ReversalsUntouched
  <1>3. ASSUME NEW r \in Reqs, NEW pc \in Steps \ {"voiding"}, NEW s, NEW row, NEW seen,
               req' = [req EXCEPT ![r] = Request(pc, s, row, seen)]
        PROVE  req'[r].pc # "voiding" /\ \A q \in Reqs \ {r} : req'[q] = req[q]
    BY <1>0, <1>3 DEF Request
  <1>4. ASSUME NEW r \in Reqs, Arrive(r)
        PROVE  ReversalInv'
    <2>1. ASSUME NEW s \in DOMAIN sessions, NEW kind \in Originals, PayAmount(r, s, kind)
          PROVE  ReversalInv'
      <3>1. PICK amount \in 1..Remaining(s) :
               payments' = Append(payments, PaymentRow(s, kind, amount, 0, NoCoupon, {}))
        BY <2>1 DEF PayAmount
      <3>2. amount \in Nat /\ s \in Nat
        BY LenProperties DEF TypeOK, RowsOK
      <3>3. /\ PaymentRow(s, kind, amount, 0, NoCoupon, {}) \in PaymentRecord
            /\ PaymentRow(s, kind, amount, 0, NoCoupon, {}).kind \in Originals
            /\ PaymentRow(s, kind, amount, 0, NoCoupon, {}).reversedPaymentId = 0
        BY <3>2 DEF PaymentRow, PaymentRecord
      <3>4. req'[r].pc # "voiding" /\ \A q \in Reqs \ {r} : req'[q] = req[q]
        BY <1>3, <2>1 DEF PayAmount, StartSettle
      <3> QED
        BY <3>1, <3>3, <3>4, ReversalsPaid
    <2>2. ASSUME NEW s \in DOMAIN sessions, PayItems(r, s)
          PROVE  ReversalInv'
      <3>1. PICK allocations \in SUBSET Payable(s), amount \in 0..NonNegative(Remaining(s)) :
               payments' = Append(payments,
                              PaymentRow(s, "CHARGE", amount, 0, NoCoupon, allocations))
        BY <2>2 DEF PayItems
      <3>2. amount \in Nat /\ s \in Nat
        BY LenProperties DEF TypeOK, RowsOK
      <3>3. allocations \in SUBSET Allocation
        BY PayableAllocations
      <3>4. /\ PaymentRow(s, "CHARGE", amount, 0, NoCoupon, allocations) \in PaymentRecord
            /\ PaymentRow(s, "CHARGE", amount, 0, NoCoupon, allocations).kind \in Originals
            /\ PaymentRow(s, "CHARGE", amount, 0, NoCoupon, allocations).reversedPaymentId = 0
        BY <3>2, <3>3 DEF PaymentRow, PaymentRecord
      <3>5. req'[r].pc # "voiding" /\ \A q \in Reqs \ {r} : req'[q] = req[q]
        BY <1>3, <2>2 DEF PayItems, StartSettle
      <3> QED
        BY <3>1, <3>4, <3>5, ReversalsPaid
    <2>3. ASSUME NEW s \in DOMAIN sessions, NEW c \in Coupons, ApplyTableCoupon(r, s, c)
          PROVE  ReversalInv'
      <3>1. PICK amount \in 1..Remaining(s) :
               payments' = Append(payments, PaymentRow(s, "DISCOUNT", amount, 0, c, {}))
        BY <2>3 DEF ApplyTableCoupon
      <3>2. amount \in Nat /\ s \in Nat
        BY LenProperties DEF TypeOK, RowsOK
      <3>3. /\ PaymentRow(s, "DISCOUNT", amount, 0, c, {}) \in PaymentRecord
            /\ PaymentRow(s, "DISCOUNT", amount, 0, c, {}).kind \in Originals
            /\ PaymentRow(s, "DISCOUNT", amount, 0, c, {}).reversedPaymentId = 0
        BY <3>2 DEF PaymentRow, PaymentRecord
      <3>4. req'[r].pc # "voiding" /\ \A q \in Reqs \ {r} : req'[q] = req[q]
        BY <1>3, <2>3 DEF ApplyTableCoupon, StartSettle
      <3> QED
        BY <3>1, <3>3, <3>4, ReversalsPaid
    <2>4. ASSUME NEW p \in DOMAIN payments, StartVoid(r, p)
          PROVE  ReversalInv'
      <3>1. PICK kind \in Reversals :
               req' = [req EXCEPT ![r] = Request("voiding", payments[p].session, p, kind)]
        BY <2>4 DEF StartVoid
      <3>2. /\ req'[r].row = p
            /\ \A q \in Reqs \ {r} : req'[q] = req[q]
        BY <1>0, <3>1 DEF Request
      <3>3. UNCHANGED payments /\ payments[p].kind \in Originals
        BY <2>4 DEF StartVoid, ledger
      <3> QED
        BY <3>2, <3>3, ReversalsUntouched
    <2>5. ASSUME NEW s \in DOMAIN sessions,
                 StartJoin(r, s) \/ StartOrder(r, s) \/ StartStaffCall(r, s)
          PROVE  ReversalInv'
      <3>1. UNCHANGED payments
        BY <2>5 DEF StartJoin, StartOrder, StartStaffCall, ledger
      <3>2. req'[r].pc # "voiding" /\ \A q \in Reqs \ {r} : req'[q] = req[q]
        <4>1. PICK pc \in {"joining", "gating", "calling"} :
                 req' = [req EXCEPT ![r] = Request(pc, s, 0, "NONE")]
          BY <2>5 DEF StartJoin, StartOrder, StartStaffCall
        <4> QED
          BY <1>3, <4>1
      <3> QED
        BY <3>1, <3>2, ReversalsUntouched
    <2>6. ASSUME NEW o \in DOMAIN orders, MarkServed(r, o)
          PROVE  ReversalInv'
      <3>1. UNCHANGED payments
        BY <2>6 DEF MarkServed, ApplyTransition, ledger
      <3>2. req'[r].pc # "voiding" /\ \A q \in Reqs \ {r} : req'[q] = req[q]
        BY <1>3, <2>6 DEF MarkServed, StartSettle
      <3> QED
        BY <3>1, <3>2, ReversalsUntouched
    <2> QED
      BY <1>4, <2>1, <2>2, <2>3, <2>4, <2>5, <2>6
        DEF Arrive, Cashier, CreatePayment, CreateDiscount, Originals
  <1>5. ASSUME NEW r \in Reqs, Continue(r)
        PROVE  ReversalInv'
    <2>1. CASE RecordReversal(r)
      BY <2>1, ReversalsRecorded
    <2>2. CASE ~RecordReversal(r)
      <3>1. UNCHANGED payments
        BY <1>5, <2>2, ContinueLeaves
      <3>2. PICK pc \in Steps \ {"voiding"} :
               \/ Done(r)
               \/ Goto(r, pc)
               \/ \E s, seen : req' = [req EXCEPT ![r] = Request(pc, s, 0, seen)]
        BY <1>5, <2>2, ContinueMovesOn, Zenon
      <3>3. req'[r].pc # "voiding" /\ \A q \in Reqs \ {r} : req'[q] = req[q]
        <4>1. CASE Done(r)
          BY <1>0, <4>1 DEF Done, Idle, Request
        <4>2. CASE Goto(r, pc)
          BY <1>0, <4>2 DEF Goto, RequestRecord
        <4>3. ASSUME NEW s, NEW seen, req' = [req EXCEPT ![r] = Request(pc, s, 0, seen)]
              PROVE  req'[r].pc # "voiding" /\ \A q \in Reqs \ {r} : req'[q] = req[q]
          BY <1>3, <4>3
        <4> QED
          BY <3>2, <4>1, <4>2, <4>3
      <3> QED
        BY <3>1, <3>3, ReversalsUntouched
    <2> QED
      BY <2>1, <2>2
  <1>6. CASE Crash
    <2>1. UNCHANGED payments /\ \A q \in Reqs : req'[q].pc # "voiding"
      BY <1>6 DEF Crash, Idle, Request, ledger
    <2> QED
      BY <2>1, ReversalsUntouched
  <1>7. CASE UNCHANGED vars
    BY <1>7, ReversalsUntouched DEF vars
  <1> QED
    BY <1>1, <1>2, <1>4, <1>5, <1>6, <1>7 DEF Next

\* However VOID and REFUND handlers race, a payment is reversed at most once, by
\* its amount and in its session, and a reversal is never reversed.
THEOREM ReversedOnceHolds == Spec => []ReversedOnce
  <1>1. Init => ReversalInv
    BY EmptySeq DEF Init, ReversalInv, ReversedOnce, VoidingOriginals, Idle, Request
  <1>2. TypeOK /\ ReversalInv /\ [Next]_vars => ReversalInv'
    BY ReversalInductive, ServiceAssumption
  <1>3. ReversalInv => ReversedOnce
    BY DEF ReversalInv
  <1> QED
    BY TypeCorrect, <1>1, <1>2, <1>3, PTL DEF Spec

-----------------------------------------------------------------------------
(* A coupon buys one discount.                                             *)

\* A used coupon has a redemption, for which the discount at row p stands alone.
StandsFor(p, c) ==
    /\ payments[p].coupon = c
    /\ payments[p].session = redemptions[c].session
    /\ payments[p].kind = "DISCOUNT"
    /\ \A q \in DOMAIN payments : payments[q].coupon = c => q = p

CouponBacked(c) ==
    IF coupons[c] = "AVAILABLE"
    THEN redemptions[c].status = "NONE" /\ \A p \in DOMAIN payments : payments[p].coupon # c
    ELSE redemptions[c].status # "NONE" /\ \E p \in DOMAIN payments : StandsFor(p, c)

\* CouponUsedOnce without counting.
CouponInv ==
    /\ \A c \in Coupons : CouponBacked(c)
    /\ \A c, d \in Coupons : redemptions[c].status = "LIVE" /\ redemptions[d].status = "LIVE"
                             /\ redemptions[c].session = redemptions[d].session => c = d

\* What CouponInv says of each coupon and session is what CouponUsedOnce counts.
LEMMA CouponsCounted == CouponInv => CouponUsedOnce
  <1> SUFFICES ASSUME CouponInv PROVE CouponUsedOnce
    OBVIOUS
  <1>1. ASSUME NEW c \in Coupons, coupons[c] = "AVAILABLE"
        PROVE  redemptions[c].status = "NONE"
               /\ {p \in DOMAIN payments : payments[p].coupon = c} = {}
    BY <1>1 DEF CouponInv, CouponBacked
  <1>2. ASSUME NEW c \in Coupons, coupons[c] # "AVAILABLE"
        PROVE  /\ redemptions[c].status # "NONE"
               /\ \E p \in {p \in DOMAIN payments : payments[p].coupon = c} :
                    /\ {q \in DOMAIN payments : payments[q].coupon = c} = {p}
                    /\ payments[p].session = redemptions[c].session
                    /\ payments[p].kind = "DISCOUNT"
    <2>1. PICK p \in DOMAIN payments : StandsFor(p, c)
      BY <1>2 DEF CouponInv, CouponBacked
    <2>2. {q \in DOMAIN payments : payments[q].coupon = c} = {p}
      BY <2>1 DEF StandsFor
    <2> QED
      BY <1>2, <2>1, <2>2 DEF CouponInv, CouponBacked, StandsFor
  <1>3. ASSUME NEW s \in DOMAIN sessions
        PROVE  Cardinality(LiveRedemptions(s)) <= 1
    <2>1. \A c, d \in LiveRedemptions(s) : c = d
      BY DEF CouponInv, LiveRedemptions
    <2>2. CASE LiveRedemptions(s) = {}
      BY <2>2, FS_EmptySet
    <2>3. ASSUME NEW c \in LiveRedemptions(s) PROVE Cardinality(LiveRedemptions(s)) <= 1
      <3>1. LiveRedemptions(s) = {c}
        BY <2>1
      <3>2. Cardinality({c}) = 1
        BY FS_Singleton
      <3> QED
        BY <3>1, <3>2
    <2> QED
      BY <2>2, <2>3
  <1> QED
    BY <1>1, <1>2, <1>3 DEF CouponUsedOnce

\* A payment without a coupon leaves what coupons have bought.
LEMMA CouponsPaid ==
    ASSUME TypeOK, CouponInv, UNCHANGED <<coupons, redemptions>>,
           NEW row \in PaymentRecord, row.coupon \notin Coupons,
           payments' = Append(payments, row)
    PROVE  CouponInv'
  <1> DEFINE new == Len(payments) + 1
  <1>1. /\ DOMAIN payments' = DOMAIN payments \cup {new}
        /\ payments'[new] = row
        /\ \A n \in DOMAIN payments : payments'[n] = payments[n]
    BY AppendRow DEF TypeOK, RowsOK
  <1> HIDE DEF new
  <1>2. ASSUME NEW c \in Coupons PROVE CouponBacked(c)'
    <2>1. CASE coupons[c] = "AVAILABLE"
      BY <1>1, <2>1 DEF CouponInv, CouponBacked
    <2>2. CASE coupons[c] # "AVAILABLE"
      <3>1. PICK p \in DOMAIN payments : StandsFor(p, c)
        BY <2>2 DEF CouponInv, CouponBacked
      <3>2. StandsFor(p, c)' /\ p \in DOMAIN payments'
        BY <1>1, <3>1 DEF StandsFor
      <3> QED
        BY <2>2, <3>2 DEF CouponInv, CouponBacked
    <2> QED
      BY <2>1, <2>2
  <1> QED
    BY <1>2 DEF CouponInv

\* Using a coupon takes one nobody has used, in a session without a live one.
LEMMA CouponApplied ==
    ASSUME TypeOK, CouponInv, NEW r \in Reqs, NEW s \in DOMAIN sessions, NEW c \in Coupons,
           ApplyTableCoupon(r, s, c)
    PROVE  CouponInv'
  <1>0. PICK new : new = Len(payments) + 1
    OBVIOUS
  <1>1. PICK amount \in 1..Remaining(s) :
           payments' = Append(payments, PaymentRow(s, "DISCOUNT", amount, 0, c, {}))
    BY DEF ApplyTableCoupon
  <1> DEFINE row == PaymentRow(s, "DISCOUNT", amount, 0, c, {})
  <1>2. amount \in Nat /\ s \in Nat
    BY LenProperties DEF TypeOK, RowsOK
  <1>3. row \in PaymentRecord /\ row.coupon = c /\ row.session = s /\ row.kind = "DISCOUNT"
    BY <1>2 DEF PaymentRow, PaymentRecord
  <1> HIDE DEF row
  <1>4. /\ DOMAIN payments' = DOMAIN payments \cup {new}
        /\ payments'[new] = row
        /\ \A n \in DOMAIN payments : payments'[n] = payments[n]
    BY <1>0, <1>1, <1>3, AppendRow DEF TypeOK, RowsOK, row
  <1>5. /\ coupons'[c] = "USED"
        /\ redemptions'[c] = [session |-> s, status |-> "LIVE"]
        /\ \A d \in Coupons \ {c} : coupons'[d] = coupons[d] /\ redemptions'[d] = redemptions[d]
    BY DEF ApplyTableCoupon, TypeOK, RowsOK
  <1>6. coupons[c] = "AVAILABLE" /\ \A p \in DOMAIN payments : payments[p].coupon # c
    BY DEF ApplyTableCoupon, CouponInv, CouponBacked
  <1>7. \A d \in Coupons : redemptions[d].status = "LIVE" => redemptions[d].session # s
    BY DEF ApplyTableCoupon, LiveRedemptions
  <1>8. ASSUME NEW d \in Coupons \ {c} PROVE CouponBacked(d)'
    <2>1. CASE coupons[d] = "AVAILABLE"
      BY <1>3, <1>4, <1>5, <2>1 DEF CouponInv, CouponBacked
    <2>2. CASE coupons[d] # "AVAILABLE"
      <3>1. PICK p \in DOMAIN payments : StandsFor(p, d)
        BY <2>2 DEF CouponInv, CouponBacked
      <3>2. StandsFor(p, d)' /\ p \in DOMAIN payments'
        BY <1>3, <1>4, <1>5, <3>1 DEF StandsFor
      <3> QED
        BY <1>5, <2>2, <3>2 DEF CouponInv, CouponBacked
    <2> QED
      BY <2>1, <2>2
  <1>9. CouponBacked(c)'
    <2>1. StandsFor(new, c)' /\ new \in DOMAIN payments'
      BY <1>3, <1>4, <1>5, <1>6 DEF StandsFor
    <2> QED
      BY <1>5, <2>1 DEF CouponBacked
  <1>10. \A d, e \in Coupons : redemptions'[d].status = "LIVE" /\ redemptions'[e].status = "LIVE"
                               /\ redemptions'[d].session = redemptions'[e].session => d = e
    BY <1>5, <1>7 DEF CouponInv
  <1> QED
    BY <1>8, <1>9, <1>10 DEF CouponInv

\* Cancelling a redemption keeps the coupon used, and the session it was used in.
LEMMA CouponCancelled ==
    ASSUME TypeOK, CouponInv, NEW r \in Reqs, CancelTableCouponRedemption(r)
    PROVE  CouponInv'
  <1>1. ASSUME NEW c \in Coupons
        PROVE  /\ redemptions'[c].session = redemptions[c].session
               /\ redemptions'[c].status = "NONE" <=> redemptions[c].status = "NONE"
               /\ redemptions'[c].status = "LIVE" => redemptions[c].status = "LIVE"
    <2> DEFINE d == payments[req[r].row].coupon
               now == IF redemptions[d].session = req[r].session /\ redemptions[d].status = "LIVE"
                      THEN "CANCELLED" ELSE redemptions[d].status
    <2>1. redemptions' = [redemptions EXCEPT ![d].status = now]
      BY Zenon DEF CancelTableCouponRedemption
    <2>2. /\ redemptions \in [Coupons -> [session : Nat, status : {"NONE", "LIVE", "CANCELLED"}]]
          /\ now = redemptions[d].status \/ (now = "CANCELLED" /\ redemptions[d].status = "LIVE")
      BY DEF TypeOK, RowsOK
    <2> HIDE DEF d, now
    <2>3. CASE c = d
      <3>1. redemptions[c] \in [session : Nat, status : {"NONE", "LIVE", "CANCELLED"}]
        BY <2>2
      <3>2. redemptions'[c] = [redemptions[c] EXCEPT !.status = now]
        BY <2>1, <2>2, <2>3
      <3> QED
        BY <2>2, <2>3, <3>1, <3>2
    <2>4. CASE c # d
      <3>1. redemptions'[c] = redemptions[c]
        BY <2>1, <2>2, <2>4, SMTT(60)
      <3> QED
        BY <3>1
    <2> QED
      BY <2>3, <2>4
  <1>2. UNCHANGED <<coupons, payments>>
    BY DEF CancelTableCouponRedemption
  <1>3. ASSUME NEW c \in Coupons PROVE CouponBacked(c)'
    BY <1>1, <1>2 DEF CouponInv, CouponBacked, StandsFor
  <1>4. \A d, e \in Coupons : redemptions'[d].status = "LIVE" /\ redemptions'[e].status = "LIVE"
                              /\ redemptions'[d].session = redemptions'[e].session => d = e
    BY <1>1 DEF CouponInv
  <1> QED
    BY <1>3, <1>4, Zenon DEF CouponInv

\* A step that leaves payments and coupons alone keeps the invariant.
LEMMA CouponsUntouched ==
    ASSUME CouponInv, UNCHANGED ledger
    PROVE  CouponInv'
  BY DEF CouponInv, CouponBacked, StandsFor, ledger

\* Whatever handlers race, a coupon is used in one discount.
LEMMA CouponInductive ==
    ASSUME TypeOK, ServiceAssumption, CouponInv, [Next]_vars
    PROVE  CouponInv'
  <1>1. CASE FrontAndAdmin
    <2>1. UNCHANGED ledger
      BY <1>1 DEF FrontAndAdmin, OpenTable, DisableTable, EnableTable, CloseTable,
                  ForceCloseTable, UpdateTable, UpdateSettings, ledger
    <2> QED
      BY <2>1, CouponsUntouched
  <1>2. CASE Hall
    <2>1. UNCHANGED ledger
      BY <1>2, HallLeaves DEF ledger
    <2> QED
      BY <2>1, CouponsUntouched
  <1>3. ASSUME NEW r \in Reqs, Arrive(r)
        PROVE  CouponInv'
    <2>1. ASSUME NEW s \in DOMAIN sessions, NEW kind \in Originals, PayAmount(r, s, kind)
          PROVE  CouponInv'
      <3>1. PICK amount \in 1..Remaining(s) :
               payments' = Append(payments, PaymentRow(s, kind, amount, 0, NoCoupon, {}))
        BY <2>1 DEF PayAmount
      <3>2. amount \in Nat /\ s \in Nat
        BY LenProperties DEF TypeOK, RowsOK
      <3>3. /\ PaymentRow(s, kind, amount, 0, NoCoupon, {}) \in PaymentRecord
            /\ PaymentRow(s, kind, amount, 0, NoCoupon, {}).coupon \notin Coupons
        BY <3>2 DEF PaymentRow, PaymentRecord, ServiceAssumption
      <3>4. UNCHANGED <<coupons, redemptions>>
        BY <2>1 DEF PayAmount
      <3> QED
        BY <3>1, <3>3, <3>4, CouponsPaid
    <2>2. ASSUME NEW s \in DOMAIN sessions, PayItems(r, s)
          PROVE  CouponInv'
      <3>1. PICK allocations \in SUBSET Payable(s), amount \in 0..NonNegative(Remaining(s)) :
               payments' = Append(payments,
                              PaymentRow(s, "CHARGE", amount, 0, NoCoupon, allocations))
        BY <2>2 DEF PayItems
      <3>2. amount \in Nat /\ s \in Nat
        BY LenProperties DEF TypeOK, RowsOK
      <3>3. allocations \in SUBSET Allocation
        BY PayableAllocations
      <3>4. /\ PaymentRow(s, "CHARGE", amount, 0, NoCoupon, allocations) \in PaymentRecord
            /\ PaymentRow(s, "CHARGE", amount, 0, NoCoupon, allocations).coupon \notin Coupons
        BY <3>2, <3>3 DEF PaymentRow, PaymentRecord, ServiceAssumption
      <3>5. UNCHANGED <<coupons, redemptions>>
        BY <2>2 DEF PayItems
      <3> QED
        BY <3>1, <3>4, <3>5, CouponsPaid
    <2>3. ASSUME NEW s \in DOMAIN sessions, NEW c \in Coupons, ApplyTableCoupon(r, s, c)
          PROVE  CouponInv'
      BY <2>3, CouponApplied
    <2>4. ASSUME UNCHANGED ledger PROVE CouponInv'
      BY <2>4, CouponsUntouched
    <2>5. ASSUME NEW p \in DOMAIN payments, StartVoid(r, p) PROVE UNCHANGED ledger
      BY <2>5 DEF StartVoid, ledger
    <2>6. ASSUME NEW s \in DOMAIN sessions,
                 StartJoin(r, s) \/ StartOrder(r, s) \/ StartStaffCall(r, s)
          PROVE  UNCHANGED ledger
      BY <2>6 DEF StartJoin, StartOrder, StartStaffCall, ledger
    <2>7. ASSUME NEW o \in DOMAIN orders, MarkServed(r, o) PROVE UNCHANGED ledger
      BY <2>7 DEF MarkServed, ApplyTransition, ledger
    <2> QED
      BY <1>3, <2>1, <2>2, <2>3, <2>4, <2>5, <2>6, <2>7
        DEF Arrive, Cashier, CreatePayment, CreateDiscount, Originals
  <1>4. ASSUME NEW r \in Reqs, Continue(r)
        PROVE  CouponInv'
    <2>1. CASE RecordReversal(r)
      <3>1. UNCHANGED <<coupons, redemptions>>
        BY <2>1 DEF RecordReversal
      <3>2. CASE UNCHANGED payments
        BY <3>1, <3>2, CouponsUntouched DEF ledger
      <3>3. CASE payments' = Append(payments, ReversalRow(r))
        <4>1. /\ req[r].row \in DOMAIN payments
              /\ payments[req[r].row] \in PaymentRecord
              /\ req[r].session \in Nat /\ req[r].row \in Nat
              /\ req[r].seen \in Reversals
          BY <2>1, ElementOfSeq, LenProperties
             DEF RecordReversal, TypeOK, RowsOK, ReferencesOK, RequestRecord
        <4>2. ReversalRow(r) \in PaymentRecord /\ ReversalRow(r).coupon \notin Coupons
          BY <4>1 DEF ReversalRow, PaymentRow, PaymentRecord, ServiceAssumption
        <4> QED
          BY <3>1, <3>3, <4>2, CouponsPaid
      <3> QED
        BY <2>1, <3>2, <3>3 DEF RecordReversal
    <2>2. CASE CancelTableCouponRedemption(r)
      BY <2>2, CouponCancelled
    <2>3. CASE ~RecordReversal(r) /\ ~CancelTableCouponRedemption(r)
      <3>1. UNCHANGED ledger
        BY <1>4, <2>3, ContinueLeaves DEF ledger
      <3> QED
        BY <3>1, CouponsUntouched
    <2> QED
      BY <2>1, <2>2, <2>3
  <1>5. CASE Crash
    BY <1>5, CouponsUntouched DEF Crash, ledger
  <1>6. CASE UNCHANGED vars
    BY <1>6, CouponsUntouched DEF vars, ledger
  <1> QED
    BY <1>1, <1>2, <1>3, <1>4, <1>5, <1>6 DEF Next

\* However cashiers race over one coupon or one session, and wherever the server
\* stops, a coupon is used exactly when one discount of its session stands for
\* it, and a session has at most one live redemption.
THEOREM CouponUsedOnceHolds == Spec => []CouponUsedOnce
  <1>1. Init => CouponInv
    BY EmptySeq DEF Init, CouponInv, CouponBacked
  <1>2. TypeOK /\ CouponInv /\ [Next]_vars => CouponInv'
    BY CouponInductive, ServiceAssumption
  <1> QED
    BY TypeCorrect, CouponsCounted, <1>1, <1>2, PTL DEF Spec
=============================================================================
