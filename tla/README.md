# BoardBite POS: formal models

TLA+ models of the BoardBite POS server: the TypeScript program under `src/server`, with
the web client under `src/client` as its environment. The modules are
checked on small instances with TLC and, where a property matters for every number of
tables, handlers and rows, proved with TLAPS.

## 1. The system

BoardBite is the point of sale of one board-game café. One Node process (Express, Prisma,
socket.io) serves five kinds of clients: guests' phones at the tables, the counter
(FRONT), the kitchen (POS), the hall (SERVING) and the administrator (ADMIN). All state is
in one SQLite file opened with `connection_limit=1`; sockets only tell clients to refetch.

### 1.1 Components

| Component | Source (under `src/server/src`) | State | Operations | What makes it correct |
|---|---|---|---|---|
| Tables and sessions | `services/tableSession.ts`, `routes/front.routes.ts`, `routes/admin.routes.ts` | `Table.status`, two locks, `TableSession` | open, close, force close, automatic settlement, enable and disable, lock | one live session per table; the two statuses never diverge; a closed session stays closed; automatic closing only after money, with nothing owed or unserved |
| Bill | `services/billing.ts` | none (derived from orders and payments) | bill, remaining units of a line, counter-sale ledger | sums of append-only rows; a reversal takes back exactly what it reverses |
| Payments | `services/payment.ts` | `Payment`, `PaymentAllocation` | charge by amount or by item, discount, void or refund, idempotent resubmission | nothing charged beyond what is owed, no unit paid twice, each row reversed at most once |
| Orders, kitchen, hall | `services/order.ts`, `routes/pos.routes.ts`, `routes/serving.routes.ts` | `Order`, `OrderItem` | place, accept, reject, prepare, ready, serve, revert, cancel (whole or by line) | transitions are conditional updates; a cancelled line leaves the bill; an order is placed only at an open table |
| Guest access, staff calls | `services/customerSession.ts`, `middleware/requireTableSession.ts`, `routes/customer.routes.ts` | `CustomerDeviceSession`, `StaffCallRequest` | enter, join, gate, call staff, acknowledge, finish | only devices of the live session act; one open call per session |
| Table coupons | `services/tableCoupon.ts` | `Coupon.status`, `CouponRedemption` | apply to a bill, cancel with its discount | a coupon is used once; one live redemption per session |
| Counter sales | `services/counterSale.ts` | `CounterSale`, its order, payments, redemption | quote, confirm, pick up, cancel | the ledger of a sale adds up; a cancelled sale is refunded; a retried confirm sells once |
| Coupons | `services/coupon.ts` | `CouponBatch`, `Coupon` | issue a batch, allocate codes, cancel, look up | codes are unique; a cancelled or expired coupon is never redeemed |
| Inventory, menu | `services/inventory.ts`, `services/menuCatalog.ts` | sold-out flags, links, prices, options | link, unlink, mark sold out, edit, archive | a sold-out item is never ordered; unlinking keeps what the guest saw |
| Audit log | `services/auditLog.ts` | hash-chained `AuditLog` | append (in-process queue), verify, purge | the chain of an untouched log verifies, after purges and restarts too |
| Daily closing | `services/closing.ts`, `services/reporting.ts` | `ClosingSettlement` | preview, close | every payment is in a closing, and in none that was begun after that one was recorded |
| Data reset, backup | `services/dataReset.ts`, `services/backup.ts` | backup files, all rows | expand scopes, back up, delete | what remains refers to what remains |
| Staff accounts | `services/staffAccount.ts`, `auth/*`, `routes/auth.routes.ts`, `middleware/requireRole.ts` | `StaffUser`, HTTP sessions, login backoff | login, MFA, step-up, change password, disable, demote | a session outlives no credential change; one active administrator remains |
| Operation switches | `services/settings.ts` | `OperationSettings` | read, update | ordering and payment are refused while switched off |
| Pure algorithms | `services/discountAllocation.ts`, `services/splitEvenly.ts`, `services/optionRules.ts` | none | allocate a discount, split an amount, validate options | parts add up to the whole and never exceed it; only legal option choices are priced |
| Realtime | `socket.ts`, `realtime.ts` | none the server reads | notify | clients refetch, so a lost notification delays, and never changes, what they do |
| Web client | `src/client/src` | a kept idempotency key per attempt | retry | a retried request has one effect |

### 1.2 How components interact

* A route calls a service; a service runs Prisma statements and `$transaction`s. The table
  session, the bill, the orders and the payments meet in `maybeAutoSettleTableSession`,
  which runs after every payment, reversal, discount, coupon and serving, outside the
  transaction that made it run.
* Guest requests pass `requireTableSession` and `requireOrderableSession`, middleware that
  reads the session, the table and the switches; the service they lead to reads nothing
  of that again, unless it is a payment.
* Reversing a coupon's discount calls back into the coupon service in a later statement.
* Nothing is kept in memory between two requests except the audit queue and the login
  backoff; a restart loses the handlers in flight and nothing else.

### 1.3 What is hard about it

SQLite with one connection makes a statement or a transaction atomic, not a handler. The
hard behaviours are the ones between two statements of a handler: a gate passed and acted
on later, a bill computed and acted on later, a reversal classified before the transaction
that records it, a coupon redemption cancelled after its discount, a restart in between,
and long sequences of legal calls on one order (cancel a line after serving, revert a
served order after closing). `PROJECT.json` lists each of these under `hazards` at
the line where it bites.

## 2. Modules

| Module | Models |
|---|---|
| `Billing` | `billing.ts`: the bill, paid and remaining units, as pure operators over rows |
| `TableService` | tables, sessions, devices, orders, calls, payments, table coupons, automatic settlement, as interleaved handlers; restarts |
| `TableServiceProps` | type invariant, safety, action and liveness properties of `TableService` |
| `TableService_proofs` | TLAPS proofs about `TableService`; extends `TableServiceProps` |
| `SumTheorems` | TLAPS proofs of what sums over finite sets are, for bills and reports |
| `TableMoney_proofs` | TLAPS proofs about the money of `TableService`; extends `TableService_proofs` and `SumTheorems` |
| `CounterSale` | the counter page, quote and confirmation, the sale in the kitchen and taken back, prices, switches and coupons changing meanwhile |
| `CounterSaleProps` | type invariant, safety and action properties of `CounterSale`, and its refinement mapping |
| `CounterSale_proofs` | TLAPS proofs about `CounterSale`, and that it implements `Checkout`; extends `CounterSaleProps` and `SumTheorems` |
| `Checkout` | the abstract specification of paying at the counter: a key buys one sale, once and for good, a coupon is spent once |
| `Guest` | a guest's phone: entry, join code, cookie, socket and polling, the cart, an order with its idempotency key, lost and late messages; what the server does with it |
| `GuestProps` | type invariant, safety, liveness of `Guest` |
| `Guest_proofs` | TLAPS proofs about `Guest`; extends `GuestProps` |
| `StaffAuth` | staff accounts, login in one or two steps, step-up, password and MFA changes, the administrator's changes, sessions |
| `StaffAuthProps` | type invariant, safety and action properties of `StaffAuth` |
| `StaffAuth_proofs` | TLAPS proofs about `StaffAuth`; extends `StaffAuthProps` |
| `Reporting` | `computeRevenueSummary` and the closing preview as pure operators over payment rows |
| `Books` | daily closing, audit log and its purge, backups, data reset, coupon batches, while payments go on |
| `BooksProps` | type invariant, safety and action properties of `Books` |
| `Books_proofs` | TLAPS proofs about `Books`; extends `BooksProps` and `SumTheorems` |
| `Menu` | categories, items, option groups and choices, stock and links, sold-out state, display order; the screens they are edited from |
| `MenuProps` | type invariant, safety and action properties of `Menu` |
| `Menu_proofs` | TLAPS proofs about `Menu`; extends `MenuProps` and `SumTheorems` (for induction on sizes) |
| `MC_TableService`, `MC_CounterSale`, `MC_Guest`, `MC_StaffAuth`, `MC_Books`, `MC_Menu` | small instances for TLC |

`TableService` extends `Billing` and `Books` extends `Reporting`; each `...Props` module extends its component, and
the MC module and the proofs extend the `...Props` module. `CounterSaleProps` instantiates `Checkout`.
The components are modelled apart where the rows they share are only read, or only appended to, by the other:
a counter sale has no table, no session and no device; the books see payments as rows that appear and are
reversed; the guest's phone sees the table as a session that opens, settles and closes. `TableService` is where table
session, bill, orders and payments meet.

### 2.1 Atomicity

An action of `TableService` is one Prisma statement or one `$transaction`, together with the
code up to the next `await`. A handler whose outcome depends on several statements is a
request in `req[r]`: `pc` names the statement that comes next, `session`, `row` and `seen`
are the values the handler read and still holds. `Reqs` bounds how many such handlers are in
flight. A handler with a single relevant statement is a single action. Where a handler reads
something and the transaction that follows reads it again (`assertPaymentStillAllowed`, the
remaining amount, `status` in a conditional `updateMany`), only the second read matters and
the first is folded into it.

### 2.2 State

| Variable | Code |
|---|---|
| `tables` | `Table.status`, `ordersLocked`, `paymentsLocked` |
| `settings` | `OperationSettings.orderingEnabled`, `paymentsEnabled` |
| `sessions` | `TableSession` rows in creation order; `joined` says that an unrevoked device session exists |
| `orders` | `Order` rows: the lines as placed and the set `live` of lines that are not cancelled |
| `payments` | `Payment` rows, append-only, with their allocations; a reversal names its original by its number |
| `calls` | `StaffCallRequest` rows |
| `coupons`, `redemptions` | `Coupon.status`; the `CouponRedemption`, unique by `couponId` |
| `req` | handlers in flight |
| `total` | the order total a running `computeBill` has read before it reads the payments |

Data is abstracted to what the properties tell apart: an order line is an element of `Items`
with a price, an option price and a quantity; names, messages, payment methods, cash
tendered and change are left out. Expired devices, join code rotation and the join code
itself are left out of this module: they only decide who may make a request.

### 2.3 Actions

| Code | Actions |
|---|---|
| `openTable`, `closeTable`, force close, `setTableEnabled`, `PATCH /tables/:id`, `updateSettings` | `OpenTable`, `CloseTable`, `ForceCloseTable`, `EnableTable`, `DisableTable`, `UpdateTable`, `UpdateSettings` |
| `POST /join`, `issueDeviceSession` | `StartJoin`, `IssueDeviceSession` |
| `requireTableSession`, `requireOrderableSession`, `createOrder` | `StartOrder`, `CheckOrderingEnabled`, `CreateOrder` |
| `POST /staff-call`, ack, done | `StartStaffCall`, `CreateStaffCall`, `AckCall`, `FinishCall` |
| `applyTransition` and its callers | `AcceptOrder`, `RejectOrder`, `StartPreparing`, `MarkReady`, `MarkServed`, `RevertServedToReady` |
| `cancelOrder` | `CancelOrder` |
| `createPayment`, `createDiscount` | `CreatePayment` and `CreateDiscount`, over `PayAmount` and `PayItems` |
| `applyTableCoupon` | `ApplyTableCoupon` |
| `voidPayment`, `cancelTableCouponRedemption` | `StartVoid`, `RecordReversal`, `CancelTableCouponRedemption` |
| `maybeAutoSettleTableSession` | `SettleReadSession`, `SettleReadOrders`, `SettleReadPayments`, `SettleCountUnserved`, `SettleClose`, `SettlePend`, `SettleRevert` |
| a restart of the process | `Crash` |

`Hall`, `Cashier` and `Kitchen` group these actions by who sends the request.

`computeBill` reads the orders and then the payments in two statements, so `SettleReadOrders`
keeps the total in `total` and `SettleReadPayments` compares it with payments that may be
newer.

An operator whose comment starts with `Fault:` is not part of the model. It is a variant of
the definition that follows it, with a mistake the code could plausibly make; putting it in
the place of that definition makes TLC report the property it is paired with in
`PROJECT.json` (`mutants`), which shows that the property would notice the mistake.

### 2.4 Counter sales

| Variable of `CounterSale` | Code |
|---|---|
| `till` | `CounterSalePage`: the cart, coupon and target line (`order`), `idempotencyKeyRef`, the quote on the screen, whether a newer one is on its way, the error shown instead, the request it waits for, `recoverHint` |
| `req` | confirmations in flight, each with the body and the quote hash it was sent with; `received` before the look-up of the key, `confirming` before the transaction |
| `sales`, `orders`, `payments`, `redemptions`, `coupons` | the rows `confirmCounterSale` and `cancelCounterSale` write; a sale's number is its place |
| `menu`, `settings`, `expired` | what the administrator and time change while a till is at work |

| Code | Actions |
|---|---|
| `addToCart`, `changeQuantity`, `removeLine`, `clearAll` | `EditCart` |
| `checkCoupon`, `removeCoupon`, the target radio, the method and tender fields | `CheckCoupon`, `RemoveCoupon`, `ChooseTarget`, `ChooseMethod` |
| the quote effect, `confirm`, a `NetworkError`, `recoverPrevious` | `ReceiveQuote`, `Confirm`, `LoseAnswer`, `RecoverPrevious` |
| `confirmCounterSale` | `LookUp`, then `CommitSale`, `CommitDuplicate` (P2002) or `RefuseCommit` |
| `applyTransition` and its callers, `markCounterOrderPickedUp`, `cancelOrder` | `AcceptOrder`, `RejectOrder`, `StartPreparing`, `MarkReady`, `PickedUp`, `RevertServedToReady`, `CancelOrder` |
| `cancelCounterSale` | `CancelSale` |
| menu, sold-out, settings and coupon administration, time | `ChangePrice`, `SetSoldOut`, `UpdateSettings`, `CancelCoupon`, `Expire` |
| a restart of the process | `Restart` |

A quote stands for its hash: the hash is taken over the lines, prices, coupon, discount and
target, so two quotes are equal when their hashes are. `FreshKey` counts keys up, and
gives the same number again as long as no sale and no request has used it: a random key the server
never saw cannot be told from another one. Choosing a method and entering cash
reset the key and change nothing else the model keeps; that cash covers the total is checked on the
page before the server checks it again, so the server's refusal is left out. `Confirm` sends
the order with the quote of the screen, which may still be the quote of the previous order: the page
clears neither the quote nor the button while it asks for a new one.

`Checkout` has a receipt and the cash kept for each key, a voucher for each coupon, and three actions: `Sell`,
`TakeBack`, `Withdraw`. The refinement maps the receipt of a key to the status of its sale, the cash
to the net of the sale's payments, and the voucher to the coupon's status; requests, quotes,
orders, prices and switches are mapped to nothing, so all their steps stutter.

### 2.5 A guest's phone

| Variable of `Guest` | Code |
|---|---|
| `sessions`, `codes`, `menu`, `orders` | the table's `TableSession` rows, the join codes issued for them, `MenuItem` price and sold-out state, `Order` rows |
| `cookie` | the device token a phone holds, by the session it belongs to and the code it was given for |
| `page`, `form` | `CustomerApp`: phase, menu, orders, cart and `idempotencyKeyRef`; the order `submitOrder` is sending |
| `answers`, `socket` | answers on their way to the page, which arrive in any order; the socket's room and the events it has heard |
| `post` | `POST /orders` on its way and in the server: `SENT`, `GATED` (the middleware has passed), `NEW` (no order under the key), `PRICED`, and the answer |
| `fate`, `used` | what the guest knows of the order under a key (history, read by no action); pages opened, keys drawn, messages lost |

| Code | Actions |
|---|---|
| open, rotate the code, settle, close, serve, sold out, edit a price | `OpenTable`, `RotateJoinCode`, `SettleSession`, `CloseTable`, `ServeOrder`, `SetSoldOut`, `SetPrice` |
| `GET /entry`, `POST /join` | `Load`, `Join` |
| the polling timer, the socket, `refreshOrders`, `loadMenu` | `Poll`, `Connect`, `Disconnect`, `HearEvent`, `OrdersArrive`, `MenuArrives`, `AnswerLost` |
| `addLineToCart`, `changeQuantity` | `AddLineToCart`, `ChangeQuantity` |
| `submitOrder` | `SubmitOrder`, `SendOrder`, `OrderReturns`, `OrderLost` |
| `requireTableSession` and `requireOrderableSession`, `createOrder` | `GateOrder`, `FindOrder`, `ResolveLines`, `InsertOrder` |

A question that only reads is asked and answered in one step and its answer travels; the orders and the bill
are one snapshot. An item stands for a dish with its options, which is what a cart line is. `Join` checks the
code and issues the device in one step (`TableService` splits them), and settling goes one way (`TableService` has the way back). A lock or a switch is a refusal `GateOrder` may choose. The browser cancels the requests and
answers of a page that is left; an order that has left is processed all the same. The expiry of a device
after twelve hours, the rate limit on joining, the error page and the staff-call button are left out. `AddLineToCart` stops at
`MaxQuantity`, which the page itself does not: the server refuses more than fifty of a line.

### 2.6 Staff accounts

| Variable of `StaffAuth` | Code |
|---|---|
| `account` | `StaffUser`: role, active, password, `mustResetPassword`, `authVersion`, MFA enabled and secret, `mfaLastUsedSlot` |
| `attempts` | failed `LoginAttempt` rows inside the window of the login guard |
| `store`, `nextSid` | `StaffSession` rows: kind, account, version, `elevatedUntil` or the pending step's deadline, failures. How it was obtained (`pw`, `coded`) is history |
| `now` | the clock in TOTP slots |
| `req` | requests in flight with their copy of the session and of the account |

| Code | Actions |
|---|---|
| `POST /login` | `LoginFails`, `LoginReads`, then `Pend` or `Establish` |
| `POST /mfa/verify`, `/step-up`, `/mfa/enable` | `VerifyReads`, `StepUpReads`, `OwnReads`, then `ClaimCode` or `RejectCode`, then `Establish`, `Elevate`, `EnableWrites` or `CountFailure` |
| `POST /change-password`, `/mfa/setup` | `OwnReads`, `ChangeWrites`, `DeleteSessions`, `ChangeReadsAgain`, `Establish`; `SetupWrites` |
| `POST /logout`, `loadStaff`, `cleanupAuthArtifacts` | `Logout`, `DropRefused`, `ExpireSession` |
| `POST`, `PATCH /users`, `/reset-password`, `/disable-mfa` | `CreateUser`, `PatchReads`, `PatchWrites`, `AdminReads`, `ResetWrites`, `DisableWrites`, `BumpVersion`, `DeleteSessions` |
| time | `Tick`, `AttemptsAge` |

A request's loading of its session, `loadStaff` and the first read of its handler are one step, as are the
login gate and the look-up of the account, and the read and the count of `PATCH /users/:id`; a copy is kept only
when the handler uses it later. The session store writes a row whole, so a handler that saves late brings back
what it read: that is modelled. A session is `coded` when a second step opened it: `/mfa/verify` reads the
account again, so it may be current although its password is not. Enabling MFA does not raise `authVersion`,
although `staffAccount.ts:17` counts MFA changes among those that do; disabling does.

### 2.7 Books

| Variable of `Books` | Code |
|---|---|
| `rows`, `redemptions`, `coupons`, `catalogue` | `Payment`, `CouponRedemption`, `Coupon.status` by number; which parts of menu, stock and links exist |
| `unredeeming` | the coupon discounts of tables whose reversal is recorded, by handlers that have yet to cancel the redemption |
| `batches`, `issueKey` | `CouponBatch` with its key, benefit and numbers; the key the coupon page keeps (`idempotencyKeyRef`) |
| `closings`, `nextClosing` | `ClosingSettlement`: window and figures. What it `counted`, its number `id` and the number `after` which it was begun are history |
| `log` | `AuditLog`: each record names the one it found last |
| `files` | backup files, named by the millisecond |
| `req`, `now` | handlers in flight; the millisecond clock |

| Code | Actions |
|---|---|
| payments, discounts, reversals (`voidPayment`, `cancelCounterSale`), `cancelTableCouponRedemption` | `RecordPayment`, `ReversePayment`, `CancelRedemption` |
| `append` and its queue, `purgeAuditLogs`, `verifyAuditLogChain` | `AppendReads`, `AppendWrites`, `Note`, `PurgeStarts`, `PurgeDeletes`; `AlarmAt` |
| `computeClosingPreview`, `POST /closing` | `CloseStarts`, `CloseSums`, `CloseAllocations`, `CloseRecords` |
| `createBackup`, `pruneOldBackups` | `BackupStarts`, `Vacuum`, `VacuumFails`, `Prune` |
| `resetData` | `ResetStarts`, the backup, `ResetDeletes` |
| `issueCouponBatch`, `allocateCodes`, the page's `issue` | `IssueStarts`, `IssueCommits` with `AllocateCodes`, `IssueAnswered` |
| `cancelWholeBatch`, `cancelCoupons` | `CallIn`, `CancelCoupons` |
| a restart | `Restart` |

The start of the closing window and `closedAt` are one step (nothing is recorded with an earlier date in between), the queries of
the preview two: the payments, then the allocations. Unsettled tables are a refusal `CloseAllocations` may choose.
A sale's redemption is cancelled in the transaction that reverses its discount (`counterSale.ts:731`), a table's by a later statement of
`voidPayment` (`payment.ts:379`), with payments, closings and resets in between: `ReversePayment` leaves it to `CancelRedemption`, which a
restart takes away. Nobody makes up for it, since a void tried again is refused as soon as there is a reversal. The statement finds the redemption by the session and
the coupon's number, the model by the discount: a session has one live redemption at most. Left out is that the coupons are reset and the
number is issued again, and redeemed in the same session, before the statement runs.
A reversal takes back the whole of its original by the same method.
A coupon is used once for life: a cancelled redemption leaves it used.
A coupon is its number, 1 to `MaxCouponNumber` (999 in the code), and is `ABSENT` until it is issued. Of a batch's benefit only the
type is kept, because an item coupon names menu items, which a reset can delete. `CallIn` is the list on
the screen, which may be old when `CancelCoupons` runs.
SQLite has one connection, so a transaction and `VACUUM INTO` are one step each.

### 2.8 Menu and stock

| Variable of `Menu` | Code |
|---|---|
| `status` | that a row of the menu or the stock does not exist yet, exists, or is deleted (`deletedAt`) |
| `item`, `range`, `active`, `position` | category, channel and kitchen flags; `minSelect`, `maxSelect`; `isActive`; `sortOrder` |
| `ownSoldOut`, `link`, `stockSoldOut` | the three columns that decide what is sold out |
| `req` | an editor, a list or a stock page somebody has open; a handler between its check and its write |

| Code | Actions |
|---|---|
| categories and items | `CreateCategory`, `DeleteCategory`, `CreateItemChecks`, `CreateItemWrites`, `OpenEditor`, `UpdateMenuItem`, `DeleteMenuItem`, `PatchSoldOut` |
| option groups and choices | `CreateGroupChecks`, `CreateGroupWrites`, `PatchGroupChecks`, `PatchGroupWrites`, `DeleteOptionGroup`, `AddChoiceChecks`, `AddChoiceWrites`, `UpdateOptionChoice`, `DeleteOptionChoice` |
| stock | `CreateInventoryItem`, `SetInventoryLink`, `RemoveInventoryLink`, `DeleteInventoryItem`, `SetSoldOut`, `ShowStock`, `ConfirmToggle` |
| `applyOrder` | `ShowList`, `ApplyOrder`, `Abandon` |
| `listSellableMenu`, the option sheet, `validateItemOptions`, `resolveOrderLines`, `blockedRequiredGroups` | `OnMenu`, `CanChoose`, `OptionsAccepted`, `LineAccepted`, `BlockedRequiredGroups` |

`updateOptionGroup` reads twice before it writes; the reads are one step. `deleteOptionGroup`,
`updateOptionChoice` and `deleteOptionChoice` look whether their row is there and write; that a row is deleted
in between and written once more changes nothing the model keeps, so they are one step. An editor holds the whole form as the item was when it was
opened, its place in the list (`sortOrder`) included, and `UpdateMenuItem` writes all of it; a number typed into that field is left out.
`Impact` is what goes with a target as things are linked at the step; what a stock page had shown is in `req`.

## 3. What TLC checks

| Run | Instance | Shows |
|---|---|---|
| `TableService_floor` | one table, two sessions, two handlers, one order, one payment, two calls, restarts | `TypeOK`, `TableSessionAgreement`, `OneOpenCall`, `ClosedForGood` |
| `TableService_money` | one session, one order of two lines, three payments, an amount and an item coupon | `AutoCloseTookMoney`, `OverpaidOnlyByCancellation`, `ReversedOnce`, `PaidWithinQuantity`, `CouponUsedOnce`, `RedemptionFollowsDiscount` |
| `TableService_live` | one session, one order of one line, two payments, locks and switches, fair handlers | `SettlementNotForgotten`, `SettleCloses` |
| `TableService_staleClose` | two orders, one payment | refutes `AutoCloseOnlySettled` |
| `CounterSale_counter` | a cart of a cooked and a handed-over line that sells out, an amount coupon that expires and an item coupon, one price that changes to zero and back, switches off and on; or a cart of a handed-over line, two requests and two keys of one till, one coupon, restarts | `TypeOK`, `AllocationsAddUp`, `PaidInAdvance`, `CancelledSaleSettled`, `CouponBuysOneDiscount`, `SoldAsShown`, `RefundOwedUntilRecorded`, the refinement `ImplementsCheckout` |
| `Guest_phone` | one phone, one dish at two prices, two sessions, three codes, two orders on their way, one lost message | `TypeOK`, `OrderedOnce`, `ScreenCatchesUp` |
| `Guest_resend` | the same | refutes `OtherTotalRefused` |
| `StaffAuth_sessions` | an administrator and an account to be created, two passwords, one code, two sessions, two requests | `TypeOK`, `UsableSessionIsCurrent`, `CodeUsedOnce`, `RefusedForGood` |
| `StaffAuth_lastAdmin` | two administrators, two requests | refutes `AnAdminRemains` |
| `Books_ledger` | cash and a coupon at a table, card and coupon at the counter, two requests, two closings, four selections of scopes, three backups kept, three audit records, three milliseconds, three coupon numbers, two issue keys | `TypeOK`, `ReportsAddUp`, `CountedOnce`, `SnapshotStands`, `ChainVerifies`, `CouponUsedIffRedeemed`, `IssuedOnce`, `NothingDangling`, `BackupBeforeLoss` |
| `Books_overlap` | one payment in cash, two closings, three milliseconds | refutes `NoIntervalTwice` |
| `Menu_edits` | two categories, two items, two groups, three choices, two stock items, two requests | `TypeOK`, `ScreensAgree`, `NothingStirs`, `ReorderedAsSeen` |


### 3.1 Bounds

`MaxSessions`, `MaxOrders`, `MaxPayments` and `MaxCalls` bound the rows and are guards of the
actions that add one; they bound nothing else. Why they are enough for the interesting
cases: two sessions of one table are what a stale handler of the first needs to disturb the
second; two handlers are what any of the races here takes, a third one has
nothing to add to a decision that is made by two; three payments
hold a charge, its reversal and another charge, or a discount, a coupon and a charge; two lines
distinguish paying for, and cancelling, one line from both, and leave money owed for one line
while the other is paid for twice by mistake. Every line has one unit in these instances: what a
line of several units adds is the arithmetic of `RemainingQuantity`. Handlers are interchangeable, so the runs
without liveness use them as a symmetry set. The money run is constrained to one automatic settlement at a
time (`OneSettling`): two at once are explored by the floor and the liveness run.

In `CounterSale` the bound is `MaxKeys`, a guard of `Confirm`: no more keys are confirmed, and so no
more sales are made. `CounterSale_counter` has two stories, told apart by the cart (`Stories`). What a sale books and what becomes of it is decided by
one sale (`OneSale`); what two sales, or two copies of a request, do to
each other is seen with two keys, two requests in flight and one coupon to fight over (`TwoKeys`), at steady prices. Tills share no state but the
books, and the key is scoped by its till, so two keys of one till race as two tills would. The price of the udon is
0 or 1, the paid option and the coupon are worth 1: an amount is less than, equal to
and more than the coupon, an item coupon on a free udon has no effect, and rounding the allocation down
leaves a remainder. Once the one sale of the first story is made, `SoldAndLeftAlone` lets only the kitchen and the cashier who takes it back go on: menu, switches and
the next cart do not touch a recorded sale.

In both the cart costs more than a coupon is worth; that a coupon pays for everything is left to the theorems.
`TableService_staleClose` has one payment: it shows the order placed after the bill was read. That a payment voided then is closed over
in the same way follows from the same transaction and is not in the run. With one session in `TableService_money`, one coupon at two
sessions is left to `CouponUsedOnceHolds`.

The other instances are too large in full, and a constraint keeps apart what does not interact. What each
leaves out:

* `Guest_phone` (`Stories`): either one page of one session orders under every cart, price and loss
  (`Ordering`), or pages, sessions and codes follow each other while at most one unit is ordered and the menu rests (`Watching`). A code
  renewed before the first entry tells the two apart. Answers to questions asked while something is in
  the cart are pruned, except the one an order waits for. Liveness is checked over these behaviours.
* `StaffAuth_sessions` (`Small`): one person signs in; the second account exists to be created, and so that
  the first is not the last administrator. One account change is in flight at a time, next to a login, a second step or a
  step-up, which is the race the properties are about. Failed logins come before the first session. `MaxFailures` is one, and `Production` is off,
  so that an administrator gets in without MFA and can set it up.
* `Books_ledger` (`Small`, `LedgerEnds`): the audit log is explored with the ledger at rest, the ledger with one audit record; one reset at
  a time, with fewer payments and closings once a reset or a second backup is there; one purge, and of past records.
  No two backups are begun in one millisecond (section 3.3 says what happens then).
  Batches are issued and called in (`Issuing`) with closings and backups at rest: under the first key next to a payment by
  coupon or a reset of the coupons, under the second with the ledger at rest.
* `Menu_edits` (`Small`): menu and stock differ from the first ones in at most three places, requests under way
  included (`Little`). A violation of these properties takes a stale screen, and one or two changes behind its back. With the
  menu at rest there is no such limit on the stock (`OnlyStock`): whatever is linked and sold out, any number of
  entries may share a stock item, with two stock pages open.

`CHECK_DEADLOCK` is on in the runs of `TableService` and `CounterSale`, where the administrator or the kitchen can always act. The other
runs turn it off: their clock, their ids or their rows are used up in the end, and then nothing more
can happen.

### 3.2 Fairness

`TableService` assumes weak fairness of `Continue(r)`, the next statement of a handler already in
flight, for each slot. Node runs every continuation whose promise has resolved and SQLite's single
connection is handed to waiting statements in turn, so a started handler goes on. Nothing is
assumed of people: no guest has to order, nobody has to pay, serve or close. `Crash` is off in
that run: a restart loses the evaluation under way, and a settled session then waits for
the next payment, serving or manual close.

`Guest` assumes weak fairness of `Poll` and of `OrdersArrive`, for each device: the timer of an open page fires every twenty seconds
(`CustomerApp.tsx:206`), and an answer comes or is lost, of which there are at most `MaxLost`. The socket is
assumed to do nothing: the page catches up by polling alone.

The others state no liveness property: nobody has to send, cook, pick up, sign in or
close a day, and a lost answer may stay lost.

### 3.3 Where the code does not do what it says

Each of these is a run TLC refutes, and a finding that quotes the line.

* `AutoCloseOnlySettled`: the closing transaction of the automatic settlement re-checks the session's
  status only. An order placed, or a payment voided, after the bill was read does not stop it.
* `AnAdminRemains`: the count of the other administrators and the update are separate statements. Of two administrators, one
  is demoted by a request and the other by another; each counts the other, and none is left.
* `OtherTotalRefused`: an order that exists under the key is returned before any total is compared. When the
  answer to a first attempt was lost and the guest has put more in the cart, the second attempt is confirmed with the first
  order, the cart is emptied, and what was added is never ordered.
* `NoIntervalTwice`: a closing looks for the last one and records itself in separate statements, and nothing keeps a second request out. Two
  closings requested at once take up behind the same last closing, and both record the payments since. A closing begun after another
  was recorded counts nothing twice (`CountedOnce`).

Met while modelling; no run is about them.

* The ordering gate runs as middleware and `createOrder` does not look again: an order can be inserted at a table
  locked, switched off or settling in between (`requireTableSession.ts:54`). The device of a late join is issued for a session closed meanwhile (`customer.routes.ts:99`), and is then refused by every gate.
* A revert decided on an old bill is applied after a newer payment settled the session (`tableSession.ts:346`).
  A reversal is classified VOID or REFUND before its transaction (`payment.ts:343`). A served order can be
  reverted after its session closed (`serving.routes.ts:57`).
* Cancelling the lines of a READY or SERVED order one by one leaves an order with nothing in it.
* A counter confirmation resent while the first is processed is answered with an error instead of the first result; the money is
  booked once. Choosing another method after a lost answer draws a new key, so the same cart can be sold twice (`CounterSalePage.tsx:559`).
* A step-up that fails late writes back the session a logout deleted (`auth.routes.ts:406`); it is refused
  if the account changed meanwhile (`RefusedForGood`), but not otherwise. Disabling MFA and ending the account's sessions are two statements (`admin.routes.ts:248`).
* A payment in the millisecond in which a closing ends is counted by it and by the next one (`closing.ts:69`), and may be missing
  from the former's figures; `CountedOnce` leaves that millisecond aside. Two backups of one millisecond make the second fail and remove the first one's file (`backup.ts:75`). Later backups can prune
  the one a reset has made before it deletes.
* After the coupons are reset their numbers can be issued again, although `coupon.ts:12` and `:105` and the coupon page (`CouponsPanel.tsx:56`)
  say a number is never reused. An issue sent again after a lost answer with another benefit in the form is answered with the batch of
  the first attempt and shown with the benefit of the form (`CouponsPanel.tsx:146`).
* After a second purge the first kept record no longer follows the purge record before it, and verification raises a false alarm (`auditLog.ts:124`).
* The sold-out button of the menu page and of the kitchen writes an item's own flag even if it is linked to stock, where the flag has no effect
  (against `inventory.ts:157`).
* The stock page sends one entry it showed to stand for the stock item (`InventoryPanel.tsx:70`). If that entry was unlinked or linked elsewhere
  meanwhile, its own flag is set, or another stock item with all that is linked to it, whatever the confirmation said. `NothingStirs` holds nevertheless: nothing
  stirs beyond what goes with the entry sent as things are linked when it arrives.
* The menu editor saves its whole form, stale fields included. It sends the item's number back as it was when the editor was opened (`MenuPanel.tsx:442`,
  `:581`), and `menuCatalog.ts:228` writes it: after a reordering meanwhile, the item and another one have the same number, and the order that was saved
  is lost in part, although `menuCatalog.ts:379` says that numbers do not come to overlap. `ReorderedAsSeen` is about the step of the reordering.
* A restart between the void of a table's coupon discount and the statement that cancels the redemption leaves the redemption on record
  for good (`payment.ts:375-395`): the reports show more given by coupons than their discounts. `ReportsAddUp` says how much (`Late`).
* Two crossing PATCHes of a group can store a minimum above the maximum: no order of the item is accepted, and no warning is
  shown (`admin.routes.ts:641`). A group whose minimum exceeds its active choices can neither be renamed nor deactivated.
* An item created while its category is deleted is on no screen. Of two reorderings of one list the last one wins.
* Items put in the cart while an order is being sent are wiped when it is confirmed (`CustomerApp.tsx:299`), and the check
  before sending sees the menu of the press, not the one just read (`CustomerApp.tsx:266`).
* Two extensions of a game's time at once can be based on the same latest end (`tableSession.ts:285`).

## 4. What TLAPS proves

`TableService_proofs` proves, for any constants that satisfy `ItemAssumption` and
`ServiceAssumption` (prices are naturals, baskets are sequences of items, coupons exist or do
not) and any bounds:

* `TypeCorrect`: `Spec => []TypeOK`. `TypeOK` is inductive as it stands, because it includes
  the references: a row can only be added for a session that a handler in flight refers to,
  and rows are never deleted. One lemma per group of actions, on top of `AppendRow` and `ReplaceRow`
  (what adding and updating a row in place does to a table of rows) and of `EndSessionShape`
  and `MoveSessionShape` (what the shared transactions do to a session).
* `TableSessionAgreementHolds`: `Spec => []TableSessionAgreement`. It is inductive with
  `TypeOK`. `AgreementMoved` is the core: a live session that takes another status keeps
  the agreement when its table takes the status that goes with it and no other row changes;
  ending and switching a session are instances of it.
* `ClosedForGoodHolds`: `Spec => ClosedForGood`, an action property: every step that touches
  sessions is conditional on a live status, except the device a late join issues.
* `OneOpenCallHolds`: `Spec => []OneOpenCall`, from the same statement without cardinalities
  (`OpenCallUnique`), which is inductive.
* `ReversedOnceHolds`: `Spec => []ReversedOnce`. Alone it is not inductive: it needs
  that a handler in the middle of a reversal holds an original, and that originals name no
  other payment (`VoidingOriginals`).
* `CouponUsedOnceHolds`: `Spec => []CouponUsedOnce`, from the same statement without counting
  (`CouponInv`): a coupon on the shelf has no live redemption, a used one exactly one, with exactly one discount
  in the session that redeemed it; and a session holds one coupon at most. Only applying and cancelling a coupon touch the rows
  it relates (`CouponsUntouched`), and in both the two writes of the transaction justify each other.

`SumTheorems` is what all proofs about money rest on. A sum of the community modules is a fold, which takes one element after
the other, chosen by `CHOOSE`. The library's induction theorems cannot be used for it, since they take an operator; here
induction is stated for sets (`EverySubset`: a set of subsets of a finite set that holds the empty one, and with each its
extension by one element, holds all), from well-foundedness. From it follow that the fold exists (`AccumulationExists`), does not
depend on the order (`SumWith`), and the laws the rest cites: sums of parts, of groups with a common key, under other names, with
a term changed, of naturals, and `SumTakenBack`: where each reversal takes back a row of its own, what is left is the sum of the rows
not taken back.

`TableMoney_proofs` proves, from the assumptions of `TableService_proofs`, for any number of orders, payments and handlers:

* `OverpaidOnlyByCancellationHolds`. Paid and owed are sums over rows, and a handler charges no more than remained
  when it looked, within its transaction. `NotOverpaid`, inductive with `TypeOK` and `ReversalInv`, says it without the exception: as long as
  nothing of a session was cancelled, it owes at least what it holds. What makes it so is that an order which
  moves on is worth the same (`MovesOn`) and never comes back on the bill, and a reversal takes back what its original gave.
* `PaidWithinQuantityHolds`. The units of a line paid for are allocations added up, reversed ones taken back. `ItemsInv` adds that
  a payment names a line once, that a reversal names what its original named (`AllocationsBack`), and that what a payment names exists
  (`AllocationsExist`), so that a new order starts with nothing paid.
* `AutoCloseTookMoneyHolds`. An evaluation in flight has read the session's payments and goes on to count or close only with an
  original among them (`CountsMoney`); rows are never deleted, so it still holds when it closes, however late.
* `RedemptionFollowsDiscountHolds` and `SettlementNotForgottenHolds`, `ASSUME MayCrash = FALSE`: a restart loses the handler
  that was to cancel a redemption, or to look at a settled session, and nothing makes up for it (hazards in `PROJECT.json`).
  The runs of both properties switch `Crash` off for that reason. The first rests on `CancelsReversed`: who is
  on the way to cancel a redemption has reversed its discount. The second on `DueWatched`: a session that is settled with
  nothing cancelled has a handler that will read its whole bill, or has read all orders of it (`Watches`). What makes a session due
  starts such a handler, and a handler stops watching only what it closes or has seen not to be due.

`StaffAuth_proofs` proves, from `StaffAssumption` only (any accounts, passwords, codes, slots of
requests, numbers of sessions, versions and times):

* `TypeCorrect`, `UsableSessionIsCurrentHolds` (`Spec => []UsableSessionIsCurrent`), and the action properties
  `RefusedForGoodHolds` and `CodeUsedOnceHolds`.
* All four come from one inductive invariant, `IInv`: `TypeOK`, `AllSound` and `CopiesAgree`.
  `UsableSessionIsCurrent` alone is not inductive, because a handler keeps a copy of the session and the account it read
  and saves the session later, over whatever was stored meanwhile. `AllSound` therefore speaks of every copy, stored or
  held: a session's account exists, its version is not later than the account's, and when the versions are
  equal it was opened under today's password; a held copy of an account is not of a later version, and of
  the same version has the same password. `CopiesAgree` says that the copies of one session id agree in kind, account and version:
  ids are never used twice. It is what makes a save of an old copy harmless.
* The argument for a step: accounts only *move on* (the version never falls, and the password changes only
  with it), so what was sound stays sound, and each action has to justify only the copies it makes.
  `StepFollows` goes through the actions, and `Preserved` combines them.

`Guest_proofs` proves, from `GuestAssumption` only, for any number of phones, sessions, codes, orders on their way and lost
messages, where the runs have one phone:

* `TypeCorrect`: `Spec => []TypeOK`; `OrderedOnceHolds`: `Spec => []OrderedOnce`. Both from one inductive invariant, `IInv`:
  `Shapes`, `CookiesSound` and `OrderInv`.
* `OrderedOnce` speaks of orders in the database and of what the guest knows; what makes it inductive is what
  it does not speak of. Every order on its way or in the database leaves a *mark*, its session, key and device (`Marks`). A page
  keeps its key until it knows what became of the order, so a mark whose fate is open is that of the key its page still holds, and
  two marks of one key are of one device and one session (`MarksSound`). Hence a late duplicate finds the row
  of the first in its own session, and is answered with it, however long it was on its way.
  `PageKeys`, `PostsSound` and `FormsSound` say what pages, requests and waiting pages contribute.
* Most steps are quiet: they send nothing and draw no key (`KeysUntouched`, `QuietSteps`). The steps of a request are *moves*: the
  mark is that of the request or is dropped (`MoveStep`). What is left is drawing a key, sending, the answer, and the insert.

`Books_proofs` proves, from `BooksAssumption` only, for any number of requests in flight, payments, closings, coupons,
batches, audit records, backups and selections of scopes:

* `TypeCorrect`, `CountedOnceHolds`, `CouponUsedIffRedeemedHolds`, `NothingDanglingHolds`, `IssuedOnceHolds` (`Spec => []...`)
  and `BackupBeforeLossHolds` (`Spec /\ []NamesApart => BackupBeforeLoss`). `NamesApart` says that no two backups are begun in one
  millisecond: their files would have the same name, and the one that fails removes the other's. The run leaves that case aside too.
* All of them rest on one inductive invariant, `BooksInv`, and the first five on it alone, but for the second half of `CountedOnce` (below).
  Its parts say what the properties do not: what lies before the window of a
  closing *under way* is counted already, and what lies in it is as soon as it has been added up (`WindowInv`), so that recording it leaves
  no gap however late it comes; a coupon has one redemption at most (`CouponInv`); a redemption and its payment, a reversal and
  its original, are of one channel and so go together (`LinkInv`); scopes are closed under `DependsOn` (`ScopesClosed`, from
  `Expanded`: two rounds are enough), so that a reset of the menu or the revenue clears every channel; an append reads alone
  and names an earlier record (`LogInv`).
* `BackupInv`, which `BackupBeforeLoss` rests on, says that a backup holds every row older than it that is still there, that a reset
  that has made its backup finds one of today, if not its own (pruning leaves the newest, `NewestStays`), and that the name of a
  backup to be made is free.
* `ChainVerifiesHolds`, `SnapshotStandsHolds` and `ReportsAddUpHolds` (`Spec => []...`) come from a second invariant, `LedgerInv`, inductive
  with `BooksInv`:
  * `OrderInv`: the log is written in the order of its times, what is about to be appended is no older than any record of it, and a purge that is
    about to delete is on record. `ChainInv`: as long as there is one purge, of the past, each record takes up the latest
    of those before it that are left, and so will the one about to be appended. A purge deletes a prefix, the purge record aside, so the links
    behind it stay whole.
  * `ClosingsApart`, for the second half of `CountedOnce`: a closing recorded before another one was begun ends where the other's window starts, or
    earlier, and what a closing has counted, recorded or not, lies in its window and is on record already, so no later row is taken for it (`Takes`).
  * `RowsInv`: rows are told apart by their number, and a reversal has its original, in full and once. `RedeemedInv`: a redemption has its discount, with
    its amount; it is cancelled only if the discount was taken back, and at the counter it is cancelled when the discount is taken back;
    until the coupons are reset each coupon discount has its redemption. `UnredeemedInv`: a
    handler that has yet to cancel a redemption has recorded the reversal, so that the cancellation, however late, cancels nothing else.
  * `FiguresInv`: what was added up for a closing, *recorded or under way*, would be added up again, as long as no row is gone or dated
    at the very end of the window (`WindowStays`: a row added later is outside, and the originals it is told by stay).
  * `ReportsAddUp` follows from `RowsInv` and `RedeemedInv` by the laws of sums: of all time each reversal cancels its
    original (`NetStands`), channels and methods are groups (`PartsAddUp`), and redemptions are coupon discounts under other names (`CouponsAddUp`):
    those that stand, and those of `Late`, taken back at a table with the redemption still on record (`GivenInParts`).
* What a request becomes is said once (`Begins`, `Went`), and who writes what in `Frames`; the lemmas about the parts go by these. The figures of a
  closing are folds; `BooksInv` treats them as some values `V`, to which each closing adds its own (`Shaped`, `Widen`), and only
  `FiguresInv` says which.

`CounterSale_proofs` proves, from `CounterAssumption` only, for any menu, prices, carts, coupons, tills, confirmations in flight and
keys, where the runs have two lines of small amounts:

* `TypeCorrect`, `CouponBuysOneDiscountHolds`, `AllocationsAddUpHolds`, `PaidInAdvanceHolds`, `CancelledSaleSettledHolds`
  (`Spec => []...`), the action properties `RefundOwedUntilRecordedHolds` and `SoldAsShownHolds`, and the refinement
  `ImplementsCheckoutHolds` (`Spec => ImplementsCheckout`).
* All come from one inductive invariant, `CounterInv`. `KeysInv` and `OneSale`: a key of a till has bought one sale at most; the
  transaction looks for the key again, so a copy of a request that was looked up earlier changes nothing. `OrdersInv`: an order is of a sale, and of a sale taken back
  it is cancelled. `RefundsInv`: a refund names its original, gives back what that took, is the only one to, and exists just when the sale is taken back.
  `MoneyInv`: what a sale was sold for is its charge and its discount. The last two are not among the properties, and `PaidInAdvance`, `CancelledSaleSettled`
  and `RefundOwedUntilRecorded` follow from them: what is owed is what is still on the bill less what was sold (`SaleLedger`), and the bill only shrinks
  (`OrderAmountShrinks`).
* `AllGivenOut` is about the loop of `allocateProportional`: it gives out the whole discount and gives no line more than its amount, for any amounts and in the
  turns that `AllocateProportional` allows it. A recursive function is first shown to be what its recursion says (`DealBegins`, `DealsAgree`, `GiveOutDeals`), by
  induction stated for sets of numbers (`EveryNumber`). Then each turn keeps what is given and left together at the total (`OneTurn`), and after one round each line
  has its share rounded up (`Turns`), which adds up to the total at least (`SharesAddUp`), so nothing is left.
* `QuoteMade` says what a quote is, `Selling` and `TakingBack` which rows the two transactions write; the parts of the invariant and the refinement go by these.
  The refinement maps by keys: `KeysSold` says what `Checkout` sees of a key, and `KeyStays` that it sees nothing of the others.

`Menu_proofs` proves, from `MenuAssumption` only (each kind of row is a table of its own with unique ids, what has a place in a list is
finite, and what exists at first refers to what exists), for any categories, items, options, stock, selection ranges and requests, where the run
changes the first menu in three places at most:

* `TypeCorrect`, `ScreensAgreeHolds` (`Spec => []...`), and the action properties `NothingStirsHolds` and `ReorderedAsSeenHolds`.
* All come from one inductive invariant, `MenuInv`. `TypeOK` is not inductive: a stock item may go while rows that are not on sale are linked to
  it, so no row may come on sale with a link. `LinksInv` says that a row is linked to nothing before it exists, and `Moves`, the part of the argument about
  steps, that rows come and go once, and that nothing which stays on sale loses its stock, its category or its group. `RequestsInv` says what
  an editor, a list, a stock page or a handler between check and write holds.
* `ScreensAgree` holds of any menu of the right shape (`ScreensAlike`). That the page and the server accept the same choices is a
  matter of counts: fewer are chosen than are offered (`ChosenCount`, `CountsAgree`). That an item which nobody is warned about
  can be ordered needs a selection: of each group, as many of its offered choices as its minimum, which exist because a set has subsets of every size
  up to its own (`SubsetOfSize`).
* `NothingStirs` rests on `LinksInv`: since what is on sale is linked to live stock or to none, nothing but the three columns
  decides what is sold out (`OwnOrLinked`), and only the buttons and the links write them. What a request sets is the flag of its target or the stock
  item the target is linked to, so what it reaches is the target and `Impact` of it (`SetReaches`); `ButtonPressed` and `ToggleConfirmed` give this for
  each way to press. It says nothing of what a screen had shown, which may be out of date (section 3.3).
* `ReorderedAsSeen` speaks of lists that `Shown` chooses. Positions and ids order any finite set of rows (`AheadIsAnOrder`), so there is one way to list
  it (`InOrderExists`: each entry at the place its predecessors leave; `OneOrder`). The places that `applyOrder` gives put the list sent
  in order (`OrderedByPlace`), and no row is in two lists (`ChildrenApart`), so it is what is shown next, and the other lists are what they were.

Only model-checked are:

* liveness (`SettleCloses`, `ScreenCatchesUp`), which is beyond the provers;
* the four properties that runs refute, which no proof can save.

Every other property of a run is stated by a theorem. Worth proving next: that the orders of `TableService` and of `CounterSale` implement one
abstract life of an order (section 5, 4).

## 5. Plan

1. More proofs: see the end of section 4.
2. Idempotent resubmission of payments, discounts and voids (`payment.ts`), and the checkout page that keeps their keys.
3. Even split of a bill against a reference definition; game time and its extensions.
4. An abstract order lifecycle that `TableService` and `CounterSale` implement.

## 6. What is not modelled, and why

* The order-volume figures of the reports, their void and refund totals, and the CSV export: they add up rows that are already
  summed here along other axes, or format them.
* Even split, game time: planned (section 5).
* Backup file contents beyond which rows they hold, static file serving, process configuration: I/O without a decision the properties depend on.
* Rooms and pages of the staff: they refetch as the guest's page does, which is modelled; what they send is any request of the components above.
* The device expiry, clean-up jobs and rate limits: they only refuse requests, or delete what is refused already.
* Names, notes, payment methods where no cash total is taken, cash tendered and change are data no property tells apart.
