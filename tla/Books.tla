-------------------------------- MODULE Books -------------------------------
(***************************************************************************)
(* The administrator's work on the books: closing the business day, the    *)
(* audit log and its purge, backups, the data reset, and issuing coupons   *)
(* and calling them in (closing.ts, auditLog.ts, backup.ts, dataReset.ts,  *)
(* coupon.ts, CouponsPanel.tsx), while payments go on.                     *)
(*                                                                         *)
(* Time is the millisecond clock that dates rows; things may share one.    *)
(* SQLite is used over one connection, so a transaction or a VACUUM is one *)
(* step, and other requests run between the statements of a handler.       *)
(***************************************************************************)
EXTENDS Reporting, Sequences

CONSTANTS
    Tenders,        \* the payments and discounts that may be recorded
    ReversalKinds,  \* which of VOID and REFUND a reversal may be
    MaxCouponNumber,     \* coupons are numbered 1..MaxCouponNumber
    Outstanding,         \* how many are out at the start, as one batch of vouchers
    Quantities,          \* how many coupons a batch is asked for
    Reqs,           \* requests in flight
    Ops,            \* what the administrator does
    Wanted,         \* the sets of scopes a reset is asked for
    OldBackups,     \* backups of earlier days, by (negative) time
    MaxBackups,     \* MAX_BACKUPS
    MaxRows, MaxClosings, MaxLog, MaxTime, MaxKey    \* bounds

Coupons == 1..MaxCouponNumber
NoCoupon == 0
Scopes == {"tables", "counterSales", "payments", "revenue", "coupons", "inventory", "menu"}

ASSUME BooksAssumption ==
    /\ \A t \in Tenders : /\ t.kind \in {"CHARGE", "DISCOUNT"}
                          /\ t.channel \in {"TABLE", "COUNTER"}
                          /\ t.amount \in Nat \ {0} /\ t.allocated \in BOOLEAN
    /\ ReversalKinds \subseteq Reversals
    /\ MaxCouponNumber \in Nat \ {0} /\ Outstanding \in 0..MaxCouponNumber
    /\ Quantities \subseteq Coupons
    /\ Wanted \subseteq SUBSET Scopes
    /\ \A b \in OldBackups : b \in Int /\ b < 0
    /\ MaxBackups \in Nat \ {0} /\ MaxTime \in Nat \ {0}
    /\ MaxRows \in Nat /\ MaxClosings \in Nat /\ MaxLog \in Nat /\ MaxKey \in Nat

VARIABLES
    now,
    rows, nextRow,       \* Payment rows, ids in the order of recording
    redemptions,         \* CouponRedemption rows
    unredeeming,         \* discounts taken back whose redemption is still to be cancelled
    coupons,             \* the status of each number, ABSENT without a coupon
    batches,             \* CouponBatch rows
    issueKey,            \* idempotencyKeyRef of the administrator's coupon panel
    catalogue,           \* which of MENU, INVENTORY and the LINKS between them exist
    closings, nextClosing,   \* ClosingSettlement rows, ids in the order of recording
    log, nextLog,        \* AuditLog rows, ids in the order of insertion
    files,               \* backup files, named by their time
    req

ledgerVars == <<rows, nextRow, redemptions, unredeeming, coupons, batches, issueKey, catalogue>>
closingVars == <<closings, nextClosing>>
vars == <<now, ledgerVars, closingVars, log, nextLog, files, req>>

Everything == {"MENU", "INVENTORY", "LINKS"}
Genesis == 0
StartOfToday == 0

\* id is the closing's own, after the next one's when it was begun.
NoSums == [from |-> 0, upto |-> 0, revenue |-> 0, cash |-> 0, menu |-> 0, counted |-> {},
           after |-> 0, id |-> 0]

\* entry is the audit record to be written, prev and at what append found; batch
\* and ids are what is issued or called in.
NoBatch == [key |-> 0, type |-> "NONE", count |-> 0, ids |-> {}]
Idle == [op |-> "NONE", step |-> "NONE", sums |-> NoSums, scopes |-> {}, batch |-> NoBatch,
         time |-> 0, entry |-> "NONE", prev |-> 0, at |-> 0]

Begin(r, request) ==
    /\ request.op \in Ops /\ req[r] = Idle
    /\ req' = [req EXCEPT ![r] = request]
Goes(r, step) == req' = [req EXCEPT ![r].step = step]
Logs(r, entry) ==
    req' = [req EXCEPT ![r] = [Idle EXCEPT !.op = req[r].op, !.step = "LOG", !.entry = entry,
                    !.scopes = IF entry = "DB_BACKUP_CREATED" THEN req[r].scopes ELSE {}]]
Done(r) == req' = [req EXCEPT ![r] = Idle]

-----------------------------------------------------------------------------
(* Business goes on                                                        *)

RecordPayment(t, c) ==
    /\ nextRow <= MaxRows /\ "MENU" \in catalogue
    /\ IF t.kind = "DISCOUNT" /\ t.method = CouponMethod
       THEN c \in Coupons /\ coupons[c] = "AVAILABLE"
       ELSE c = NoCoupon
    /\ rows' = rows \cup {[id |-> nextRow, at |-> now, kind |-> t.kind, method |-> t.method,
                           channel |-> t.channel, amount |-> t.amount,
                           allocated |-> t.allocated, of |-> 0]}
    /\ nextRow' = nextRow + 1
    /\ IF c = NoCoupon THEN UNCHANGED <<redemptions, coupons>>
       ELSE /\ redemptions' = redemptions \cup
                  {[row |-> nextRow, at |-> now, coupon |-> c, channel |-> t.channel,
                    amount |-> t.amount, cancelled |-> FALSE]}
            /\ coupons' = [coupons EXCEPT ![c] = "USED"]
    /\ UNCHANGED <<now, unredeeming, batches, issueKey, catalogue, closingVars, log, nextLog, files, req>>

CancelledFor(id) == {[d EXCEPT !.cancelled = @ \/ d.row = id] : d \in redemptions}
CouponDiscount(p) == p.kind = "DISCOUNT" /\ p.method = CouponMethod

\* A reversal takes the whole of its original back; a coupon stays used.  A sale's
\* redemption is cancelled in the same transaction, a table's by a later statement.
ReversePayment(p, kind) ==
    /\ nextRow <= MaxRows
    /\ p.kind \notin Reversals /\ \A q \in rows : q.of # p.id
    /\ rows' = rows \cup {[p EXCEPT !.id = nextRow, !.at = now, !.kind = kind, !.of = p.id]}
    /\ nextRow' = nextRow + 1
    /\ IF p.channel = "COUNTER"
       THEN redemptions' = CancelledFor(p.id) /\ UNCHANGED unredeeming
       ELSE /\ unredeeming' = unredeeming \cup (IF CouponDiscount(p) THEN {p.id} ELSE {})
            /\ UNCHANGED redemptions
    /\ UNCHANGED <<now, coupons, batches, issueKey, catalogue, closingVars, log, nextLog, files, req>>

\* cancelTableCouponRedemption, once the reversal is committed.
CancelRedemption(id) ==
    /\ id \in unredeeming
    /\ redemptions' = CancelledFor(id) /\ unredeeming' = unredeeming \ {id}
    /\ UNCHANGED <<now, rows, nextRow, coupons, batches, issueKey, catalogue,
                   closingVars, log, nextLog, files, req>>

-----------------------------------------------------------------------------
(* The audit log                                                           *)

Latest(S) == {l \in S : \A m \in S : m.at <= l.at}

\* Fault: appends do not wait for one another.
NobodyWaits == TRUE

\* appendQueue: one append at a time.
QueueFree == \A r \in Reqs : req[r].step # "APPEND"

\* The last record by createdAt; of several in one millisecond, any.
AppendReads(r) ==
    /\ req[r].step = "LOG" /\ QueueFree
    /\ \E prev \in IF log = {} THEN {Genesis} ELSE {l.id : l \in Latest(log)} :
           req' = [req EXCEPT ![r].step = "APPEND", ![r].prev = prev, ![r].at = now]
    /\ UNCHANGED <<now, ledgerVars, closingVars, log, nextLog, files>>

AppendWrites(r) ==
    /\ req[r].step = "APPEND" /\ nextLog <= MaxLog
    /\ log' = log \cup {[id |-> nextLog, at |-> req[r].at, action |-> req[r].entry,
                         prev |-> req[r].prev,
                         before |-> IF req[r].op = "PURGE" THEN req[r].time ELSE 0]}
    /\ nextLog' = nextLog + 1
    /\ LET next == CASE req[r].entry = "AUDIT_LOG_PURGE" -> "PURGE"
                     [] req[r].scopes # {} -> "DELETE"
                     [] req[r].op = "ISSUE" -> "ANSWER"
                     [] OTHER -> "NONE"
       IN req' = [req EXCEPT ![r] = IF next = "NONE" THEN Idle
                         ELSE [@ EXCEPT !.step = next, !.entry = "NONE", !.prev = 0, !.at = 0]]
    /\ UNCHANGED <<now, ledgerVars, closingVars, files>>

\* Any other audited operation of the system.
Note(r) ==
    /\ Begin(r, [Idle EXCEPT !.op = "NOTE", !.step = "LOG", !.entry = "OTHER"])
    /\ UNCHANGED <<now, ledgerVars, closingVars, log, nextLog, files>>

\* purgeAuditLogs: the purge is on record before anything is deleted.
PurgeStarts(r, before) ==
    /\ Begin(r, [Idle EXCEPT !.op = "PURGE", !.step = "LOG", !.time = before,
                             !.entry = "AUDIT_LOG_PURGE"])
    /\ UNCHANGED <<now, ledgerVars, closingVars, log, nextLog, files>>

PurgeDeletes(r) ==
    /\ req[r].step = "PURGE"
    /\ log' = {l \in log : l.at >= req[r].time \/ l.action = "AUDIT_LOG_PURGE"}
    /\ Done(r)
    /\ UNCHANGED <<now, ledgerVars, closingVars, nextLog, files>>

\* verifyAuditLogChain raises the alarm at a record that is neither the first nor
\* a purge and does not name the one before it.
Before(l) == {m \in log : m.at < l.at}
AlarmAt(l) ==
    /\ Before(l) # {} /\ l.action # "AUDIT_LOG_PURGE"
    /\ l.prev \notin {m.id : m \in Latest(Before(l))}

-----------------------------------------------------------------------------
(* Closing the day                                                         *)

\* resolveClosingWindowStart
WindowStart ==
    IF closings # << >> THEN Max({closings[i].upto : i \in DOMAIN closings})
    ELSE IF rows # {} THEN Min({p.at : p \in rows}) ELSE StartOfToday

CloseStarts(r) ==
    /\ Len(closings) < MaxClosings
    /\ Begin(r, [Idle EXCEPT !.op = "CLOSE", !.step = "SUMS",
                             !.sums = [NoSums EXCEPT !.from = WindowStart, !.upto = now,
                                                     !.after = nextClosing]])
    /\ UNCHANGED <<now, ledgerVars, closingVars, log, nextLog, files>>

\* Fault: everything recorded so far is added up, without the window's end.
SumsUpToNow(s) ==
    LET sum == Summary(rows, s.from, now) IN
    [s EXCEPT !.revenue = Revenue(sum), !.cash = ExpectedCash(sum),
              !.counted = {p.id : p \in InWindow(rows, s.from, now)}]

\* What the queries of the preview find; counted and after are kept for the properties.
Sums(s) ==
    LET sum == Summary(rows, s.from, s.upto) IN
    [s EXCEPT !.revenue = Revenue(sum), !.cash = ExpectedCash(sum),
              !.counted = {p.id : p \in InWindow(rows, s.from, s.upto)}]

CloseSums(r) ==
    /\ req[r].step = "SUMS"
    /\ req' = [req EXCEPT ![r].step = "ALLOCATIONS", ![r].sums = Sums(@)]
    /\ UNCHANGED <<now, ledgerVars, closingVars, log, nextLog, files>>

\* The allocations are a later query.  Tables in use and no reason given end it.
CloseAllocations(r, refused) ==
    /\ req[r].step = "ALLOCATIONS"
    /\ IF refused THEN Done(r)
       ELSE req' = [req EXCEPT ![r].step = "RECORD",
                ![r].sums.menu = MenuPaid(rows, req[r].sums.from, req[r].sums.upto)]
    /\ UNCHANGED <<now, ledgerVars, closingVars, log, nextLog, files>>

\* Fault: the window ends when the closing is recorded.
RecordedNow(s) == [s EXCEPT !.id = nextClosing, !.upto = now]

Recorded(s) == [s EXCEPT !.id = nextClosing]

CloseRecords(r) ==
    /\ req[r].step = "RECORD"
    /\ closings' = Append(closings, Recorded(req[r].sums)) /\ nextClosing' = nextClosing + 1
    /\ Logs(r, "BUSINESS_DAY_CLOSED")
    /\ UNCHANGED <<now, ledgerVars, log, nextLog, files>>

-----------------------------------------------------------------------------
(* Backups                                                                 *)

\* createBackup up to the VACUUM; the file is named by the millisecond.
BackupStarts(r) ==
    /\ Begin(r, [Idle EXCEPT !.op = "BACKUP", !.step = "VACUUM", !.time = now])
    /\ \A f \in files : f.at # now
    /\ UNCHANGED <<now, ledgerVars, closingVars, log, nextLog, files>>

\* VACUUM INTO fails on a file that has come to exist, and the file is removed.
Vacuum(r) ==
    /\ req[r].step = "VACUUM"
    /\ IF \E f \in files : f.at = req[r].time
       THEN /\ files' = {f \in files : f.at # req[r].time}
            /\ Done(r)
       ELSE /\ files' = files \cup {[at |-> req[r].time, holds |-> {p.id : p \in rows}]}
            /\ Goes(r, "PRUNE")
    /\ UNCHANGED <<now, ledgerVars, closingVars, log, nextLog>>

\* Disk full, no permission: the partial file is removed.
VacuumFails(r) ==
    /\ req[r].step = "VACUUM"
    /\ files' = {f \in files : f.at # req[r].time}
    /\ Done(r)
    /\ UNCHANGED <<now, ledgerVars, closingVars, log, nextLog>>

Newer(f) == {g \in files : g.at > f.at}

\* pruneOldBackups, after the checksum; without its file the backup has failed.
Prune(r) ==
    /\ req[r].step = "PRUNE"
    /\ IF \E f \in files : f.at = req[r].time
       THEN /\ files' = {f \in files : Cardinality(Newer(f)) < MaxBackups}
            /\ Logs(r, "DB_BACKUP_CREATED")
       ELSE Done(r) /\ UNCHANGED files
    /\ UNCHANGED <<now, ledgerVars, closingVars, log, nextLog>>

-----------------------------------------------------------------------------
(* Data reset                                                              *)

\* Fault: the coupons, whose batches name menu items, are forgotten.
DependsOnOrders ==
    [s \in Scopes |->
        CASE s = "payments" -> {"tables", "counterSales"}
          [] s = "revenue"  -> {"payments"}
          [] s = "menu"     -> {"tables", "counterSales"}
          [] OTHER          -> {}]

DependsOn ==
    [s \in Scopes |->
        CASE s = "payments" -> {"tables", "counterSales"}
          [] s = "revenue"  -> {"payments"}
          [] s = "menu"     -> {"tables", "counterSales", "coupons"}
          [] OTHER          -> {}]

\* expandScopes: no chain of dependencies is longer than two.
ExpandScopes(selected) ==
    LET with == selected \cup UNION {DependsOn[s] : s \in selected}
    IN  with \cup UNION {DependsOn[s] : s \in with}

\* Fault: the reset does not wait for its backup.
ResetAtOnce(r, selected) ==
    /\ Begin(r, [Idle EXCEPT !.op = "RESET", !.step = "DELETE", !.time = now,
                             !.scopes = ExpandScopes(selected)])
    /\ UNCHANGED <<now, ledgerVars, closingVars, log, nextLog, files>>

\* resetData: first of all a backup.
ResetStarts(r, selected) ==
    /\ Begin(r, [Idle EXCEPT !.op = "RESET", !.step = "VACUUM", !.time = now,
                             !.scopes = ExpandScopes(selected)])
    /\ \A f \in files : f.at # now
    /\ UNCHANGED <<now, ledgerVars, closingVars, log, nextLog, files>>

Cleared(scopes) ==
    (IF "tables" \in scopes THEN {"TABLE"} ELSE {}) \cup
    (IF "counterSales" \in scopes THEN {"COUNTER"} ELSE {})

\* Fault: the coupons keep their status.
NotRestored(channels) == coupons

\* deleteLedgerOf: coupons whose redemption goes are available again.
Restored(channels) ==
    LET freed == {d.coupon : d \in {e \in redemptions : e.channel \in channels}}
    IN  [c \in Coupons |-> IF c \in freed /\ coupons[c] = "USED" THEN "AVAILABLE" ELSE coupons[c]]

\* The transaction of the reset.
ResetDeletes(r) ==
    /\ req[r].step = "DELETE"
    /\ LET scopes == req[r].scopes
           channels == Cleared(scopes) IN
       /\ rows' = {p \in rows : p.channel \notin channels}
       /\ redemptions' = IF "coupons" \in scopes THEN {}
                         ELSE {d \in redemptions : d.channel \notin channels}
       /\ coupons' = IF "coupons" \in scopes THEN [c \in Coupons |-> "ABSENT"]
                     ELSE Restored(channels)
       /\ batches' = IF "coupons" \in scopes THEN {} ELSE batches
       /\ closings' = IF "revenue" \in scopes THEN << >> ELSE closings
       /\ catalogue' = catalogue
             \ ((IF "inventory" \in scopes THEN {"INVENTORY", "LINKS"} ELSE {})
                \cup (IF "menu" \in scopes THEN {"MENU", "LINKS"} ELSE {}))
    /\ Logs(r, "DATA_RESET")
    /\ UNCHANGED <<now, nextRow, unredeeming, issueKey, nextClosing, log, nextLog, files>>

-----------------------------------------------------------------------------
(* Coupon batches                                                          *)

Issued == {c \in Coupons : coupons[c] # "ABSENT"}
HasBatch(key) == \E b \in batches : b.key = key

\* The first free numbers, as far as there are any.
AllocateCodes(count) ==
    {c \in Coupons \ Issued : Cardinality({d \in 1..c : d \notin Issued}) <= count}

\* Issuing: the key is looked up, and a batch that has it is the answer.  The
\* button stays enabled meanwhile.
IssueStarts(r, type, count) ==
    /\ issueKey <= MaxKey
    /\ Begin(r, [Idle EXCEPT !.op = "ISSUE",
                   !.step = IF HasBatch(issueKey) THEN "ANSWER" ELSE "INSERT",
                   !.batch = [NoBatch EXCEPT !.key = issueKey, !.type = type, !.count = count]])
    /\ UNCHANGED <<now, ledgerVars, closingVars, log, nextLog, files>>

\* Fault: the key of a batch is not unique.
IssueAnyway(r) ==
    /\ req[r].step = "INSERT"
    /\ LET new == req[r].batch
           codes == AllocateCodes(new.count) IN
       IF (new.type = "ITEM" /\ "MENU" \notin catalogue) \/ Cardinality(codes) < new.count
       THEN Done(r) /\ UNCHANGED <<coupons, batches>>
       ELSE /\ batches' = batches \cup {[new EXCEPT !.ids = codes]}
            /\ coupons' = [c \in Coupons |-> IF c \in codes THEN "AVAILABLE" ELSE coupons[c]]
            /\ Logs(r, "COUPON_BATCH_ISSUED")
    /\ UNCHANGED <<now, rows, nextRow, redemptions, unredeeming, issueKey, catalogue,
                   closingVars, log, nextLog, files>>

\* The transaction: the targets are on the menu, the numbers suffice, and the key
\* is unique; when another request has won it, its batch is the answer.
IssueCommits(r) ==
    /\ req[r].step = "INSERT"
    /\ LET new == req[r].batch
           codes == AllocateCodes(new.count)
           refused == \/ new.type = "ITEM" /\ "MENU" \notin catalogue
                      \/ Cardinality(codes) < new.count
       IN  \/ refused /\ Done(r) /\ UNCHANGED <<coupons, batches>>
           \/ ~refused /\ HasBatch(new.key) /\ Goes(r, "ANSWER") /\ UNCHANGED <<coupons, batches>>
           \/ /\ ~refused /\ ~HasBatch(new.key)
              /\ batches' = batches \cup {[new EXCEPT !.ids = codes]}
              /\ coupons' = [c \in Coupons |-> IF c \in codes THEN "AVAILABLE" ELSE coupons[c]]
              /\ Logs(r, "COUPON_BATCH_ISSUED")
    /\ UNCHANGED <<now, rows, nextRow, redemptions, unredeeming, issueKey, catalogue,
                   closingVars, log, nextLog, files>>

\* The panel takes a new key once it has the answer, and keeps it without one.
IssueAnswered(r, lost) ==
    /\ req[r].step = "ANSWER"
    /\ issueKey' = IF lost THEN issueKey ELSE issueKey + 1
    /\ Done(r)
    /\ UNCHANGED <<now, rows, nextRow, redemptions, unredeeming, coupons, batches, catalogue,
                   closingVars, log, nextLog, files>>

\* Coupons chosen from the list, or all of a batch that the list shows unused.
Unused(b) == {c \in b.ids : coupons[c] = "AVAILABLE"}

CallIn(r, b, ids) ==
    /\ ids # {}
    /\ Begin(r, [Idle EXCEPT !.op = "CALL_IN", !.step = "CANCEL",
                             !.batch = [NoBatch EXCEPT !.key = b.key, !.ids = ids]])
    /\ UNCHANGED <<now, ledgerVars, closingVars, log, nextLog, files>>

\* Those still unused; a coupon deleted since is not the one that has its number now.
Cancelled(chosen) ==
    [c \in Coupons |-> IF /\ \E b \in batches : b.key = chosen.key /\ c \in chosen.ids \cap b.ids
                          /\ coupons[c] = "AVAILABLE"
                       THEN "CANCELLED" ELSE coupons[c]]

CancelCoupons(r) ==
    /\ req[r].step = "CANCEL"
    /\ coupons' = Cancelled(req[r].batch)
    /\ Logs(r, "COUPON_CANCELLED")
    /\ UNCHANGED <<now, rows, nextRow, redemptions, unredeeming, batches, issueKey, catalogue,
                   closingVars, log, nextLog, files>>

-----------------------------------------------------------------------------
Tick ==
    /\ now < MaxTime
    /\ now' = now + 1
    /\ UNCHANGED <<ledgerVars, closingVars, log, nextLog, files, req>>

\* The process stops; what was in flight is gone.
Restart ==
    /\ unredeeming # {} \/ \E r \in Reqs : req[r] # Idle
    /\ req' = [r \in Reqs |-> Idle] /\ unredeeming' = {}
    /\ UNCHANGED <<now, rows, nextRow, redemptions, coupons, batches, issueKey, catalogue,
                   closingVars, log, nextLog, files>>

Init ==
    /\ now = 1
    /\ rows = {} /\ nextRow = 1 /\ redemptions = {} /\ unredeeming = {}
    /\ coupons = [c \in Coupons |-> IF c <= Outstanding THEN "AVAILABLE" ELSE "ABSENT"]
    /\ batches = IF Outstanding = 0 THEN {}
                 ELSE {[key |-> 0, type |-> "ITEM", count |-> Outstanding, ids |-> 1..Outstanding]}
    /\ issueKey = 1
    /\ catalogue = Everything
    /\ closings = << >> /\ nextClosing = 1
    /\ log = {} /\ nextLog = 1
    /\ files = {[at |-> b, holds |-> {}] : b \in OldBackups}
    /\ req = [r \in Reqs |-> Idle]

Business ==
    \/ \E t \in Tenders, c \in Coupons \cup {NoCoupon} : RecordPayment(t, c)
    \/ \E p \in rows, kind \in ReversalKinds : ReversePayment(p, kind)
    \/ \E id \in unredeeming : CancelRedemption(id)

CouponDesk(r) ==
    \/ \E type \in {"AMOUNT", "ITEM"}, count \in Quantities : IssueStarts(r, type, count)
    \/ \E b \in batches : \E ids \in SUBSET Unused(b) : CallIn(r, b, ids)

Arrives(r) ==
    \/ Note(r) \/ CloseStarts(r) \/ BackupStarts(r)
    \/ \E before \in 2..(MaxTime + 1) : PurgeStarts(r, before)
    \/ \E selected \in Wanted : ResetStarts(r, selected)
    \/ CouponDesk(r)

Continues(r) ==
    \/ AppendReads(r) \/ AppendWrites(r) \/ PurgeDeletes(r)
    \/ CloseSums(r) \/ CloseRecords(r)
    \/ \E refused \in BOOLEAN : CloseAllocations(r, refused)
    \/ Vacuum(r) \/ VacuumFails(r) \/ Prune(r) \/ ResetDeletes(r)
    \/ IssueCommits(r) \/ CancelCoupons(r)
    \/ \E lost \in BOOLEAN : IssueAnswered(r, lost)

Next == Business \/ (\E r \in Reqs : Arrives(r) \/ Continues(r)) \/ Tick \/ Restart

Spec == Init /\ [][Next]_vars
=============================================================================
