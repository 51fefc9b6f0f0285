------------------------------ MODULE MC_Books -------------------------------
(***************************************************************************)
(* Small instances of Books for TLC.                                       *)
(***************************************************************************)
EXTENDS BooksProps, TLC

Tender(kind, method, channel, amount, allocated) ==
    [kind |-> kind, method |-> method, channel |-> channel, amount |-> amount,
     allocated |-> allocated]

\* Cash and a coupon at a table, a card and a coupon at the counter.
Mixed == {Tender("CHARGE", "CASH", "TABLE", 2, FALSE),
          Tender("DISCOUNT", CouponMethod, "TABLE", 1, FALSE),
          Tender("CHARGE", "CARD", "COUNTER", 1, TRUE),
          Tender("DISCOUNT", CouponMethod, "COUNTER", 1, TRUE)}
CashOnly == {Tender("CHARGE", "CASH", "TABLE", 2, FALSE)}

Selections == {{"tables"}, {"revenue"}, {"coupons", "inventory"}, {"menu"}}
AllOps == {"NOTE", "CLOSE", "BACKUP", "PURGE", "RESET", "ISSUE", "CALL_IN"}
Yesterday == {-2, -1}

Doing(op) == {r \in Reqs : req[r].op = op}
Made == {f \in files : f.at > 0}

\* The audit log is explored with the ledger at rest, and the ledger for one
\* millisecond less and with one audit record, of a backup.  One reset at a time;
\* with one under way or made, one payment and one closing; backups compete
\* without closings, and never for one name.  One purge, of records of the past.
\* Coupons are issued and called in within the first millisecond, with one audit
\* record; by a second key at rest, by the first with one payment, by coupon, or
\* a reset of the coupons.
Audited == Doing("NOTE") \cup Doing("PURGE") # {}
           \/ \E l \in log : l.action \in {"OTHER", "AUDIT_LOG_PURGE"}
SameName(r, q) ==
    req[r].step = "VACUUM" /\ req[q].step = "VACUUM" /\ req[r].time = req[q].time
IssueLog == {"COUPON_BATCH_ISSUED", "COUPON_CANCELLED"}
Issuing == \/ Doing("ISSUE") \cup Doing("CALL_IN") # {} \/ issueKey > 1
           \/ \E b \in batches : b.key > 0
           \/ \E c \in Coupons : coupons[c] = "CANCELLED"
           \/ \E l \in log : l.action \in IssueLog
Closed == Cardinality(Doing("CLOSE")) + Len(closings)
AtRest == /\ rows = {} /\ Closed = 0 /\ Made = {} /\ catalogue = Everything
          /\ Doing("BACKUP") \cup Doing("RESET") = {}
OnePurge == /\ Cardinality(Purges) + Cardinality({r \in Doing("PURGE") : req[r].step # "PURGE"}) <= 1
            /\ \A r \in Doing("PURGE") : req[r].time <= now
Small ==
    /\ Audited => AtRest /\ OnePurge
    /\ ~Audited /\ ~Issuing =>
           Cardinality(log) <= 1 /\ \A l \in log : l.action = "DB_BACKUP_CREATED"
    /\ Issuing => /\ ~Audited /\ now = 1 /\ Closed = 0 /\ Doing("BACKUP") = {}
                  /\ nextRow <= 2 /\ \A p \in rows : p.method = CouponMethod
                  /\ Cardinality(log) <= 1 /\ (issueKey > 1 => rows = {} /\ Made = {})
                  /\ Doing("RESET") # {} \/ Made # {} =>
                        rows = {} /\ \A r \in Doing("RESET") : "coupons" \in req[r].scopes
    /\ Cardinality(Doing("RESET")) <= 1
    /\ Doing("BACKUP") # {} => Closed = 0 /\ nextRow <= 2
    /\ Doing("RESET") # {} \/ Made # {} => Closed <= 1 /\ (Closed = 1 => nextRow <= 2)
    /\ Cardinality(Made) > 1 => Closed = 0 /\ nextRow <= 2
    /\ \A r, q \in Reqs : SameName(r, q) => r = q
LedgerEnds == ~Audited' => now' < MaxTime

Alike == Permutations(Reqs)
=============================================================================
