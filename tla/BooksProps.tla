----------------------------- MODULE BooksProps -----------------------------
(***************************************************************************)
(* What the administrator's books promise.                                 *)
(***************************************************************************)
EXTENDS Books

\* Rows have the shape of the schema, ids are never reused, a reversal has its
\* original, and at most one append to the audit log is under way.
TypeOK ==
    /\ now \in 1..MaxTime
    /\ \A p \in rows : /\ p.id \in 1..(nextRow - 1) /\ p.at \in 1..now /\ p.amount > 0
                       /\ p.kind \in Reversals => \E q \in rows : q.id = p.of /\ q.at <= p.at
    /\ coupons \in [Coupons -> {"AVAILABLE", "USED", "CANCELLED", "ABSENT"}]
    /\ \A b \in batches : b.key \in 0..MaxKey /\ b.ids \subseteq Coupons
    /\ catalogue \subseteq Everything
    /\ \A i \in DOMAIN closings : closings[i].upto \in 1..now
    /\ \A l \in log : l.id \in 1..(nextLog - 1) /\ l.prev \in Genesis..(l.id - 1)
    /\ Cardinality({r \in Reqs : req[r].step = "APPEND"}) <= 1

Standing == {p \in rows : p.kind \notin Reversals /\ \A q \in rows : q.of # p.id}

\* The figures agree with each other over every window: the methods, and the
\* channels, add up to the revenue, and windows that meet add up to their union.
\* Over all time what is reported is what has not been taken back, for money,
\* discounts and allocations, wherever a reversal and its original fall
\* (reporting.ts:40-62, 78-82).  What coupons gave is what their discounts stand
\* for and, beyond that, only the tables' discounts taken back whose redemption is
\* not cancelled yet, or never, if the process stopped first (payment.ts:375-395).
Late == {d \in redemptions :
             d.channel = "TABLE" /\ ~d.cancelled /\ \E p \in rows : p.of = d.row}
ReportsAddUp ==
    /\ \A from \in 1..now : \A until \in from..now :
           LET s == Summary(rows, from, until) IN
           /\ Revenue(s) = s.table + s.counter
           /\ Revenue(s) = SumFunction(s.byMethod)
           /\ Revenue(s) + Revenue(Summary(rows, until + 1, now)) =
                  Revenue(Summary(rows, from, now))
    /\ LET all == Summary(rows, 0, now)
           charges == {p \in Standing : p.kind = "CHARGE"}
           waived == Standing \ charges IN
       /\ Revenue(all) = Total(charges)
       /\ all.coupon = Total({p \in waived : p.method = CouponMethod})
       /\ all.manual + all.coupon = Total(waived)
       /\ MenuPaid(rows, 0, now) = Total({p \in charges : p.allocated})
       /\ (\E b \in batches : b.key = 0) =>      \* the coupons were never reset
              CouponGiven(redemptions, 0, now) = all.coupon + Total(Late)

\* However closings, payments and resets overlap, closings neither skip a payment
\* nor, begun one after another, count it twice (closing.ts:49-52): what is dated
\* before the end of a recorded closing is in one, and one begun once another was
\* on record counts nothing of that one again, except what is dated in the
\* millisecond in which it ended.
CountedOnce ==
    \A i \in DOMAIN closings :
        /\ \A p \in rows : p.at < closings[i].upto =>
               \E j \in DOMAIN closings : p.id \in closings[j].counted
        /\ \A j \in DOMAIN closings : closings[i].id < closings[j].after =>
               \A p \in rows : p.id \in closings[i].counted \cap closings[j].counted =>
                   p.at = closings[i].upto

\* The same interval is never counted twice (closing.ts:51): two closings share
\* no payment but one dated in the millisecond in which one of them ended.
NoIntervalTwice ==
    \A i, j \in DOMAIN closings : i # j =>
        \A p \in rows : p.id \in closings[i].counted \cap closings[j].counted =>
            p.at \in {closings[i].upto, closings[j].upto}

\* A recorded closing stands: added up again later, the rows of its window give
\* its figures, unless a reset has deleted rows or one is dated at its very end.
SnapshotStands ==
    \A i \in DOMAIN closings :
        LET c == closings[i]
            again == Summary(rows, c.from, c.upto) IN
        /\ {p.id : p \in rows} = 1..(nextRow - 1)
        /\ \A p \in rows : p.at # c.upto
        => /\ c.revenue = Revenue(again) /\ c.cash = ExpectedCash(again)
           /\ c.menu = MenuPaid(rows, c.from, c.upto)

\* Verification raises no alarm over a log that nobody tampered with, however
\* appends, a purge and restarts overlap (auditLog.ts:106-115).  Left aside are
\* records that share a millisecond, which sort either way, and what the purges
\* cannot promise: a second one, or one of records that are still to come.
Purges == {l \in log : l.action = "AUDIT_LOG_PURGE"}
ChainVerifies ==
    /\ \A l, m \in log : l.at = m.at => l = m
    /\ Cardinality(Purges) <= 1 /\ \A l \in Purges : l.before <= l.at
    => \A l \in log : ~AlarmAt(l)

\* What a reset deletes is in a backup that exists, unless it was recorded after
\* that backup was begun (dataReset.ts:135).
Deleted == {p \in rows : \A q \in rows' : q.id # p.id}
BackupBeforeLoss ==
    [][\A p \in Deleted : \E f \in files : f.at > 0 /\ (p.id \in f.holds \/ p.at >= f.at)]_vars

\* A coupon is used up exactly while its redemption is on record, whatever is
\* deleted (dataReset.ts:103-105) and whatever is called in meanwhile, from
\* however old a list (coupon.ts:231); a cancelled redemption still counts.
CouponUsedIffRedeemed ==
    \A c \in Coupons :
        coupons[c] = "USED" <=> \E d \in redemptions : d.coupon = c

\* Nothing refers to what a reset has deleted: orders and coupon batches to the
\* menu, links to inventory and the menu, redemptions to their payment.
NothingDangling ==
    /\ rows # {} \/ (\E b \in batches : b.type = "ITEM") => "MENU" \in catalogue
    /\ "LINKS" \in catalogue => {"MENU", "INVENTORY"} \subseteq catalogue
    /\ \A d \in redemptions : (\E p \in rows : p.id = d.row) /\ coupons[d.coupon] # "ABSENT"

\* However often an issue is pressed, sent again after a lost answer or cut off by
\* a restart, between resets one key buys one batch, in full, of numbers that no
\* other batch has, and there is no coupon outside a batch (coupon.ts:139-142).
IssuedOnce ==
    /\ \A b, c \in batches : b # c => b.key # c.key /\ b.ids \cap c.ids = {}
    /\ \A b \in batches : Cardinality(b.ids) = b.count
    /\ UNION {b.ids : b \in batches} = Issued
=============================================================================
