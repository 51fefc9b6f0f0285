---------------------------- MODULE Books_proofs ----------------------------
(***************************************************************************)
(* Proofs about Books, for every number of requests in flight, payments,   *)
(* closings, coupons, audit records and backups.                           *)
(***************************************************************************)
EXTENDS BooksProps, SumTheorems, SequenceTheorems, FiniteSetTheorems, WellFoundedInduction,
        TLAPS

USE BooksAssumption

-----------------------------------------------------------------------------
(* Shapes.  What the folds of Reporting add up to is some value: V.        *)

Kinds == {"CHARGE", "DISCOUNT"} \cup Reversals
Channels == {"TABLE", "COUNTER"}
Methods == {t.method : t \in Tenders}
Row == [id : Nat \ {0}, at : Nat, kind : Kinds, method : Methods, channel : Channels,
        amount : Nat \ {0}, allocated : BOOLEAN, of : Nat]
Redemption == [row : Nat, at : Nat, coupon : Coupons, channel : Channels, amount : Nat,
               cancelled : BOOLEAN]
Batch == [key : Nat, type : {"NONE", "AMOUNT", "ITEM"}, count : Nat, ids : SUBSET Coupons]
Entries == {"NONE", "OTHER", "AUDIT_LOG_PURGE", "BUSINESS_DAY_CLOSED", "DB_BACKUP_CREATED",
            "DATA_RESET", "COUPON_BATCH_ISSUED", "COUPON_CANCELLED"}
LogRow == [id : Nat, at : Nat, action : Entries, prev : Nat, before : Nat]
File == [at : Int, holds : SUBSET Nat]
SumsOf(V) == [from : Nat, upto : Nat, revenue : V, cash : V, menu : V, counted : SUBSET Nat,
              after : Nat, id : Nat]
Steps == {"NONE", "LOG", "APPEND", "PURGE", "DELETE", "ANSWER", "SUMS", "ALLOCATIONS", "RECORD",
          "VACUUM", "PRUNE", "INSERT", "CANCEL"}
Operations == {"NONE", "NOTE", "PURGE", "CLOSE", "BACKUP", "RESET", "ISSUE", "CALL_IN"}
Request(V) == [op : Operations, step : Steps, sums : SumsOf(V), scopes : SUBSET Scopes,
               batch : Batch, time : Nat, entry : Entries, prev : Nat, at : Nat]

Stored(V) ==
    /\ 0 \in V
    /\ now \in Nat \ {0} /\ nextRow \in Nat \ {0} /\ nextLog \in Nat \ {0} /\ issueKey \in Nat
    /\ rows \in SUBSET Row
    /\ redemptions \in SUBSET Redemption /\ unredeeming \in SUBSET Nat
    /\ coupons \in [Coupons -> {"AVAILABLE", "USED", "CANCELLED", "ABSENT"}]
    /\ batches \in SUBSET Batch
    /\ catalogue \in SUBSET Everything
    /\ closings \in Seq(SumsOf(V)) /\ nextClosing \in Nat \ {0}
    /\ log \in SUBSET LogRow
    /\ files \in SUBSET File

Shaped(V) == Stored(V) /\ req \in [Reqs -> Request(V)]

\* Rows and requests are of the past.
Dated ==
    /\ \A p \in rows : p.id < nextRow /\ p.at \in 1..now
    /\ \A i \in DOMAIN closings : closings[i].upto \in 1..now
    /\ \A r \in Reqs : /\ req[r].sums.upto <= now
                       /\ req[r].step \in {"SUMS", "ALLOCATIONS", "RECORD"} => req[r].sums.upto > 0
                       /\ req[r].step \in {"VACUUM", "PRUNE"} => req[r].time \in 1..now
    /\ \A f \in files : f.at <= now

\* A request that is not under way.
LEMMA IdleShape == ASSUME NEW V, 0 \in V PROVE Idle \in Request(V)
  BY DEF Idle, NoSums, NoBatch, Request, SumsOf, Batch, Steps, Operations, Entries

\* Cancelling changes a redemption in nothing else.
LEMMA CancelledShape ==
    ASSUME NEW V, Shaped(V), NEW id
    PROVE  CancelledFor(id) \in SUBSET Redemption
  <1>1. ASSUME NEW d \in redemptions
        PROVE  [d EXCEPT !.cancelled = @ \/ d.row = id] \in Redemption
    <2> DEFINE cancelled == d.cancelled \/ d.row = id
    <2>1. d \in Redemption
      BY DEF Shaped, Stored
    <2>2. cancelled \in BOOLEAN
      OBVIOUS
    <2> HIDE DEF cancelled
    <2>3. [d EXCEPT !.cancelled = cancelled] \in Redemption
      BY <2>1, <2>2 DEF Redemption
    <2> QED
      BY <2>3 DEF cancelled
  <1> QED
    BY <1>1 DEF CancelledFor

Follows(d, e, id) ==
    /\ d.row = e.row /\ d.at = e.at /\ d.coupon = e.coupon
    /\ d.amount = e.amount /\ d.channel = e.channel
    /\ d.cancelled <=> e.cancelled \/ e.row = id

LEMMA CancelledFollows ==
    ASSUME NEW V, Shaped(V), NEW id
    PROVE  /\ \A d \in CancelledFor(id) : \E e \in redemptions : Follows(d, e, id)
           /\ \A e \in redemptions : \E d \in CancelledFor(id) : Follows(d, e, id)
           /\ IsFiniteSet(redemptions) => IsFiniteSet(CancelledFor(id))
           /\ (\A d, e \in redemptions : d.row = e.row => d = e) =>
                  \A d, e \in CancelledFor(id) : d.row = e.row => d = e
  <1> DEFINE After(d) == [d EXCEPT !.cancelled = @ \/ d.row = id]
             after == [d \in redemptions |-> After(d)]
  <1>0. redemptions \in SUBSET Redemption
    BY DEF Shaped, Stored
  <1>1. ASSUME NEW e \in redemptions
        PROVE  Follows(After(e), e, id)
    BY <1>0 DEF Redemption, Follows
  <1>2. CancelledFor(id) = {After(d) : d \in redemptions}
    BY DEF CancelledFor
  <1>3. CancelledFor(id) = {after[d] : d \in redemptions}
    BY <1>2
  <1> HIDE DEF after, After
  <1>4. IsFiniteSet(redemptions) => IsFiniteSet(CancelledFor(id))
    BY <1>3, ImageFinite
  <1>5. (\A d, e \in redemptions : d.row = e.row => d = e) =>
            \A d, e \in CancelledFor(id) : d.row = e.row => d = e
    BY <1>1, <1>2 DEF Follows
  <1> QED
    BY <1>1, <1>2, <1>4, <1>5

\* Business goes on.
LEMMA ShapeBusiness ==
    ASSUME NEW V, Shaped(V), Business
    PROVE  Shaped(V)'
  <1>0. /\ now \in Nat \ {0} /\ nextRow \in Nat \ {0}
        /\ rows \in SUBSET Row /\ redemptions \in SUBSET Redemption
        /\ unredeeming \in SUBSET Nat
        /\ coupons \in [Coupons -> {"AVAILABLE", "USED", "CANCELLED", "ABSENT"}]
    BY DEF Shaped, Stored
  <1>1. ASSUME NEW t \in Tenders, NEW c \in Coupons \cup {NoCoupon}, RecordPayment(t, c)
        PROVE  Shaped(V)'
    <2> DEFINE row == [id |-> nextRow, at |-> now, kind |-> t.kind, method |-> t.method,
                       channel |-> t.channel, amount |-> t.amount,
                       allocated |-> t.allocated, of |-> 0]
               red == [row |-> nextRow, at |-> now, coupon |-> c, channel |-> t.channel,
                       amount |-> t.amount, cancelled |-> FALSE]
    <2>1. row \in Row
      BY <1>0 DEF Row, Kinds, Channels, Methods
    <2>2. c # NoCoupon => red \in Redemption
      BY <1>0 DEF Redemption, Channels
    <2>3. rows' \in SUBSET Row
      BY <1>0, <1>1, <2>1 DEF RecordPayment
    <2>4. redemptions' \in SUBSET Redemption
      BY <1>0, <1>1, <2>2 DEF RecordPayment
    <2>5. coupons' \in [Coupons -> {"AVAILABLE", "USED", "CANCELLED", "ABSENT"}]
      BY <1>0, <1>1 DEF RecordPayment
    <2>6. nextRow' \in Nat \ {0}
      BY <1>0, <1>1 DEF RecordPayment
    <2> QED
      BY <1>1, <2>3, <2>4, <2>5, <2>6 DEF RecordPayment, closingVars, Shaped, Stored
  <1>2. ASSUME NEW p \in rows, NEW kind \in ReversalKinds, ReversePayment(p, kind)
        PROVE  Shaped(V)'
    <2> DEFINE row == [p EXCEPT !.id = nextRow, !.at = now, !.kind = kind, !.of = p.id]
    <2>1. row \in Row
      <3>1. /\ p \in Row /\ p.id \in Nat
            /\ nextRow \in Nat \ {0} /\ kind \in Kinds /\ now \in Nat
        BY <1>0 DEF Row, Kinds
      <3> QED
        BY <3>1 DEF Row
    <2>2. rows' \in SUBSET Row
      BY <1>0, <1>2, <2>1 DEF ReversePayment
    <2>3. redemptions' \in {redemptions, CancelledFor(p.id)}
      BY <1>2 DEF ReversePayment
    <2>4. redemptions' \in SUBSET Redemption
      BY <1>0, <2>3, CancelledShape
    <2>5. nextRow' = nextRow + 1
      BY <1>2 DEF ReversePayment
    <2>6. nextRow' \in Nat \ {0}
      BY <1>0, <2>5
    <2>7. unredeeming' \subseteq unredeeming \cup {p.id}
      BY <1>2 DEF ReversePayment
    <2>8. unredeeming' \in SUBSET Nat
      BY <1>0, <2>7 DEF Row
    <2> QED
      BY <1>2, <2>2, <2>4, <2>6, <2>8 DEF ReversePayment, closingVars, Shaped, Stored
  <1>3. ASSUME NEW id \in unredeeming, CancelRedemption(id)
        PROVE  Shaped(V)'
    <2>1. redemptions' \in SUBSET Redemption /\ unredeeming' \in SUBSET Nat
      BY <1>0, <1>3, CancelledShape DEF CancelRedemption
    <2> QED
      BY <1>3, <2>1 DEF CancelRedemption, closingVars, Shaped, Stored
  <1> QED
    BY <1>1, <1>2, <1>3 DEF Business

\* A set of numbers has a least one.
LEMMA LeastExists ==
    ASSUME NEW S, S \subseteq Nat, S # {}
    PROVE  \E least \in S : \A n \in S : least <= n
  <1> DEFINE R == OpToRel(<, Nat)
  <1>1. IsWellFoundedOn(R, Nat)
    BY NatLessThanWellFounded
  <1> HIDE DEF R
  <1>2. PICK least \in S : \A n \in S : ~ (<<n, least>> \in R)
    BY ONLY <1>1, WFMin, S \subseteq Nat, S # {}
  <1>3. \A n \in S : ~ (n < least)
    BY <1>2 DEF R, OpToRel
  <1> QED
    BY <1>3

\* A set of numbers below a bound has a greatest one: the one with the least gap.
LEMMA GreatestExists ==
    ASSUME NEW S, S \subseteq Nat, S # {}, NEW bound \in Nat, \A n \in S : n <= bound
    PROVE  \E greatest \in S : \A n \in S : n <= greatest
  <1> DEFINE Gaps == {m \in Nat : \E n \in S : m = bound - n}
  <1>1. \A n \in S : bound - n \in Gaps
    OBVIOUS
  <1>2. Gaps \subseteq Nat /\ Gaps # {}
    BY <1>1
  <1> HIDE DEF Gaps
  <1>3. PICK m \in Gaps : \A k \in Gaps : m <= k
    BY <1>2, LeastExists
  <1>4. PICK n \in S : m = bound - n
    BY <1>3 DEF Gaps
  <1> QED
    BY <1>1, <1>3, <1>4

\* What is a request with some figures is one with more of them.
LEMMA Widen ==
    ASSUME NEW V, NEW W, V \subseteq W
    PROVE  /\ Request(V) \subseteq Request(W)
           /\ Seq(SumsOf(V)) \subseteq Seq(SumsOf(W))
  <1>1. SumsOf(V) \subseteq SumsOf(W)
    BY DEF SumsOf
  <1>2. Request(V) \subseteq Request(W)
    BY <1>1 DEF Request
  <1>3. ASSUME NEW s \in Seq(SumsOf(V))
        PROVE  s \in Seq(SumsOf(W))
    <2>1. Len(s) \in Nat /\ s \in [1..Len(s) -> SumsOf(V)]
      BY LenProperties
    <2>2. s \in [1..Len(s) -> SumsOf(W)]
      BY <1>1, <2>1
    <2> QED
      BY <2>1, <2>2, SeqDef
  <1> QED
    BY <1>2, <1>3

\* The start of a window is a time of the past.
LEMMA WindowStarts ==
    ASSUME NEW V, Shaped(V), Dated
    PROVE  /\ WindowStart \in Nat /\ WindowStart <= now
           /\ closings # << >> => \E i \in DOMAIN closings : closings[i].upto = WindowStart
           /\ \A i \in DOMAIN closings : closings[i].upto <= WindowStart
           /\ closings = << >> => \A p \in rows : WindowStart <= p.at
  <1>a. /\ now \in Nat /\ rows \in SUBSET Row /\ closings \in Seq(SumsOf(V))
    BY DEF Shaped, Stored
  <1>b. /\ DOMAIN closings = 1..Len(closings) /\ Len(closings) \in Nat
        /\ \A i \in DOMAIN closings : closings[i] \in SumsOf(V)
    BY <1>a, LenProperties
  <1>c. closings # << >> => DOMAIN closings # {}
    <2>1. closings # << >> => Len(closings) # 0
      BY <1>a, EmptySeq
    <2>2. Len(closings) # 0 => 1 \in 1..Len(closings)
      BY <1>b
    <2> QED
      BY <1>b, <2>1, <2>2
  <1>0. /\ now \in Nat /\ rows \in SUBSET Row
        /\ \A i \in DOMAIN closings : closings[i].upto \in Nat
        /\ closings # << >> => DOMAIN closings # {}
    BY <1>a, <1>b, <1>c DEF SumsOf
  <1>d. closings = << >> => DOMAIN closings = {}
    BY EmptySeq, LenProperties
  <1>1. CASE closings # << >>
    <2> DEFINE S == {closings[i].upto : i \in DOMAIN closings}
    <2>1. S \subseteq Nat /\ S # {} /\ \A n \in S : n <= now
      BY <1>0, <1>1 DEF Dated
    <2> HIDE DEF S
    <2>2. \E greatest \in S : \A n \in S : n <= greatest
      BY <1>0, <2>1, GreatestExists
    <2>3. Max(S) \in S /\ \A n \in S : n <= Max(S)
      BY <2>1, <2>2 DEF Max
    <2>4. WindowStart = Max(S)
      BY <1>1 DEF WindowStart, S
    <2>5. \A i \in DOMAIN closings : closings[i].upto \in S
      BY DEF S
    <2> QED
      BY <1>1, <2>1, <2>3, <2>4, <2>5 DEF S
  <1>2. CASE closings = << >> /\ rows # {}
    <2> DEFINE S == {p.at : p \in rows}
    <2>1. S \subseteq Nat /\ S # {} /\ \A n \in S : n <= now
      BY <1>0, <1>2 DEF Dated, Row
    <2> HIDE DEF S
    <2>2. \E least \in S : \A n \in S : least <= n
      BY <2>1, LeastExists
    <2>3. Min(S) \in S /\ \A n \in S : Min(S) <= n
      BY <2>1, <2>2 DEF Min
    <2>4. WindowStart = Min(S)
      BY <1>2 DEF WindowStart, S
    <2>5. \A p \in rows : p.at \in S
      BY DEF S
    <2> QED
      BY <1>2, <1>d, <2>1, <2>3, <2>4, <2>5
  <1>3. CASE closings = << >> /\ rows = {}
    BY <1>0, <1>3, <1>d DEF WindowStart, StartOfToday
  <1> QED
    BY <1>1, <1>2, <1>3

\* What a request becomes.
LEMMA ReqMoves ==
    ASSUME NEW V, Shaped(V), NEW r \in Reqs, NEW x \in Request(V), req' = [req EXCEPT ![r] = x]
    PROVE  /\ req' \in [Reqs -> Request(V)] /\ req'[r] = x
           /\ \A q \in Reqs \ {r} : req'[q] = req[q]
  BY DEF Shaped, Stored

\* What a request is when it begins.
Begins(x) ==
    /\ x.step \in {"LOG", "SUMS", "VACUUM", "INSERT", "ANSWER", "CANCEL"}
    /\ x.step = "SUMS" =>
          /\ x.op = "CLOSE" /\ x.sums.from = WindowStart /\ x.sums.upto = now
          /\ x.sums.after = nextClosing /\ x.sums.counted = {}
    /\ x.step # "SUMS" => x.sums = NoSums
    /\ x.entry = "AUDIT_LOG_PURGE" => x.op = "PURGE"
    /\ x.step = "VACUUM" =>
          /\ x.time = now /\ \A f \in files : f.at # now
          /\ x.op \in {"BACKUP", "RESET"}
    /\ \/ x.scopes = {}
       \/ x.step = "VACUUM" /\ \E selected \in Wanted : x.scopes = ExpandScopes(selected)
    /\ x.step \in {"INSERT", "ANSWER"} =>
          /\ x.op = "ISSUE" /\ x.batch.key = issueKey /\ issueKey <= MaxKey
          /\ x.batch.count \in Quantities /\ x.batch.type \in {"AMOUNT", "ITEM"}

\* Beginning changes nothing else.
LEMMA Beginning ==
    ASSUME NEW V, Shaped(V), Dated, NEW r \in Reqs, Arrives(r)
    PROVE  \E x \in Request(V) :
              /\ req[r] = Idle /\ req' = [req EXCEPT ![r] = x] /\ Begins(x)
              /\ UNCHANGED <<now, ledgerVars, closingVars, log, nextLog, files>>
  <1>0. Idle \in Request(V)
    BY IdleShape DEF Shaped, Stored
  <1>a. /\ now \in Nat /\ now # 0 /\ issueKey \in Nat
        /\ WindowStart \in Nat
        /\ batches \in SUBSET Batch
    BY WindowStarts DEF Shaped, Stored
  <1>1. CASE Note(r)
    <2> DEFINE x == [Idle EXCEPT !.op = "NOTE", !.step = "LOG", !.entry = "OTHER"]
    <2>1. x \in Request(V) /\ Begins(x)
      BY <1>0 DEF Request, Operations, Steps, Entries, Idle, Begins
    <2> QED
      BY <1>1, <2>1 DEF Note, Begin
  <1>2. CASE CloseStarts(r)
    <2> DEFINE s == [NoSums EXCEPT !.from = WindowStart, !.upto = now, !.after = nextClosing]
               x == [Idle EXCEPT !.op = "CLOSE", !.step = "SUMS", !.sums = s]
    <2>1. /\ s \in SumsOf(V) /\ s.from = WindowStart /\ s.upto = now
          /\ s.after = nextClosing /\ s.counted = {}
      BY <1>a DEF SumsOf, NoSums, Shaped, Stored
    <2> HIDE DEF s
    <2>2. x \in Request(V) /\ Begins(x)
      BY <1>0, <2>1 DEF Request, Operations, Steps, Idle, Begins
    <2> QED
      BY <1>2, <2>2 DEF CloseStarts, Begin, s
  <1>3. CASE BackupStarts(r)
    <2> DEFINE x == [Idle EXCEPT !.op = "BACKUP", !.step = "VACUUM", !.time = now]
    <2>1. x \in Request(V)
      BY <1>0, <1>a DEF Request, Operations, Steps
    <2>2. Begins(x)
      BY <1>3 DEF BackupStarts, Idle, Begins
    <2> QED
      BY <1>3, <2>1, <2>2 DEF BackupStarts, Begin
  <1>4. ASSUME NEW before \in 2..(MaxTime + 1), PurgeStarts(r, before)
        PROVE  \E x \in Request(V) :
                  /\ req[r] = Idle /\ req' = [req EXCEPT ![r] = x] /\ Begins(x)
                  /\ UNCHANGED <<now, ledgerVars, closingVars, log, nextLog, files>>
    <2> DEFINE x == [Idle EXCEPT !.op = "PURGE", !.step = "LOG", !.time = before,
                                 !.entry = "AUDIT_LOG_PURGE"]
    <2>a. before \in Nat
      OBVIOUS
    <2>1. x \in Request(V) /\ Begins(x)
      BY <1>0, <2>a DEF Request, Operations, Steps, Entries, Idle, Begins
    <2> QED
      BY <1>4, <2>1 DEF PurgeStarts, Begin
  <1>5. ASSUME NEW selected \in Wanted, ResetStarts(r, selected)
        PROVE  \E x \in Request(V) :
                  /\ req[r] = Idle /\ req' = [req EXCEPT ![r] = x] /\ Begins(x)
                  /\ UNCHANGED <<now, ledgerVars, closingVars, log, nextLog, files>>
    <2> DEFINE scopes == ExpandScopes(selected)
               x == [Idle EXCEPT !.op = "RESET", !.step = "VACUUM", !.time = now,
                                 !.scopes = scopes]
    <2>1. scopes \subseteq Scopes
      <3>1. \A s \in Scopes : DependsOn[s] \subseteq Scopes
        BY DEF DependsOn, Scopes
      <3>2. selected \subseteq Scopes
        OBVIOUS
      <3> QED
        BY <3>1, <3>2 DEF ExpandScopes
    <2> HIDE DEF scopes
    <2>2. x \in Request(V)
      BY <1>0, <1>a, <2>1 DEF Request, Operations, Steps
    <2>3. Begins(x)
      BY <1>5 DEF ResetStarts, Idle, scopes, Begins
    <2> QED
      BY <1>5, <2>2, <2>3 DEF ResetStarts, Begin, scopes
  <1>6. ASSUME NEW type \in {"AMOUNT", "ITEM"}, NEW count \in Quantities,
               IssueStarts(r, type, count)
        PROVE  \E x \in Request(V) :
                  /\ req[r] = Idle /\ req' = [req EXCEPT ![r] = x] /\ Begins(x)
                  /\ UNCHANGED <<now, ledgerVars, closingVars, log, nextLog, files>>
    <2> DEFINE b == [NoBatch EXCEPT !.key = issueKey, !.type = type, !.count = count]
               step == IF HasBatch(issueKey) THEN "ANSWER" ELSE "INSERT"
               x == [Idle EXCEPT !.op = "ISSUE", !.step = step, !.batch = b]
    <2>a. count \in Nat
      BY DEF Coupons
    <2>1. b \in Batch /\ b.key = issueKey /\ b.count = count /\ b.type = type
      BY <1>a, <2>a DEF Batch, NoBatch
    <2>2. step \in {"ANSWER", "INSERT"}
      OBVIOUS
    <2>3. req[r] = Idle /\ req' = [req EXCEPT ![r] = x] /\ issueKey <= MaxKey
      BY <1>6 DEF IssueStarts, Begin
    <2> HIDE DEF b, step
    <2>4. x \in Request(V) /\ Begins(x)
      BY <1>0, <2>1, <2>2, <2>3 DEF Request, Operations, Steps, Idle, Begins
    <2> QED
      BY <1>6, <2>3, <2>4 DEF IssueStarts
  <1>7. ASSUME NEW b \in batches, NEW ids \in SUBSET Unused(b), CallIn(r, b, ids)
        PROVE  \E x \in Request(V) :
                  /\ req[r] = Idle /\ req' = [req EXCEPT ![r] = x] /\ Begins(x)
                  /\ UNCHANGED <<now, ledgerVars, closingVars, log, nextLog, files>>
    <2> DEFINE new == [NoBatch EXCEPT !.key = b.key, !.ids = ids]
               x == [Idle EXCEPT !.op = "CALL_IN", !.step = "CANCEL", !.batch = new]
    <2>1. new \in Batch
      BY <1>a DEF Batch, NoBatch, Unused
    <2>2. req[r] = Idle /\ req' = [req EXCEPT ![r] = x]
      BY <1>7 DEF CallIn, Begin
    <2> HIDE DEF new
    <2>3. x \in Request(V) /\ Begins(x)
      BY <1>0, <2>1 DEF Request, Operations, Steps, Idle, Begins
    <2> QED
      BY <1>7, <2>2, <2>3 DEF CallIn
  <1> QED
    BY <1>1, <1>2, <1>3, <1>4, <1>5, <1>6, <1>7 DEF Arrives, CouponDesk

\* An append takes up the latest record there is.
FollowsLatest(prev) ==
    IF log = {} THEN prev = Genesis ELSE \E l \in log : l.id = prev /\ \A m \in log : m.at <= l.at

\* How a request that is under way may go on.
Went(r, x) ==
    /\ x.scopes \in {req[r].scopes, {}}
    /\ x.step \notin {"VACUUM", "SUMS", "INSERT", "CANCEL"}
    /\ x.step = "PRUNE" =>
          req[r].step = "VACUUM" /\ x.time = req[r].time /\ \E f \in files' : f.at = x.time
    /\ x.step = "APPEND" => AppendReads(r) /\ x.at = now /\ FollowsLatest(x.prev)
    /\ x.step = "PURGE" =>
          /\ AppendWrites(r) /\ req[r].entry = "AUDIT_LOG_PURGE" /\ x.time = req[r].time
    /\ x.entry = "AUDIT_LOG_PURGE" => req[r].entry = x.entry /\ req[r].op = x.op
    /\ x.step \in {"LOG", "APPEND", "DELETE"} /\ x.scopes # {} =>
          \/ req[r].step \in {"LOG", "APPEND"} /\ UNCHANGED files
          \/ Prune(r) /\ \E f \in files : f.at = req[r].time
    /\ x.step = "ALLOCATIONS" =>
          /\ req[r].step = "SUMS"
          /\ x.sums.counted = {p.id : p \in InWindow(rows, x.sums.from, x.sums.upto)}
    /\ x.step = "RECORD" =>
          req[r].step = "ALLOCATIONS" /\ x.sums.counted = req[r].sums.counted
    /\ x.step \in {"ALLOCATIONS", "RECORD"} =>
          /\ x.sums.from = req[r].sums.from /\ x.sums.upto = req[r].sums.upto
          /\ x.sums.after = req[r].sums.after
    /\ x.sums.upto \in {0, req[r].sums.upto}

\* A request that is done went no further, whatever it did.
LEMMA IdleWent == ASSUME NEW r PROVE Went(r, Idle)
  BY DEF Went, Idle, NoSums

\* Recording what was done.
LEMMA LogsWent ==
    ASSUME NEW V, Shaped(V), NEW r \in Reqs, NEW entry \in Entries \ {"AUDIT_LOG_PURGE"},
           Logs(r, entry),
           entry = "DB_BACKUP_CREATED" => Prune(r) /\ \E f \in files : f.at = req[r].time
    PROVE  \E x \in Request(V) : req' = [req EXCEPT ![r] = x] /\ Went(r, x) /\ x.step = "LOG"
  <1> DEFINE scopes == IF entry = "DB_BACKUP_CREATED" THEN req[r].scopes ELSE {}
             x == [Idle EXCEPT !.op = req[r].op, !.step = "LOG", !.entry = entry, !.scopes = scopes]
  <1>0. req[r] \in Request(V) /\ Idle \in Request(V)
    BY IdleShape DEF Shaped, Stored
  <1>1. scopes \in {req[r].scopes, {}} /\ scopes \subseteq Scopes
    BY <1>0 DEF Request
  <1>2. scopes # {} => Prune(r) /\ \E f \in files : f.at = req[r].time
    OBVIOUS
  <1>3. req' = [req EXCEPT ![r] = x]
    BY DEF Logs
  <1> HIDE DEF scopes
  <1>4. x \in Request(V)
    BY <1>0, <1>1 DEF Request, Steps
  <1>5. x.step = "LOG" /\ x.scopes = scopes /\ x.sums = NoSums /\ x.entry # "AUDIT_LOG_PURGE"
    BY DEF Idle
  <1> HIDE DEF x
  <1>6. Went(r, x)
    BY <1>1, <1>2, <1>5 DEF Went, NoSums
  <1> QED
    BY <1>3, <1>4, <1>5, <1>6

\* The audit log.
LEMMA AppendingWent ==
    ASSUME NEW V, Shaped(V), NEW r \in Reqs, AppendReads(r) \/ AppendWrites(r) \/ PurgeDeletes(r)
    PROVE  \E x \in Request(V) : req' = [req EXCEPT ![r] = x] /\ Went(r, x)
  <1>0. /\ req[r] \in Request(V) /\ Idle \in Request(V) /\ req \in [Reqs -> Request(V)]
        /\ now \in Nat /\ log \in SUBSET LogRow
    BY IdleShape DEF Shaped, Stored
  <1>1. CASE AppendReads(r)
    <2>1. PICK prev \in IF log = {} THEN {Genesis} ELSE {l.id : l \in Latest(log)} :
              req' = [req EXCEPT ![r].step = "APPEND", ![r].prev = prev, ![r].at = now]
      BY <1>1 DEF AppendReads
    <2> DEFINE x == [req[r] EXCEPT !.step = "APPEND", !.prev = prev, !.at = now]
    <2>2. prev \in Nat /\ FollowsLatest(prev)
      BY <1>0, <2>1 DEF Latest, LogRow, Genesis, FollowsLatest
    <2>3. x \in Request(V)
      BY <1>0, <2>2 DEF Request, Steps
    <2>4. Went(r, x)
      <3>1. /\ x.step = "APPEND" /\ x.scopes = req[r].scopes /\ x.sums = req[r].sums
            /\ x.prev = prev /\ x.at = now /\ x.entry = req[r].entry /\ x.op = req[r].op
        BY <1>0 DEF Request
      <3> HIDE DEF x
      <3> QED
        BY <1>1, <2>2, <3>1 DEF Went, AppendReads
    <2>5. req' = [req EXCEPT ![r] = x]
      BY <1>0, <2>1 DEF Request
    <2> QED
      BY <2>3, <2>4, <2>5
  <1>2. CASE AppendWrites(r)
    <2> DEFINE next == CASE req[r].entry = "AUDIT_LOG_PURGE" -> "PURGE"
                         [] req[r].scopes # {} -> "DELETE"
                         [] req[r].op = "ISSUE" -> "ANSWER"
                         [] OTHER -> "NONE"
               x == [req[r] EXCEPT !.step = next, !.entry = "NONE", !.prev = 0, !.at = 0]
    <2>1. /\ next \in {"PURGE", "DELETE", "ANSWER", "NONE"}
          /\ next = "PURGE" => req[r].entry = "AUDIT_LOG_PURGE"
      OBVIOUS
    <2>2. req' = [req EXCEPT ![r] = IF next = "NONE" THEN Idle ELSE x]
      BY <1>2 DEF AppendWrites
    <2> HIDE DEF next
    <2>3. x \in Request(V)
      BY <1>0, <2>1 DEF Request, Steps, Entries
    <2>4. Went(r, x)
      <3>1. /\ x.step = next /\ x.scopes = req[r].scopes /\ x.sums = req[r].sums
            /\ x.entry = "NONE" /\ x.time = req[r].time
        BY <1>0 DEF Request
      <3>2. req[r].step = "APPEND" /\ UNCHANGED files
        BY <1>2 DEF AppendWrites
      <3> HIDE DEF x
      <3> QED
        BY <1>2, <2>1, <3>1, <3>2 DEF Went
    <2> QED
      BY <1>0, <2>2, <2>3, <2>4, IdleWent
  <1>3. CASE PurgeDeletes(r)
    BY <1>0, <1>3, IdleWent DEF PurgeDeletes, Done
  <1> QED
    BY <1>1, <1>2, <1>3

\* Closing the day: what is added up joins the figures.
LEMMA ClosingWent ==
    ASSUME NEW V, Shaped(V), NEW r \in Reqs,
           \/ CloseSums(r) \/ CloseRecords(r)
           \/ \E refused \in BOOLEAN : CloseAllocations(r, refused)
    PROVE  \E W : V \subseteq W /\ \E x \in Request(W) : req' = [req EXCEPT ![r] = x] /\ Went(r, x)
  <1>0. req[r] \in Request(V) /\ Idle \in Request(V) /\ req[r].sums \in SumsOf(V)
    BY IdleShape DEF Shaped, Stored, Request
  <1>a. now \in Nat /\ rows \in SUBSET Row /\ req \in [Reqs -> Request(V)]
    BY DEF Shaped, Stored
  <1>1. CASE CloseSums(r)
    <2> DEFINE s == req[r].sums
               sum == Summary(rows, s.from, s.upto)
               counted == {p.id : p \in InWindow(rows, s.from, s.upto)}
               revenue == Revenue(sum)
               cash == ExpectedCash(sum)
               W == V \cup {revenue, cash}
               sums == [s EXCEPT !.revenue = revenue, !.cash = cash, !.counted = counted]
               x == [req[r] EXCEPT !.step = "ALLOCATIONS", !.sums = sums]
    <2>1. counted \subseteq Nat
      BY <1>a DEF InWindow, Row
    <2>2. req' = [req EXCEPT ![r].step = "ALLOCATIONS", ![r].sums = Sums(req[r].sums)]
      BY <1>1 DEF CloseSums
    <2>3. Sums(req[r].sums) = sums /\ req[r].step = "SUMS"
      BY <1>1 DEF Sums, CloseSums
    <2>4. counted = {p.id : p \in InWindow(rows, s.from, s.upto)}
      OBVIOUS
    <2> HIDE DEF revenue, cash, counted
    <2>5. sums \in SumsOf(W)
      BY <1>0, <2>1 DEF SumsOf
    <2>6. /\ sums.from = s.from /\ sums.upto = s.upto /\ sums.counted = counted
          /\ sums.after = s.after
      BY <1>0 DEF SumsOf
    <2> HIDE DEF sums, W
    <2>7. req[r] \in Request(W)
      BY <1>0, Widen DEF W
    <2>8. x \in Request(W)
      BY <2>5, <2>7 DEF Request, Steps
    <2>9. /\ x.step = "ALLOCATIONS" /\ x.scopes = req[r].scopes /\ x.sums = sums
          /\ x.entry = req[r].entry /\ x.op = req[r].op
      BY <1>0 DEF Request
    <2>10. req' = [req EXCEPT ![r] = x]
      BY <1>a, <2>2, <2>3 DEF Request
    <2> HIDE DEF x
    <2>11. Went(r, x)
      BY <2>3, <2>4, <2>6, <2>9 DEF Went
    <2> QED
      BY <2>8, <2>10, <2>11 DEF W
  <1>2. CASE CloseRecords(r)
    <2>1. \E x \in Request(V) : req' = [req EXCEPT ![r] = x] /\ Went(r, x)
      BY <1>2, LogsWent DEF CloseRecords, Entries
    <2> QED
      BY <2>1
  <1>3. ASSUME NEW refused \in BOOLEAN, CloseAllocations(r, refused)
        PROVE  \E W : V \subseteq W
                      /\ \E x \in Request(W) : req' = [req EXCEPT ![r] = x] /\ Went(r, x)
    <2>1. CASE refused
      BY <1>0, <1>3, <2>1, IdleWent DEF CloseAllocations, Done
    <2>2. CASE ~refused
      <3> DEFINE s == req[r].sums
                 menu == MenuPaid(rows, s.from, s.upto)
                 W == V \cup {menu}
                 sums == [s EXCEPT !.menu = menu]
                 x == [req[r] EXCEPT !.step = "RECORD", !.sums = sums]
      <3>1. /\ req' = [req EXCEPT ![r].step = "RECORD", ![r].sums.menu = menu]
            /\ req[r].step = "ALLOCATIONS"
        BY <1>3, <2>2 DEF CloseAllocations
      <3> HIDE DEF menu
      <3>2. sums \in SumsOf(W)
        BY <1>0 DEF SumsOf
      <3>3. /\ sums.from = s.from /\ sums.upto = s.upto /\ sums.counted = s.counted
            /\ sums.after = s.after
        BY <1>0 DEF SumsOf
      <3>4. req' = [req EXCEPT ![r] = x]
        <4>1. req[r] \in Request(V) /\ req \in [DOMAIN req -> Request(V)] /\ r \in DOMAIN req
          BY <1>a
        <4>2. req'[r] = [req[r] EXCEPT !.step = "RECORD", !.sums.menu = menu]
          BY <3>1, <4>1
        <4>3. [req[r] EXCEPT !.step = "RECORD", !.sums.menu = menu] = x
          BY Zenon
        <4>4. \A q \in DOMAIN req \ {r} : req'[q] = req[q]
          BY <3>1, <4>1
        <4> QED
          BY <3>1, <4>1, <4>2, <4>3, <4>4
      <3> HIDE DEF sums, W
      <3>5. req[r] \in Request(W)
        BY <1>0, Widen DEF W
      <3>6. x \in Request(W)
        BY <3>2, <3>5 DEF Request, Steps
      <3>7. /\ x.step = "RECORD" /\ x.scopes = req[r].scopes /\ x.sums = sums
            /\ x.entry = req[r].entry /\ x.op = req[r].op
        BY <1>0 DEF Request
      <3> HIDE DEF x
      <3>8. Went(r, x)
        BY <3>1, <3>3, <3>7 DEF Went
      <3> QED
        BY <3>4, <3>6, <3>8 DEF W
    <2> QED
      BY <2>1, <2>2
  <1> QED
    BY <1>1, <1>2, <1>3

\* A request that goes to a later step, and keeps the rest.
LEMMA GoesTo ==
    ASSUME NEW V, Shaped(V), NEW r \in Reqs, NEW step \in {"PRUNE", "ANSWER"}, Goes(r, step),
           step = "PRUNE" => req[r].step = "VACUUM" /\ \E f \in files' : f.at = req[r].time
    PROVE  \E x \in Request(V) : req' = [req EXCEPT ![r] = x] /\ Went(r, x)
  <1> DEFINE x == [req[r] EXCEPT !.step = step]
  <1>0. req[r] \in Request(V) /\ req \in [Reqs -> Request(V)]
    BY DEF Shaped, Stored
  <1>1. x \in Request(V)
    BY <1>0 DEF Request, Steps
  <1>2. req' = [req EXCEPT ![r] = x]
    BY <1>0 DEF Goes, Request
  <1>3. /\ x.step = step /\ x.scopes = req[r].scopes /\ x.sums = req[r].sums
        /\ x.time = req[r].time /\ x.entry = req[r].entry /\ x.op = req[r].op
    BY <1>0 DEF Request
  <1> HIDE DEF x
  <1>4. Went(r, x)
    BY <1>3 DEF Went
  <1> QED
    BY <1>1, <1>2, <1>4

\* Backups, the reset and the coupon desk.
LEMMA WorkingWent ==
    ASSUME NEW V, Shaped(V), NEW r \in Reqs,
           \/ Vacuum(r) \/ VacuumFails(r) \/ Prune(r) \/ ResetDeletes(r)
           \/ IssueCommits(r) \/ CancelCoupons(r)
           \/ \E lost \in BOOLEAN : IssueAnswered(r, lost)
    PROVE  \E x \in Request(V) : req' = [req EXCEPT ![r] = x] /\ Went(r, x)
  <1>0. Idle \in Request(V)
    BY IdleShape DEF Shaped, Stored
  <1>1. CASE Done(r)
    BY <1>0, <1>1, IdleWent DEF Done
  <1>2. CASE Vacuum(r)
    <2>1. CASE \E f \in files : f.at = req[r].time
      BY <1>1, <1>2, <2>1 DEF Vacuum
    <2>2. CASE ~ \E f \in files : f.at = req[r].time
      <3> DEFINE f == [at |-> req[r].time, holds |-> {p.id : p \in rows}]
      <3>1. files' = files \cup {f} /\ Goes(r, "PRUNE") /\ req[r].step = "VACUUM"
        BY <1>2, <2>2 DEF Vacuum
      <3>2. f \in files' /\ f.at = req[r].time
        BY <3>1
      <3> QED
        BY <3>1, <3>2, GoesTo
    <2> QED
      BY <2>1, <2>2
  <1>3. CASE VacuumFails(r)
    BY <1>1, <1>3 DEF VacuumFails
  <1>4. CASE Prune(r)
    BY <1>1, <1>4, LogsWent DEF Prune, Entries
  <1>5. CASE ResetDeletes(r)
    <2>1. Logs(r, "DATA_RESET")
      BY <1>5 DEF ResetDeletes
    <2> QED
      BY <2>1, LogsWent DEF Entries
  <1>6. CASE IssueCommits(r)
    <2>1. Done(r) \/ Goes(r, "ANSWER") \/ Logs(r, "COUPON_BATCH_ISSUED")
      BY <1>6 DEF IssueCommits
    <2> QED
      BY <1>1, <2>1, GoesTo, LogsWent DEF Entries
  <1>7. CASE CancelCoupons(r)
    BY <1>7, LogsWent DEF CancelCoupons, Entries
  <1>8. CASE \E lost \in BOOLEAN : IssueAnswered(r, lost)
    BY <1>1, <1>8 DEF IssueAnswered
  <1> QED
    BY <1>2, <1>3, <1>4, <1>5, <1>6, <1>7, <1>8

\* Whatever goes on, goes on as Went says.
LEMMA Continuing ==
    ASSUME NEW V, Shaped(V), NEW r \in Reqs, Continues(r)
    PROVE  \E W : V \subseteq W /\ \E x \in Request(W) : req' = [req EXCEPT ![r] = x] /\ Went(r, x)
  <1>1. CASE AppendReads(r) \/ AppendWrites(r) \/ PurgeDeletes(r)
    BY <1>1, AppendingWent
  <1>2. CASE \/ CloseSums(r) \/ CloseRecords(r)
             \/ \E refused \in BOOLEAN : CloseAllocations(r, refused)
    BY <1>2, ClosingWent
  <1>3. CASE \/ Vacuum(r) \/ VacuumFails(r) \/ Prune(r) \/ ResetDeletes(r)
             \/ IssueCommits(r) \/ CancelCoupons(r)
             \/ \E lost \in BOOLEAN : IssueAnswered(r, lost)
    BY <1>3, WorkingWent
  <1> QED
    BY <1>1, <1>2, <1>3 DEF Continues

\* Recording a closing only numbers its figures.
LEMMA RecordedSame ==
    ASSUME NEW V, Shaped(V), NEW s \in SumsOf(V)
    PROVE  /\ Recorded(s) \in SumsOf(V) /\ Recorded(s).id = nextClosing
           /\ Recorded(s).from = s.from /\ Recorded(s).upto = s.upto
           /\ Recorded(s).revenue = s.revenue /\ Recorded(s).cash = s.cash
           /\ Recorded(s).menu = s.menu /\ Recorded(s).counted = s.counted
           /\ Recorded(s).after = s.after
  BY DEF Shaped, Stored, SumsOf, Recorded

\* What goes on leaves everything stored in its shape.
LEMMA StoredContinues ==
    ASSUME NEW V, Shaped(V), NEW r \in Reqs, Continues(r)
    PROVE  Stored(V)'
  <1>0. /\ req[r] \in Request(V)
        /\ now \in Nat /\ nextLog \in Nat \ {0} /\ issueKey \in Nat
        /\ rows \in SUBSET Row /\ redemptions \in SUBSET Redemption
        /\ coupons \in [Coupons -> {"AVAILABLE", "USED", "CANCELLED", "ABSENT"}]
        /\ batches \in SUBSET Batch /\ catalogue \in SUBSET Everything
        /\ log \in SUBSET LogRow /\ files \in SUBSET File
        /\ closings \in Seq(SumsOf(V)) /\ nextClosing \in Nat \ {0}
    BY DEF Shaped, Stored
  <1>a. /\ req[r].time \in Nat /\ req[r].at \in Nat /\ req[r].prev \in Nat
        /\ req[r].entry \in Entries /\ req[r].batch \in Batch /\ req[r].sums \in SumsOf(V)
    BY <1>0 DEF Request
  <1>1. CASE AppendReads(r) \/ CloseSums(r) \/ \E refused \in BOOLEAN : CloseAllocations(r, refused)
    BY <1>1 DEF AppendReads, CloseSums, CloseAllocations, ledgerVars, closingVars, Shaped, Stored
  <1>2. CASE AppendWrites(r)
    <2> DEFINE l == [id |-> nextLog, at |-> req[r].at, action |-> req[r].entry,
                     prev |-> req[r].prev,
                     before |-> IF req[r].op = "PURGE" THEN req[r].time ELSE 0]
    <2>1. l \in LogRow
      BY <1>0, <1>a DEF LogRow
    <2>2. log' = log \cup {l} /\ nextLog' = nextLog + 1
      BY <1>2 DEF AppendWrites
    <2> HIDE DEF l
    <2>3. log' \in SUBSET LogRow /\ nextLog' \in Nat \ {0}
      BY <1>0, <2>1, <2>2
    <2> QED
      BY <1>2, <2>3 DEF AppendWrites, ledgerVars, closingVars, Shaped, Stored
  <1>3. CASE PurgeDeletes(r)
    <2>1. log' \in SUBSET LogRow
      BY <1>0, <1>3 DEF PurgeDeletes
    <2> QED
      BY <1>3, <2>1 DEF PurgeDeletes, ledgerVars, closingVars, Shaped, Stored
  <1>4. CASE CloseRecords(r)
    <2>1. closings' = Append(closings, Recorded(req[r].sums)) /\ nextClosing' = nextClosing + 1
      BY <1>4 DEF CloseRecords
    <2>2. closings' \in Seq(SumsOf(V)) /\ nextClosing' \in Nat \ {0}
      BY <1>0, <1>a, <2>1, AppendProperties, RecordedSame
    <2> QED
      BY <1>4, <2>2 DEF CloseRecords, ledgerVars, closingVars, Shaped, Stored
  <1>5. CASE Vacuum(r) \/ VacuumFails(r) \/ Prune(r)
    <2> DEFINE f == [at |-> req[r].time, holds |-> {p.id : p \in rows}]
    <2>1. f \in File
      BY <1>0, <1>a DEF File, Row
    <2>2. files' \subseteq files \cup {f}
      BY <1>5 DEF Vacuum, VacuumFails, Prune
    <2> HIDE DEF f
    <2>3. files' \in SUBSET File
      BY <1>0, <2>1, <2>2
    <2> QED
      BY <1>5, <2>3 DEF Vacuum, VacuumFails, Prune, ledgerVars, closingVars, Shaped, Stored
  <1>6. CASE ResetDeletes(r)
    <2>1. rows' \in SUBSET Row
      BY <1>0, <1>6 DEF ResetDeletes
    <2>2. redemptions' \in SUBSET Redemption
      BY <1>0, <1>6 DEF ResetDeletes
    <2>3. coupons' \in [Coupons -> {"AVAILABLE", "USED", "CANCELLED", "ABSENT"}]
      BY <1>0, <1>6 DEF ResetDeletes, Restored
    <2>4. batches' \in SUBSET Batch
      BY <1>0, <1>6 DEF ResetDeletes
    <2>5. closings' \in Seq(SumsOf(V))
      BY <1>0, <1>6, EmptySeq DEF ResetDeletes
    <2>6. catalogue' \in SUBSET Everything
      BY <1>0, <1>6 DEF ResetDeletes
    <2> QED
      BY <1>6, <2>1, <2>2, <2>3, <2>4, <2>5, <2>6 DEF ResetDeletes, Shaped, Stored
  <1>7. CASE IssueCommits(r)
    <2> DEFINE codes == AllocateCodes(req[r].batch.count)
               b == [req[r].batch EXCEPT !.ids = codes]
    <2>1. codes \subseteq Coupons
      BY DEF AllocateCodes
    <2>2. \/ UNCHANGED <<coupons, batches>>
          \/ /\ batches' = batches \cup {b}
             /\ coupons' = [c \in Coupons |-> IF c \in codes THEN "AVAILABLE" ELSE coupons[c]]
      BY <1>7 DEF IssueCommits
    <2> HIDE DEF codes
    <2>3. b \in Batch
      BY <1>a, <2>1 DEF Batch
    <2> HIDE DEF b
    <2>4. /\ batches' \in SUBSET Batch
          /\ coupons' \in [Coupons -> {"AVAILABLE", "USED", "CANCELLED", "ABSENT"}]
      BY <1>0, <2>2, <2>3
    <2> QED
      BY <1>7, <2>4 DEF IssueCommits, closingVars, Shaped, Stored
  <1>8. CASE CancelCoupons(r)
    <2>1. coupons' \in [Coupons -> {"AVAILABLE", "USED", "CANCELLED", "ABSENT"}]
      BY <1>0, <1>8 DEF CancelCoupons, Cancelled
    <2> QED
      BY <1>8, <2>1 DEF CancelCoupons, closingVars, Shaped, Stored
  <1>9. ASSUME NEW lost \in BOOLEAN, IssueAnswered(r, lost)
        PROVE  Stored(V)'
    <2>1. issueKey' \in Nat
      BY <1>0, <1>9 DEF IssueAnswered
    <2> QED
      BY <1>9, <2>1 DEF IssueAnswered, closingVars, Shaped, Stored
  <1> QED
    BY <1>1, <1>2, <1>3, <1>4, <1>5, <1>6, <1>7, <1>8, <1>9 DEF Continues

\* Every step keeps the shapes.
LEMMA ShapedKept ==
    ASSUME NEW V, Shaped(V), Dated, [Next]_vars
    PROVE  \E W : Shaped(W)'
  <1>1. CASE Business
    BY <1>1, ShapeBusiness
  <1>2. ASSUME NEW r \in Reqs, Arrives(r)
        PROVE  \E W : Shaped(W)'
    <2>1. PICK x \in Request(V) :
              /\ req' = [req EXCEPT ![r] = x]
              /\ UNCHANGED <<now, ledgerVars, closingVars, log, nextLog, files>>
      BY <1>2, Beginning
    <2>2. req' \in [Reqs -> Request(V)]
      BY <2>1, ReqMoves
    <2>3. Shaped(V)'
      BY <2>1, <2>2 DEF Shaped, Stored, ledgerVars, closingVars
    <2> QED
      BY <2>3
  <1>3. ASSUME NEW r \in Reqs, Continues(r)
        PROVE  \E W : Shaped(W)'
    <2>1. PICK W : V \subseteq W /\ \E x \in Request(W) : req' = [req EXCEPT ![r] = x]
      BY <1>3, Continuing
    <2>2. PICK x \in Request(W) : req' = [req EXCEPT ![r] = x]
      BY <2>1
    <2>3. req' \in [Reqs -> Request(W)]
      <3>1. req \in [Reqs -> Request(V)] /\ Request(V) \subseteq Request(W)
        BY <2>1, Widen DEF Shaped
      <3> QED
        BY <2>2, <3>1
    <2>4. Stored(W)'
      <3>1. Stored(V)'
        BY <1>3, StoredContinues
      <3>2. Seq(SumsOf(V)) \subseteq Seq(SumsOf(W))
        BY <2>1, Widen
      <3> QED
        BY <2>1, <3>1, <3>2 DEF Stored
    <2>5. Shaped(W)'
      BY <2>3, <2>4 DEF Shaped
    <2> QED
      BY <2>5
  <1>4. CASE Tick \/ Restart \/ UNCHANGED vars
    <2>1. req' \in [Reqs -> Request(V)]
      <3>1. Idle \in Request(V)
        BY IdleShape DEF Shaped, Stored
      <3> QED
        BY <1>4, <3>1 DEF Tick, Restart, vars, ledgerVars, closingVars, Shaped
    <2>a. now \in Nat \ {0} /\ unredeeming \in SUBSET Nat
      BY DEF Shaped, Stored
    <2>b. now' \in {now, now + 1} /\ unredeeming' \in {unredeeming, {}}
      BY <1>4 DEF Tick, Restart, vars, ledgerVars
    <2>2. now' \in Nat \ {0} /\ unredeeming' \in SUBSET Nat
      BY <2>a, <2>b
    <2>3. Shaped(V)'
      BY ZenonT(60), <1>4, <2>1, <2>2
         DEF Tick, Restart, vars, ledgerVars, closingVars, Shaped, Stored
    <2> QED
      BY <2>3
  <1> QED
    BY <1>1, <1>2, <1>3, <1>4 DEF Next

-----------------------------------------------------------------------------
(* What a step changes.                                                    *)

recorded == <<rows, nextRow, redemptions, coupons, batches, issueKey, catalogue>>

\* Who writes what.
LEMMA Frames ==
    ASSUME [Next]_vars
    PROVE  /\ \/ UNCHANGED recorded /\ unredeeming' \in {unredeeming, {}}
              \/ \E t \in Tenders, c \in Coupons \cup {NoCoupon} : RecordPayment(t, c)
              \/ \E p \in rows, kind \in ReversalKinds : ReversePayment(p, kind)
              \/ \E id \in unredeeming : CancelRedemption(id)
              \/ \E r \in Reqs : ResetDeletes(r) \/ IssueCommits(r) \/ CancelCoupons(r)
              \/ \E r \in Reqs, lost \in BOOLEAN : IssueAnswered(r, lost)
           /\ UNCHANGED closingVars \/ \E r \in Reqs : CloseRecords(r) \/ ResetDeletes(r)
           /\ UNCHANGED <<log, nextLog>> \/ \E r \in Reqs : AppendWrites(r) \/ PurgeDeletes(r)
           /\ UNCHANGED files \/ \E r \in Reqs : Vacuum(r) \/ VacuumFails(r) \/ Prune(r)
           /\ UNCHANGED now \/ (now < MaxTime /\ now' = now + 1)
  <1>1. CASE Business
    BY ZenonT(60), <1>1 DEF Business, RecordPayment, ReversePayment, CancelRedemption
  <1>2. ASSUME NEW r \in Reqs, Arrives(r)
        PROVE  UNCHANGED <<now, ledgerVars, closingVars, log, nextLog, files>>
    BY ZenonT(60), <1>2 DEF Arrives, Note, CloseStarts, BackupStarts, PurgeStarts, ResetStarts,
                            CouponDesk, IssueStarts, CallIn
  <1>3. ASSUME NEW r \in Reqs, AppendReads(r) \/ AppendWrites(r) \/ PurgeDeletes(r)
        PROVE  /\ UNCHANGED <<now, ledgerVars, closingVars, files>>
               /\ UNCHANGED <<log, nextLog>> \/ AppendWrites(r) \/ PurgeDeletes(r)
    BY <1>3 DEF AppendReads, AppendWrites, PurgeDeletes
  <1>4. ASSUME NEW r \in Reqs,
               \/ CloseSums(r) \/ CloseRecords(r)
               \/ \E refused \in BOOLEAN : CloseAllocations(r, refused)
        PROVE  /\ UNCHANGED <<now, ledgerVars, log, nextLog, files>>
               /\ UNCHANGED closingVars \/ CloseRecords(r)
    BY <1>4 DEF CloseSums, CloseRecords, CloseAllocations
  <1>5. ASSUME NEW r \in Reqs, Vacuum(r) \/ VacuumFails(r) \/ Prune(r)
        PROVE  UNCHANGED <<now, ledgerVars, closingVars, log, nextLog>>
    BY <1>5 DEF Vacuum, VacuumFails, Prune
  <1>6. ASSUME NEW r \in Reqs,
               \/ IssueCommits(r) \/ CancelCoupons(r)
               \/ \E lost \in BOOLEAN : IssueAnswered(r, lost)
        PROVE  UNCHANGED <<now, closingVars, log, nextLog, files>>
    BY <1>6 DEF IssueCommits, CancelCoupons, IssueAnswered
  <1>7. ASSUME NEW r \in Reqs, ResetDeletes(r)
        PROVE  UNCHANGED <<now, log, nextLog, files>>
    BY <1>7 DEF ResetDeletes
  <1>8. CASE Tick
    BY <1>8 DEF Tick, ledgerVars, recorded
  <1>9. CASE Restart \/ UNCHANGED vars
    BY <1>9 DEF Restart, vars, ledgerVars, closingVars, recorded
  <1>10. UNCHANGED ledgerVars => UNCHANGED recorded /\ UNCHANGED unredeeming
    BY DEF ledgerVars, recorded
  <1> QED
    BY ZenonT(60), <1>1, <1>2, <1>3, <1>4, <1>5, <1>6, <1>7, <1>8, <1>9, <1>10
       DEF Next, Continues

\* A request stays, ends, begins or goes on.
LEMMA RequestsMove ==
    ASSUME NEW V, Shaped(V), Dated, [Next]_vars, NEW q \in Reqs
    PROVE  \/ req'[q] = req[q]
           \/ req'[q] = Idle
           \/ /\ req[q] = Idle /\ Begins(req'[q])
              /\ UNCHANGED <<now, ledgerVars, closingVars, log, nextLog, files>>
           \/ Continues(q) /\ Went(q, req'[q])
  <1>0. req \in [Reqs -> Request(V)]
    BY DEF Shaped
  <1>1. CASE Business
    BY <1>1 DEF Business, RecordPayment, ReversePayment, CancelRedemption
  <1>2. ASSUME NEW r \in Reqs, Arrives(r)
        PROVE  \/ req'[q] = req[q]
               \/ /\ req[q] = Idle /\ Begins(req'[q])
                  /\ UNCHANGED <<now, ledgerVars, closingVars, log, nextLog, files>>
    <2>1. PICK x : /\ req[r] = Idle /\ req' = [req EXCEPT ![r] = x] /\ Begins(x)
                   /\ UNCHANGED <<now, ledgerVars, closingVars, log, nextLog, files>>
      BY <1>2, Beginning
    <2> QED
      BY <1>0, <2>1
  <1>3. ASSUME NEW r \in Reqs, Continues(r)
        PROVE  req'[q] = req[q] \/ (Continues(q) /\ Went(q, req'[q]))
    <2>1. PICK x : req' = [req EXCEPT ![r] = x] /\ Went(r, x)
      BY <1>3, Continuing
    <2>2. CASE q = r
      <3>1. req'[q] = x
        BY <1>0, <2>1, <2>2
      <3> QED
        BY <1>3, <2>1, <2>2, <3>1
    <2>a. req' = [req EXCEPT ![r] = x]
      BY <2>1
    <2>3. CASE q # r
      BY <1>0, <2>a, <2>3
    <2> QED
      BY <2>2, <2>3
  <1>4. CASE Tick \/ Restart \/ UNCHANGED vars
    BY <1>4 DEF Tick, Restart, vars, ledgerVars, closingVars
  <1> QED
    BY <1>1, <1>2, <1>3, <1>4 DEF Next

\* Rows come with the next number and the present time, and go only by a reset.
LEMMA RowsMove ==
    ASSUME NEW V, Shaped(V), [Next]_vars
    PROVE  \/ rows' \subseteq rows /\ nextRow' = nextRow
           \/ \E row \in Row : /\ rows' = rows \cup {row} /\ nextRow' = nextRow + 1
                               /\ row.id = nextRow /\ row.at = now
  <1>0. now \in Nat /\ nextRow \in Nat \ {0} /\ rows \in SUBSET Row
    BY DEF Shaped, Stored
  <1>1. ASSUME NEW t \in Tenders, NEW c \in Coupons \cup {NoCoupon}, RecordPayment(t, c)
        PROVE  \E row \in Row : /\ rows' = rows \cup {row} /\ nextRow' = nextRow + 1
                                /\ row.id = nextRow /\ row.at = now
    <2> DEFINE row == [id |-> nextRow, at |-> now, kind |-> t.kind, method |-> t.method,
                       channel |-> t.channel, amount |-> t.amount,
                       allocated |-> t.allocated, of |-> 0]
    <2>1. row \in Row
      BY <1>0 DEF Row, Kinds, Channels, Methods
    <2>2. rows' = rows \cup {row} /\ nextRow' = nextRow + 1
      BY <1>1 DEF RecordPayment
    <2>3. row.id = nextRow /\ row.at = now
      OBVIOUS
    <2> HIDE DEF row
    <2> QED
      BY <2>1, <2>2, <2>3
  <1>2. ASSUME NEW p \in rows, NEW kind \in ReversalKinds, ReversePayment(p, kind)
        PROVE  \E row \in Row : /\ rows' = rows \cup {row} /\ nextRow' = nextRow + 1
                                /\ row.id = nextRow /\ row.at = now
    <2> DEFINE row == [p EXCEPT !.id = nextRow, !.at = now, !.kind = kind, !.of = p.id]
    <2>1. row \in Row /\ row.id = nextRow /\ row.at = now
      BY <1>0 DEF Row, Kinds
    <2>2. rows' = rows \cup {row} /\ nextRow' = nextRow + 1
      BY <1>2 DEF ReversePayment
    <2> HIDE DEF row
    <2> QED
      BY <2>1, <2>2
  <1>3. ASSUME NEW r \in Reqs,
               \/ ResetDeletes(r) \/ IssueCommits(r) \/ CancelCoupons(r)
               \/ \E lost \in BOOLEAN : IssueAnswered(r, lost)
        PROVE  rows' \subseteq rows /\ nextRow' = nextRow
    BY <1>3 DEF ResetDeletes, IssueCommits, CancelCoupons, IssueAnswered
  <1>4. ASSUME NEW id \in unredeeming, CancelRedemption(id)
        PROVE  rows' \subseteq rows /\ nextRow' = nextRow
    BY <1>4 DEF CancelRedemption
  <1> QED
    BY <1>1, <1>2, <1>3, <1>4, Frames DEF recorded

\* Backups only go, unless one is made.
LEMMA FilesMove ==
    ASSUME NEW r \in Reqs, Vacuum(r) \/ VacuumFails(r) \/ Prune(r), NEW f \in files'
    PROVE  \/ f \in files
           \/ /\ f = [at |-> req[r].time, holds |-> {p.id : p \in rows}]
              /\ f.at = req[r].time /\ f.holds = {p.id : p \in rows}
              /\ req[r].step = "VACUUM"
  <1>1. CASE Vacuum(r)
    <2> DEFINE new == [at |-> req[r].time, holds |-> {p.id : p \in rows}]
    <2>1. new.at = req[r].time /\ new.holds = {p.id : p \in rows}
      OBVIOUS
    <2>2. req[r].step = "VACUUM" /\ (files' = files \cup {new} \/ files' \subseteq files)
      BY <1>1 DEF Vacuum
    <2> HIDE DEF new
    <2>3. f \in files \/ f = new
      BY <2>2
    <2> QED
      BY <2>1, <2>2, <2>3 DEF new
  <1>2. CASE VacuumFails(r) \/ Prune(r)
    BY <1>2 DEF VacuumFails, Prune
  <1> QED
    BY <1>1, <1>2

\* Everything stored stays of the past.
LEMMA DatedKept ==
    ASSUME NEW V, Shaped(V), Dated, [Next]_vars
    PROVE  Dated'
  <1>0. /\ now \in Nat \ {0} /\ now' \in Nat /\ now <= now'
        /\ rows \in SUBSET Row /\ nextRow \in Nat
        /\ closings \in Seq(SumsOf(V)) /\ \A r \in Reqs : req[r] \in Request(V)
        /\ files \in SUBSET File
    BY Frames DEF Shaped, Stored
  <1>1. \A p \in rows' : p.id < nextRow' /\ p.at \in 1..now'
    BY SMTT(60), <1>0, RowsMove DEF Dated, Row
  <1>2. \A i \in DOMAIN closings' : closings'[i].upto \in 1..now'
    <2>1. CASE UNCHANGED closingVars
      BY <1>0, <2>1 DEF Dated, closingVars
    <2>2. ASSUME NEW r \in Reqs, CloseRecords(r)
          PROVE  \A i \in DOMAIN closings' : closings'[i].upto \in 1..now'
      <3> DEFINE s == Recorded(req[r].sums)
      <3>1. closings' = Append(closings, s) /\ req[r].step = "RECORD"
        BY <2>2 DEF CloseRecords
      <3>a. req[r].sums \in SumsOf(V)
        BY <1>0 DEF Request
      <3>b. req[r].sums.upto > 0 /\ req[r].sums.upto <= now
        BY <3>1 DEF Dated
      <3>c. s \in SumsOf(V) /\ s.upto = req[r].sums.upto
        BY <3>a, RecordedSame
      <3> HIDE DEF s
      <3>2. s \in SumsOf(V) /\ s.upto \in 1..now
        BY <1>0, <3>b, <3>c DEF SumsOf
      <3>3. /\ Len(closings) \in Nat /\ DOMAIN closings = 1..Len(closings)
            /\ DOMAIN closings' = 1..(Len(closings) + 1)
            /\ closings'[Len(closings) + 1] = s
            /\ \A i \in DOMAIN closings : closings'[i] = closings[i]
        BY <1>0, <3>1, <3>2, AppendProperties, LenProperties
      <3>4. \A i \in DOMAIN closings' : i \in DOMAIN closings \/ i = Len(closings) + 1
        BY <3>3
      <3> QED
        BY <1>0, <3>2, <3>3, <3>4 DEF Dated
    <2>3. ASSUME NEW r \in Reqs, ResetDeletes(r)
          PROVE  \A i \in DOMAIN closings' : closings'[i].upto \in 1..now'
      BY <1>0, <2>3 DEF Dated, ResetDeletes
    <2> QED
      BY <2>1, <2>2, <2>3, Frames
  <1>3. ASSUME NEW q \in Reqs
        PROVE  /\ req'[q].sums.upto <= now'
               /\ req'[q].step \in {"SUMS", "ALLOCATIONS", "RECORD"} => req'[q].sums.upto > 0
               /\ req'[q].step \in {"VACUUM", "PRUNE"} => req'[q].time \in 1..now'
    <2>0. req[q].sums.upto \in Nat /\ req[q].sums.upto <= now
      BY <1>0 DEF Dated, Request, SumsOf
    <2>1. CASE req'[q] = req[q]
      BY <1>0, <2>0, <2>1 DEF Dated
    <2>2. CASE req'[q] = Idle
      BY <1>0, <2>2 DEF Idle, NoSums
    <2>3. CASE Begins(req'[q]) /\ UNCHANGED now
      BY <1>0, <2>3 DEF Begins, NoSums
    <2>4. CASE Continues(q) /\ Went(q, req'[q])
      <3>1. CASE req'[q].step \in {"ALLOCATIONS", "RECORD"}
        BY <1>0, <2>0, <2>4, <3>1 DEF Went, Dated
      <3>2. CASE req'[q].step = "PRUNE"
        <4>1. req[q].step = "VACUUM"
          BY <2>4, <3>2 DEF Went
        <4> QED
          BY <1>0, <2>0, <2>4, <3>2, <4>1 DEF Went, Dated
      <3>3. CASE req'[q].step \notin {"PRUNE", "ALLOCATIONS", "RECORD"}
        BY <1>0, <2>0, <2>4, <3>3 DEF Went
      <3> QED
        BY <3>1, <3>2, <3>3
    <2> QED
      BY <2>1, <2>2, <2>3, <2>4, RequestsMove
  <1>4. \A f \in files' : f.at <= now'
    <2>1. ASSUME NEW r \in Reqs, Vacuum(r) \/ VacuumFails(r) \/ Prune(r), NEW f \in files'
          PROVE  f \in files \/ (f.at = req[r].time /\ req[r].step = "VACUUM")
      BY <2>1, FilesMove
    <2>2. \A r \in Reqs : req[r].step = "VACUUM" => req[r].time <= now
      BY <1>0 DEF Dated, Request
    <2>3. \A f \in files : f.at \in Int /\ f.at <= now
      BY <1>0 DEF Dated, File
    <2>4. \A r \in Reqs : req[r].time \in Nat
      BY <1>0 DEF Request
    <2> QED
      BY <1>0, <2>1, <2>2, <2>3, <2>4, Frames
  <1> QED
    BY <1>1, <1>2, <1>3, <1>4 DEF Dated

-----------------------------------------------------------------------------
(* Scopes: what a reset is asked for brings what depends on it.            *)

ScopesClosed ==
    \A r \in Reqs : \A s \in req[r].scopes : DependsOn[s] \subseteq req[r].scopes

\* Two rounds are enough: no chain of dependencies is longer.
LEMMA Expanded ==
    ASSUME NEW selected \in SUBSET Scopes
    PROVE  \A s \in ExpandScopes(selected) : DependsOn[s] \subseteq ExpandScopes(selected)
  <1> DEFINE with == selected \cup UNION {DependsOn[s] : s \in selected}
  <1>1. \A s \in Scopes : DependsOn[s] \subseteq Scopes
    BY DEF DependsOn, Scopes
  <1>2. \A s \in Scopes : \A t \in DependsOn[s] : \A u \in DependsOn[t] :
            DependsOn[u] = {}
    BY DEF DependsOn, Scopes
  <1>3. ExpandScopes(selected) = with \cup UNION {DependsOn[s] : s \in with}
    BY DEF ExpandScopes
  <1>4. with \subseteq Scopes
    BY <1>1
  <1>5. ASSUME NEW s \in with, NEW t \in DependsOn[s], NEW u \in DependsOn[t]
        PROVE  u \in ExpandScopes(selected)
    <2>1. CASE s \in selected
      BY <1>3, <1>5, <2>1
    <2>2. CASE s \notin selected
      <3>1. PICK v \in selected : s \in DependsOn[v]
        BY <2>2
      <3> QED
        BY <1>2, <1>5, <3>1
    <2> QED
      BY <2>1, <2>2
  <1> HIDE DEF with
  <1> QED
    BY <1>3, <1>5

\* No step breaks them.
LEMMA ScopesKept ==
    ASSUME NEW V, Shaped(V), Dated, ScopesClosed, [Next]_vars
    PROVE  ScopesClosed'
  <1> SUFFICES ASSUME NEW q \in Reqs, NEW s \in req'[q].scopes
               PROVE  DependsOn[s] \subseteq req'[q].scopes
    BY DEF ScopesClosed
  <1>1. CASE req'[q] = req[q]
    BY <1>1 DEF ScopesClosed
  <1>2. CASE req'[q] = Idle
    BY <1>2 DEF Idle
  <1>3. CASE Begins(req'[q])
    BY <1>3, Expanded DEF Begins
  <1>4. CASE Went(q, req'[q])
    BY <1>4 DEF ScopesClosed, Went
  <1> QED
    BY <1>1, <1>2, <1>3, <1>4, RequestsMove

\* A reset of the menu or of the revenue clears every channel.
LEMMA ClearsAll ==
    ASSUME NEW V, Shaped(V), ScopesClosed, NEW r \in Reqs,
           "menu" \in req[r].scopes \/ "revenue" \in req[r].scopes
    PROVE  /\ Cleared(req[r].scopes) = Channels
           /\ "menu" \in req[r].scopes => "coupons" \in req[r].scopes
  <1>1. /\ DependsOn["menu"] = {"tables", "counterSales", "coupons"}
        /\ DependsOn["revenue"] = {"payments"}
        /\ DependsOn["payments"] = {"tables", "counterSales"}
    BY DEF DependsOn, Scopes
  <1>2. {"tables", "counterSales"} \subseteq req[r].scopes
    BY <1>1 DEF ScopesClosed
  <1>3. "menu" \in req[r].scopes => "coupons" \in req[r].scopes
    BY <1>1 DEF ScopesClosed
  <1> QED
    BY <1>2, <1>3 DEF Cleared, Channels

-----------------------------------------------------------------------------
(* Closings leave no gap.                                                  *)

Covered(p) == \E j \in DOMAIN closings : p.id \in closings[j].counted
Closing(r) == req[r].step \in {"SUMS", "ALLOCATIONS", "RECORD"}

\* What lies before the window of a closing is counted; what lies in it is, once it
\* has been added up.
WindowInv ==
    /\ \A i \in DOMAIN closings, p \in rows : p.at < closings[i].upto => Covered(p)
    /\ \A r \in Reqs : Closing(r) =>
          /\ req[r].sums.from <= now
          /\ \A p \in rows : p.at < req[r].sums.from => Covered(p)
          /\ req[r].step # "SUMS" =>
                \A p \in rows : req[r].sums.from <= p.at /\ p.at < req[r].sums.upto =>
                                   p.id \in req[r].sums.counted

\* Closings are added, or go with all rows.
LEMMA ClosingsMove ==
    ASSUME NEW V, Shaped(V), ScopesClosed, [Next]_vars
    PROVE  \/ UNCHANGED closings
           \/ /\ UNCHANGED rows
              /\ \E r \in Reqs :
                    /\ req[r].step = "RECORD"
                    /\ DOMAIN closings' = DOMAIN closings \cup {Len(closings) + 1}
                    /\ closings'[Len(closings) + 1] = Recorded(req[r].sums)
                    /\ \A i \in DOMAIN closings : closings'[i] = closings[i]
           \/ rows' = {}
  <1>1. ASSUME NEW r \in Reqs, CloseRecords(r)
        PROVE  /\ UNCHANGED rows
               /\ req[r].step = "RECORD"
               /\ DOMAIN closings' = DOMAIN closings \cup {Len(closings) + 1}
               /\ closings'[Len(closings) + 1] = Recorded(req[r].sums)
               /\ \A i \in DOMAIN closings : closings'[i] = closings[i]
    <2> DEFINE s == Recorded(req[r].sums)
    <2>1. /\ closings' = Append(closings, s) /\ req[r].step = "RECORD"
          /\ UNCHANGED rows
      BY <1>1 DEF CloseRecords, ledgerVars
    <2>2. s \in SumsOf(V) /\ closings \in Seq(SumsOf(V))
      BY RecordedSame DEF Shaped, Stored, Request
    <2> HIDE DEF s
    <2>3. /\ Len(closings) \in Nat /\ DOMAIN closings = 1..Len(closings)
          /\ DOMAIN closings' = 1..(Len(closings) + 1)
          /\ closings'[Len(closings) + 1] = s
          /\ \A i \in DOMAIN closings : closings'[i] = closings[i]
      BY <2>1, <2>2, AppendProperties, LenProperties
    <2>4. DOMAIN closings' = DOMAIN closings \cup {Len(closings) + 1}
      BY <2>3
    <2> QED
      BY <2>1, <2>3, <2>4 DEF s
  <1>2. ASSUME NEW r \in Reqs, ResetDeletes(r)
        PROVE  UNCHANGED closings \/ rows' = {}
    <2>1. CASE "revenue" \in req[r].scopes
      <3>1. \A p \in rows : p.channel \in Cleared(req[r].scopes)
        BY <2>1, ClearsAll DEF Shaped, Stored, Row
      <3> QED
        BY <1>2, <3>1 DEF ResetDeletes
    <2>2. CASE "revenue" \notin req[r].scopes
      BY <1>2, <2>2 DEF ResetDeletes
    <2> QED
      BY <2>1, <2>2
  <1> QED
    BY <1>1, <1>2, Frames DEF closingVars

\* Every step keeps it: a payment is dated after every window under way, and a closing
\* takes up where the last one recorded ended.
LEMMA WindowsKept ==
    ASSUME NEW V, Shaped(V), Dated, ScopesClosed, WindowInv, [Next]_vars
    PROVE  WindowInv'
  <1>0. /\ now \in Nat \ {0} /\ now' \in Nat /\ now <= now'
        /\ rows \in SUBSET Row /\ nextRow \in Nat
        /\ closings \in Seq(SumsOf(V)) /\ \A r \in Reqs : req[r] \in Request(V)
    BY Frames DEF Shaped, Stored
  <1>a. /\ \A r \in Reqs : /\ req[r].sums.from \in Nat /\ req[r].sums.upto \in Nat
                           /\ req[r].sums.upto <= now
        /\ \A p \in rows : p.at \in Nat
        /\ \A i \in DOMAIN closings : closings[i].upto \in Nat /\ closings[i].upto <= now
    BY SMTT(60), <1>0 DEF Dated, Request, SumsOf, Row
  <1>b. CASE rows' = {}
    <2>1. ASSUME NEW q \in Reqs, Closing(q)'
          PROVE  req'[q].sums.from <= now'
      <3>1. CASE req'[q] = req[q]
        BY <1>0, <1>a, <2>1, <3>1 DEF WindowInv, Closing
      <3>2. CASE req'[q] = Idle
        BY <2>1, <3>2 DEF Closing, Idle
      <3>3. CASE Begins(req'[q])
        BY <1>0, <2>1, <3>3, WindowStarts DEF Begins, Closing
      <3>4. CASE Went(q, req'[q])
        BY <1>0, <1>a, <2>1, <3>4 DEF Went, Closing, WindowInv
      <3> QED
        BY <3>1, <3>2, <3>3, <3>4, RequestsMove
    <2> QED
      BY <1>b, <2>1 DEF WindowInv
  <1>c. CASE rows' # {}
    <2>1. \A p \in rows : Covered(p) => Covered(p)'
      BY <1>c, ClosingsMove DEF Covered
    <2>2. \A p \in rows' : p \in rows \/ (p.at = now /\ p \in Row)
      BY RowsMove
    <2>3. ASSUME NEW i \in DOMAIN closings', NEW p \in rows', p.at < closings'[i].upto
          PROVE  Covered(p)'
      <3>1. CASE i \in DOMAIN closings /\ closings'[i] = closings[i]
        <4>1. p \in rows
          BY <1>0, <1>a, <2>2, <2>3, <3>1
        <4> QED
          BY <2>1, <2>3, <3>1, <4>1 DEF WindowInv
      <3>2. CASE /\ p \in rows
                 /\ \E r \in Reqs : req[r].step = "RECORD" /\ closings'[i] = Recorded(req[r].sums)
        <4>1. PICK r \in Reqs : req[r].step = "RECORD" /\ closings'[i] = Recorded(req[r].sums)
          BY <3>2
        <4>a. /\ closings'[i].counted = req[r].sums.counted
              /\ closings'[i].upto = req[r].sums.upto
          BY <1>0, <4>1, RecordedSame DEF Request
        <4>2. CASE p.at < req[r].sums.from
          BY <2>1, <3>2, <4>1, <4>2 DEF WindowInv, Closing
        <4>3. CASE req[r].sums.from <= p.at
          <5>1. p.id \in closings'[i].counted
            BY <2>3, <3>2, <4>1, <4>a, <4>3 DEF WindowInv, Closing
          <5> QED
            BY <5>1 DEF Covered
        <4> QED
          BY <1>a, <3>2, <4>2, <4>3
      <3> QED
        BY <1>c, <3>1, <3>2, ClosingsMove
    <2>4. ASSUME NEW q \in Reqs, Closing(q)'
          PROVE  /\ req'[q].sums.from <= now'
                 /\ \A p \in rows' : p.at < req'[q].sums.from => Covered(p)'
                 /\ req'[q].step # "SUMS" =>
                       \A p \in rows' : req'[q].sums.from <= p.at /\ p.at < req'[q].sums.upto =>
                                           p.id \in req'[q].sums.counted
      <3>1. CASE req'[q] = req[q]
        BY SMTT(60), <1>0, <1>a, <2>1, <2>2, <2>4, <3>1 DEF WindowInv, Closing
      <3>2. CASE req'[q] = Idle
        BY <2>4, <3>2 DEF Closing, Idle
      <3>3. CASE Begins(req'[q]) /\ UNCHANGED <<now, ledgerVars, closingVars>>
        <4>1. /\ req'[q].step = "SUMS" /\ req'[q].sums.from = WindowStart
              /\ now' = now /\ rows' = rows
          BY <2>4, <3>3 DEF Begins, Closing, ledgerVars, closingVars
        <4>2. ASSUME NEW p \in rows, p.at < WindowStart
              PROVE  Covered(p)
          <5>1. closings # << >> => \E i \in DOMAIN closings : closings[i].upto = WindowStart
            BY WindowStarts
          <5>2. closings = << >> => WindowStart <= p.at
            BY WindowStarts
          <5>3. WindowStart \in Nat
            BY WindowStarts
          <5> QED
            BY <1>a, <4>2, <5>1, <5>2, <5>3 DEF WindowInv
        <4> QED
          BY <1>0, <2>1, <4>1, <4>2, WindowStarts
      <3>4. CASE Continues(q) /\ Went(q, req'[q])
        <4>1. /\ req'[q].step \in {"ALLOCATIONS", "RECORD"}
              /\ req'[q].sums.from = req[q].sums.from /\ req'[q].sums.upto = req[q].sums.upto
              /\ Closing(q)
          BY <2>4, <3>4 DEF Went, Closing
        <4>2. \A p \in rows : req[q].sums.from <= p.at /\ p.at < req[q].sums.upto =>
                                 p.id \in req'[q].sums.counted
          <5>1. CASE req'[q].step = "ALLOCATIONS"
            <6>1. req'[q].sums.counted =
                      {p.id : p \in InWindow(rows, req[q].sums.from, req[q].sums.upto)}
              BY <3>4, <4>1, <5>1 DEF Went
            <6> QED
              BY <1>a, <6>1 DEF InWindow
          <5>2. CASE req'[q].step = "RECORD"
            BY <3>4, <5>2 DEF Went, WindowInv, Closing
          <5> QED
            BY <4>1, <5>1, <5>2
        <4> QED
          BY <1>0, <1>a, <2>1, <2>2, <4>1, <4>2 DEF WindowInv
      <3> QED
        BY <3>1, <3>2, <3>3, <3>4, RequestsMove
    <2> QED
      BY <2>3, <2>4 DEF WindowInv
  <1> QED
    BY <1>b, <1>c

-----------------------------------------------------------------------------
(* A backup before the loss.                                               *)

\* No two backups are under way in one millisecond, and hence under one name.
NamesApart ==
    \A r, q \in Reqs : /\ req[r].step = "VACUUM" /\ req[q].step = "VACUUM"
                       /\ req[r].time = req[q].time
                       => r = q

\* A backup holds what was recorded before it was begun; a reset that has made its
\* backup finds one, if not its own; and the name of a backup to be made is free.
BackupInv ==
    /\ \A f \in files : f.at > 0 => \A p \in rows : p.id \in f.holds \/ p.at >= f.at
    /\ \A r \in Reqs : req[r].step \in {"LOG", "APPEND", "DELETE"} /\ req[r].scopes # {} =>
          \E f \in files : f.at > 0
    /\ \A r \in Reqs : req[r].step = "VACUUM" => \A f \in files : f.at # req[r].time

\* Of the backups of today, pruning leaves the newest.
LEMMA NewestStays ==
    ASSUME NEW V, Shaped(V), Dated, NEW r \in Reqs, Prune(r), \E f \in files : f.at > 0
    PROVE  \E f \in files' : f.at > 0
  <1> DEFINE Times == {n \in Nat : n > 0 /\ \E f \in files : f.at = n}
  <1>0. now \in Nat /\ \A f \in files : f.at \in Int /\ f.at <= now
    BY DEF Shaped, Stored, Dated, File
  <1>1. PICK g \in files : g.at > 0
    OBVIOUS
  <1>2. g.at \in Times
    BY <1>0, <1>1
  <1>3. Times \subseteq Nat /\ Times # {} /\ \A n \in Times : n <= now
    BY <1>0, <1>2
  <1> HIDE DEF Times
  <1>4. PICK newest \in Times : \A n \in Times : n <= newest
    BY <1>0, <1>3, GreatestExists
  <1>5. PICK f \in files : f.at = newest
    BY <1>4 DEF Times
  <1>6. f.at > 0
    BY <1>4, <1>5 DEF Times
  <1>7. Newer(f) = {}
    <2> SUFFICES ASSUME NEW h \in files, h.at > f.at
                 PROVE  FALSE
      BY DEF Newer
    <2>1. h.at \in Nat /\ h.at > 0
      BY <1>0, <1>6
    <2>2. h.at \in Times
      BY <2>1 DEF Times
    <2> QED
      BY <1>0, <1>3, <1>4, <1>5, <2>1, <2>2
  <1>8. Cardinality(Newer(f)) < MaxBackups
    <2>1. Cardinality({}) = 0
      BY FS_EmptySet
    <2> QED
      BY <1>7, <2>1
  <1>9. f \in files'
    BY <1>5, <1>8 DEF Prune
  <1> QED
    BY <1>6, <1>9

\* Every step keeps it while no two backups share a name.
LEMMA BackupsKept ==
    ASSUME NEW V, Shaped(V), Dated, NamesApart, BackupInv, [Next]_vars
    PROVE  BackupInv'
  <1>0. /\ now \in Nat \ {0} /\ rows \in SUBSET Row /\ files \in SUBSET File
        /\ \A r \in Reqs : req[r] \in Request(V)
    BY DEF Shaped, Stored
  <1>a. /\ \A f \in files : f.at \in Int /\ f.at <= now
        /\ \A r \in Reqs : req[r].step \in {"VACUUM", "PRUNE"} => req[r].time \in 1..now
        /\ \A p \in rows : p.at \in Nat
    BY <1>0 DEF Dated, File, Row
  <1>b. \A p \in rows' : p \in rows \/ (p.at = now /\ UNCHANGED files)
    <2>1. CASE UNCHANGED rows
      BY <2>1
    <2>2. CASE ~ UNCHANGED rows
      <3>1. UNCHANGED files
        <4>1. ASSUME NEW r \in Reqs, Vacuum(r) \/ VacuumFails(r) \/ Prune(r)
              PROVE  UNCHANGED rows
          BY <4>1 DEF Vacuum, VacuumFails, Prune, ledgerVars, closingVars
        <4> QED
          BY <2>2, <4>1, Frames
      <3> QED
        BY <3>1, RowsMove
    <2> QED
      BY <2>1, <2>2
  <1>c. \A f \in files' :
            \/ f \in files
            \/ /\ f.holds = {p.id : p \in rows} /\ UNCHANGED rows
               /\ \E r \in Reqs : f.at = req[r].time /\ Vacuum(r) /\ req[r].step = "VACUUM"
    <2> SUFFICES ASSUME NEW f \in files', f \notin files
                 PROVE  /\ f.holds = {p.id : p \in rows} /\ UNCHANGED rows
                        /\ \E r \in Reqs : f.at = req[r].time /\ Vacuum(r) /\ req[r].step = "VACUUM"
      OBVIOUS
    <2>1. PICK r \in Reqs : Vacuum(r) \/ VacuumFails(r) \/ Prune(r)
      BY Frames
    <2>2. f.holds = {p.id : p \in rows} /\ f.at = req[r].time /\ req[r].step = "VACUUM"
      BY <2>1, FilesMove
    <2>3. UNCHANGED rows /\ Vacuum(r)
      <3>1. ~ VacuumFails(r) /\ ~ Prune(r)
        <4>1. VacuumFails(r) \/ Prune(r) => files' \subseteq files
          BY DEF VacuumFails, Prune
        <4> QED
          BY <4>1
      <3> QED
        BY <2>1, <3>1 DEF Vacuum, ledgerVars, closingVars
    <2> QED
      BY <2>2, <2>3
  <1>1. ASSUME NEW f \in files', f.at > 0, NEW p \in rows'
        PROVE  p.id \in f.holds \/ p.at >= f.at
    <2>1. CASE f \in files /\ p \in rows
      BY <1>1, <2>1 DEF BackupInv
    <2>2. CASE f \in files /\ p.at = now
      BY <1>0, <1>a, <2>2
    <2>3. CASE f \notin files
      <3>1. f.holds = {x.id : x \in rows} /\ p \in rows
        BY <1>c, <2>3
      <3> QED
        BY <3>1
    <2> QED
      BY <1>b, <2>1, <2>2, <2>3
  <1>2. ASSUME NEW q \in Reqs, req'[q].step \in {"LOG", "APPEND", "DELETE"}, req'[q].scopes # {}
        PROVE  \E f \in files' : f.at > 0
    <2>1. ASSUME \E f \in files : f.at > 0, \A r \in Reqs : ~ VacuumFails(r)
          PROVE  \E f \in files' : f.at > 0
      <3>1. ASSUME NEW r \in Reqs, Vacuum(r)
            PROVE  files \subseteq files'
        <4>1. ~ \E f \in files : f.at = req[r].time
          BY <3>1 DEF BackupInv, Vacuum
        <4> QED
          BY <3>1, <4>1 DEF Vacuum
      <3> QED
        BY <2>1, <3>1, NewestStays, Frames
    <2>2. ASSUME \E f \in files : f.at > 0, NEW r \in Reqs, VacuumFails(r)
          PROVE  \E f \in files' : f.at > 0
      <3>1. \A f \in files : f.at # req[r].time
        BY <2>2 DEF BackupInv, VacuumFails
      <3> QED
        BY <2>2, <3>1 DEF VacuumFails
    <2>3. \E f \in files : f.at > 0
      <3>1. CASE req'[q] = req[q]
        BY <1>2, <3>1 DEF BackupInv
      <3>2. CASE req'[q] = Idle
        BY <1>2, <3>2 DEF Idle
      <3>3. CASE Begins(req'[q])
        BY <1>2, <3>3 DEF Begins
      <3>4. CASE Went(q, req'[q])
        <4>1. CASE req[q].step \in {"LOG", "APPEND"}
          BY <1>2, <3>4, <4>1 DEF Went, BackupInv
        <4>2. CASE Prune(q) /\ \E f \in files : f.at = req[q].time
          <5>1. req[q].time \in 1..now
            BY <1>a, <4>2 DEF Prune
          <5> QED
            BY <1>0, <4>2, <5>1
        <4> QED
          BY <1>2, <3>4, <4>1, <4>2 DEF Went
      <3> QED
        BY <3>1, <3>2, <3>3, <3>4, RequestsMove
    <2> QED
      BY <2>1, <2>2, <2>3
  <1>3. ASSUME NEW q \in Reqs, req'[q].step = "VACUUM", NEW f \in files'
        PROVE  f.at # req'[q].time
    <2>1. CASE req'[q] = req[q]
      <3>1. CASE f \in files
        BY <1>3, <2>1, <3>1 DEF BackupInv
      <3>2. CASE f \notin files
        <4>1. PICK r \in Reqs : f.at = req[r].time /\ Vacuum(r) /\ req[r].step = "VACUUM"
          BY <1>c, <3>2
        <4>2. req'[r].step # "VACUUM"
          <5>1. ~ \E g \in files : g.at = req[r].time
            BY <4>1 DEF BackupInv
          <5>2. req' = [req EXCEPT ![r].step = "PRUNE"]
            BY <4>1, <5>1 DEF Vacuum, Goes
          <5> QED
            BY <5>2 DEF Shaped, Request
        <4> QED
          BY <1>3, <2>1, <4>1, <4>2 DEF NamesApart
      <3> QED
        BY <3>1, <3>2
    <2>2. CASE req'[q] = Idle
      BY <1>3, <2>2 DEF Idle
    <2>3. CASE Begins(req'[q]) /\ UNCHANGED files
      BY <1>3, <2>3 DEF Begins
    <2>4. CASE Went(q, req'[q])
      BY <1>3, <2>4 DEF Went
    <2> QED
      BY <2>1, <2>2, <2>3, <2>4, RequestsMove
  <1> QED
    BY <1>1, <1>2, <1>3 DEF BackupInv

\* What a reset deletes is in a backup, or newer than one.
LEMMA LossBackedUp ==
    ASSUME NEW V, Shaped(V), BackupInv, [Next]_vars
    PROVE  \A p \in Deleted : \E f \in files : f.at > 0 /\ (p.id \in f.holds \/ p.at >= f.at)
  <1> SUFFICES ASSUME NEW p \in rows, \A q \in rows' : q.id # p.id
               PROVE  \E f \in files : f.at > 0 /\ (p.id \in f.holds \/ p.at >= f.at)
    BY DEF Deleted
  <1>1. p \notin rows'
    OBVIOUS
  <1>2. PICK r \in Reqs : ResetDeletes(r)
    <2>1. UNCHANGED recorded => p \in rows'
      BY DEF recorded
    <2>2. (\E t \in Tenders, c \in Coupons \cup {NoCoupon} : RecordPayment(t, c)) => p \in rows'
      BY DEF RecordPayment
    <2>3. (\E o \in rows, kind \in ReversalKinds : ReversePayment(o, kind)) => p \in rows'
      BY DEF ReversePayment
    <2>4. \A r \in Reqs : IssueCommits(r) \/ CancelCoupons(r) => p \in rows'
      BY DEF IssueCommits, CancelCoupons
    <2>5. \A r \in Reqs, lost \in BOOLEAN : IssueAnswered(r, lost) => p \in rows'
      BY DEF IssueAnswered
    <2>6. (\E id \in unredeeming : CancelRedemption(id)) => p \in rows'
      BY DEF CancelRedemption
    <2> QED
      BY <1>1, <2>1, <2>2, <2>3, <2>4, <2>5, <2>6, Frames
  <1>3. req[r].step = "DELETE" /\ req[r].scopes # {}
    <2>1. p.channel \in Cleared(req[r].scopes)
      BY <1>1, <1>2 DEF ResetDeletes
    <2> QED
      BY <1>2, <2>1 DEF ResetDeletes, Cleared
  <1>4. PICK f \in files : f.at > 0
    BY <1>3 DEF BackupInv
  <1> QED
    BY <1>4 DEF BackupInv


-----------------------------------------------------------------------------
(* Coupons: one redemption each, and none without a batch.                 *)

CouponInv ==
    /\ CouponUsedIffRedeemed
    /\ \A d, e \in redemptions : d.coupon = e.coupon => d = e

\* Every step keeps it: who uses a coupon up redeems it, and a reset that deletes the
\* redemption gives the coupon back.
LEMMA CouponsKept ==
    ASSUME NEW V, Shaped(V), CouponInv, [Next]_vars
    PROVE  CouponInv'
  <1>0. /\ redemptions \in SUBSET Redemption
        /\ coupons \in [Coupons -> {"AVAILABLE", "USED", "CANCELLED", "ABSENT"}]
        /\ \A c \in Coupons : coupons[c] = "USED" <=> \E d \in redemptions : d.coupon = c
        /\ \A d, e \in redemptions : d.coupon = e.coupon => d = e
        /\ \A d \in redemptions : d.coupon \in Coupons
    BY DEF Shaped, Stored, Redemption, CouponInv, CouponUsedIffRedeemed
  <1>1. CASE UNCHANGED <<redemptions, coupons>>
    BY <1>0, <1>1 DEF CouponInv, CouponUsedIffRedeemed
  <1>7. ASSUME NEW id, redemptions' = CancelledFor(id), coupons' = coupons
        PROVE  CouponInv'
    <2> DEFINE After(d) == [d EXCEPT !.cancelled = @ \/ d.row = id]
    <2>1. redemptions' = {After(d) : d \in redemptions} /\ coupons' = coupons
      BY <1>7 DEF CancelledFor
    <2>2. \A d \in redemptions : After(d).coupon = d.coupon
      BY <1>0 DEF Redemption
    <2> HIDE DEF After
    <2>3. CouponUsedIffRedeemed'
      BY <1>0, <2>1, <2>2 DEF CouponUsedIffRedeemed
    <2>4. \A d, e \in redemptions' : d.coupon = e.coupon => d = e
      BY <1>0, <2>1, <2>2
    <2> QED
      BY <2>3, <2>4 DEF CouponInv
  <1>2. ASSUME NEW t \in Tenders, NEW c \in Coupons \cup {NoCoupon}, RecordPayment(t, c)
        PROVE  CouponInv'
    <2> DEFINE red == [row |-> nextRow, at |-> now, coupon |-> c, channel |-> t.channel,
                       amount |-> t.amount, cancelled |-> FALSE]
    <2>1. CASE c = NoCoupon
      BY <1>1, <1>2, <2>1 DEF RecordPayment
    <2>2. CASE c # NoCoupon
      <3>1. /\ c \in Coupons /\ coupons[c] = "AVAILABLE"
            /\ redemptions' = redemptions \cup {red}
            /\ coupons' = [coupons EXCEPT ![c] = "USED"]
        BY <1>2, <2>2 DEF RecordPayment
      <3>2. red.coupon = c
        OBVIOUS
      <3> HIDE DEF red
      <3>3. \A d \in redemptions : d.coupon # c
        BY <1>0, <3>1
      <3>4. \A b \in Coupons : coupons'[b] = IF b = c THEN "USED" ELSE coupons[b]
        BY <1>0, <3>1
      <3>5. CouponUsedIffRedeemed'
        <4> SUFFICES ASSUME NEW b \in Coupons
                     PROVE  coupons'[b] = "USED" <=> \E d \in redemptions' : d.coupon = b
          BY DEF CouponUsedIffRedeemed
        <4> QED
          BY <1>0, <3>1, <3>2, <3>4
      <3>6. \A d, e \in redemptions' : d.coupon = e.coupon => d = e
        BY <1>0, <3>1, <3>2, <3>3
      <3> QED
        BY <3>5, <3>6 DEF CouponInv
    <2> QED
      BY <2>1, <2>2
  <1>3. ASSUME NEW p \in rows, NEW kind \in ReversalKinds, ReversePayment(p, kind)
        PROVE  CouponInv'
    BY <1>1, <1>3, <1>7 DEF ReversePayment
  <1>4. ASSUME NEW r \in Reqs, ResetDeletes(r)
        PROVE  CouponInv'
    <2>1. CASE "coupons" \in req[r].scopes
      <3>1. redemptions' = {} /\ coupons' = [c \in Coupons |-> "ABSENT"]
        BY <1>4, <2>1 DEF ResetDeletes
      <3> QED
        BY <3>1 DEF CouponInv, CouponUsedIffRedeemed
    <2>2. CASE "coupons" \notin req[r].scopes
      <3> DEFINE channels == Cleared(req[r].scopes)
                 freed == {d.coupon : d \in {e \in redemptions : e.channel \in channels}}
      <3>1. /\ redemptions' = {d \in redemptions : d.channel \notin channels}
            /\ coupons' = [c \in Coupons |->
                   IF c \in freed /\ coupons[c] = "USED" THEN "AVAILABLE" ELSE coupons[c]]
        BY <1>4, <2>2 DEF ResetDeletes, Restored
      <3>2. \A c \in Coupons : coupons'[c] = "USED" <=> coupons[c] = "USED" /\ c \notin freed
        BY <3>1
      <3>3. \A c \in Coupons : (\E d \in redemptions' : d.coupon = c) <=>
                                  (\E d \in redemptions : d.coupon = c) /\ c \notin freed
        BY <1>0, <3>1
      <3>4. CouponUsedIffRedeemed'
        BY <1>0, <3>2, <3>3 DEF CouponUsedIffRedeemed
      <3> QED
        BY <1>0, <3>1, <3>4 DEF CouponInv
    <2> QED
      BY <2>1, <2>2
  <1>5. ASSUME NEW r \in Reqs, IssueCommits(r) \/ CancelCoupons(r)
        PROVE  CouponInv'
    <2>1. redemptions' = redemptions
      BY <1>5 DEF IssueCommits, CancelCoupons
    <2>2. \A c \in Coupons : coupons'[c] = "USED" <=> coupons[c] = "USED"
      <3>1. CASE CancelCoupons(r)
        BY <3>1 DEF CancelCoupons, Cancelled
      <3>2. CASE UNCHANGED coupons
        BY <3>2
      <3>3. CASE \E codes \in SUBSET (Coupons \ Issued) :
                     coupons' = [c \in Coupons |-> IF c \in codes THEN "AVAILABLE" ELSE coupons[c]]
        BY <3>3 DEF Issued
      <3>4. AllocateCodes(req[r].batch.count) \in SUBSET (Coupons \ Issued)
        BY DEF AllocateCodes
      <3> QED
        BY <1>5, <3>1, <3>2, <3>3, <3>4 DEF IssueCommits
    <2> QED
      BY <1>0, <2>1, <2>2 DEF CouponInv, CouponUsedIffRedeemed
  <1>6. ASSUME NEW r \in Reqs, NEW lost \in BOOLEAN, IssueAnswered(r, lost)
        PROVE  CouponInv'
    BY <1>1, <1>6 DEF IssueAnswered
  <1>8. ASSUME NEW id \in unredeeming, CancelRedemption(id)
        PROVE  CouponInv'
    BY <1>7, <1>8 DEF CancelRedemption
  <1> QED
    BY <1>1, <1>2, <1>3, <1>4, <1>5, <1>6, <1>8, Frames DEF recorded

-----------------------------------------------------------------------------
(* References.                                                             *)

\* A redemption has its payment in the same channel, and so has a reversal its original.
LinkInv ==
    /\ rows # {} \/ (\E b \in batches : b.type = "ITEM") => "MENU" \in catalogue
    /\ "LINKS" \in catalogue => {"MENU", "INVENTORY"} \subseteq catalogue
    /\ \A d \in redemptions : \E p \in rows : p.id = d.row /\ p.channel = d.channel
    /\ \A p \in rows : p.kind \in Reversals =>
          \E q \in rows : q.id = p.of /\ q.at <= p.at /\ q.channel = p.channel

\* Every step keeps it: a reset clears what refers together with what is referred to.
LEMMA LinksKept ==
    ASSUME NEW V, Shaped(V), Dated, ScopesClosed, LinkInv, [Next]_vars
    PROVE  LinkInv'
  <1>0. /\ rows \in SUBSET Row /\ redemptions \in SUBSET Redemption /\ batches \in SUBSET Batch
        /\ now \in Nat /\ nextRow \in Nat
    BY DEF Shaped, Stored
  <1>a. ASSUME NEW id, NEW d \in CancelledFor(id)
        PROVE  \E e \in redemptions : d.row = e.row /\ d.channel = e.channel
    BY <1>0, <1>a, CancelledFollows DEF Follows
  <1>1. CASE UNCHANGED recorded
    BY <1>1 DEF LinkInv, recorded
  <1>2. ASSUME NEW t \in Tenders, NEW c \in Coupons \cup {NoCoupon}, RecordPayment(t, c)
        PROVE  LinkInv'
    <2> DEFINE row == [id |-> nextRow, at |-> now, kind |-> t.kind, method |-> t.method,
                       channel |-> t.channel, amount |-> t.amount,
                       allocated |-> t.allocated, of |-> 0]
               red == [row |-> nextRow, at |-> now, coupon |-> c, channel |-> t.channel,
                       amount |-> t.amount, cancelled |-> FALSE]
    <2>1. /\ rows' = rows \cup {row} /\ redemptions' \subseteq redemptions \cup {red}
          /\ "MENU" \in catalogue /\ UNCHANGED <<catalogue, batches>>
      BY <1>2 DEF RecordPayment
    <2>2. /\ row.id = nextRow /\ row.channel = t.channel /\ row.kind \notin Reversals
          /\ red.row = nextRow /\ red.channel = t.channel
      BY DEF Reversals
    <2> HIDE DEF row, red
    <2> QED
      BY <2>1, <2>2 DEF LinkInv
  <1>3. ASSUME NEW p \in rows, NEW kind \in ReversalKinds, ReversePayment(p, kind)
        PROVE  LinkInv'
    <2> DEFINE row == [p EXCEPT !.id = nextRow, !.at = now, !.kind = kind, !.of = p.id]
    <2>1. /\ rows' = rows \cup {row} /\ redemptions' \in {redemptions, CancelledFor(p.id)}
          /\ UNCHANGED <<catalogue, batches>>
      BY <1>3 DEF ReversePayment
    <2>2. row.of = p.id /\ row.at = now /\ row.channel = p.channel
      BY <1>0 DEF Row
    <2>4. p.at <= now
      BY <1>0 DEF Dated, Row
    <2> HIDE DEF row
    <2>5. \A d \in redemptions' : \E q \in rows' : q.id = d.row /\ q.channel = d.channel
      BY <1>a, <2>1 DEF LinkInv
    <2>6. \A o \in rows' : o.kind \in Reversals =>
              \E q \in rows' : q.id = o.of /\ q.at <= o.at /\ q.channel = o.channel
      BY <2>1, <2>2, <2>4 DEF LinkInv
    <2> QED
      BY <2>1, <2>5, <2>6 DEF LinkInv
  <1>4. ASSUME NEW r \in Reqs, ResetDeletes(r)
        PROVE  LinkInv'
    <2> DEFINE scopes == req[r].scopes
               channels == Cleared(scopes)
               gone == (IF "inventory" \in scopes THEN {"INVENTORY", "LINKS"} ELSE {})
                          \cup (IF "menu" \in scopes THEN {"MENU", "LINKS"} ELSE {})
    <2>1. /\ rows' = {p \in rows : p.channel \notin channels}
          /\ redemptions' \subseteq {d \in redemptions : d.channel \notin channels}
          /\ batches' \subseteq batches /\ ("coupons" \in scopes => batches' = {})
          /\ catalogue' = catalogue \ gone
      BY <1>4 DEF ResetDeletes
    <2>2. /\ "MENU" \in gone <=> "menu" \in scopes
          /\ "INVENTORY" \in gone <=> "inventory" \in scopes
          /\ "LINKS" \in gone <=> "inventory" \in scopes \/ "menu" \in scopes
      OBVIOUS
    <2>3. \A p \in rows : p.channel \in Channels
      BY <1>0 DEF Row
    <2>4. "menu" \in scopes => rows' = {} /\ batches' = {}
      BY <2>1, <2>3, ClearsAll
    <2> HIDE DEF gone, channels, scopes
    <2>5. /\ rows' # {} \/ (\E b \in batches' : b.type = "ITEM") => "MENU" \in catalogue'
          /\ "LINKS" \in catalogue' => {"MENU", "INVENTORY"} \subseteq catalogue'
      <3>1. CASE "MENU" \in gone
        BY <2>1, <2>2, <2>4, <3>1
      <3>2. CASE "MENU" \notin gone
        BY <2>1, <2>2, <3>2 DEF LinkInv
      <3> QED
        BY <3>1, <3>2
    <2>6. \A d \in redemptions' : \E p \in rows' : p.id = d.row /\ p.channel = d.channel
      <3> SUFFICES ASSUME NEW d \in redemptions'
                   PROVE  \E p \in rows' : p.id = d.row /\ p.channel = d.channel
        OBVIOUS
      <3>1. PICK p \in rows : p.id = d.row /\ p.channel = d.channel
        BY <2>1 DEF LinkInv
      <3> QED
        BY <2>1, <3>1
    <2>7. \A p \in rows' : p.kind \in Reversals =>
              \E q \in rows' : q.id = p.of /\ q.at <= p.at /\ q.channel = p.channel
      <3> SUFFICES ASSUME NEW p \in rows', p.kind \in Reversals
                   PROVE  \E q \in rows' : q.id = p.of /\ q.at <= p.at /\ q.channel = p.channel
        OBVIOUS
      <3>1. PICK q \in rows : q.id = p.of /\ q.at <= p.at /\ q.channel = p.channel
        BY <2>1 DEF LinkInv
      <3> QED
        BY <2>1, <3>1
    <2> QED
      BY <2>5, <2>6, <2>7 DEF LinkInv
  <1>5. ASSUME NEW r \in Reqs, IssueCommits(r)
        PROVE  LinkInv'
    <2>1. UNCHANGED <<rows, redemptions, catalogue>>
      BY <1>5 DEF IssueCommits
    <2> DEFINE b == [req[r].batch EXCEPT !.ids = AllocateCodes(req[r].batch.count)]
    <2>2. \/ batches' = batches
          \/ /\ batches' = batches \cup {b}
             /\ req[r].batch.type = "ITEM" => "MENU" \in catalogue
      BY <1>5 DEF IssueCommits
    <2>3. b.type = req[r].batch.type
      BY DEF Shaped, Stored, Request, Batch
    <2> HIDE DEF b
    <2> QED
      BY <2>1, <2>2, <2>3 DEF LinkInv
  <1>6. ASSUME NEW r \in Reqs, CancelCoupons(r) \/ \E lost \in BOOLEAN : IssueAnswered(r, lost)
        PROVE  LinkInv'
    <2>1. UNCHANGED <<rows, redemptions, catalogue, batches>>
      BY <1>6 DEF CancelCoupons, IssueAnswered
    <2> QED
      BY <2>1 DEF LinkInv
  <1>7. ASSUME NEW id \in unredeeming, CancelRedemption(id)
        PROVE  LinkInv'
    <2>1. redemptions' = CancelledFor(id) /\ UNCHANGED <<rows, catalogue, batches>>
      BY <1>7 DEF CancelRedemption
    <2> QED
      BY <1>a, <2>1 DEF LinkInv
  <1> QED
    BY <1>1, <1>2, <1>3, <1>4, <1>5, <1>6, <1>7, Frames

-----------------------------------------------------------------------------
(* Batches.                                                                *)

\* No more codes are allocated than are asked for: the greatest of them has at most
\* so many free numbers up to it.
LEMMA CodesBounded ==
    ASSUME NEW count \in Nat
    PROVE  /\ IsFiniteSet(AllocateCodes(count))
           /\ Cardinality(AllocateCodes(count)) \in Nat
           /\ Cardinality(AllocateCodes(count)) <= count
  <1> DEFINE codes == AllocateCodes(count)
             Free(c) == {d \in 1..c : d \notin Issued}
  <1>1. /\ codes \subseteq Coupons
        /\ \A c \in codes : c \notin Issued /\ Cardinality(Free(c)) <= count
    BY DEF AllocateCodes
  <1>2. IsFiniteSet(codes)
    <2>1. IsFiniteSet(Coupons)
      BY FS_Interval DEF Coupons
    <2> QED
      BY <1>1, <2>1, FS_Subset
  <1> HIDE DEF codes
  <1>3. Cardinality(codes) \in Nat
    BY <1>2, FS_CardinalityType
  <1>4. CASE codes = {}
    BY <1>3, <1>4, FS_EmptySet DEF codes
  <1>5. CASE codes # {}
    <2>1. codes \subseteq Nat /\ \A c \in codes : c <= MaxCouponNumber
      BY <1>1 DEF Coupons
    <2>2. PICK greatest \in codes : \A c \in codes : c <= greatest
      BY <1>5, <2>1, GreatestExists
    <2>3. IsFiniteSet(1..greatest)
      BY <2>1, FS_Interval
    <2>4. IsFiniteSet(Free(greatest))
      <3> DEFINE free == Free(greatest)
      <3>1. free \in SUBSET (1..greatest)
        OBVIOUS
      <3> HIDE DEF free
      <3>2. IsFiniteSet(free)
        BY <2>3, <3>1, FS_Subset
      <3> QED
        BY <3>2 DEF free
    <2>5. codes \in SUBSET Free(greatest)
      <3>1. ASSUME NEW c \in codes
            PROVE  c \in 1..greatest /\ c \notin Issued
        <4>1. c \in Nat /\ c >= 1 /\ greatest \in Nat
          BY <1>1, <2>1 DEF Coupons
        <4>2. c <= greatest
          BY <2>2
        <4>3. c \notin Issued
          BY <1>1
        <4> QED
          BY <4>1, <4>2, <4>3
      <3> QED
        BY <3>1
    <2>6. Cardinality(codes) <= Cardinality(Free(greatest))
      BY <2>4, <2>5, FS_Subset
    <2>7. Cardinality(Free(greatest)) \in Nat /\ Cardinality(Free(greatest)) <= count
      BY <1>1, <2>2, <2>4, FS_CardinalityType
    <2> QED
      BY <1>2, <1>3, <2>6, <2>7 DEF codes
  <1> QED
    BY <1>2, <1>3, <1>4, <1>5 DEF codes

\* Batches keep to their keys, and so do the requests for them.
IssueInv ==
    /\ IssuedOnce
    /\ \A b \in batches : b.key \in 0..MaxKey
    /\ \A r \in Reqs : req[r].step = "INSERT" => req[r].batch.key <= MaxKey

\* Who allocates codes takes as many as asked for, of those that are free.
LEMMA BatchIssued ==
    ASSUME NEW V, Shaped(V), IssueInv, NEW r \in Reqs, IssueCommits(r)
    PROVE  IssuedOnce' /\ \A b \in batches' : b.key \in 0..MaxKey
  <1> DEFINE new == req[r].batch
             codes == AllocateCodes(new.count)
             b == [new EXCEPT !.ids = codes]
  <1>0. new \in Batch /\ batches \in SUBSET Batch
        /\ coupons \in [Coupons -> {"AVAILABLE", "USED", "CANCELLED", "ABSENT"}]
    BY DEF Shaped, Stored, Request
  <1>1. CASE UNCHANGED <<coupons, batches>>
    BY <1>1 DEF IssueInv, IssuedOnce, Issued
  <1>2. CASE /\ ~ (Cardinality(codes) < new.count) /\ ~ HasBatch(new.key)
             /\ batches' = batches \cup {b}
             /\ coupons' = [c \in Coupons |-> IF c \in codes THEN "AVAILABLE" ELSE coupons[c]]
    <2>1. req[r].step = "INSERT" /\ new.key <= MaxKey
      BY DEF IssueCommits, IssueInv
    <2>2. b.ids = codes /\ b.key = new.key /\ b.count = new.count /\ b.key \in 0..MaxKey
      BY <1>0, <2>1 DEF Batch
    <2>3. Cardinality(codes) = new.count
      <3>1. new.count \in Nat
        BY <1>0 DEF Batch
      <3> QED
        BY <1>2, <3>1, CodesBounded
    <2>4. codes \subseteq Coupons \ Issued
      BY DEF AllocateCodes
    <2>5. \A c \in batches : c.key # new.key
      BY <1>2 DEF HasBatch
    <2> HIDE DEF b, codes
    <2>6. \A c \in batches : c.ids \cap codes = {}
      BY <2>4 DEF IssueInv, IssuedOnce
    <2>7. Issued' = Issued \cup codes
      BY <1>2, <2>4 DEF Issued
    <2>8. \A x : (\E c \in batches' : x \in c.ids) <=>
                     (\E c \in batches : x \in c.ids) \/ x \in codes
      <3>1. batches' = batches \cup {b} /\ b.ids = codes
        BY <1>2, <2>2
      <3> QED
        BY ONLY <3>1
    <2>9. \A x, y \in batches' : x # y => x.key # y.key /\ x.ids \cap y.ids = {}
      BY <1>2, <2>2, <2>5, <2>6 DEF IssueInv, IssuedOnce
    <2>10. \A c \in batches' : Cardinality(c.ids) = c.count
      BY <1>2, <2>2, <2>3 DEF IssueInv, IssuedOnce
    <2>11. UNION {c.ids : c \in batches'} = Issued'
      <3>1. \A x : x \in Issued <=> \E c \in batches : x \in c.ids
        BY DEF IssueInv, IssuedOnce
      <3>2. \A x : x \in Issued' <=> \E c \in batches' : x \in c.ids
        BY <2>7, <2>8, <3>1
      <3> QED
        BY <3>2
    <2>12. IssuedOnce'
      BY <2>9, <2>10, <2>11 DEF IssuedOnce
    <2> QED
      BY <1>2, <2>2, <2>12 DEF IssueInv
  <1> QED
    BY <1>1, <1>2 DEF IssueCommits

\* Which numbers are taken changes with the batches alone.
LEMMA BatchesKept ==
    ASSUME NEW V, Shaped(V), Dated, IssueInv, [Next]_vars
    PROVE  IssueInv'
  <1>0. /\ coupons \in [Coupons -> {"AVAILABLE", "USED", "CANCELLED", "ABSENT"}]
        /\ issueKey \in Nat /\ \A r \in Reqs : req[r] \in Request(V)
    BY DEF Shaped, Stored
  <1>1. IssuedOnce' /\ \A b \in batches' : b.key \in 0..MaxKey
    <2>1. ASSUME UNCHANGED batches, Issued' = Issued
          PROVE  IssuedOnce' /\ \A b \in batches' : b.key \in 0..MaxKey
      BY <2>1 DEF IssueInv, IssuedOnce
    <2>2. CASE UNCHANGED recorded
      BY <2>1, <2>2 DEF recorded, Issued
    <2>3. ASSUME NEW t \in Tenders, NEW c \in Coupons \cup {NoCoupon}, RecordPayment(t, c)
          PROVE  UNCHANGED batches /\ Issued' = Issued
      BY <1>0, <2>3 DEF RecordPayment, Issued
    <2>4. ASSUME \/ \E p \in rows, kind \in ReversalKinds : ReversePayment(p, kind)
                 \/ \E id \in unredeeming : CancelRedemption(id)
          PROVE  UNCHANGED batches /\ Issued' = Issued
      BY <2>4 DEF ReversePayment, CancelRedemption, Issued
    <2>5. ASSUME NEW r \in Reqs, CancelCoupons(r)
          PROVE  UNCHANGED batches /\ Issued' = Issued
      BY <1>0, <2>5 DEF CancelCoupons, Cancelled, Issued
    <2>6. ASSUME NEW r \in Reqs, NEW lost \in BOOLEAN, IssueAnswered(r, lost)
          PROVE  UNCHANGED batches /\ Issued' = Issued
      BY <2>6 DEF IssueAnswered, Issued
    <2>7. ASSUME NEW r \in Reqs, ResetDeletes(r)
          PROVE  IssuedOnce' /\ \A b \in batches' : b.key \in 0..MaxKey
      <3>1. CASE "coupons" \in req[r].scopes
        <4>1. batches' = {} /\ coupons' = [c \in Coupons |-> "ABSENT"]
          BY <2>7, <3>1 DEF ResetDeletes
        <4>2. Issued' = {}
          BY <4>1 DEF Issued
        <4> QED
          BY <4>1, <4>2 DEF IssuedOnce
      <3>2. CASE "coupons" \notin req[r].scopes
        <4>1. batches' = batches /\ coupons' = Restored(Cleared(req[r].scopes))
          BY <2>7, <3>2 DEF ResetDeletes
        <4>2. \A c \in Coupons : coupons'[c] = "ABSENT" <=> coupons[c] = "ABSENT"
          BY <1>0, <4>1 DEF Restored
        <4>3. Issued' = Issued
          BY <4>2 DEF Issued
        <4> QED
          BY <2>1, <4>1, <4>3
      <3> QED
        BY <3>1, <3>2
    <2> QED
      BY <2>1, <2>2, <2>3, <2>4, <2>5, <2>6, <2>7, BatchIssued, Frames
  <1>2. ASSUME NEW q \in Reqs, req'[q].step = "INSERT"
        PROVE  req'[q].batch.key <= MaxKey
    <2>1. CASE req'[q] = req[q]
      BY <1>2, <2>1 DEF IssueInv
    <2>2. CASE req'[q] = Idle
      BY <1>2, <2>2 DEF Idle
    <2>3. CASE Begins(req'[q])
      BY <1>2, <2>3 DEF Begins
    <2>4. CASE Went(q, req'[q])
      BY <1>2, <2>4 DEF Went
    <2> QED
      BY <2>1, <2>2, <2>3, <2>4, RequestsMove
  <1> QED
    BY <1>1, <1>2 DEF IssueInv

-----------------------------------------------------------------------------
(* The audit log: one append at a time, each naming a record before it.    *)

LogInv ==
    /\ \A l \in log : l.id < nextLog /\ l.id > 0 /\ l.prev < l.id
    /\ \A r \in Reqs : req[r].step = "APPEND" => req[r].prev < nextLog
    /\ \A r, q \in Reqs : req[r].step = "APPEND" /\ req[q].step = "APPEND" => r = q

\* Who reads for an append is alone.
LEMMA ReadsAlone ==
    ASSUME NEW V, Shaped(V), NEW r \in Reqs, AppendReads(r), NEW q \in Reqs \ {r}
    PROVE  req'[q].step # "APPEND"
  <1>1. PICK prev : req' = [req EXCEPT ![r].step = "APPEND", ![r].prev = prev, ![r].at = now]
    BY DEF AppendReads
  <1>2. req'[q] = req[q]
    BY <1>1 DEF Shaped
  <1> QED
    BY <1>2 DEF AppendReads, QueueFree

\* Every step keeps it.
LEMMA LogKept ==
    ASSUME NEW V, Shaped(V), Dated, LogInv, [Next]_vars
    PROVE  LogInv'
  <1>0. /\ nextLog \in Nat \ {0} /\ log \in SUBSET LogRow
        /\ \A r \in Reqs : req[r].prev \in Nat
    BY DEF Shaped, Stored, Request
  <1>a. nextLog' \in Nat /\ nextLog <= nextLog'
    <2>1. ASSUME NEW r \in Reqs, AppendWrites(r) \/ PurgeDeletes(r)
          PROVE  nextLog' \in {nextLog, nextLog + 1}
      BY <2>1 DEF AppendWrites, PurgeDeletes
    <2> QED
      BY <1>0, <2>1, Frames
  <1>1. ASSUME NEW l \in log'
        PROVE  l.id < nextLog' /\ l.id > 0 /\ l.prev < l.id
    <2>1. CASE l \in log
      BY <1>0, <1>a, <2>1 DEF LogInv, LogRow
    <2>2. CASE l \notin log
      <3>1. PICK r \in Reqs : AppendWrites(r)
        <4>1. \A r \in Reqs : PurgeDeletes(r) => log' \subseteq log
          BY DEF PurgeDeletes
        <4> QED
          BY <2>2, <4>1, Frames
      <3> DEFINE new == [id |-> nextLog, at |-> req[r].at, action |-> req[r].entry,
                         prev |-> req[r].prev,
                         before |-> IF req[r].op = "PURGE" THEN req[r].time ELSE 0]
      <3>2. req[r].step = "APPEND" /\ log' = log \cup {new} /\ nextLog' = nextLog + 1
        BY <3>1 DEF AppendWrites
      <3>3. l = new
        BY <2>2, <3>2
      <3>4. l.id = nextLog /\ l.prev = req[r].prev
        BY <3>3
      <3> HIDE DEF new
      <3> QED
        BY <1>0, <3>2, <3>4 DEF LogInv
    <2> QED
      BY <2>1, <2>2
  <1>2. ASSUME NEW q \in Reqs, req'[q].step = "APPEND"
        PROVE  req'[q] = req[q] \/ (AppendReads(q) /\ Went(q, req'[q]))
    <2>1. CASE req'[q] = Idle
      BY <1>2, <2>1 DEF Idle
    <2>2. CASE Begins(req'[q])
      BY <1>2, <2>2 DEF Begins
    <2>3. CASE Went(q, req'[q])
      BY <1>2, <2>3 DEF Went
    <2> QED
      BY <2>1, <2>2, <2>3, RequestsMove
  <1>3. ASSUME NEW q \in Reqs, req'[q].step = "APPEND"
        PROVE  req'[q].prev < nextLog'
    <2>1. CASE req'[q] = req[q]
      BY <1>0, <1>a, <1>3, <2>1 DEF LogInv
    <2>2. CASE Went(q, req'[q])
      <3>1. req'[q].prev = 0 \/ \E l \in log : l.id = req'[q].prev
        BY <1>3, <2>2 DEF Went, FollowsLatest, Genesis
      <3> QED
        BY <1>0, <1>a, <3>1 DEF LogInv, LogRow
    <2> QED
      BY <1>2, <1>3, <2>1, <2>2
  <1>4. ASSUME NEW r \in Reqs, NEW q \in Reqs, req'[r].step = "APPEND", req'[q].step = "APPEND",
               r # q
        PROVE  FALSE
    <2>1. ~ AppendReads(r) /\ ~ AppendReads(q)
      BY <1>4, ReadsAlone
    <2> QED
      BY <1>2, <1>4, <2>1 DEF LogInv
  <1> QED
    BY <1>1, <1>3, <1>4 DEF LogInv

-----------------------------------------------------------------------------
(* The audit log: a chain, as long as what is purged is of the past.       *)

\* There is one purge at most, and it was of earlier records.
PastPurged == (\A l, m \in Purges : l = m) /\ \A l \in Purges : l.before <= l.at

\* What is appended takes up the latest of the records in S.
TakesUp(prev, S) == S # {} => \E l \in S : l.id = prev /\ \A m \in S : m.at <= l.at

Earlier(l) == {m \in log : m.id < l.id}

\* Records are written in the order of their times; one that is about to be written is
\* the latest; a purge that is about to delete is on record.
OrderInv ==
    /\ IsFiniteSet(log)
    /\ \A l, m \in log : (l.id = m.id => l = m) /\ (l.id < m.id => l.at <= m.at)
    /\ \A l \in log : l.at <= now
    /\ \A r \in Reqs : req[r].entry = "AUDIT_LOG_PURGE" => req[r].op = "PURGE"
    /\ \A r \in Reqs : req[r].step = "APPEND" =>
          req[r].at <= now /\ \A l \in log : l.at <= req[r].at
    /\ \A r \in Reqs : req[r].step = "PURGE" =>
          \E l \in Purges : l.before = req[r].time

\* Each record takes up the one before it, among those that are still there.
ChainInv ==
    PastPurged =>
        /\ \A l \in log : TakesUp(l.prev, Earlier(l))
        /\ \A r \in Reqs : req[r].step = "APPEND" => TakesUp(req[r].prev, log)

\* What AppendWrites writes.
NewRecord(r) ==
    [id |-> nextLog, at |-> req[r].at, action |-> req[r].entry, prev |-> req[r].prev,
     before |-> IF req[r].op = "PURGE" THEN req[r].time ELSE 0]

\* The log grows by a record, shrinks by what a purge deletes, or stays.
LEMMA LogMoves ==
    ASSUME NEW V, Shaped(V), [Next]_vars
    PROVE  \/ UNCHANGED log
           \/ \E r \in Reqs : /\ req[r].step = "APPEND" /\ AppendWrites(r)
                              /\ log' = log \cup {NewRecord(r)}
           \/ \E r \in Reqs : /\ req[r].step = "PURGE"
                              /\ log' = {l \in log : \/ l.at >= req[r].time
                                                     \/ l.action = "AUDIT_LOG_PURGE"}
  <1>1. ASSUME NEW r \in Reqs, AppendWrites(r)
        PROVE  req[r].step = "APPEND" /\ log' = log \cup {NewRecord(r)}
    BY <1>1 DEF AppendWrites, NewRecord
  <1>2. ASSUME NEW r \in Reqs, PurgeDeletes(r)
        PROVE  /\ req[r].step = "PURGE"
               /\ log' = {l \in log : l.at >= req[r].time \/ l.action = "AUDIT_LOG_PURGE"}
    BY <1>2 DEF PurgeDeletes
  <1> QED
    BY <1>1, <1>2, Frames

\* The fields of a new record.
LEMMA NewRecordShape ==
    ASSUME NEW V, Shaped(V), NEW r \in Reqs
    PROVE  /\ NewRecord(r).id = nextLog /\ NewRecord(r).at = req[r].at
           /\ NewRecord(r).action = req[r].entry /\ NewRecord(r).prev = req[r].prev
           /\ req[r].op = "PURGE" => NewRecord(r).before = req[r].time
           /\ req[r].at \in Nat /\ req[r].time \in Nat /\ req[r].prev \in Nat
  BY DEF NewRecord, Shaped, Request

\* Purges stay on record.
LEMMA PurgesStay ==
    ASSUME NEW V, Shaped(V), [Next]_vars
    PROVE  Purges \subseteq Purges'
  BY LogMoves DEF Purges

\* Every step keeps the order.
LEMMA OrderKept ==
    ASSUME NEW V, Shaped(V), Dated, LogInv, OrderInv, [Next]_vars
    PROVE  OrderInv'
  <1>0. /\ now \in Nat /\ now' \in Nat /\ now <= now' /\ nextLog \in Nat
        /\ log \in SUBSET LogRow
        /\ \A l \in log : l.id \in Nat /\ l.at \in Nat /\ l.id < nextLog
        /\ \A r \in Reqs : req[r].at \in Nat
    BY Frames DEF Shaped, Stored, Request, LogRow, LogInv
  <1>1. IsFiniteSet(log')
    <2>1. ASSUME NEW x, log' = log \cup {x}
          PROVE  IsFiniteSet(log')
      BY <2>1, FS_AddElement DEF OrderInv
    <2>2. ASSUME log' \subseteq log
          PROVE  IsFiniteSet(log')
      BY <2>2, FS_Subset DEF OrderInv
    <2> QED
      BY <2>1, <2>2, LogMoves
  <1>2. ASSUME NEW l \in log'
        PROVE  \/ l \in log
               \/ \E r \in Reqs : req[r].step = "APPEND" /\ l.id = nextLog /\ l.at = req[r].at
    BY LogMoves, NewRecordShape
  <1>a. \A r \in Reqs : req[r].step = "APPEND" =>
            req[r].at <= now /\ \A l \in log : l.at <= req[r].at
    BY DEF OrderInv
  <1>3. \A l \in log' : l.at <= now'
    BY <1>0, <1>2, <1>a DEF OrderInv
  <1>4. ASSUME NEW l \in log', NEW m \in log'
        PROVE  (l.id = m.id => l = m) /\ (l.id < m.id => l.at <= m.at)
    <2>1. CASE l \in log /\ m \in log
      BY <2>1 DEF OrderInv
    <2>2. CASE l \in log /\ m \notin log
      BY <1>0, <1>2, <1>a, <2>2
    <2>3. CASE l \notin log /\ m \in log
      BY <1>0, <1>2, <2>3
    <2>4. CASE l \notin log /\ m \notin log
      <3>1. l = m
        BY <2>4, LogMoves
      <3> QED
        BY <1>0, <1>2, <2>4, <3>1
    <2> QED
      BY <2>1, <2>2, <2>3, <2>4
  <1>5. ASSUME NEW q \in Reqs, req'[q].entry = "AUDIT_LOG_PURGE"
        PROVE  req'[q].op = "PURGE"
    <2>1. CASE req'[q] = req[q]
      BY <1>5, <2>1 DEF OrderInv
    <2>2. CASE req'[q] = Idle
      BY <1>5, <2>2 DEF Idle
    <2>3. CASE Begins(req'[q])
      BY <1>5, <2>3 DEF Begins
    <2>4. CASE Went(q, req'[q])
      BY <1>5, <2>4 DEF Went, OrderInv
    <2> QED
      BY <2>1, <2>2, <2>3, <2>4, RequestsMove
  <1>6. ASSUME NEW q \in Reqs, req'[q].step = "APPEND"
        PROVE  req'[q].at <= now' /\ \A l \in log' : l.at <= req'[q].at
    <2>1. CASE req'[q] = req[q]
      <3>1. req[q].at <= now /\ \A l \in log : l.at <= req[q].at
        BY <1>6, <1>a, <2>1
      <3>2. ASSUME NEW l \in log', l \notin log
            PROVE  l.at <= req[q].at
        <4>1. PICK r \in Reqs : req[r].step = "APPEND" /\ l.at = req[r].at
          BY <1>2, <3>2
        <4>2. r = q
          BY <1>6, <2>1, <4>1 DEF LogInv
        <4> QED
          BY <1>0, <4>1, <4>2
      <3> QED
        BY <1>0, <2>1, <3>1, <3>2
    <2>2. CASE req'[q] = Idle
      BY <1>6, <2>2 DEF Idle
    <2>3. CASE Begins(req'[q])
      BY <1>6, <2>3 DEF Begins
    <2>4. CASE Went(q, req'[q])
      <3>1. AppendReads(q) /\ req'[q].at = now
        BY <1>6, <2>4 DEF Went
      <3>2. log' = log
        BY <3>1 DEF AppendReads
      <3> QED
        BY <1>0, <3>1, <3>2 DEF OrderInv
    <2> QED
      BY <2>1, <2>2, <2>3, <2>4, RequestsMove
  <1>7. ASSUME NEW q \in Reqs, req'[q].step = "PURGE"
        PROVE  \E l \in Purges' : l.before = req'[q].time
    <2>1. CASE req'[q] = req[q]
      BY <1>7, <2>1, PurgesStay DEF OrderInv
    <2>2. CASE req'[q] = Idle
      BY <1>7, <2>2 DEF Idle
    <2>3. CASE Begins(req'[q])
      BY <1>7, <2>3 DEF Begins
    <2>4. CASE Went(q, req'[q])
      <3>1. AppendWrites(q) /\ req[q].entry = "AUDIT_LOG_PURGE" /\ req'[q].time = req[q].time
        BY <1>7, <2>4 DEF Went
      <3>2. log' = log \cup {NewRecord(q)} /\ req[q].op = "PURGE"
        BY <3>1 DEF AppendWrites, NewRecord, OrderInv
      <3>3. NewRecord(q).action = "AUDIT_LOG_PURGE" /\ NewRecord(q).before = req'[q].time
        BY <3>1, <3>2, NewRecordShape
      <3> QED
        BY <3>2, <3>3 DEF Purges
    <2> QED
      BY <2>1, <2>2, <2>3, <2>4, RequestsMove
  <1> QED
    BY <1>1, <1>3, <1>4, <1>5, <1>6, <1>7 DEF OrderInv

\* What a purge of the past leaves of some records that were taken up is taken up: were
\* the one that was named gone, so would be all of them, and the purge with them.
LEMMA PurgedChain ==
    ASSUME NEW S \in SUBSET LogRow, NEW T \in SUBSET S, NEW prev, NEW before \in Nat,
           NEW P \in LogRow, P.action = "AUDIT_LOG_PURGE", P.before = before, before <= P.at,
           \A l \in S : l.action = "AUDIT_LOG_PURGE" => l = P,
           \A l \in T : l.at >= before \/ l.action = "AUDIT_LOG_PURGE",
           \A l \in S \ T : l.at < before,
           TakesUp(prev, S)
    PROVE  TakesUp(prev, T)
  <1> SUFFICES ASSUME T # {}
               PROVE  \E l \in T : l.id = prev /\ \A m \in T : m.at <= l.at
    BY DEF TakesUp
  <1>1. PICK l \in S : l.id = prev /\ \A m \in S : m.at <= l.at
    BY DEF TakesUp
  <1>2. l.at \in Nat /\ P.at \in Nat /\ \A m \in T : m.at \in Nat
    BY DEF LogRow
  <1>3. l \in T
    <2> SUFFICES ASSUME l \notin T PROVE FALSE
      OBVIOUS
    <2>1. PICK m \in T : TRUE
      OBVIOUS
    <2>2. l.at < before /\ m.at <= l.at
      BY <1>1, <2>1
    <2>3. m = P
      BY <1>2, <2>1, <2>2
    <2> QED
      BY <1>2, <2>2, <2>3
  <1> QED
    BY <1>1, <1>3

\* Every step keeps the chain.
LEMMA ChainKept ==
    ASSUME NEW V, Shaped(V), Dated, LogInv, OrderInv, ChainInv, [Next]_vars
    PROVE  ChainInv'
  <1>0. /\ nextLog \in Nat /\ log \in SUBSET LogRow
        /\ \A l \in log : l.id \in Nat /\ l.id < nextLog
        /\ \A r \in Reqs : req[r].time \in Nat
    BY DEF Shaped, Stored, Request, LogRow, LogInv
  <1> SUFFICES ASSUME PastPurged'
               PROVE  /\ \A l \in log' : TakesUp(l.prev, Earlier(l)')
                      /\ \A r \in Reqs : req'[r].step = "APPEND" => TakesUp(req'[r].prev, log')
    BY DEF ChainInv, TakesUp
  <1>1. PastPurged
    BY PurgesStay DEF PastPurged
  <1>2. /\ \A l \in log : TakesUp(l.prev, Earlier(l))
        /\ \A r \in Reqs : req[r].step = "APPEND" => TakesUp(req[r].prev, log)
    BY <1>1 DEF ChainInv
  <1>a. ASSUME NEW q \in Reqs, req'[q].step = "APPEND"
        PROVE  \/ req'[q] = req[q]
               \/ log' = log /\ FollowsLatest(req'[q].prev)
    <2>1. CASE req'[q] = Idle
      BY <1>a, <2>1 DEF Idle
    <2>2. CASE Begins(req'[q])
      BY <1>a, <2>2 DEF Begins
    <2>3. CASE Went(q, req'[q])
      BY <1>a, <2>3 DEF Went, AppendReads
    <2> QED
      BY <2>1, <2>2, <2>3, RequestsMove
  <1>3. CASE UNCHANGED log
    <2>1. ASSUME NEW q \in Reqs, req'[q].step = "APPEND"
          PROVE  TakesUp(req'[q].prev, log')
      <3>1. CASE req'[q] = req[q]
        BY <1>2, <1>3, <2>1, <3>1
      <3>2. CASE FollowsLatest(req'[q].prev)
        BY <1>3, <3>2 DEF FollowsLatest, TakesUp
      <3> QED
        BY <1>a, <2>1, <3>1, <3>2
    <2>2. \A l \in log' : TakesUp(l.prev, Earlier(l)')
      BY <1>2, <1>3 DEF Earlier
    <2> QED
      BY <2>1, <2>2
  <1>4. ASSUME NEW r \in Reqs, req[r].step = "APPEND", AppendWrites(r),
               log' = log \cup {NewRecord(r)}
        PROVE  /\ \A l \in log' : TakesUp(l.prev, Earlier(l)')
               /\ \A q \in Reqs : req'[q].step = "APPEND" => TakesUp(req'[q].prev, log')
    <2>1. NewRecord(r).id = nextLog /\ NewRecord(r).prev = req[r].prev
      BY NewRecordShape
    <2>2. ASSUME NEW l \in log
          PROVE  TakesUp(l.prev, Earlier(l)')
      <3>1. Earlier(l)' = Earlier(l)
        BY <1>0, <1>4, <2>1 DEF Earlier
      <3> QED
        BY <1>2, <3>1
    <2>3. TakesUp(NewRecord(r).prev, {m \in log' : m.id < NewRecord(r).id})
      <3>1. {m \in log' : m.id < NewRecord(r).id} = log
        BY <1>0, <1>4, <2>1
      <3> QED
        BY <1>2, <1>4, <2>1, <3>1
    <2>4. ASSUME NEW l \in log', l \notin log
          PROVE  TakesUp(l.prev, Earlier(l)')
      <3>1. l = NewRecord(r)
        BY <1>4, <2>4
      <3> QED
        BY <2>3, <3>1 DEF Earlier
    <2>5. ASSUME NEW q \in Reqs, req'[q].step = "APPEND"
          PROVE  FALSE
      <3>1. NewRecord(r) \notin log
        BY <1>0, <2>1
      <3>2. req'[q] = req[q]
        BY <1>4, <1>a, <2>5, <3>1
      <3>3. q = r
        BY <1>4, <2>5, <3>2 DEF LogInv
      <3>4. req'[r].step # "APPEND"
        <4>1. \/ req'[r] = Idle
              \/ req'[r].step \in {"PURGE", "DELETE", "ANSWER"}
          BY <1>4 DEF AppendWrites, Shaped, Request
        <4> QED
          BY <4>1 DEF Idle
      <3> QED
        BY <2>5, <3>3, <3>4
    <2> QED
      BY <2>2, <2>4, <2>5
  <1>5. ASSUME NEW r \in Reqs, req[r].step = "PURGE",
               log' = {l \in log : l.at >= req[r].time \/ l.action = "AUDIT_LOG_PURGE"}
        PROVE  /\ \A l \in log' : TakesUp(l.prev, Earlier(l)')
               /\ \A q \in Reqs : req'[q].step = "APPEND" => TakesUp(req'[q].prev, log')
    <2>1. PICK P \in Purges : P.before = req[r].time
      BY <1>5 DEF OrderInv
    <2>2. /\ P \in LogRow /\ P.action = "AUDIT_LOG_PURGE" /\ req[r].time <= P.at
          /\ \A l \in log : l.action = "AUDIT_LOG_PURGE" => l = P
      BY <1>0, <1>1, <2>1 DEF PastPurged, Purges
    <2>3. ASSUME NEW S \in SUBSET log, NEW prev, TakesUp(prev, S)
          PROVE  TakesUp(prev, S \cap log')
      <3>1. \A l \in S \ (S \cap log') : l.at < req[r].time
        BY <1>0, <1>5 DEF LogRow
      <3>2. \A l \in S \cap log' : l.at >= req[r].time \/ l.action = "AUDIT_LOG_PURGE"
        BY <1>5
      <3>3. S \in SUBSET LogRow /\ S \cap log' \in SUBSET S
        BY <1>0
      <3>4. req[r].time \in Nat /\ \A l \in S : l.action = "AUDIT_LOG_PURGE" => l = P
        BY <1>0, <2>2
      <3> DEFINE T == S \cap log'
                 before == req[r].time
      <3>5. /\ S \in SUBSET LogRow /\ T \in SUBSET S /\ before \in Nat /\ P \in LogRow
            /\ P.action = "AUDIT_LOG_PURGE" /\ P.before = before /\ before <= P.at
            /\ \A l \in S : l.action = "AUDIT_LOG_PURGE" => l = P
            /\ \A l \in T : l.at >= before \/ l.action = "AUDIT_LOG_PURGE"
            /\ \A l \in S \ T : l.at < before
            /\ TakesUp(prev, S)
        BY <2>1, <2>2, <2>3, <3>1, <3>2, <3>3, <3>4
      <3> HIDE DEF T, before
      <3>6. TakesUp(prev, T)
        BY ONLY <3>5, PurgedChain
      <3> QED
        BY <3>6 DEF T
    <2>4. ASSUME NEW l \in log'
          PROVE  TakesUp(l.prev, Earlier(l)')
      <3>1. l \in log /\ Earlier(l) \in SUBSET log /\ Earlier(l)' = Earlier(l) \cap log'
        BY <1>5 DEF Earlier
      <3> QED
        BY <1>2, <2>3, <3>1
    <2>5. ASSUME NEW q \in Reqs, req'[q].step = "APPEND"
          PROVE  TakesUp(req'[q].prev, log')
      <3>1. CASE req'[q] = req[q]
        <4>1. TakesUp(req[q].prev, log \cap log')
          BY <1>2, <2>3, <2>5, <3>1
        <4>2. log \cap log' = log'
          BY <1>5
        <4> QED
          BY <3>1, <4>1, <4>2
      <3>2. CASE log' = log /\ FollowsLatest(req'[q].prev)
        BY <3>2 DEF FollowsLatest, TakesUp
      <3> QED
        BY <1>a, <2>5, <3>1, <3>2
    <2> QED
      BY <2>4, <2>5
  <1> QED
    BY <1>3, <1>4, <1>5, LogMoves

\* Of a set of at most one element, all elements are one.
LEMMA AtMostOne ==
    ASSUME NEW S, IsFiniteSet(S), Cardinality(S) <= 1
    PROVE  \A x, y \in S : x = y
  <1> SUFFICES ASSUME NEW x \in S, NEW y \in S PROVE x = y
    OBVIOUS
  <1>1. Cardinality(S \ {x}) = Cardinality(S) - 1 /\ IsFiniteSet(S \ {x})
    BY FS_RemoveElement
  <1>2. Cardinality(S) \in Nat /\ Cardinality(S \ {x}) \in Nat
    BY <1>1, FS_CardinalityType
  <1>3. S \ {x} = {}
    BY <1>1, <1>2, FS_EmptySet
  <1> QED
    BY <1>3

\* The chain verifies: the record named is the latest of an earlier time.
LEMMA ChainFollows ==
    ASSUME NEW V, Shaped(V), LogInv, OrderInv, ChainInv
    PROVE  ChainVerifies
  <1> SUFFICES ASSUME \A l, m \in log : l.at = m.at => l = m,
                      Cardinality(Purges) <= 1, \A l \in Purges : l.before <= l.at,
                      NEW l \in log, AlarmAt(l)
               PROVE  FALSE
    BY DEF ChainVerifies
  <1>0. \A m \in log : m.id \in Nat /\ m.at \in Nat
    BY DEF Shaped, Stored, LogRow
  <1>1. PastPurged
    <2>1. IsFiniteSet(Purges)
      BY FS_Subset DEF Purges, OrderInv
    <2> QED
      BY <2>1, AtMostOne DEF PastPurged
  <1>2. TakesUp(l.prev, Earlier(l))
    BY <1>1 DEF ChainInv
  <1>3. \A m \in log : m.at < l.at => m.id < l.id
    BY <1>0 DEF OrderInv
  <1>4. PICK m \in Before(l) : TRUE
    BY DEF AlarmAt
  <1>5. Earlier(l) # {}
    BY <1>3, <1>4 DEF Before, Earlier
  <1>6. PICK p \in Earlier(l) : p.id = l.prev /\ \A k \in Earlier(l) : k.at <= p.at
    BY <1>2, <1>5 DEF TakesUp
  <1>7. p \in log /\ p.id < l.id /\ p.at <= l.at /\ p # l
    BY <1>0, <1>6 DEF Earlier, OrderInv
  <1>8. p.at < l.at
    BY <1>0, <1>7
  <1>9. p \in Latest(Before(l))
    BY <1>3, <1>6, <1>7, <1>8 DEF Latest, Before, Earlier
  <1> QED
    BY <1>6, <1>9 DEF AlarmAt

-----------------------------------------------------------------------------
(* Rows and reversals, coupons and redemptions.                            *)

\* A row that takes back another, in everything that is reported.
Reverses(p, q) ==
    /\ p.kind \in Reversals /\ q.kind \notin Reversals /\ p.of = q.id
    /\ p.amount = q.amount /\ p.method = q.method /\ p.allocated = q.allocated
    /\ p.channel = q.channel

\* Rows are told apart by their number; what is reversed is reversed once, and in full.
RowsInv ==
    /\ IsFiniteSet(rows)
    /\ \A p, q \in rows : p.id = q.id => p = q
    /\ \A p \in rows : IF p.kind \in Reversals THEN \E q \in rows : Reverses(p, q) ELSE p.of = 0
    /\ \A p, q \in rows : p.kind \in Reversals /\ q.kind \in Reversals /\ p.of = q.of => p = q

\* A redemption and the discount it was given for: cancelled only if that is taken
\* back, and of a sale exactly then.
Redeems(d, p) ==
    /\ p.id = d.row /\ p.amount = d.amount /\ p.channel = d.channel /\ CouponDiscount(p)
    /\ d.cancelled => \E q \in rows : q.of = p.id
    /\ p.channel = "COUNTER" /\ (\E q \in rows : q.of = p.id) => d.cancelled

\* What is still to be cancelled was taken back.
UnredeemedInv ==
    \A u \in unredeeming :
        u < nextRow /\ \A p \in rows : p.id = u => \E q \in rows : q.of = u

\* Redemptions and coupon discounts go together, until the coupons are reset.
RedeemedInv ==
    /\ IsFiniteSet(redemptions)
    /\ \A d, e \in redemptions : d.row = e.row => d = e
    /\ \A d \in redemptions : d.at <= now /\ \E p \in rows : Redeems(d, p)
    /\ HasBatch(0) => \A p \in rows : CouponDiscount(p) => \E d \in redemptions : d.row = p.id
    /\ issueKey > 0 /\ \A r \in Reqs : req[r].step = "INSERT" => req[r].batch.key > 0

\* A payment, with nothing or a coupon redeemed for it.
PaidBy(row) ==
    /\ rows' = rows \cup {row} /\ row \in Row
    /\ row.id = nextRow /\ row.at = now /\ row.kind \notin Reversals /\ row.of = 0
    /\ \/ ~CouponDiscount(row) /\ redemptions' = redemptions
       \/ /\ CouponDiscount(row)
          /\ \E d \in Redemption :
                /\ redemptions' = redemptions \cup {d}
                /\ d.row = row.id /\ d.at = now /\ d.amount = row.amount
                /\ d.channel = row.channel /\ d.cancelled = FALSE

\* A reversal, which cancels the redemption of what it takes back, or has it to cancel.
TakenBackBy(row, p) ==
    /\ p \in rows /\ rows' = rows \cup {row} /\ row \in Row
    /\ row.id = nextRow /\ row.at = now /\ Reverses(row, p)
    /\ \A q \in rows : q.of # p.id
    /\ IF p.channel = "COUNTER"
       THEN redemptions' = CancelledFor(p.id) /\ unredeeming' = unredeeming
       ELSE redemptions' = redemptions /\ unredeeming' \subseteq unredeeming \cup {p.id}

\* The rows of some channels and their redemptions go together.
ClearedOf(channels) ==
    /\ rows' = {p \in rows : p.channel \notin channels}
    /\ \/ redemptions' = {d \in redemptions : d.channel \notin channels} /\ batches' = batches
       \/ redemptions' = {} /\ batches' = {}

\* A reversal is in the channel of what it takes back.
LEMMA SameChannel ==
    ASSUME NEW V, Shaped(V), RowsInv, NEW p \in rows, NEW q \in rows, q.of = p.id
    PROVE  q.channel = p.channel
  <1>1. p.id # 0
    BY DEF Shaped, Stored, Row
  <1>2. PICK o \in rows : Reverses(q, o)
    BY <1>1 DEF RowsInv
  <1>3. o.id = p.id
    BY <1>2 DEF Reverses
  <1>4. o = p
    BY <1>3 DEF RowsInv
  <1> QED
    BY <1>2, <1>4 DEF Reverses

\* What becomes of rows and redemptions.
LEMMA LedgerMoves ==
    ASSUME NEW V, Shaped(V), [Next]_vars
    PROVE  \/ UNCHANGED <<rows, redemptions>> /\ unredeeming' \subseteq unredeeming
           \/ \E row : PaidBy(row) /\ UNCHANGED <<batches, unredeeming>>
           \/ \E row, p : TakenBackBy(row, p) /\ UNCHANGED batches
           \/ \E channels : ClearedOf(channels) /\ UNCHANGED unredeeming
           \/ \E id \in unredeeming : CancelRedemption(id)
  <1>0. now \in Nat /\ nextRow \in Nat \ {0} /\ rows \in SUBSET Row
    BY DEF Shaped, Stored
  <1>1. ASSUME NEW t \in Tenders, NEW c \in Coupons \cup {NoCoupon}, RecordPayment(t, c)
        PROVE  \E row : PaidBy(row) /\ UNCHANGED <<batches, unredeeming>>
    <2> DEFINE row == [id |-> nextRow, at |-> now, kind |-> t.kind, method |-> t.method,
                       channel |-> t.channel, amount |-> t.amount,
                       allocated |-> t.allocated, of |-> 0]
               red == [row |-> nextRow, at |-> now, coupon |-> c, channel |-> t.channel,
                       amount |-> t.amount, cancelled |-> FALSE]
    <2>1. /\ row \in Row /\ row.id = nextRow /\ row.at = now /\ row.of = 0
          /\ row.kind = t.kind /\ row.method = t.method /\ row.amount = t.amount
          /\ row.channel = t.channel /\ t.kind \notin Reversals
      BY <1>0 DEF Row, Kinds, Channels, Methods, Reversals
    <2>2. /\ red.row = nextRow /\ red.at = now /\ red.amount = t.amount
          /\ red.channel = t.channel /\ red.cancelled = FALSE
          /\ c \in Coupons => red \in Redemption
      BY <1>0 DEF Redemption, Channels
    <2>3. rows' = rows \cup {row} /\ UNCHANGED <<batches, unredeeming>>
      BY <1>1 DEF RecordPayment
    <2>4. IF CouponDiscount(row) THEN c \in Coupons ELSE c = NoCoupon
      BY <1>1, <2>1 DEF RecordPayment, CouponDiscount
    <2>5. IF c = NoCoupon THEN redemptions' = redemptions
                          ELSE redemptions' = redemptions \cup {red}
      BY <1>1 DEF RecordPayment
    <2>6. c \in Coupons => c # NoCoupon
      BY DEF Coupons, NoCoupon
    <2> HIDE DEF row, red
    <2>7. CASE CouponDiscount(row)
      <3>1. redemptions' = redemptions \cup {red} /\ red \in Redemption
        BY <2>2, <2>4, <2>5, <2>6, <2>7
      <3>2. PaidBy(row)
        BY <2>1, <2>2, <2>3, <2>7, <3>1 DEF PaidBy
      <3> QED
        BY <2>3, <3>2
    <2>8. CASE ~CouponDiscount(row)
      <3>1. PaidBy(row)
        BY <2>1, <2>3, <2>4, <2>5, <2>8 DEF PaidBy
      <3> QED
        BY <2>3, <3>1
    <2> QED
      BY <2>7, <2>8
  <1>2. ASSUME NEW p \in rows, NEW kind \in ReversalKinds, ReversePayment(p, kind)
        PROVE  \E row, q : TakenBackBy(row, q) /\ UNCHANGED batches
    <2> DEFINE row == [p EXCEPT !.id = nextRow, !.at = now, !.kind = kind, !.of = p.id]
    <2>1. /\ row \in Row /\ row.id = nextRow /\ row.at = now /\ row.kind = kind
          /\ row.of = p.id /\ row.amount = p.amount /\ row.method = p.method
          /\ row.allocated = p.allocated /\ row.channel = p.channel /\ kind \in Reversals
      BY <1>0 DEF Row, Kinds
    <2>2. /\ rows' = rows \cup {row} /\ UNCHANGED batches
          /\ p.kind \notin Reversals /\ \A q \in rows : q.of # p.id
          /\ IF p.channel = "COUNTER"
             THEN redemptions' = CancelledFor(p.id) /\ unredeeming' = unredeeming
             ELSE redemptions' = redemptions /\ unredeeming' \subseteq unredeeming \cup {p.id}
      BY <1>2 DEF ReversePayment
    <2> HIDE DEF row
    <2>3. TakenBackBy(row, p)
      BY <2>1, <2>2 DEF TakenBackBy, Reverses
    <2> QED
      BY <2>2, <2>3
  <1>3. ASSUME NEW r \in Reqs, ResetDeletes(r)
        PROVE  \E channels : ClearedOf(channels) /\ UNCHANGED unredeeming
    <2>1. /\ rows' = {p \in rows : p.channel \notin Cleared(req[r].scopes)}
          /\ IF "coupons" \in req[r].scopes
             THEN redemptions' = {} /\ batches' = {}
             ELSE /\ redemptions' = {d \in redemptions :
                                        d.channel \notin Cleared(req[r].scopes)}
                  /\ batches' = batches
          /\ UNCHANGED unredeeming
      BY <1>3 DEF ResetDeletes
    <2>2. ClearedOf(Cleared(req[r].scopes))
      BY <2>1 DEF ClearedOf
    <2> QED
      BY <2>1, <2>2
  <1>4. ASSUME NEW r \in Reqs,
               \/ IssueCommits(r) \/ CancelCoupons(r)
               \/ \E lost \in BOOLEAN : IssueAnswered(r, lost)
        PROVE  UNCHANGED <<rows, redemptions, unredeeming>>
    BY <1>4 DEF IssueCommits, CancelCoupons, IssueAnswered
  <1> QED
    BY <1>1, <1>2, <1>3, <1>4, Frames DEF recorded

\* Every step keeps the rows apart: what is reversed is not reversed yet.
LEMMA RowsKept ==
    ASSUME NEW V, Shaped(V), Dated, RowsInv, [Next]_vars
    PROVE  RowsInv'
  <1>0. /\ nextRow \in Nat \ {0} /\ rows \in SUBSET Row
        /\ \A p \in rows : p.id \in Nat \ {0} /\ p.id < nextRow
    BY DEF Shaped, Stored, Row, Dated
  <1>1. CASE UNCHANGED rows
    BY <1>1 DEF RowsInv, Reverses
  <1>2. ASSUME NEW row, PaidBy(row)
        PROVE  RowsInv'
    <2>1. /\ rows' = rows \cup {row} /\ row.id = nextRow /\ row.of = 0
          /\ row.kind \notin Reversals
      BY <1>2 DEF PaidBy
    <2>2. IsFiniteSet(rows')
      BY <2>1, FS_AddElement DEF RowsInv
    <2>3. \A p, q \in rows' : p.id = q.id => p = q
      BY <1>0, <2>1 DEF RowsInv
    <2>4. \A p \in rows' : IF p.kind \in Reversals THEN \E q \in rows' : Reverses(p, q)
                                                  ELSE p.of = 0
      BY <2>1 DEF RowsInv
    <2>5. \A p, q \in rows' : p.kind \in Reversals /\ q.kind \in Reversals /\ p.of = q.of
                                  => p = q
      BY <2>1 DEF RowsInv
    <2> QED
      BY <2>2, <2>3, <2>4, <2>5 DEF RowsInv
  <1>3. ASSUME NEW row, NEW o, TakenBackBy(row, o)
        PROVE  RowsInv'
    <2>1. /\ rows' = rows \cup {row} /\ row.id = nextRow /\ o \in rows /\ Reverses(row, o)
          /\ \A q \in rows : q.of # o.id
      BY <1>3 DEF TakenBackBy
    <2>2. IsFiniteSet(rows')
      BY <2>1, FS_AddElement DEF RowsInv
    <2>3. \A p, q \in rows' : p.id = q.id => p = q
      BY <1>0, <2>1 DEF RowsInv
    <2>a. row.of = o.id /\ row.kind \in Reversals
      BY <2>1 DEF Reverses
    <2>4. \A p \in rows' : IF p.kind \in Reversals THEN \E q \in rows' : Reverses(p, q)
                                                  ELSE p.of = 0
      BY <2>1, <2>a DEF RowsInv
    <2>5. \A p, q \in rows' : p.kind \in Reversals /\ q.kind \in Reversals /\ p.of = q.of
                                  => p = q
      BY <2>1, <2>a DEF RowsInv
    <2> QED
      BY <2>2, <2>3, <2>4, <2>5 DEF RowsInv
  <1>4. ASSUME NEW channels, ClearedOf(channels)
        PROVE  RowsInv'
    <2>1. rows' = {p \in rows : p.channel \notin channels}
      BY <1>4 DEF ClearedOf
    <2>2. IsFiniteSet(rows')
      BY <2>1, FS_Subset DEF RowsInv
    <2>3. ASSUME NEW p \in rows', p.kind \in Reversals
          PROVE  \E q \in rows' : Reverses(p, q)
      <3>1. PICK q \in rows : Reverses(p, q)
        BY <2>1, <2>3 DEF RowsInv
      <3>2. q \in rows'
        BY <2>1, <3>1 DEF Reverses
      <3> QED
        BY <3>1, <3>2
    <2> QED
      BY <2>1, <2>2, <2>3 DEF RowsInv
  <1> QED
    BY <1>1, <1>2, <1>3, <1>4, LedgerMoves DEF CancelRedemption

\* Every step keeps what is still to be cancelled taken back.
LEMMA UnredeemedKept ==
    ASSUME NEW V, Shaped(V), Dated, RowsInv, UnredeemedInv, [Next]_vars
    PROVE  UnredeemedInv'
  <1>0. /\ nextRow \in Nat \ {0} /\ rows \in SUBSET Row /\ unredeeming \in SUBSET Nat
        /\ \A p \in rows : p.id \in Nat /\ p.id < nextRow
    BY DEF Shaped, Stored, Row, Dated
  <1>a. nextRow' \in Nat /\ nextRow <= nextRow'
    BY <1>0, RowsMove
  <1>b. \A u \in unredeeming : u \in Nat /\ u < nextRow /\ u < nextRow' /\ u # nextRow
    BY <1>0, <1>a DEF UnredeemedInv
  <1>1. CASE UNCHANGED rows /\ unredeeming' \subseteq unredeeming
    BY <1>1, <1>b DEF UnredeemedInv
  <1>2. ASSUME NEW row, PaidBy(row), UNCHANGED unredeeming
        PROVE  UnredeemedInv'
    BY <1>b, <1>2 DEF PaidBy, UnredeemedInv
  <1>3. ASSUME NEW row, NEW o, TakenBackBy(row, o)
        PROVE  UnredeemedInv'
    <2>1. /\ rows' = rows \cup {row} /\ row.id = nextRow /\ o \in rows /\ row.of = o.id
          /\ unredeeming' \subseteq unredeeming \cup {o.id}
      BY <1>3 DEF TakenBackBy, Reverses
    <2>2. o.id < nextRow' /\ o.id # nextRow
      BY <1>0, <1>a, <2>1
    <2> QED
      BY <1>b, <2>1, <2>2 DEF UnredeemedInv
  <1>4. ASSUME NEW channels, ClearedOf(channels), UNCHANGED unredeeming
        PROVE  UnredeemedInv'
    <2>1. rows' = {p \in rows : p.channel \notin channels}
      BY <1>4 DEF ClearedOf
    <2>2. ASSUME NEW u \in unredeeming, NEW p \in rows', p.id = u
          PROVE  \E q \in rows' : q.of = u
      <3>1. p \in rows /\ p.channel \notin channels
        BY <2>1
      <3>2. PICK q \in rows : q.of = u
        BY <2>2, <3>1 DEF UnredeemedInv
      <3>3. q.channel = p.channel
        BY <1>0, <2>2, <3>1, <3>2, SameChannel
      <3> QED
        BY <2>1, <3>1, <3>2, <3>3
    <2> QED
      BY <1>4, <1>b, <2>2 DEF UnredeemedInv
  <1>5. ASSUME NEW id \in unredeeming, CancelRedemption(id)
        PROVE  UnredeemedInv'
    BY <1>1, <1>5 DEF CancelRedemption
  <1> QED
    BY <1>1, <1>2, <1>3, <1>4, <1>5, LedgerMoves

\* Every step keeps redemptions and discounts together.
LEMMA RedeemedKept ==
    ASSUME NEW V, Shaped(V), Dated, RowsInv, RedeemedInv, UnredeemedInv, [Next]_vars
    PROVE  RedeemedInv'
  <1>0. /\ nextRow \in Nat \ {0} /\ rows \in SUBSET Row /\ redemptions \in SUBSET Redemption
        /\ now \in Nat /\ now' \in Nat /\ now <= now'
        /\ \A p \in rows : p.id \in Nat \ {0} /\ p.id < nextRow /\ p.of \in Nat
        /\ \A d \in redemptions : d.at \in Nat /\ d.row \in Nat /\ d.cancelled \in BOOLEAN
    BY SMTT(60), Frames DEF Shaped, Stored, Row, Redemption, Dated
  <1>a. \A p \in rows : p.of < nextRow
    <2>1. \A p \in rows : p.of = 0 \/ \E q \in rows : p.of = q.id
      BY DEF RowsInv, Reverses
    <2> QED
      BY <1>0, <2>1
  <1>b. \A d \in redemptions : d.row < nextRow
    BY <1>0 DEF RedeemedInv, Redeems
  <1>1. issueKey' > 0
    <2>1. ASSUME NEW r \in Reqs, NEW lost \in BOOLEAN, IssueAnswered(r, lost)
          PROVE  issueKey' \in {issueKey, issueKey + 1}
      BY <2>1 DEF IssueAnswered
    <2>2. ASSUME NEW r \in Reqs, ResetDeletes(r) \/ IssueCommits(r) \/ CancelCoupons(r)
          PROVE  issueKey' = issueKey
      BY <2>2 DEF ResetDeletes, IssueCommits, CancelCoupons
    <2>3. issueKey' \in {issueKey, issueKey + 1}
      BY <2>1, <2>2, Frames DEF RecordPayment, ReversePayment, CancelRedemption, recorded
    <2>4. issueKey \in Nat /\ issueKey > 0
      BY DEF Shaped, Stored, RedeemedInv
    <2> QED
      BY <2>3, <2>4
  <1>2. ASSUME NEW q \in Reqs, req'[q].step = "INSERT"
        PROVE  req'[q].batch.key > 0
    <2>1. CASE req'[q] = req[q]
      BY <1>2, <2>1 DEF RedeemedInv
    <2>2. CASE req'[q] = Idle
      BY <1>2, <2>2 DEF Idle
    <2>3. CASE Begins(req'[q])
      BY <1>2, <2>3 DEF Begins, RedeemedInv
    <2>4. CASE Went(q, req'[q])
      BY <1>2, <2>4 DEF Went
    <2> QED
      BY <2>1, <2>2, <2>3, <2>4, RequestsMove
  <1>3. CASE UNCHANGED <<rows, redemptions>>
    <2>1. HasBatch(0)' => HasBatch(0)
      <3>1. ASSUME NEW r \in Reqs, IssueCommits(r)
            PROVE  HasBatch(0)' => HasBatch(0)
        <4> DEFINE b == [req[r].batch EXCEPT !.ids = AllocateCodes(req[r].batch.count)]
        <4>1. batches' = batches \/ (req[r].step = "INSERT" /\ batches' = batches \cup {b})
          BY <3>1 DEF IssueCommits
        <4>2. b.key = req[r].batch.key /\ req[r].batch.key \in Nat
          BY DEF Shaped, Request, Batch
        <4>3. req[r].step = "INSERT" => b.key # 0
          BY <4>2, SMTT(60) DEF RedeemedInv
        <4> HIDE DEF b
        <4> QED
          BY <4>1, <4>3 DEF HasBatch
      <3>2. ASSUME \/ \E r \in Reqs : ResetDeletes(r) \/ CancelCoupons(r)
                   \/ \E r \in Reqs, lost \in BOOLEAN : IssueAnswered(r, lost)
                   \/ \E t \in Tenders, c \in Coupons \cup {NoCoupon} : RecordPayment(t, c)
                   \/ \E p \in rows, kind \in ReversalKinds : ReversePayment(p, kind)
                   \/ \E id \in unredeeming : CancelRedemption(id)
            PROVE  batches' \subseteq batches
        BY <3>2 DEF ResetDeletes, CancelCoupons, IssueAnswered, RecordPayment, ReversePayment,
                    CancelRedemption
      <3>3. CASE UNCHANGED recorded
        BY <3>3 DEF recorded, HasBatch
      <3> QED
        BY <3>1, <3>2, <3>3, Frames DEF HasBatch
    <2>2. \A d \in redemptions' : d.at <= now' /\ \E p \in rows' : Redeems(d, p)'
      BY <1>0, <1>3 DEF RedeemedInv, Redeems
    <2> QED
      BY <1>1, <1>2, <1>3, <2>1, <2>2 DEF RedeemedInv
  <1>4. ASSUME NEW row, PaidBy(row), UNCHANGED batches
        PROVE  RedeemedInv'
    <2>1. /\ rows' = rows \cup {row} /\ row.id = nextRow /\ row.of = 0
      BY <1>4 DEF PaidBy
    <2>2. ASSUME NEW d \in redemptions
          PROVE  d.at <= now' /\ \E p \in rows' : Redeems(d, p)'
      <3>1. PICK p \in rows : Redeems(d, p)
        BY DEF RedeemedInv
      <3>2. (\E q \in rows' : q.of = p.id) <=> \E q \in rows : q.of = p.id
        BY <1>0, <2>1
      <3>3. Redeems(d, p)'
        BY <3>1, <3>2 DEF Redeems
      <3> QED
        BY <1>0, <2>1, <3>3 DEF RedeemedInv
    <2>3. CASE ~CouponDiscount(row) /\ redemptions' = redemptions
      <3>1. \A p \in rows' : CouponDiscount(p) => p \in rows
        BY <2>1, <2>3
      <3> QED
        BY <1>1, <1>2, <1>4, <2>1, <2>2, <2>3, <3>1, FS_AddElement DEF RedeemedInv, HasBatch
    <2>4. ASSUME CouponDiscount(row), NEW d \in Redemption,
                 redemptions' = redemptions \cup {d}, d.row = row.id, d.at = now,
                 d.amount = row.amount, d.channel = row.channel, d.cancelled = FALSE
          PROVE  RedeemedInv'
      <3>1. IsFiniteSet(redemptions')
        BY <2>4, FS_AddElement DEF RedeemedInv
      <3>2. \A e, f \in redemptions' : e.row = f.row => e = f
        BY <1>0, <1>b, <2>1, <2>4 DEF RedeemedInv
      <3>3. ~ \E q \in rows' : q.of = row.id
        BY <1>0, <1>a, <2>1
      <3>4. Redeems(d, row)'
        BY <2>4, <3>3 DEF Redeems, CouponDiscount
      <3>5. \A e \in redemptions' : e.at <= now' /\ \E p \in rows' : Redeems(e, p)'
        BY <1>0, <2>1, <2>2, <2>4, <3>4
      <3>6. HasBatch(0)' => \A p \in rows' : CouponDiscount(p) =>
                                \E e \in redemptions' : e.row = p.id
        BY <1>4, <2>1, <2>4 DEF RedeemedInv, HasBatch
      <3> QED
        BY <1>1, <1>2, <3>1, <3>2, <3>5, <3>6 DEF RedeemedInv
    <2> QED
      BY <1>4, <2>3, <2>4 DEF PaidBy
  <1>5. ASSUME NEW row, NEW o, TakenBackBy(row, o), UNCHANGED batches
        PROVE  RedeemedInv'
    <2>1. /\ rows' = rows \cup {row} /\ row.of = o.id /\ o \in rows /\ row.kind \in Reversals
      BY <1>5 DEF TakenBackBy, Reverses
    <2>2. \/ o.channel = "COUNTER" /\ redemptions' = CancelledFor(o.id)
          \/ o.channel # "COUNTER" /\ redemptions' = redemptions
      BY <1>5 DEF TakenBackBy
    <2>3. ASSUME NEW d \in redemptions, NEW e, e.at = d.at, e.row = d.row,
                 e.amount = d.amount, e.channel = d.channel,
                 IF o.channel = "COUNTER" THEN e.cancelled <=> d.cancelled \/ d.row = o.id
                                          ELSE e.cancelled = d.cancelled
          PROVE  e.at <= now' /\ \E p \in rows' : Redeems(e, p)'
      <3>1. PICK p \in rows : Redeems(d, p)
        BY DEF RedeemedInv
      <3>2. (\E q \in rows' : q.of = p.id) <=> (\E q \in rows : q.of = p.id) \/ o.id = p.id
        BY <2>1
      <3>3. o.id = p.id => o = p
        BY <2>1 DEF RowsInv
      <3>4. e.cancelled => \E q \in rows' : q.of = p.id
        BY <2>3, <3>1, <3>2 DEF Redeems
      <3>5. p.channel = "COUNTER" /\ (\E q \in rows' : q.of = p.id) => e.cancelled
        BY <2>3, <3>1, <3>2, <3>3 DEF Redeems
      <3>6. Redeems(e, p)'
        BY <2>3, <3>1, <3>4, <3>5 DEF Redeems
      <3>7. d.at <= now'
        BY <1>0 DEF RedeemedInv
      <3> QED
        BY <2>1, <2>3, <3>6, <3>7
    <2>4. \A e \in redemptions' : e.at <= now' /\ \E p \in rows' : Redeems(e, p)'
      <3>1. CASE o.channel = "COUNTER" /\ redemptions' = CancelledFor(o.id)
        BY <2>3, <3>1, CancelledFollows DEF Follows
      <3>2. CASE o.channel # "COUNTER" /\ redemptions' = redemptions
        BY <2>3, <3>2
      <3> QED
        BY <2>2, <3>1, <3>2
    <2>5. /\ IsFiniteSet(redemptions') /\ \A d, e \in redemptions' : d.row = e.row => d = e
          /\ \A e \in redemptions : \E d \in redemptions' : d.row = e.row
      BY <2>2, CancelledFollows DEF RedeemedInv, Follows
    <2>6. \A p \in rows' : CouponDiscount(p) => p \in rows
      BY <2>1 DEF CouponDiscount, Reversals
    <2>7. HasBatch(0)' => \A p \in rows' : CouponDiscount(p) =>
                              \E d \in redemptions' : d.row = p.id
      BY <1>5, <2>5, <2>6 DEF RedeemedInv, HasBatch
    <2> QED
      BY <1>1, <1>2, <2>4, <2>5, <2>7 DEF RedeemedInv
  <1>6. ASSUME NEW channels, ClearedOf(channels)
        PROVE  RedeemedInv'
    <2>1. rows' = {p \in rows : p.channel \notin channels}
      BY <1>6 DEF ClearedOf
    <2>2. CASE redemptions' = {} /\ batches' = {}
      BY <1>1, <1>2, <2>2, FS_EmptySet DEF RedeemedInv, HasBatch
    <2>3. CASE redemptions' = {d \in redemptions : d.channel \notin channels}
               /\ batches' = batches
      <3>1. ASSUME NEW d \in redemptions'
            PROVE  d.at <= now' /\ \E p \in rows' : Redeems(d, p)'
        <4>1. PICK p \in rows : Redeems(d, p)
          BY <2>3 DEF RedeemedInv
        <4>2. p \in rows' /\ p.kind = "DISCOUNT"
          BY <2>1, <2>3, <4>1 DEF Redeems, CouponDiscount
        <4>3. (\E q \in rows : q.of = p.id) => \E q \in rows' : q.of = p.id
          BY <2>1, <4>2, SameChannel
        <4>4. Redeems(d, p)'
          BY <2>1, <4>1, <4>3 DEF Redeems
        <4> QED
          BY <1>0, <2>3, <4>2, <4>4 DEF RedeemedInv
      <3>2. IsFiniteSet(redemptions')
        BY <2>3, FS_Subset DEF RedeemedInv
      <3>3. ASSUME HasBatch(0)', NEW p \in rows', CouponDiscount(p)
            PROVE  \E d \in redemptions' : d.row = p.id
        <4>1. PICK d \in redemptions : d.row = p.id
          BY <2>1, <2>3, <3>3 DEF RedeemedInv, HasBatch
        <4>2. PICK q \in rows : Redeems(d, q)
          BY DEF RedeemedInv
        <4>3. q = p
          BY <2>1, <4>1, <4>2 DEF Redeems, RowsInv
        <4> QED
          BY <2>1, <2>3, <4>1, <4>2, <4>3 DEF Redeems
      <3> QED
        BY <1>1, <1>2, <2>3, <3>1, <3>2, <3>3 DEF RedeemedInv
    <2> QED
      BY <1>6, <2>2, <2>3 DEF ClearedOf
  <1>7. ASSUME NEW id \in unredeeming, CancelRedemption(id)
        PROVE  RedeemedInv'
    <2>1. redemptions' = CancelledFor(id) /\ UNCHANGED <<rows, batches>>
      BY <1>7 DEF CancelRedemption
    <2>2. ASSUME NEW e \in redemptions'
          PROVE  e.at <= now' /\ \E p \in rows' : Redeems(e, p)'
      <3>1. PICK d \in redemptions : Follows(e, d, id)
        BY <2>1, CancelledFollows
      <3>2. PICK p \in rows : Redeems(d, p)
        BY DEF RedeemedInv
      <3>3. p.id = id => \E q \in rows : q.of = p.id
        BY DEF UnredeemedInv
      <3>4. Redeems(e, p)'
        BY <2>1, <3>1, <3>2, <3>3 DEF Redeems, Follows
      <3>5. d.at <= now'
        BY <1>0 DEF RedeemedInv
      <3> QED
        BY <2>1, <3>1, <3>4, <3>5 DEF Follows
    <2>3. /\ IsFiniteSet(redemptions') /\ \A d, e \in redemptions' : d.row = e.row => d = e
          /\ \A e \in redemptions : \E d \in redemptions' : d.row = e.row
      BY <2>1, CancelledFollows DEF RedeemedInv, Follows
    <2>4. HasBatch(0)' => \A p \in rows' : CouponDiscount(p) =>
                              \E d \in redemptions' : d.row = p.id
      BY <2>1, <2>3 DEF RedeemedInv, HasBatch
    <2> QED
      BY <1>1, <1>2, <2>2, <2>3, <2>4 DEF RedeemedInv
  <1> QED
    BY <1>3, <1>4, <1>5, <1>6, <1>7, LedgerMoves

-----------------------------------------------------------------------------
(* A closing takes up behind those on record when it was begun.            *)

\* Closings have the shape of figures.
LEMMA ClosingShapes ==
    ASSUME NEW V, Shaped(V)
    PROVE  \A i \in DOMAIN closings : closings[i] \in SumsOf(V)
  <1>1. closings \in Seq(SumsOf(V))
    BY DEF Shaped, Stored
  <1> QED
    BY <1>1, LenProperties

\* A closing on record was there, or is recorded by this step.
LEMMA ClosingsGrow ==
    ASSUME NEW V, Shaped(V), [Next]_vars
    PROVE  /\ nextClosing' \in {nextClosing, nextClosing + 1}
           /\ \A i \in DOMAIN closings' :
                 \/ i \in DOMAIN closings /\ closings'[i] = closings[i]
                 \/ /\ nextClosing' = nextClosing + 1
                    /\ \E r \in Reqs : /\ req[r].step = "RECORD"
                                       /\ closings'[i] = Recorded(req[r].sums)
  <1>0. /\ closings \in Seq(SumsOf(V)) /\ \A r \in Reqs : req[r].sums \in SumsOf(V)
        /\ DOMAIN closings = 1..Len(closings) /\ Len(closings) \in Nat
    BY LenProperties DEF Shaped, Stored, Request
  <1>1. CASE UNCHANGED closingVars
    BY <1>1 DEF closingVars
  <1>2. ASSUME NEW r \in Reqs, CloseRecords(r)
        PROVE  /\ nextClosing' = nextClosing + 1
               /\ \A i \in DOMAIN closings' :
                     \/ i \in DOMAIN closings /\ closings'[i] = closings[i]
                     \/ req[r].step = "RECORD" /\ closings'[i] = Recorded(req[r].sums)
    <2> DEFINE s == Recorded(req[r].sums)
    <2>1. /\ closings' = Append(closings, s) /\ nextClosing' = nextClosing + 1
          /\ req[r].step = "RECORD"
      BY <1>2 DEF CloseRecords
    <2>2. s \in SumsOf(V)
      BY <1>0, RecordedSame
    <2> HIDE DEF s
    <2>3. /\ DOMAIN closings' = 1..(Len(closings) + 1)
          /\ closings'[Len(closings) + 1] = s
          /\ \A j \in DOMAIN closings : closings'[j] = closings[j]
      BY <1>0, <2>1, <2>2, AppendProperties, LenProperties
    <2>4. \A i \in DOMAIN closings' : i \in DOMAIN closings \/ i = Len(closings) + 1
      BY <1>0, <2>3
    <2> QED
      BY <2>1, <2>3, <2>4 DEF s
  <1>3. ASSUME NEW r \in Reqs, ResetDeletes(r)
        PROVE  /\ nextClosing' = nextClosing
               /\ \A i \in DOMAIN closings' : i \in DOMAIN closings /\ closings'[i] = closings[i]
    <2>1. nextClosing' = nextClosing /\ (closings' = closings \/ closings' = << >>)
      BY <1>3 DEF ResetDeletes
    <2>2. DOMAIN << >> = {}
      BY EmptySeq, LenProperties
    <2> QED
      BY <2>1, <2>2
  <1> QED
    BY <1>1, <1>2, <1>3, Frames

\* What was counted is dated in the window, which begins behind the closings that were
\* on record when this one was begun.
Takes(s) ==
    /\ s.after <= nextClosing
    /\ \A i \in DOMAIN closings : closings[i].id < s.after => closings[i].upto <= s.from
    /\ \A id \in s.counted : id < nextRow
    /\ \A p \in rows : p.id \in s.counted => s.from <= p.at /\ p.at <= s.upto

ClosingsApart ==
    /\ \A i \in DOMAIN closings : \A s \in {closings[i]} : s.id < nextClosing /\ Takes(s)
    /\ \A r \in Reqs : \A s \in {req[r].sums} : Closing(r) => Takes(s)

\* What takes up so goes on to: a later closing has a later number, a later row too.
LEMMA TakesKept ==
    ASSUME NEW V, Shaped(V), ClosingsApart, [Next]_vars, NEW W, NEW s \in SumsOf(W), Takes(s)
    PROVE  Takes(s)'
  <1>0. /\ nextClosing \in Nat /\ nextRow \in Nat /\ s.after \in Nat /\ s.counted \subseteq Nat
        /\ \A r \in Reqs : req[r].sums \in SumsOf(V)
    BY DEF Shaped, Stored, Request, SumsOf
  <1>1. s.after <= nextClosing'
    BY <1>0, ClosingsGrow DEF Takes
  <1>2. ASSUME NEW i \in DOMAIN closings', closings'[i].id < s.after
        PROVE  closings'[i].upto <= s.from
    <2>1. CASE i \in DOMAIN closings /\ closings'[i] = closings[i]
      BY <1>2, <2>1 DEF Takes
    <2>2. ASSUME NEW r \in Reqs, closings'[i] = Recorded(req[r].sums)
          PROVE  FALSE
      <3>1. closings'[i].id = nextClosing
        BY <1>0, <2>2, RecordedSame
      <3> QED
        BY <1>0, <1>2, <3>1 DEF Takes
    <2> QED
      BY <2>1, <2>2, ClosingsGrow
  <1>3. nextRow <= nextRow' /\ nextRow' \in Nat
    BY <1>0, RowsMove
  <1>4. \A id \in s.counted : id < nextRow'
    BY <1>0, <1>3 DEF Takes
  <1>5. \A p \in rows' : p.id \in s.counted => p \in rows
    BY <1>0, RowsMove DEF Takes
  <1> QED
    BY <1>1, <1>2, <1>4, <1>5 DEF Takes

\* Every step keeps it: a closing begins where the last one on record ended, and counts
\* the rows of its window.
LEMMA ApartKept ==
    ASSUME NEW V, Shaped(V), Dated, RowsInv, ClosingsApart, [Next]_vars
    PROVE  ClosingsApart'
  <1>0. /\ nextClosing \in Nat /\ now \in Nat
        /\ \A r \in Reqs : req[r].sums \in SumsOf(V)
    BY DEF Shaped, Stored, Request
  <1>a. PICK W : Shaped(W)'
    BY ShapedKept
  <1>1. ASSUME NEW i \in DOMAIN closings', NEW c, c = closings'[i]
        PROVE  c.id < nextClosing' /\ Takes(c)'
    <2>1. CASE i \in DOMAIN closings /\ closings'[i] = closings[i]
      <3>1. c \in SumsOf(V) /\ c.id < nextClosing /\ Takes(c)
        BY <1>1, <2>1, ClosingShapes DEF ClosingsApart
      <3>2. c.id < nextClosing'
        BY <1>0, <3>1, ClosingsGrow DEF SumsOf
      <3> QED
        BY <3>1, <3>2, TakesKept
    <2>2. ASSUME NEW r \in Reqs, req[r].step = "RECORD", c = Recorded(req[r].sums),
                 nextClosing' = nextClosing + 1
          PROVE  c.id < nextClosing' /\ Takes(c)'
      <3>1. ASSUME NEW s, s = req[r].sums
            PROVE  Takes(s)' /\ s \in SumsOf(V)
        BY <1>0, <2>2, <3>1, TakesKept DEF ClosingsApart, Closing
      <3>2. ASSUME NEW s, s = req[r].sums
            PROVE  /\ c.id = nextClosing /\ c.from = s.from /\ c.upto = s.upto
                   /\ c.after = s.after /\ c.counted = s.counted
        BY <1>0, <2>2, <3>2, RecordedSame
      <3>3. PICK s : s = req[r].sums
        OBVIOUS
      <3>4. c.id < nextClosing'
        BY <1>0, <2>2, <3>2
      <3>5. Takes(c)'
        BY <3>1, <3>2, <3>3 DEF Takes
      <3> QED
        BY <3>4, <3>5
    <2> QED
      BY <1>1, <2>1, <2>2, ClosingsGrow
  <1>2. ASSUME NEW q \in Reqs, Closing(q)', NEW x, x = req'[q].sums
        PROVE  Takes(x)'
    <2>1. CASE req'[q] = req[q]
      <3>1. x \in SumsOf(V) /\ Takes(x)
        BY <1>0, <1>2, <2>1 DEF ClosingsApart, Closing
      <3> QED
        BY <3>1, TakesKept
    <2>2. CASE req'[q] = Idle
      BY <1>2, <2>2 DEF Closing, Idle
    <2>3. CASE Begins(req'[q]) /\ UNCHANGED <<now, ledgerVars, closingVars>>
      <3>1. /\ x.from = WindowStart /\ x.counted = {} /\ x.after = nextClosing
            /\ closings' = closings /\ nextClosing' = nextClosing
        BY <1>2, <2>3 DEF Begins, Closing, closingVars
      <3>2. \A i \in DOMAIN closings : closings[i].upto <= WindowStart
        BY WindowStarts
      <3> QED
        BY <1>0, <3>1, <3>2 DEF Takes
    <2>4. CASE Continues(q) /\ Went(q, req'[q])
      <3>1. /\ req'[q].step \in {"ALLOCATIONS", "RECORD"} /\ Closing(q)
            /\ x.from = req[q].sums.from /\ x.upto = req[q].sums.upto
            /\ x.after = req[q].sums.after
        BY <1>2, <2>4 DEF Went, Closing
      <3>2. Takes(req[q].sums) /\ x \in SumsOf(W)
        BY <1>a, <1>2, <3>1 DEF ClosingsApart, Shaped, Request
      <3>3. Takes(x)
        <4>1. CASE req'[q].step = "RECORD"
          <5>1. x.counted = req[q].sums.counted
            BY <1>2, <2>4, <4>1 DEF Went
          <5> QED
            BY <3>1, <3>2, <5>1 DEF Takes
        <4>2. CASE req'[q].step = "ALLOCATIONS"
          <5>1. x.counted = {p.id : p \in InWindow(rows, x.from, x.upto)}
            BY <1>2, <2>4, <4>2 DEF Went
          <5>2. \A p \in rows : p.id \in x.counted => x.from <= p.at /\ p.at <= x.upto
            BY <5>1 DEF InWindow, RowsInv
          <5>3. \A id \in x.counted : id < nextRow
            BY <5>1 DEF InWindow, Dated
          <5> QED
            BY <3>1, <3>2, <5>2, <5>3 DEF Takes
        <4> QED
          BY <3>1, <4>1, <4>2
      <3> QED
        BY <3>2, <3>3, TakesKept
    <2> QED
      BY <2>1, <2>2, <2>3, <2>4, RequestsMove
  <1> QED
    BY <1>1, <1>2 DEF ClosingsApart

-----------------------------------------------------------------------------
(* The figures of a closing.                                               *)

\* No row is missing, and none is dated at the very end of the window.
Undisturbed(s) == {p.id : p \in rows} = 1..(nextRow - 1) /\ \A p \in rows : p.at # s.upto

Figured(s) ==
    LET again == Summary(rows, s.from, s.upto)
    IN  s.revenue = Revenue(again) /\ s.cash = ExpectedCash(again)

Allotted(s) == s.menu = MenuPaid(rows, s.from, s.upto)

\* What was added up for a closing, recorded or under way, would be added up again.
FiguresInv ==
    /\ \A i \in DOMAIN closings : \A s \in {closings[i]} :
          Undisturbed(s) => Figured(s) /\ Allotted(s)
    /\ \A r \in Reqs : \A s \in {req[r].sums} :
          req[r].step \in {"ALLOCATIONS", "RECORD"} /\ Undisturbed(s) =>
              Figured(s) /\ (req[r].step = "RECORD" => Allotted(s))

\* A row has its original among any rows that hold all it may refer to.
LEMMA OriginalStays ==
    ASSUME RowsInv, NEW W, rows \subseteq W, \A p \in W \ rows : \A q \in rows : p.id # q.id,
           NEW p \in rows
    PROVE  /\ Original(W, p) = Original(rows, p) /\ Original(rows, p) \in rows
           /\ p.kind \in Reversals => Reverses(p, Original(rows, p))
           /\ p.kind \notin Reversals => Original(rows, p) = p
  <1>1. CASE p.kind \notin Reversals
    BY <1>1 DEF Original
  <1>2. CASE p.kind \in Reversals
    <2>1. PICK q \in rows : Reverses(p, q)
      BY <1>2 DEF RowsInv
    <2>2. q.id = p.of /\ \A o \in rows : o.id = p.of => o = q
      BY <2>1 DEF Reverses, RowsInv
    <2>3. \A o \in W : o.id = p.of => o = q
      BY <2>2
    <2>4. (CHOOSE o \in rows : o.id = p.of) = q
      BY <2>2
    <2>5. (CHOOSE o \in W : o.id = p.of) = q
      BY <2>2, <2>3
    <2> QED
      BY <1>2, <2>1, <2>4, <2>5 DEF Original
  <1> QED
    BY <1>1, <1>2

\* As long as it is undisturbed, a window of the past is not touched: its rows are
\* there, and their originals.
LEMMA WindowStays ==
    ASSUME NEW V, Shaped(V), Dated, RowsInv, [Next]_vars, NEW from, NEW upto \in Nat, upto <= now,
           {p.id : p \in rows'} = 1..(nextRow' - 1), \A p \in rows' : p.at # upto
    PROVE  /\ {p.id : p \in rows} = 1..(nextRow - 1) /\ \A p \in rows : p.at # upto
           /\ Summary(rows', from, upto) = Summary(rows, from, upto)
           /\ MenuPaid(rows', from, upto) = MenuPaid(rows, from, upto)
  <1>0. /\ now \in Nat /\ nextRow \in Nat \ {0} /\ rows \in SUBSET Row
        /\ \A p \in rows : p.id \in Nat \ {0} /\ p.id < nextRow /\ p.at \in Nat
    BY DEF Shaped, Stored, Row, Dated
  <1>1. CASE rows' \subseteq rows /\ nextRow' = nextRow
    <2>1. \A p \in rows : p.id \in 1..(nextRow - 1)
      BY <1>0
    <2>2. \A p \in rows : \E q \in rows' : q.id = p.id
      BY <1>1, <2>1
    <2>3. ASSUME NEW p \in rows
          PROVE  p \in rows'
      <3>1. PICK q \in rows' : q.id = p.id
        BY <2>2
      <3>2. q \in rows
        BY <1>1
      <3> QED
        BY <3>1, <3>2 DEF RowsInv
    <2>4. rows' = rows
      BY <1>1, <2>3
    <2> QED
      BY <1>1, <2>4, Zenon
  <1>2. ASSUME NEW row \in Row, rows' = rows \cup {row}, nextRow' = nextRow + 1,
               row.id = nextRow, row.at = now
        PROVE  /\ {p.id : p \in rows} = 1..(nextRow - 1) /\ \A p \in rows : p.at # upto
               /\ Summary(rows', from, upto) = Summary(rows, from, upto)
               /\ MenuPaid(rows', from, upto) = MenuPaid(rows, from, upto)
    <2>1. upto < now
      BY <1>0, <1>2
    <2>a. ~(row.at <= upto)
      BY <1>0, <1>2, <2>1
    <2>2. InWindow(rows', from, upto) = InWindow(rows, from, upto)
      <3>1. \A p \in rows' : p.at <= upto => p \in rows
        BY <1>2, <2>a
      <3>2. rows \subseteq rows'
        BY <1>2
      <3> QED
        BY ONLY <3>1, <3>2 DEF InWindow
    <2>3. \A p \in rows : Original(rows', p) = Original(rows, p)
      BY <1>0, <1>2, OriginalStays
    <2> DEFINE w == InWindow(rows, from, upto)
    <2>4. \A p \in w : p \in rows
      BY DEF InWindow
    <2>5. Takings(rows', w) = Takings(rows, w) /\ Waived(rows', w) = Waived(rows, w)
      BY <2>3, <2>4 DEF Takings, Waived, IsDiscount
    <2>6. ByCoupon(rows', w) = ByCoupon(rows, w)
      BY <2>3, <2>4, <2>5 DEF ByCoupon, Waived
    <2>7. Summary(rows', from, upto) = Summary(rows, from, upto)
      BY <2>2, <2>5, <2>6 DEF Summary
    <2>8. MenuPaid(rows', from, upto) = MenuPaid(rows, from, upto)
      BY <2>2, <2>5 DEF MenuPaid
    <2>9. ASSUME NEW n
          PROVE  n \in {p.id : p \in rows} <=> n \in 1..(nextRow - 1)
      <3>1. n \in {p.id : p \in rows} => n \in 1..(nextRow - 1)
        BY <1>0
      <3>2. n \in 1..(nextRow - 1) => n \in {p.id : p \in rows'} /\ n # nextRow
        BY <1>0, <1>2
      <3> QED
        BY <1>2, <3>1, <3>2
    <2> QED
      BY <1>2, <2>7, <2>8, <2>9
  <1> QED
    BY <1>1, <1>2, RowsMove

\* What stands in a step stood before it.
LEMMA FiguresStay ==
    ASSUME NEW V, Shaped(V), Dated, RowsInv, [Next]_vars, NEW s \in SumsOf(V), s.upto <= now,
           Undisturbed(s)'
    PROVE  Undisturbed(s) /\ (Figured(s) => Figured(s)') /\ (Allotted(s) => Allotted(s)')
  <1>1. s.upto \in Nat
    BY DEF SumsOf
  <1>2. /\ {p.id : p \in rows'} = 1..(nextRow' - 1) /\ \A p \in rows' : p.at # s.upto
    BY DEF Undisturbed
  <1>3. /\ {p.id : p \in rows} = 1..(nextRow - 1) /\ \A p \in rows : p.at # s.upto
        /\ Summary(rows', s.from, s.upto) = Summary(rows, s.from, s.upto)
        /\ MenuPaid(rows', s.from, s.upto) = MenuPaid(rows, s.from, s.upto)
    BY <1>1, <1>2, WindowStays
  <1> QED
    BY <1>3 DEF Undisturbed, Figured, Allotted

\* What adding up makes of a request.
LEMMA AddingUp ==
    ASSUME NEW V, Shaped(V), NEW q \in Reqs
    PROVE  /\ CloseSums(q) => /\ UNCHANGED rows /\ Figured(req'[q].sums)
                              /\ req'[q].step = "ALLOCATIONS"
           /\ CloseAllocations(q, FALSE) =>
                 /\ UNCHANGED <<rows, nextRow>> /\ Allotted(req'[q].sums)
                 /\ req[q].step = "ALLOCATIONS" /\ req'[q].step = "RECORD"
                 /\ req'[q].sums.from = req[q].sums.from /\ req'[q].sums.upto = req[q].sums.upto
                 /\ req'[q].sums.revenue = req[q].sums.revenue
                 /\ req'[q].sums.cash = req[q].sums.cash
  <1>0. /\ req \in [Reqs -> Request(V)] /\ req[q].sums \in SumsOf(V)
    BY DEF Shaped, Request
  <1>1. ASSUME CloseSums(q)
        PROVE  /\ UNCHANGED rows /\ Figured(req'[q].sums) /\ req'[q].step = "ALLOCATIONS"
    <2>1. /\ req' = [req EXCEPT ![q].step = "ALLOCATIONS", ![q].sums = Sums(req[q].sums)]
          /\ rows' = rows
      BY <1>1 DEF CloseSums, ledgerVars, closingVars
    <2>2. req'[q].sums = Sums(req[q].sums) /\ req'[q].step = "ALLOCATIONS"
      BY <1>0, <2>1 DEF Request
    <2> DEFINE s == req[q].sums
               revenue == Revenue(Summary(rows, s.from, s.upto))
               cash == ExpectedCash(Summary(rows, s.from, s.upto))
               counted == {p.id : p \in InWindow(rows, s.from, s.upto)}
    <2>3. Sums(s) = [s EXCEPT !.revenue = revenue, !.cash = cash, !.counted = counted]
      BY DEF Sums
    <2> HIDE DEF counted
    <2>4. /\ Sums(s).from = s.from /\ Sums(s).upto = s.upto
          /\ Sums(s).revenue = revenue /\ Sums(s).cash = cash
      <3> HIDE DEF revenue, cash
      <3> QED
        BY <1>0, <2>3 DEF SumsOf
    <2>5. Figured(Sums(s))
      BY <2>4 DEF Figured
    <2> QED
      BY <2>1, <2>2, <2>5
  <1>2. ASSUME CloseAllocations(q, FALSE)
        PROVE  /\ UNCHANGED <<rows, nextRow>> /\ Allotted(req'[q].sums)
               /\ req[q].step = "ALLOCATIONS" /\ req'[q].step = "RECORD"
               /\ req'[q].sums.from = req[q].sums.from /\ req'[q].sums.upto = req[q].sums.upto
               /\ req'[q].sums.revenue = req[q].sums.revenue
               /\ req'[q].sums.cash = req[q].sums.cash
    <2> DEFINE menu == MenuPaid(rows, req[q].sums.from, req[q].sums.upto)
    <2>1. /\ req' = [req EXCEPT ![q].step = "RECORD", ![q].sums.menu = menu]
          /\ rows' = rows /\ nextRow' = nextRow /\ req[q].step = "ALLOCATIONS"
      BY <1>2 DEF CloseAllocations, ledgerVars, closingVars
    <2>2. /\ req'[q].sums.from = req[q].sums.from /\ req'[q].sums.upto = req[q].sums.upto
          /\ req'[q].sums.revenue = req[q].sums.revenue
          /\ req'[q].sums.cash = req[q].sums.cash
          /\ req'[q].sums.menu = menu /\ req'[q].step = "RECORD"
      <3> HIDE DEF menu
      <3>1. req'[q] = [req[q] EXCEPT !.step = "RECORD", !.sums.menu = menu]
        BY <2>1 DEF Shaped
      <3>2. req[q] \in Request(V) /\ req[q].sums \in SumsOf(V)
        BY <1>0
      <3>3. req'[q].sums = [req[q].sums EXCEPT !.menu = menu]
        BY <3>1, <3>2, SMTT(60) DEF Request
      <3> QED
        BY SMTT(60), <3>1, <3>2, <3>3 DEF Request, SumsOf
    <2> QED
      BY <2>1, <2>2 DEF Allotted
  <1> QED
    BY <1>1, <1>2

\* What gets a request to add up.
LEMMA WhoAddsUp ==
    ASSUME NEW V, Shaped(V), NEW q \in Reqs, Continues(q), Went(q, req'[q]),
           req'[q].step \in {"ALLOCATIONS", "RECORD"}
    PROVE  CloseSums(q) \/ CloseAllocations(q, FALSE)
  <1>1. req[q].step \in {"SUMS", "ALLOCATIONS"}
    BY DEF Went
  <1>2. CASE \E refused \in BOOLEAN : CloseAllocations(q, refused)
    <2>1. ~CloseAllocations(q, TRUE)
      <3>1. CloseAllocations(q, TRUE) => Done(q)
        BY DEF CloseAllocations
      <3>2. Done(q) => req'[q].step = "NONE"
        BY DEF Done, Shaped, Idle
      <3> QED
        BY <3>1, <3>2
    <2> QED
      BY <1>2, <2>1
  <1> QED
    BY <1>1, <1>2 DEF Continues, AppendReads, AppendWrites, PurgeDeletes, CloseRecords, Vacuum,
       VacuumFails, Prune, ResetDeletes, IssueCommits, CancelCoupons, IssueAnswered

\* Every step keeps it.
LEMMA FiguresKept ==
    ASSUME NEW V, Shaped(V), Dated, RowsInv, FiguresInv, [Next]_vars
    PROVE  FiguresInv'
  <1>0. /\ now \in Nat /\ closings \in Seq(SumsOf(V))
        /\ \A r \in Reqs : req[r] \in Request(V) /\ req[r].sums \in SumsOf(V)
        /\ \A r \in Reqs : req[r].sums.upto <= now
    BY DEF Shaped, Stored, Dated, Request
  <1>a. /\ DOMAIN closings = 1..Len(closings) /\ Len(closings) \in Nat
        /\ \A i \in DOMAIN closings : closings[i] \in SumsOf(V) /\ closings[i].upto <= now
    BY <1>0, LenProperties DEF Dated
  <1>1. ASSUME NEW i \in DOMAIN closings', NEW s, s = closings'[i], Undisturbed(s)'
        PROVE  Figured(s)' /\ Allotted(s)'
    <2>1. CASE i \in DOMAIN closings /\ closings'[i] = closings[i]
      <3>1. s \in SumsOf(V) /\ s.upto <= now
        BY <1>a, <1>1, <2>1
      <3>2. Undisturbed(s) /\ (Figured(s) => Figured(s)') /\ (Allotted(s) => Allotted(s)')
        BY <1>1, <3>1, FiguresStay
      <3>3. Figured(s) /\ Allotted(s)
        BY <1>1, <2>1, <3>2 DEF FiguresInv
      <3> QED
        BY <3>2, <3>3
    <2>2. ASSUME NEW r \in Reqs, req[r].step = "RECORD", s = Recorded(req[r].sums)
          PROVE  Figured(s)' /\ Allotted(s)'
      <3> DEFINE t == req[r].sums
      <3>1. /\ s \in SumsOf(V) /\ s.upto <= now /\ s.from = t.from /\ s.upto = t.upto
            /\ s.revenue = t.revenue /\ s.cash = t.cash /\ s.menu = t.menu
        BY <1>0, <2>2, RecordedSame
      <3>2. Undisturbed(s) /\ (Figured(s) => Figured(s)') /\ (Allotted(s) => Allotted(s)')
        BY <1>1, <3>1, FiguresStay
      <3>3. Undisturbed(t)
        BY <3>1, <3>2 DEF Undisturbed
      <3>4. Figured(t) /\ Allotted(t)
        BY <2>2, <3>3 DEF FiguresInv
      <3> HIDE DEF t
      <3>5. Figured(s) /\ Allotted(s)
        BY <3>1, <3>4 DEF Figured, Allotted
      <3> QED
        BY <3>2, <3>5
    <2> QED
      BY <1>1, <2>1, <2>2, ClosingsGrow
  <1>2. ASSUME NEW q \in Reqs, req'[q].step \in {"ALLOCATIONS", "RECORD"},
               NEW s, s = req'[q].sums, Undisturbed(s)'
        PROVE  Figured(s)' /\ (req'[q].step = "RECORD" => Allotted(s)')
    <2>1. CASE req'[q] = req[q]
      <3>1. s \in SumsOf(V) /\ s.upto <= now
        BY <1>0, <1>2, <2>1
      <3>2. Undisturbed(s) /\ (Figured(s) => Figured(s)') /\ (Allotted(s) => Allotted(s)')
        BY <1>2, <3>1, FiguresStay
      <3>3. Figured(s) /\ (req[q].step = "RECORD" => Allotted(s))
        BY <1>2, <2>1, <3>2 DEF FiguresInv
      <3> QED
        BY <2>1, <3>2, <3>3
    <2>2. CASE req'[q] = Idle
      BY <1>2, <2>2 DEF Idle
    <2>3. CASE Begins(req'[q])
      BY <1>2, <2>3 DEF Begins
    <2>4. CASE CloseSums(q)
      <3>1. rows' = rows /\ Figured(s) /\ req'[q].step = "ALLOCATIONS"
        BY <1>2, <2>4, AddingUp
      <3> QED
        BY <3>1 DEF Figured
    <2>5. CASE CloseAllocations(q, FALSE)
      <3> DEFINE t == req[q].sums
      <3>1. /\ rows' = rows /\ nextRow' = nextRow /\ Allotted(s)
            /\ req[q].step = "ALLOCATIONS"
            /\ s.from = t.from /\ s.upto = t.upto /\ s.revenue = t.revenue /\ s.cash = t.cash
        BY <1>2, <2>5, AddingUp
      <3>2. Undisturbed(t)
        BY <1>2, <3>1 DEF Undisturbed
      <3>3. Figured(t)
        BY <3>1, <3>2 DEF FiguresInv
      <3> QED
        BY <3>1, <3>3 DEF Figured, Allotted
    <2> QED
      BY <1>2, <2>1, <2>2, <2>3, <2>4, <2>5, RequestsMove, WhoAddsUp
  <1> QED
    BY <1>1, <1>2 DEF FiguresInv

\* Recorded closings stand.
LEMMA FiguresStand == FiguresInv => SnapshotStands
  BY DEF FiguresInv, SnapshotStands, Undisturbed, Figured, Allotted

-----------------------------------------------------------------------------
(* The reports.                                                            *)

\* What a row is worth, with its sign and without.
Worth == [p \in rows |-> Signed(p)]
Face == [p \in rows |-> p.amount]

LEMMA WorthType ==
    ASSUME NEW V, Shaped(V)
    PROVE  \A p \in rows : /\ Worth[p] \in Int /\ Worth[p] = Signed(p)
                           /\ Face[p] \in Nat /\ Face[p] = p.amount
  BY DEF Shaped, Stored, Row, Worth, Face, Signed

\* The totals of some rows are sums of these.
LEMMA Totals ==
    ASSUME NEW V, Shaped(V), RowsInv, NEW S \in SUBSET rows
    PROVE  /\ IsFiniteSet(S)
           /\ Net(S) = SumFunctionOnSet(Worth, S) /\ Net(S) \in Int
           /\ Total(S) = SumFunctionOnSet(Face, S) /\ Total(S) \in Int
  <1>1. IsFiniteSet(S)
    BY FS_Subset DEF RowsInv
  <1>2. Net(S) = SumFunctionOnSet(Worth, S)
    <2> DEFINE f == [p \in S |-> Signed(p)]
    <2>1. \A p \in S : Worth[p] \in Int /\ f[p] = Worth[p]
      BY WorthType
    <2>2. Net(S) = SumFunctionOnSet(f, S)
      BY DEF Net, SumFunction
    <2> HIDE DEF f
    <2> QED
      BY <1>1, <2>1, <2>2, SumAgrees
  <1>3. Total(S) = SumFunctionOnSet(Face, S)
    <2> DEFINE f == [p \in S |-> p.amount]
    <2>1. \A p \in S : Face[p] \in Int /\ f[p] = Face[p]
      BY WorthType
    <2>2. Total(S) = SumFunctionOnSet(f, S)
      BY DEF Total, SumFunction
    <2> HIDE DEF f
    <2> QED
      BY <1>1, <2>1, <2>2, SumAgrees
  <1>4. SumFunctionOnSet(Worth, S) \in Int /\ SumFunctionOnSet(Face, S) \in Int
    <2>1. \A p \in S : Worth[p] \in Int /\ Face[p] \in Int
      BY WorthType
    <2> QED
      BY <1>1, <2>1, SumType
  <1> QED
    BY <1>1, <1>2, <1>3, <1>4

\* The totals of two parts.
LEMMA TotalsOfParts ==
    ASSUME NEW V, Shaped(V), RowsInv, NEW S \in SUBSET rows, NEW T \in SUBSET rows, S \cap T = {}
    PROVE  Net(S \cup T) = Net(S) + Net(T) /\ Total(S \cup T) = Total(S) + Total(T)
  <1>1. S \cup T \in SUBSET rows
    OBVIOUS
  <1>2. \A p \in S \cup T : Worth[p] \in Int /\ Face[p] \in Int
    BY WorthType
  <1>3. IsFiniteSet(S) /\ IsFiniteSet(T)
    BY Totals
  <1>4. /\ SumFunctionOnSet(Worth, S \cup T)
              = SumFunctionOnSet(Worth, S) + SumFunctionOnSet(Worth, T)
        /\ SumFunctionOnSet(Face, S \cup T)
              = SumFunctionOnSet(Face, S) + SumFunctionOnSet(Face, T)
    BY <1>2, <1>3, SumOfParts
  <1> QED
    BY <1>1, <1>4, Totals

\* Of charges and reversals, the net is what was charged less what was taken back.
LEMMA NetOfCharges ==
    ASSUME NEW V, Shaped(V), RowsInv, NEW S \in SUBSET rows, \A p \in S : p.kind # "DISCOUNT"
    PROVE  Net(S) = Total({p \in S : p.kind = "CHARGE"}) - Total({p \in S : p.kind \in Reversals})
  <1> DEFINE Given == {p \in S : p.kind = "CHARGE"}
             Back == {p \in S : p.kind \in Reversals}
  <1>1. Given \cup Back = S /\ Given \cap Back = {}
    BY DEF Shaped, Stored, Row, Kinds, Reversals
  <1>2. /\ Given \in SUBSET rows /\ Back \in SUBSET rows
        /\ \A p \in Given : p.kind \notin Reversals
        /\ \A p \in Back : p.kind \in Reversals
    BY DEF Reversals
  <1> HIDE DEF Given, Back
  <1>3. Net(S) = Net(Given) + Net(Back)
    BY <1>1, <1>2, TotalsOfParts
  <1>4. Net(Given) = Total(Given)
    <2>1. \A p \in Given : Face[p] \in Int /\ Worth[p] = Face[p]
      BY <1>2, WorthType DEF Signed
    <2>2. SumFunctionOnSet(Worth, Given) = SumFunctionOnSet(Face, Given)
      BY <1>2, <2>1, Totals, SumAgrees
    <2> QED
      BY <1>2, <2>2, Totals
  <1>5. Net(Back) = -Total(Back)
    <2>1. \A p \in Back : Face[p] \in Int /\ Worth[p] = -Face[p]
      BY <1>2, WorthType DEF Signed
    <2>2. SumFunctionOnSet(Worth, Back) = -SumFunctionOnSet(Face, Back)
      BY <1>2, <2>1, Totals, SumNegated
    <2> QED
      BY <1>2, <2>2, Totals
  <1>6. Total(Given) \in Int /\ Total(Back) \in Int
    BY <1>2, Totals
  <1>7. Net(S) = Total(Given) - Total(Back)
    BY <1>3, <1>4, <1>5, <1>6
  <1> QED
    BY <1>7 DEF Given, Back

\* Rows that hold with each reversal its original, and the other way round: their net is
\* what stands of them.
LEMMA NetStands ==
    ASSUME NEW V, Shaped(V), Dated, RowsInv, NEW S \in SUBSET rows,
           \A p \in rows : \A q \in rows : Reverses(p, q) => (p \in S <=> q \in S)
    PROVE  Net(S) = Total({p \in S : p \in Standing})
  <1> DEFINE Given == {p \in S : p.kind \notin Reversals}
             Left == {p \in S : p \in Standing}
             of == [p \in S \ Given |-> Original(rows, p)]
  <1>0. \A p \in rows : p.id # 0
    BY DEF Shaped, Stored, Row
  <1>1. ASSUME NEW p \in S \ Given
        PROVE  of[p] \in Given /\ Reverses(p, of[p])
    <2>1. of[p] \in rows /\ Reverses(p, of[p])
      BY <1>1, OriginalStays
    <2> QED
      BY <1>1, <2>1 DEF Reverses
  <1>2. Given \in SUBSET S /\ DOMAIN of = S \ Given
    OBVIOUS
  <1>3. \A p, q \in S \ Given : of[p] = of[q] => p = q
    BY <1>1 DEF Reverses, RowsInv
  <1>4. \A p \in Given : Face[p] \in Int /\ Worth[p] = Face[p]
    BY WorthType DEF Signed
  <1>5. \A p \in S \ Given : Worth[p] = -Face[of[p]]
    <2> SUFFICES ASSUME NEW p \in S \ Given PROVE Worth[p] = -Face[of[p]]
      OBVIOUS
    <2>1. Worth[p] = -p.amount /\ Face[of[p]] = of[p].amount
      BY <1>1, WorthType DEF Signed
    <2> QED
      BY <1>1, <2>1 DEF Reverses
  <1>6. Left = {p \in Given : \A n \in S \ Given : of[n] # p}
    <2>1. ASSUME NEW p \in S, p \in Standing
          PROVE  p \in Given /\ \A n \in S \ Given : of[n] # p
      BY <1>1, <2>1 DEF Standing, Reverses
    <2>2. ASSUME NEW p \in Given, \A n \in S \ Given : of[n] # p
          PROVE  p \in Standing
      <3> SUFFICES ASSUME NEW q \in rows, q.of = p.id PROVE FALSE
        BY DEF Standing
      <3>1. PICK o \in rows : Reverses(q, o)
        BY <1>0 DEF RowsInv
      <3>b. o.id = p.id /\ p \in rows
        BY <3>1 DEF Reverses
      <3>2. o = p
        BY <3>b DEF RowsInv
      <3>3. q \in S \ Given
        BY <3>1, <3>2 DEF Reverses
      <3>a. of[q] \in rows /\ of[q].id = p.id /\ p \in rows
        BY <1>1, <3>1, <3>2, <3>3 DEF Reverses
      <3>4. of[q] = p
        BY <3>a DEF RowsInv
      <3> QED
        BY <2>2, <3>3, <3>4
    <2> QED
      BY <2>1, <2>2
  <1>7. TakesBack(S, Given, of, Face, Worth, Left)
    <2> HIDE DEF Given, Left, of
    <2> QED
      BY <1>1, <1>2, <1>3, <1>4, <1>5, <1>6 DEF TakesBack
  <1>8. IsFiniteSet(S)
    BY Totals
  <1> HIDE DEF Given, of
  <1>9. SumFunctionOnSet(Worth, S) = SumFunctionOnSet(Face, Left)
    <2> HIDE DEF Left
    <2> QED
      BY <1>7, <1>8, SumTakenBack
  <1>10. Left \in SUBSET rows
    OBVIOUS
  <1> QED
    BY <1>9, <1>10, Totals

\* In a window there are takings, and what is waived.
LEMMA WindowParts ==
    ASSUME NEW V, Shaped(V), RowsInv, NEW from, NEW until
    PROVE  LET w == InWindow(rows, from, until)
               s == Summary(rows, from, until) IN
           /\ Takings(rows, w) \in SUBSET rows
           /\ \A p \in Takings(rows, w) : p.kind # "DISCOUNT"
           /\ Revenue(s) = Net(Takings(rows, w))
  <1> DEFINE w == InWindow(rows, from, until)
             s == Summary(rows, from, until)
             T == Takings(rows, w)
  <1>1. T \in SUBSET rows
    BY DEF Takings, InWindow
  <1>2. ASSUME NEW p \in T
        PROVE  p.kind # "DISCOUNT"
    BY <1>2 DEF Takings, IsDiscount, Original, Reversals
  <1>3. /\ s.charged = Total({p \in T : p.kind = "CHARGE"})
        /\ s.refunded = Total({p \in T : p.kind \in Reversals})
    BY DEF Summary
  <1> HIDE DEF T, s
  <1>4. Revenue(s) = Net(T)
    BY <1>1, <1>2, <1>3, NetOfCharges DEF Revenue
  <1> QED
    BY <1>1, <1>2, <1>4 DEF T, s

\* The channels, and the methods, add up to the revenue.
LEMMA PartsAddUp ==
    ASSUME NEW V, Shaped(V), RowsInv, NEW from, NEW until
    PROVE  LET s == Summary(rows, from, until) IN
           /\ Revenue(s) = s.table + s.counter
           /\ Revenue(s) = SumFunction(s.byMethod)
  <1> DEFINE w == InWindow(rows, from, until)
             s == Summary(rows, from, until)
             T == Takings(rows, w)
             table == {p \in T : p.channel = "TABLE"}
             counter == {p \in T : p.channel = "COUNTER"}
             used == {p.method : p \in T}
             Of(m) == {p \in T : p.method = m}
  <1>1. T \in SUBSET rows /\ Revenue(s) = Net(T)
    BY WindowParts
  <1>2. /\ s.table = Net(table) /\ s.counter = Net(counter)
        /\ s.byMethod = [m \in used |-> Net(Of(m))]
    BY DEF Summary
  <1>3. table \cup counter = T /\ table \cap counter = {}
    BY <1>1 DEF Shaped, Stored, Row, Channels
  <1>4. table \in SUBSET rows /\ counter \in SUBSET rows /\ \A m : Of(m) \in SUBSET rows
    BY <1>1
  <1>5. IsFiniteSet(T)
    BY <1>1, Totals
  <1>6. IsFiniteSet(used)
    <2> DEFINE method == [p \in T |-> p.method]
    <2>1. used = {method[p] : p \in T}
      OBVIOUS
    <2> HIDE DEF method, used, T
    <2> QED
      BY <1>5, <2>1, ImageFinite
  <1>7. Revenue(s) = s.table + s.counter
    <2> HIDE DEF T, table, counter, s
    <2>1. Net(table) + Net(counter) = Net(T)
      BY <1>3, <1>4, TotalsOfParts
    <2> QED
      BY <1>1, <1>2, <2>1
  <1>8. SumFunction(s.byMethod) = Net(T)
    <2> DEFINE method == [p \in T |-> p.method]
               g == s.byMethod
    <2>1. \A p \in T : method[p] \in used /\ Worth[p] \in Int
      BY <1>1, WorthType
    <2>2. ASSUME NEW m \in used
          PROVE  g[m] = SumFunctionOnSet(Worth, {p \in T : method[p] = m})
      <3>1. g[m] = Net(Of(m)) /\ Of(m) = {p \in T : method[p] = m}
        BY <1>2
      <3> HIDE DEF Of, g
      <3>2. Net(Of(m)) = SumFunctionOnSet(Worth, Of(m))
        BY <1>4, Totals
      <3> QED
        BY <3>1, <3>2
    <2>3. DOMAIN g = used
      BY <1>2
    <2> HIDE DEF method, g, used, T, Of
    <2>a. Grouped(T, used, method, Worth, g)
      BY <2>1, <2>2 DEF Grouped
    <2>4. SumFunctionOnSet(g, used) = SumFunctionOnSet(Worth, T)
      BY <1>5, <1>6, <2>a, SumOfGroups
    <2>5. SumFunction(g) = SumFunctionOnSet(g, used)
      BY <2>3 DEF SumFunction
    <2> QED
      BY <1>1, <2>4, <2>5, Totals DEF g
  <1> QED
    BY <1>1, <1>7, <1>8

\* Two windows that meet add up to one.
LEMMA WindowsMeet ==
    ASSUME NEW V, Shaped(V), Dated, RowsInv, NEW from \in 1..now, NEW until \in from..now
    PROVE  Revenue(Summary(rows, from, until)) + Revenue(Summary(rows, until + 1, now)) =
               Revenue(Summary(rows, from, now))
  <1> DEFINE T(a, b) == Takings(rows, InWindow(rows, a, b))
  <1>0. now \in Nat /\ \A p \in rows : p.at \in Nat
    BY DEF Shaped, Stored, Row
  <1>1. /\ T(from, until) \cup T(until + 1, now) = T(from, now)
        /\ T(from, until) \cap T(until + 1, now) = {}
    BY <1>0 DEF Takings, InWindow
  <1>2. ASSUME NEW a, NEW b
        PROVE  T(a, b) \in SUBSET rows /\ Revenue(Summary(rows, a, b)) = Net(T(a, b))
    BY WindowParts
  <1> HIDE DEF T
  <1>3. Net(T(from, until)) + Net(T(until + 1, now)) = Net(T(from, now))
    BY <1>1, <1>2, TotalsOfParts
  <1> QED
    BY <1>2, <1>3

\* Of all time, all rows are in the window, and a reversal is with its original in
\* whatever is told by the original.
LEMMA AllTime ==
    ASSUME NEW V, Shaped(V), Dated, RowsInv
    PROVE  /\ InWindow(rows, 0, now) = rows
           /\ \A p \in rows : \A q \in rows : Reverses(p, q) =>
                 /\ IsDiscount(rows, p) = IsDiscount(rows, q)
                 /\ Original(rows, p).method = Original(rows, q).method
           /\ \A p \in Standing : p \in rows /\ Original(rows, p) = p
           /\ \A p \in Standing : p.kind \in {"CHARGE", "DISCOUNT"}
  <1>0. now \in Nat /\ \A p \in rows : p.at \in Nat /\ p.at <= now
    BY DEF Shaped, Stored, Row, Dated
  <1>1. InWindow(rows, 0, now) = rows
    BY <1>0 DEF InWindow
  <1>2. ASSUME NEW p \in rows, NEW q \in rows, Reverses(p, q)
        PROVE  /\ IsDiscount(rows, p) = IsDiscount(rows, q)
               /\ Original(rows, p).method = Original(rows, q).method
    <2>1. Original(rows, q) = q
      BY <1>2 DEF Original, Reverses
    <2>2. Original(rows, p) = q
      <3>1. p.kind \in Reversals
        BY <1>2 DEF Reverses
      <3>2. Original(rows, p) \in rows /\ Reverses(p, Original(rows, p))
        BY <3>1, OriginalStays
      <3>3. Original(rows, p).id = q.id
        BY <1>2, <3>2 DEF Reverses
      <3> QED
        BY <3>2, <3>3 DEF RowsInv
    <2> QED
      BY <2>1, <2>2 DEF IsDiscount
  <1>3. \A p \in Standing : p \in rows /\ p.kind \notin Reversals
    BY DEF Standing
  <1>4. \A p \in Standing : Original(rows, p) = p
    BY <1>3 DEF Original
  <1>5. \A p \in Standing : p.kind \in {"CHARGE", "DISCOUNT"}
    BY <1>3 DEF Shaped, Stored, Row, Kinds
  <1> QED
    BY <1>1, <1>2, <1>3, <1>4, <1>5

\* Of all time, what is reported is what stands.
LEMMA AllStands ==
    ASSUME NEW V, Shaped(V), Dated, RowsInv
    PROVE  LET all == Summary(rows, 0, now)
               charges == {p \in Standing : p.kind = "CHARGE"}
               waived == Standing \ charges IN
           /\ Revenue(all) = Total(charges)
           /\ all.coupon = Total({p \in waived : p.method = CouponMethod})
           /\ all.manual + all.coupon = Total(waived)
           /\ MenuPaid(rows, 0, now) = Total({p \in charges : p.allocated})
  <1> DEFINE all == Summary(rows, 0, now)
             charges == {p \in Standing : p.kind = "CHARGE"}
             waived == Standing \ charges
             T == Takings(rows, rows)
             M == {p \in T : p.allocated}
             W == Waived(rows, rows)
             C == ByCoupon(rows, rows)
             D == W \ C
  <1>1. /\ \A p \in rows : p \in T <=> ~IsDiscount(rows, p)
        /\ \A p \in rows : p \in W <=> IsDiscount(rows, p)
        /\ \A p \in rows : p \in C <=> p \in W /\ Original(rows, p).method = CouponMethod
        /\ T \in SUBSET rows /\ W \in SUBSET rows /\ C \in SUBSET rows /\ C \in SUBSET W
    BY DEF Takings, Waived, ByCoupon
  <1>2. InWindow(rows, 0, now) = rows
    BY AllTime
  <1>3. /\ Revenue(all) = Net(T) /\ MenuPaid(rows, 0, now) = Net(M)
        /\ all.coupon = Net(C) /\ all.manual = Net(D)
    BY <1>2, WindowParts DEF Summary, MenuPaid
  <1>4. \A p \in rows : \A q \in rows : Reverses(p, q) =>
            /\ (p \in T <=> q \in T) /\ (p \in M <=> q \in M)
            /\ (p \in C <=> q \in C) /\ (p \in D <=> q \in D)
    <2> SUFFICES ASSUME NEW p \in rows, NEW q \in rows, Reverses(p, q)
                 PROVE  /\ (p \in T <=> q \in T) /\ (p \in M <=> q \in M)
                        /\ (p \in C <=> q \in C) /\ (p \in D <=> q \in D)
      OBVIOUS
    <2>1. /\ IsDiscount(rows, p) = IsDiscount(rows, q)
          /\ Original(rows, p).method = Original(rows, q).method
      BY AllTime
    <2>2. p.allocated = q.allocated
      BY DEF Reverses
    <2> HIDE DEF T, W, C
    <2> QED
      BY <1>1, <2>1, <2>2
  <1>5. ASSUME NEW p \in Standing
        PROVE  /\ p \in T <=> p.kind = "CHARGE"
               /\ p \in C <=> p.kind # "CHARGE" /\ p.method = CouponMethod
               /\ p \in D <=> p.kind # "CHARGE" /\ ~(p.method = CouponMethod)
    <2>1. /\ p \in rows /\ Original(rows, p) = p /\ p.kind \in {"CHARGE", "DISCOUNT"}
      BY <1>5, AllTime
    <2>2. IsDiscount(rows, p) <=> p.kind # "CHARGE"
      BY <2>1 DEF IsDiscount
    <2> HIDE DEF T, W, C
    <2> QED
      BY <1>1, <2>1, <2>2
  <1>6. Standing \in SUBSET rows
    BY AllTime
  <1> HIDE DEF T, W, C, all
  <1>7. /\ {p \in T : p \in Standing} = charges
        /\ {p \in M : p \in Standing} = {p \in charges : p.allocated}
        /\ {p \in C : p \in Standing} = {p \in waived : p.method = CouponMethod}
        /\ {p \in D : p \in Standing} = {p \in waived : ~(p.method = CouponMethod)}
    BY <1>5
  <1>8. M \in SUBSET rows /\ D \in SUBSET rows
    BY <1>1
  <1>9. /\ Net(T) = Total({p \in T : p \in Standing})
        /\ Net(M) = Total({p \in M : p \in Standing})
        /\ Net(C) = Total({p \in C : p \in Standing})
        /\ Net(D) = Total({p \in D : p \in Standing})
    <2> HIDE DEF M, D
    <2>1. ASSUME NEW S \in {T, M, C, D}
          PROVE  Net(S) = Total({p \in S : p \in Standing})
      BY <1>1, <1>4, <1>8, NetStands
    <2> QED
      BY <2>1
  <1>10. Total({p \in waived : p.method = CouponMethod})
             + Total({p \in waived : ~(p.method = CouponMethod)}) = Total(waived)
    <2> DEFINE A == {p \in waived : p.method = CouponMethod}
               B == {p \in waived : ~(p.method = CouponMethod)}
    <2>1. /\ A \cup B = waived /\ A \cap B = {}
          /\ A \in SUBSET rows /\ B \in SUBSET rows
      BY <1>6
    <2> HIDE DEF A, B
    <2>2. Total(A) + Total(B) = Total(waived)
      BY <2>1, TotalsOfParts
    <2> QED
      BY <2>2 DEF A, B
  <1>11. /\ Total({p \in waived : p.method = CouponMethod}) \in Int
         /\ Total({p \in waived : ~(p.method = CouponMethod)}) \in Int
    <2>1. ASSUME NEW S \in SUBSET rows
          PROVE  Total(S) \in Int
      BY Totals
    <2> QED
      BY <1>6, <2>1
  <1>a. /\ all.coupon = Total({p \in waived : p.method = CouponMethod})
        /\ all.manual = Total({p \in waived : ~(p.method = CouponMethod)})
    BY <1>3, <1>7, <1>9
  <1>12. all.manual + all.coupon = Total(waived)
    <2> HIDE DEF waived
    <2> QED
      BY <1>10, <1>11, <1>a
  <1> QED
    BY <1>3, <1>7, <1>9, <1>12 DEF all

\* Redemptions whose discount was not taken back.
Held == {d \in redemptions : ~d.cancelled /\ \A q \in rows : q.of # d.row}

\* Redemptions give what is held and, beyond that, what is late to be cancelled.
LEMMA GivenInParts ==
    ASSUME NEW V, Shaped(V), RedeemedInv
    PROVE  /\ CouponGiven(redemptions, 0, now) = Total(Held) + Total(Late)
           /\ Total(Held) \in Int /\ Total(Late) \in Int
  <1> DEFINE given == {d \in redemptions : ~d.cancelled}
             value == [d \in redemptions |-> d.amount]
  <1>1. /\ now \in Nat
        /\ \A d \in redemptions : /\ d.at \in Nat /\ d.at <= now /\ d.amount \in Nat
                                  /\ d.cancelled \in BOOLEAN /\ d.channel \in Channels
    BY DEF Shaped, Stored, Redemption, RedeemedInv
  <1>2. {d \in InWindow(redemptions, 0, now) : ~d.cancelled} = given
    BY <1>1 DEF InWindow
  <1>3. Held \cap Late = {} /\ Held \cup Late \subseteq given
    BY DEF Held, Late
  <1>4. ASSUME NEW d \in given, d \notin Held
        PROVE  d \in Late
    <2>1. PICK q \in rows : q.of = d.row
      BY <1>4 DEF Held
    <2>2. PICK p \in rows : Redeems(d, p)
      BY DEF RedeemedInv
    <2>3. p.channel # "COUNTER" /\ p.channel = d.channel
      BY <2>1, <2>2 DEF Redeems
    <2>4. d.channel = "TABLE"
      BY <1>1, <2>3 DEF Channels
    <2> QED
      BY <2>1, <2>4 DEF Late
  <1>5. Held \cup Late = given
    BY <1>3, <1>4
  <1>6. ASSUME NEW S \in SUBSET redemptions
        PROVE  /\ IsFiniteSet(S) /\ Total(S) = SumFunctionOnSet(value, S)
               /\ Total(S) \in Int
    <2> DEFINE f == [d \in S |-> d.amount]
    <2>1. IsFiniteSet(S)
      BY FS_Subset DEF RedeemedInv
    <2>2. \A d \in S : value[d] \in Int /\ f[d] = value[d]
      BY <1>1
    <2>3. Total(S) = SumFunctionOnSet(f, S)
      BY DEF Total, SumFunction
    <2> HIDE DEF f, value
    <2>4. SumFunctionOnSet(f, S) = SumFunctionOnSet(value, S)
      BY <2>1, <2>2, SumAgrees
    <2>5. SumFunctionOnSet(value, S) \in Int
      BY <2>1, <2>2, SumType
    <2> QED
      BY <2>1, <2>3, <2>4, <2>5
  <1>7. Held \in SUBSET redemptions /\ Late \in SUBSET redemptions
    BY DEF Held, Late
  <1>8. \A d \in Held \cup Late : value[d] \in Int
    BY <1>1, <1>7
  <1> HIDE DEF value
  <1>9. SumFunctionOnSet(value, Held \cup Late)
            = SumFunctionOnSet(value, Held) + SumFunctionOnSet(value, Late)
    BY <1>3, <1>6, <1>7, <1>8, SumOfParts
  <1>10. Total(Held \cup Late) = Total(Held) + Total(Late)
    BY <1>6, <1>7, <1>9
  <1> QED
    BY <1>2, <1>5, <1>6, <1>7, <1>10 DEF CouponGiven

\* As long as the coupons were not reset, what is held is what coupon discounts
\* stand for: they are renamings of each other.
LEMMA CouponsAddUp ==
    ASSUME NEW V, Shaped(V), Dated, RowsInv, RedeemedInv, HasBatch(0)
    PROVE  Total(Held) = Total({p \in Standing \ {q \in Standing : q.kind = "CHARGE"} :
                                        p.method = CouponMethod})
  <1> DEFINE given == Held
             discounts == {p \in Standing : CouponDiscount(p)}
             row == [d \in given |-> CHOOSE p \in rows : Redeems(d, p)]
             amount == [d \in given |-> d.amount]
  <1>1. given \subseteq redemptions
    BY DEF Held
  <1>2. Total(Held) = SumFunctionOnSet(amount, given)
    BY DEF Total, SumFunction
  <1>3. ASSUME NEW d \in given
        PROVE  row[d] \in rows /\ Redeems(d, row[d])
    <2>1. \E p \in rows : Redeems(d, p)
      BY <1>1 DEF RedeemedInv
    <2> QED
      BY <2>1
  <1>4. {row[d] : d \in given} = discounts
    <2>1. ASSUME NEW d \in given
          PROVE  row[d] \in discounts
      <3>1. /\ row[d] \in rows /\ CouponDiscount(row[d])
            /\ \A q \in rows : q.of # row[d].id
        BY <1>3 DEF Redeems, Held
      <3>2. row[d].kind \notin Reversals
        BY <3>1 DEF CouponDiscount, Reversals
      <3> HIDE DEF row
      <3> QED
        BY <3>1, <3>2 DEF Standing
    <2>2. ASSUME NEW p \in discounts
          PROVE  \E d \in given : row[d] = p
      <3>1. p \in rows /\ CouponDiscount(p) /\ \A q \in rows : q.of # p.id
        BY DEF Standing
      <3>2. PICK d \in redemptions : d.row = p.id
        BY <3>1 DEF RedeemedInv
      <3>3. PICK q \in rows : Redeems(d, q)
        BY DEF RedeemedInv
      <3>4. q = p
        BY <3>1, <3>2, <3>3 DEF Redeems, RowsInv
      <3>5. d \in given
        BY <3>1, <3>2, <3>3, <3>4 DEF Redeems, Held
      <3>6. row[d] \in rows /\ row[d].id = p.id
        BY <1>3, <3>2, <3>5 DEF Redeems
      <3>7. row[d] = p
        BY <3>1, <3>6 DEF RowsInv
      <3> QED
        BY <3>5, <3>7
    <2> HIDE DEF row, discounts, given
    <2> QED
      BY <2>1, <2>2
  <1>5. \A d, e \in given : row[d] = row[e] => d = e
    BY <1>1, <1>3 DEF Redeems, RedeemedInv
  <1>6. \A d \in given : Face[row[d]] \in Int /\ amount[d] = Face[row[d]]
    <2> SUFFICES ASSUME NEW d \in given
                 PROVE  Face[row[d]] \in Int /\ amount[d] = Face[row[d]]
      OBVIOUS
    <2>1. amount[d] = d.amount
      OBVIOUS
    <2>2. row[d] \in rows /\ row[d].amount = d.amount
      BY <1>3 DEF Redeems
    <2> HIDE DEF row, amount, given
    <2>3. Face[row[d]] \in Nat /\ Face[row[d]] = row[d].amount
      BY <2>2, WorthType
    <2> QED
      BY <2>1, <2>2, <2>3
  <1>7. IsFiniteSet(given)
    BY <1>1, FS_Subset DEF RedeemedInv
  <1>8. SumFunctionOnSet(Face, {row[d] : d \in given}) = SumFunctionOnSet(amount, given)
    <2>1. DOMAIN row = given
      OBVIOUS
    <2> HIDE DEF row, amount, given
    <2> QED
      BY <1>5, <1>6, <1>7, <2>1, SumRenamed
  <1>9. discounts \in SUBSET rows
    BY DEF Standing
  <1> HIDE DEF row, amount
  <1>10. Total(Held) = Total(discounts)
    BY <1>2, <1>4, <1>8, <1>9, Totals
  <1>11. {p \in Standing \ {q \in Standing : q.kind = "CHARGE"} : p.method = CouponMethod}
             = discounts
    BY AllTime DEF CouponDiscount
  <1> QED
    BY <1>10, <1>11

\* So the reports add up.
LEMMA AllAddsUp ==
    ASSUME NEW V, Shaped(V), Dated, RowsInv, RedeemedInv
    PROVE  ReportsAddUp
  <1>1. HasBatch(0) <=> \E b \in batches : b.key = 0
    BY DEF HasBatch
  <1>2. (\E b \in batches : b.key = 0) =>
            CouponGiven(redemptions, 0, now) = Summary(rows, 0, now).coupon + Total(Late)
    <2> HAVE \E b \in batches : b.key = 0
    <2>1. Total(Held) = Summary(rows, 0, now).coupon
      BY <1>1, CouponsAddUp, AllStands
    <2> QED
      BY <2>1, GivenInParts
  <1>3. \A from \in 1..now : \A until \in from..now :
            /\ Revenue(Summary(rows, from, until))
                   = Summary(rows, from, until).table + Summary(rows, from, until).counter
            /\ Revenue(Summary(rows, from, until))
                   = SumFunction(Summary(rows, from, until).byMethod)
            /\ Revenue(Summary(rows, from, until)) + Revenue(Summary(rows, until + 1, now)) =
                   Revenue(Summary(rows, from, now))
    BY PartsAddUp, WindowsMeet
  <1> QED
    BY <1>2, <1>3, AllStands DEF ReportsAddUp

-----------------------------------------------------------------------------
(* The invariant.                                                          *)

BooksInv ==
    /\ (\E V : Shaped(V)) /\ now <= MaxTime
    /\ Dated /\ ScopesClosed /\ WindowInv /\ CouponInv /\ LinkInv /\ IssueInv /\ LogInv

\* It holds at the start.
LEMMA InvariantInit == Init => BooksInv
  <1> SUFFICES ASSUME Init PROVE BooksInv
    OBVIOUS
  <1>1. Shaped({0})
    <2> DEFINE first == [key |-> 0, type |-> "ITEM", count |-> Outstanding, ids |-> 1..Outstanding]
    <2>1. first \in Batch
      BY DEF Batch, Coupons
    <2>2. batches \in SUBSET Batch
      BY <2>1 DEF Init
    <2>3. coupons \in [Coupons -> {"AVAILABLE", "USED", "CANCELLED", "ABSENT"}]
      BY DEF Init
    <2>4. files \in SUBSET File
      BY DEF Init, File
    <2>5. req \in [Reqs -> Request({0})]
      <3>1. Idle \in Request({0})
        BY IdleShape
      <3> QED
        BY <3>1 DEF Init
    <2>6. closings \in Seq(SumsOf({0}))
      BY EmptySeq DEF Init
    <2> QED
      BY <2>2, <2>3, <2>4, <2>5, <2>6 DEF Init, Shaped, Stored
  <1>2. \A r \in Reqs : req[r] = Idle
    BY DEF Init
  <1>3. Dated
    <2>1. closings = << >> /\ DOMAIN closings = {}
      BY EmptySeq, LenProperties DEF Init
    <2> QED
      BY <1>2, <2>1 DEF Init, Dated, Idle, NoSums
  <1>4. ScopesClosed
    BY <1>2 DEF ScopesClosed, Idle
  <1>5. WindowInv
    BY <1>2 DEF Init, WindowInv, Closing, Idle
  <1>6. CouponInv
    BY DEF Init, CouponInv, CouponUsedIffRedeemed
  <1>7. LinkInv
    BY DEF Init, LinkInv, Everything
  <1>8. IssueInv
    <2>1. IssuedOnce /\ \A b \in batches : b.key \in 0..MaxKey
      <3>1. CASE Outstanding = 0
        <4>1. batches = {} /\ Issued = {}
          BY <3>1 DEF Init, Issued, Coupons
        <4> QED
          BY <4>1 DEF IssuedOnce
      <3>2. CASE Outstanding # 0
        <4> DEFINE first == [key |-> 0, type |-> "ITEM", count |-> Outstanding,
                             ids |-> 1..Outstanding]
        <4>1. batches = {first}
          BY <3>2 DEF Init
        <4>2. first.ids = 1..Outstanding /\ first.count = Outstanding /\ first.key = 0
          OBVIOUS
        <4>3. Cardinality(1..Outstanding) = Outstanding
          BY FS_Interval
        <4>4. Issued = 1..Outstanding
          BY DEF Init, Issued, Coupons
        <4> HIDE DEF first
        <4>5. UNION {b.ids : b \in batches} = Issued
          BY <4>1, <4>2, <4>4
        <4> QED
          BY <4>1, <4>2, <4>3, <4>5 DEF IssuedOnce
      <3> QED
        BY <3>1, <3>2
    <2> QED
      BY <1>2, <2>1 DEF IssueInv, Idle
  <1>9. LogInv /\ now <= MaxTime
    BY <1>2 DEF Init, LogInv, Idle
  <1> QED
    BY <1>1, <1>3, <1>4, <1>5, <1>6, <1>7, <1>8, <1>9 DEF BooksInv

\* Every step keeps it.
LEMMA InvariantKept == BooksInv /\ [Next]_vars => BooksInv'
  <1> SUFFICES ASSUME BooksInv, [Next]_vars PROVE BooksInv'
    OBVIOUS
  <1>1. PICK V : Shaped(V)
    BY DEF BooksInv
  <1>2. now' <= MaxTime
    BY <1>1, Frames DEF BooksInv, Shaped, Stored
  <1> QED
    BY <1>1, <1>2, ShapedKept, DatedKept, ScopesKept, WindowsKept, CouponsKept, LinksKept,
       BatchesKept, LogKept DEF BooksInv

\* What it says of types.
LEMMA InvariantTypes == BooksInv => TypeOK
  <1> SUFFICES ASSUME BooksInv PROVE TypeOK
    OBVIOUS
  <1>1. PICK V : Shaped(V)
    BY DEF BooksInv
  <1>0. /\ now \in Nat \ {0} /\ nextRow \in Nat \ {0} /\ nextLog \in Nat \ {0}
        /\ rows \in SUBSET Row /\ log \in SUBSET LogRow /\ batches \in SUBSET Batch
    BY <1>1 DEF Shaped, Stored
  <1>2. now \in 1..MaxTime
    BY <1>0 DEF BooksInv
  <1>3. ASSUME NEW p \in rows
        PROVE  /\ p.id \in 1..(nextRow - 1) /\ p.at \in 1..now /\ p.amount > 0
               /\ p.kind \in Reversals => \E q \in rows : q.id = p.of /\ q.at <= p.at
    <2>1. p.id \in 1..(nextRow - 1) /\ p.at \in 1..now /\ p.amount > 0
      BY <1>0 DEF BooksInv, Dated, Row
    <2> QED
      BY <2>1 DEF BooksInv, LinkInv
  <1>4. /\ coupons \in [Coupons -> {"AVAILABLE", "USED", "CANCELLED", "ABSENT"}]
        /\ catalogue \subseteq Everything
    BY <1>1 DEF Shaped, Stored
  <1>5. \A b \in batches : b.key \in 0..MaxKey /\ b.ids \subseteq Coupons
    BY <1>0 DEF BooksInv, IssueInv, Batch
  <1>6. \A i \in DOMAIN closings : closings[i].upto \in 1..now
    BY DEF BooksInv, Dated
  <1>7. \A l \in log : l.id \in 1..(nextLog - 1) /\ l.prev \in Genesis..(l.id - 1)
    BY <1>0 DEF BooksInv, LogInv, LogRow, Genesis
  <1>8. Cardinality({r \in Reqs : req[r].step = "APPEND"}) <= 1
    <2> DEFINE S == {r \in Reqs : req[r].step = "APPEND"}
    <2>1. \A r, q \in S : r = q
      BY DEF BooksInv, LogInv
    <2> HIDE DEF S
    <2>2. CASE S = {}
      <3>1. Cardinality(S) = 0
        BY <2>2, FS_EmptySet
      <3> QED
        BY <3>1 DEF S
    <2>3. CASE S # {}
      <3>0. PICK r \in S : TRUE
        BY <2>3
      <3>1. S = {r}
        BY <2>1, <3>0
      <3>2. Cardinality(S) = 1
        BY <3>1, FS_Singleton
      <3> QED
        BY <3>2 DEF S
    <2> QED
      BY <2>2, <2>3
  <1> QED
    BY <1>2, <1>3, <1>4, <1>5, <1>6, <1>7, <1>8 DEF TypeOK

-----------------------------------------------------------------------------
(* The records: the log's chain, and the figures.                          *)

LedgerInv ==
    /\ OrderInv /\ ChainInv /\ RowsInv /\ RedeemedInv /\ UnredeemedInv
    /\ ClosingsApart /\ FiguresInv

\* It holds at the start: nothing is recorded.
LEMMA LedgerInit == Init => LedgerInv
  <1> SUFFICES ASSUME Init PROVE LedgerInv
    OBVIOUS
  <1>1. /\ rows = {} /\ log = {} /\ redemptions = {} /\ unredeeming = {} /\ issueKey = 1
        /\ \A r \in Reqs : req[r] = Idle
    BY DEF Init
  <1>2. closings = << >> /\ DOMAIN closings = {}
    BY EmptySeq, LenProperties DEF Init
  <1>3. IsFiniteSet({})
    BY FS_EmptySet
  <1>4. /\ Idle.step = "NONE" /\ Idle.entry = "NONE"
    BY DEF Idle
  <1>5. OrderInv /\ ChainInv
    BY <1>1, <1>3, <1>4 DEF OrderInv, ChainInv
  <1>6. RowsInv /\ RedeemedInv /\ UnredeemedInv
    BY <1>1, <1>3, <1>4 DEF RowsInv, RedeemedInv, UnredeemedInv
  <1>7. FiguresInv /\ ClosingsApart
    BY <1>1, <1>2, <1>4 DEF FiguresInv, ClosingsApart, Closing
  <1> QED
    BY <1>5, <1>6, <1>7 DEF LedgerInv

\* Every step keeps it.
LEMMA LedgerKept == BooksInv /\ LedgerInv /\ [Next]_vars => LedgerInv'
  <1> SUFFICES ASSUME BooksInv, LedgerInv, [Next]_vars PROVE LedgerInv'
    OBVIOUS
  <1>1. PICK V : Shaped(V)
    BY DEF BooksInv
  <1>2. /\ Dated /\ LogInv /\ OrderInv /\ ChainInv /\ RowsInv /\ RedeemedInv
        /\ UnredeemedInv /\ ClosingsApart /\ FiguresInv
    BY DEF BooksInv, LedgerInv
  <1>3. OrderInv' /\ ChainInv'
    BY <1>1, <1>2, OrderKept, ChainKept
  <1>4. RowsInv' /\ RedeemedInv' /\ FiguresInv'
    BY <1>1, <1>2, RowsKept, RedeemedKept, FiguresKept
  <1>5. UnredeemedInv' /\ ClosingsApart'
    BY <1>1, <1>2, UnredeemedKept, ApartKept
  <1> QED
    BY <1>3, <1>4, <1>5 DEF LedgerInv

-----------------------------------------------------------------------------
(* What follows.                                                           *)

\* The invariant holds in every reachable state.
THEOREM Invariant == Spec => []BooksInv
  BY InvariantInit, InvariantKept, PTL DEF Spec

\* Rows have the shape of the schema, a reversal has its original, every audit record
\* names one before it, and one append at a time is under way (auditLog.ts:36).
THEOREM TypeCorrect == Spec => []TypeOK
  BY Invariant, InvariantTypes, PTL

\* A coupon is used up exactly while its redemption is on record, whatever is deleted
\* or called in meanwhile (dataReset.ts:103-105, coupon.ts:231).
THEOREM CouponUsedIffRedeemedHolds == Spec => []CouponUsedIffRedeemed
  <1>1. BooksInv => CouponUsedIffRedeemed
    BY DEF BooksInv, CouponInv
  <1> QED
    BY Invariant, <1>1, PTL

\* Nothing refers to what a reset has deleted, whatever scopes it is asked for.
THEOREM NothingDanglingHolds == Spec => []NothingDangling
  <1>1. BooksInv => NothingDangling
    <2> SUFFICES ASSUME BooksInv PROVE NothingDangling
      OBVIOUS
    <2>1. PICK V : Shaped(V)
      BY DEF BooksInv
    <2>2. ASSUME NEW d \in redemptions
          PROVE  (\E p \in rows : p.id = d.row) /\ coupons[d.coupon] # "ABSENT"
      <3>1. d.coupon \in Coupons
        BY <2>1 DEF Shaped, Stored, Redemption
      <3>2. coupons[d.coupon] = "USED"
        BY <3>1 DEF BooksInv, CouponInv, CouponUsedIffRedeemed
      <3> QED
        BY <3>2 DEF BooksInv, LinkInv
    <2> QED
      BY <2>2 DEF BooksInv, LinkInv, NothingDangling
  <1> QED
    BY Invariant, <1>1, PTL

\* However often an issue is pressed or sent again, one key buys one batch, in full, of
\* numbers no other batch has (coupon.ts:139-142).
THEOREM IssuedOnceHolds == Spec => []IssuedOnce
  <1>1. BooksInv => IssuedOnce
    BY DEF BooksInv, IssueInv
  <1> QED
    BY Invariant, <1>1, PTL

\* What a reset deletes is in a backup that exists, or was recorded after it was begun
\* (dataReset.ts:135), as long as no two backups are begun in one millisecond: their
\* files would have one name, and the one that fails removes the other's.
THEOREM BackupBeforeLossHolds == Spec /\ []NamesApart => BackupBeforeLoss
  <1>1. Init => BackupInv
    BY DEF Init, BackupInv, Idle
  <1>2. BooksInv /\ NamesApart /\ BackupInv /\ [Next]_vars => BackupInv'
    BY BackupsKept DEF BooksInv
  <1>3. BooksInv /\ BackupInv /\ [Next]_vars =>
            [\A p \in Deleted : \E f \in files :
                 f.at > 0 /\ (p.id \in f.holds \/ p.at >= f.at)]_vars
    BY LossBackedUp DEF BooksInv
  <1> QED
    BY Invariant, <1>1, <1>2, <1>3, PTL DEF Spec, BackupBeforeLoss

\* What is recorded holds together in every reachable state.
THEOREM Ledger == Spec => []LedgerInv
  BY Invariant, LedgerInit, LedgerKept, PTL DEF Spec

\* However many closings, payments and resets overlap, a payment dated before the end of
\* a recorded closing was counted by one, and by no other that was begun once this one
\* was on record, unless it is dated at its very end (closing.ts:49-52).
THEOREM CountedOnceHolds == Spec => []CountedOnce
  <1>1. BooksInv /\ LedgerInv => CountedOnce
    <2> SUFFICES ASSUME BooksInv, LedgerInv PROVE CountedOnce
      OBVIOUS
    <2>1. PICK V : Shaped(V)
      BY DEF BooksInv
    <2>2. \A i \in DOMAIN closings : \A p \in rows : p.at < closings[i].upto =>
              \E j \in DOMAIN closings : p.id \in closings[j].counted
      BY DEF BooksInv, WindowInv, Covered
    <2>3. ASSUME NEW i \in DOMAIN closings, NEW j \in DOMAIN closings,
                 closings[i].id < closings[j].after, NEW p \in rows,
                 p.id \in closings[i].counted, p.id \in closings[j].counted
          PROVE  p.at = closings[i].upto
      <3>1. Takes(closings[i]) /\ Takes(closings[j])
        BY DEF LedgerInv, ClosingsApart
      <3>2. p.at <= closings[i].upto /\ closings[i].upto <= closings[j].from
            /\ closings[j].from <= p.at
        BY <2>3, <3>1 DEF Takes
      <3>3. closings[i].upto \in Nat /\ p.at \in Nat /\ closings[j].from \in Nat
        BY <2>1, ClosingShapes DEF Shaped, Stored, Row, SumsOf
      <3> QED
        BY <3>2, <3>3
    <2> QED
      BY <2>2, <2>3 DEF CountedOnce
  <1> QED
    BY Invariant, Ledger, <1>1, PTL

\* The figures agree with each other over every window, and over all time what is
\* reported is what stands (reporting.ts:40-62, 78-82).  What coupons gave is that too,
\* and whatever tables' redemptions are cancelled late, or not at all, once their
\* discount is taken back (payment.ts:375-395): no more and no less.
THEOREM ReportsAddUpHolds == Spec => []ReportsAddUp
  <1>1. BooksInv /\ LedgerInv => ReportsAddUp
    <2> SUFFICES ASSUME BooksInv, LedgerInv PROVE ReportsAddUp
      OBVIOUS
    <2>1. PICK V : Shaped(V)
      BY DEF BooksInv
    <2> QED
      BY <2>1, AllAddsUp DEF BooksInv, LedgerInv
  <1> QED
    BY Invariant, Ledger, <1>1, PTL

\* A recorded closing can be added up again: its window gives its figures, whatever was
\* charged and taken back since, unless a row is gone or dated at its very end
\* (closing.ts:49-58, 69).
THEOREM SnapshotStandsHolds == Spec => []SnapshotStands
  <1>1. LedgerInv => SnapshotStands
    BY FiguresStand DEF LedgerInv
  <1> QED
    BY Ledger, <1>1, PTL

\* However appends, purges and restarts overlap, what is left of the log verifies, as
\* long as no two records share a time and one purge, of the past, is on record
\* (auditLog.ts:36, 106-115, 124-134).
THEOREM ChainVerifiesHolds == Spec => []ChainVerifies
  <1>1. BooksInv /\ LedgerInv => ChainVerifies
    <2> SUFFICES ASSUME BooksInv, LedgerInv PROVE ChainVerifies
      OBVIOUS
    <2>1. PICK V : Shaped(V)
      BY DEF BooksInv
    <2> QED
      BY <2>1, ChainFollows DEF BooksInv, LedgerInv
  <1> QED
    BY Invariant, Ledger, <1>1, PTL
=============================================================================
