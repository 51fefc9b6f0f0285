-------------------------- MODULE StaffAuth_proofs --------------------------
(***************************************************************************)
(* Proofs about StaffAuth, for every number of accounts, requests,         *)
(* sessions and changes.                                                   *)
(***************************************************************************)
EXTENDS StaffAuthProps, TLAPS

USE StaffAssumption DEF Roles, BadCode

-----------------------------------------------------------------------------
(* What a request begins and ends with.                                    *)

\* What a request, a session and an account are before they are anything.
LEMMA Shapes ==
    /\ NoSession \in Session
    /\ NoSession.kind = "NONE"
    /\ Absent \in Account
    /\ Absent.role = "ABSENT"
    /\ Idle \in Request
    /\ Idle.session = NoSession /\ Idle.read = Absent /\ Idle.op = "NONE" /\ Idle.step = "NONE"
  <1>1. NoSession \in Session /\ NoSession.kind = "NONE"
    BY DEF NoSession, Session
  <1>2. Absent \in Account /\ Absent.role = "ABSENT"
    BY DEF Absent, NewAccount, Account
  <1>3. Idle.session = NoSession /\ Idle.read = Absent /\ Idle.op = "NONE" /\ Idle.step = "NONE"
    BY DEF Idle
  <1>4. 0 \in Sids
    BY DEF Sids
  <1>5. Idle \in Request
    BY <1>1, <1>2, <1>4 DEF Idle, Request, Operations, Steps
  <1> QED
    BY <1>1, <1>2, <1>3, <1>5

\* A request that starts has the copies its operation keeps.
LEMMA BeginShape ==
    ASSUME TypeOK, NEW op \in Operations, NEW s \in Sids, NEW u \in Users
    PROVE  LET q == Begin(op, s, u) IN
           /\ q \in Request
           /\ q.op = op /\ q.step = "DECIDED" /\ q.sid = s /\ q.who = u
           /\ q.session = IF op \in {"VERIFY", "STEP_UP", "MFA_ENABLE"} THEN store[s]
                          ELSE NoSession
           /\ q.read = IF op \in {"LOGIN", "VERIFY", "STEP_UP", "MFA_ENABLE", "PATCH"}
                       THEN account[u] ELSE Absent
           /\ q.role = "ABSENT"
  <1> DEFINE copy == IF op \in {"VERIFY", "STEP_UP", "MFA_ENABLE"} THEN store[s] ELSE NoSession
             row == IF op \in {"LOGIN", "VERIFY", "STEP_UP", "MFA_ENABLE", "PATCH"}
                    THEN account[u] ELSE Absent
             q == [Idle EXCEPT !.op = op, !.sid = s, !.who = u, !.step = "DECIDED",
                       !.session = copy, !.read = row]
  <1>1. copy \in Session /\ row \in Account
    BY Shapes DEF TypeOK
  <1>2. Begin(op, s, u) = q
    BY Shapes DEF Begin
  <1> HIDE DEF copy, row
  <1>3. /\ q \in Request
        /\ q.op = op /\ q.step = "DECIDED" /\ q.sid = s /\ q.who = u /\ q.session = copy
        /\ q.read = row
    BY <1>1, Shapes DEF Request, Steps
  <1>4. q.role = Idle.role /\ Idle.role = "ABSENT"
    BY DEF Idle
  <1> HIDE DEF q
  <1> QED
    BY <1>2, <1>3, <1>4 DEF copy, row

-----------------------------------------------------------------------------
(* The inductive invariant.                                                *)

Known(a, u) == u \in Users /\ a[u].role # "ABSENT"

\* A session, stored or held by a request, belongs to an account, is of no later
\* version, and if it is of today's version was opened by today's password.
SoundSession(a, x) ==
    x.kind # "NONE" =>
        /\ Known(a, x.user)
        /\ x.kind = "STAFF" =>
               /\ x.version <= a[x.user].version
               /\ x.version = a[x.user].version => x.coded \/ x.pw = a[x.user].pw

\* So is the copy d of the account u that a request has read.
SoundRead(a, u, d) ==
    d.role # "ABSENT" =>
        /\ Known(a, u)
        /\ d.version <= a[u].version
        /\ d.version = a[u].version => d.pw = a[u].pw

\* A request holds the copies it will need.
SoundRequest(a, q) ==
    /\ q.step # "NONE" => q.op # "NONE"
    /\ q.op # "NONE" => Known(a, q.who)
    /\ SoundSession(a, q.session)
    /\ SoundRead(a, q.who, q.read)
    /\ q.op \in {"LOGIN", "VERIFY", "STEP_UP"} \/ q.step = "ESTABLISH" => q.read.role # "ABSENT"
    /\ q.op = "PATCH" => q.role \in Roles
    /\ q.op = "STEP_UP" => /\ q.session.kind = "STAFF" /\ q.session.user = q.who
                           /\ q.session.version = q.read.version

AllSound ==
    /\ \A s \in Sids : SoundSession(account, store[s])
    /\ \A r \in Reqs : SoundRequest(account, req[r])

\* Copies of one session are of one kind, account and version.
Same(x, y) == x.kind = y.kind /\ x.user = y.user /\ x.version = y.version

CopiesAgree ==
    /\ \A r \in Reqs : LET x == req[r].session
                           y == store[req[r].sid]
                       IN  x.kind # "NONE" /\ y.kind # "NONE" => Same(x, y)
    /\ \A r, t \in Reqs : LET x == req[r].session
                              y == req[t].session
                          IN  x.kind # "NONE" /\ y.kind # "NONE" /\ req[r].sid = req[t].sid
                                  => Same(x, y)

IInv == TypeOK /\ AllSound /\ CopiesAgree

-----------------------------------------------------------------------------
(* Requests that start.                                                    *)

\* What a request starts with: at most a copy of a stored session.
Fresh(q) ==
    /\ q \in Request
    /\ SoundRequest(account, q)
    /\ q.session = NoSession \/ q.session = store[q.sid]

Starts(r) == \E q : Fresh(q) /\ req' = [req EXCEPT ![r] = q]

\* A request that starts from what it read is sound.
LEMMA BeginFresh ==
    ASSUME IInv, NEW op \in Operations \ {"NONE"}, NEW s \in Sids, NEW u \in Users,
           account[u].role # "ABSENT",
           op = "STEP_UP" => /\ store[s].kind = "STAFF" /\ store[s].user = u
                             /\ store[s].version = account[u].version,
           NEW step \in Steps,
           step = "ESTABLISH" => op = "LOGIN",
           NEW q \in Request,
           LET b == Begin(op, s, u) IN
               /\ q.op = op /\ q.step = step /\ q.sid = s /\ q.who = u
               /\ q.session = b.session /\ q.read = b.read
               /\ op = "PATCH" => q.role \in Roles
    PROVE  Fresh(q)
  <1> DEFINE b == Begin(op, s, u)
  <1>1. /\ b.session = IF op \in {"VERIFY", "STEP_UP", "MFA_ENABLE"} THEN store[s]
                       ELSE NoSession
        /\ b.read = IF op \in {"LOGIN", "VERIFY", "STEP_UP", "MFA_ENABLE", "PATCH"}
                    THEN account[u] ELSE Absent
    BY BeginShape DEF IInv
  <1> HIDE DEF b
  <1>2. SoundSession(account, store[s]) /\ SoundSession(account, NoSession)
    BY Shapes DEF IInv, AllSound, SoundSession
  <1>3. Known(account, u) /\ account[u] \in Account
    BY DEF Known, IInv, TypeOK
  <1>4. SoundRead(account, u, account[u]) /\ SoundRead(account, u, Absent)
    BY <1>3, Shapes DEF SoundRead, Account
  <1>5. SoundRequest(account, q)
    BY <1>1, <1>2, <1>3, <1>4 DEF SoundRequest, b
  <1> QED
    BY <1>1, <1>5 DEF Fresh, b

\* A login that fits starts a sound request.
LEMMA LoginStarts ==
    ASSUME IInv, NEW r \in Reqs, NEW u \in Present, NEW place \in Places, NEW p \in Passwords,
           NEW s \in Sids, LoginReads(r, u, place, p, s)
    PROVE  Starts(r)
  <1> DEFINE b == Begin("LOGIN", s, u)
             step == IF account[u].mfa THEN "PEND" ELSE "ESTABLISH"
             q == [b EXCEPT !.step = step]
  <1>1. u \in Users /\ "LOGIN" \in Operations \ {"NONE"} /\ step \in Steps
    BY DEF Operations, Steps
  <1>2. req' = [req EXCEPT ![r] = q]
    BY DEF LoginReads
  <1>3. b \in Request /\ b.op = "LOGIN" /\ b.sid = s /\ b.who = u
    BY <1>1, BeginShape DEF IInv
  <1>4. account[u].role # "ABSENT"
    BY DEF LoginReads
  <1> HIDE DEF b, step
  <1>5. /\ q \in Request /\ q.op = "LOGIN" /\ q.step = step /\ q.sid = s /\ q.who = u
        /\ q.session = b.session /\ q.read = b.read
    BY <1>1, <1>3 DEF Request
  <1> HIDE DEF q
  <1>6. Fresh(q)
    BY <1>1, <1>4, <1>5, BeginFresh DEF b
  <1> QED
    BY <1>2, <1>6 DEF Starts

\* So does a second step,
LEMMA VerifyStarts ==
    ASSUME IInv, NEW r \in Reqs, NEW s \in Sids, NEW c \in Typed, VerifyReads(r, s, c)
    PROVE  Starts(r)
  <1> DEFINE u == store[s].user
             b == Begin("VERIFY", s, u)
             q == [b EXCEPT !.code = c]
  <1>1. u \in Users /\ account[u].role # "ABSENT" /\ "VERIFY" \in Operations \ {"NONE"}
    BY DEF IInv, AllSound, SoundSession, Known, VerifyReads, Operations
  <1>2. req' = [req EXCEPT ![r] = q]
    BY DEF VerifyReads
  <1>3. b \in Request /\ b.op = "VERIFY" /\ b.sid = s /\ b.who = u /\ b.step = "DECIDED"
    BY <1>1, BeginShape DEF IInv
  <1> HIDE DEF b, u
  <1>5. /\ q \in Request /\ q.op = "VERIFY" /\ q.step = "DECIDED" /\ q.sid = s /\ q.who = u
        /\ q.session = b.session /\ q.read = b.read
    BY <1>1, <1>3 DEF Request, Typed
  <1> HIDE DEF q
  <1>6. Fresh(q)
    <2>1. "DECIDED" \in Steps
      BY DEF Steps
    <2> QED
      BY <1>1, <1>5, <2>1, BeginFresh DEF b
  <1> QED
    BY <1>2, <1>6 DEF Starts

\* a step-up,
LEMMA StepUpStarts ==
    ASSUME IInv, NEW r \in Reqs, NEW s \in Sids, NEW p \in Passwords, NEW c \in Typed,
           StepUpReads(r, s, p, c)
    PROVE  Starts(r)
  <1> DEFINE u == store[s].user
             b == Begin("STEP_UP", s, u)
             step == IF account[u].pw # p THEN "FAILED"
                     ELSE IF account[u].mfa THEN "DECIDED" ELSE "ELEVATE"
             q == [b EXCEPT !.code = c, !.step = step]
  <1>1. /\ u \in Users /\ account[u].role # "ABSENT" /\ "STEP_UP" \in Operations \ {"NONE"}
        /\ step \in Steps /\ step # "ESTABLISH"
        /\ store[s].kind = "STAFF" /\ store[s].version = account[u].version
    BY DEF IInv, AllSound, SoundSession, Known, StepUpReads, Usable, Operations, Steps
  <1>2. req' = [req EXCEPT ![r] = q]
    BY DEF StepUpReads
  <1>3. b \in Request /\ b.op = "STEP_UP" /\ b.sid = s /\ b.who = u
    BY <1>1, BeginShape DEF IInv
  <1>4. store[s].user = u
    OBVIOUS
  <1> HIDE DEF b, u, step
  <1>5. /\ q \in Request /\ q.op = "STEP_UP" /\ q.step = step /\ q.sid = s /\ q.who = u
        /\ q.session = b.session /\ q.read = b.read
    BY <1>1, <1>3 DEF Request, Typed
  <1> HIDE DEF q
  <1>6. Fresh(q)
    BY <1>1, <1>4, <1>5, BeginFresh DEF b
  <1> QED
    BY <1>2, <1>6 DEF Starts

\* an operation on one's own account,
LEMMA OwnStarts ==
    ASSUME IInv, NEW r \in Reqs, NEW op \in Ops, NEW s \in Sids, NEW p \in Passwords,
           NEW z \in Passwords \cup {NoPassword}, NEW c \in Typed,
           OwnReads(r, op, s, p, z, c)
    PROVE  Starts(r)
  <1> DEFINE u == store[s].user
             b == Begin(op, s, u)
             q == [b EXCEPT !.pw = z, !.code = c]
  <1>1. /\ u \in Users /\ account[u].role # "ABSENT"
        /\ op \in {"CHANGE_PASSWORD", "MFA_SETUP", "MFA_ENABLE"}
        /\ op \in Operations \ {"NONE"}
    BY DEF IInv, AllSound, SoundSession, Known, OwnReads, Usable, Operations
  <1>2. req' = [req EXCEPT ![r] = q]
    BY DEF OwnReads
  <1>3. b \in Request /\ b.op = op /\ b.sid = s /\ b.who = u /\ b.step = "DECIDED"
    BY <1>1, BeginShape DEF IInv
  <1> HIDE DEF b, u
  <1>5. /\ q \in Request /\ q.op = op /\ q.step = "DECIDED" /\ q.sid = s /\ q.who = u
        /\ q.session = b.session /\ q.read = b.read
    BY <1>1, <1>3 DEF Request, Typed
  <1> HIDE DEF q
  <1>6. Fresh(q)
    <2>1. "DECIDED" \in Steps
      BY DEF Steps
    <2> QED
      BY <1>1, <1>5, <2>1, BeginFresh DEF b
  <1> QED
    BY <1>2, <1>6 DEF Starts

\* a change of another account,
LEMMA PatchStarts ==
    ASSUME IInv, NEW r \in Reqs, NEW s \in Sids, NEW u \in Users, NEW role \in Roles,
           NEW active \in BOOLEAN, PatchReads(r, s, u, role, active)
    PROVE  Starts(r)
  <1> DEFINE b == Begin("PATCH", s, u)
             q == [b EXCEPT !.role = role, !.active = active]
  <1>1. account[u].role # "ABSENT" /\ "PATCH" \in Operations \ {"NONE"}
    BY DEF PatchReads, Operations
  <1>2. req' = [req EXCEPT ![r] = q]
    BY DEF PatchReads
  <1>3. b \in Request /\ b.op = "PATCH" /\ b.sid = s /\ b.who = u /\ b.step = "DECIDED"
    BY <1>1, BeginShape DEF IInv
  <1> HIDE DEF b
  <1>5. /\ q \in Request /\ q.op = "PATCH" /\ q.step = "DECIDED" /\ q.sid = s /\ q.who = u
        /\ q.session = b.session /\ q.read = b.read /\ q.role \in Roles
    BY <1>1, <1>3 DEF Request
  <1> HIDE DEF q
  <1>6. Fresh(q)
    <2>1. "DECIDED" \in Steps
      BY DEF Steps
    <2> QED
      BY <1>1, <1>5, <2>1, BeginFresh DEF b
  <1> QED
    BY <1>2, <1>6 DEF Starts

\* and a reset of another account's password or MFA.
LEMMA AdminStarts ==
    ASSUME IInv, NEW r \in Reqs, NEW op \in Ops, NEW s \in Sids, NEW u \in Users,
           NEW p \in Passwords \cup {NoPassword}, AdminReads(r, op, s, u, p)
    PROVE  Starts(r)
  <1> DEFINE b == Begin(op, s, u)
             q == [b EXCEPT !.pw = p]
  <1>1. /\ account[u].role # "ABSENT" /\ op \in {"RESET_PASSWORD", "DISABLE_MFA"}
        /\ op \in Operations \ {"NONE"}
    BY DEF AdminReads, Operations
  <1>2. req' = [req EXCEPT ![r] = q]
    BY DEF AdminReads
  <1>3. b \in Request /\ b.op = op /\ b.sid = s /\ b.who = u /\ b.step = "DECIDED"
    BY <1>1, BeginShape DEF IInv
  <1> HIDE DEF b
  <1>5. /\ q \in Request /\ q.op = op /\ q.step = "DECIDED" /\ q.sid = s /\ q.who = u
        /\ q.session = b.session /\ q.read = b.read
    BY <1>1, <1>3 DEF Request
  <1> HIDE DEF q
  <1>6. Fresh(q)
    <2>1. "DECIDED" \in Steps
      BY DEF Steps
    <2> QED
      BY <1>1, <1>5, <2>1, BeginFresh DEF b
  <1> QED
    BY <1>2, <1>6 DEF Starts

\* Whatever starts only reads, apart from the failed logins it forgives.
LEMMA ArrivesStarts ==
    ASSUME IInv, NEW r \in Reqs, Arrives(r)
    PROVE  /\ req[r] = Idle /\ Starts(r)
           /\ UNCHANGED <<account, store, nextSid, now>>
           /\ attempts' \in [Places -> [Users -> 0..PairLimit]]
  <1> DEFINE Reads == /\ req[r] = Idle /\ Starts(r)
                      /\ UNCHANGED <<account, store, nextSid, now>>
                      /\ \/ UNCHANGED attempts
                         \/ \E u \in Present, place \in Places :
                                attempts' = [attempts EXCEPT ![place][u] = 0]
  <1>1. ASSUME NEW u \in Present, NEW place \in Places, NEW p \in Passwords, NEW s \in Sids,
               LoginReads(r, u, place, p, s)
        PROVE  Reads
    <2>1. Starts(r)
      BY <1>1, LoginStarts
    <2> QED
      BY <1>1, <2>1 DEF LoginReads
  <1>2. ASSUME NEW s \in Sids, NEW c \in Typed, VerifyReads(r, s, c)
        PROVE  Reads
    <2>1. Starts(r)
      BY <1>2, VerifyStarts
    <2> QED
      BY <1>2, <2>1 DEF VerifyReads
  <1>3. ASSUME NEW s \in Sids, NEW p \in Passwords, NEW c \in Typed, StepUpReads(r, s, p, c)
        PROVE  Reads
    <2>1. Starts(r)
      BY <1>3, StepUpStarts
    <2> QED
      BY <1>3, <2>1 DEF StepUpReads
  <1>4. ASSUME NEW s \in Sids, NEW p \in Passwords, NEW q \in Passwords \cup {NoPassword},
               NEW c \in Typed, NEW op \in Ops, OwnReads(r, op, s, p, q, c)
        PROVE  Reads
    <2>1. Starts(r)
      BY <1>4, OwnStarts
    <2> QED
      BY <1>4, <2>1 DEF OwnReads
  <1>5. ASSUME NEW s \in Sids, NEW u \in Users, NEW role \in Roles, NEW a \in BOOLEAN,
               PatchReads(r, s, u, role, a)
        PROVE  Reads
    <2>1. Starts(r)
      BY <1>5, PatchStarts
    <2> QED
      BY <1>5, <2>1 DEF PatchReads
  <1>6. ASSUME NEW s \in Sids, NEW u \in Users, NEW p \in Passwords \cup {NoPassword},
               NEW op \in Ops, AdminReads(r, op, s, u, p)
        PROVE  Reads
    <2>1. Starts(r)
      BY <1>6, AdminStarts
    <2> QED
      BY <1>6, <2>1 DEF AdminReads
  <1> HIDE DEF Reads
  <1>7. Reads
    BY <1>1, <1>2, <1>3, <1>4, <1>5, <1>6 DEF Arrives
  <1>8. attempts' \in [Places -> [Users -> 0..PairLimit]]
    <2>1. attempts \in [Places -> [Users -> 0..PairLimit]]
      BY DEF IInv, TypeOK
    <2>2. 0 \in 0..PairLimit
      OBVIOUS
    <2>3. ASSUME NEW u \in Present, NEW place \in Places
          PROVE  [attempts EXCEPT ![place][u] = 0] \in [Places -> [Users -> 0..PairLimit]]
      BY <2>1, <2>2
    <2> QED
      BY <1>7, <2>1, <2>3 DEF Reads
  <1> QED
    BY <1>7, <1>8 DEF Reads

-----------------------------------------------------------------------------
(* What a step may do.                                                     *)

\* Accounts keep existing, and no password changes within a version.
MovesOn(a, b) ==
    \A u \in Users : Known(a, u) =>
        /\ Known(b, u)
        /\ a[u].version <= b[u].version
        /\ a[u].version = b[u].version => a[u].pw = b[u].pw

\* A sound session stays sound while accounts move on.
LEMMA SoundSessionKept ==
    ASSUME NEW a \in [Users -> Account], NEW b \in [Users -> Account], MovesOn(a, b),
           NEW x \in Session, SoundSession(a, x)
    PROVE  SoundSession(b, x)
  <1>1. CASE x.kind = "NONE"
    BY <1>1 DEF SoundSession
  <1>2. CASE x.kind # "NONE"
    <2> DEFINE u == x.user
    <2>1. Known(a, u) /\ u \in Users
      BY <1>2 DEF SoundSession, Known
    <2>2. /\ Known(b, u) /\ a[u].version <= b[u].version
          /\ a[u].version = b[u].version => a[u].pw = b[u].pw
      BY <2>1 DEF MovesOn
    <2>3. a[u].version \in Nat /\ b[u].version \in Nat /\ x.version \in Nat
      BY <2>1 DEF Account, Session
    <2> QED
      BY <1>2, <2>2, <2>3 DEF SoundSession
  <1> QED
    BY <1>1, <1>2

\* So does a sound request.
LEMMA SoundRequestKept ==
    ASSUME NEW a \in [Users -> Account], NEW b \in [Users -> Account], MovesOn(a, b),
           NEW q \in Request, SoundRequest(a, q)
    PROVE  SoundRequest(b, q)
  <1>1. q.session \in Session /\ q.read \in Account
    BY DEF Request
  <1>2. SoundSession(b, q.session)
    BY <1>1, SoundSessionKept DEF SoundRequest
  <1>3. SoundRead(b, q.who, q.read)
    <2>1. CASE q.read.role = "ABSENT"
      BY <2>1 DEF SoundRead
    <2>2. CASE q.read.role # "ABSENT"
      <3> DEFINE u == q.who
      <3>1. Known(a, u) /\ u \in Users
        BY <2>2 DEF SoundRequest, SoundRead, Known
      <3>2. /\ Known(b, u) /\ a[u].version <= b[u].version
            /\ a[u].version = b[u].version => a[u].pw = b[u].pw
        BY <3>1 DEF MovesOn
      <3>3. a[u].version \in Nat /\ b[u].version \in Nat /\ q.read.version \in Nat
        BY <1>1, <3>1 DEF Account
      <3> QED
        BY <2>2, <3>2, <3>3 DEF SoundRequest, SoundRead
    <2> QED
      BY <2>1, <2>2
  <1>4. q.op # "NONE" => Known(b, q.who)
    BY DEF SoundRequest, MovesOn, Known
  <1> QED
    BY <1>2, <1>3, <1>4 DEF SoundRequest

\* The session x comes from one that is stored, or held by a request, as s.
Origin(s, x) ==
    /\ x.kind # "NONE"
    /\ \/ Same(x, store[s])
       \/ \E t \in Reqs : req[t].sid = s /\ Same(x, req[t].session)

\* What comes from one id is of one kind, account and version.
LEMMA OneOrigin ==
    ASSUME IInv, NEW s \in Sids, NEW x, NEW y, Origin(s, x), Origin(s, y)
    PROVE  Same(x, y) /\ s \in 1..(nextSid - 1)
  BY DEF IInv, TypeOK, CopiesAgree, Origin, Same

\* What a request may become: its own copies or one of a stored session.
RequestFollows(r) ==
    /\ req'[r] \in Request
    /\ SoundRequest(account, req'[r])
    /\ req'[r].session.kind # "NONE" =>
           \/ req'[r].session = store[req'[r].sid]
           \/ req'[r].session = req[r].session /\ req'[r].sid = req[r].sid

\* What a stored session may become: itself with other data, a copy that was
\* held of it, or the first session of its id.
SessionFollows(s) ==
    store'[s].kind # "NONE" =>
        /\ s \in 1..(nextSid' - 1)
        /\ SoundSession(account, store'[s])
        /\ Origin(s, store'[s]) \/ s = nextSid

AccountFollows == account' \in [Users -> Account] /\ MovesOn(account, account')
StoreFollows == /\ nextSid' \in nextSid..(MaxSids + 1)
                /\ store' \in [Sids -> Session]
                /\ \A s \in Sids : SessionFollows(s)
RequestsFollow == req' \in [Reqs -> Request] /\ \A r \in Reqs : RequestFollows(r)
RestFollows == attempts' \in [Places -> [Users -> 0..PairLimit]] /\ now' \in 1..MaxTime

Follows == AccountFollows /\ StoreFollows /\ RequestsFollow /\ RestFollows

\* A step that keeps to this preserves the invariant.
LEMMA Preserved ==
    ASSUME IInv, Follows
    PROVE  IInv'
  <1> USE DEF Follows, AccountFollows, StoreFollows, RequestsFollow, RestFollows
  <1>1. \A r \in Reqs : req'[r].session.kind # "NONE" =>
            /\ Origin(req'[r].sid, req'[r].session)
            /\ req'[r].sid \in Sids
            /\ req'[r].sid \in 1..(nextSid - 1)
    <2> SUFFICES ASSUME NEW r \in Reqs, req'[r].session.kind # "NONE"
                 PROVE  /\ Origin(req'[r].sid, req'[r].session)
                        /\ req'[r].sid \in Sids
                        /\ req'[r].sid \in 1..(nextSid - 1)
      OBVIOUS
    <2>1. req'[r].sid \in Sids
      BY DEF Request
    <2>2. Origin(req'[r].sid, req'[r].session)
      BY DEF RequestFollows, Origin, Same
    <2> QED
      BY <2>1, <2>2, OneOrigin
  <1>2. TypeOK'
    <2>1. nextSid \in Nat /\ nextSid' \in 1..(MaxSids + 1)
      BY DEF IInv, TypeOK
    <2>2. \A s \in Sids : store'[s].kind # "NONE" => s \in 1..(nextSid' - 1)
      BY DEF SessionFollows
    <2>3. \A r \in Reqs : req'[r].session.kind # "NONE" => req'[r].sid \in 1..(nextSid' - 1)
      BY <1>1, <2>1
    <2> QED
      BY <2>1, <2>2, <2>3 DEF TypeOK
  <1>3. AllSound'
    <2>1. account \in [Users -> Account]
      BY DEF IInv, TypeOK
    <2>2. \A s \in Sids : SoundSession(account', store'[s])
      <3> SUFFICES ASSUME NEW s \in Sids
                   PROVE  SoundSession(account', store'[s])
        OBVIOUS
      <3>1. SoundSession(account, store'[s]) /\ store'[s] \in Session
        BY DEF SessionFollows, SoundSession
      <3> QED
        BY <2>1, <3>1, SoundSessionKept
    <2>3. \A r \in Reqs : SoundRequest(account', req'[r])
      <3> SUFFICES ASSUME NEW r \in Reqs
                   PROVE  SoundRequest(account', req'[r])
        OBVIOUS
      <3>1. SoundRequest(account, req'[r]) /\ req'[r] \in Request
        BY DEF RequestFollows
      <3> QED
        BY <2>1, <3>1, SoundRequestKept
    <2> QED
      BY <2>2, <2>3 DEF AllSound
  <1>4. CopiesAgree'
    <2>1. ASSUME NEW r \in Reqs,
                 req'[r].session.kind # "NONE", store'[req'[r].sid].kind # "NONE"
          PROVE  Same(req'[r].session, store'[req'[r].sid])
      <3> DEFINE s == req'[r].sid
      <3>1. Origin(s, req'[r].session) /\ s \in Sids /\ s \in 1..(nextSid - 1)
        BY <1>1, <2>1
      <3>2. Origin(s, store'[s])
        BY <2>1, <3>1 DEF SessionFollows, IInv, TypeOK
      <3> QED
        BY <3>1, <3>2, OneOrigin
    <2>2. ASSUME NEW r \in Reqs, NEW t \in Reqs, req'[r].sid = req'[t].sid,
                 req'[r].session.kind # "NONE", req'[t].session.kind # "NONE"
          PROVE  Same(req'[r].session, req'[t].session)
      BY <1>1, <2>2, OneOrigin
    <2> QED
      BY <2>1, <2>2 DEF CopiesAgree, Same
  <1> QED
    BY <1>2, <1>3, <1>4 DEF IInv

-----------------------------------------------------------------------------
(* Parts of a step.                                                        *)

\* Nothing happens to the accounts.
LEMMA AccountRests ==
    ASSUME IInv, UNCHANGED account
    PROVE  AccountFollows
  <1>1. \A u \in Users : account[u].version \in Nat
    BY DEF IInv, TypeOK, Account
  <1>2. MovesOn(account, account)
    BY <1>1 DEF MovesOn
  <1> QED
    BY <1>2 DEF AccountFollows, IInv, TypeOK

\* Nor to the failures and the clock.
LEMMA RestRests ==
    ASSUME IInv, UNCHANGED <<attempts, now>>
    PROVE  RestFollows
  BY DEF RestFollows, IInv, TypeOK

\* Stored sessions stay or are deleted.
LEMMA StoreShrinks ==
    ASSUME IInv, UNCHANGED nextSid, store' \in [Sids -> Session],
           \A s \in Sids : store'[s] = store[s] \/ store'[s].kind = "NONE"
    PROVE  StoreFollows
  <1>1. nextSid' \in nextSid..(MaxSids + 1)
    BY DEF IInv, TypeOK
  <1>2. ASSUME NEW s \in Sids
        PROVE  SessionFollows(s)
    <2>1. SoundSession(account, store[s]) /\ (store[s].kind # "NONE" => s \in 1..(nextSid - 1))
      BY DEF IInv, AllSound, TypeOK
    <2> QED
      BY <2>1 DEF SessionFollows, Origin, Same
  <1> QED
    BY <1>1, <1>2 DEF StoreFollows

\* Nothing happens to the store.
LEMMA StoreRests ==
    ASSUME IInv, UNCHANGED <<store, nextSid>>
    PROVE  StoreFollows
  <1>1. store' \in [Sids -> Session]
    BY DEF IInv, TypeOK
  <1> QED
    BY <1>1, StoreShrinks

\* One session is deleted.
LEMMA DropSession ==
    ASSUME IInv, NEW s \in Sids, UNCHANGED nextSid, store' = [store EXCEPT ![s] = NoSession]
    PROVE  StoreFollows
  <1>1. store' \in [Sids -> Session]
    BY Shapes DEF IInv, TypeOK
  <1>2. \A t \in Sids : store'[t] = store[t] \/ store'[t].kind = "NONE"
    BY Shapes DEF IInv, TypeOK
  <1> QED
    BY <1>1, <1>2, StoreShrinks

\* A request under way is typed and sound.
LEMMA RequestRests ==
    ASSUME IInv, NEW r \in Reqs
    PROVE  /\ req[r] \in Request
           /\ SoundRequest(account, req[r])
  BY DEF IInv, TypeOK, AllSound

\* One request becomes q, the others stay.
LEMMA RequestBecomes ==
    ASSUME IInv, NEW r \in Reqs, NEW q \in Request, SoundRequest(account, q),
           q.session.kind # "NONE" =>
               q.session = store[q.sid] \/ (q.session = req[r].session /\ q.sid = req[r].sid),
           req' = [req EXCEPT ![r] = q]
    PROVE  RequestsFollow
  <1>1. req \in [Reqs -> Request]
    BY DEF IInv, TypeOK
  <1>2. ASSUME NEW t \in Reqs
        PROVE  RequestFollows(t)
    <2>1. CASE t = r
      BY <1>1, <2>1 DEF RequestFollows
    <2>2. CASE t # r
      BY <1>1, <2>2, RequestRests DEF RequestFollows
    <2> QED
      BY <2>1, <2>2
  <1> QED
    BY <1>1, <1>2 DEF RequestsFollow

\* Nothing happens to the requests.
LEMMA RequestsRest ==
    ASSUME IInv, UNCHANGED req
    PROVE  RequestsFollow
  BY RequestRests DEF RequestsFollow, RequestFollows, IInv, TypeOK

\* A request ends.
LEMMA RequestEnds ==
    ASSUME IInv, NEW r \in Reqs, Done(r)
    PROVE  RequestsFollow
  <1>1. SoundRequest(account, Idle)
    <2>1. Idle.role = "ABSENT" /\ Idle.read.role = "ABSENT" /\ Idle.session.kind = "NONE"
      BY Shapes DEF Idle
    <2> QED
      BY <2>1, Shapes DEF SoundRequest, SoundSession, SoundRead
  <1> QED
    BY <1>1, Shapes, RequestBecomes DEF Done

\* A login or a second step goes on to its session, and nothing else does without
\* another look at the account.
LEMMA RequestGoes ==
    ASSUME IInv, NEW r \in Reqs, NEW step \in Steps, req[r].op # "NONE",
           step = "ESTABLISH" => req[r].op \in {"LOGIN", "VERIFY", "STEP_UP"},
           Goes(r, step)
    PROVE  RequestsFollow
  <1> DEFINE q == [req[r] EXCEPT !.step = step]
  <1>1. req[r] \in Request /\ SoundRequest(account, req[r])
    BY RequestRests
  <1>2. /\ q \in Request
        /\ q.op = req[r].op /\ q.step = step /\ q.sid = req[r].sid /\ q.who = req[r].who
        /\ q.session = req[r].session /\ q.read = req[r].read /\ q.role = req[r].role
    BY <1>1 DEF Request
  <1>3. req' = [req EXCEPT ![r] = q]
    BY DEF Goes, IInv, TypeOK
  <1> HIDE DEF q
  <1>4. SoundRequest(account, q)
    BY <1>1, <1>2 DEF SoundRequest
  <1> QED
    BY <1>2, <1>3, <1>4, RequestBecomes

\* One account changes: it exists already, or is new.
LEMMA AccountBecomes ==
    ASSUME IInv, NEW u, NEW d \in Account, account' = [account EXCEPT ![u] = d],
           Known(account, u) =>
               /\ d.role # "ABSENT"
               /\ \/ d.version = account[u].version /\ d.pw = account[u].pw
                  \/ d.version = account[u].version + 1
    PROVE  AccountFollows
  <1>1. account \in [Users -> Account]
    BY DEF IInv, TypeOK
  <1>2. ASSUME NEW v \in Users, Known(account, v)
        PROVE  /\ Known(account', v)
               /\ account[v].version <= account'[v].version
               /\ account[v].version = account'[v].version => account[v].pw = account'[v].pw
    <2>1. account[v].version \in Nat
      BY <1>1 DEF Account
    <2>2. CASE v = u
      BY <1>1, <1>2, <2>1, <2>2 DEF Known
    <2>3. CASE v # u
      BY <1>1, <1>2, <2>1, <2>3 DEF Known
    <2> QED
      BY <2>2, <2>3
  <1>3. account' \in [Users -> Account]
    BY <1>1
  <1> QED
    BY <1>2, <1>3 DEF AccountFollows, MovesOn

\* The first session of a new id.
LEMMA SessionCreated ==
    ASSUME IInv, NEW old \in Sids, NEW x \in Session, SoundSession(account, x),
           Regenerate(old, x)
    PROVE  StoreFollows
  <1>1. /\ store \in [Sids -> Session] /\ nextSid \in 1..(MaxSids + 1)
        /\ nextSid <= MaxSids /\ nextSid' = nextSid + 1
        /\ store' = [store EXCEPT ![old] = NoSession, ![nextSid] = x]
    BY DEF Regenerate, IInv, TypeOK
  <1>2. store' \in [Sids -> Session] /\ nextSid' \in nextSid..(MaxSids + 1)
    <2>1. store' \in [Sids -> Session]
      BY <1>1, Shapes
    <2>2. nextSid' \in nextSid..(MaxSids + 1)
      BY <1>1
    <2> QED
      BY <2>1, <2>2
  <1>3. ASSUME NEW s \in Sids
        PROVE  SessionFollows(s)
    <2>1. SoundSession(account, store[s]) /\ (store[s].kind # "NONE" => s \in 1..(nextSid - 1))
      BY DEF IInv, AllSound, TypeOK
    <2>2. CASE s = nextSid
      <3>1. store'[s] = x /\ s \in 1..(nextSid' - 1)
        BY <1>1, <2>2
      <3> QED
        BY <2>2, <3>1 DEF SessionFollows
    <2>3. CASE s # nextSid
      <3>1. store'[s] = store[s] \/ store'[s] = NoSession
        BY <1>1, <2>3
      <3> QED
        BY <1>1, <2>1, <3>1, Shapes DEF SessionFollows, Origin, Same
    <2> QED
      BY <2>2, <2>3
  <1> QED
    BY <1>2, <1>3 DEF StoreFollows

\* A request saves its copy, or drops the row.
LEMMA SessionSaved ==
    ASSUME IInv, NEW r \in Reqs, NEW x \in Session, UNCHANGED nextSid,
           x.kind # "NONE" => Same(x, req[r].session) /\ SoundSession(account, x),
           store' = [store EXCEPT ![req[r].sid] = x]
    PROVE  StoreFollows
  <1>1. store \in [Sids -> Session] /\ nextSid \in 1..(MaxSids + 1)
    BY DEF IInv, TypeOK
  <1>2. req[r].session.kind # "NONE" => req[r].sid \in 1..(nextSid - 1)
    BY DEF IInv, TypeOK
  <1>3. store' \in [Sids -> Session] /\ nextSid' \in nextSid..(MaxSids + 1)
    <2>1. store' \in [Sids -> Session]
      BY <1>1
    <2>2. nextSid' \in nextSid..(MaxSids + 1)
      BY <1>1
    <2> QED
      BY <2>1, <2>2
  <1>4. ASSUME NEW s \in Sids
        PROVE  SessionFollows(s)
    <2>1. SoundSession(account, store[s]) /\ (store[s].kind # "NONE" => s \in 1..(nextSid - 1))
      BY DEF IInv, AllSound, TypeOK
    <2>2. CASE s = req[r].sid
      <3>1. store'[s] = x
        BY <1>1, <2>2
      <3> QED
        BY <1>2, <2>2, <3>1 DEF SessionFollows, Origin, Same
    <2>3. CASE s # req[r].sid
      <3>1. store'[s] = store[s]
        BY <1>1, <2>3
      <3> QED
        BY <2>1, <3>1 DEF SessionFollows, Origin, Same
    <2> QED
      BY <2>2, <2>3
  <1> QED
    BY <1>3, <1>4 DEF StoreFollows

-----------------------------------------------------------------------------
(* The steps of a request under way.                                       *)

\* A pending second step is a new session without a version.
LEMMA PendFollows ==
    ASSUME IInv, NEW r \in Reqs, Pend(r)
    PROVE  Follows
  <1> DEFINE u == req[r].who
             x == PendingOf(u, req[r].read)
  <1>1. req[r] \in Request /\ SoundRequest(account, req[r])
    BY RequestRests
  <1>2. u \in Users /\ Known(account, u) /\ req[r].read \in Account /\ req[r].sid \in Sids
    BY <1>1 DEF Pend, SoundRequest, Known, Request
  <1>3. now + Window \in Nat
    BY DEF IInv, TypeOK
  <1>4. x \in Session /\ x.kind = "PENDING" /\ x.user = u
    BY <1>2, <1>3, Shapes DEF PendingOf, Session, Account
  <1>5. StoreFollows
    BY <1>2, <1>4, SessionCreated DEF Pend, SoundSession
  <1> QED
    BY <1>5, RequestEnds, AccountRests, RestRests DEF Follows, Pend

\* A session takes its version and its password from one copy.
LEMMA EstablishFollows ==
    ASSUME IInv, NEW r \in Reqs, Establish(r)
    PROVE  Follows
  <1> DEFINE u == req[r].who
             coded == req[r].op = "VERIFY"
             x == SessionOf(u, req[r].read, coded)
  <1>1. req[r] \in Request /\ SoundRequest(account, req[r])
    BY RequestRests
  <1>2. u \in Users /\ Known(account, u) /\ req[r].read \in Account /\ req[r].sid \in Sids
    BY <1>1 DEF Establish, SoundRequest, Known, Request
  <1>3. /\ req[r].read.version <= account[u].version
        /\ req[r].read.version = account[u].version => req[r].read.pw = account[u].pw
    BY <1>1 DEF Establish, SoundRequest, SoundRead
  <1> HIDE DEF u
  <1>4. /\ x \in Session
        /\ x.kind = "STAFF" /\ x.user = u /\ x.version = req[r].read.version
        /\ x.pw = req[r].read.pw
    <2>1. req[r].read.version \in Nat /\ req[r].read.pw \in Passwords \cup {NoPassword}
      BY <1>2 DEF Account
    <2> QED
      BY <1>2, <2>1, Shapes DEF SessionOf, Session
  <1>5. SoundSession(account, x)
    BY <1>2, <1>3, <1>4 DEF SoundSession
  <1>6. StoreFollows
    BY <1>2, <1>4, <1>5, SessionCreated DEF Establish, u
  <1> QED
    BY <1>6, RequestEnds, AccountRests, RestRests DEF Follows, Establish

\* Claiming a code changes neither the version nor the password.
LEMMA ClaimFollows ==
    ASSUME IInv, NEW r \in Reqs, ClaimCode(r)
    PROVE  Follows
  <1> DEFINE u == req[r].who
             d == [account[u] EXCEPT !.lastUsed = req[r].code]
  <1>1. req[r] \in Request /\ SoundRequest(account, req[r])
    BY RequestRests
  <1>2. u \in Users /\ Known(account, u) /\ req[r].op \in {"VERIFY", "MFA_ENABLE", "STEP_UP"}
    BY <1>1 DEF ClaimCode, SoundRequest, Known
  <1>3. account \in [Users -> Account] /\ account[u] \in Account
    BY <1>2 DEF IInv, TypeOK
  <1>4. req[r].code \in Nat
    <2>1. req[r].code \in Codes \cup {BadCode}
      BY <1>1 DEF Request
    <2>2. Codes \subseteq Nat /\ BadCode \in Nat
      BY DEF StaffAssumption
    <2> QED
      BY <2>1, <2>2
  <1>5. account' = [account EXCEPT ![u] = d]
    BY <1>2, <1>3 DEF ClaimCode
  <1> HIDE DEF u
  <1>6. /\ d \in Account /\ d.role = account[u].role /\ d.pw = account[u].pw
        /\ d.version = account[u].version
    BY <1>3, <1>4 DEF Account
  <1>7. AccountFollows
    <2> HIDE DEF d
    <2> QED
      BY <1>2, <1>5, <1>6, AccountBecomes DEF Known
  <1>8. RequestsFollow
    <2> DEFINE step == AfterClaim(req[r].op)
    <2>1. /\ step \in Steps /\ req[r].op # "NONE"
          /\ step = "ESTABLISH" => req[r].op \in {"LOGIN", "VERIFY", "STEP_UP"}
      BY <1>2 DEF AfterClaim, Steps
    <2>2. Goes(r, step)
      BY DEF ClaimCode
    <2> HIDE DEF step
    <2> QED
      BY <2>1, <2>2, RequestGoes
  <1> QED
    BY <1>7, <1>8, StoreRests, RestRests DEF Follows, ClaimCode

\* Rejecting it writes nothing.
LEMMA RejectFollows ==
    ASSUME IInv, NEW r \in Reqs, RejectCode(r)
    PROVE  Follows
  <1>1. RequestsFollow
    <2>1. Done(r) \/ Goes(r, "FAILED")
      BY DEF RejectCode
    <2>2. req[r].op # "NONE" /\ "FAILED" \in Steps
      BY DEF RejectCode, Steps
    <2> QED
      BY <2>1, <2>2, RequestEnds, RequestGoes
  <1> QED
    BY <1>1, AccountRests, StoreRests, RestRests DEF Follows, RejectCode

\* A failure is saved in a copy of the session, or ends it.
LEMMA CountFollows ==
    ASSUME IInv, NEW r \in Reqs, CountFailure(r)
    PROVE  Follows
  <1> DEFINE copy == req[r].session
             failures == copy.failures + 1
             x == IF EndsSession(failures) THEN NoSession
                  ELSE [copy EXCEPT !.failures = failures]
  <1>1. copy \in Session /\ SoundSession(account, copy)
    BY RequestRests DEF Request, SoundRequest
  <1>2. store' = [store EXCEPT ![req[r].sid] = x]
    BY DEF CountFailure
  <1> HIDE DEF copy
  <1>3. /\ x \in Session
        /\ x.kind # "NONE" => Same(x, copy) /\ SoundSession(account, x)
    <2>1. CASE EndsSession(failures)
      BY <2>1, Shapes
    <2>2. CASE ~EndsSession(failures)
      <3>1. failures \in 0..(MaxFailures - 1)
        BY <1>1, <2>2 DEF EndsSession, Session
      <3> HIDE DEF failures
      <3>2. /\ x \in Session /\ x.kind = copy.kind /\ x.user = copy.user
            /\ x.version = copy.version /\ x.pw = copy.pw /\ x.coded = copy.coded
        BY <1>1, <2>2, <3>1 DEF Session
      <3> HIDE DEF x
      <3> QED
        BY <1>1, <3>2 DEF Same, SoundSession
    <2> QED
      BY <2>1, <2>2
  <1> HIDE DEF x
  <1>4. StoreFollows
    BY <1>2, <1>3, SessionSaved DEF CountFailure, copy
  <1> QED
    BY <1>4, RequestEnds, AccountRests, RestRests DEF Follows, CountFailure

\* A step-up saves its copy with the password it has just checked.
LEMMA ElevateFollows ==
    ASSUME IInv, NEW r \in Reqs, Elevate(r)
    PROVE  Follows
  <1> DEFINE copy == req[r].session
             pw == IF req[r].op = "STEP_UP" THEN req[r].read.pw ELSE copy.pw
             failures == IF req[r].op = "STEP_UP" THEN 0 ELSE copy.failures
             x == [copy EXCEPT !.until = now + Window, !.failures = failures, !.pw = pw]
  <1>1. req[r] \in Request /\ SoundRequest(account, req[r])
    BY RequestRests
  <1>2. copy \in Session /\ SoundSession(account, copy) /\ req[r].read \in Account
    BY <1>1 DEF Request, SoundRequest
  <1>3. now + Window \in Nat
    BY DEF IInv, TypeOK
  <1>4. store' = [store EXCEPT ![req[r].sid] = x]
    BY <1>2 DEF Elevate, Session
  <1>5. pw \in Passwords \cup {NoPassword} /\ failures \in 0..(MaxFailures - 1)
    BY <1>2 DEF Account, Session
  <1>6. copy.kind = "STAFF" /\ copy.version = account[copy.user].version =>
            copy.coded \/ pw = account[copy.user].pw
    BY <1>1, <1>2 DEF SoundRequest, SoundSession, SoundRead
  <1> HIDE DEF copy, pw, failures
  <1>7. /\ x \in Session /\ x.kind = copy.kind /\ x.user = copy.user
        /\ x.version = copy.version /\ x.pw = pw /\ x.coded = copy.coded
    BY <1>2, <1>3, <1>5 DEF Session
  <1> HIDE DEF x
  <1>8. Same(x, copy) /\ SoundSession(account, x)
    BY <1>2, <1>6, <1>7, Zenon DEF Same, SoundSession
  <1>9. StoreFollows
    BY <1>4, <1>7, <1>8, SessionSaved DEF Elevate, copy
  <1> QED
    BY <1>9, RequestEnds, AccountRests, RestRests DEF Follows, Elevate

\* The changes of an account by a request: what the row becomes.
AccountWrites(r) ==
    \/ ChangeWrites(r) \/ SetupWrites(r) \/ EnableWrites(r) \/ PatchWrites(r)
    \/ ResetWrites(r) \/ DisableWrites(r) \/ BumpVersion(r)

\* Each change of an account moves it on: a new password takes a new version.
LEMMA WritesMoveOn ==
    ASSUME IInv, NEW r \in Reqs, AccountWrites(r)
    PROVE  AccountFollows
  <1> DEFINE u == req[r].who
  <1>1. req[r] \in Request /\ SoundRequest(account, req[r])
    BY RequestRests
  <1>2. u \in Users /\ Known(account, u)
    <2>1. req[r].step # "NONE"
      BY ZenonT(60)
         DEF AccountWrites, ChangeWrites, SetupWrites, EnableWrites, PatchWrites, ResetWrites,
             DisableWrites, BumpVersion
    <2> QED
      BY <1>1, <2>1 DEF SoundRequest, Known
  <1>3. account \in [Users -> Account] /\ account[u] \in Account
    BY <1>2 DEF IInv, TypeOK
  <1>4. account[u].version \in Nat
    BY <1>3 DEF Account
  <1>5. req[r].pw \in Passwords \cup {NoPassword} /\ req[r].active \in BOOLEAN
    BY <1>1 DEF Request
  <1>6. req[r].op = "PATCH" => req[r].role \in Roles
    BY <1>1 DEF SoundRequest
  <1>7. ASSUME NEW m \in BOOLEAN,
               account' = [account EXCEPT ![u] = [account[u] EXCEPT !.pw = req[r].pw,
                              !.mustReset = m, !.version = account[u].version + 1]]
        PROVE  AccountFollows
    <2> DEFINE d == [account[u] EXCEPT !.pw = req[r].pw, !.mustReset = m,
                                       !.version = account[u].version + 1]
    <2>1. d \in Account /\ d.role = account[u].role /\ d.version = account[u].version + 1
      <3>1. account[u].version + 1 \in Nat
        BY <1>4
      <3> QED
        BY <1>3, <1>5, <3>1 DEF Account
    <2>2. account' = [account EXCEPT ![u] = d]
      BY <1>7
    <2> HIDE DEF d
    <2> QED
      BY <1>2, <2>1, <2>2, AccountBecomes DEF Known
  <1>8. ASSUME NEW m \in BOOLEAN, NEW c \in BOOLEAN,
               account' = [account EXCEPT ![u] = [account[u] EXCEPT !.mfa = m, !.secret = c]]
        PROVE  AccountFollows
    <2> DEFINE d == [account[u] EXCEPT !.mfa = m, !.secret = c]
    <2>1. /\ d \in Account /\ d.role = account[u].role
          /\ d.version = account[u].version /\ d.pw = account[u].pw
      BY <1>3 DEF Account
    <2>2. account' = [account EXCEPT ![u] = d]
      BY <1>8
    <2> HIDE DEF d
    <2> QED
      BY <1>2, <2>1, <2>2, AccountBecomes DEF Known
  <1>9. CASE PatchWrites(r)
    <2> DEFINE v == IF SecurityRelevant(req[r]) THEN account[u].version + 1
                    ELSE account[u].version
               d == [account[u] EXCEPT !.role = req[r].role, !.active = req[r].active,
                                       !.version = v]
    <2>1. account' = [account EXCEPT ![u] = d]
      BY <1>3, <1>9 DEF PatchWrites
    <2>2. v \in Nat /\ v \in {account[u].version, account[u].version + 1}
      BY <1>4
    <2>3. req[r].role \in Roles
      BY <1>6, <1>9 DEF PatchWrites
    <2> HIDE DEF v
    <2>4. d \in Account /\ d.role \in Roles /\ d.version = v /\ d.pw = account[u].pw
      BY <1>3, <1>5, <2>2, <2>3 DEF Account
    <2> HIDE DEF d
    <2> QED
      BY <1>2, <2>1, <2>2, <2>4, AccountBecomes
  <1>10. CASE BumpVersion(r)
    <2> DEFINE d == [account[u] EXCEPT !.version = @ + 1]
    <2>1. account' = [account EXCEPT ![u] = d]
      BY <1>3, <1>10 DEF BumpVersion
    <2>2. d \in Account /\ d.role = account[u].role /\ d.version = account[u].version + 1
      BY <1>3, <1>4 DEF Account
    <2> HIDE DEF d
    <2> QED
      BY <1>2, <2>1, <2>2, AccountBecomes DEF Known
  <1>11. CASE ChangeWrites(r)
    <2>1. account' = [account EXCEPT ![u] = [account[u] EXCEPT !.pw = req[r].pw,
                         !.mustReset = FALSE, !.version = account[u].version + 1]]
      BY <1>2, <1>3, <1>11, ZenonT(60) DEF ChangeWrites
    <2> QED
      BY <1>7, <2>1
  <1>12. CASE ResetWrites(r)
    <2>1. account' = [account EXCEPT ![u] = [account[u] EXCEPT !.pw = req[r].pw,
                         !.mustReset = TRUE, !.version = account[u].version + 1]]
      BY <1>2, <1>3, <1>12 DEF ResetWrites
    <2> QED
      BY <1>7, <2>1
  <1>13. CASE SetupWrites(r) \/ DisableWrites(r)
    <2>1. PICK c \in BOOLEAN :
             account' = [account EXCEPT ![u] = [account[u] EXCEPT !.mfa = FALSE, !.secret = c]]
      <3>1. CASE SetupWrites(r)
        <4>1. account' = [account EXCEPT ![u] = [account[u] EXCEPT !.mfa = FALSE, !.secret = TRUE]]
          BY <1>2, <1>3, <3>1, ZenonT(60) DEF SetupWrites, Account
        <4> QED
          BY <4>1
      <3>2. CASE DisableWrites(r)
        <4>1. account' = [account EXCEPT ![u] = [account[u] EXCEPT !.mfa = FALSE, !.secret = FALSE]]
          BY <1>2, <1>3, <3>2 DEF DisableWrites, Account
        <4> QED
          BY <4>1
      <3> QED
        BY <1>13, <3>1, <3>2
    <2> QED
      BY <1>8, <2>1
  <1>14. CASE EnableWrites(r)
    <2> DEFINE c == account[u].secret
    <2>1. account' = [account EXCEPT ![u] = [account[u] EXCEPT !.mfa = TRUE, !.secret = c]]
      <3>1. account' = [account EXCEPT ![u].mfa = TRUE]
        BY <1>14 DEF EnableWrites
      <3>2. [account[u] EXCEPT !.mfa = TRUE] = [account[u] EXCEPT !.mfa = TRUE, !.secret = c]
        BY <1>3 DEF Account
      <3> QED
        BY <3>1, <3>2
    <2>2. c \in BOOLEAN
      BY <1>3 DEF Account
    <2> HIDE DEF c
    <2> QED
      BY <1>8, <2>1, <2>2
  <1> QED
    BY <1>9, <1>10, <1>11, <1>12, <1>13, <1>14 DEF AccountWrites

\* The changes touch nothing but the account.
LEMMA WritesFollow ==
    ASSUME IInv, NEW r \in Reqs, AccountWrites(r)
    PROVE  Follows
  <1>1. \/ Done(r)
        \/ \E step \in {"DELETE", "ELEVATE", "BUMP"} : Goes(r, step)
    <2>1. CASE ChangeWrites(r) \/ ResetWrites(r) \/ BumpVersion(r)
      BY <2>1, Zenon DEF ChangeWrites, ResetWrites, BumpVersion
    <2>2. CASE SetupWrites(r) \/ DisableWrites(r) \/ EnableWrites(r)
      BY <2>2, Zenon DEF SetupWrites, DisableWrites, EnableWrites
    <2>3. CASE PatchWrites(r)
      BY <2>3, Zenon DEF PatchWrites
    <2> QED
      BY <2>1, <2>2, <2>3 DEF AccountWrites
  <1>2. req[r].step # "NONE"
    BY DEF AccountWrites, ChangeWrites, SetupWrites, EnableWrites, PatchWrites, ResetWrites,
           DisableWrites, BumpVersion
  <1>3. req[r].op # "NONE"
    BY <1>2, RequestRests DEF SoundRequest
  <1>4. RequestsFollow
    <2>1. CASE Done(r)
      BY <2>1, RequestEnds
    <2>2. ASSUME NEW step \in {"DELETE", "ELEVATE", "BUMP"}, Goes(r, step)
          PROVE  RequestsFollow
      <3>1. step \in Steps /\ step # "ESTABLISH"
        <4>1. CASE step = "DELETE"
          BY <4>1 DEF Steps
        <4>2. CASE step = "ELEVATE"
          BY <4>2 DEF Steps
        <4>3. CASE step = "BUMP"
          BY <4>3 DEF Steps
        <4> QED
          BY <2>2, <4>1, <4>2, <4>3
      <3> QED
        BY <1>3, <2>2, <3>1, RequestGoes
    <2> QED
      BY <1>1, <2>1, <2>2
  <1>5. UNCHANGED <<attempts, store, nextSid, now>>
    BY Zenon
       DEF AccountWrites, ChangeWrites, SetupWrites, EnableWrites, PatchWrites, ResetWrites,
           DisableWrites, BumpVersion
  <1>6. StoreFollows /\ RestFollows
    BY <1>5, StoreRests, RestRests
  <1> QED
    BY <1>4, <1>6, WritesMoveOn DEF Follows

\* After a change of password the copy is today's account.
LEMMA ReadsAgainFollows ==
    ASSUME IInv, NEW r \in Reqs, ChangeReadsAgain(r)
    PROVE  Follows
  <1> DEFINE u == req[r].who
             q == [req[r] EXCEPT !.read = account[u], !.step = "ESTABLISH"]
  <1>1. req[r] \in Request /\ SoundRequest(account, req[r])
    BY RequestRests
  <1>2. u \in Users /\ Known(account, u) /\ req[r].op = "CHANGE_PASSWORD"
    BY <1>1 DEF ChangeReadsAgain, SoundRequest, Known
  <1>3. account[u] \in Account /\ account[u].version \in Nat
    BY <1>2 DEF IInv, TypeOK, Account
  <1>4. req' = [req EXCEPT ![r] = q]
    BY DEF ChangeReadsAgain, IInv, TypeOK
  <1> HIDE DEF u
  <1>5. /\ q \in Request
        /\ q.op = req[r].op /\ q.step = "ESTABLISH" /\ q.sid = req[r].sid /\ q.who = u
        /\ q.session = req[r].session /\ q.read = account[u]
    BY <1>1, <1>3 DEF Request, Steps, u
  <1> HIDE DEF q
  <1>6. SoundRequest(account, q)
    <2>1. SoundRead(account, u, account[u])
      BY <1>2, <1>3 DEF SoundRead
    <2> QED
      BY <1>1, <1>2, <1>5, <2>1 DEF SoundRequest, Known
  <1>7. RequestsFollow
    BY <1>4, <1>5, <1>6, RequestBecomes
  <1> QED
    BY <1>7, AccountRests, StoreRests, RestRests DEF Follows, ChangeReadsAgain

\* Ending an account's sessions only deletes.
LEMMA DeleteFollows ==
    ASSUME IInv, NEW r \in Reqs, DeleteSessions(r)
    PROVE  Follows
  <1>1. req[r].op # "NONE" /\ "REREAD" \in Steps
    BY RequestRests DEF DeleteSessions, SoundRequest, Steps
  <1>2. Done(r) \/ Goes(r, "REREAD")
    BY DEF DeleteSessions
  <1>3. RequestsFollow
    BY <1>1, <1>2, RequestEnds, RequestGoes
  <1>4. store' \in [Sids -> Session]
    BY Shapes DEF DeleteSessions, IInv, TypeOK
  <1>5. \A s \in Sids : store'[s] = store[s] \/ store'[s].kind = "NONE"
    BY Shapes DEF DeleteSessions
  <1>6. StoreFollows
    BY <1>4, <1>5, StoreShrinks DEF DeleteSessions
  <1> QED
    BY <1>3, <1>6, AccountRests, RestRests DEF Follows, DeleteSessions

\* Every step of a request under way keeps to what a step may do,
LEMMA ContinuesFollow ==
    ASSUME IInv, NEW r \in Reqs, Continues(r)
    PROVE  Follows
  BY PendFollows, EstablishFollows, ClaimFollows, RejectFollows, CountFollows,
     ElevateFollows, WritesFollow, ReadsAgainFollows, DeleteFollows
     DEF Continues, AccountWrites

\* every start of one,
LEMMA ArrivesFollow ==
    ASSUME IInv, NEW r \in Reqs, Arrives(r)
    PROVE  Follows
  <1>1. RequestsFollow
    <2>1. PICK q : Fresh(q) /\ req' = [req EXCEPT ![r] = q]
      BY ArrivesStarts DEF Starts
    <2> QED
      BY <2>1, RequestBecomes, Shapes DEF Fresh
  <1>2. RestFollows
    BY ArrivesStarts DEF RestFollows, IInv, TypeOK
  <1>3. UNCHANGED account /\ UNCHANGED <<store, nextSid>>
    BY ArrivesStarts
  <1> QED
    BY <1>1, <1>2, <1>3, AccountRests, StoreRests DEF Follows

-----------------------------------------------------------------------------
(* Steps without a request under way, and the theorems.                    *)

\* the creation of an account,
LEMMA CreateFollows ==
    ASSUME IInv, NEW s \in Sids, NEW u \in Users, NEW role \in Roles, NEW p \in Passwords,
           CreateUser(s, u, role, p)
    PROVE  Follows
  <1> DEFINE d == NewAccount(role, p)
  <1>1. d \in Account
    BY DEF NewAccount, Account
  <1>2. ~Known(account, u) /\ account' = [account EXCEPT ![u] = d]
    BY DEF CreateUser, Known
  <1> HIDE DEF d
  <1>3. AccountFollows
    BY <1>1, <1>2, AccountBecomes
  <1> QED
    BY <1>3, StoreRests, RestRests, RequestsRest DEF Follows, CreateUser

\* everything that takes one step,
LEMMA ImmediateFollows ==
    ASSUME IInv, Immediate
    PROVE  Follows
  <1>1. CASE \E u \in Present, place \in Places, p \in Passwords : LoginFails(u, place, p)
    <2>1. PICK u \in Present, place \in Places, p \in Passwords : LoginFails(u, place, p)
      BY <1>1
    <2>2. /\ attempts \in [Places -> [Users -> 0..PairLimit]] /\ u \in Users
          /\ attempts[place][u] \in 0..PairLimit
      BY DEF IInv, TypeOK
    <2>3. attempts[place][u] + 1 \in 0..PairLimit
      BY <2>1, <2>2 DEF LoginFails, LoginAllowed
    <2>4. attempts' \in [Places -> [Users -> 0..PairLimit]]
      <3>1. attempts' = [attempts EXCEPT ![place] =
                            [attempts[place] EXCEPT ![u] = attempts[place][u] + 1]]
        BY <2>1, <2>2 DEF LoginFails
      <3> QED
        BY <2>2, <2>3, <3>1
    <2>5. RestFollows
      BY <2>1, <2>4 DEF LoginFails, RestFollows, IInv, TypeOK
    <2> QED
      BY <2>1, <2>5, AccountRests, StoreRests, RequestsRest DEF Follows, LoginFails
  <1>2. CASE \E s \in Sids : Logout(s) \/ DropRefused(s) \/ ExpireSession(s)
    <2>1. PICK s \in Sids : Logout(s) \/ DropRefused(s) \/ ExpireSession(s)
      BY <1>2
    <2>2. /\ store' = [store EXCEPT ![s] = NoSession]
          /\ UNCHANGED account /\ UNCHANGED <<attempts, now>>
          /\ UNCHANGED nextSid /\ UNCHANGED req
      BY <2>1 DEF Logout, DropRefused, ExpireSession
    <2> QED
      BY <2>2, DropSession, AccountRests, RestRests, RequestsRest DEF Follows
  <1>3. CASE \E s \in Sids, u \in Users, role \in Roles, p \in Passwords :
                CreateUser(s, u, role, p)
    BY <1>3, CreateFollows
  <1>4. CASE \E place \in Places : AttemptsAge(place)
    <2>1. PICK place \in Places : AttemptsAge(place)
      BY <1>4
    <2>2. [u \in Users |-> 0] \in [Users -> 0..PairLimit]
      OBVIOUS
    <2>3. attempts' \in [Places -> [Users -> 0..PairLimit]]
      BY <2>1, <2>2 DEF AttemptsAge, IInv, TypeOK
    <2>4. RestFollows
      BY <2>1, <2>3 DEF AttemptsAge, RestFollows, IInv, TypeOK
    <2> QED
      BY <2>1, <2>4, AccountRests, StoreRests, RequestsRest DEF Follows, AttemptsAge
  <1>5. CASE Tick
    <2>1. RestFollows
      BY <1>5 DEF Tick, RestFollows, IInv, TypeOK
    <2> QED
      BY <1>5, <2>1, AccountRests, StoreRests, RequestsRest DEF Follows, Tick
  <1> QED
    BY <1>1, <1>2, <1>3, <1>4, <1>5 DEF Immediate

\* and a step that changes nothing.
LEMMA StutterFollows ==
    ASSUME IInv, UNCHANGED vars
    PROVE  Follows
  BY AccountRests, StoreRests, RestRests, RequestsRest DEF Follows, vars

\* The invariant holds at the start.
LEMMA InitEstablishes == Init => IInv
  <1> SUFFICES ASSUME Init PROVE IInv
    OBVIOUS
  <1>1. account \in [Users -> Account]
    <2>1. PICK p \in [Users -> Passwords] :
             account = [u \in Users |->
                 IF InitialRole[u] = "ABSENT" THEN Absent
                 ELSE [NewAccount(InitialRole[u], p[u]) EXCEPT
                          !.mfa = u \in InitialMfa, !.secret = u \in InitialMfa]]
      BY DEF Init
    <2>2. ASSUME NEW u \in Users
          PROVE  [NewAccount(InitialRole[u], p[u]) EXCEPT
                     !.mfa = u \in InitialMfa, !.secret = u \in InitialMfa] \in Account
      <3> DEFINE d == NewAccount(InitialRole[u], p[u])
                 m == u \in InitialMfa
      <3>1. InitialRole[u] \in Roles \cup {"ABSENT"} /\ p[u] \in Passwords
        BY DEF StaffAssumption
      <3>2. d \in Account
        BY <3>1 DEF NewAccount, Account
      <3>3. m \in BOOLEAN
        OBVIOUS
      <3> HIDE DEF d, m
      <3>4. [d EXCEPT !.mfa = m, !.secret = m] \in Account
        BY <3>2, <3>3 DEF Account
      <3> QED
        BY <3>4 DEF d, m
    <2> QED
      BY <2>1, <2>2, Shapes, ZenonT(60)
  <1>2. /\ store \in [Sids -> Session] /\ \A s \in Sids : store[s].kind = "NONE"
        /\ req \in [Reqs -> Request] /\ \A r \in Reqs : req[r] = Idle
    BY Shapes DEF Init
  <1>3. /\ nextSid \in 1..(MaxSids + 1) /\ now \in 1..MaxTime
        /\ attempts \in [Places -> [Users -> 0..PairLimit]]
    <2>1. nextSid = 1 /\ now = 1 /\ attempts = [place \in Places |-> [u \in Users |-> 0]]
      BY DEF Init
    <2>2. MaxSids \in Nat \ {0} /\ MaxTime \in Nat \ {0} /\ PairLimit \in Nat \ {0}
      BY DEF StaffAssumption
    <2>3. 0 \in 0..PairLimit
      BY <2>2
    <2>4. attempts \in [Places -> [Users -> 0..PairLimit]]
      BY <2>1, <2>3
    <2> QED
      BY <2>1, <2>2, <2>4
  <1>4. TypeOK
    BY <1>1, <1>2, <1>3, Shapes DEF TypeOK
  <1>5. AllSound
    <2>1. Idle.role = "ABSENT"
      BY DEF Idle
    <2> QED
      BY <1>2, <2>1, Shapes DEF AllSound, SoundSession, SoundRequest, SoundRead
  <1>6. CopiesAgree
    BY <1>2, Shapes DEF CopiesAgree
  <1> QED
    BY <1>4, <1>5, <1>6 DEF IInv

\* Every step keeps to what a step may do.
LEMMA StepFollows == IInv /\ [Next]_vars => Follows
  BY ContinuesFollow, ArrivesFollow, ImmediateFollows, StutterFollows DEF Next

\* The invariant holds.
LEMMA InvariantHolds == Spec => []IInv
  <1>1. IInv /\ [Next]_vars => IInv'
    BY StepFollows, Preserved
  <1> QED
    BY <1>1, InitEstablishes, PTL DEF Spec

\* Rows and copies keep the shape of the schema, failures stay below the limit
\* that ends a session, and no session is stored or saved under an id that was
\* not issued.
THEOREM TypeCorrect == Spec => []TypeOK
  <1>1. IInv => TypeOK
    BY DEF IInv
  <1> QED
    BY <1>1, InvariantHolds, PTL

\* After a change or a reset of the password no earlier session works, whatever
\* login, step-up or late save was under way.
THEOREM UsableSessionIsCurrentHolds == Spec => []UsableSessionIsCurrent
  <1>1. IInv => UsableSessionIsCurrent
    BY DEF IInv, AllSound, SoundSession, UsableSessionIsCurrent, Usable
  <1> QED
    BY <1>1, InvariantHolds, PTL

\* What a step may do to stored sessions and to versions, seen from the gate.
LEMMA RefusedStaysRefused ==
    ASSUME IInv, AccountFollows, StoreFollows, NEW s \in Sids, store[s].kind = "STAFF",
           store[s].version # account[store[s].user].version
    PROVE  ~Usable(s)'
  <1> DEFINE u == store[s].user
             x == store[s]
             y == store'[s]
  <1>1. SoundSession(account, x) /\ x \in Session /\ s \in 1..(nextSid - 1)
    BY DEF IInv, AllSound, TypeOK
  <1>2. Known(account, u) /\ x.version <= account[u].version
    BY <1>1 DEF SoundSession
  <1>3. /\ account[u].version \in Nat /\ account'[u].version \in Nat /\ x.version \in Nat
        /\ account[u].version <= account'[u].version
    BY <1>1, <1>2 DEF IInv, TypeOK, Account, Session, AccountFollows, MovesOn, Known
  <1>4. x.version # account'[u].version
    BY <1>2, <1>3
  <1>5. CASE y.kind = "NONE"
    BY <1>5 DEF Usable
  <1>6. CASE y.kind # "NONE"
    <2>1. Origin(s, y)
      <3>1. s # nextSid
        BY <1>1 DEF IInv, TypeOK
      <3> QED
        BY <1>6, <3>1 DEF StoreFollows, SessionFollows
    <2>2. Origin(s, x)
      BY DEF Origin, Same
    <2>3. Same(x, y)
      BY <2>1, <2>2, OneOrigin
    <2> QED
      BY <1>4, <2>3 DEF Same, Usable
  <1> QED
    BY <1>5, <1>6

\* A session refused because its account moved on is never let through again,
\* also when a request that loaded it earlier saves its copy late.
THEOREM RefusedForGoodHolds == Spec => RefusedForGood
  <1>1. IInv /\ [Next]_vars =>
            \A s \in Sids : store[s].kind = "STAFF"
                            /\ store[s].version # account[store[s].user].version
                            => ~Usable(s)'
    BY StepFollows, RefusedStaysRefused DEF Follows
  <1>2. IInv /\ [Next]_vars =>
            [\A s \in Sids :
                 /\ store[s].kind = "STAFF"
                 /\ store[s].version # account[store[s].user].version
                 => ~Usable(s)']_vars
    BY <1>1
  <1> QED
    BY <1>2, InvariantHolds, PTL DEF Spec, RefusedForGood

\* A request that goes on changes no other request.
LEMMA ContinuesAlone ==
    ASSUME NEW r \in Reqs, Continues(r)
    PROVE  \E q : req' = [req EXCEPT ![r] = q]
  <1>1. CASE Done(r)
    BY <1>1 DEF Done
  <1>2. ASSUME NEW step, Goes(r, step)
        PROVE  \E q : req' = [req EXCEPT ![r] = q]
    BY <1>2 DEF Goes
  <1>3. CASE Pend(r) \/ Establish(r) \/ CountFailure(r) \/ Elevate(r)
    BY <1>1, <1>3 DEF Pend, Establish, CountFailure, Elevate
  <1>4. CASE ClaimCode(r) \/ RejectCode(r)
    BY <1>1, <1>2, <1>4, SMTT(60) DEF ClaimCode, RejectCode
  <1>5. CASE ChangeWrites(r) \/ SetupWrites(r) \/ EnableWrites(r)
    BY <1>1, <1>2, <1>5 DEF ChangeWrites, SetupWrites, EnableWrites
  <1>6. CASE ChangeReadsAgain(r)
    BY <1>6 DEF ChangeReadsAgain
  <1>7. CASE PatchWrites(r) \/ ResetWrites(r)
    BY <1>1, <1>2, <1>7 DEF PatchWrites, ResetWrites
  <1>8. CASE DisableWrites(r) \/ BumpVersion(r) \/ DeleteSessions(r)
    BY <1>1, <1>2, <1>8 DEF DisableWrites, BumpVersion, DeleteSessions
  <1> QED
    BY <1>3, <1>4, <1>5, <1>6, <1>7, <1>8 DEF Continues

\* Nothing but the claim of a code takes a request from its decision to what an
\* accepted code allows.
LEMMA OnlyClaimAccepts ==
    ASSUME IInv, NEW r \in Reqs, Next, AcceptsCode(r)
    PROVE  ClaimCode(r)
  <1>1. /\ req[r].step = "DECIDED" /\ req[r].op \in {"VERIFY", "MFA_ENABLE", "STEP_UP"}
        /\ req'[r].step \in {"ESTABLISH", "WRITE", "ELEVATE"}
        /\ req'[r] # req[r] /\ req[r] # Idle
    BY Shapes DEF AcceptsCode, AfterClaim
  <1>2. req \in [Reqs -> Request]
    BY DEF IInv, TypeOK
  <1>3. ASSUME NEW t \in Reqs, Arrives(t)
        PROVE  FALSE
    <2>1. req[t] = Idle
      BY <1>3, ArrivesStarts
    <2>2. PICK q : req' = [req EXCEPT ![t] = q]
      BY <1>3, ArrivesStarts DEF Starts
    <2>3. r # t
      BY <1>1, <2>1
    <2>4. req'[r] = req[r]
      BY <1>2, <2>2, <2>3
    <2> QED
      BY <1>1, <2>4
  <1>4. ~Immediate
    BY <1>1 DEF Immediate, LoginFails, Logout, DropRefused, ExpireSession, CreateUser,
                AttemptsAge, Tick
  <1>5. ASSUME NEW t \in Reqs, Continues(t), ~ClaimCode(r)
        PROVE  FALSE
    <2>1. CASE t # r
      <3>1. PICK q : req' = [req EXCEPT ![t] = q]
        BY <1>5, ContinuesAlone
      <3>2. req'[r] = req[r]
        BY <1>2, <2>1, <3>1
      <3> QED
        BY <1>1, <3>2
    <2>2. CASE t = r
      <3>1. RejectCode(r)
        BY <1>1, <1>5, <2>2, ZenonT(60) DEF Continues, Pend, Establish, CountFailure,
             Elevate, ChangeWrites, ChangeReadsAgain, SetupWrites, EnableWrites, PatchWrites,
             ResetWrites, DisableWrites, BumpVersion, DeleteSessions
      <3>2. req'[r] = Idle \/ req'[r] = [req[r] EXCEPT !.step = "FAILED"]
        BY <1>2, <3>1 DEF RejectCode, Done, Goes
      <3>3. req'[r].step = "NONE" \/ req'[r].step = "FAILED"
        <4>1. Idle.step = "NONE"
          BY Shapes
        <4>2. req[r] \in Request
          BY <1>2
        <4>3. [req[r] EXCEPT !.step = "FAILED"].step = "FAILED"
          BY <4>2 DEF Request
        <4> QED
          BY <3>2, <4>1, <4>3
      <3> QED
        BY <1>1, <3>3
    <2> QED
      BY <2>1, <2>2
  <1> QED
    BY <1>3, <1>4, <1>5 DEF Next

\* A code is accepted only for a slot later than any accepted before, however
\* many requests have compared it with an older copy.
THEOREM CodeUsedOnceHolds == Spec => CodeUsedOnce
  <1>1. ASSUME IInv, Next, NEW r \in Reqs, AcceptsCode(r)
        PROVE  req[r].code > account[req[r].who].lastUsed
    <2>1. account[req[r].who].lastUsed < req[r].code
      BY <1>1, OnlyClaimAccepts DEF ClaimCode, Claimable
    <2> QED
      BY <2>1
  <1>2. ASSUME UNCHANGED vars, NEW r \in Reqs
        PROVE  ~AcceptsCode(r)
    BY <1>2 DEF vars, AcceptsCode, AfterClaim
  <1>3. IInv /\ [Next]_vars =>
            [\A r \in Reqs : AcceptsCode(r) => req[r].code > account[req[r].who].lastUsed]_vars
    BY <1>1, <1>2
  <1> QED
    BY <1>3, InvariantHolds, PTL DEF Spec, CodeUsedOnce
=============================================================================
