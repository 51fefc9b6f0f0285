----------------------------- MODULE StaffAuth -----------------------------
(***************************************************************************)
(* Staff accounts and their sessions: login in one or two steps, step-up   *)
(* re-authentication, password and MFA changes, and the administrator's    *)
(* changes of other accounts (auth.routes.ts, staffAccount.ts, mfa.ts,     *)
(* requireRole.ts, prismaSessionStore.ts, loginGuard.ts).                  *)
(*                                                                         *)
(* A request loads its session from the store, reads the account, works on *)
(* both copies and writes back later; other requests run at every await in *)
(* between.  A row of the session store is written whole (upsert) and      *)
(* looked up afresh by every request.                                      *)
(***************************************************************************)
EXTENDS Integers, FiniteSets

CONSTANTS
    Users, NoUser, Reqs,
    InitialRole,      \* the role of each account at the start, or ABSENT
    InitialMfa,       \* the accounts whose second step is on at the start
    Passwords, NoPassword,
    Present,          \* the accounts whose people sign in
    Codes,            \* the slots whose codes people type
    Places,           \* the addresses logins come from
    PairLimit,        \* PAIR_FAIL_THRESHOLD
    IpLimit,          \* IP_FAIL_THRESHOLD
    MaxFailures,      \* MAX_PENDING_MFA_FAILURES, MAX_STEP_UP_FAILURES
    Window,           \* STEP_UP_WINDOW_MS and PENDING_MFA_TTL_MS, in TOTP slots
    Production,       \* isProduction: an administrator must have set up MFA
    Ops,              \* the operations people use
    MaxSids, MaxVersion, MaxTime   \* bounds on sessions, changes and the clock

Roles == {"ADMIN", "FRONT"}
BadCode == 0

ASSUME StaffAssumption ==
    /\ NoUser \notin Users /\ NoPassword \notin Passwords
    /\ InitialRole \in [Users -> Roles \cup {"ABSENT"}]
    /\ InitialMfa \subseteq Users /\ Present \subseteq Users
    /\ Codes \subseteq Nat \ {BadCode}
    /\ PairLimit \in Nat \ {0} /\ IpLimit \in Nat \ {0}
    /\ MaxFailures \in Nat \ {0} /\ Window \in Nat
    /\ Production \in BOOLEAN
    /\ MaxSids \in Nat \ {0} /\ MaxVersion \in Nat /\ MaxTime \in Nat \ {0}

VARIABLES
    account,     \* StaffUser rows
    attempts,    \* failed LoginAttempt rows inside the window, per account and place
    store,       \* StaffSession rows; 0 is a browser without a cookie
    nextSid,     \* session ids are never issued twice
    now,         \* the clock, in TOTP slots
    req          \* the requests in flight

vars == <<account, attempts, store, nextSid, now, req>>
Sids == 0..MaxSids

-----------------------------------------------------------------------------
(* Rows                                                                    *)

Account == [role : Roles \cup {"ABSENT"}, active : BOOLEAN,
            pw : Passwords \cup {NoPassword}, mustReset : BOOLEAN, version : Nat, mfa : BOOLEAN,
            secret : BOOLEAN, lastUsed : Nat]

\* kind STAFF holds staffUserId and authVersion, kind PENDING pendingMfaUserId.
\* pw and coded record how the session was obtained, for the properties.
Session == [kind : {"NONE", "STAFF", "PENDING"}, user : Users \cup {NoUser},
            version : Nat, until : Nat, failures : 0..(MaxFailures - 1),
            pw : Passwords \cup {NoPassword}, coded : BOOLEAN]

NoSession == [kind |-> "NONE", user |-> NoUser, version |-> 0, until |-> 0,
              failures |-> 0, pw |-> NoPassword, coded |-> FALSE]

\* Fault: the version is taken from the account when the session is saved.
SessionNow(u, read, coded) ==
    [NoSession EXCEPT !.kind = "STAFF", !.user = u, !.version = account[u].version,
                      !.pw = read.pw, !.coded = coded]

\* establishSession: what a request that read the account as read records.
SessionOf(u, read, coded) ==
    [NoSession EXCEPT !.kind = "STAFF", !.user = u, !.version = read.version,
                      !.pw = read.pw, !.coded = coded]

PendingOf(u, read) ==
    [NoSession EXCEPT !.kind = "PENDING", !.user = u, !.until = now + Window,
                      !.pw = read.pw]

NewAccount(role, p) ==
    [role |-> role, active |-> role # "ABSENT", pw |-> p, mustReset |-> FALSE,
     version |-> 0, mfa |-> FALSE, secret |-> FALSE, lastUsed |-> 0]

Absent == NewAccount("ABSENT", NoPassword)

Idle == [op |-> "NONE", step |-> "NONE", sid |-> 0, session |-> NoSession,
         who |-> NoUser, read |-> Absent,
         pw |-> NoPassword, code |-> BadCode, role |-> "ABSENT", active |-> FALSE]

-----------------------------------------------------------------------------
(* The gates                                                               *)

\* loadStaff: the account is active and the session carries its version.
Usable(s) ==
    /\ store[s].kind = "STAFF"
    /\ account[store[s].user].active
    /\ store[s].version = account[store[s].user].version

Onboarded(u) ==
    /\ ~account[u].mustReset
    /\ ~(Production /\ account[u].role = "ADMIN" /\ ~account[u].mfa)

Elevated(s) == store[s].until > now

\* staffGate("ADMIN") of the administrator's routes.
AdminGate(s) ==
    /\ Usable(s)
    /\ Onboarded(store[s].user)
    /\ account[store[s].user].role = "ADMIN"

\* assertLoginAllowed
LoginAllowed(u, place) ==
    /\ attempts[place][u] < PairLimit
    /\ \A v \in Users :
           attempts[place][u] + (IF v = u THEN 0 ELSE attempts[place][v]) < IpLimit

-----------------------------------------------------------------------------
(* Steps shared by the handlers                                            *)

\* A request that passed its gate; it keeps its copy of the session only if it
\* saves it later, and of the account only if it decides by it later.
Begin(op, s, u) ==
    [Idle EXCEPT !.op = op, !.sid = s, !.who = u, !.step = "DECIDED",
         !.session = IF op \in {"VERIFY", "STEP_UP", "MFA_ENABLE"} THEN store[s] ELSE @,
         !.read = IF op \in {"LOGIN", "VERIFY", "STEP_UP", "MFA_ENABLE", "PATCH"}
                  THEN account[u] ELSE @]

Done(r) == req' = [req EXCEPT ![r] = Idle]
Goes(r, step) == req' = [req EXCEPT ![r].step = step]

\* session.regenerate drops the row of the old id; the new one is saved.
Regenerate(old, session) ==
    /\ nextSid <= MaxSids
    /\ store' = [store EXCEPT ![old] = NoSession, ![nextSid] = session]
    /\ nextSid' = nextSid + 1

\* Fault: only the copy read before is compared with the code.
ClaimableAsRead(r) ==
    /\ req[r].code \in (now - 1)..(now + 1) /\ req[r].code # BadCode
    /\ req[r].read.secret
    /\ req[r].read.lastUsed < req[r].code

\* consumeTotp: the code fits the clock and its slot is later than the last one
\* used, by the copy read and again in the WHERE of the update.
Claimable(r) ==
    /\ req[r].code \in (now - 1)..(now + 1) /\ req[r].code # BadCode
    /\ req[r].read.secret
    /\ req[r].read.lastUsed < req[r].code
    /\ account[req[r].who].lastUsed < req[r].code

\* Fault: one failure more than the limit is let through.
EndsSessionLate(failures) == failures > MaxFailures

EndsSession(failures) == failures >= MaxFailures

AfterClaim(op) ==
    CASE op = "VERIFY"     -> "ESTABLISH"
      [] op = "MFA_ENABLE" -> "WRITE"
      [] op = "STEP_UP"    -> "ELEVATE"

-----------------------------------------------------------------------------
(* Logging in                                                              *)

\* POST /login with a password that does not fit, or of nobody active.
LoginFails(u, place, p) ==
    /\ LoginAllowed(u, place)
    /\ ~(account[u].role # "ABSENT" /\ account[u].active /\ account[u].pw = p)
    /\ attempts' = [attempts EXCEPT ![place][u] = @ + 1]
    /\ UNCHANGED <<account, store, nextSid, now, req>>

LoginReads(r, u, place, p, s) ==
    /\ req[r] = Idle /\ "LOGIN" \in Ops
    /\ LoginAllowed(u, place)
    /\ account[u].role # "ABSENT" /\ account[u].active /\ account[u].pw = p
    /\ attempts' = [attempts EXCEPT ![place][u] = 0]
    /\ req' = [req EXCEPT ![r] = [Begin("LOGIN", s, u) EXCEPT
                                      !.step = IF account[u].mfa THEN "PEND" ELSE "ESTABLISH"]]
    /\ UNCHANGED <<account, store, nextSid, now>>

Pend(r) ==
    /\ req[r].step = "PEND"
    /\ Regenerate(req[r].sid, PendingOf(req[r].who, req[r].read))
    /\ Done(r)
    /\ UNCHANGED <<account, attempts, now>>

\* establishSession, at the end of a login, a second step or a password change.
Establish(r) ==
    /\ req[r].step = "ESTABLISH"
    /\ Regenerate(req[r].sid, SessionOf(req[r].who, req[r].read, req[r].op = "VERIFY"))
    /\ Done(r)
    /\ UNCHANGED <<account, attempts, now>>

\* POST /mfa/verify up to the code: the account is read again.
VerifyReads(r, s, c) ==
    /\ req[r] = Idle /\ "VERIFY" \in Ops
    /\ store[s].kind = "PENDING" /\ now <= store[s].until
    /\ LET u == store[s].user IN
       /\ account[u].active /\ account[u].mfa /\ account[u].secret
       /\ req' = [req EXCEPT ![r] = [Begin("VERIFY", s, u) EXCEPT !.code = c]]
    /\ UNCHANGED <<account, attempts, store, nextSid, now>>

ClaimCode(r) ==
    /\ req[r].step = "DECIDED" /\ req[r].op \in {"VERIFY", "MFA_ENABLE", "STEP_UP"}
    /\ Claimable(r)
    /\ account' = [account EXCEPT ![req[r].who].lastUsed = req[r].code]
    /\ Goes(r, AfterClaim(req[r].op))
    /\ UNCHANGED <<attempts, store, nextSid, now>>

RejectCode(r) ==
    /\ req[r].step = "DECIDED" /\ req[r].op \in {"VERIFY", "MFA_ENABLE", "STEP_UP"}
    /\ ~Claimable(r)
    /\ IF req[r].op = "MFA_ENABLE" THEN Done(r) ELSE Goes(r, "FAILED")
    /\ UNCHANGED <<account, attempts, store, nextSid, now>>

\* The failure is counted in the copy of the session, which is saved or dropped.
CountFailure(r) ==
    /\ req[r].step = "FAILED"
    /\ LET failures == req[r].session.failures + 1 IN
       store' = [store EXCEPT ![req[r].sid] =
                    IF EndsSession(failures) THEN NoSession
                    ELSE [req[r].session EXCEPT !.failures = failures]]
    /\ Done(r)
    /\ UNCHANGED <<account, attempts, nextSid, now>>

Logout(s) ==
    /\ store[s].kind # "NONE"
    /\ store' = [store EXCEPT ![s] = NoSession]
    /\ UNCHANGED <<account, attempts, nextSid, now, req>>

\* loadStaff destroys a session that no longer fits its account.
DropRefused(s) ==
    /\ store[s].kind = "STAFF" /\ ~Usable(s)
    /\ store' = [store EXCEPT ![s] = NoSession]
    /\ UNCHANGED <<account, attempts, nextSid, now, req>>

-----------------------------------------------------------------------------
(* Operations on one's own account                                         *)

\* POST /step-up: the password first, the code only if the password fits.
StepUpReads(r, s, p, c) ==
    /\ req[r] = Idle /\ "STEP_UP" \in Ops
    /\ Usable(s) /\ Onboarded(store[s].user)
    /\ LET u == store[s].user IN
       /\ c # BadCode => account[u].mfa /\ account[u].pw = p
       /\ req' = [req EXCEPT ![r] = [Begin("STEP_UP", s, u) EXCEPT !.code = c,
                     !.step = IF account[u].pw # p THEN "FAILED"
                              ELSE IF account[u].mfa THEN "DECIDED" ELSE "ELEVATE"]]
    /\ UNCHANGED <<account, attempts, store, nextSid, now>>

\* Fault: saving brings the copy's version up to date.
ElevateRefreshed(r) ==
    /\ req[r].step = "ELEVATE"
    /\ store' = [store EXCEPT ![req[r].sid] =
                    [req[r].session EXCEPT !.until = now + Window,
                        !.version = account[req[r].who].version]]
    /\ Done(r)
    /\ UNCHANGED <<account, attempts, nextSid, now>>

\* The copy of the session is saved with elevatedUntil.
Elevate(r) ==
    /\ req[r].step = "ELEVATE"
    /\ store' = [store EXCEPT ![req[r].sid] =
                    [req[r].session EXCEPT !.until = now + Window,
                        !.failures = IF req[r].op = "STEP_UP" THEN 0 ELSE @,
                        !.pw = IF req[r].op = "STEP_UP" THEN req[r].read.pw ELSE @]]
    /\ Done(r)
    /\ UNCHANGED <<account, attempts, nextSid, now>>

\* changeOwnPassword, mfa/setup and mfa/enable up to their first write.
OwnReads(r, op, s, p, q, c) ==
    /\ req[r] = Idle /\ op \in Ops \cap {"CHANGE_PASSWORD", "MFA_SETUP", "MFA_ENABLE"}
    /\ Usable(s)
    /\ LET u == store[s].user IN
       /\ op # "MFA_ENABLE" => account[u].pw = p
       /\ IF op = "CHANGE_PASSWORD" THEN q \in Passwords \ {p} ELSE q = NoPassword
       /\ op = "MFA_SETUP" => ~account[u].mfa
       /\ IF op = "MFA_ENABLE" THEN account[u].secret ELSE c = BadCode
       /\ req' = [req EXCEPT ![r] = [Begin(op, s, u) EXCEPT !.pw = q, !.code = c]]
    /\ UNCHANGED <<account, attempts, store, nextSid, now>>

ChangeWrites(r) ==
    /\ req[r].op = "CHANGE_PASSWORD" /\ req[r].step = "DECIDED"
    /\ account[req[r].who].version < MaxVersion
    /\ account' = [account EXCEPT ![req[r].who].pw = req[r].pw,
                                  ![req[r].who].mustReset = FALSE,
                                  ![req[r].who].version = @ + 1]
    /\ Goes(r, "DELETE")
    /\ UNCHANGED <<attempts, store, nextSid, now>>

\* After the change the account is read again for a new session.
ChangeReadsAgain(r) ==
    /\ req[r].op = "CHANGE_PASSWORD" /\ req[r].step = "REREAD"
    /\ req' = [req EXCEPT ![r].read = account[req[r].who], ![r].step = "ESTABLISH"]
    /\ UNCHANGED <<account, attempts, store, nextSid, now>>

SetupWrites(r) ==
    /\ req[r].op = "MFA_SETUP" /\ req[r].step = "DECIDED"
    /\ account' = [account EXCEPT ![req[r].who].secret = TRUE, ![req[r].who].mfa = FALSE]
    /\ Done(r)
    /\ UNCHANGED <<attempts, store, nextSid, now>>

EnableWrites(r) ==
    /\ req[r].op = "MFA_ENABLE" /\ req[r].step = "WRITE"
    /\ account' = [account EXCEPT ![req[r].who].mfa = TRUE]
    /\ Goes(r, "ELEVATE")
    /\ UNCHANGED <<attempts, store, nextSid, now>>

-----------------------------------------------------------------------------
(* The administrator's operations on an account                            *)

OtherAdmins(u) == {v \in Users \ {u} : account[v].role = "ADMIN" /\ account[v].active}

\* Which of the changes asked for are changes, by the row read.
RoleChanged(q) == q.role # q.read.role
Deactivated(q) == ~q.active /\ q.read.active
SecurityRelevant(q) == RoleChanged(q) \/ q.active # q.read.active

\* POST /users
CreateUser(s, u, role, p) ==
    /\ "CREATE" \in Ops
    /\ AdminGate(s) /\ (role = "ADMIN" => Elevated(s))
    /\ account[u].role = "ABSENT"
    /\ account' = [account EXCEPT ![u] = NewAccount(role, p)]
    /\ UNCHANGED <<attempts, store, nextSid, now, req>>

\* PATCH /users/:id: the row is read and the other administrators are counted.
PatchReads(r, s, u, role, active) ==
    /\ req[r] = Idle /\ "PATCH" \in Ops
    /\ AdminGate(s) /\ Elevated(s)
    /\ account[u].role # "ABSENT"
    /\ LET q == [Begin("PATCH", s, u) EXCEPT !.role = role, !.active = active] IN
       /\ (RoleChanged(q) \/ Deactivated(q)) /\ q.read.role = "ADMIN"
             => OtherAdmins(u) # {}
       /\ req' = [req EXCEPT ![r] = q]
    /\ UNCHANGED <<account, attempts, store, nextSid, now>>

PatchWrites(r) ==
    /\ req[r].op = "PATCH" /\ req[r].step = "DECIDED"
    /\ account[req[r].who].version < MaxVersion
    /\ LET q == req[r] IN
       /\ account' = [account EXCEPT ![q.who].role = q.role, ![q.who].active = q.active,
                         ![q.who].version = IF SecurityRelevant(q) THEN @ + 1 ELSE @]
       /\ IF SecurityRelevant(q) THEN Goes(r, "DELETE") ELSE Done(r)
    /\ UNCHANGED <<attempts, store, nextSid, now>>

\* POST /users/:id/reset-password and /disable-mfa, after their gate.
AdminReads(r, op, s, u, p) ==
    /\ req[r] = Idle /\ op \in Ops \cap {"RESET_PASSWORD", "DISABLE_MFA"}
    /\ AdminGate(s) /\ Elevated(s)
    /\ account[u].role # "ABSENT"
    /\ op = "DISABLE_MFA" <=> p = NoPassword
    /\ req' = [req EXCEPT ![r] = [Begin(op, s, u) EXCEPT !.pw = p]]
    /\ UNCHANGED <<account, attempts, store, nextSid, now>>

ResetWrites(r) ==
    /\ req[r].op = "RESET_PASSWORD" /\ req[r].step = "DECIDED"
    /\ account[req[r].who].version < MaxVersion
    /\ account' = [account EXCEPT ![req[r].who].pw = req[r].pw,
                                  ![req[r].who].mustReset = TRUE,
                                  ![req[r].who].version = @ + 1]
    /\ Goes(r, "DELETE")
    /\ UNCHANGED <<attempts, store, nextSid, now>>

DisableWrites(r) ==
    /\ req[r].op = "DISABLE_MFA" /\ req[r].step = "DECIDED"
    /\ account' = [account EXCEPT ![req[r].who].mfa = FALSE, ![req[r].who].secret = FALSE]
    /\ Goes(r, "BUMP")
    /\ UNCHANGED <<attempts, store, nextSid, now>>

\* bumpAuthVersion, a statement of its own after the one above.
BumpVersion(r) ==
    /\ req[r].step = "BUMP"
    /\ account[req[r].who].version < MaxVersion
    /\ account' = [account EXCEPT ![req[r].who].version = @ + 1]
    /\ Goes(r, "DELETE")
    /\ UNCHANGED <<attempts, store, nextSid, now>>

\* invalidateAllSessions: the rows whose data names the account as staffUserId.
DeleteSessions(r) ==
    /\ req[r].step = "DELETE"
    /\ store' = [s \in Sids |-> IF store[s].kind = "STAFF" /\ store[s].user = req[r].who
                                THEN NoSession ELSE store[s]]
    /\ IF req[r].op = "CHANGE_PASSWORD" THEN Goes(r, "REREAD") ELSE Done(r)
    /\ UNCHANGED <<account, attempts, nextSid, now>>

-----------------------------------------------------------------------------
(* Time                                                                    *)

Tick ==
    /\ now < MaxTime
    /\ now' = now + 1
    /\ UNCHANGED <<account, attempts, store, nextSid, req>>

\* A session row outlives its cookie's maxAge; cleanupAuthArtifacts deletes it.
ExpireSession(s) ==
    /\ store[s].kind # "NONE" /\ "EXPIRE" \in Ops
    /\ store' = [store EXCEPT ![s] = NoSession]
    /\ UNCHANGED <<account, attempts, nextSid, now, req>>

\* The failures leave the window of the login guard.
AttemptsAge(place) ==
    /\ \E u \in Users : attempts[place][u] > 0
    /\ attempts' = [attempts EXCEPT ![place] = [u \in Users |-> 0]]
    /\ UNCHANGED <<account, store, nextSid, now, req>>

-----------------------------------------------------------------------------
Init ==
    /\ \E p \in [Users -> Passwords] :
           account = [u \in Users |->
               IF InitialRole[u] = "ABSENT" THEN Absent
               ELSE [NewAccount(InitialRole[u], p[u]) EXCEPT
                        !.mfa = u \in InitialMfa, !.secret = u \in InitialMfa]]
    /\ attempts = [place \in Places |-> [u \in Users |-> 0]]
    /\ store = [s \in Sids |-> NoSession]
    /\ nextSid = 1
    /\ now = 1
    /\ req = [r \in Reqs |-> Idle]

Typed == Codes \cup {BadCode}

Arrives(r) ==
    \/ \E u \in Present, place \in Places, p \in Passwords, s \in Sids : LoginReads(r, u, place, p, s)
    \/ \E s \in Sids, c \in Typed : VerifyReads(r, s, c)
    \/ \E s \in Sids, p \in Passwords, c \in Typed : StepUpReads(r, s, p, c)
    \/ \E s \in Sids, p \in Passwords, q \in Passwords \cup {NoPassword}, c \in Typed, op \in Ops :
           OwnReads(r, op, s, p, q, c)
    \/ \E s \in Sids, u \in Users, role \in Roles, a \in BOOLEAN : PatchReads(r, s, u, role, a)
    \/ \E s \in Sids, u \in Users, p \in Passwords \cup {NoPassword}, op \in Ops :
           AdminReads(r, op, s, u, p)

Continues(r) ==
    \/ Pend(r) \/ Establish(r) \/ ClaimCode(r) \/ RejectCode(r) \/ CountFailure(r)
    \/ Elevate(r) \/ ChangeWrites(r) \/ ChangeReadsAgain(r) \/ SetupWrites(r)
    \/ EnableWrites(r) \/ PatchWrites(r) \/ ResetWrites(r) \/ DisableWrites(r)
    \/ BumpVersion(r) \/ DeleteSessions(r)

Immediate ==
    \/ \E u \in Present, place \in Places, p \in Passwords : LoginFails(u, place, p)
    \/ \E s \in Sids : Logout(s) \/ DropRefused(s) \/ ExpireSession(s)
    \/ \E s \in Sids, u \in Users, role \in Roles, p \in Passwords : CreateUser(s, u, role, p)
    \/ \E place \in Places : AttemptsAge(place)
    \/ Tick

Next == (\E r \in Reqs : Arrives(r) \/ Continues(r)) \/ Immediate

Spec == Init /\ [][Next]_vars
=============================================================================
