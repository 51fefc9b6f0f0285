-------------------------- MODULE StaffAuthProps ----------------------------
(***************************************************************************)
(* What staff accounts and their sessions promise.                         *)
(***************************************************************************)
EXTENDS StaffAuth

Operations == {"NONE", "LOGIN", "VERIFY", "STEP_UP", "CHANGE_PASSWORD", "MFA_SETUP",
               "MFA_ENABLE", "PATCH", "RESET_PASSWORD", "DISABLE_MFA"}
Steps == {"NONE", "DECIDED", "PEND", "ESTABLISH", "FAILED", "ELEVATE", "WRITE", "DELETE",
          "REREAD", "BUMP"}
Request == [op : Operations, step : Steps, sid : Sids, session : Session,
            who : Users \cup {NoUser}, read : Account,
            pw : Passwords \cup {NoPassword}, code : Codes \cup {BadCode},
            role : Roles \cup {"ABSENT"}, active : BOOLEAN]

\* Rows, sessions and copies have the shape of the schema; no session survives
\* with as many failures as end it, and none is stored, or held by a request that
\* may save it, under an id not issued.
TypeOK ==
    /\ account \in [Users -> Account]
    /\ attempts \in [Places -> [Users -> 0..PairLimit]]
    /\ store \in [Sids -> Session]
    /\ \A s \in Sids : store[s].kind # "NONE" => s \in 1..(nextSid - 1)
    /\ nextSid \in 1..(MaxSids + 1)
    /\ now \in 1..MaxTime
    /\ req \in [Reqs -> Request]
    /\ \A r \in Reqs : req[r].session.kind # "NONE" => req[r].sid \in 1..(nextSid - 1)

\* A session the gate lets through was opened by the password the account has
\* today, or by a second step that read the account again: after a change or a
\* reset of the password no earlier session works, whatever login, step-up or
\* late save was under way (authVersion, staffAccount.ts:14-17).
UsableSessionIsCurrent ==
    \A s \in Sids : Usable(s) =>
        store[s].coded \/ store[s].pw = account[store[s].user].pw

\* Each code is accepted once: a request gets its code accepted only for a slot
\* later than any accepted before, although it compared with an older copy
\* (mfa.ts:12-14).
AcceptsCode(r) ==
    /\ req[r].step = "DECIDED" /\ req[r].op \in {"VERIFY", "MFA_ENABLE", "STEP_UP"}
    /\ req'[r].op = req[r].op /\ req'[r].step = AfterClaim(req[r].op)

CodeUsedOnce ==
    [][\A r \in Reqs : AcceptsCode(r) =>
          req[r].code > account[req[r].who].lastUsed]_vars

\* A session the gate has refused because the account moved on is not let
\* through again, also when the account returns to an earlier role or state.
RefusedForGood ==
    [][\A s \in Sids :
          /\ store[s].kind = "STAFF"
          /\ store[s].version # account[store[s].user].version
          => ~Usable(s)']_vars

\* "The last active administrator cannot be switched off, nor given another
\* role" (staffAccount.ts:128-147): there is always somebody to administer.
AnAdminRemains ==
    \E u \in Users : account[u].role = "ADMIN" /\ account[u].active
=============================================================================
