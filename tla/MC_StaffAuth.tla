--------------------------- MODULE MC_StaffAuth -----------------------------
(***************************************************************************)
(* Small instances of StaffAuth for TLC.                                   *)
(***************************************************************************)
EXTENDS StaffAuthProps, TLC

CONSTANTS ann, ben, desk, p1, p2

MCUsers == {ann, ben}
OneAdmin == (ann :> "ADMIN") @@ (ben :> "ABSENT")
TwoAdmins == (ann :> "ADMIN") @@ (ben :> "ADMIN")

AllOps == {"LOGIN", "VERIFY", "STEP_UP", "CHANGE_PASSWORD", "MFA_SETUP", "MFA_ENABLE",
           "CREATE", "PATCH", "RESET_PASSWORD", "DISABLE_MFA", "EXPIRE"}
PatchOps == {"LOGIN", "STEP_UP", "PATCH"}

Changes == {r \in Reqs : req[r].op \in {"PATCH", "RESET_PASSWORD", "DISABLE_MFA",
                                       "MFA_SETUP", "CHANGE_PASSWORD"}}

\* The second account only matters for being created, early, and for making the
\* first one not the last administrator.  Failed logins matter before the first
\* session; the clock to codes, pending logins and elevations, not to changes of
\* the account, of which one at a time is in flight.
Small ==
    /\ account[ben] \in {Absent} \cup {NewAccount("ADMIN", p) : p \in Passwords}
    /\ account[ben] = Absent =>
           nextSid <= 2 /\ account[ann].version = 0 /\ ~account[ann].secret
    /\ (\E u \in Users : attempts[desk][u] > 0) => nextSid = 1
    /\ now > 1 => account[ann].version = 0 /\ Changes = {}
    /\ Cardinality(Changes) <= 1

Alike == Permutations(Reqs) \cup Permutations(Passwords)
=============================================================================
