-------------------------- MODULE MC_TableService ---------------------------
(***************************************************************************)
(* Small instances of TableService for TLC.                                *)
(***************************************************************************)
EXTENDS TableServiceProps, TLC

CONSTANTS soup, tea

MCItems == {soup, tea}
MCUnitPrice == [i \in MCItems |-> 1]
MCExtra == (soup :> 1) @@ (tea :> 0)
MCQuantity == [i \in MCItems |-> 1]

\* What an order may hold: one line with an option, or two lines.
OneSoup == {<<soup>>}
TwoTeas == {<<tea, tea>>}

\* The first coupon is worth an amount, any other one pays for a tea.
MCBenefit == [c \in Coupons |-> 1]
MCTargets == [c \in Coupons |-> IF c = CHOOSE d \in Coupons : TRUE THEN {} ELSE {tea}]

NoChoice == {}
AllLocks == {[ordersLocked |-> b, paymentsLocked |-> b] : b \in BOOLEAN}
AllSwitches == {[orderingEnabled |-> b, paymentsEnabled |-> b] : b \in BOOLEAN}

\* Two evaluations at once are the floor's and the liveness run's business.
OneSettling == Cardinality({r \in Reqs : req[r].pc \in SettleSteps}) <= 1

RequestSymmetry == Permutations(Reqs)
=============================================================================
