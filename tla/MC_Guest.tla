------------------------------ MODULE MC_Guest ------------------------------
(***************************************************************************)
(* One phone and one dish for TLC.                                         *)
(***************************************************************************)
EXTENDS GuestProps, TLC

\* While something is in the cart, the page asks for the orders or the menu only where
\* it must.
AsksSparingly(d) ==
    /\ answers[d].orders # {} => page[d].cart = EmptyCart /\ form[d].step = "NONE"
    /\ answers[d].menu # {} => page[d].cart = EmptyCart \/ form[d].step = "MENU"
    /\ Cardinality(answers[d].menu) <= 1

\* Two stories, each in full.  Ordering: one page of one session, whatever the guest
\* does to the cart and the administrator to the menu, and whatever is lost.
Ordering ==
    /\ Len(codes) <= 1 /\ \A s \in DOMAIN sessions : sessions[s] = "ACTIVE"
    /\ \A o \in DOMAIN orders : orders[o].status = "NEW"
    /\ \A i \in Items : ~(menu[i].soldOut /\ menu[i].price # Min(Prices))
    /\ \A d \in Devices : /\ used.loads[d] <= 1 /\ socket[d].room = 0
                          /\ AsksSparingly(d)
                          /\ answers[d].orders \subseteq {Answer(Snapshot(Current))}

\* Watching: pages come and go, sessions follow each other and codes are renewed, while
\* one order at most is sent and nothing on the menu changes.  The code of the first
\* session is renewed before anybody joins, which keeps the two stories apart.
Watching ==
    /\ used.keys <= 1
    /\ \A i \in Items : ~menu[i].soldOut /\ menu[i].price = Min(Prices)
    /\ \A d \in Devices : /\ cookie[d].code # 1
                          /\ AsksSparingly(d)
                          /\ \A i \in Items : page[d].cart[i].quantity <= 1
    /\ Cardinality({r \in Posts : post[r].step # "NONE"}) <= 1

Stories == Ordering \/ Watching
=============================================================================
