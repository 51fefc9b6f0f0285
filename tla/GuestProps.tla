----------------------------- MODULE GuestProps -----------------------------
(***************************************************************************)
(* What a guest can rely on, and what the server can rely on of a guest.   *)
(***************************************************************************)
EXTENDS Guest

Cart == [Items -> [quantity : 0..MaxQuantity, price : Prices \cup {0}]]

\* Rows, pages and requests have their shapes, and a device holds a cookie for a
\* session only if it was told a join code of that very session: a code kept from an
\* earlier party opens nothing (customer.routes.ts:60-63).
TypeOK ==
    /\ \A s \in DOMAIN sessions : sessions[s] \in {"ACTIVE", "PAID_PENDING_SERVICE", "CLOSED"}
    /\ menu \in [Items -> [price : Prices, soldOut : BOOLEAN]]
    /\ \A d \in Devices :
          /\ page[d].phase \in {"loading", "join", "closed", "open"}
          /\ page[d].cart \in Cart /\ form[d].cart \in Cart
          /\ page[d].key \in 0..used.keys
          /\ cookie[d] # NoCookie => codes[cookie[d].code] = cookie[d].session
    /\ \A r \in Posts : post[r].cart \in Cart
    /\ \A o \in DOMAIN orders : orders[o].lines \in Cart

\* However often a guest presses, whatever is lost on the way and however late the
\* server is: a key has one order; of the orders whose fate the guest does not know
\* there is one at most, since the cart was last emptied; what was confirmed exists;
\* and an order costs what the page showed when it was pressed (order.ts:217-236,
\* CustomerApp.tsx:46).
OrderedOnce ==
    /\ \A o, p \in DOMAIN orders : orders[o].key = orders[p].key => o = p
    /\ \A d \in Devices :
          Cardinality({o \in DOMAIN orders : orders[o].device = d /\ fate[orders[o].key] = "OPEN"}) <= 1
    /\ \A k \in DOMAIN fate : fate[k] = "OK" => \E o \in DOMAIN orders : orders[o].key = k
    /\ \A o \in DOMAIN orders : CartTotal(orders[o].lines) = orders[o].shown

\* A page that stays open comes to show the orders as they are, whatever events and
\* answers were lost or overtook each other, and stays open no longer than its session
\* (CustomerApp.tsx:89-92, 206).
ScreenCatchesUp ==
    \A d \in Devices :
        <>[](page[d].phase = "open" =>
                /\ Resolves(cookie[d].session)
                /\ page[d].orders = Snapshot(cookie[d].session))

\* The total the page showed is sent along, and an order that comes to another total
\* is refused, not confirmed (CustomerApp.tsx:290).
OtherTotalRefused ==
    [][\A d \in Devices :
          form[d].step = "POST" /\ fate' # fate /\ fate'[page[d].key] = "OK" =>
             \A o \in DOMAIN orders :
                orders[o].key = page[d].key => orders[o].shown = CartTotal(form[d].cart)]_vars
=============================================================================
