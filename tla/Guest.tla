-------------------------------- MODULE Guest -------------------------------
(***************************************************************************)
(* A guest's phone at a table: the page (CustomerApp.tsx), the cookie it   *)
(* joins with, its requests and the answers that are late or lost, the     *)
(* socket that tells it to ask again and the clock that makes it ask       *)
(* anyway; and what the server does with its order (customer.routes.ts,    *)
(* createOrder in order.ts), statement by statement.                       *)
(*                                                                         *)
(* One table is modelled.  An item stands for a menu item with a choice of *)
(* options, which is what a line of the cart is.  A question that only     *)
(* reads is asked and answered in one step; its answer travels.            *)
(***************************************************************************)
EXTENDS Naturals, FiniteSets, Sequences, FiniteSetsExt

CONSTANTS
    Devices, Items, Prices,
    Posts,          \* slots for orders on their way
    MaxQuantity, MaxSessions, MaxCodes, MaxKeys, MaxOrders,
    MaxAnswers,     \* answers of one kind on their way to a page
    MaxLoads,       \* pages a device opens
    MaxLost         \* requests and answers the network loses

ASSUME GuestAssumption ==
    /\ Prices \subseteq Nat \ {0} /\ Prices # {}
    /\ Posts \subseteq Nat \ {0}
    /\ \A n \in {MaxQuantity, MaxSessions, MaxCodes, MaxKeys, MaxOrders,
                 MaxAnswers, MaxLoads, MaxLost} : n \in Nat

VARIABLES
    sessions,   \* the status of each session of the table, oldest first
    codes,      \* the session each join code was issued for, oldest first
    menu,       \* the price of each item, and whether it is sold out
    orders,     \* Order rows
    cookie,     \* the code a device joined with and the session it joined
    page,       \* what a device shows
    form,       \* the order the page is sending
    answers,    \* answers on their way to the page
    socket,     \* the session a device's socket hears of, and what it has heard
    post,       \* orders on their way to the server, and there
    fate,       \* what the guest knows of the order under a key: OPEN, OK, or LEFT
                \* when the page went; history, read by no action
    used        \* pages opened, keys drawn, messages lost

serverVars == <<sessions, codes, menu, orders>>
vars == <<sessions, codes, menu, orders, cookie, page, form, answers, socket, post, fate, used>>

NoCookie == [code |-> 0, session |-> 0]
NoMenu == << >>
NoLine == [quantity |-> 0, price |-> 0]
EmptyCart == [i \in Items |-> NoLine]
NoForm == [step |-> "NONE", cart |-> EmptyCart, menu |-> NoMenu, slot |-> 0]
NoPost == [step |-> "NONE", device |-> 0, session |-> 0, key |-> 0, cart |-> EmptyCart, total |-> 0]
NoAnswers == [orders |-> {}, menu |-> {}]
NoSocket == [room |-> 0, heard |-> {}]
Blank(phase) == [phase |-> phase, menu |-> NoMenu, orders |-> {}, cart |-> EmptyCart, key |-> 0]

-----------------------------------------------------------------------------
(* The server                                                              *)

Live(s) == s # 0 /\ sessions[s] \in {"ACTIVE", "PAID_PENDING_SERVICE"}
Current == IF sessions # << >> /\ Live(Len(sessions)) THEN Len(sessions) ELSE 0

\* resolveCustomerSession: closing a session revokes the devices that joined it.
Resolves(token) == Live(token)

\* What GET /orders and GET /session show of a session.
Snapshot(s) == {[key |-> orders[o].key, status |-> orders[o].status] :
                   o \in {n \in DOMAIN orders : orders[n].session = s}}

\* An answer to a device, or the 403 JOIN_REQUIRED of requireTableSession.
Answer(what) == [joined |-> TRUE, what |-> what]
AnswerTo(d, what, nothing) ==
    IF Resolves(cookie[d].session) THEN Answer(what) ELSE [joined |-> FALSE, what |-> nothing]

\* An event reaches the sockets of a room; nothing keeps it for the others.
Emit(room, event) ==
    socket' = [d \in Devices |-> IF socket[d].room # 0 /\ room \in {0, socket[d].room}
                                 THEN [socket[d] EXCEPT !.heard = @ \cup {event}]
                                 ELSE socket[d]]

OpenTable ==
    /\ Current = 0
    /\ Len(sessions) < MaxSessions /\ Len(codes) < MaxCodes
    /\ sessions' = Append(sessions, "ACTIVE")
    /\ codes' = Append(codes, Len(sessions) + 1)
    /\ UNCHANGED <<menu, orders, cookie, page, form, answers, socket, post, fate, used>>

RotateJoinCode ==
    /\ Current # 0 /\ Len(codes) < MaxCodes
    /\ codes' = Append(codes, Current)
    /\ UNCHANGED <<sessions, menu, orders, cookie, page, form, answers, socket, post, fate, used>>

\* The money is settled: orders are no longer taken.
SettleSession ==
    /\ Current # 0 /\ sessions[Current] = "ACTIVE"
    /\ sessions' = [sessions EXCEPT ![Current] = "PAID_PENDING_SERVICE"]
    /\ UNCHANGED <<codes, menu, orders, cookie, page, form, answers, socket, post, fate, used>>

CloseTable ==
    /\ Current # 0
    /\ sessions' = [sessions EXCEPT ![Current] = "CLOSED"]
    /\ Emit(Current, "CLOSED")
    /\ UNCHANGED <<codes, menu, orders, cookie, page, form, answers, post, fate, used>>

ServeOrder(o) ==
    /\ orders[o].status = "NEW"
    /\ orders' = [orders EXCEPT ![o].status = "SERVED"]
    /\ Emit(orders[o].session, "ORDERS")
    /\ UNCHANGED <<sessions, codes, menu, cookie, page, form, answers, post, fate, used>>

\* An item is sold out or available again: io.emit tells every socket.
SetSoldOut(i) ==
    /\ menu' = [menu EXCEPT ![i].soldOut = ~@]
    /\ Emit(0, "MENU")
    /\ UNCHANGED <<sessions, codes, orders, cookie, page, form, answers, post, fate, used>>

\* Nobody is told of a new price.
SetPrice(i, p) ==
    /\ p # menu[i].price
    /\ menu' = [menu EXCEPT ![i].price = p]
    /\ UNCHANGED <<sessions, codes, orders, cookie, page, form, answers, socket, post, fate, used>>

-----------------------------------------------------------------------------
(* The page opens                                                          *)

Replies == {"OK", "REFUSED", "JOIN_REQUIRED"}

\* The page goes, and its requests, answers and socket with it.  An order that has
\* left is on its way all the same.
Leave(d) ==
    /\ form' = [form EXCEPT ![d] = NoForm]
    /\ socket' = [socket EXCEPT ![d] = NoSocket]
    /\ post' = [r \in Posts |-> IF post[r].device = d /\ post[r].step \in Replies
                                THEN NoPost ELSE post[r]]
    /\ fate' = [k \in DOMAIN fate |-> IF k = page[d].key THEN "LEFT" ELSE fate[k]]

\* refreshAll: the menu and the orders are asked for.
RefreshAll(d, token) ==
    answers' = [answers EXCEPT ![d] = [orders |-> {Answer(Snapshot(token))}, menu |-> {Answer(menu)}]]

\* GET /entry, which gives access to nobody.
Load(d) ==
    /\ used.loads[d] < MaxLoads
    /\ used' = [used EXCEPT !.loads[d] = @ + 1]
    /\ Leave(d)
    /\ LET joined == Current # 0 /\ cookie[d].session = Current
           phase == IF Current = 0 THEN "closed" ELSE IF joined THEN "open" ELSE "join"
       IN /\ page' = [page EXCEPT ![d] = Blank(phase)]
          /\ IF joined THEN RefreshAll(d, Current)
             ELSE answers' = [answers EXCEPT ![d] = NoAnswers]
    /\ UNCHANGED <<serverVars, cookie>>

\* Fault: a code that was ever issued for the table still opens it.
AnyCode(c) == TRUE
\* joinCodeMatches: the stored hash is that of the last code, bound to its session.
JoinCodeMatches(c) == c = Len(codes) /\ codes[c] = Current

\* POST /join with a code that was typed or that the address held.
Join(d, c) ==
    /\ page[d].phase = "join" /\ Current # 0 /\ JoinCodeMatches(c)
    /\ cookie' = [cookie EXCEPT ![d] = [code |-> c, session |-> Current]]
    /\ page' = [page EXCEPT ![d].phase = "open"]
    /\ RefreshAll(d, Current)
    /\ UNCHANGED <<serverVars, form, socket, post, fate, used>>

-----------------------------------------------------------------------------
(* The page is kept up to date                                             *)

MarkTableClosed(d) == page' = [page EXCEPT ![d].phase = "closed", ![d].cart = EmptyCart]

AskOrders(d) ==
    /\ Cardinality(answers[d].orders) < MaxAnswers
    /\ answers' = [answers EXCEPT ![d].orders = @ \cup {AnswerTo(d, Snapshot(cookie[d].session), {})}]
AskMenu(d) ==
    /\ Cardinality(answers[d].menu) < MaxAnswers
    /\ answers' = [answers EXCEPT ![d].menu = @ \cup {AnswerTo(d, menu, NoMenu)}]

\* Every twenty seconds, whatever the socket says.
Poll(d) ==
    /\ page[d].phase = "open"
    /\ AskOrders(d)
    /\ UNCHANGED <<serverVars, cookie, page, form, socket, post, fate, used>>

\* The handshake reads the cookie; each time it connects, the page asks again.
Connect(d) ==
    /\ page[d].phase = "open" /\ socket[d].room = 0 /\ Resolves(cookie[d].session)
    /\ socket' = [socket EXCEPT ![d].room = cookie[d].session]
    /\ AskOrders(d)
    /\ UNCHANGED <<serverVars, cookie, page, form, post, fate, used>>

Disconnect(d) ==
    /\ socket[d].room # 0 /\ used.lost < MaxLost
    /\ socket' = [socket EXCEPT ![d] = NoSocket]
    /\ used' = [used EXCEPT !.lost = @ + 1]
    /\ UNCHANGED <<serverVars, cookie, page, form, answers, post, fate>>

\* An event is a reason to ask; only the end of the session speaks for itself.
HearEvent(d, event) ==
    /\ event \in socket[d].heard
    /\ \/ /\ event = "CLOSED"
          /\ MarkTableClosed(d)
          /\ socket' = [socket EXCEPT ![d] = NoSocket]
          /\ UNCHANGED answers
       \/ /\ event = "ORDERS" /\ AskOrders(d)
          /\ socket' = [socket EXCEPT ![d].heard = @ \ {event}]
          /\ UNCHANGED page
       \/ /\ event = "MENU" /\ AskMenu(d)
          /\ socket' = [socket EXCEPT ![d].heard = @ \ {event}]
          /\ UNCHANGED page
    /\ UNCHANGED <<serverVars, cookie, form, post, fate, used>>

\* A 403 clears the cookie, wherever it arrives.
ClearCookie(d, joined) ==
    cookie' = IF joined THEN cookie ELSE [cookie EXCEPT ![d] = NoCookie]

\* Fault: the page leaves a refusal alone and shows what it had.
IgnoresRefusal(d, a) ==
    page' = IF a.joined THEN [page EXCEPT ![d].orders = a.what] ELSE page
TakeOrders(d, a) ==
    IF a.joined THEN page' = [page EXCEPT ![d].orders = a.what] ELSE MarkTableClosed(d)

\* Answers arrive in any order.
OrdersArrive(d) ==
    /\ \E a \in answers[d].orders :
          /\ answers' = [answers EXCEPT ![d].orders = @ \ {a}]
          /\ ClearCookie(d, a.joined) /\ TakeOrders(d, a)
          /\ socket' = IF a.joined THEN socket ELSE [socket EXCEPT ![d] = NoSocket]
    /\ UNCHANGED <<serverVars, form, post, fate, used>>

\* loadMenu swallows a failure; an order that waits for it goes on.
MenuArrives(d) ==
    /\ \E a \in answers[d].menu :
          /\ answers' = [answers EXCEPT ![d].menu = @ \ {a}]
          /\ ClearCookie(d, a.joined)
          /\ page' = IF a.joined THEN [page EXCEPT ![d].menu = a.what] ELSE page
    /\ UNCHANGED <<serverVars, form, socket, post, fate, used>>

AnswerLost(d) ==
    /\ used.lost < MaxLost /\ used' = [used EXCEPT !.lost = @ + 1]
    /\ \E a \in answers[d].orders : answers' = [answers EXCEPT ![d].orders = @ \ {a}]
    /\ UNCHANGED <<serverVars, cookie, page, form, socket, post, fate>>

-----------------------------------------------------------------------------
(* The cart                                                                *)

CartTotal(cart) == SumFunction([i \in Items |-> cart[i].quantity * cart[i].price])

\* A line keeps the item as it was when it was first put in the cart.
AddLineToCart(d, i) ==
    /\ page[d].phase = "open" /\ page[d].menu # NoMenu /\ ~page[d].menu[i].soldOut
    /\ page[d].cart[i].quantity < MaxQuantity
    /\ page' = [page EXCEPT ![d].cart[i] =
                   IF @.quantity > 0 THEN [@ EXCEPT !.quantity = page[d].cart[i].quantity + 1]
                   ELSE [quantity |-> 1, price |-> page[d].menu[i].price]]
    /\ UNCHANGED <<serverVars, cookie, form, answers, socket, post, fate, used>>

\* The cart sheet's buttons rest while an order is being sent.
ChangeQuantity(d, i, quantity) ==
    /\ page[d].phase = "open" /\ form[d].step = "NONE"
    /\ page[d].cart[i].quantity > 0 /\ quantity \in 0..MaxQuantity
    /\ page' = [page EXCEPT ![d].cart[i] =
                   IF quantity = 0 THEN NoLine ELSE [@ EXCEPT !.quantity = quantity]]
    /\ UNCHANGED <<serverVars, cookie, form, answers, socket, post, fate, used>>

-----------------------------------------------------------------------------
(* An order                                                                *)

\* submitOrder goes on with the cart and the menu of the moment it was pressed.
SubmitOrder(d) ==
    /\ page[d].phase = "open" /\ form[d].step = "NONE" /\ page[d].cart # EmptyCart
    /\ page[d].key = 0 => used.keys < MaxKeys
    /\ LET key == IF page[d].key = 0 THEN used.keys + 1 ELSE page[d].key IN
       /\ page' = [page EXCEPT ![d].key = key]
       /\ used' = [used EXCEPT !.keys = IF key > @ THEN key ELSE @]
    /\ form' = [form EXCEPT ![d] = [step |-> "MENU", cart |-> page[d].cart,
                                    menu |-> page[d].menu, slot |-> 0]]
    /\ AskMenu(d)
    /\ UNCHANGED <<serverVars, cookie, socket, post, fate>>

SoldOutBefore(cart, shown) ==
    \E i \in Items : cart[i].quantity > 0 /\ (shown = NoMenu \/ shown[i].soldOut)

\* The menu has been read again, or not; what was shown before decides.
SendOrder(d) ==
    /\ form[d].step = "MENU" /\ answers[d].menu = {}
    /\ IF SoldOutBefore(form[d].cart, form[d].menu)
       THEN form' = [form EXCEPT ![d] = NoForm] /\ UNCHANGED post
       ELSE \E r \in Posts :
               /\ post[r].step = "NONE" /\ \A p \in Posts : post[p].step = "NONE" => r <= p
               /\ form' = [form EXCEPT ![d].step = "POST", ![d].menu = NoMenu, ![d].slot = r]
               /\ post' = [post EXCEPT ![r] =
                     [step |-> "SENT", device |-> d, session |-> cookie[d].session,
                      key |-> page[d].key, cart |-> form[d].cart,
                      total |-> CartTotal(form[d].cart)]]
    /\ UNCHANGED <<serverVars, cookie, page, answers, socket, fate, used>>

Pending(r, step) == post[r].step = step
Proceed(r, step) == post' = [post EXCEPT ![r].step = step]
\* The answer waits for the page that sent the order, if it still does.
Reply(r, answer) ==
    post' = [post EXCEPT ![r] =
                IF form[post[r].device].slot = r THEN [NoPost EXCEPT !.step = answer,
                                                                    !.device = post[r].device]
                ELSE NoPost]

\* requireTableSession and requireOrderableSession, which a lock or a switch may
\* make refuse.
GateOrder(r) ==
    /\ Pending(r, "SENT")
    /\ IF ~Resolves(post[r].session) THEN Reply(r, "JOIN_REQUIRED")
       ELSE \/ Reply(r, "REFUSED")
            \/ sessions[post[r].session] = "ACTIVE" /\ Proceed(r, "GATED")
    /\ UNCHANGED <<serverVars, cookie, page, form, answers, socket, fate, used>>

Taken(r) == \E o \in DOMAIN orders : /\ orders[o].session = post[r].session
                                     /\ orders[o].key = post[r].key

\* An order that exists under the key is the answer, whatever is asked for now.
FindOrder(r) ==
    /\ Pending(r, "GATED")
    /\ IF Taken(r) THEN Reply(r, "OK") ELSE Proceed(r, "NEW")
    /\ UNCHANGED <<serverVars, cookie, page, form, answers, socket, fate, used>>

\* Fault: the total the guest was shown is not compared.
AnyTotal(r, lines) == TRUE
ExpectedTotal(r, lines) == CartTotal(lines) = post[r].total

\* resolveOrderLines and the comparison with expectedTotal.
ResolveLines(r) ==
    /\ Pending(r, "NEW")
    /\ LET wanted == {i \in Items : post[r].cart[i].quantity > 0}
           lines == [i \in Items |-> IF i \in wanted
                                     THEN [post[r].cart[i] EXCEPT !.price = menu[i].price]
                                     ELSE NoLine]
       IN IF (\A i \in wanted : ~menu[i].soldOut) /\ ExpectedTotal(r, lines)
          THEN post' = [post EXCEPT ![r].step = "PRICED", ![r].cart = lines]
          ELSE Reply(r, "REFUSED")
    /\ UNCHANGED <<serverVars, cookie, page, form, answers, socket, fate, used>>

\* The insert; idempotencyKey is unique, and who comes second is given the first.
InsertOrder(r) ==
    /\ Pending(r, "PRICED")
    /\ IF Taken(r) THEN UNCHANGED <<orders, socket>>
       ELSE /\ Len(orders) < MaxOrders
            /\ orders' = Append(orders, [session |-> post[r].session, key |-> post[r].key,
                                         device |-> post[r].device, lines |-> post[r].cart,
                                         shown |-> post[r].total, status |-> "NEW"])
            /\ Emit(post[r].session, "ORDERS")
    /\ Reply(r, "OK")
    /\ UNCHANGED <<sessions, codes, menu, cookie, page, form, answers, fate, used>>

\* Fault: a failure is the end of the key.
KeyDropped(d, answer) == 0
\* The key is kept until an order is confirmed.
KeyAfter(d, answer) == IF answer = "OK" THEN 0 ELSE page[d].key

OrderReturns(d) ==
    /\ form[d].step = "POST"
    /\ LET r == form[d].slot   answer == post[r].step IN
       /\ answer \in Replies
       /\ page' = [page EXCEPT ![d].key = KeyAfter(d, answer),
                               ![d].cart = IF answer = "OK" THEN EmptyCart ELSE @]
       /\ fate' = IF answer = "OK" THEN [fate EXCEPT ![page[d].key] = "OK"] ELSE fate
       /\ ClearCookie(d, answer # "JOIN_REQUIRED")
       /\ IF answer = "OK" /\ Cardinality(answers[d].orders) < MaxAnswers
          THEN AskOrders(d) ELSE UNCHANGED answers
       /\ post' = [post EXCEPT ![r] = NoPost]
    /\ form' = [form EXCEPT ![d] = NoForm]
    /\ UNCHANGED <<serverVars, socket, used>>

\* The connection breaks: the order never arrives, or it does and the page is not told.
OrderLost(d) ==
    /\ form[d].step = "POST"
    /\ used.lost < MaxLost /\ used' = [used EXCEPT !.lost = @ + 1]
    /\ LET r == form[d].slot IN
       \/ post[r].step \in Replies \cup {"SENT"} /\ post' = [post EXCEPT ![r] = NoPost]
       \/ post[r].step \notin Replies /\ UNCHANGED post
    /\ page' = [page EXCEPT ![d].key = KeyAfter(d, "LOST")]
    /\ form' = [form EXCEPT ![d] = NoForm]
    /\ UNCHANGED <<serverVars, cookie, answers, socket, fate>>

-----------------------------------------------------------------------------

Init ==
    /\ sessions = << >> /\ codes = << >> /\ orders = << >>
    /\ menu \in [Items -> [price : {Min(Prices)}, soldOut : {FALSE}]]
    /\ cookie = [d \in Devices |-> NoCookie]
    /\ page = [d \in Devices |-> Blank("loading")]
    /\ form = [d \in Devices |-> NoForm]
    /\ answers = [d \in Devices |-> NoAnswers]
    /\ socket = [d \in Devices |-> NoSocket]
    /\ post = [r \in Posts |-> NoPost]
    /\ fate = [k \in 1..MaxKeys |-> "OPEN"]
    /\ used = [loads |-> [d \in Devices |-> 0], keys |-> 0, lost |-> 0]

Next ==
    \/ OpenTable \/ RotateJoinCode \/ SettleSession \/ CloseTable
    \/ \E o \in DOMAIN orders : ServeOrder(o)
    \/ \E i \in Items : SetSoldOut(i) \/ \E p \in Prices : SetPrice(i, p)
    \/ \E d \in Devices :
          \/ Load(d) \/ \E c \in 1..Len(codes) : Join(d, c)
          \/ Poll(d) \/ Connect(d) \/ Disconnect(d)
          \/ \E event \in {"CLOSED", "ORDERS", "MENU"} : HearEvent(d, event)
          \/ OrdersArrive(d) \/ MenuArrives(d) \/ AnswerLost(d)
          \/ \E i \in Items : \/ AddLineToCart(d, i)
                              \/ \E q \in 0..MaxQuantity : ChangeQuantity(d, i, q)
          \/ SubmitOrder(d) \/ SendOrder(d) \/ OrderReturns(d) \/ OrderLost(d)
    \/ \E r \in Posts : GateOrder(r) \/ FindOrder(r) \/ ResolveLines(r) \/ InsertOrder(r)

\* An open page keeps asking, and what was asked is answered or lost.
Fairness == \A d \in Devices : WF_vars(Poll(d)) /\ WF_vars(OrdersArrive(d))

Spec == Init /\ [][Next]_vars
FairSpec == Spec /\ Fairness
=============================================================================
