---------------------------- MODULE Guest_proofs ----------------------------
(***************************************************************************)
(* Proofs about Guest, for every number of phones, sessions, orders on     *)
(* their way and messages lost.                                            *)
(***************************************************************************)
EXTENDS GuestProps, SequenceTheorems, FiniteSetTheorems, WellFoundedInduction, TLAPS

USE GuestAssumption

-----------------------------------------------------------------------------
(* The shapes of what is stored, shown and on its way.                     *)

Statuses == {"ACTIVE", "PAID_PENDING_SERVICE", "CLOSED"}
Phases == {"loading", "join", "closed", "open"}
InFlight == {"SENT", "GATED", "NEW", "PRICED"}
OrderStatus == {"NEW", "SERVED"}
Events == {"CLOSED", "ORDERS", "MENU"}

Menu == [Items -> [price : Prices, soldOut : BOOLEAN]]
Totals == {CartTotal(cart) : cart \in Cart} \cup {0}
Shown == SUBSET [key : Nat, status : OrderStatus]
OrderRow == [session : Nat, key : Nat, device : Devices, lines : Cart, shown : Totals,
             status : OrderStatus]
Page == [phase : Phases, menu : Menu \cup {NoMenu}, orders : Shown, cart : Cart,
         key : 0..MaxKeys]
Form == [step : {"NONE", "MENU", "POST"}, cart : Cart, menu : Menu \cup {NoMenu},
         slot : Posts \cup {0}]
AnswerRecord(What) == [joined : BOOLEAN, what : What]
Answers == [orders : SUBSET AnswerRecord(Shown), menu : SUBSET AnswerRecord(Menu \cup {NoMenu})]
Post == [step : {"NONE"} \cup InFlight \cup Replies, device : Devices \cup {0},
         session : Nat, key : Nat, cart : Cart, total : Totals]

Used == [loads : [Devices -> Nat], keys : 0..MaxKeys, lost : Nat]

Shapes ==
    /\ sessions \in Seq(Statuses)
    /\ codes \in Seq(Nat)
    /\ menu \in Menu
    /\ orders \in Seq(OrderRow)
    /\ cookie \in [Devices -> [code : Nat, session : Nat]]
    /\ page \in [Devices -> Page]
    /\ form \in [Devices -> Form]
    /\ answers \in [Devices -> Answers]
    /\ socket \in [Devices -> [room : Nat, heard : SUBSET Events]]
    /\ post \in [Posts -> Post]
    /\ fate \in [1..MaxKeys -> {"OPEN", "OK", "LEFT"}]
    /\ used \in Used

\* A cookie holds a code that was issued, and its session.
CookiesSound ==
    \A d \in Devices : cookie[d] # NoCookie =>
        cookie[d].code \in DOMAIN codes /\ codes[cookie[d].code] = cookie[d].session

-----------------------------------------------------------------------------
(* The inductive invariant.                                                *)

\* An order in a request or in the database is known by its session, key and device.
Mark(x) == [session |-> x.session, key |-> x.key, device |-> x.device]
Marks == {Mark(post[r]) : r \in {q \in Posts : post[q].step \in InFlight}}
             \cup {Mark(orders[o]) : o \in DOMAIN orders}

\* Requests without a cookie belong to no session.
SameParty(s, q) == s = 0 \/ q = 0 \/ s = q

\* A key is one page's, which keeps it until the guest knows what became of it.
PageKeys ==
    /\ \A d \in Devices : page[d].key <= used.keys
    /\ \A d \in Devices : page[d].phase \in {"loading", "join"} => page[d].key = 0
    /\ \A d, e \in Devices : page[d].key = page[e].key /\ page[d].key # 0 => d = e

\* The orders of one key are of one device and one session.
MarksSound ==
    \A m \in Marks :
        /\ m.device \in Devices /\ m.key # 0 /\ m.key <= used.keys
        /\ fate[m.key] = "OPEN" => page[m.device].key = m.key
        /\ \A d \in Devices : page[d].key = m.key =>
              d = m.device /\ SameParty(m.session, cookie[d].session)
        /\ \A n \in Marks : m.key = n.key => SameParty(m.session, n.session)

\* A request that has passed a check is as the check wants it.
PostsSound ==
    \A r \in Posts :
        /\ post[r].step # "NONE" => post[r].device \in Devices
        /\ post[r].step \in {"GATED", "NEW", "PRICED"} => post[r].session # 0
        /\ post[r].step = "PRICED" => CartTotal(post[r].cart) = post[r].total

\* A page waits for the answer to the order of its key.
Waiting(d) ==
    LET r == form[d].slot IN
    /\ r \in Posts /\ post[r].step # "NONE" /\ post[r].device = d
    /\ post[r].step \in InFlight => post[r].key = page[d].key
    /\ post[r].step = "OK" => \E o \in DOMAIN orders : orders[o].key = page[d].key

FormsSound ==
    \A d \in Devices :
        /\ form[d].step # "NONE" => page[d].key # 0
        /\ form[d].step # "POST" => form[d].slot = 0
        /\ form[d].step = "POST" => Waiting(d)

\* What OrderedOnce says, key by key, and that orders are in sessions.
OrdersSound ==
    /\ \A o, p \in DOMAIN orders : orders[o].key = orders[p].key => o = p
    /\ \A k \in DOMAIN fate : fate[k] = "OK" => \E o \in DOMAIN orders : orders[o].key = k
    /\ \A o \in DOMAIN orders : /\ CartTotal(orders[o].lines) = orders[o].shown
                                /\ orders[o].session # 0

OrderInv == PageKeys /\ MarksSound /\ PostsSound /\ FormsSound /\ OrdersSound

-----------------------------------------------------------------------------
(* Types                                                                   *)

\* What a page, a form, a request and an answer are before they are anything.
LEMMA Blanks ==
    /\ 0 \in Totals
    /\ EmptyCart \in Cart
    /\ NoForm \in Form /\ NoForm.step = "NONE" /\ NoForm.slot = 0
    /\ NoPost \in Post /\ NoPost.step = "NONE"
    /\ NoAnswers \in Answers
    /\ NoSocket \in [room : Nat, heard : SUBSET Events]
    /\ NoCookie \in [code : Nat, session : Nat]
    /\ \A phase \in Phases : Blank(phase) \in Page /\ Blank(phase).key = 0
                             /\ Blank(phase).phase = phase
  <1>1. 0 \in Totals
    BY DEF Totals
  <1>2. EmptyCart \in Cart
    BY DEF EmptyCart, Cart, NoLine
  <1>3. NoForm \in Form /\ NoForm.step = "NONE" /\ NoForm.slot = 0
    BY <1>2 DEF NoForm, Form
  <1>4. NoPost \in Post /\ NoPost.step = "NONE"
    BY <1>1, <1>2 DEF NoPost, Post
  <1>5. NoAnswers \in Answers /\ NoSocket \in [room : Nat, heard : SUBSET Events]
    BY DEF NoAnswers, Answers, NoSocket
  <1>6. NoCookie \in [code : Nat, session : Nat]
    BY DEF NoCookie
  <1>7. \A phase \in Phases : Blank(phase) \in Page /\ Blank(phase).key = 0
                              /\ Blank(phase).phase = phase
    BY <1>2 DEF Blank, Page, Shown
  <1> QED
    BY <1>1, <1>2, <1>3, <1>4, <1>5, <1>6, <1>7

\* What the shapes say of pages, forms, cookies and counters, part by part.
LEMMA ShapeParts ==
    ASSUME Shapes
    PROVE  /\ page \in [Devices -> Page] /\ form \in [Devices -> Form] /\ post \in [Posts -> Post]
           /\ used \in Used /\ used.keys \in Nat
           /\ \A e \in Devices : /\ page[e] \in Page /\ page[e].key \in Nat /\ page[e].cart \in Cart
                                 /\ form[e] \in Form /\ form[e].cart \in Cart
                                 /\ cookie[e].session \in Nat
  <1>1. /\ page \in [Devices -> Page] /\ form \in [Devices -> Form] /\ post \in [Posts -> Post]
        /\ used \in Used /\ cookie \in [Devices -> [code : Nat, session : Nat]]
    BY DEF Shapes
  <1>2. used.keys \in Nat
    <2>1. used.keys \in 0..MaxKeys
      BY <1>1 DEF Used
    <2> QED
      BY <2>1
  <1>3. ASSUME NEW e \in Devices
        PROVE  /\ page[e] \in Page /\ page[e].key \in Nat /\ page[e].cart \in Cart
               /\ form[e] \in Form /\ form[e].cart \in Cart
               /\ cookie[e].session \in Nat
    <2>1. page[e] \in Page /\ form[e] \in Form
      BY <1>1
    <2>2. page[e].key \in 0..MaxKeys /\ page[e].cart \in Cart
      BY <2>1 DEF Page
    <2>3. form[e].cart \in Cart
      BY <2>1 DEF Form
    <2>4. cookie[e] \in [code : Nat, session : Nat]
      BY <1>1
    <2> QED
      BY <2>1, <2>2, <2>3, <2>4
  <1> QED
    BY <1>1, <1>2, <1>3

\* A step of the page itself leaves the server's rows and the cookies alone.
LEMMA PageLeaves ==
    ASSUME NEW d \in Devices,
           \/ Load(d) \/ Poll(d) \/ Connect(d) \/ Disconnect(d)
           \/ \E event \in {"CLOSED", "ORDERS", "MENU"} : HearEvent(d, event)
           \/ AnswerLost(d)
    PROVE  UNCHANGED <<sessions, codes, menu, orders, cookie>>
  <1>1. UNCHANGED <<serverVars, cookie>>
    <2>1. CASE Load(d) \/ Poll(d) \/ Connect(d)
      BY <2>1, Zenon DEF Load, Poll, Connect
    <2>2. CASE Disconnect(d) \/ AnswerLost(d)
      BY <2>2, Zenon DEF Disconnect, AnswerLost
    <2>3. CASE \E event \in {"CLOSED", "ORDERS", "MENU"} : HearEvent(d, event)
      BY <2>3, Zenon DEF HearEvent
    <2> QED
      BY <2>1, <2>2, <2>3
  <1> QED
    BY <1>1 DEF serverVars

\* A change of the cart leaves everything but the page alone.
LEMMA CartLeaves ==
    ASSUME NEW d \in Devices, NEW i \in Items,
           AddLineToCart(d, i) \/ \E q \in 0..MaxQuantity : ChangeQuantity(d, i, q)
    PROVE  UNCHANGED <<orders, cookie, form, post, fate, used>>
  <1>1. CASE AddLineToCart(d, i)
    <2>1. UNCHANGED <<serverVars, cookie, form, answers, socket, post, fate, used>>
      BY <1>1, Zenon DEF AddLineToCart
    <2> QED
      BY <2>1 DEF serverVars
  <1>2. ASSUME NEW q, ChangeQuantity(d, i, q)
        PROVE  UNCHANGED <<orders, cookie, form, post, fate, used>>
    <2>1. UNCHANGED <<serverVars, cookie, form, answers, socket, post, fate, used>>
      BY <1>2, Zenon DEF ChangeQuantity
    <2> QED
      BY <2>1 DEF serverVars
  <1> QED
    BY <1>1, <1>2

\* Appending a row keeps the others and adds it at the end.
LEMMA AppendRow ==
    ASSUME NEW Row, NEW rows \in Seq(Row), NEW row \in Row
    PROVE  /\ Append(rows, row) \in Seq(Row)
           /\ DOMAIN Append(rows, row) = DOMAIN rows \cup {Len(rows) + 1}
           /\ Len(rows) + 1 \notin DOMAIN rows
           /\ Append(rows, row)[Len(rows) + 1] = row
           /\ \A n \in DOMAIN rows : Append(rows, row)[n] = rows[n]
  BY SMTT(60)

\* Replacing a row keeps the number of rows and the other rows.
LEMMA ReplaceRow ==
    ASSUME NEW Row, NEW rows \in Seq(Row), NEW n \in DOMAIN rows, NEW row \in Row
    PROVE  /\ [rows EXCEPT ![n] = row] \in Seq(Row)
           /\ DOMAIN [rows EXCEPT ![n] = row] = DOMAIN rows
           /\ [rows EXCEPT ![n] = row][n] = row
           /\ \A m \in DOMAIN rows \ {n} : [rows EXCEPT ![n] = row][m] = rows[m]
  <1>1. n \in 1..Len(rows)
    OBVIOUS
  <1> QED
    BY <1>1, ExceptSeq

\* The row of an order is an order.
LEMMA OrderRows ==
    ASSUME Shapes, NEW o \in DOMAIN orders
    PROVE  orders[o] \in OrderRow
  BY ElementOfSeq, LenProperties DEF Shapes

\* What the server answers of a session, and what reaches its sockets.
LEMMA SnapshotShape ==
    ASSUME Shapes, NEW s
    PROVE  Snapshot(s) \in Shown
  BY OrderRows DEF Snapshot, Shown, OrderRow

\* What a page is told of its orders or of the menu is an answer.
LEMMA AskShape ==
    ASSUME Shapes, NEW d \in Devices, AskOrders(d) \/ AskMenu(d)
    PROVE  answers' \in [Devices -> Answers]
  <1>1. answers \in [Devices -> Answers]
    BY DEF Shapes
  <1>2. CASE AskOrders(d)
    <2>1. AnswerTo(d, Snapshot(cookie[d].session), {}) \in AnswerRecord(Shown)
      BY SnapshotShape DEF AnswerTo, Answer, AnswerRecord, Shown
    <2> QED
      BY <1>1, <1>2, <2>1 DEF AskOrders, Answers
  <1>3. CASE AskMenu(d)
    <2>1. AnswerTo(d, menu, NoMenu) \in AnswerRecord(Menu \cup {NoMenu})
      BY DEF AnswerTo, Answer, AnswerRecord, Shapes
    <2> QED
      BY <1>1, <1>3, <2>1 DEF AskMenu, Answers
  <1> QED
    BY <1>2, <1>3

\* Asking for everything asks for the orders and for the menu.
LEMMA RefreshShape ==
    ASSUME Shapes, NEW d \in Devices, NEW s, RefreshAll(d, s)
    PROVE  answers' \in [Devices -> Answers]
  <1>1. answers \in [Devices -> Answers]
    BY DEF Shapes
  <1>2. Answer(Snapshot(s)) \in AnswerRecord(Shown)
    BY SnapshotShape DEF Answer, AnswerRecord
  <1>3. Answer(menu) \in AnswerRecord(Menu \cup {NoMenu})
    BY DEF Answer, AnswerRecord, Shapes
  <1> QED
    BY <1>1, <1>2, <1>3 DEF RefreshAll, Answers

\* An event that reaches the sockets of a room is one they may hear.
LEMMA EmitShape ==
    ASSUME Shapes, NEW s, NEW event \in Events, Emit(s, event)
    PROVE  socket' \in [Devices -> [room : Nat, heard : SUBSET Events]]
  <1> DEFINE Socket == [room : Nat, heard : SUBSET Events]
             told(d) == IF socket[d].room # 0 /\ s \in {0, socket[d].room}
                        THEN [socket[d] EXCEPT !.heard = @ \cup {event}] ELSE socket[d]
  <1>1. ASSUME NEW d \in Devices PROVE told(d) \in Socket
    <2>1. socket[d] \in Socket
      BY DEF Shapes
    <2>2. [socket[d] EXCEPT !.heard = @ \cup {event}] \in Socket
      BY <2>1
    <2> QED
      BY <2>1, <2>2
  <1>2. socket' = [d \in Devices |-> told(d)]
    BY DEF Emit
  <1> HIDE DEF told
  <1> QED
    BY <1>1, <1>2

\* The current session is a row, or there is none.
LEMMA CurrentShape ==
    ASSUME Shapes
    PROVE  Current \in Nat /\ (Current # 0 => Current \in DOMAIN sessions)
  <1>1. Len(sessions) \in Nat /\ DOMAIN sessions = 1..Len(sessions)
    BY LenProperties DEF Shapes
  <1> QED
    BY <1>1 DEF Current, Live

\* The session, the codes, the menu and the kitchen.
LEMMA TypeServer ==
    ASSUME Shapes,
           \/ OpenTable \/ RotateJoinCode \/ SettleSession \/ CloseTable
           \/ \E o \in DOMAIN orders : ServeOrder(o)
           \/ \E i \in Items : SetSoldOut(i) \/ \E p \in Prices : SetPrice(i, p)
    PROVE  Shapes'
  <1>0. Len(sessions) \in Nat
    BY LenProperties DEF Shapes
  <1>1. CASE OpenTable
    <2>1. sessions' \in Seq(Statuses) /\ codes' \in Seq(Nat)
      BY <1>0, <1>1, AppendRow DEF OpenTable, Shapes, Statuses
    <2> QED
      BY <1>1, <2>1 DEF OpenTable, Shapes
  <1>2. CASE RotateJoinCode
    <2>1. codes' \in Seq(Nat)
      BY <1>2, AppendRow, CurrentShape DEF RotateJoinCode, Shapes
    <2> QED
      BY <1>2, <2>1 DEF RotateJoinCode, Shapes
  <1>3. CASE SettleSession
    <2>1. sessions' \in Seq(Statuses)
      BY <1>3, ReplaceRow, CurrentShape DEF SettleSession, Shapes, Statuses
    <2> QED
      BY <1>3, <2>1 DEF SettleSession, Shapes
  <1>4. CASE CloseTable
    <2>1. sessions' \in Seq(Statuses)
      BY <1>4, ReplaceRow, CurrentShape DEF CloseTable, Shapes, Statuses
    <2>2. socket' \in [Devices -> [room : Nat, heard : SUBSET Events]]
      BY <1>4, EmitShape DEF CloseTable, Events
    <2> QED
      BY <1>4, <2>1, <2>2 DEF CloseTable, Shapes
  <1>5. ASSUME NEW o \in DOMAIN orders, ServeOrder(o) PROVE Shapes'
    <2>1. [orders[o] EXCEPT !.status = "SERVED"] \in OrderRow
      BY OrderRows DEF OrderRow, OrderStatus
    <2>2. orders' \in Seq(OrderRow)
      BY <1>5, <2>1, ReplaceRow DEF ServeOrder, Shapes
    <2>3. socket' \in [Devices -> [room : Nat, heard : SUBSET Events]]
      BY <1>5, EmitShape DEF ServeOrder, Events
    <2> QED
      BY <1>5, <2>2, <2>3 DEF ServeOrder, Shapes
  <1>6. ASSUME NEW i \in Items, SetSoldOut(i) PROVE Shapes'
    <2>1. menu' \in Menu
      <3>1. menu' = [menu EXCEPT ![i].soldOut = ~menu[i].soldOut]
        BY <1>6 DEF SetSoldOut
      <3>2. menu \in Menu /\ menu[i] \in [price : Prices, soldOut : BOOLEAN]
        BY DEF Shapes, Menu
      <3>3. [menu[i] EXCEPT !.soldOut = ~menu[i].soldOut] \in [price : Prices, soldOut : BOOLEAN]
        BY <3>2
      <3> QED
        BY <3>1, <3>2, <3>3 DEF Menu
    <2>2. socket' \in [Devices -> [room : Nat, heard : SUBSET Events]]
      BY <1>6, EmitShape DEF SetSoldOut, Events
    <2> QED
      BY <1>6, <2>1, <2>2 DEF SetSoldOut, Shapes
  <1>7. ASSUME NEW i \in Items, NEW p \in Prices, SetPrice(i, p) PROVE Shapes'
    <2>1. menu' = [menu EXCEPT ![i] = [menu[i] EXCEPT !.price = p]] /\ menu \in Menu
      BY <1>7 DEF SetPrice, Shapes
    <2>2. [menu[i] EXCEPT !.price = p] \in [price : Prices, soldOut : BOOLEAN]
      BY <2>1 DEF Menu
    <2>3. menu' \in Menu
      BY <2>1, <2>2 DEF Menu
    <2> QED
      BY <1>7, <2>3 DEF SetPrice, Shapes
  <1> QED
    BY <1>1, <1>2, <1>3, <1>4, <1>5, <1>6, <1>7

\* The shape of a page whose fields change.
LEMMA PageShape ==
    ASSUME Shapes, NEW d \in Devices, NEW p \in Page, page' = [page EXCEPT ![d] = p]
    PROVE  page' \in [Devices -> Page]
  BY DEF Shapes

\* A page that learns that its session closed is still a page.
LEMMA ClosedShape ==
    ASSUME Shapes, NEW d \in Devices, MarkTableClosed(d)
    PROVE  page' \in [Devices -> Page]
  <1> DEFINE p == [page[d] EXCEPT !.phase = "closed", !.cart = EmptyCart]
  <1>1. page[d] \in Page
    BY DEF Shapes
  <1>2. p \in Page
    BY <1>1, Blanks DEF Page, Phases
  <1>3. page' = [page EXCEPT ![d] = p]
    BY <1>1 DEF MarkTableClosed, Page
  <1> HIDE DEF p
  <1> QED
    BY <1>2, <1>3, PageShape

\* A cookie that is cleared is that of no session.
LEMMA CookieShape ==
    ASSUME Shapes, NEW d \in Devices, NEW joined, ClearCookie(d, joined)
    PROVE  cookie' \in [Devices -> [code : Nat, session : Nat]]
  BY Blanks DEF ClearCookie, Shapes

\* The page opens, and joins.
LEMMA TypeOpens ==
    ASSUME Shapes, NEW d \in Devices, Load(d) \/ \E c \in 1..Len(codes) : Join(d, c)
    PROVE  Shapes'
  <1>1. CASE Load(d)
    <2>1. used' \in Used
      <3>1. used \in Used /\ used' = [used EXCEPT !.loads[d] = @ + 1]
        BY <1>1 DEF Load, Shapes
      <3>2. [used.loads EXCEPT ![d] = @ + 1] \in [Devices -> Nat]
        BY <3>1 DEF Used
      <3> QED
        BY <3>1, <3>2 DEF Used
    <2>2. /\ form' \in [Devices -> Form]
          /\ socket' \in [Devices -> [room : Nat, heard : SUBSET Events]]
      BY <1>1, Blanks DEF Load, Leave, Shapes
    <2>3. post' \in [Posts -> Post] /\ fate' \in [1..MaxKeys -> {"OPEN", "OK", "LEFT"}]
      BY <1>1, Blanks DEF Load, Leave, Shapes
    <2>4. page' \in [Devices -> Page]
      <3>1. PICK phase \in Phases : page' = [page EXCEPT ![d] = Blank(phase)]
        BY <1>1 DEF Load, Phases
      <3> QED
        BY <3>1, Blanks, PageShape
    <2>5. answers' \in [Devices -> Answers]
      <3>1. CASE RefreshAll(d, Current)
        BY <3>1, RefreshShape
      <3>2. CASE answers' = [answers EXCEPT ![d] = NoAnswers]
        <4>1. answers \in [Devices -> Answers] /\ NoAnswers \in Answers
          BY Blanks DEF Shapes
        <4> QED
          BY <3>2, <4>1
      <3> QED
        BY <1>1, <3>1, <3>2, Zenon DEF Load
    <2>6. UNCHANGED <<sessions, codes, menu, orders, cookie>>
      BY <1>1 DEF Load, serverVars
    <2> QED
      BY <2>1, <2>2, <2>3, <2>4, <2>5, <2>6 DEF Shapes
  <1>2. ASSUME NEW c \in 1..Len(codes), Join(d, c) PROVE Shapes'
    <2>0. Len(codes) \in Nat
      BY LenProperties DEF Shapes
    <2>1. [code |-> c, session |-> Current] \in [code : Nat, session : Nat]
      BY <2>0, CurrentShape
    <2>2. cookie' \in [Devices -> [code : Nat, session : Nat]]
      BY <1>2, <2>1 DEF Join, Shapes
    <2>3. page' \in [Devices -> Page]
      <3>0. page[d] \in Page
        BY DEF Shapes
      <3>1. [page[d] EXCEPT !.phase = "open"] \in Page
        BY <3>0 DEF Page, Phases
      <3> QED
        BY <1>2, <3>1, PageShape DEF Join
    <2>4. answers' \in [Devices -> Answers]
      BY <1>2, RefreshShape DEF Join
    <2> QED
      BY <1>2, <2>2, <2>3, <2>4 DEF Join, Shapes, serverVars
  <1> QED
    BY <1>1, <1>2

\* The page asks, hears and is answered.
LEMMA TypeWatches ==
    ASSUME Shapes, NEW d \in Devices,
           \/ Poll(d) \/ Connect(d) \/ Disconnect(d)
           \/ \E event \in {"CLOSED", "ORDERS", "MENU"} : HearEvent(d, event)
           \/ OrdersArrive(d) \/ MenuArrives(d) \/ AnswerLost(d)
    PROVE  Shapes'
  <1> DEFINE Sockets == [Devices -> [room : Nat, heard : SUBSET Events]]
  <1>0. socket \in Sockets
    BY DEF Shapes
  <1>1. CASE Poll(d)
    BY <1>1, AskShape DEF Poll, Shapes, serverVars
  <1>2. CASE Connect(d)
    <2>1. socket' \in Sockets
      BY <1>0, <1>2 DEF Connect, Shapes
    <2> QED
      BY <1>2, <2>1, AskShape DEF Connect, Shapes, serverVars
  <1>3. CASE Disconnect(d)
    <2>1. socket' \in Sockets
      BY <1>0, <1>3, Blanks DEF Disconnect
    <2>2. used' \in Used
      <3>1. used \in Used
        BY DEF Shapes
      <3>2. used' = [used EXCEPT !.lost = used.lost + 1]
        BY <1>3 DEF Disconnect
      <3> QED
        BY <3>1, <3>2 DEF Used
    <2> QED
      BY <1>3, <2>1, <2>2 DEF Disconnect, Shapes, serverVars
  <1>4. ASSUME NEW event \in {"CLOSED", "ORDERS", "MENU"}, HearEvent(d, event) PROVE Shapes'
    <2>1. socket' \in Sockets
      <3>1. CASE socket' = [socket EXCEPT ![d] = NoSocket]
        BY <1>0, <3>1, Blanks
      <3>2. CASE socket' = [socket EXCEPT ![d].heard = @ \ {event}]
        BY <1>0, <3>2
      <3> QED
        BY <1>4, <3>1, <3>2 DEF HearEvent
    <2>2. page' \in [Devices -> Page]
      BY <1>4, ClosedShape DEF HearEvent, Shapes
    <2>3. answers' \in [Devices -> Answers]
      BY <1>4, AskShape DEF HearEvent, Shapes
    <2> QED
      BY <1>4, <2>1, <2>2, <2>3 DEF HearEvent, Shapes, serverVars
  <1>5. CASE OrdersArrive(d)
    <2>1. PICK a \in answers[d].orders :
             /\ answers' = [answers EXCEPT ![d].orders = @ \ {a}]
             /\ ClearCookie(d, a.joined) /\ TakeOrders(d, a)
             /\ socket' = IF a.joined THEN socket ELSE [socket EXCEPT ![d] = NoSocket]
      BY <1>5 DEF OrdersArrive
    <2>2. answers \in [Devices -> Answers] /\ answers[d] \in Answers
      BY DEF Shapes
    <2>0. a.what \in Shown /\ a.joined \in BOOLEAN
      BY <2>1, <2>2 DEF Answers, AnswerRecord
    <2>3. answers' \in [Devices -> Answers]
      BY <2>1, <2>2 DEF Answers
    <2>4. cookie' \in [Devices -> [code : Nat, session : Nat]]
      BY <2>1, CookieShape
    <2>5. page' \in [Devices -> Page]
      <3>0. page[d] \in Page
        BY DEF Shapes
      <3>1. [page[d] EXCEPT !.orders = a.what] \in Page
        BY <2>0, <3>0 DEF Page
      <3>2. CASE page' = [page EXCEPT ![d].orders = a.what]
        BY <3>1, <3>2, PageShape
      <3> QED
        BY <2>1, <3>2, ClosedShape DEF TakeOrders
    <2>6. socket' \in Sockets
      BY <1>0, <2>1, Blanks
    <2> QED
      BY <1>5, <2>3, <2>4, <2>5, <2>6 DEF OrdersArrive, Shapes, serverVars
  <1>6. CASE MenuArrives(d)
    <2>1. PICK a \in answers[d].menu :
             /\ answers' = [answers EXCEPT ![d].menu = @ \ {a}]
             /\ ClearCookie(d, a.joined)
             /\ page' = IF a.joined THEN [page EXCEPT ![d].menu = a.what] ELSE page
      BY <1>6 DEF MenuArrives
    <2>2. answers \in [Devices -> Answers] /\ answers[d] \in Answers
      BY DEF Shapes
    <2>0. a.what \in Menu \cup {NoMenu}
      BY <2>1, <2>2 DEF Answers, AnswerRecord
    <2>3. answers' \in [Devices -> Answers]
      BY <2>1, <2>2 DEF Answers
    <2>4. cookie' \in [Devices -> [code : Nat, session : Nat]]
      BY <2>1, CookieShape
    <2>5. page' \in [Devices -> Page]
      <3>0. page[d] \in Page
        BY DEF Shapes
      <3>1. [page[d] EXCEPT !.menu = a.what] \in Page
        BY <2>0, <3>0 DEF Page
      <3>2. CASE page' = [page EXCEPT ![d].menu = a.what]
        BY <3>1, <3>2, PageShape
      <3> QED
        BY <2>1, <3>2 DEF Shapes
    <2> QED
      BY <1>6, <2>3, <2>4, <2>5 DEF MenuArrives, Shapes, serverVars
  <1>7. CASE AnswerLost(d)
    <2>1. answers' \in [Devices -> Answers]
      <3>1. answers \in [Devices -> Answers] /\ answers[d] \in Answers
        BY DEF Shapes
      <3>2. PICK a : answers' = [answers EXCEPT ![d].orders = @ \ {a}]
        BY <1>7 DEF AnswerLost
      <3> QED
        BY <3>1, <3>2 DEF Answers
    <2>2. used' \in Used
      <3>1. used \in Used
        BY DEF Shapes
      <3>2. used' = [used EXCEPT !.lost = used.lost + 1]
        BY <1>7 DEF AnswerLost
      <3> QED
        BY <3>1, <3>2 DEF Used
    <2> QED
      BY <1>7, <2>1, <2>2 DEF AnswerLost, Shapes, serverVars
  <1> QED
    BY <1>1, <1>2, <1>3, <1>4, <1>5, <1>6, <1>7

\* The cart.
LEMMA TypeCart ==
    ASSUME Shapes, NEW d \in Devices, NEW i \in Items,
           AddLineToCart(d, i) \/ \E q \in 0..MaxQuantity : ChangeQuantity(d, i, q)
    PROVE  Shapes'
  <1> DEFINE Line == [quantity : 0..MaxQuantity, price : Prices \cup {0}]
  <1>1. page[d] \in Page /\ page[d].cart[i] \in Line
    <2>1. page[d] \in Page /\ page[d].cart \in Cart
      BY ShapeParts
    <2> QED
      BY <2>1 DEF Cart
  <1>2. PICK line \in Line : page' = [page EXCEPT ![d].cart[i] = line]
    <2>1. CASE AddLineToCart(d, i)
      <3> DEFINE more == [page[d].cart[i] EXCEPT !.quantity = page[d].cart[i].quantity + 1]
                 first == [quantity |-> 1, price |-> page[d].menu[i].price]
      <3>1. page[d].menu \in Menu /\ page[d].cart[i].quantity < MaxQuantity
        BY <1>1, <2>1 DEF AddLineToCart, Page
      <3>2. more \in Line
        BY <1>1, <3>1
      <3>3. first \in Line
        BY <1>1, <3>1 DEF Menu
      <3>4. \/ page' = [page EXCEPT ![d].cart[i] = more]
            \/ page' = [page EXCEPT ![d].cart[i] = first]
        <4>1. CASE page[d].cart[i].quantity > 0
          BY <2>1, <4>1 DEF AddLineToCart
        <4>2. CASE ~(page[d].cart[i].quantity > 0)
          BY <2>1, <4>2 DEF AddLineToCart
        <4> QED
          BY <4>1, <4>2
      <3> QED
        BY <3>2, <3>3, <3>4
    <2>2. ASSUME NEW q \in 0..MaxQuantity, ChangeQuantity(d, i, q)
          PROVE  \E line \in Line : page' = [page EXCEPT ![d].cart[i] = line]
      <3> DEFINE other == [page[d].cart[i] EXCEPT !.quantity = q]
      <3>1. other \in Line /\ NoLine \in Line
        BY <1>1 DEF NoLine
      <3>2. \/ page' = [page EXCEPT ![d].cart[i] = other]
            \/ page' = [page EXCEPT ![d].cart[i] = NoLine]
        BY <2>2 DEF ChangeQuantity
      <3> QED
        BY <3>1, <3>2
    <2> QED
      BY <2>1, <2>2
  <1> HIDE DEF Line
  <1>3. [page[d] EXCEPT !.cart[i] = line] \in Page
    BY <1>1, <1>2 DEF Page, Cart, Line
  <1>4. page' \in [Devices -> Page]
    BY <1>2, <1>3, PageShape
  <1> QED
    BY <1>4 DEF AddLineToCart, ChangeQuantity, Shapes, serverVars

\* The order leaves, and its answer arrives or not.
LEMMA TypeOrders ==
    ASSUME Shapes, NEW d \in Devices,
           SubmitOrder(d) \/ SendOrder(d) \/ OrderReturns(d) \/ OrderLost(d)
    PROVE  Shapes'
  <1>0. page[d] \in Page /\ form[d] \in Form /\ used \in Used
    BY DEF Shapes
  <1>1. CASE SubmitOrder(d)
    <2> DEFINE key == IF page[d].key = 0 THEN used.keys + 1 ELSE page[d].key
               f == [step |-> "MENU", cart |-> page[d].cart, menu |-> page[d].menu, slot |-> 0]
    <2>1. /\ page[d].key = 0 => used.keys < MaxKeys
          /\ page' = [page EXCEPT ![d] = [page[d] EXCEPT !.key = key]]
          /\ used' = [used EXCEPT !.keys = IF key > used.keys THEN key ELSE used.keys]
          /\ form' = [form EXCEPT ![d] = f]
      BY <1>1 DEF SubmitOrder
    <2>2. used.keys \in 0..MaxKeys /\ page[d].key \in 0..MaxKeys
      BY <1>0 DEF Used, Page
    <2>3. key \in 0..MaxKeys
      BY <2>1, <2>2
    <2>4. page' \in [Devices -> Page]
      <3>1. [page[d] EXCEPT !.key = key] \in Page
        BY <1>0, <2>3 DEF Page
      <3> QED
        BY <2>1, <3>1, PageShape
    <2>5. form' \in [Devices -> Form]
      <3>1. f \in Form
        BY <1>0 DEF Form, Page
      <3> QED
        BY <2>1, <3>1 DEF Shapes
    <2>6. answers' \in [Devices -> Answers]
      BY <1>1, AskShape DEF SubmitOrder
    <2>7. used' \in Used
      <3> HIDE DEF key
      <3> QED
        BY <1>0, <2>1, <2>2, <2>3 DEF Used
    <2> QED
      BY <1>1, <2>4, <2>5, <2>6, <2>7 DEF SubmitOrder, Shapes, serverVars
  <1>2. CASE SendOrder(d)
    <2>1. CASE form' = [form EXCEPT ![d] = NoForm] /\ UNCHANGED post
      BY <1>2, <2>1, Blanks DEF SendOrder, Shapes, serverVars
    <2>2. ASSUME NEW r \in Posts,
                 form' = [form EXCEPT ![d].step = "POST", ![d].menu = NoMenu, ![d].slot = r],
                 post' = [post EXCEPT ![r] =
                     [step |-> "SENT", device |-> d, session |-> cookie[d].session,
                      key |-> page[d].key, cart |-> form[d].cart,
                      total |-> CartTotal(form[d].cart)]]
          PROVE  Shapes'
      <3>1. form' \in [Devices -> Form]
        <4>1. [form[d] EXCEPT !.step = "POST", !.menu = NoMenu, !.slot = r] \in Form
          BY <1>0 DEF Form
        <4> QED
          BY <2>2, <4>1 DEF Shapes
      <3>2. post' \in [Posts -> Post]
        <4>1. /\ cookie[d].session \in Nat /\ page[d].key \in Nat /\ form[d].cart \in Cart
              /\ CartTotal(form[d].cart) \in Totals
          <5>1. cookie[d].session \in Nat /\ page[d].key \in Nat /\ form[d].cart \in Cart
            BY ShapeParts
          <5> QED
            BY <5>1 DEF Totals
        <4> DEFINE total == CartTotal(form[d].cart)
        <4> HIDE DEF total
        <4>2. [step |-> "SENT", device |-> d, session |-> cookie[d].session,
               key |-> page[d].key, cart |-> form[d].cart, total |-> total] \in Post
          BY <4>1 DEF Post, InFlight, total
        <4> QED
          BY <2>2, <4>2 DEF Shapes, total
      <3> QED
        BY <1>2, <3>1, <3>2 DEF SendOrder, Shapes, serverVars
    <2> QED
      BY <1>2, <2>1, <2>2 DEF SendOrder
  <1>3. CASE OrderReturns(d)
    <2> DEFINE answer == post[form[d].slot].step
               key == KeyAfter(d, answer)
               cart == IF answer = "OK" THEN EmptyCart ELSE page[d].cart
    <2>1. /\ page' = [page EXCEPT ![d].key = key, ![d].cart = cart]
          /\ fate' = IF answer = "OK" THEN [fate EXCEPT ![page[d].key] = "OK"] ELSE fate
          /\ ClearCookie(d, answer # "JOIN_REQUIRED")
          /\ AskOrders(d) \/ UNCHANGED answers
          /\ post' = [post EXCEPT ![form[d].slot] = NoPost]
          /\ form' = [form EXCEPT ![d] = NoForm]
      BY <1>3 DEF OrderReturns
    <2>2. key \in 0..MaxKeys /\ cart \in Cart
      BY <1>0, Blanks DEF KeyAfter, Page
    <2> HIDE DEF key, cart
    <2>3. page' \in [Devices -> Page]
      <3>1. [page[d] EXCEPT !.key = key, !.cart = cart] \in Page
        BY <1>0, <2>2 DEF Page
      <3>2. page \in [Devices -> Page]
        BY DEF Shapes
      <3>3. page' = [page EXCEPT ![d].key = key, ![d].cart = cart]
        BY <2>1
      <3>4. \A e \in Devices : page'[e] \in Page
        <4>1. page'[d] = [page[d] EXCEPT !.key = key, !.cart = cart]
          BY <3>2, <3>3 DEF Page
        <4>2. \A e \in Devices \ {d} : page'[e] = page[e]
          BY <3>2, <3>3
        <4> QED
          BY <3>1, <3>2, <4>1, <4>2
      <3>5. page' = [e \in Devices |-> page'[e]]
        BY <3>2, <3>3
      <3> QED
        BY <3>4, <3>5
    <2>4. post' \in [Posts -> Post] /\ form' \in [Devices -> Form]
      BY <2>1, Blanks DEF Shapes
    <2>5. fate' \in [1..MaxKeys -> {"OPEN", "OK", "LEFT"}]
      BY <2>1 DEF Shapes
    <2>6. cookie' \in [Devices -> [code : Nat, session : Nat]]
      BY <2>1, CookieShape
    <2>7. answers' \in [Devices -> Answers]
      BY <2>1, AskShape DEF Shapes
    <2> QED
      BY <1>3, <2>3, <2>4, <2>5, <2>6, <2>7 DEF OrderReturns, Shapes, serverVars
  <1>4. CASE OrderLost(d)
    <2>1. /\ used' = [used EXCEPT !.lost = used.lost + 1]
          /\ post' = [post EXCEPT ![form[d].slot] = NoPost] \/ UNCHANGED post
          /\ page' = [page EXCEPT ![d].key = page[d].key]
          /\ form' = [form EXCEPT ![d] = NoForm]
      BY <1>4 DEF OrderLost, KeyAfter
    <2>2. used' \in Used
      BY <1>0, <2>1 DEF Used
    <2>3. post' \in [Posts -> Post] /\ form' \in [Devices -> Form]
      <3>1. post \in [Posts -> Post] /\ form \in [Devices -> Form]
        BY DEF Shapes
      <3>2. form' \in [Devices -> Form]
        BY <2>1, <3>1, Blanks
      <3>3. CASE UNCHANGED post
        BY <3>1, <3>2, <3>3
      <3>4. CASE post' = [post EXCEPT ![form[d].slot] = NoPost]
        BY <3>1, <3>2, <3>4, Blanks
      <3> QED
        BY <2>1, <3>3, <3>4
    <2>4. page' \in [Devices -> Page]
      <3>1. [page[d] EXCEPT !.key = page[d].key] \in Page
        BY <1>0 DEF Page
      <3> QED
        BY <2>1, <3>1, PageShape
    <2> QED
      BY <1>4, <2>2, <2>3, <2>4 DEF OrderLost, Shapes, serverVars
  <1> QED
    BY <1>1, <1>2, <1>3, <1>4

\* A request goes on, or is answered.
LEMMA PostShape ==
    ASSUME Shapes, NEW r \in Posts,
           \/ \E step \in InFlight : Proceed(r, step)
           \/ \E answer \in Replies : Reply(r, answer)
    PROVE  post' \in [Posts -> Post]
  <1>0. post[r] \in Post /\ post \in [Posts -> Post]
    BY DEF Shapes
  <1>1. ASSUME NEW step \in InFlight, Proceed(r, step) PROVE post' \in [Posts -> Post]
    <2>1. [post[r] EXCEPT !.step = step] \in Post
      BY <1>0 DEF Post
    <2> QED
      BY <1>0, <1>1, <2>1 DEF Proceed
  <1>2. ASSUME NEW answer \in Replies, Reply(r, answer) PROVE post' \in [Posts -> Post]
    <2>1. [NoPost EXCEPT !.step = answer, !.device = post[r].device] \in Post
      BY <1>0, Blanks DEF Post
    <2>2. \/ post' = [post EXCEPT ![r] = NoPost]
          \/ post' = [post EXCEPT ![r] = [NoPost EXCEPT !.step = answer, !.device = post[r].device]]
      BY <1>2 DEF Reply
    <2> QED
      BY <1>0, <2>1, <2>2, Blanks
  <1> QED
    BY <1>1, <1>2

\* What the server makes of an order.
LEMMA TypePosts ==
    ASSUME Shapes, NEW r \in Posts,
           \/ GateOrder(r) \/ FindOrder(r) \/ ResolveLines(r)
           \/ InsertOrder(r) /\ post[r].device \in Devices
    PROVE  Shapes'
  <1>0. post[r] \in Post /\ post \in [Posts -> Post]
    BY DEF Shapes
  <1>1. CASE GateOrder(r)
    <2>1. post' \in [Posts -> Post]
      BY <1>1, PostShape DEF GateOrder, Replies, InFlight
    <2> QED
      BY <1>1, <2>1 DEF GateOrder, Shapes, serverVars
  <1>2. CASE FindOrder(r)
    <2>1. post' \in [Posts -> Post]
      BY <1>2, PostShape DEF FindOrder, Replies, InFlight
    <2> QED
      BY <1>2, <2>1 DEF FindOrder, Shapes, serverVars
  <1>3. CASE ResolveLines(r)
    <2> DEFINE wanted == {i \in Items : post[r].cart[i].quantity > 0}
               lines == [i \in Items |-> IF i \in wanted
                                         THEN [post[r].cart[i] EXCEPT !.price = menu[i].price]
                                         ELSE NoLine]
    <2>1. \/ post' = [post EXCEPT ![r].step = "PRICED", ![r].cart = lines]
          \/ Reply(r, "REFUSED")
      BY <1>3 DEF ResolveLines
    <2>2. lines \in Cart
      <3>1. ASSUME NEW i \in Items
            PROVE  /\ [post[r].cart[i] EXCEPT !.price = menu[i].price]
                          \in [quantity : 0..MaxQuantity, price : Prices \cup {0}]
                   /\ NoLine \in [quantity : 0..MaxQuantity, price : Prices \cup {0}]
        <4>1. /\ post[r].cart[i] \in [quantity : 0..MaxQuantity, price : Prices \cup {0}]
              /\ menu[i].price \in Prices
          BY <1>0 DEF Post, Cart, Shapes, Menu
        <4> QED
          BY <4>1 DEF NoLine
      <3> HIDE DEF wanted
      <3> QED
        BY <3>1 DEF Cart
    <2> HIDE DEF lines
    <2>3. post' \in [Posts -> Post]
      <3>1. [post[r] EXCEPT !.step = "PRICED", !.cart = lines] \in Post
        BY <1>0, <2>2 DEF Post, InFlight
      <3>2. CASE post' = [post EXCEPT ![r].step = "PRICED", ![r].cart = lines]
        BY <1>0, <3>1, <3>2
      <3> QED
        BY <2>1, <3>2, PostShape DEF Replies
    <2> QED
      BY <1>3, <2>3, SMTT(60) DEF ResolveLines, Shapes, serverVars
  <1>4. CASE InsertOrder(r) /\ post[r].device \in Devices
    <2> DEFINE row == [session |-> post[r].session, key |-> post[r].key,
                       device |-> post[r].device, lines |-> post[r].cart,
                       shown |-> post[r].total, status |-> "NEW"]
    <2>1. post' \in [Posts -> Post]
      BY <1>4, PostShape DEF InsertOrder, Replies
    <2>2. row \in OrderRow
      BY <1>0, <1>4 DEF Post, OrderRow, OrderStatus
    <2>3. \/ UNCHANGED <<orders, socket>>
          \/ orders' = Append(orders, row) /\ Emit(post[r].session, "ORDERS")
      BY <1>4 DEF InsertOrder
    <2> HIDE DEF row
    <2>4. orders' \in Seq(OrderRow)
      <3>1. orders \in Seq(OrderRow)
        BY DEF Shapes
      <3>2. Append(orders, row) \in Seq(OrderRow)
        BY <2>2, <3>1, AppendRow
      <3> QED
        BY <2>3, <3>1, <3>2
    <2>5. socket' \in [Devices -> [room : Nat, heard : SUBSET Events]]
      BY <2>3, EmitShape DEF Shapes, Events
    <2> QED
      BY <1>4, <2>1, <2>4, <2>5 DEF InsertOrder, Shapes
  <1> QED
    BY <1>1, <1>2, <1>3, <1>4

\* There is a lowest price.
LEMMA LeastPrice == \E least \in Prices : \A p \in Prices : least <= p
  <1> DEFINE R == OpToRel(<, Nat)
  <1>1. IsWellFoundedOn(R, Nat)
    BY NatLessThanWellFounded
  <1>2. Prices \subseteq Nat /\ Prices # {}
    OBVIOUS
  <1> HIDE DEF R
  <1>3. PICK least \in Prices : \A p \in Prices : ~ (<<p, least>> \in R)
    BY ONLY <1>1, <1>2, WFMin
  <1>4. \A p \in Prices : ~ (p < least)
    BY <1>2, <1>3 DEF R, OpToRel
  <1> QED
    BY <1>2, <1>4

\* The first state has its shapes, and no device a cookie.
LEMMA TypeInit == Init => Shapes /\ CookiesSound
  <1> SUFFICES ASSUME Init PROVE Shapes /\ CookiesSound
    OBVIOUS
  <1>1. sessions \in Seq(Statuses) /\ codes \in Seq(Nat) /\ orders \in Seq(OrderRow)
    BY EmptySeq DEF Init
  <1>2. menu \in Menu
    <2>1. Min(Prices) \in Prices
      BY LeastPrice DEF Min
    <2> QED
      BY <2>1 DEF Init, Menu
  <1>3. /\ cookie \in [Devices -> [code : Nat, session : Nat]]
        /\ page \in [Devices -> Page]
        /\ form \in [Devices -> Form]
        /\ answers \in [Devices -> Answers]
        /\ socket \in [Devices -> [room : Nat, heard : SUBSET Events]]
        /\ post \in [Posts -> Post]
    BY Blanks DEF Init, Phases
  <1>4. fate \in [1..MaxKeys -> {"OPEN", "OK", "LEFT"}] /\ used \in Used
    BY DEF Init, Used
  <1>5. CookiesSound
    BY DEF Init, CookiesSound
  <1> QED
    BY <1>1, <1>2, <1>3, <1>4, <1>5 DEF Shapes

-----------------------------------------------------------------------------
(* Cookies                                                                 *)

\* A cookie keeps the session its code was issued for: codes are only added, and the
\* code that joins is the last one.
LEMMA CookiesKept ==
    ASSUME Shapes, CookiesSound, [Next]_vars
    PROVE  CookiesSound'
  <1>0. Len(codes) \in Nat /\ codes \in Seq(Nat) /\ DOMAIN codes = 1..Len(codes)
    BY LenProperties DEF Shapes
  <1>1. ASSUME NEW s \in Nat, codes' = Append(codes, s), UNCHANGED cookie PROVE CookiesSound'
    <2>1. \A c \in DOMAIN codes : c \in DOMAIN codes' /\ codes'[c] = codes[c]
      BY <1>0, <1>1, AppendRow
    <2> QED
      BY <1>1, <2>1 DEF CookiesSound
  <1>2. ASSUME NEW d \in Devices, NEW joined, ClearCookie(d, joined), UNCHANGED codes
        PROVE  CookiesSound'
    <2>1. \A e \in Devices : cookie'[e] = cookie[e] \/ cookie'[e] = NoCookie
      BY <1>2 DEF ClearCookie, Shapes
    <2> QED
      BY <1>2, <2>1 DEF CookiesSound
  <1>3. ASSUME UNCHANGED <<codes, cookie>> PROVE CookiesSound'
    BY <1>3 DEF CookiesSound
  <1>4. ASSUME NEW d \in Devices, NEW c \in 1..Len(codes), Join(d, c) PROVE CookiesSound'
    <2>1. UNCHANGED codes /\ c \in DOMAIN codes /\ codes[c] = Current
      BY <1>0, <1>4 DEF Join, JoinCodeMatches, serverVars
    <2>2. \A e \in Devices : cookie'[e] = IF e = d THEN [code |-> c, session |-> Current]
                                          ELSE cookie[e]
      BY <1>4 DEF Join, Shapes
    <2> QED
      <3>1. ASSUME NEW e \in Devices, cookie'[e] # NoCookie
            PROVE  cookie'[e].code \in DOMAIN codes /\ codes[cookie'[e].code] = cookie'[e].session
        <4>1. CASE e = d
          BY <2>1, <2>2, <4>1
        <4>2. CASE e # d
          BY <2>2, <3>1, <4>2 DEF CookiesSound
        <4> QED
          BY <4>1, <4>2
      <3> QED
        BY <2>1, <3>1 DEF CookiesSound
  <1>5. CASE OpenTable \/ RotateJoinCode
    <2>1. Len(sessions) \in Nat /\ Current \in Nat
      BY LenProperties, CurrentShape DEF Shapes
    <2>2. codes' = Append(codes, Len(sessions) + 1) \/ codes' = Append(codes, Current)
      BY <1>5 DEF OpenTable, RotateJoinCode
    <2>3. UNCHANGED cookie
      BY <1>5 DEF OpenTable, RotateJoinCode
    <2> QED
      BY <1>1, <2>1, <2>2, <2>3
  <1>6. ASSUME NEW d \in Devices, OrdersArrive(d) \/ MenuArrives(d) \/ OrderReturns(d)
        PROVE  CookiesSound'
    <2>1. UNCHANGED codes /\ \E joined : ClearCookie(d, joined)
      BY <1>6 DEF OrdersArrive, MenuArrives, OrderReturns, serverVars
    <2> QED
      BY <1>2, <2>1
  <1>7. CASE \/ SettleSession \/ CloseTable
             \/ \E o \in DOMAIN orders : ServeOrder(o)
             \/ \E i \in Items : SetSoldOut(i) \/ \E p \in Prices : SetPrice(i, p)
    BY <1>3, <1>7 DEF SettleSession, CloseTable, ServeOrder, SetSoldOut, SetPrice
  <1>8. ASSUME NEW d \in Devices,
               \/ Load(d) \/ Poll(d) \/ Connect(d) \/ Disconnect(d)
               \/ \E event \in {"CLOSED", "ORDERS", "MENU"} : HearEvent(d, event)
               \/ AnswerLost(d)
        PROVE  CookiesSound'
    BY <1>3, <1>8, PageLeaves, ZenonT(60)
  <1>9. ASSUME NEW d \in Devices,
               \/ \E i \in Items : \/ AddLineToCart(d, i)
                                   \/ \E q \in 0..MaxQuantity : ChangeQuantity(d, i, q)
               \/ SubmitOrder(d) \/ SendOrder(d) \/ OrderLost(d)
        PROVE  CookiesSound'
    BY <1>3, <1>9 DEF AddLineToCart, ChangeQuantity, SubmitOrder, SendOrder, OrderLost, serverVars
  <1>10. ASSUME NEW r \in Posts, GateOrder(r) \/ FindOrder(r) \/ ResolveLines(r) \/ InsertOrder(r)
         PROVE  CookiesSound'
    BY <1>3, <1>10 DEF GateOrder, FindOrder, ResolveLines, InsertOrder, serverVars
  <1>11. CASE UNCHANGED vars
    BY <1>3, <1>11 DEF vars
  <1> QED
    BY <1>4, <1>5, <1>6, <1>7, <1>8, <1>9, <1>10, <1>11 DEF Next

-----------------------------------------------------------------------------
(* Keys                                                                    *)

\* A mark has a key and a session, and is that of a request or of an order.
LEMMA MarkShape ==
    ASSUME Shapes
    PROVE  /\ \A m \in Marks : m.key \in Nat /\ m.session \in Nat
           /\ \A r \in Posts : post[r].step \in InFlight => Mark(post[r]) \in Marks
           /\ \A o \in DOMAIN orders : Mark(orders[o]) \in Marks
  <1>1. \A r \in Posts : Mark(post[r]).key \in Nat /\ Mark(post[r]).session \in Nat
    BY DEF Mark, Shapes, Post
  <1>2. \A o \in DOMAIN orders : Mark(orders[o]).key \in Nat /\ Mark(orders[o]).session \in Nat
    BY OrderRows DEF Mark, OrderRow
  <1> QED
    BY <1>1, <1>2 DEF Marks

\* While nothing is sent, the marks stay sound: a page keeps its key and its party,
\* has none, or draws a new one, and a key is open while its page holds it.
LEMMA MarksFewer ==
    ASSUME Shapes, MarksSound, Marks' \subseteq Marks,
           used.keys <= used'.keys, used'.keys \in Nat,
           \A d \in Devices :
              \/ page'[d].key = page[d].key /\ cookie'[d].session \in {0, cookie[d].session}
              \/ page'[d].key = 0
              \/ page'[d].key \in Nat /\ page'[d].key > used.keys,
           \A k \in 1..MaxKeys : fate'[k] = "OPEN" =>
              /\ fate[k] = "OPEN"
              /\ \A d \in Devices : page[d].key = k => page'[d].key = k
    PROVE  MarksSound'
  <1>1. ASSUME NEW m \in Marks'
        PROVE  /\ m.device \in Devices /\ m.key # 0 /\ m.key <= used'.keys
               /\ fate'[m.key] = "OPEN" => page'[m.device].key = m.key
               /\ \A d \in Devices : page'[d].key = m.key =>
                     d = m.device /\ SameParty(m.session, cookie'[d].session)
               /\ \A n \in Marks' : m.key = n.key => SameParty(m.session, n.session)
    <2>1. /\ m \in Marks /\ m.device \in Devices /\ m.key # 0 /\ m.key <= used.keys
          /\ m.key \in Nat /\ used.keys \in 0..MaxKeys
      BY MarkShape DEF MarksSound, Shapes, Used
    <2>2. m.key \in 1..MaxKeys /\ m.key <= used'.keys
      BY <2>1
    <2>3. fate'[m.key] = "OPEN" => page'[m.device].key = m.key
      BY <2>1, <2>2 DEF MarksSound
    <2>4. ASSUME NEW d \in Devices, page'[d].key = m.key
          PROVE  d = m.device /\ SameParty(m.session, cookie'[d].session)
      <3>1. page'[d].key = page[d].key /\ cookie'[d].session \in {0, cookie[d].session}
        BY <2>1, <2>4
      <3>2. d = m.device /\ SameParty(m.session, cookie[d].session)
        BY <2>1, <2>4, <3>1 DEF MarksSound
      <3> QED
        BY <3>1, <3>2 DEF SameParty
    <2>5. \A n \in Marks' : m.key = n.key => SameParty(m.session, n.session)
      BY <2>1 DEF MarksSound
    <2> QED
      BY <2>1, <2>2, <2>3, <2>4, <2>5
  <1> QED
    BY <1>1 DEF MarksSound

\* A step that leaves what is sent and the keys alone, and sends no cookie to another
\* session, keeps the invariant.
LEMMA KeysUntouched ==
    ASSUME Shapes, OrderInv,
           DOMAIN orders' = DOMAIN orders,
           \A o \in DOMAIN orders :
              /\ Mark(orders'[o]) = Mark(orders[o])
              /\ orders'[o].key = orders[o].key /\ orders'[o].session = orders[o].session
              /\ orders'[o].lines = orders[o].lines /\ orders'[o].shown = orders[o].shown,
           \A d \in Devices :
              /\ page'[d].key = page[d].key
              /\ page'[d].phase \in {"loading", "join"} => page'[d].phase = page[d].phase
              /\ cookie'[d].session \in {0, cookie[d].session},
           UNCHANGED <<form, post, fate>>, used'.keys = used.keys
    PROVE  OrderInv'
  <1>1. PageKeys'
    BY DEF OrderInv, PageKeys
  <1>2. MarksSound'
    <2>1. Marks' \subseteq Marks
      <3> SUFFICES ASSUME NEW m \in Marks' PROVE m \in Marks
        OBVIOUS
      <3>1. CASE \E r \in Posts : post[r].step \in InFlight /\ m = Mark(post[r])
        BY <3>1 DEF Marks
      <3>2. CASE \E o \in DOMAIN orders : m = Mark(orders[o])
        BY <3>2 DEF Marks
      <3>3. \/ \E r \in Posts : post'[r].step \in InFlight /\ m = Mark(post'[r])
            \/ \E o \in DOMAIN orders' : m = Mark(orders'[o])
        BY DEF Marks
      <3> QED
        BY <3>1, <3>2, <3>3
    <2>2. used.keys \in Nat
      BY DEF Shapes, Used
    <2> QED
      BY <2>1, <2>2, MarksFewer DEF OrderInv
  <1>3. PostsSound'
    BY DEF OrderInv, PostsSound
  <1>4. FormsSound'
    BY DEF OrderInv, FormsSound, Waiting
  <1>5. OrdersSound'
    BY DEF OrderInv, OrdersSound
  <1> QED
    BY <1>1, <1>2, <1>3, <1>4, <1>5 DEF OrderInv

\* The steps that send nothing and draw no key.
LEMMA QuietSteps ==
    ASSUME Shapes, OrderInv,
           \/ OpenTable \/ RotateJoinCode \/ SettleSession \/ CloseTable
           \/ \E o \in DOMAIN orders : ServeOrder(o)
           \/ \E i \in Items : SetSoldOut(i) \/ \E p \in Prices : SetPrice(i, p)
           \/ \E d \in Devices :
                 \/ Poll(d) \/ Connect(d) \/ Disconnect(d)
                 \/ \E event \in {"CLOSED", "ORDERS", "MENU"} : HearEvent(d, event)
                 \/ OrdersArrive(d) \/ MenuArrives(d) \/ AnswerLost(d)
                 \/ \E i \in Items : \/ AddLineToCart(d, i)
                                     \/ \E q \in 0..MaxQuantity : ChangeQuantity(d, i, q)
           \/ UNCHANGED vars
    PROVE  OrderInv'
  <1> DEFINE PageGoes(e) == /\ page'[e].key = page[e].key
                            /\ page'[e].phase \in {"loading", "join"}
                                 => page'[e].phase = page[e].phase
             CookieGoes(e) == cookie'[e].session \in {0, cookie[e].session}
  <1>1. ASSUME UNCHANGED <<orders, form, post, fate>>, used'.keys = used.keys,
               \A e \in Devices : PageGoes(e), \A e \in Devices : CookieGoes(e)
        PROVE  OrderInv'
    <2>1. DOMAIN orders' = DOMAIN orders
      BY <1>1
    <2>2. \A o \in DOMAIN orders :
              /\ Mark(orders'[o]) = Mark(orders[o])
              /\ orders'[o].key = orders[o].key /\ orders'[o].session = orders[o].session
              /\ orders'[o].lines = orders[o].lines /\ orders'[o].shown = orders[o].shown
      BY <1>1
    <2> QED
      BY <1>1, <2>1, <2>2, KeysUntouched
  <1>2. /\ used \in Used
        /\ page \in [Devices -> Page]
        /\ cookie \in [Devices -> [code : Nat, session : Nat]]
    BY DEF Shapes
  <1>3. ASSUME NEW d \in Devices, MarkTableClosed(d) PROVE \A e \in Devices : PageGoes(e)
    BY <1>2, <1>3 DEF MarkTableClosed, Page
  <1>4. ASSUME NEW d \in Devices, NEW joined, ClearCookie(d, joined)
        PROVE  \A e \in Devices : CookieGoes(e)
    BY <1>2, <1>4 DEF ClearCookie, NoCookie
  <1>5. CASE \/ OpenTable \/ RotateJoinCode \/ SettleSession \/ CloseTable
             \/ \E i \in Items : SetSoldOut(i) \/ \E p \in Prices : SetPrice(i, p)
    <2>1. UNCHANGED <<orders, cookie, page, form, post, fate, used>>
      BY <1>5 DEF OpenTable, RotateJoinCode, SettleSession, CloseTable, SetSoldOut, SetPrice
    <2> QED
      BY <1>1, <2>1
  <1>6. ASSUME NEW o \in DOMAIN orders, ServeOrder(o) PROVE OrderInv'
    <2>1. orders' = [orders EXCEPT ![o] = [orders[o] EXCEPT !.status = "SERVED"]]
      BY <1>6 DEF ServeOrder
    <2>2. \A n \in DOMAIN orders : orders[n] \in OrderRow
      BY OrderRows
    <2>3. DOMAIN orders' = DOMAIN orders
      BY <2>1
    <2>4. ASSUME NEW n \in DOMAIN orders
          PROVE  /\ orders'[n].key = orders[n].key /\ orders'[n].session = orders[n].session
                 /\ orders'[n].lines = orders[n].lines /\ orders'[n].shown = orders[n].shown
                 /\ orders'[n].device = orders[n].device
      BY <2>1, <2>2 DEF OrderRow
    <2>5. UNCHANGED <<cookie, page, form, post, fate, used>>
      BY <1>6 DEF ServeOrder
    <2> QED
      BY <2>3, <2>4, <2>5, KeysUntouched DEF Mark
  <1>7. ASSUME NEW d \in Devices, Poll(d) \/ Connect(d) \/ Disconnect(d) \/ AnswerLost(d)
        PROVE  OrderInv'
    <2>1. UNCHANGED <<orders, cookie, page, form, post, fate>>
      BY <1>7 DEF Poll, Connect, Disconnect, AnswerLost, serverVars
    <2>2. UNCHANGED used \/ used' = [used EXCEPT !.lost = used.lost + 1]
      BY <1>7 DEF Poll, Connect, Disconnect, AnswerLost
    <2>3. used'.keys = used.keys
      BY <1>2, <2>2 DEF Used
    <2> QED
      BY <1>1, <2>1, <2>3
  <1>8. ASSUME NEW d \in Devices, NEW event \in {"CLOSED", "ORDERS", "MENU"}, HearEvent(d, event)
        PROVE  OrderInv'
    <2>1. UNCHANGED <<orders, cookie, form, post, fate, used>>
      BY <1>8 DEF HearEvent, serverVars
    <2>2. MarkTableClosed(d) \/ UNCHANGED page
      BY <1>8 DEF HearEvent
    <2>3. \A e \in Devices : PageGoes(e)
      BY <1>3, <2>2
    <2> QED
      BY <1>1, <2>1, <2>3
  <1>9. ASSUME NEW d \in Devices, OrdersArrive(d) PROVE OrderInv'
    <2>1. UNCHANGED <<orders, form, post, fate, used>>
      BY <1>9 DEF OrdersArrive, serverVars
    <2>2. \E joined : ClearCookie(d, joined)
      BY <1>9 DEF OrdersArrive
    <2>3. MarkTableClosed(d) \/ \E what : page' = [page EXCEPT ![d].orders = what]
      BY <1>9 DEF OrdersArrive, TakeOrders
    <2>4. ASSUME NEW what, page' = [page EXCEPT ![d].orders = what]
          PROVE  \A e \in Devices : PageGoes(e)
      BY <1>2, <2>4 DEF Page
    <2>5. \A e \in Devices : PageGoes(e)
      BY <1>3, <2>3, <2>4
    <2>6. \A e \in Devices : CookieGoes(e)
      BY <1>4, <2>2
    <2> QED
      BY <1>1, <2>1, <2>5, <2>6
  <1>10. ASSUME NEW d \in Devices, MenuArrives(d) PROVE OrderInv'
    <2>1. UNCHANGED <<orders, form, post, fate, used>>
      BY <1>10 DEF MenuArrives, serverVars
    <2>2. \E joined : ClearCookie(d, joined)
      BY <1>10 DEF MenuArrives
    <2>3. UNCHANGED page \/ \E what : page' = [page EXCEPT ![d].menu = what]
      BY <1>10 DEF MenuArrives
    <2>4. ASSUME NEW what, page' = [page EXCEPT ![d].menu = what]
          PROVE  \A e \in Devices : PageGoes(e)
      BY <1>2, <2>4 DEF Page
    <2>5. \A e \in Devices : PageGoes(e)
      BY <2>3, <2>4
    <2>6. \A e \in Devices : CookieGoes(e)
      BY <1>4, <2>2
    <2> QED
      BY <1>1, <2>1, <2>5, <2>6
  <1>11. ASSUME NEW d \in Devices, NEW i \in Items,
                AddLineToCart(d, i) \/ \E q \in 0..MaxQuantity : ChangeQuantity(d, i, q)
         PROVE  OrderInv'
    <2>1. UNCHANGED <<orders, cookie, form, post, fate, used>>
      BY <1>11, CartLeaves, Zenon
    <2>2. \E line : page' = [page EXCEPT ![d].cart[i] = line]
      BY <1>11 DEF AddLineToCart, ChangeQuantity
    <2>3. ASSUME NEW line, page' = [page EXCEPT ![d].cart[i] = line]
          PROVE  \A e \in Devices : PageGoes(e)
      BY <1>2, <2>3 DEF Page
    <2>4. \A e \in Devices : PageGoes(e)
      BY <2>2, <2>3
    <2> QED
      BY <1>1, <2>1, <2>4
  <1>12. CASE UNCHANGED vars
    BY <1>1, <1>12 DEF vars
  <1> QED
    BY <1>5, <1>6, <1>7, <1>8, <1>9, <1>10, <1>11, <1>12

\* The page opens again, and what it waited for is let go; or it joins.
LEMMA OpeningSteps ==
    ASSUME Shapes, OrderInv, NEW d \in Devices, Load(d) \/ \E c \in 1..Len(codes) : Join(d, c)
    PROVE  OrderInv'
  <1>0. /\ page \in [Devices -> Page] /\ form \in [Devices -> Form] /\ post \in [Posts -> Post]
        /\ cookie \in [Devices -> [code : Nat, session : Nat]]
        /\ used \in Used
        /\ fate \in [1..MaxKeys -> {"OPEN", "OK", "LEFT"}]
    BY DEF Shapes
  <1>a. used.keys \in Nat
    BY <1>0 DEF Used
  <1>1. CASE Load(d)
    <2>1. PICK phase \in Phases : page' = [page EXCEPT ![d] = Blank(phase)]
      BY <1>1 DEF Load, Phases
    <2>2. /\ page'[d].key = 0
          /\ \A e \in Devices \ {d} : page'[e] = page[e]
      BY <1>0, <2>1, Blanks
    <2>3. used'.keys = used.keys /\ UNCHANGED <<orders, cookie>>
      BY <1>0, <1>1 DEF Load, Used, serverVars
    <2>4. \A e \in Devices : form'[e] = IF e = d THEN NoForm ELSE form[e]
      BY <1>0, <1>1 DEF Load, Leave
    <2>5. \A r \in Posts : post'[r] = IF post[r].device = d /\ post[r].step \in Replies
                                      THEN NoPost ELSE post[r]
      BY <1>0, <1>1 DEF Load, Leave
    <2>6. \A k \in 1..MaxKeys : fate'[k] = IF k = page[d].key THEN "LEFT" ELSE fate[k]
      BY <1>0, <1>1 DEF Load, Leave
    <2>7. DOMAIN fate' = DOMAIN fate
      BY <1>0, <1>1 DEF Load, Leave
    <2>8. PageKeys'
      <3>1. ASSUME NEW e \in Devices PROVE page'[e].key <= used'.keys
        <4>1. page[e].key <= used.keys
          BY DEF OrderInv, PageKeys
        <4>2. page'[e].key = 0 \/ page'[e].key = page[e].key
          BY <2>2
        <4> QED
          BY <1>0, <1>a, <2>3, <4>1, <4>2
      <3>2. \A e \in Devices : page'[e].phase \in {"loading", "join"} => page'[e].key = 0
        BY <2>2 DEF OrderInv, PageKeys
      <3>3. \A e, g \in Devices : page'[e].key = page'[g].key /\ page'[e].key # 0 => e = g
        BY <2>2 DEF OrderInv, PageKeys
      <3> QED
        BY <3>1, <3>2, <3>3 DEF PageKeys
    <2>9. MarksSound'
      <3>1. Marks' \subseteq Marks
        <4>1. \A r \in Posts : post'[r].step \in InFlight => post'[r] = post[r]
          BY <2>5, Blanks DEF InFlight
        <4> QED
          BY <2>3, <4>1 DEF Marks
      <3>2. \A k \in 1..MaxKeys : fate'[k] = "OPEN" =>
               /\ fate[k] = "OPEN"
               /\ \A e \in Devices : page[e].key = k => page'[e].key = k
        BY <2>2, <2>6
      <3>3. \A e \in Devices :
               \/ page'[e].key = page[e].key /\ cookie'[e].session \in {0, cookie[e].session}
               \/ page'[e].key = 0
        BY <2>2, <2>3
      <3> QED
        <4>1. MarksSound
          BY DEF OrderInv
        <4>2. used.keys <= used'.keys /\ used'.keys \in Nat
          BY <1>a, <2>3
        <4> QED
          BY <3>1, <3>2, <3>3, <4>1, <4>2, MarksFewer, ZenonT(60)
    <2>10. PostsSound'
      BY <2>5, Blanks, SMTT(60) DEF OrderInv, PostsSound
    <2>11. FormsSound'
      <3> SUFFICES ASSUME NEW e \in Devices
                   PROVE  /\ form'[e].step # "NONE" => page'[e].key # 0
                          /\ form'[e].step # "POST" => form'[e].slot = 0
                          /\ form'[e].step = "POST" => Waiting(e)'
        BY DEF FormsSound
      <3>1. CASE e = d
        BY <2>4, <3>1, Blanks
      <3>2. CASE e # d
        <4>1. form'[e] = form[e] /\ page'[e] = page[e]
          BY <2>2, <2>4, <3>2
        <4>2. form[e].step = "POST" => Waiting(e)
          BY DEF OrderInv, FormsSound
        <4>3. Waiting(e) => post'[form[e].slot] = post[form[e].slot]
          BY <2>5, <3>2 DEF Waiting
        <4>4. form[e].step = "POST" => Waiting(e)'
          BY <2>3, <4>1, <4>2, <4>3 DEF Waiting
        <4> QED
          BY <4>1, <4>4 DEF OrderInv, FormsSound
      <3> QED
        BY <3>1, <3>2
    <2>12. OrdersSound'
      <3>1. \A k \in DOMAIN fate' : fate'[k] = "OK" => fate[k] = "OK"
        BY <1>0, <2>6, <2>7
      <3> QED
        BY <2>3, <2>7, <3>1 DEF OrderInv, OrdersSound
    <2> QED
      BY <2>8, <2>9, <2>10, <2>11, <2>12 DEF OrderInv
  <1>2. ASSUME NEW c \in 1..Len(codes), Join(d, c) PROVE OrderInv'
    <2>1. page[d].key = 0 /\ page' = [page EXCEPT ![d] = [page[d] EXCEPT !.phase = "open"]]
      BY <1>2 DEF Join, OrderInv, PageKeys
    <2>2. \A e \in Devices : /\ page'[e].key = page[e].key
                             /\ page'[e].phase = IF e = d THEN "open" ELSE page[e].phase
      BY <1>0, <2>1 DEF Page
    <2>3. UNCHANGED <<orders, form, post, fate, used>>
      BY <1>2 DEF Join, serverVars
    <2>4. \A e \in Devices \ {d} : cookie'[e] = cookie[e]
      BY <1>0, <1>2 DEF Join
    <2>5. PageKeys'
      BY <2>2, <2>3 DEF OrderInv, PageKeys
    <2>6. MarksSound'
      <3>1. Marks' \subseteq Marks
        BY <2>3 DEF Marks
      <3>2. \A e \in Devices :
               \/ page'[e].key = page[e].key /\ cookie'[e].session \in {0, cookie[e].session}
               \/ page'[e].key = 0
        BY <2>1, <2>2, <2>4
      <3> QED
        <4>1. MarksSound
          BY DEF OrderInv
        <4>2. used.keys <= used'.keys /\ used'.keys \in Nat
          BY <1>a, <2>3
        <4>3. \A k \in 1..MaxKeys : fate'[k] = "OPEN" =>
                 /\ fate[k] = "OPEN"
                 /\ \A e \in Devices : page[e].key = k => page'[e].key = k
          BY <2>2, <2>3
        <4> QED
          BY <3>1, <3>2, <4>1, <4>2, <4>3, MarksFewer, ZenonT(60)
    <2>7. PostsSound' /\ OrdersSound'
      BY <2>3 DEF OrderInv, PostsSound, OrdersSound
    <2>8. FormsSound'
      BY <2>2, <2>3 DEF OrderInv, FormsSound, Waiting
    <2> QED
      BY <2>5, <2>6, <2>7, <2>8 DEF OrderInv
  <1> QED
    BY <1>1, <1>2

\* A key is drawn when the first order of a cart is sent.
LEMMA SubmitStep ==
    ASSUME Shapes, OrderInv, NEW d \in Devices, SubmitOrder(d)
    PROVE  OrderInv'
  <1> DEFINE key == IF page[d].key = 0 THEN used.keys + 1 ELSE page[d].key
             f == [step |-> "MENU", cart |-> page[d].cart, menu |-> page[d].menu, slot |-> 0]
  <1>0. /\ page \in [Devices -> Page] /\ form \in [Devices -> Form]
        /\ used \in Used /\ used.keys \in Nat
        /\ \A e \in Devices : page[e].key \in Nat
    BY ShapeParts
  <1>1. /\ page' = [page EXCEPT ![d] = [page[d] EXCEPT !.key = key]]
        /\ used' = [used EXCEPT !.keys = IF key > used.keys THEN key ELSE used.keys]
        /\ form' = [form EXCEPT ![d] = f]
        /\ page[d].phase = "open"
        /\ UNCHANGED <<orders, cookie, post, fate>>
    BY DEF SubmitOrder, serverVars
  <1>2. key \in Nat /\ key # 0 /\ (key = page[d].key \/ (page[d].key = 0 /\ key > used.keys))
    BY <1>0
  <1> HIDE DEF key
  <1>3. used'.keys \in Nat /\ used.keys <= used'.keys /\ key <= used'.keys
    BY <1>0, <1>1, <1>2 DEF Used
  <1>4. /\ \A e \in Devices : page'[e].key = IF e = d THEN key ELSE page[e].key
        /\ \A e \in Devices : page'[e].phase = page[e].phase
    BY <1>0, <1>1 DEF Page
  <1>5. /\ form'[d].step = "MENU" /\ form'[d].slot = 0
        /\ \A e \in Devices \ {d} : form'[e] = form[e]
    BY <1>0, <1>1
  <1>6. PageKeys'
    <2>1. \A e \in Devices : page'[e].key <= used'.keys
      BY <1>0, <1>3, <1>4 DEF OrderInv, PageKeys
    <2>2. \A e \in Devices : page'[e].phase \in {"loading", "join"} => page'[e].key = 0
      BY <1>1, <1>4 DEF OrderInv, PageKeys
    <2>3. \A e \in Devices \ {d} : page[e].key # key
      BY <1>0, <1>2 DEF OrderInv, PageKeys
    <2>4. \A e, g \in Devices : page'[e].key = page'[g].key /\ page'[e].key # 0 => e = g
      BY <1>4, <2>3 DEF OrderInv, PageKeys
    <2> QED
      BY <2>1, <2>2, <2>4 DEF PageKeys
  <1>7. MarksSound'
    <2>1. Marks' \subseteq Marks
      BY <1>1 DEF Marks
    <2>2. \A e \in Devices :
             \/ page'[e].key = page[e].key /\ cookie'[e].session \in {0, cookie[e].session}
             \/ page'[e].key = 0
             \/ page'[e].key \in Nat /\ page'[e].key > used.keys
      BY <1>1, <1>2, <1>4
    <2>3. \A k \in 1..MaxKeys : fate'[k] = "OPEN" =>
             /\ fate[k] = "OPEN"
             /\ \A e \in Devices : page[e].key = k => page'[e].key = k
      BY <1>1, <1>2, <1>4
    <2> QED
      BY <1>3, <2>1, <2>2, <2>3, MarksFewer DEF OrderInv
  <1>8. PostsSound' /\ OrdersSound'
    BY <1>1 DEF OrderInv, PostsSound, OrdersSound
  <1>9. FormsSound'
    <2>1. ASSUME NEW e \in Devices \ {d}, form[e].step = "POST" PROVE Waiting(e)'
      <3>1. Waiting(e)
        BY <2>1 DEF OrderInv, FormsSound
      <3> QED
        BY <1>1, <1>4, <1>5, <3>1 DEF Waiting
    <2> QED
      BY <1>2, <1>4, <1>5, <2>1 DEF OrderInv, FormsSound
  <1> QED
    BY <1>6, <1>7, <1>8, <1>9 DEF OrderInv

\* An order that leaves bears the key of its page and the session of its cookie.
LEMMA SendStep ==
    ASSUME Shapes, OrderInv, NEW d \in Devices, SendOrder(d)
    PROVE  OrderInv'
  <1>0. /\ page \in [Devices -> Page] /\ form \in [Devices -> Form] /\ post \in [Posts -> Post]
        /\ used.keys \in Nat /\ \A e \in Devices : page[e].key \in Nat
        /\ \A e \in Devices : cookie[e].session \in Nat
    BY ShapeParts
  <1>1. UNCHANGED <<orders, cookie, page, fate, used>>
    BY DEF SendOrder, serverVars
  <1>2. form[d].step = "MENU" /\ page[d].key # 0
    BY DEF SendOrder, OrderInv, FormsSound
  <1>3. PageKeys' /\ OrdersSound'
    BY <1>1 DEF OrderInv, PageKeys, OrdersSound
  <1>4. CASE form' = [form EXCEPT ![d] = NoForm] /\ UNCHANGED post
    <2>1. \A e \in Devices : form'[e] = IF e = d THEN NoForm ELSE form[e]
      BY <1>0, <1>4
    <2>2. MarksSound' /\ PostsSound'
      <3>1. Marks' = Marks
        BY <1>1, <1>4 DEF Marks
      <3> QED
        BY <1>1, <1>4, <3>1 DEF OrderInv, MarksSound, PostsSound
    <2>3. FormsSound'
      BY <1>1, <1>4, <2>1, Blanks DEF OrderInv, FormsSound, Waiting
    <2> QED
      BY <1>3, <2>2, <2>3 DEF OrderInv
  <1>5. ASSUME NEW r \in Posts, post[r].step = "NONE",
               form' = [form EXCEPT ![d].step = "POST", ![d].menu = NoMenu, ![d].slot = r],
               post' = [post EXCEPT ![r] =
                   [step |-> "SENT", device |-> d, session |-> cookie[d].session,
                    key |-> page[d].key, cart |-> form[d].cart,
                    total |-> CartTotal(form[d].cart)]]
        PROVE  OrderInv'
    <2> DEFINE m == [session |-> cookie[d].session, key |-> page[d].key, device |-> d]
    <2>1. /\ post'[r].step = "SENT" /\ post'[r].device = d /\ post'[r].key = page[d].key
          /\ post'[r].session = cookie[d].session
          /\ \A q \in Posts \ {r} : post'[q] = post[q]
      BY <1>0, <1>5
    <2>2. /\ form'[d].step = "POST" /\ form'[d].slot = r
          /\ \A e \in Devices \ {d} : form'[e] = form[e]
      BY <1>0, <1>5 DEF Form
    <2>3. PostsSound'
      BY <2>1 DEF OrderInv, PostsSound
    <2>4. FormsSound'
      <3>1. Waiting(d)'
        BY <1>1, <2>1, <2>2 DEF Waiting
      <3>2. ASSUME NEW e \in Devices \ {d}, form[e].step = "POST" PROVE Waiting(e)'
        <4>1. Waiting(e)
          BY <3>2 DEF OrderInv, FormsSound
        <4>2. post'[form[e].slot] = post[form[e].slot]
          BY <1>5, <2>1, <4>1 DEF Waiting
        <4> QED
          BY <1>1, <2>2, <4>1, <4>2 DEF Waiting
      <3> QED
        BY <1>1, <1>2, <2>2, <3>1, <3>2 DEF OrderInv, FormsSound
    <2>5. Marks' \subseteq Marks \cup {m}
      <3> SUFFICES ASSUME NEW n \in Marks' PROVE n \in Marks \cup {m}
        OBVIOUS
      <3>1. CASE \E o \in DOMAIN orders : n = Mark(orders[o])
        BY <3>1 DEF Marks
      <3>2. ASSUME NEW q \in Posts, post'[q].step \in InFlight, n = Mark(post'[q])
            PROVE  n \in Marks \cup {m}
        <4>1. CASE q = r
          BY <2>1, <3>2, <4>1 DEF Mark
        <4>2. CASE q # r
          BY <2>1, <3>2, <4>2 DEF Marks
        <4> QED
          BY <4>1, <4>2
      <3>3. \/ \E q \in Posts : post'[q].step \in InFlight /\ n = Mark(post'[q])
            \/ \E o \in DOMAIN orders' : n = Mark(orders'[o])
        BY DEF Marks
      <3> QED
        BY <1>1, <3>1, <3>2, <3>3
    <2>6. /\ m.device = d /\ m.key = page[d].key /\ m.session = cookie[d].session
          /\ m.session \in Nat
      BY <1>0
    <2> HIDE DEF m
    <2>7. \A n \in Marks : m.key = n.key =>
             SameParty(m.session, n.session) /\ SameParty(n.session, m.session)
      <3>1. \A n \in Marks : page[d].key = n.key => SameParty(n.session, cookie[d].session)
        BY DEF OrderInv, MarksSound
      <3>2. \A n \in Marks : m.key = n.key => SameParty(n.session, m.session)
        BY <2>6, <3>1
      <3> QED
        BY <3>2 DEF SameParty
    <2>8. SameParty(m.session, m.session)
      BY DEF SameParty
    <2>9. \A e \in Devices : page[e].key = m.key =>
             e = m.device /\ SameParty(m.session, cookie[e].session)
      BY <1>2, <2>6, <2>8 DEF OrderInv, PageKeys
    <2>10. m.device \in Devices /\ m.key # 0 /\ m.key <= used.keys /\ page[m.device].key = m.key
      BY <1>2, <2>6 DEF OrderInv, PageKeys
    <2>11. MarksSound'
      BY <1>1, <2>5, <2>7, <2>8, <2>9, <2>10 DEF OrderInv, MarksSound
    <2> QED
      BY <1>3, <2>3, <2>4, <2>11 DEF OrderInv
  <1> QED
    BY <1>4, <1>5 DEF SendOrder

\* The page that waited is answered, or gives up: its key goes only with an order.
LEMMA ReturnSteps ==
    ASSUME Shapes, OrderInv, NEW d \in Devices, OrderReturns(d) \/ OrderLost(d)
    PROVE  OrderInv'
  <1> DEFINE r == form[d].slot
             ok == OrderReturns(d) /\ post[r].step = "OK"
  <1>0. /\ page \in [Devices -> Page] /\ form \in [Devices -> Form] /\ post \in [Posts -> Post]
        /\ cookie \in [Devices -> [code : Nat, session : Nat]]
        /\ fate \in [1..MaxKeys -> {"OPEN", "OK", "LEFT"}]
        /\ used \in Used
    BY DEF Shapes
  <1>a. used.keys \in Nat
    BY <1>0 DEF Used
  <1>1. Waiting(d) /\ r \in Posts /\ post[r].device = d
    BY DEF OrderReturns, OrderLost, OrderInv, FormsSound, Waiting
  <1>2. /\ page'[d].key = IF ok THEN 0 ELSE page[d].key
        /\ page'[d].phase = page[d].phase
        /\ \A e \in Devices \ {d} : page'[e] = page[e]
    <2>1. CASE OrderReturns(d)
      <3> DEFINE key == IF post[r].step = "OK" THEN 0 ELSE page[d].key
      <3>1. \E cart : page' = [page EXCEPT ![d].key = key, ![d].cart = cart]
        BY <2>1 DEF OrderReturns, KeyAfter
      <3> QED
        <4> HIDE DEF key
        <4>1. PICK cart : page' = [page EXCEPT ![d].key = key, ![d].cart = cart]
          BY <3>1
        <4>2. page[d] \in Page
          BY <1>0
        <4>3. page'[d] = [page[d] EXCEPT !.key = key, !.cart = cart]
          BY <1>0, <4>1
        <4>4. page'[d].key = key /\ page'[d].phase = page[d].phase
          BY <4>2, <4>3 DEF Page
        <4>5. \A e \in Devices \ {d} : page'[e] = page[e]
          BY <1>0, <4>1
        <4> QED
          BY <2>1, <4>4, <4>5 DEF key
    <2>2. CASE OrderLost(d) /\ ~OrderReturns(d)
      <3>1. page' = [page EXCEPT ![d] = [page[d] EXCEPT !.key = page[d].key]]
        BY <2>2 DEF OrderLost, KeyAfter
      <3> QED
        BY <1>0, <2>2, <3>1 DEF Page
    <2> QED
      BY <2>1, <2>2
  <1>3. \A e \in Devices : form'[e] = IF e = d THEN NoForm ELSE form[e]
    BY <1>0 DEF OrderReturns, OrderLost
  <1>4. \A q \in Posts : post'[q] = post[q] \/ (q = r /\ post'[q] = NoPost)
    BY <1>0 DEF OrderReturns, OrderLost
  <1>5. /\ used'.keys = used.keys
        /\ UNCHANGED orders
    BY <1>0 DEF OrderReturns, OrderLost, Used, serverVars
  <1>6. fate' = IF ok THEN [fate EXCEPT ![page[d].key] = "OK"] ELSE fate
    BY DEF OrderReturns, OrderLost
  <1>7. \A e \in Devices : cookie'[e].session \in {0, cookie[e].session}
    <2>1. UNCHANGED cookie \/ cookie' = [cookie EXCEPT ![d] = NoCookie]
      BY DEF OrderReturns, OrderLost, ClearCookie
    <2>2. NoCookie.session = 0
      BY DEF NoCookie
    <2> QED
      BY <1>0, <2>1, <2>2
  <1>8. ok => \E o \in DOMAIN orders : orders[o].key = page[d].key
    BY <1>1 DEF Waiting
  <1> HIDE DEF ok
  <1>9. PageKeys'
    <2>1. ASSUME NEW e \in Devices PROVE page'[e].key <= used'.keys
      <3>1. page[e].key <= used.keys
        BY DEF OrderInv, PageKeys
      <3>2. page'[e].key = 0 \/ page'[e].key = page[e].key
        BY <1>2
      <3> QED
        BY <1>a, <1>5, <3>1, <3>2
    <2>2. \A e \in Devices : page'[e].phase \in {"loading", "join"} => page'[e].key = 0
      BY <1>2 DEF OrderInv, PageKeys
    <2>3. \A e, g \in Devices : page'[e].key = page'[g].key /\ page'[e].key # 0 => e = g
      BY <1>2 DEF OrderInv, PageKeys
    <2> QED
      BY <2>1, <2>2, <2>3 DEF PageKeys
  <1>10. MarksSound'
    <2>1. Marks' \subseteq Marks
      <3>1. \A q \in Posts : post'[q].step \in InFlight => post'[q] = post[q]
        BY <1>4, Blanks DEF InFlight
      <3> QED
        BY <1>5, <3>1 DEF Marks
    <2>2. \A e \in Devices :
             \/ page'[e].key = page[e].key /\ cookie'[e].session \in {0, cookie[e].session}
             \/ page'[e].key = 0
      BY <1>2, <1>7
    <2>3. \A k \in 1..MaxKeys : fate'[k] = "OPEN" =>
             /\ fate[k] = "OPEN"
             /\ \A e \in Devices : page[e].key = k => page'[e].key = k
      BY <1>0, <1>2, <1>6
    <2> QED
      BY <1>a, <1>5, <2>1, <2>2, <2>3, MarksFewer DEF OrderInv
  <1>11. PostsSound'
    BY <1>4, Blanks DEF OrderInv, PostsSound
  <1>12. FormsSound'
    <2>1. ASSUME NEW e \in Devices \ {d}, form[e].step = "POST" PROVE Waiting(e)'
      <3>1. Waiting(e)
        BY <2>1 DEF OrderInv, FormsSound
      <3>2. post'[form[e].slot] = post[form[e].slot]
        BY <1>1, <1>4, <2>1, <3>1 DEF Waiting
      <3> QED
        BY <1>2, <1>3, <1>5, <3>1, <3>2 DEF Waiting
    <2> QED
      BY <1>2, <1>3, <2>1, Blanks DEF OrderInv, FormsSound
  <1>13. OrdersSound'
    <2>1. ASSUME NEW k \in DOMAIN fate', fate'[k] = "OK"
          PROVE  \E o \in DOMAIN orders : orders[o].key = k
      BY <1>0, <1>6, <1>8, <2>1 DEF OrderInv, OrdersSound
    <2> QED
      BY <1>5, <2>1 DEF OrderInv, OrdersSound
  <1> QED
    BY <1>9, <1>10, <1>11, <1>12, <1>13 DEF OrderInv

\* A request goes on as it was, or is answered if somebody waits.
Moves(r, p) ==
    /\ post' = [post EXCEPT ![r] = p]
    /\ \/ /\ p.step \in InFlight
          /\ p.device = post[r].device /\ p.key = post[r].key /\ p.session = post[r].session
       \/ p.step \in Replies /\ p.device = post[r].device
       \/ p.step = "NONE" /\ form[post[r].device].slot # r

\* When a request moves, marks and forms stay sound: an order in the database has its
\* mark from its request.
LEMMA MoveStep ==
    ASSUME Shapes, OrderInv, NEW r \in Posts, NEW p, Moves(r, p), post[r].step \in InFlight,
           UNCHANGED <<cookie, page, form, fate, used>>,
           DOMAIN orders \subseteq DOMAIN orders',
           \A o \in DOMAIN orders : orders'[o] = orders[o],
           \A o \in DOMAIN orders' \ DOMAIN orders : Mark(orders'[o]) = Mark(post[r]),
           p.step = "OK" => \E o \in DOMAIN orders' : orders'[o].key = post[r].key
    PROVE  PageKeys' /\ MarksSound' /\ FormsSound'
  <1>0. post \in [Posts -> Post] /\ used.keys \in Nat
    BY DEF Shapes, Used
  <1>1. post'[r] = p /\ \A q \in Posts \ {r} : post'[q] = post[q]
    BY <1>0 DEF Moves
  <1>2. PageKeys'
    BY DEF OrderInv, PageKeys
  <1>3. MarksSound'
    <2>1. Marks' \subseteq Marks
      <3> SUFFICES ASSUME NEW m \in Marks' PROVE m \in Marks
        OBVIOUS
      <3>1. Mark(post[r]) \in Marks
        BY DEF Marks
      <3>2. ASSUME NEW o \in DOMAIN orders', m = Mark(orders'[o]) PROVE m \in Marks
        BY <3>1, <3>2 DEF Marks
      <3>3. ASSUME NEW q \in Posts, post'[q].step \in InFlight, m = Mark(post'[q])
            PROVE  m \in Marks
        <4>1. CASE q # r
          BY <1>1, <3>3, <4>1 DEF Marks
        <4>2. CASE q = r
          <5>1. Mark(p) = Mark(post[r])
            BY <1>1, <3>3, <4>2 DEF Moves, InFlight, Replies, Mark
          <5> QED
            BY <1>1, <3>1, <3>3, <4>2, <5>1
        <4> QED
          BY <4>1, <4>2
      <3>4. \/ \E q \in Posts : post'[q].step \in InFlight /\ m = Mark(post'[q])
            \/ \E o \in DOMAIN orders' : m = Mark(orders'[o])
        BY DEF Marks
      <3> QED
        BY <3>2, <3>3, <3>4
    <2> QED
      BY <1>0, <2>1, MarksFewer DEF OrderInv
  <1>4. FormsSound'
    <2>1. ASSUME NEW d \in Devices, form[d].step = "POST" PROVE Waiting(d)'
      <3>1. Waiting(d)
        BY <2>1 DEF OrderInv, FormsSound
      <3>2. CASE form[d].slot # r
        BY <1>1, <3>1, <3>2 DEF Waiting
      <3>3. CASE form[d].slot = r
        <4>1. post[r].device = d /\ post[r].key = page[d].key
          BY <3>1, <3>3 DEF Waiting
        <4>2. p.device = d /\ p.step # "NONE" /\ (p.step \in InFlight => p.key = page[d].key)
          BY <3>3, <4>1 DEF Moves, InFlight, Replies
        <4> QED
          BY <1>1, <3>3, <4>1, <4>2 DEF Waiting
      <3> QED
        BY <3>2, <3>3
    <2> QED
      BY <2>1 DEF OrderInv, FormsSound
  <1> QED
    BY <1>2, <1>3, <1>4

\* Going on and answering are moves.
LEMMA MovesOn ==
    ASSUME Shapes, NEW r \in Posts
    PROVE  /\ \A step \in InFlight : Proceed(r, step) =>
                 \E p : Moves(r, p) /\ p = [post[r] EXCEPT !.step = step]
           /\ \A answer \in Replies : Reply(r, answer) =>
                 \E p : Moves(r, p) /\ p.step \in {"NONE", answer}
  <1>0. post[r] \in Post
    BY DEF Shapes
  <1>1. ASSUME NEW step \in InFlight, Proceed(r, step)
        PROVE  Moves(r, [post[r] EXCEPT !.step = step])
    BY <1>0, <1>1 DEF Proceed, Moves, Post
  <1>2. ASSUME NEW answer \in Replies, Reply(r, answer)
        PROVE  \E p : Moves(r, p) /\ p.step \in {"NONE", answer}
    <2> DEFINE p == [NoPost EXCEPT !.step = answer, !.device = post[r].device]
    <2>1. p.step = answer /\ p.device = post[r].device
      BY DEF NoPost
    <2> HIDE DEF p
    <2>2. CASE form[post[r].device].slot = r
      <3>1. post' = [post EXCEPT ![r] = p]
        BY <1>2, <2>2 DEF Reply, p
      <3> QED
        BY <2>1, <3>1 DEF Moves
    <2>3. CASE form[post[r].device].slot # r
      <3>1. post' = [post EXCEPT ![r] = NoPost]
        BY <1>2, <2>3 DEF Reply
      <3> QED
        BY <2>3, <3>1, Blanks DEF Moves
    <2> QED
      BY <2>2, <2>3
  <1> QED
    BY <1>1, <1>2

\* The checks of a request leave orders alone, and let through what they checked.
LEMMA CheckSteps ==
    ASSUME Shapes, OrderInv, NEW r \in Posts, GateOrder(r) \/ FindOrder(r) \/ ResolveLines(r)
    PROVE  OrderInv'
  <1>0. post \in [Posts -> Post] /\ post[r] \in Post
    BY DEF Shapes
  <1>1. /\ post[r].step \in InFlight /\ post[r].step # "NONE"
        /\ post[r].device \in Devices
        /\ UNCHANGED <<orders, cookie, page, form, fate, used>>
    BY DEF GateOrder, FindOrder, ResolveLines, Pending, InFlight, serverVars, OrderInv, PostsSound
  <1>2. ASSUME NEW p, Moves(r, p),
               p.step = "OK" => \E o \in DOMAIN orders : orders[o].key = post[r].key,
               /\ p.step \in {"GATED", "NEW", "PRICED"} => p.session # 0
               /\ p.step = "PRICED" => CartTotal(p.cart) = p.total
        PROVE  OrderInv'
    <2>1. PageKeys' /\ MarksSound' /\ FormsSound'
      BY <1>1, <1>2, MoveStep
    <2>2. post'[r] = p /\ \A q \in Posts \ {r} : post'[q] = post[q]
      BY <1>0, <1>2 DEF Moves
    <2>3. p.step # "NONE" => p.device \in Devices
      BY <1>1, <1>2 DEF Moves
    <2>4. PostsSound'
      BY <1>2, <2>2, <2>3 DEF OrderInv, PostsSound
    <2>5. OrdersSound'
      BY <1>1 DEF OrderInv, OrdersSound
    <2> QED
      BY <2>1, <2>4, <2>5 DEF OrderInv
  <1>3. ASSUME NEW answer \in Replies, Reply(r, answer),
               answer = "OK" => \E o \in DOMAIN orders : orders[o].key = post[r].key
        PROVE  OrderInv'
    <2>1. PICK p : Moves(r, p) /\ p.step \in {"NONE", answer}
      BY <1>3, MovesOn
    <2> QED
      BY <1>2, <1>3, <2>1 DEF Replies
  <1>4. ASSUME NEW step \in {"GATED", "NEW"}, Proceed(r, step), post[r].session # 0
        PROVE  OrderInv'
    <2>1. PICK p : Moves(r, p) /\ p = [post[r] EXCEPT !.step = step]
      BY <1>4, MovesOn DEF InFlight
    <2>2. p.step = step /\ p.session = post[r].session
      BY <1>0, <2>1 DEF Post
    <2> QED
      BY <1>2, <1>4, <2>1, <2>2
  <1>5. CASE GateOrder(r)
    <2>1. CASE Reply(r, "JOIN_REQUIRED") \/ Reply(r, "REFUSED")
      BY <1>3, <2>1 DEF Replies
    <2>2. CASE Resolves(post[r].session) /\ Proceed(r, "GATED")
      BY <1>4, <2>2 DEF Resolves, Live
    <2> QED
      BY <1>5, <2>1, <2>2 DEF GateOrder
  <1>6. CASE FindOrder(r)
    <2>1. post[r].session # 0
      BY <1>6 DEF FindOrder, Pending, OrderInv, PostsSound
    <2>2. CASE Taken(r) /\ Reply(r, "OK")
      BY <1>3, <2>2 DEF Taken, Replies
    <2>3. CASE Proceed(r, "NEW")
      BY <1>4, <2>1, <2>3
    <2> QED
      BY <1>6, <2>2, <2>3 DEF FindOrder
  <1>7. CASE ResolveLines(r)
    <2> DEFINE wanted == {i \in Items : post[r].cart[i].quantity > 0}
               lines == [i \in Items |-> IF i \in wanted
                                         THEN [post[r].cart[i] EXCEPT !.price = menu[i].price]
                                         ELSE NoLine]
               p == [post[r] EXCEPT !.step = "PRICED", !.cart = lines]
    <2>1. post[r].session # 0
      BY <1>7, SMTT(60) DEF ResolveLines, Pending, OrderInv, PostsSound
    <2>2. \/ /\ post' = [post EXCEPT ![r].step = "PRICED", ![r].cart = lines]
             /\ CartTotal(lines) = post[r].total
          \/ Reply(r, "REFUSED")
      BY <1>7 DEF ResolveLines, ExpectedTotal
    <2> HIDE DEF lines
    <2>3. CASE /\ post' = [post EXCEPT ![r].step = "PRICED", ![r].cart = lines]
               /\ CartTotal(lines) = post[r].total
      <3>1. /\ p.step = "PRICED" /\ p.cart = lines /\ p.total = post[r].total
            /\ p.device = post[r].device /\ p.key = post[r].key /\ p.session = post[r].session
        BY <1>0 DEF Post
      <3>2. post' = [post EXCEPT ![r] = p]
        BY <1>0, <2>3
      <3> HIDE DEF p
      <3>3. Moves(r, p)
        BY <3>1, <3>2 DEF Moves, InFlight
      <3>4. CartTotal(p.cart) = p.total
        BY <2>3, <3>1
      <3> QED
        BY <1>2, <2>1, <3>1, <3>3, <3>4
    <2>4. CASE Reply(r, "REFUSED")
      BY <1>3, <2>4 DEF Replies
    <2> QED
      BY <2>2, <2>3, <2>4
  <1> QED
    BY <1>5, <1>6, <1>7

\* The insert adds an order only under a key that has none.
LEMMA InsertStep ==
    ASSUME Shapes, OrderInv, NEW r \in Posts, InsertOrder(r)
    PROVE  OrderInv'
  <1> DEFINE row == [session |-> post[r].session, key |-> post[r].key,
                     device |-> post[r].device, lines |-> post[r].cart,
                     shown |-> post[r].total, status |-> "NEW"]
             new == Len(orders) + 1
  <1>0. post \in [Posts -> Post] /\ post[r] \in Post
    BY DEF Shapes
  <1>1. /\ post[r].step = "PRICED"
        /\ post[r].device \in Devices /\ post[r].session # 0
        /\ CartTotal(post[r].cart) = post[r].total
        /\ UNCHANGED <<cookie, page, form, fate, used>>
        /\ Reply(r, "OK")
    BY DEF InsertOrder, Pending, OrderInv, PostsSound
  <1>2. \/ Taken(r) /\ UNCHANGED orders
        \/ ~Taken(r) /\ orders' = Append(orders, row)
    BY DEF InsertOrder
  <1>3. PICK p : Moves(r, p) /\ p.step \in {"NONE", "OK"}
    BY <1>1, MovesOn DEF Replies
  <1>4. PostsSound'
    <2>1. post'[r] = p /\ \A q \in Posts \ {r} : post'[q] = post[q]
      BY <1>0, <1>3 DEF Moves
    <2>2. p.step # "NONE" => p.device \in Devices
      BY <1>1, <1>3 DEF Moves, InFlight
    <2> QED
      BY <1>3, <2>1, <2>2 DEF OrderInv, PostsSound
  <1>5. CASE Taken(r) /\ UNCHANGED orders
    <2>1. \E o \in DOMAIN orders : orders[o].key = post[r].key
      BY <1>5 DEF Taken
    <2>2. PageKeys' /\ MarksSound' /\ FormsSound'
      BY <1>1, <1>3, <1>5, <2>1, MoveStep DEF InFlight
    <2>3. OrdersSound'
      BY <1>1, <1>5 DEF OrderInv, OrdersSound
    <2> QED
      BY <1>4, <2>2, <2>3 DEF OrderInv
  <1>6. CASE ~Taken(r) /\ orders' = Append(orders, row)
    <2>1. /\ row \in OrderRow /\ row.session = post[r].session /\ row.key = post[r].key
          /\ row.lines = post[r].cart /\ row.shown = post[r].total
          /\ Mark(row) = Mark(post[r])
      BY <1>0, <1>1 DEF Post, OrderRow, OrderStatus, Mark
    <2> HIDE DEF row
    <2>2. /\ DOMAIN orders' = DOMAIN orders \cup {new}
          /\ new \notin DOMAIN orders
          /\ orders'[new] = row
          /\ \A o \in DOMAIN orders : orders'[o] = orders[o]
      BY <1>6, <2>1, AppendRow DEF Shapes
    <2> HIDE DEF new
    <2>3. /\ \A o \in DOMAIN orders' \ DOMAIN orders : Mark(orders'[o]) = Mark(post[r])
          /\ \E o \in DOMAIN orders' : orders'[o].key = post[r].key
      BY <2>1, <2>2
    <2>4. PageKeys' /\ MarksSound' /\ FormsSound'
      BY <1>1, <1>3, <2>2, <2>3, MoveStep DEF InFlight
    <2>5. \A o \in DOMAIN orders : orders[o].key # post[r].key
      <3> SUFFICES ASSUME NEW o \in DOMAIN orders, orders[o].key = post[r].key PROVE FALSE
        OBVIOUS
      <3>1. orders[o].session # 0 /\ orders[o].session # post[r].session
        BY <1>6 DEF Taken, OrderInv, OrdersSound
      <3>2. Mark(orders[o]) \in Marks /\ Mark(post[r]) \in Marks
        BY <1>1, MarkShape DEF InFlight
      <3>3. SameParty(orders[o].session, post[r].session)
        BY <3>2 DEF OrderInv, MarksSound, Mark
      <3> QED
        BY <1>1, <3>1, <3>3 DEF SameParty
    <2>6. \A o, q \in DOMAIN orders' : orders'[o].key = orders'[q].key => o = q
      BY <2>1, <2>2, <2>5 DEF OrderInv, OrdersSound
    <2>7. \A k \in DOMAIN fate' : fate'[k] = "OK" => \E o \in DOMAIN orders' : orders'[o].key = k
      BY <1>1, <2>2 DEF OrderInv, OrdersSound
    <2>8. \A o \in DOMAIN orders' : CartTotal(orders'[o].lines) = orders'[o].shown
                                    /\ orders'[o].session # 0
      BY <1>1, <2>1, <2>2 DEF OrderInv, OrdersSound
    <2> QED
      BY <1>4, <2>4, <2>6, <2>7, <2>8 DEF OrderInv, OrdersSound
  <1> QED
    BY <1>2, <1>5, <1>6

-----------------------------------------------------------------------------
(* The theorems.                                                           *)

IInv == Shapes /\ CookiesSound /\ OrderInv

\* The invariant holds before anything happens.
LEMMA InvariantInit == Init => IInv
  <1> SUFFICES ASSUME Init PROVE IInv
    OBVIOUS
  <1>1. Shapes /\ CookiesSound
    BY TypeInit
  <1>2. \A d \in Devices : page[d].key = 0 /\ form[d].step = "NONE" /\ form[d].slot = 0
    BY Blanks DEF Init, Phases
  <1>3. \A r \in Posts : post[r].step = "NONE"
    BY Blanks DEF Init
  <1>4. DOMAIN orders = {} /\ used.keys = 0 /\ \A k \in DOMAIN fate : fate[k] = "OPEN"
    BY DEF Init
  <1>5. Marks = {}
    BY <1>3, <1>4 DEF Marks, InFlight
  <1>6. PageKeys /\ MarksSound
    BY <1>2, <1>4, <1>5 DEF PageKeys, MarksSound
  <1>7. PostsSound /\ FormsSound /\ OrdersSound
    BY <1>2, <1>3, <1>4 DEF PostsSound, FormsSound, OrdersSound
  <1> QED
    BY <1>1, <1>6, <1>7 DEF IInv, OrderInv

\* Every step keeps the invariant: one case for each action.
LEMMA InvariantKept == IInv /\ [Next]_vars => IInv'
  <1> SUFFICES ASSUME IInv, [Next]_vars PROVE IInv'
    OBVIOUS
  <1>0. Shapes /\ CookiesSound /\ OrderInv
    BY DEF IInv
  <1>1. CookiesSound'
    BY <1>0, CookiesKept
  <1>2. CASE \/ OpenTable \/ RotateJoinCode \/ SettleSession \/ CloseTable
             \/ \E o \in DOMAIN orders : ServeOrder(o)
             \/ \E i \in Items : SetSoldOut(i) \/ \E p \in Prices : SetPrice(i, p)
    BY <1>0, <1>1, <1>2, TypeServer, QuietSteps DEF IInv
  <1>3. ASSUME NEW d \in Devices, Load(d) \/ \E c \in 1..Len(codes) : Join(d, c)
        PROVE  IInv'
    BY <1>0, <1>1, <1>3, TypeOpens, OpeningSteps DEF IInv
  <1>4. ASSUME NEW d \in Devices,
               \/ Poll(d) \/ Connect(d) \/ Disconnect(d)
               \/ \E event \in {"CLOSED", "ORDERS", "MENU"} : HearEvent(d, event)
               \/ OrdersArrive(d) \/ MenuArrives(d) \/ AnswerLost(d)
        PROVE  IInv'
    <2>1. Shapes'
      BY <1>0, <1>4, TypeWatches
    <2>2. OrderInv'
      BY <1>0, <1>4, QuietSteps
    <2> QED
      BY <1>1, <2>1, <2>2 DEF IInv
  <1>5. ASSUME NEW d \in Devices, NEW i \in Items,
               AddLineToCart(d, i) \/ \E q \in 0..MaxQuantity : ChangeQuantity(d, i, q)
        PROVE  IInv'
    <2>1. Shapes'
      BY <1>0, <1>5, TypeCart
    <2>2. OrderInv'
      BY <1>0, <1>5, QuietSteps
    <2> QED
      BY <1>1, <2>1, <2>2 DEF IInv
  <1>6. ASSUME NEW d \in Devices,
               SubmitOrder(d) \/ SendOrder(d) \/ OrderReturns(d) \/ OrderLost(d)
        PROVE  IInv'
    <2>1. Shapes'
      BY <1>0, <1>6, TypeOrders
    <2>2. OrderInv'
      BY <1>0, <1>6, SubmitStep, SendStep, ReturnSteps
    <2> QED
      BY <1>1, <2>1, <2>2 DEF IInv
  <1>7. ASSUME NEW r \in Posts,
               GateOrder(r) \/ FindOrder(r) \/ ResolveLines(r) \/ InsertOrder(r)
        PROVE  IInv'
    <2>1. InsertOrder(r) => post[r].device \in Devices
      BY <1>0 DEF InsertOrder, Pending, OrderInv, PostsSound
    <2>2. Shapes'
      BY <1>0, <1>7, <2>1, TypePosts
    <2>3. OrderInv'
      BY <1>0, <1>7, CheckSteps, InsertStep
    <2> QED
      BY <1>1, <2>2, <2>3 DEF IInv
  <1>8. CASE UNCHANGED vars
    <2>1. Shapes'
      BY <1>0, <1>8 DEF vars, Shapes
    <2>2. OrderInv'
      BY <1>0, <1>8, QuietSteps
    <2> QED
      BY <1>1, <2>1, <2>2 DEF IInv
  <1> QED
    BY <1>2, <1>3, <1>4, <1>5, <1>6, <1>7, <1>8 DEF Next

\* Whatever is sent, lost, answered late or answered never, rows and pages keep their
\* shapes, and a device holds a cookie only for the session of a code it was told.
THEOREM TypeCorrect == Spec => []TypeOK
  <1>1. IInv => TypeOK
    <2> SUFFICES ASSUME IInv PROVE TypeOK
      OBVIOUS
    <2>1. Shapes /\ CookiesSound /\ PageKeys
      BY DEF IInv, OrderInv
    <2>2. \A s \in DOMAIN sessions : sessions[s] \in {"ACTIVE", "PAID_PENDING_SERVICE", "CLOSED"}
      BY <2>1, ElementOfSeq, LenProperties DEF Shapes, Statuses
    <2>3. ASSUME NEW d \in Devices
          PROVE  /\ page[d].phase \in {"loading", "join", "closed", "open"}
                 /\ page[d].cart \in Cart /\ form[d].cart \in Cart
                 /\ page[d].key \in 0..used.keys
                 /\ cookie[d] # NoCookie => codes[cookie[d].code] = cookie[d].session
      <3>1. page[d] \in Page /\ form[d] \in Form /\ used \in Used
        BY <2>1 DEF Shapes
      <3>2. page[d].phase \in {"loading", "join", "closed", "open"}
            /\ page[d].cart \in Cart /\ form[d].cart \in Cart
        BY <3>1 DEF Page, Form, Phases
      <3>3. page[d].key \in Nat /\ used.keys \in Nat /\ page[d].key <= used.keys
        BY <2>1, <3>1 DEF Page, Used, PageKeys
      <3>4. cookie[d] # NoCookie => codes[cookie[d].code] = cookie[d].session
        BY <2>1 DEF CookiesSound
      <3> QED
        BY <3>2, <3>3, <3>4
    <2>4. \A r \in Posts : post[r].cart \in Cart
      BY <2>1 DEF Shapes, Post
    <2>5. \A o \in DOMAIN orders : orders[o].lines \in Cart
      BY <2>1, OrderRows DEF OrderRow
    <2>6. menu \in [Items -> [price : Prices, soldOut : BOOLEAN]]
      BY <2>1 DEF Shapes, Menu
    <2> QED
      BY <2>2, <2>3, <2>4, <2>5, <2>6 DEF TypeOK
  <1> QED
    BY InvariantInit, InvariantKept, <1>1, PTL DEF Spec

\* However many phones, presses, lost answers and late servers: a key has one order;
\* of the orders a guest knows nothing of there is at most one since the cart was last
\* emptied; what was confirmed exists and costs what the page showed.
THEOREM OrderedOnceHolds == Spec => []OrderedOnce
  <1>1. IInv => OrderedOnce
    <2> SUFFICES ASSUME IInv PROVE OrderedOnce
      OBVIOUS
    <2>1. Shapes /\ PageKeys /\ MarksSound /\ OrdersSound
      BY DEF IInv, OrderInv
    <2>2. ASSUME NEW d \in Devices
          PROVE  Cardinality({o \in DOMAIN orders :
                                orders[o].device = d /\ fate[orders[o].key] = "OPEN"}) <= 1
      <3> DEFINE open == {o \in DOMAIN orders :
                             orders[o].device = d /\ fate[orders[o].key] = "OPEN"}
      <3>1. ASSUME NEW o \in open PROVE page[d].key = orders[o].key
        <4>1. Mark(orders[o]) \in Marks
          BY <2>1, MarkShape
        <4>2. /\ Mark(orders[o]).key = orders[o].key
              /\ Mark(orders[o]).device = d
          BY DEF Mark
        <4> QED
          BY <2>1, <4>1, <4>2 DEF MarksSound
      <3>2. \A o, q \in open : o = q
        BY <2>1, <3>1 DEF OrdersSound
      <3>3. CASE open = {}
        BY <3>3, FS_EmptySet
      <3>4. ASSUME NEW o \in open PROVE Cardinality(open) <= 1
        <4>1. open = {o}
          BY <3>2
        <4>2. Cardinality({o}) = 1
          BY FS_Singleton
        <4> QED
          BY <4>1, <4>2
      <3> QED
        BY <3>3, <3>4
    <2> QED
      BY <2>1, <2>2 DEF OrderedOnce, OrdersSound
  <1> QED
    BY InvariantInit, InvariantKept, <1>1, PTL DEF Spec
=============================================================================
