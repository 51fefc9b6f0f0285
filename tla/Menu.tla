-------------------------------- MODULE Menu --------------------------------
(***************************************************************************)
(* The menu and the stock behind it: the administrator's edits             *)
(* (menuCatalog.ts, inventory.ts and their routes), the screens they are   *)
(* made from, which may be out of date, and what guests and cashiers are   *)
(* then offered, may choose and may order.                                 *)
(*                                                                         *)
(* A transaction is one step.  A handler that reads and then writes        *)
(* outside a transaction, and a screen that acts on what it showed, are    *)
(* requests in req: `on` is what they are about, `what` is what they read. *)
(* Names, descriptions, prices and pictures are left out.                  *)
(***************************************************************************)
EXTENDS Naturals, FiniteSets, Sequences, Functions

CONSTANTS
    Categories, Items, Groups, OptionChoices, Stock, NoStock,
    ItemOf,      \* the item an option group belongs to
    GroupOf,     \* the group a choice belongs to
    Rank,        \* ids, which break ties of the display order
    Opening,     \* what exists at first
    Ranges,      \* the selection ranges an administrator may enter
    Reqs

Entities == Items \cup OptionChoices          \* what can be sold out
Rows == Categories \cup Items \cup Groups \cup OptionChoices \cup Stock
Listed == Items \cup Groups \cup OptionChoices  \* what has a place in a list

\* maxSelect = null: no limit.
NoLimit == 0
SelectRange(min, max) == [min |-> min, max |-> max]

\* Each kind of row is a table of its own, with unique ids; what exists at first
\* refers to what exists.
ASSUME MenuAssumption ==
    /\ Categories \cap Items = {} /\ Groups \cap (Categories \cup Items) = {}
    /\ OptionChoices \cap (Categories \cup Items \cup Groups) = {}
    /\ Stock \cap (Categories \cup Listed) = {}
    /\ IsFiniteSet(Listed)
    /\ NoStock \notin Stock /\ Opening \subseteq Rows
    /\ ItemOf \in [Groups -> Items] /\ GroupOf \in [OptionChoices -> Groups]
    /\ \A c \in Opening \cap OptionChoices : GroupOf[c] \in Opening
    /\ Rank \in [Listed -> Nat]
    /\ \A S \in {Items, Groups, OptionChoices} : \A x, y \in S : Rank[x] = Rank[y] => x = y
    /\ Ranges \subseteq [min : Nat, max : Nat]

VARIABLES
    status,         \* ABSENT, LIVE or DELETED, of every row
    item,           \* the category, channel and kitchen flags of an item
    range,          \* the selection range of a group
    active,         \* isActive of items, groups and choices
    ownSoldOut,     \* isSoldOut of items and choices
    link,           \* the stock item they are linked to
    stockSoldOut,   \* isSoldOut of stock items
    position,       \* sortOrder
    req

vars == <<status, item, range, active, ownSoldOut, link, stockSoldOut, position, req>>
stockVars == <<ownSoldOut, link, stockSoldOut>>

Idle == [op |-> "NONE", on |-> NoStock, what |-> << >>]
Begin(r, op, on, what) ==
    /\ req[r].op = "NONE"
    /\ req' = [req EXCEPT ![r] = [op |-> op, on |-> on, what |-> what]]
Done(r) == req' = [req EXCEPT ![r] = Idle]

Live(S) == {x \in S : status[x] = "LIVE"}
Comes(x) == status[x] = "ABSENT" /\ status' = [status EXCEPT ![x] = "LIVE"]
Goes(S) == status' = [x \in Rows |-> IF x \in S THEN "DELETED" ELSE status[x]]

-----------------------------------------------------------------------------
(* Selection ranges (optionRules.ts)                                       *)

Required(g) == range[g].min > 0
MultiSelect(g) == range[g].max = NoLimit \/ range[g].max > 1

ValidRange(r) == r.max # NoLimit => r.min <= r.max

\* checkSelectedCount finds nothing wrong with n choices.
CountAccepted(g, n) ==
    /\ range[g].max # NoLimit => n <= range[g].max
    /\ n >= range[g].min

-----------------------------------------------------------------------------
(* What is sold out, and what is offered                                   *)

Linked(e) == link[e] # NoStock /\ status[link[e]] = "LIVE"
SoldOut(e) == IF Linked(e) THEN stockSoldOut[link[e]] ELSE ownSoldOut[e]

ChannelAllows(i, target) == item[i].channel \in {"BOTH", target}

\* LIVE_OPTION_INCLUDE
LiveGroups(i) == {g \in Live(Groups) : ItemOf[g] = i /\ active[g]}
LiveChoices(g) == {c \in Live(OptionChoices) : GroupOf[c] = g /\ active[c]}

\* listSellableMenu
OnMenu(target, i) ==
    /\ status[item[i].category] = "LIVE" /\ status[i] = "LIVE"
    /\ active[i] /\ ChannelAllows(i, target)

\* The option sheet: what the buttons of a group let one choose.
Selectable(g) == {c \in LiveChoices(g) : ~SoldOut(c)}
MayToggle(g, n) ==
    IF MultiSelect(g) THEN range[g].max # NoLimit => n <= range[g].max ELSE n <= 1
CanConfirm(i, selection) ==
    \A g \in LiveGroups(i) : Required(g) =>
        /\ Cardinality(Selectable(g)) >= range[g].min
        /\ Cardinality({c \in selection : GroupOf[c] = g}) >= range[g].min

\* A guest or a cashier can put the item in the cart with this selection.
CanChoose(target, i, selection) ==
    /\ OnMenu(target, i) /\ ~SoldOut(i)
    /\ selection \subseteq UNION {Selectable(g) : g \in LiveGroups(i)}
    /\ \A g \in LiveGroups(i) : MayToggle(g, Cardinality({c \in selection : GroupOf[c] = g}))
    /\ CanConfirm(i, selection)

\* validateItemOptions accepts the selection.
OptionsAccepted(i, selection) ==
    /\ \A c \in selection : /\ active[c] /\ status[c] = "LIVE" /\ GroupOf[c] \in LiveGroups(i)
                            /\ ~SoldOut(c)
    /\ \A g \in LiveGroups(i) : CountAccepted(g, Cardinality({c \in selection : GroupOf[c] = g}))

\* resolveOrderLines accepts the line.
LineAccepted(target, i, selection) ==
    /\ active[i] /\ status[i] = "LIVE" /\ ChannelAllows(i, target) /\ ~SoldOut(i)
    /\ OptionsAccepted(i, selection)

\* Fault: the warning counts choices that are sold out.
BlockedUnlessEmpty(i) ==
    {g \in Live(Groups) : ItemOf[g] = i /\ active[g] /\ Required(g)
        /\ Cardinality({c \in Live(OptionChoices) : GroupOf[c] = g /\ active[c]}) < range[g].min}

\* The groups for which the administrator is warned that the item cannot be sold.
BlockedRequiredGroups(i) ==
    {g \in Live(Groups) : ItemOf[g] = i /\ active[g] /\ Required(g)
        /\ Cardinality({c \in Live(OptionChoices) : GroupOf[c] = g /\ active[c] /\ ~SoldOut(c)})
              < range[g].min}

-----------------------------------------------------------------------------
(* Categories and items                                                    *)

CreateCategory(c) ==
    /\ Comes(c)
    /\ UNCHANGED <<item, range, active, stockVars, position, req>>

IsEmpty(c) == \A i \in Live(Items) : item[i].category # c

DeleteCategory(c) ==
    /\ c \in Live(Categories) /\ IsEmpty(c) /\ Goes({c})
    /\ UNCHANGED <<item, range, active, stockVars, position, req>>

\* POST /menu/items looks at the category, and inserts later.
CreateItemChecks(r, i, c) ==
    /\ status[i] = "ABSENT" /\ c \in Live(Categories)
    /\ Begin(r, "CREATE_ITEM", i, c)
    /\ UNCHANGED <<status, item, range, active, stockVars, position>>
CreateItemWrites(r, channel) ==
    /\ req[r].op = "CREATE_ITEM" /\ Comes(req[r].on)
    /\ item' = [item EXCEPT ![req[r].on] =
                   [category |-> req[r].what, channel |-> channel, cooking |-> TRUE, kitchen |-> TRUE]]
    /\ active' = [active EXCEPT ![req[r].on] = TRUE]
    /\ Done(r)
    /\ UNCHANGED <<range, stockVars, position>>

\* The editor keeps the values the item had when it was opened, and saves them all.
OpenEditor(r, i) ==
    /\ i \in Live(Items)
    /\ Begin(r, "EDIT", i, [category |-> item[i].category, channel |-> item[i].channel,
                            cooking |-> item[i].cooking, kitchen |-> item[i].kitchen,
                            shown |-> active[i], position |-> position[i]])
    /\ UNCHANGED <<status, item, range, active, stockVars, position>>

\* What one change in the editor makes of its form; a cooked item is shown in the
\* kitchen.  The number that can be typed in for the item's place is left alone.
Edits(form) ==
    {[form EXCEPT !.category = c] : c \in {d \in Categories : status[d] # "ABSENT"}}
    \cup {[form EXCEPT !.channel = ch] : ch \in {"TABLE", "FRONT", "BOTH"}}
    \cup {[form EXCEPT !.cooking = b, !.kitchen = b \/ form.kitchen] : b \in BOOLEAN}
    \cup {[form EXCEPT !.kitchen = b \/ form.cooking] : b \in BOOLEAN}
    \cup {[form EXCEPT !.shown = ~form.shown]}

\* Fault: the category an item is moved to is not looked at again.
MayMoveAnywhere(i, form) == TRUE
MayMove(i, form) == form.category = item[i].category \/ status[form.category] = "LIVE"

UpdateMenuItem(r) ==
    /\ req[r].op = "EDIT"
    /\ LET i == req[r].on IN
       /\ i \in Live(Items)
       /\ \E form \in Edits(req[r].what) :
             /\ MayMove(i, form)
             /\ form.cooking => form.kitchen
             /\ item' = [item EXCEPT ![i] = [category |-> form.category, channel |-> form.channel,
                                             cooking |-> form.cooking, kitchen |-> form.kitchen]]
             /\ active' = [active EXCEPT ![i] = form.shown]
             /\ position' = [position EXCEPT ![i] = form.position]
    /\ Done(r)
    /\ UNCHANGED <<status, range, stockVars>>

\* The sold-out button of the menu page and of PATCH /menu-items/:id/sold-out
\* writes the item's own flag, whatever it is linked to.
PatchSoldOut(i, soldOut) ==
    /\ i \in Live(Items)
    /\ ownSoldOut' = [ownSoldOut EXCEPT ![i] = soldOut]
    /\ UNCHANGED <<status, item, range, active, link, stockSoldOut, position, req>>

DeleteMenuItem(i) ==
    /\ i \in Live(Items) /\ Goes({i})
    /\ active' = [active EXCEPT ![i] = FALSE]
    /\ UNCHANGED <<item, range, stockVars, position, req>>

-----------------------------------------------------------------------------
(* Option groups and choices                                               *)

\* POST /menu/items/:id/option-groups looks at the item, and inserts later.
CreateGroupChecks(r, g, given) ==
    /\ status[g] = "ABSENT" /\ ItemOf[g] \in Live(Items) /\ ValidRange(given)
    /\ Begin(r, "CREATE_GROUP", g, given)
    /\ UNCHANGED <<status, item, range, active, stockVars, position>>
CreateGroupWrites(r) ==
    /\ req[r].op = "CREATE_GROUP" /\ Comes(req[r].on)
    /\ range' = [range EXCEPT ![req[r].on] = req[r].what]
    /\ active' = [active EXCEPT ![req[r].on] = TRUE]
    /\ Done(r)
    /\ UNCHANGED <<item, stockVars, position>>

\* A PATCH of the group editor sets the minimum, the maximum, both, or isActive.
GroupPatches ==
    {[min |-> r.min] : r \in Ranges} \cup {[max |-> r.max] : r \in Ranges}
    \cup Ranges \cup {[active |-> b] : b \in BOOLEAN}

\* What is not named in it stays.
Patched(g, patch) ==
    LET row == [min |-> range[g].min, max |-> range[g].max, active |-> active[g]]
    IN  [f \in DOMAIN row |-> IF f \in DOMAIN patch THEN patch[f] ELSE row[f]]

\* updateOptionGroup checks the range as it will be and the choices there are,
\* and writes only what the PATCH names.
PatchGroupChecks(r, g, patch) ==
    /\ g \in Live(Groups)
    /\ LET merged == Patched(g, patch) IN
       ValidRange(merged) /\ merged.min <= Cardinality(LiveChoices(g))
    /\ Begin(r, "PATCH_GROUP", g, patch)
    /\ UNCHANGED <<status, item, range, active, stockVars, position>>
PatchGroupWrites(r) ==
    /\ req[r].op = "PATCH_GROUP"
    /\ LET g == req[r].on
           after == Patched(g, req[r].what) IN
       /\ range' = [range EXCEPT ![g] = SelectRange(after.min, after.max)]
       /\ active' = [active EXCEPT ![g] = after.active]
    /\ Done(r)
    /\ UNCHANGED <<status, item, stockVars, position>>

DeleteOptionGroup(g) ==
    /\ g \in Live(Groups)
    /\ Goes({g} \cup {c \in Live(OptionChoices) : GroupOf[c] = g})
    /\ active' = [active EXCEPT ![g] = FALSE]
    /\ UNCHANGED <<item, range, stockVars, position, req>>

\* POST /menu/option-groups/:id/choices looks at the group, and inserts later.
AddChoiceChecks(r, c) ==
    /\ status[c] = "ABSENT" /\ GroupOf[c] \in Live(Groups)
    /\ Begin(r, "ADD_CHOICE", c, << >>)
    /\ UNCHANGED <<status, item, range, active, stockVars, position>>
AddChoiceWrites(r) ==
    /\ req[r].op = "ADD_CHOICE" /\ Comes(req[r].on)
    /\ active' = [active EXCEPT ![req[r].on] = TRUE]
    /\ Done(r)
    /\ UNCHANGED <<item, range, stockVars, position>>

UpdateOptionChoice(c, on) ==
    /\ c \in Live(OptionChoices)
    /\ active' = [active EXCEPT ![c] = on]
    /\ UNCHANGED <<status, item, range, stockVars, position, req>>

DeleteOptionChoice(c) ==
    /\ c \in Live(OptionChoices) /\ Goes({c})
    /\ active' = [active EXCEPT ![c] = FALSE]
    /\ UNCHANGED <<item, range, stockVars, position, req>>

-----------------------------------------------------------------------------
(* Stock                                                                   *)

CreateInventoryItem(s) ==
    /\ Comes(s)
    /\ UNCHANGED <<item, range, active, stockVars, position, req>>

SetInventoryLink(e, s) ==
    /\ e \in Live(Entities) /\ s \in Live(Stock)
    /\ link' = [link EXCEPT ![e] = s]
    /\ UNCHANGED <<status, item, range, active, ownSoldOut, stockSoldOut, position, req>>

\* Fault: an unlinked item falls back on the flag it had before it was linked.
NotInherited(e) == ownSoldOut[e]
\* What an unlinked item is left with.
Inherited(e) == SoldOut(e)

RemoveInventoryLink(e) ==
    /\ e \in Live(Entities)
    /\ ownSoldOut' = [ownSoldOut EXCEPT ![e] = Inherited(e)]
    /\ link' = [link EXCEPT ![e] = NoStock]
    /\ UNCHANGED <<status, item, range, active, stockSoldOut, position, req>>

\* Those a stock item is shared by.
Users(s) == {e \in Live(Entities) : link[e] = s}

DeleteInventoryItem(s) ==
    /\ s \in Live(Stock) /\ Users(s) = {} /\ Goes({s})
    /\ UNCHANGED <<item, range, active, stockVars, position, req>>

\* applySoldOutInTx: the stock of those that are linked, the own flag of the others.
ApplySoldOut(targets, soldOut) ==
    /\ targets \subseteq Live(Entities)
    /\ stockSoldOut' = [s \in Stock |-> IF \E e \in targets : Linked(e) /\ link[e] = s
                                       THEN soldOut ELSE stockSoldOut[s]]
    /\ ownSoldOut' = [e \in Entities |-> IF e \in targets /\ ~Linked(e)
                                        THEN soldOut ELSE ownSoldOut[e]]

SetSoldOut(targets, soldOut) ==
    /\ ApplySoldOut(targets, soldOut)
    /\ UNCHANGED <<status, item, range, active, link, position, req>>

\* computeSoldOutImpact: what goes with the target, as things are linked now.
Impact(e) == IF Linked(e) THEN Users(link[e]) ELSE {e} \cap Items

\* The stock page toggles a stock item through one of the users it showed.
ShowStock(r, s) ==
    /\ s \in Live(Stock)
    /\ \E e \in Users(s) :
          /\ e \in OptionChoices => Users(s) \cap Items = {}
          /\ Begin(r, "TOGGLE", s, <<e, ~stockSoldOut[s]>>)
    /\ UNCHANGED <<status, item, range, active, stockVars, position>>
ConfirmToggle(r) ==
    /\ req[r].op = "TOGGLE"
    /\ ApplySoldOut({req[r].what[1]}, req[r].what[2])
    /\ Done(r)
    /\ UNCHANGED <<status, item, range, active, link, position>>

-----------------------------------------------------------------------------
(* Display order                                                           *)

Children(p) ==
    IF p \in Categories THEN {i \in Live(Items) : item[i].category = p}
    ELSE IF p \in Items THEN {g \in Live(Groups) : ItemOf[g] = p}
    ELSE {c \in Live(OptionChoices) : GroupOf[c] = p}

\* ORDER BY sortOrder, id
Before(x, y) == position[x] < position[y] \/ (position[x] = position[y] /\ Rank[x] < Rank[y])
Shown(p) ==
    CHOOSE list \in [1..Cardinality(Children(p)) -> Children(p)] :
        \A j, k \in DOMAIN list : j < k => Before(list[j], list[k])

\* The buttons move an entry up or down by one.
Moved(list) ==
    {[list EXCEPT ![k] = list[k + 1], ![k + 1] = list[k]] : k \in 1..(Len(list) - 1)}

ShowList(r, p) ==
    /\ Cardinality(Children(p)) > 1
    /\ Begin(r, "REORDER", p, Shown(p))
    /\ UNCHANGED <<status, item, range, active, stockVars, position>>

\* Fault: an entry that is no longer there does not make the list outdated.
NothingMissing(list, p) == Children(p) \subseteq Range(list)
\* The list sent is the current one, in whatever order.
SameList(list, p) == Range(list) = Children(p)

ApplyOrder(r) ==
    /\ req[r].op = "REORDER" /\ SameList(req[r].what, req[r].on)
    /\ \E list \in Moved(req[r].what) :
          position' = [x \in DOMAIN position |-> IF \E k \in DOMAIN list : list[k] = x
                                                THEN (CHOOSE k \in DOMAIN list : list[k] = x) - 1
                                                ELSE position[x]]
    /\ Done(r)
    /\ UNCHANGED <<status, item, range, active, stockVars>>

\* What is refused (404, 409), and a screen that is left.
Abandon(r) ==
    /\ req[r].op \in {"EDIT", "TOGGLE", "REORDER"} /\ Done(r)
    /\ UNCHANGED <<status, item, range, active, stockVars, position>>

-----------------------------------------------------------------------------

Init ==
    /\ status = [x \in Rows |-> IF x \in Opening THEN "LIVE" ELSE "ABSENT"]
    /\ \E home \in Opening \cap Categories :
          item = [i \in Items |-> [category |-> home, channel |-> "BOTH",
                                   cooking |-> TRUE, kitchen |-> TRUE]]
    /\ range = [g \in Groups |-> SelectRange(0, NoLimit)]
    /\ active = [x \in Listed |-> x \in Opening]
    /\ ownSoldOut = [e \in Entities |-> FALSE]
    /\ link = [e \in Entities |-> NoStock]
    /\ stockSoldOut = [s \in Stock |-> FALSE]
    /\ position = [x \in Listed |-> 0]
    /\ req = [r \in Reqs |-> Idle]

\* The requests about option groups and their choices.
OptionGroupRequests ==
    \/ \E g \in Groups : DeleteOptionGroup(g)
    \/ \E c \in OptionChoices : DeleteOptionChoice(c) \/ \E b \in BOOLEAN : UpdateOptionChoice(c, b)
    \/ \E r \in Reqs :
          \/ \E g \in Groups : \/ \E given \in Ranges : CreateGroupChecks(r, g, given)
                               \/ \E patch \in GroupPatches : PatchGroupChecks(r, g, patch)
          \/ CreateGroupWrites(r) \/ PatchGroupWrites(r)
          \/ \E c \in OptionChoices : AddChoiceChecks(r, c)
          \/ AddChoiceWrites(r)

\* A category's items, an item's groups and a group's choices are put in order.
Reordering ==
    \E r \in Reqs :
        \/ \E p \in Categories \cup Items \cup Groups : ShowList(r, p)
        \/ ApplyOrder(r)

Next ==
    \/ \E c \in Categories : CreateCategory(c) \/ DeleteCategory(c)
    \/ \E i \in Items : DeleteMenuItem(i) \/ \E b \in BOOLEAN : PatchSoldOut(i, b)
    \/ OptionGroupRequests
    \/ Reordering
    \/ \E s \in Stock : CreateInventoryItem(s) \/ DeleteInventoryItem(s)
    \/ \E e \in Entities : RemoveInventoryLink(e) \/ \E s \in Stock : SetInventoryLink(e, s)
    \/ \E targets \in {{e, f} : e, f \in Entities}, b \in BOOLEAN : SetSoldOut(targets, b)
    \/ \E r \in Reqs :
          \/ \E i \in Items : OpenEditor(r, i) \/ \E c \in Categories : CreateItemChecks(r, i, c)
          \/ \E ch \in {"TABLE", "FRONT", "BOTH"} : CreateItemWrites(r, ch)
          \/ UpdateMenuItem(r)
          \/ \E s \in Stock : ShowStock(r, s)
          \/ ConfirmToggle(r)
          \/ Abandon(r)

Spec == Init /\ [][Next]_vars
=============================================================================
