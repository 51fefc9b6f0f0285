------------------------------ MODULE MenuProps -----------------------------
(***************************************************************************)
(* What the menu and the stock promise.                                    *)
(***************************************************************************)
EXTENDS Menu

Form == [category : Categories, channel : {"TABLE", "FRONT", "BOTH"},
         cooking : BOOLEAN, kitchen : BOOLEAN]

\* Rows have the shape of the schema; what is cooked is shown in the kitchen; what
\* is on sale is linked to no deleted stock item; and no item and no choice is left
\* in a deleted category or group, unless its creation and that deletion crossed.
TypeOK ==
    /\ status \in [Rows -> {"ABSENT", "LIVE", "DELETED"}]
    /\ item \in [Items -> Form]
    /\ active \in [Listed -> BOOLEAN]
    /\ ownSoldOut \in [Entities -> BOOLEAN] /\ stockSoldOut \in [Stock -> BOOLEAN]
    /\ \A i \in Items : item[i].cooking => item[i].kitchen
    /\ \A e \in Live(Entities) : link[e] # NoStock => status[link[e]] = "LIVE"
    /\ \A i \in Live(Items) \cap Opening : status[item[i].category] = "LIVE"
    /\ \A c \in Live(OptionChoices) \cap Opening : status[GroupOf[c]] = "LIVE"

\* The page, the server and the administrator's warning agree, three programs on
\* one rule: a guest or a cashier can choose exactly what an order is accepted for,
\* and an item is warned about exactly when no selection of its options can be
\* ordered (menuCatalog.ts:53-57, 155-167).  Aside: an item stranded in a deleted
\* category is shown to nobody, and of a range whose minimum is above its maximum,
\* which two PATCHes that cross can leave behind, nobody is warned.
ScreensAgree ==
    \A i \in Live(Items) :
        LET options == {c \in OptionChoices : status[c] # "ABSENT" /\ ItemOf[GroupOf[c]] = i} IN
        /\ status[item[i].category] = "LIVE" =>
              \A target \in {"TABLE", "FRONT"} : \A selection \in SUBSET options :
                  CanChoose(target, i, selection) <=> LineAccepted(target, i, selection)
        /\ (\A g \in LiveGroups(i) : ValidRange(range[g])) =>
              (BlockedRequiredGroups(i) = {} <=>
                  \E selection \in SUBSET options : OptionsAccepted(i, selection))

\* A button is pressed, or its confirmation, and the request is about t.
Pressed(t, soldOut) ==
    \/ t \in Items /\ PatchSoldOut(t, soldOut)
    \/ \E u \in Entities : SetSoldOut({t, u}, soldOut)
    \/ \E r \in Reqs : /\ req[r].op = "TOGGLE" /\ req[r].what = <<t, soldOut>>
                       /\ ConfirmToggle(r)

\* What is on sale never becomes sold out, or available again, by itself: only by
\* being linked to a stock item, or by a request for it, or for something that is
\* linked to its stock item when the request arrives, and then as the request says.
\* Unlinking, deleting and editing disturb nothing, and nor does selling out what
\* shares nothing with it (inventory.ts:35-39, 303-304, 339-340).  What a screen
\* had shown to go with the target is not what counts: of a stale stock page
\* (InventoryPanel.tsx:70) the entry it sends may be linked elsewhere by now.
NothingStirs ==
    [][\A e \in Live(Entities) :
          SoldOut(e)' # SoldOut(e) /\ status'[e] = "LIVE" =>
             \/ link'[e] # link[e] /\ link'[e] # NoStock
             \/ \E t \in Entities : e \in {t} \cup Impact(t) /\ Pressed(t, SoldOut(e)')]_vars

\* A new order is saved as the administrator saw it, one entry moved, and no other
\* list changes with it; a screen whose list has gained or lost an entry is refused
\* (menuCatalog.ts:392-395).  It speaks of reorderings: an editor that was open
\* meanwhile may save the old place of its item over the new order later.
ReorderedAsSeen ==
    [][\A r \in Reqs :
          position' # position /\ req[r].op = "REORDER" /\ req'[r].op = "NONE" =>
             \A p \in Categories \cup Items \cup Groups :
                IF p = req[r].on THEN Shown(p)' \in Moved(req[r].what)
                ELSE Shown(p)' = Shown(p)]_vars
=============================================================================
