------------------------------ MODULE MC_Menu -------------------------------
(***************************************************************************)
(* A small menu for TLC: ramen with a choice of toppings, and a plain egg. *)
(***************************************************************************)
EXTENDS MenuProps, TLC

CONSTANTS ramen, egg, toppings, noodles, addEgg, addRice, thick, meals, sides, eggs, rice

MCItemOf == (toppings :> ramen) @@ (noodles :> ramen)
MCGroupOf == (addEgg :> toppings) @@ (addRice :> toppings) @@ (thick :> noodles)
MCRank == (ramen :> 1) @@ (egg :> 2) @@ (toppings :> 1) @@ (noodles :> 2)
          @@ (addEgg :> 1) @@ (addRice :> 2) @@ (thick :> 3)
MCRanges == {SelectRange(0, 1), SelectRange(1, 1), SelectRange(2, NoLimit)}

\* How far the menu, and the stock with what is linked and sold out, are from the
\* first ones.
RowsChanged(S) == Cardinality({x \in S : status[x] # IF x \in Opening THEN "LIVE" ELSE "ABSENT"})
MenuChanges ==
      RowsChanged(Rows \ Stock)
    + Cardinality({i \in Items : item[i].category # meals})
    + Cardinality({i \in Items : item[i].channel # "BOTH"})
    + Cardinality({i \in Items : ~item[i].cooking}) + Cardinality({i \in Items : ~item[i].kitchen})
    + Cardinality({g \in Groups : range[g] # SelectRange(0, NoLimit)})
    + Cardinality({x \in DOMAIN active : active[x] # (status[x] = "LIVE")})
    + Cardinality({x \in DOMAIN position : position[x] # 0})
StockChanges ==
      RowsChanged(Stock)
    + Cardinality({e \in Entities : ownSoldOut[e]}) + Cardinality({e \in Entities : link[e] # NoStock})
    + Cardinality({s \in Stock : stockSoldOut[s]})

\* Either little has changed, the less the more requests are under way, ...
Little == MenuChanges + StockChanges + Cardinality({r \in Reqs : req[r].op # "NONE"}) <= 3
\* ... or whatever of the stock, with the menu at rest.
OnlyStock == MenuChanges = 0 /\ \A r \in Reqs : req[r].op \in {"NONE", "TOGGLE"}
Small == Little \/ OnlyStock

Alike == Permutations(Reqs)
=============================================================================
