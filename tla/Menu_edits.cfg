SPECIFICATION Spec
CONSTANTS
    ramen = ramen
    egg = egg
    toppings = toppings
    noodles = noodles
    addEgg = addEgg
    addRice = addRice
    thick = thick
    meals = meals
    sides = sides
    eggs = eggs
    rice = rice
    Categories = {meals, sides}
    Items = {ramen, egg}
    Groups = {toppings, noodles}
    OptionChoices = {addEgg, addRice, thick}
    Stock = {eggs, rice}
    NoStock = NoStock
    ItemOf <- MCItemOf
    GroupOf <- MCGroupOf
    Rank <- MCRank
    Opening = {meals, ramen, toppings, addEgg, addRice, eggs}
    Ranges <- MCRanges
    Reqs = {r1, r2}
CONSTRAINT Small
SYMMETRY Alike
INVARIANTS TypeOK ScreensAgree
PROPERTIES NothingStirs ReorderedAsSeen
CHECK_DEADLOCK FALSE
