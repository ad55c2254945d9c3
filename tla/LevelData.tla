------------------------------- MODULE LevelData -------------------------------
(***************************************************************************)
(* Orderbook::LevelData and UpdateLevelData: the per-price totals kept in  *)
(* data_, an unordered_map from Price to [quantity, orderCount].  One      *)
(* entry serves both sides of the book: its key is the price alone.  Both  *)
(* fields are unsigned and wrap modulo QMod.                               *)
(***************************************************************************)
EXTENDS OrderTypes, Functions

\* LevelData::Action: what happened to an order of the level.
Action == {"Add", "Remove", "Match"}

LevelTotals == [quantity : Quantity, orderCount : Quantity]

\* A map of the code, with keys in S and values in T.
IsMap(f, S, T) == DOMAIN f \subseteq S /\ f \in [DOMAIN f -> T]

Put(f, key, value) ==
    [k \in DOMAIN f \cup {key} |-> IF k = key THEN value ELSE f[k]]

Without(f, key) == Restrict(f, DOMAIN f \ {key})

\* data[price], which the map's operator[] creates as zeros when absent.
TotalsAt(data, price) ==
    IF price \in DOMAIN data THEN data[price]
                             ELSE [quantity |-> 0, orderCount |-> 0]

\* Mutant of UpdateLevelData: signed totals, that do not wrap.
UpdateLevelDataSigned(data, price, quantity, action) ==
    LET old     == TotalsAt(data, price)
        signed  == IF action = "Add" THEN quantity ELSE -quantity
        counted == CASE action = "Add"    -> 1
                     [] action = "Remove" -> -1
                     [] action = "Match"  -> 0
        new     == [quantity   |-> old.quantity + signed,
                    orderCount |-> old.orderCount + counted]
    IN  IF new.orderCount = 0 THEN Without(data, price)
                              ELSE Put(data, price, new)

UpdateLevelData(data, price, quantity, action) ==
    LET old     == TotalsAt(data, price)
        signed  == IF action = "Add" THEN quantity ELSE -quantity
        counted == CASE action = "Add"    -> 1
                     [] action = "Remove" -> -1
                     [] action = "Match"  -> 0
        new     == [quantity   |-> (old.quantity + signed) % QMod,
                    orderCount |-> (old.orderCount + counted) % QMod]
    IN  IF new.orderCount = 0 THEN Without(data, price)
                              ELSE Put(data, price, new)
==============================================================================
