------------------------------ MODULE OrderTypes ------------------------------
(***************************************************************************)
(* The values the order book is made of: the enumerations of Side.h and    *)
(* OrderType.h, the numeric types of Usings.h, and the classes Order,      *)
(* Trade and TradeInfo.                                                    *)
(*                                                                         *)
(* Quantity is std::uint32_t in the code.  Here it has QMod values, so     *)
(* that small instances can make arithmetic on it wrap.  A price is always *)
(* engaged: the engine gives a Market order a price before it uses one,    *)
(* and the other types are submitted with one.                             *)
(***************************************************************************)
EXTENDS Integers

CONSTANTS
    OrderId,    \* the identifiers clients give to orders
    Price,      \* the prices orders are submitted at
    QMod        \* the number of values of Quantity: 2^32 in the code

ASSUME PriceAssumption == Price \subseteq Int
ASSUME QModAssumption == QMod \in Nat \ {0, 1}

Quantity == 0 .. QMod - 1

Side == {"Buy", "Sell"}

Opposite(side) == IF side = "Buy" THEN "Sell" ELSE "Buy"

OrderType ==
    {"GoodTillCancel", "FillAndKill", "FillOrKill", "Market", "GoodForDay"}

Order ==
    [side : Side, price : Price, remaining : Quantity,
     type : OrderType, initial : Quantity]

NewOrder(type, side, price, quantity) ==
    [side |-> side, price |-> price, remaining |-> quantity,
     type |-> type, initial |-> quantity]

IsFilled(order) == order.remaining = 0

\* Mutant of Fill: the quantity is taken from what the order began with.
FillFromInitial(order, quantity) == [order EXCEPT !.remaining = order.initial - quantity]

\* Order::Fill throws when quantity exceeds what remains; MatchOrders, its only
\* caller, passes the smaller of two remaining quantities.
Fill(order, quantity) == [order EXCEPT !.remaining = @ - quantity]

\* Order::ToGoodTillCancel throws unless the order is a Market order; its
\* only caller has just tested that.
ToGoodTillCancel(order, price) ==
    [order EXCEPT !.type = "GoodTillCancel", !.price = price]

TradeInfo == [id : OrderId, price : Price, quantity : Quantity]

Trade == [bid : TradeInfo, ask : TradeInfo]
==============================================================================
