------------------------------ MODULE TotalsProofs ------------------------------
(***************************************************************************)
(* Theorems about Orderbook that are about sums over its orders: what      *)
(* matching takes from the two sides, and what data_ holds.                *)
(***************************************************************************)
EXTENDS TakerProofs, FoldLemmas

------------------------------------------------------------------------------
(* What is left to fill of a set of orders. *)

RemainingOf(o, S) == SumFunctionOnSet([id \in S |-> o[id].remaining], S)

\* The orders of S, that are orders of o, are finitely many.
Summable(o, S) == IsFiniteSet(S) /\ \A id \in S : o[id].remaining \in Nat

LEMMA RemainingIsNat ==
    ASSUME NEW o, NEW S, Summable(o, S)
    PROVE  /\ RemainingOf(o, S) \in Nat
           /\ \A id \in S : o[id].remaining <= RemainingOf(o, S)
<1> DEFINE f == [id \in S |-> o[id].remaining]
<1>1. IsFiniteSet(S) /\ \A id \in S : f[id] \in Nat /\ f[id] = o[id].remaining
  BY DEF Summable
<1> HIDE DEF f
<1>2. /\ SumFunctionOnSet(f, S) \in Nat
      /\ \A id \in S : f[id] <= SumFunctionOnSet(f, S)
  BY <1>1, SumIsNat
<1>3. QED
  BY <1>1, <1>2 DEF RemainingOf, f

LEMMA RemainingOfNone == \A o : RemainingOf(o, {}) = 0
BY SumEmpty DEF RemainingOf

LEMMA RemainingSame ==
    ASSUME NEW o, NEW e, NEW S, \A id \in S : e[id].remaining = o[id].remaining
    PROVE  RemainingOf(e, S) = RemainingOf(o, S)
<1>1. [id \in S |-> e[id].remaining] = [id \in S |-> o[id].remaining]
  OBVIOUS
<1>2. QED
  BY <1>1 DEF RemainingOf

\* One order set apart.
LEMMA RemainingApart ==
    ASSUME NEW o, NEW S, Summable(o, S), NEW id \in S
    PROVE  /\ Summable(o, S \ {id})
           /\ RemainingOf(o, S) = o[id].remaining + RemainingOf(o, S \ {id})
<1> DEFINE f == [i \in S |-> o[i].remaining]
           g == [i \in S \ {id} |-> o[i].remaining]
<1>1. IsFiniteSet(S) /\ \A i \in S : f[i] \in Int /\ f[i] = o[i].remaining
  BY DEF Summable
<1>2. \A i \in S \ {id} : f[i] \in Int /\ g[i] = f[i]
  BY <1>1
<1>3. IsFiniteSet(S \ {id})
  BY <1>1, FS_RemoveElement
<1> HIDE DEF f, g
<1>4. SumFunctionOnSet(f, S) = f[id] + SumFunctionOnSet(f, S \ {id})
  BY <1>1, SumAt
<1>5. SumFunctionOnSet(g, S \ {id}) = SumFunctionOnSet(f, S \ {id})
  BY <1>2, <1>3, SumSame
<1>6. QED
  BY <1>1, <1>3, <1>4, <1>5 DEF Summable, RemainingOf, f, g

\* An order changes, or leaves because it is filled: what is left of the
\* orders of S shrinks by what the order was filled with, if S has it.
LEMMA SettleRemaining ==
    ASSUME NEW o, NEW S, S \subseteq DOMAIN o, Summable(o, S),
           NEW id \in DOMAIN o, NEW new, new.remaining \in Nat
    PROVE  LET e == Settle(o, id, new)
               T == S \cap DOMAIN e
           IN  /\ Summable(e, T)
               /\ id \notin S => RemainingOf(e, T) = RemainingOf(o, S)
               /\ id \in S => RemainingOf(e, T) =
                                 RemainingOf(o, S) - o[id].remaining + new.remaining
<1> DEFINE e == Settle(o, id, new)
           T == S \cap DOMAIN e
<1>1. /\ \A i \in DOMAIN o \ {id} : i \in DOMAIN e /\ e[i] = o[i]
      /\ IsFilled(new) => DOMAIN e = DOMAIN o \ {id}
      /\ ~IsFilled(new) => DOMAIN e = DOMAIN o /\ e[id] = new
  BY DEF Settle, Put, Without, Restrict
<1> HIDE DEF e
<1>2. /\ IsFiniteSet(S) /\ \A i \in S : o[i].remaining \in Nat
      /\ IsFiniteSet(T) /\ IsFiniteSet(S \ {id})
  BY FS_Subset, FS_RemoveElement DEF Summable
<1>3. Summable(e, T)
  BY <1>1, <1>2 DEF Summable
<1>4. CASE id \notin S
  <2>1. T = S /\ \A i \in S : e[i].remaining = o[i].remaining
    BY <1>1, <1>4
  <2>2. RemainingOf(e, S) = RemainingOf(o, S)
    BY <2>1, RemainingSame
  <2>3. QED
    BY <1>3, <1>4, <2>1, <2>2 DEF e
<1>5. CASE id \in S
  <2>1. \A i \in S \ {id} : e[i].remaining = o[i].remaining
    BY <1>1
  <2>2. RemainingOf(e, S \ {id}) = RemainingOf(o, S \ {id})
    BY <2>1, RemainingSame
  <2>3. /\ RemainingOf(o, S) = o[id].remaining + RemainingOf(o, S \ {id})
        /\ RemainingOf(o, S \ {id}) \in Nat
    BY <1>5, RemainingApart, RemainingIsNat
  <2>4. RemainingOf(e, T) = new.remaining + RemainingOf(e, S \ {id})
    <3>1. CASE IsFilled(new)
      <4>1. T = S \ {id} /\ new.remaining = 0
        BY <1>1, <3>1 DEF IsFilled
      <4>2. RemainingOf(e, S \ {id}) \in Nat
        BY <2>2, <2>3
      <4> HIDE DEF T
      <4>3. QED
        BY <4>1, <4>2
    <3>2. CASE ~IsFilled(new)
      <4>1. T = S /\ e[id] = new
        BY <1>1, <3>2
      <4>2. RemainingOf(e, S) = e[id].remaining + RemainingOf(e, S \ {id})
        <5>1. Summable(e, S)
          BY <1>3, <4>1
        <5>2. QED
          BY <1>5, <5>1, RemainingApart
      <4>3. QED
        BY <4>1, <4>2
    <3>3. QED
      BY <3>1, <3>2
  <2>5. o[id].remaining \in Nat
    BY <1>2, <1>5
  <2>6. RemainingOf(e, T) = RemainingOf(o, S) - o[id].remaining + new.remaining
    BY <2>2, <2>3, <2>4, <2>5
  <2>7. QED
    BY <1>3, <1>5, <2>6 DEF e
<1>6. QED
  BY <1>4, <1>5

------------------------------------------------------------------------------
(* The orders of a book are finitely many. *)

OrdersFinite == IsFiniteSet(DOMAIN orders)

LEMMA OrdersSummable ==
    ASSUME IInv, OrdersFinite, NEW S, S \subseteq DOMAIN orders
    PROVE  Summable(orders, S)
<1>1. \A id \in DOMAIN orders : orders[id].remaining \in Nat
  BY QModAssumption DEF IInv, BookInv, IsMap, Order, Quantity
<1>2. QED
  BY <1>1, FS_Subset DEF OrdersFinite, Summable

\* What MatchOrders does to the orders at the front of the two best levels.
Trades(bid, ask, newBid, newAsk, quantity) ==
    /\ bid \in DOMAIN orders /\ orders[bid] \in Order /\ orders[bid].side = "Buy"
    /\ ask \in DOMAIN orders /\ orders[ask] \in Order /\ orders[ask].side = "Sell"
    /\ quantity = Smaller(orders[bid].remaining, orders[ask].remaining)
    /\ quantity \in Quantity
    /\ quantity <= orders[bid].remaining /\ quantity <= orders[ask].remaining
    /\ newBid = Fill(orders[bid], quantity) /\ newBid \in Order
    /\ newAsk = Fill(orders[ask], quantity) /\ newAsk \in Order
    /\ orders' = Settle(Settle(orders, bid, newBid), ask, newAsk)
    /\ data' = UpdateLevelData(
                  UpdateLevelData(data, orders[bid].price, quantity, LevelAction(newBid)),
                  orders[ask].price, quantity, LevelAction(newAsk))
    /\ orders[bid].price \in Best("Buy") /\ orders[ask].price \in Best("Sell")
    /\ orders[bid].price >= orders[ask].price

\* And what it adds to the trades it is going to return.
TradeAdded(quantity) ==
    \E trade : /\ trade.bid.quantity = quantity /\ trade.ask.quantity = quantity
               /\ trades' = Append(trades, trade)

LEMMA FillTrades ==
    ASSUME IInv, NEW t \in Thread, FillFront(t)
    PROVE  \E bid, ask, newBid, newAsk, quantity :
              Trades(bid, ask, newBid, newAsk, quantity) /\ TradeAdded(quantity)
<1>1. BookOK(book) /\ Agree(book, orders) /\ IsMap(orders, OrderId, Order)
  BY DEF IInv, BookInv
<1>2. PICK bp \in Best("Buy"), ap \in Best("Sell") :
        /\ bp >= ap
        /\ book["Buy"][bp] # <<>>
        /\ book["Sell"][ap] # <<>>
        /\ FillLevels(bp, ap)
  BY DEF FillFront
<1> DEFINE bidId == Head(book["Buy"][bp])
           askId == Head(book["Sell"][ap])
<1>3. /\ "Buy" \in Side /\ "Sell" \in Side
      /\ bp \in DOMAIN book["Buy"] /\ ap \in DOMAIN book["Sell"]
  BY DEF Side, Best, Levels
<1>4. /\ bidId \in DOMAIN orders
      /\ orders[bidId].side = "Buy" /\ orders[bidId].price = bp
  BY <1>1, <1>2, <1>3, FrontIsFiled
<1>5. /\ askId \in DOMAIN orders
      /\ orders[askId].side = "Sell" /\ orders[askId].price = ap
  BY <1>1, <1>2, <1>3, FrontIsFiled
<1> DEFINE least == Smaller(orders[bidId].remaining, orders[askId].remaining)
<1>6. PICK quantity, bid, ask :
        /\ quantity = least
        /\ bid = Fill(orders[bidId], quantity)
        /\ ask = Fill(orders[askId], quantity)
        /\ orders' = Settle(Settle(orders, bidId, bid), askId, ask)
        /\ data' = UpdateLevelData(
                      UpdateLevelData(data, bid.price, quantity, LevelAction(bid)),
                      ask.price, quantity, LevelAction(ask))
        /\ trades' = Append(trades,
              [bid |-> [id |-> bidId, price |-> bid.price, quantity |-> quantity],
               ask |-> [id |-> askId, price |-> ask.price, quantity |-> quantity]])
  BY <1>2 DEF FillLevels
<1>7. orders[bidId] \in Order /\ orders[askId] \in Order
  BY <1>1, <1>4, <1>5 DEF IsMap
<1>8. /\ quantity \in Quantity
      /\ quantity <= orders[bidId].remaining /\ quantity <= orders[askId].remaining
  <2>1. orders[bidId].remaining \in Quantity /\ orders[askId].remaining \in Quantity
    BY <1>7 DEF Order
  <2> HIDE DEF bidId, askId
  <2>2. QED
    BY <1>6, <2>1, QModAssumption DEF Smaller, Quantity
<1>9. /\ bid \in Order /\ bid.side = "Buy" /\ bid.price = bp
      /\ ask \in Order /\ ask.side = "Sell" /\ ask.price = ap
  BY <1>4, <1>5, <1>6, <1>7, <1>8, FillIsOrder
<1> HIDE DEF bidId, askId
<1>10. Trades(bidId, askId, bid, ask, quantity)
  BY <1>2, <1>4, <1>5, <1>6, <1>7, <1>8, <1>9 DEF Trades
<1>11. TradeAdded(quantity)
  <2> DEFINE trade ==
           [bid |-> [id |-> bidId, price |-> bid.price, quantity |-> quantity],
            ask |-> [id |-> askId, price |-> ask.price, quantity |-> quantity]]
  <2>1. trades' = Append(trades, trade)
    BY <1>6
  <2>2. trade.bid.quantity = quantity /\ trade.ask.quantity = quantity
    OBVIOUS
  <2> QED
    BY <2>1, <2>2 DEF TradeAdded
<1>12. QED
  BY <1>10, <1>11

LEMMA SettleDomain ==
    ASSUME NEW o, NEW id, NEW new
    PROVE  DOMAIN Settle(o, id, new) \subseteq DOMAIN o \cup {id}
BY DEF Settle, Put, Without, Restrict

LEMMA InitFinite == Init => OrdersFinite
<1>1. DOMAIN <<>> = {}
  OBVIOUS
<1>2. QED
  BY <1>1, FS_EmptySet DEF Init, OrdersFinite

\* A step books one order at most.
LEMMA NextFinite == IInv /\ OrdersFinite /\ [Next]_vars => OrdersFinite'
<1> SUFFICES ASSUME IInv, OrdersFinite, [Next]_vars PROVE OrdersFinite'
  OBVIOUS
<1>1. ASSUME NEW id, DOMAIN orders' \subseteq DOMAIN orders \cup {id}
      PROVE  OrdersFinite'
  BY <1>1, FS_AddElement, FS_Subset DEF OrdersFinite
<1>2. ASSUME NEW t \in Thread, NEW id, NEW o, NEW type, Insert(t, id, o, type)
      PROVE  OrdersFinite'
  BY <1>1, <1>2 DEF Insert, Put
<1>3. ASSUME UNCHANGED orders PROVE OrdersFinite'
  BY <1>3 DEF OrdersFinite
<1>4. ASSUME NEW id, CancelOrderInternal(id) PROVE OrdersFinite'
  BY <1>1, <1>4 DEF CancelOrderInternal, Without, Restrict
<1>5. ASSUME NEW t \in Thread, Client(t) PROVE OrdersFinite'
  BY <1>2, <1>3, <1>4, <1>5 DEF Client, AddOrder, CancelOrder, ModifyOrder
<1>6. ASSUME NEW t \in Thread, Modifying(t) PROVE OrdersFinite'
  BY <1>2, <1>3, <1>4, <1>6 DEF Modifying, CancelOriginal, AddModified, bookVars
<1>7. ASSUME NEW t \in Thread, FillFront(t) PROVE OrdersFinite'
  <2>1. PICK bid, ask, newBid, newAsk, quantity :
          Trades(bid, ask, newBid, newAsk, quantity)
    BY <1>7, FillTrades
  <2>2. DOMAIN orders' \subseteq DOMAIN orders
    BY <2>1, SettleDomain DEF Trades
  <2>3. QED
    BY <1>1, <2>2
<1>8. ASSUME NEW t \in Thread, Matching(t) PROVE OrdersFinite'
  BY <1>3, <1>7, <1>8 DEF Matching, DropEmptyLevels, Return, KillRemainder
<1>9. QED
  BY <1>3, <1>5, <1>6, <1>8 DEF Next, vars

------------------------------------------------------------------------------
(* What matching takes from the two sides. *)

OfSide(o, side) == {id \in DOMAIN o : o[id].side = side}

\* A side loses what its order was filled with.
LEMMA SettleSide ==
    ASSUME NEW o, Summable(o, DOMAIN o), NEW id \in DOMAIN o, NEW new,
           new.remaining \in Nat, new.side = o[id].side, new.price = o[id].price,
           new.type = o[id].type, NEW side
    PROVE  LET e == Settle(o, id, new)
           IN  /\ Summable(e, DOMAIN e)
               /\ RemainingOf(e, OfSide(e, side)) =
                     RemainingOf(o, OfSide(o, side))
                     - (IF o[id].side = side THEN o[id].remaining - new.remaining ELSE 0)
               /\ RemainingOf(e, OfSide(e, side)) \in Nat
               /\ RemainingOf(o, OfSide(o, side)) \in Nat
<1> DEFINE e == Settle(o, id, new)
           S == OfSide(o, side)
<1>1. Kept(o, e)
  BY SettleKept
<1>2. Summable(o, S) /\ S \subseteq DOMAIN o
  BY FS_Subset DEF Summable, OfSide
<1>3. OfSide(e, side) = S \cap DOMAIN e
  BY <1>1 DEF Kept, OfSide
<1>4. o[id].remaining \in Nat
  BY DEF Summable
<1>5. id \in S <=> o[id].side = side
  BY DEF OfSide
<1>6. DOMAIN e = DOMAIN o \cap DOMAIN e
  BY <1>1 DEF Kept
<1> HIDE DEF S
<1>7. Summable(e, DOMAIN e)
  BY <1>6, SettleRemaining
<1>8. /\ Summable(e, S \cap DOMAIN e)
      /\ id \notin S => RemainingOf(e, S \cap DOMAIN e) = RemainingOf(o, S)
      /\ id \in S => RemainingOf(e, S \cap DOMAIN e) =
                        RemainingOf(o, S) - o[id].remaining + new.remaining
  BY <1>2, SettleRemaining
<1>9. RemainingOf(e, S \cap DOMAIN e) \in Nat /\ RemainingOf(o, S) \in Nat
  BY <1>2, <1>8, RemainingIsNat
<1> HIDE DEF e
<1>10. RemainingOf(e, OfSide(e, side)) =
         RemainingOf(o, S)
         - (IF o[id].side = side THEN o[id].remaining - new.remaining ELSE 0)
  BY <1>3, <1>4, <1>5, <1>8, <1>9
<1>11. QED
  BY <1>3, <1>7, <1>9, <1>10 DEF e, S

LEMMA VolumeIs == \A side : Volume(side) = RemainingOf(orders, OfSide(orders, side))
BY DEF Volume, RemainingOf, OfSide

\* A trade adds its quantity to the sum.
LEMMA TradedWith ==
    ASSUME trades \in Seq(Trade), NEW leg \in {"bid", "ask"}, NEW quantity \in Nat,
           NEW trade, trade[leg].quantity = quantity, trades' = Append(trades, trade)
    PROVE  /\ Traded(leg)' = Traded(leg) + quantity
           /\ Traded(leg) \in Int
<1> DEFINE S == 1 .. Len(trades)
           n == Len(trades) + 1
           f == [i \in S |-> trades[i][leg].quantity]
           g == [i \in S \cup {n} |-> (Append(trades, trade))[i][leg].quantity]
<1>1. /\ Len(trades) \in Nat /\ DOMAIN trades = S
      /\ DOMAIN Append(trades, trade) = S \cup {n} /\ n \notin S
      /\ \A i \in S : (Append(trades, trade))[i] = trades[i]
      /\ (Append(trades, trade))[n] = trade
  OBVIOUS
<1>2. \A i \in S : trades[i] \in Trade
  BY <1>1
<1>3. \A i \in S : trades[i][leg].quantity \in Int
  BY <1>2, QModAssumption DEF Trade, TradeInfo, Quantity
<1>4. IsFiniteSet(S)
  BY <1>1, FS_Interval
<1>5. /\ n \notin S
      /\ \A i \in S : f[i] \in Int /\ g[i] = f[i]
      /\ g[n] = quantity
  BY <1>1, <1>3
<1>6. Traded(leg) = SumFunctionOnSet(f, S)
  BY <1>1 DEF Traded
<1>7. Traded(leg)' = SumFunctionOnSet(g, S \cup {n})
  BY <1>1 DEF Traded
<1> HIDE DEF S, n, f, g
<1>8. \A i \in S \cup {n} : g[i] \in Int
  BY <1>5
<1>9. SumFunctionOnSet(g, S \cup {n}) = quantity + SumFunctionOnSet(g, S)
  <2>1. SumFunctionOnSet(g, S \cup {n}) = g[n] + SumFunctionOnSet(g, S)
    BY <1>4, <1>5, <1>8, SumWith
  <2>2. QED
    BY <1>5, <2>1
<1>10. SumFunctionOnSet(g, S) = SumFunctionOnSet(f, S)
  BY <1>4, <1>5, SumSame
<1>11. SumFunctionOnSet(f, S) \in Int
  BY <1>4, <1>5, SumIsInt
<1>12. QED
  BY <1>6, <1>7, <1>9, <1>10, <1>11

LEMMA FillBalances ==
    ASSUME IInv, OrdersFinite, NEW t \in Thread, FillFront(t),
           NEW side \in Side, NEW leg \in {"bid", "ask"}
    PROVE  Volume(side)' + Traded(leg)' = Volume(side) + Traded(leg)
<1>1. PICK bid, ask, newBid, newAsk, quantity :
        Trades(bid, ask, newBid, newAsk, quantity) /\ TradeAdded(quantity)
  BY FillTrades
<1> DEFINE o == orders
           e == Settle(o, bid, newBid)
           f == Settle(e, ask, newAsk)
<1>2. /\ bid \in DOMAIN o /\ o[bid] \in Order /\ o[bid].side = "Buy"
      /\ ask \in DOMAIN o /\ o[ask] \in Order /\ o[ask].side = "Sell"
      /\ quantity \in Nat
      /\ newBid.remaining \in Nat /\ newBid.remaining = o[bid].remaining - quantity
      /\ newAsk.remaining \in Nat /\ newAsk.remaining = o[ask].remaining - quantity
      /\ newBid.side = o[bid].side /\ newBid.price = o[bid].price
      /\ newBid.type = o[bid].type
      /\ newAsk.side = o[ask].side /\ newAsk.price = o[ask].price
      /\ newAsk.type = o[ask].type
  BY <1>1, QModAssumption DEF Trades, Fill, Order, Quantity
<1>3. Summable(o, DOMAIN o)
  BY OrdersSummable
<1>4. o[bid].remaining \in Nat /\ o[ask].remaining \in Nat
  BY <1>2, <1>3 DEF Summable
<1>5. ask \in DOMAIN e /\ e[ask] = o[ask]
  BY <1>2 DEF Settle, Put, Without, Restrict
<1>6. /\ Summable(e, DOMAIN e)
      /\ RemainingOf(e, OfSide(e, side)) =
           RemainingOf(o, OfSide(o, side))
           - (IF o[bid].side = side THEN o[bid].remaining - newBid.remaining ELSE 0)
      /\ RemainingOf(e, OfSide(e, side)) \in Nat
      /\ RemainingOf(o, OfSide(o, side)) \in Nat
  BY <1>2, <1>3, SettleSide
<1> HIDE DEF o, e
<1>7. /\ RemainingOf(f, OfSide(f, side)) =
           RemainingOf(e, OfSide(e, side))
           - (IF e[ask].side = side THEN e[ask].remaining - newAsk.remaining ELSE 0)
      /\ RemainingOf(f, OfSide(f, side)) \in Nat
  BY <1>2, <1>5, <1>6, SettleSide
<1>8. orders' = f
  BY <1>1 DEF Trades, o, e
<1> HIDE DEF f
<1> DEFINE r(x) == RemainingOf(x, OfSide(x, side))
<1>9. r(f) = r(o) - quantity /\ r(o) \in Nat /\ r(f) \in Nat
  BY <1>2, <1>4, <1>5, <1>6, <1>7 DEF Side
<1> HIDE DEF r
<1>10. Volume(side)' = r(f) /\ Volume(side) = r(o)
  BY <1>8, VolumeIs DEF r, o, Volume, RemainingOf, OfSide
<1>11. Traded(leg)' = Traded(leg) + quantity /\ Traded(leg) \in Int
  <2>1. PICK trade : /\ trade.bid.quantity = quantity /\ trade.ask.quantity = quantity
                     /\ trades' = Append(trades, trade)
    BY <1>1 DEF TradeAdded
  <2>2. trade[leg].quantity = quantity
    BY <2>1
  <2>3. trades \in Seq(Trade)
    BY DEF IInv, LocalTypeOK
  <2>4. QED
    BY <1>2, <2>1, <2>2, <2>3, TradedWith
<1>12. QED
  BY <1>2, <1>9, <1>10, <1>11

LEMMA StepBalances ==
    ASSUME IInv, OrdersFinite, [Next]_vars
    PROVE  [mutex # NoThread /\ mutex' = mutex =>
              \A side \in Side, leg \in {"bid", "ask"} :
                  Volume(side)' + Traded(leg)' = Volume(side) + Traded(leg)]_vars
<1> SUFFICES ASSUME Next, mutex # NoThread, mutex' = mutex,
                    NEW side \in Side, NEW leg \in {"bid", "ask"}
             PROVE  Volume(side)' + Traded(leg)' = Volume(side) + Traded(leg)
  OBVIOUS
<1>1. PICK t \in Thread : Client(t) \/ Matching(t) \/ Modifying(t)
  BY DEF Next
<1>2. Matching(t)
  BY <1>1 DEF Client, AddOrder, CancelOrder, ModifyOrder, Modifying,
              CancelOriginal, AddModified
<1>3. CASE FillFront(t)
  BY <1>3, FillBalances
<1>4. CASE UNCHANGED <<orders, trades>>
  BY <1>4 DEF Volume, Traded
<1>5. ~Return(t)
  BY DEF Return
<1>6. QED
  BY <1>2, <1>3, <1>4, <1>5 DEF Matching, DropEmptyLevels, KillRemainder

\* However many orders one AddOrder meets, in every step of it either side
\* loses just the quantity of the trades that it is going to return.
THEOREM Balances == Spec => MatchingBalances
<1>1. IInv /\ OrdersFinite /\ [Next]_vars => (IInv /\ OrdersFinite)'
  BY NextIInv, NextFinite
<1>2. IInv /\ OrdersFinite /\ [Next]_vars =>
        [mutex # NoThread /\ mutex' = mutex =>
            \A side \in Side, leg \in {"bid", "ask"} :
                Volume(side)' + Traded(leg)' = Volume(side) + Traded(leg)]_vars
  BY StepBalances
<1>3. QED
  BY <1>1, <1>2, InitIInv, InitFinite, PTL DEF Spec, MatchingBalances

------------------------------------------------------------------------------
(* Arithmetic modulo QMod. *)

LEMMA DivMod ==
    ASSUME NEW q \in Nat, q > 0, NEW a \in Int
    PROVE  a % q \in 0 .. q - 1 /\ \E k \in Int : a = q * k + (a % q)
<1>1. a \div q \in Int /\ a = q * (a \div q) + (a % q)
  OBVIOUS
<1>2. a % q \in 0 .. q - 1
  OBVIOUS
<1>3. QED
  BY <1>1, <1>2

LEMMA RemainderIsUnique ==
    ASSUME NEW q \in Nat, q > 0, NEW r \in 0 .. q - 1, NEW s \in 0 .. q - 1,
           NEW k \in Int, NEW l \in Int, q * k + r = q * l + s
    PROVE  r = s
<1>1. CASE k = l
  BY <1>1
<1>2. CASE k > l
  <2>1. q * (k - l) = s - r
    OBVIOUS
  <2>2. q * (k - l) >= q
    BY <1>2
  <2>3. QED
    BY <2>1, <2>2
<1>3. CASE k < l
  <2>1. q * (l - k) = r - s
    OBVIOUS
  <2>2. q * (l - k) >= q
    BY <1>3
  <2>3. QED
    BY <2>1, <2>2
<1>4. QED
  BY <1>1, <1>2, <1>3

\* A total that wraps at each update is the true total, wrapped once.
LEMMA WrapOnce ==
    ASSUME NEW a \in Int, NEW b \in Int
    PROVE  ((a % QMod) + b) % QMod = (a + b) % QMod
<1> DEFINE x == a % QMod
           u == (x + b) % QMod
           v == (a + b) % QMod
<1>1. QMod \in Nat /\ QMod > 0
  BY QModAssumption
<1>2. x \in Int /\ \E k \in Int : a = QMod * k + x
  BY <1>1, DivMod
<1>3. PICK k \in Int : a = QMod * k + x
  BY <1>2
<1> HIDE DEF x
<1>4. PICK l \in Int : x + b = QMod * l + u
  BY <1>1, <1>2, DivMod
<1>5. PICK m \in Int : a + b = QMod * m + v
  BY <1>1, DivMod
<1>6. u \in 0 .. QMod - 1 /\ v \in 0 .. QMod - 1
  BY <1>1, <1>2, DivMod
<1> HIDE DEF u, v
<1>7. QMod * (k + l) + u = QMod * m + v
  <2>1. QMod * (k + l) = QMod * k + QMod * l
    BY <1>1
  <2>2. /\ QMod * (k + l) \in Int /\ QMod * k \in Int
        /\ QMod * l \in Int /\ QMod * m \in Int
    BY <1>1
  <2>3. QED
    BY <1>1, <1>2, <1>3, <1>4, <1>5, <1>6, <2>1, <2>2
<1>8. k + l \in Int
  OBVIOUS
<1>9. u = v
  BY <1>1, <1>6, <1>7, <1>8, RemainderIsUnique
<1>10. QED
  BY <1>9 DEF u, v, x

LEMMA NoWrap == \A n \in Quantity : n % QMod = n
BY QModAssumption DEF Quantity

------------------------------------------------------------------------------
(* The entries of data_. *)

\* The entry of p says that n orders are there, with s left to fill together.
Counted(d, p, n, s) ==
    /\ p \in DOMAIN d <=> n # 0
    /\ TotalsAt(d, p) = [quantity |-> s % QMod, orderCount |-> n]

\* How UpdateLevelData changes the number of orders, and what is left of them.
Entering(action) == CASE action = "Add" -> 1 [] action = "Remove" -> -1
                      [] action = "Match" -> 0
Signed(quantity, action) == IF action = "Add" THEN quantity ELSE -quantity

\* e is d with another entry for p.
OneEntry(d, e, p, m, r) ==
    /\ Counted(e, p, m, r)
    /\ \A x \in Price : x # p => /\ x \in DOMAIN e <=> x \in DOMAIN d
                                 /\ TotalsAt(e, x) = TotalsAt(d, x)

LEMMA UpdateCounted ==
    ASSUME NEW d, NEW p, NEW n \in Quantity, NEW s \in Int, Counted(d, p, n, s),
           NEW q \in Int, NEW action \in Action,
           NEW m \in Quantity, m = n + Entering(action),
           NEW r \in Int, r = s + Signed(q, action), m = 0 => r = 0
    PROVE  OneEntry(d, UpdateLevelData(d, p, q, action), p, m, r)
<1> DEFINE e == UpdateLevelData(d, p, q, action)
           new == [quantity |-> r % QMod, orderCount |-> m]
<1>1. /\ TotalsAt(d, p).quantity = s % QMod
      /\ TotalsAt(d, p).orderCount = n
  BY DEF Counted
<1>2. (TotalsAt(d, p).quantity + Signed(q, action)) % QMod = r % QMod
  <2>1. Signed(q, action) \in Int
    BY DEF Signed
  <2>2. QED
    BY <1>1, <2>1, WrapOnce
<1>3. (TotalsAt(d, p).orderCount + Entering(action)) % QMod = m
  BY <1>1, NoWrap
<1>4. e = IF m = 0 THEN Without(d, p) ELSE Put(d, p, new)
  <2> HIDE DEF new
  <2>1. CASE action = "Add"
    BY <1>2, <1>3, <2>1 DEF UpdateLevelData, Signed, Entering, new
  <2>2. CASE action = "Remove"
    BY <1>2, <1>3, <2>2 DEF UpdateLevelData, Signed, Entering, new
  <2>3. CASE action = "Match"
    BY <1>2, <1>3, <2>3 DEF UpdateLevelData, Signed, Entering, new
  <2>4. QED
    BY <2>1, <2>2, <2>3 DEF Action
<1> HIDE DEF e
<1>5. \A x : x # p => /\ x \in DOMAIN e <=> x \in DOMAIN d
                      /\ TotalsAt(e, x) = TotalsAt(d, x)
  BY <1>4 DEF TotalsAt, Without, Restrict, Put
<1>6. Counted(e, p, m, r)
  <2>1. CASE m = 0
    <3>1. r % QMod = 0
      <4>1. 0 \in Quantity
        BY QModAssumption DEF Quantity
      <4>2. QED
        BY <2>1, <4>1, NoWrap
    <3>2. QED
      BY <1>4, <2>1, <3>1 DEF Counted, TotalsAt, Without, Restrict
  <2>2. CASE m # 0
    BY <1>4, <2>2 DEF Counted, TotalsAt, Put
  <2>3. QED
    BY <2>1, <2>2
<1>7. QED
  BY <1>5, <1>6 DEF OneEntry, e

\* RestingAt, for a value o of orders.
AtPrice(o, p) == {id \in DOMAIN o : o[id].price = p}

LevelsCounted(o, d) ==
    \A p \in Price :
        Counted(d, p, Cardinality(AtPrice(o, p)), RemainingOf(o, AtPrice(o, p)))

\* The builds and the clients for which data_ is exact: a freed key is not
\* found, submitted orders have not been filled, and ids are fewer than what
\* an order count can be.
TotalsHold ==
    /\ FreedKey = {"cleared"}
    /\ InputFilled \subseteq {0}
    /\ IsFiniteSet(OrderId)
    /\ Cardinality(OrderId) < QMod

LEMMA FewOrders ==
    ASSUME TotalsHold, NEW o, IsMap(o, OrderId, Order), NEW p
    PROVE  /\ Summable(o, AtPrice(o, p))
           /\ IsFiniteSet(AtPrice(o, p))
           /\ Cardinality(AtPrice(o, p)) \in Quantity
           /\ RemainingOf(o, AtPrice(o, p)) \in Nat
<1>1. AtPrice(o, p) \subseteq OrderId
  BY DEF AtPrice, IsMap
<1>2. /\ IsFiniteSet(AtPrice(o, p))
      /\ Cardinality(AtPrice(o, p)) <= Cardinality(OrderId)
      /\ Cardinality(AtPrice(o, p)) \in Nat /\ Cardinality(OrderId) \in Nat
  BY <1>1, FS_Subset, FS_CardinalityType DEF TotalsHold
<1>3. Summable(o, AtPrice(o, p))
  BY <1>2, QModAssumption DEF Summable, AtPrice, IsMap, Order, Quantity
<1>4. QED
  BY <1>2, <1>3, RemainingIsNat, QModAssumption DEF TotalsHold, Quantity

\* An order is filled to what new says, or leaves: its level's entry follows.
LEMMA SettleCounted ==
    ASSUME TotalsHold, NEW o, IsMap(o, OrderId, Order), NEW d, LevelsCounted(o, d),
           NEW id \in DOMAIN o, NEW new \in Order, new.price = o[id].price,
           NEW q, q = o[id].remaining - new.remaining
    PROVE  LevelsCounted(Settle(o, id, new),
                         UpdateLevelData(d, new.price, q, LevelAction(new)))
<1> DEFINE p == new.price
           S == AtPrice(o, p)
           e == Settle(o, id, new)
           f == UpdateLevelData(d, p, q, LevelAction(new))
           n == Cardinality(S)
           m == Cardinality(AtPrice(e, p))
           s == RemainingOf(o, S)
           r == RemainingOf(e, AtPrice(e, p))
<1>1. /\ p \in Price /\ q \in Int
      /\ o[id].remaining \in Nat /\ new.remaining \in Nat
  BY QModAssumption DEF IsMap, Order, Quantity
<1>2. /\ \A i \in DOMAIN o \ {id} : i \in DOMAIN e /\ e[i] = o[i]
      /\ IsFilled(new) => DOMAIN e = DOMAIN o \ {id}
      /\ ~IsFilled(new) => DOMAIN e = DOMAIN o /\ e[id] = new
  BY DEF Settle, Put, Without, Restrict
<1>3. IsMap(e, OrderId, Order)
  <2>1. id \in OrderId
    BY DEF IsMap
  <2>2. QED
    BY <2>1, PutIsMap, WithoutIsMap DEF Settle
<1> HIDE DEF e
<1>4. id \in S /\ S \subseteq DOMAIN o
  BY DEF AtPrice
<1>5. AtPrice(e, p) = S \cap DOMAIN e
  BY <1>2 DEF AtPrice
<1>6. /\ Summable(o, S) /\ IsFiniteSet(S) /\ n \in Quantity /\ s \in Nat
      /\ m \in Quantity /\ r \in Nat /\ IsFiniteSet(AtPrice(e, p))
  BY <1>3, FewOrders
<1>7. r = s - q
  <2>1. RemainingOf(e, S \cap DOMAIN e) = RemainingOf(o, S) - o[id].remaining + new.remaining
    <3> HIDE DEF S
    <3>1. QED
      BY <1>1, <1>4, <1>6, SettleRemaining DEF e
  <2> HIDE DEF S
  <2>2. r = s - o[id].remaining + new.remaining
    BY <1>5, <2>1
  <2> HIDE DEF r, s
  <2>3. QED
    BY <1>1, <1>6, <2>2
<1>8. m = n + Entering(LevelAction(new)) /\ LevelAction(new) \in Action
  <2> HIDE DEF S
  <2>1. CASE IsFilled(new)
    <3>1. AtPrice(e, p) = S \ {id}
      BY <1>2, <1>4, <1>5, <2>1
    <3>2. m = n - 1
      BY <1>4, <1>6, <3>1, FS_RemoveElement
    <3> HIDE DEF m, n
    <3>3. QED
      BY <1>6, <2>1, <3>2, QModAssumption DEF LevelAction, Entering, Action, Quantity
  <2>2. CASE ~IsFilled(new)
    <3>1. AtPrice(e, p) = S
      BY <1>2, <1>4, <1>5, <2>2
    <3>2. m = n
      BY <3>1
    <3> HIDE DEF m, n
    <3>3. QED
      BY <1>6, <2>2, <3>2, QModAssumption DEF LevelAction, Entering, Action, Quantity
  <2>3. QED
    BY <2>1, <2>2
<1>9. r = s + Signed(q, LevelAction(new))
  <2> HIDE DEF r, s
  <2>1. QED
    BY <1>1, <1>6, <1>7 DEF Signed, LevelAction
<1>10. m = 0 => r = 0
  <2> SUFFICES ASSUME m = 0 PROVE r = 0
    OBVIOUS
  <2>1. AtPrice(e, p) = {}
    BY <1>6, FS_EmptySet
  <2>2. QED
    BY <2>1, RemainingOfNone
<1>11. Counted(d, p, n, s)
  BY <1>1 DEF LevelsCounted
<1>12. OneEntry(d, f, p, m, r)
  <2> HIDE DEF m, n, r, s
  <2>1. s \in Int /\ r \in Int
    BY <1>6
  <2>2. QED
    BY <1>1, <1>6, <1>8, <1>9, <1>10, <1>11, <2>1, UpdateCounted
<1> HIDE DEF f
<1>13. ASSUME NEW x \in Price, x # p
       PROVE  Counted(f, x, Cardinality(AtPrice(e, x)), RemainingOf(e, AtPrice(e, x)))
  <2>1. AtPrice(e, x) = AtPrice(o, x)
    BY <1>2, <1>13 DEF AtPrice
  <2>2. \A i \in AtPrice(o, x) : e[i].remaining = o[i].remaining
    BY <1>2, <1>13 DEF AtPrice
  <2>3. RemainingOf(e, AtPrice(o, x)) = RemainingOf(o, AtPrice(o, x))
    BY <2>2, RemainingSame
  <2>4. Counted(d, x, Cardinality(AtPrice(o, x)), RemainingOf(o, AtPrice(o, x)))
    BY DEF LevelsCounted
  <2>5. QED
    BY <1>12, <1>13, <2>1, <2>3, <2>4 DEF OneEntry, Counted
<1>14. LevelsCounted(e, f)
  BY <1>12, <1>13 DEF OneEntry, LevelsCounted
<1>15. QED
  BY <1>14 DEF e, f

\* An order enters, with what it was submitted with left to fill.
LEMMA PutCounted ==
    ASSUME TotalsHold, NEW o, IsMap(o, OrderId, Order), NEW d, LevelsCounted(o, d),
           NEW id \in OrderId, id \notin DOMAIN o, NEW new \in Order, Fresh(new)
    PROVE  LevelsCounted(Put(o, id, new),
                         UpdateLevelData(d, new.price, new.initial, "Add"))
<1> DEFINE p == new.price
           S == AtPrice(o, p)
           e == Put(o, id, new)
           f == UpdateLevelData(d, p, new.initial, "Add")
           n == Cardinality(S)
           m == Cardinality(AtPrice(e, p))
           s == RemainingOf(o, S)
           r == RemainingOf(e, AtPrice(e, p))
<1>1. p \in Price /\ new.remaining \in Nat /\ new.initial = new.remaining
  BY QModAssumption DEF Order, Quantity, Fresh
<1>2. /\ DOMAIN e = DOMAIN o \cup {id} /\ e[id] = new
      /\ \A i \in DOMAIN o : e[i] = o[i]
  BY DEF Put
<1>3. IsMap(e, OrderId, Order)
  BY PutIsMap
<1> HIDE DEF e
<1>4. AtPrice(e, p) = S \cup {id} /\ id \notin S
  BY <1>2 DEF AtPrice
<1>5. /\ IsFiniteSet(S) /\ n \in Quantity /\ s \in Nat
      /\ Summable(e, AtPrice(e, p)) /\ m \in Quantity /\ r \in Nat
  BY <1>3, FewOrders
<1>6. r = s + new.remaining
  <2>1. \A i \in S : e[i].remaining = o[i].remaining
    BY <1>2 DEF AtPrice
  <2> HIDE DEF S
  <2>2. RemainingOf(e, S) = RemainingOf(o, S)
    BY <2>1, RemainingSame
  <2>3. r = e[id].remaining + RemainingOf(e, AtPrice(e, p) \ {id})
    <3>1. id \in AtPrice(e, p)
      BY <1>4
    <3>2. QED
      BY <1>5, <3>1, RemainingApart
  <2>4. AtPrice(e, p) \ {id} = S
    BY <1>4
  <2>5. r = new.remaining + s
    BY <1>2, <2>2, <2>3, <2>4
  <2> HIDE DEF r, s
  <2>6. QED
    BY <1>1, <1>5, <2>5
<1>7. m = n + 1
  BY <1>4, <1>5, FS_AddElement
<1>8. Counted(d, p, n, s)
  BY <1>1 DEF LevelsCounted
<1>9. OneEntry(d, f, p, m, r)
  <2> HIDE DEF m, n, r, s
  <2>1. s \in Int /\ r \in Int /\ n \in Nat /\ new.initial \in Int
    BY <1>1, <1>5, QModAssumption DEF Quantity
  <2>2. m # 0 /\ "Add" \in Action /\ Entering("Add") = 1
        /\ Signed(new.initial, "Add") = new.initial
    BY <1>7, <2>1 DEF Action, Entering, Signed
  <2>3. QED
    BY <1>1, <1>5, <1>6, <1>7, <1>8, <2>1, <2>2, UpdateCounted
<1> HIDE DEF f
<1>10. ASSUME NEW x \in Price, x # p
       PROVE  Counted(f, x, Cardinality(AtPrice(e, x)), RemainingOf(e, AtPrice(e, x)))
  <2>1. AtPrice(e, x) = AtPrice(o, x)
    BY <1>2, <1>10 DEF AtPrice
  <2>2. \A i \in AtPrice(o, x) : e[i].remaining = o[i].remaining
    BY <1>2, <1>10 DEF AtPrice
  <2>3. RemainingOf(e, AtPrice(o, x)) = RemainingOf(o, AtPrice(o, x))
    BY <2>2, RemainingSame
  <2>4. Counted(d, x, Cardinality(AtPrice(o, x)), RemainingOf(o, AtPrice(o, x)))
    BY DEF LevelsCounted
  <2>5. QED
    BY <1>9, <1>10, <2>1, <2>3, <2>4 DEF OneEntry, Counted
<1>11. LevelsCounted(e, f)
  BY <1>9, <1>10 DEF OneEntry, LevelsCounted
<1>12. QED
  BY <1>11 DEF e, f
------------------------------------------------------------------------------
(* The totals of data_, through the steps of the engine. *)

\* With IInv, the inductive invariant: every update of data_ goes with the
\* change of orders_ it is about.
TotalsInv == FreshRequests /\ LevelsCounted(orders, data)

LEMMA InsertCounted ==
    ASSUME TotalsHold, IInv, LevelsCounted(orders, data), NEW t \in Thread,
           NEW id \in OrderId, NEW order \in Order, Fresh(order),
           NEW o \in Admitted(id, order), Insert(t, id, o, order.type)
    PROVE  LevelsCounted(orders, data)'
<1>1. BookOK(book) /\ IsMap(orders, OrderId, Order)
  BY DEF IInv, BookInv
<1>2. o \in Order /\ id \notin DOMAIN orders
  BY <1>1, AdmittedIsOrder
<1>3. Fresh(o)
  BY DEF Fresh, Admitted, ToGoodTillCancel, Order
<1>4. /\ orders' = Put(orders, id, o)
      /\ data' = UpdateLevelData(data, o.price, o.initial, "Add")
  BY DEF Insert
<1>5. LevelsCounted(Put(orders, id, o),
                    UpdateLevelData(data, o.price, o.initial, "Add"))
  BY <1>1, <1>2, <1>3, PutCounted
<1>6. QED
  BY <1>4, <1>5

\* To cancel an order is to fill it without a trade.
LEMMA CancelCounted ==
    ASSUME TotalsHold, IInv, LevelsCounted(orders, data),
           \/ \E id \in DOMAIN orders : CancelOrderInternal(id)
           \/ UNCHANGED bookVars
    PROVE  LevelsCounted(orders, data)'
<1>1. CASE \E id \in DOMAIN orders : CancelOrderInternal(id)
  <2>1. PICK id \in DOMAIN orders : CancelOrderInternal(id)
    BY <1>1
  <2> DEFINE o == orders[id]
             none == [o EXCEPT !.remaining = 0]
  <2>2. IsMap(orders, OrderId, Order) /\ o \in Order
    BY DEF IInv, BookInv, IsMap
  <2>3. /\ none \in Order /\ none.price = o.price /\ IsFilled(none)
        /\ none.remaining = 0
    BY <2>2, QModAssumption DEF Order, Quantity, IsFilled
  <2>4. o.remaining = o.remaining - none.remaining
    BY <2>2, <2>3, QModAssumption DEF Order, Quantity
  <2> HIDE DEF none
  <2>5. LevelsCounted(Settle(orders, id, none),
                      UpdateLevelData(data, none.price, o.remaining, LevelAction(none)))
    BY <2>2, <2>3, <2>4, SettleCounted
  <2>6. /\ Settle(orders, id, none) = Without(orders, id)
        /\ LevelAction(none) = "Remove"
    BY <2>3 DEF Settle, LevelAction
  <2>7. /\ orders' = Without(orders, id)
        /\ data' = UpdateLevelData(data, o.price, o.remaining, "Remove")
    BY <2>1 DEF CancelOrderInternal
  <2>8. QED
    BY <2>3, <2>5, <2>6, <2>7
<1>2. CASE UNCHANGED bookVars
  BY <1>2 DEF bookVars
<1>3. QED
  BY <1>1, <1>2

LEMMA FillCounted ==
    ASSUME TotalsHold, IInv, LevelsCounted(orders, data), NEW t \in Thread, FillFront(t)
    PROVE  LevelsCounted(orders, data)'
<1>1. PICK bid, ask, newBid, newAsk, quantity :
        Trades(bid, ask, newBid, newAsk, quantity)
  BY FillTrades
<1> DEFINE e == Settle(orders, bid, newBid)
           f == UpdateLevelData(data, newBid.price, quantity, LevelAction(newBid))
<1>2. /\ bid \in DOMAIN orders /\ orders[bid] \in Order
      /\ ask \in DOMAIN orders /\ orders[ask] \in Order
      /\ newBid \in Order /\ newBid.price = orders[bid].price
      /\ newAsk \in Order /\ newAsk.price = orders[ask].price
      /\ quantity = orders[bid].remaining - newBid.remaining
      /\ quantity = orders[ask].remaining - newAsk.remaining
      /\ bid # ask
  BY <1>1, QModAssumption DEF Trades, Fill, Order, Quantity
<1>3. IsMap(orders, OrderId, Order)
  BY DEF IInv, BookInv
<1>4. IsMap(e, OrderId, Order)
  <2>1. bid \in OrderId
    BY <1>2, <1>3 DEF IsMap
  <2>2. QED
    BY <1>2, <1>3, <2>1, PutIsMap, WithoutIsMap DEF Settle
<1>5. ask \in DOMAIN e /\ e[ask] = orders[ask]
  BY <1>2 DEF Settle, Put, Without, Restrict
<1>6. LevelsCounted(e, f)
  BY <1>2, <1>3, SettleCounted
<1> HIDE DEF e, f
<1>7. LevelsCounted(Settle(e, ask, newAsk),
                    UpdateLevelData(f, newAsk.price, quantity, LevelAction(newAsk)))
  <2>1. quantity = e[ask].remaining - newAsk.remaining /\ newAsk.price = e[ask].price
    BY <1>2, <1>5
  <2>2. QED
    BY <1>2, <1>4, <1>5, <1>6, <2>1, SettleCounted
<1>8. /\ orders' = Settle(e, ask, newAsk)
      /\ data' = UpdateLevelData(f, newAsk.price, quantity, LevelAction(newAsk))
  BY <1>1, <1>2 DEF Trades, e, f
<1>9. QED
  BY <1>7, <1>8

\* With a freed key that is not found, the cleanup erases no entry.
LEMMA DropCounted ==
    ASSUME TotalsHold, IInv, LevelsCounted(orders, data),
           NEW t \in Thread, DropEmptyLevels(t)
    PROVE  LevelsCounted(orders, data)'
<1>1. PICK gone : \E read \in [gone -> FreedKey] :
        data' = Restrict(data, DOMAIN data \ {p \in gone : read[p] = "intact"})
  BY DEF DropEmptyLevels
<1>2. PICK read \in [gone -> FreedKey] :
        data' = Restrict(data, DOMAIN data \ {p \in gone : read[p] = "intact"})
  BY <1>1
<1>3. data' = Restrict(data, DOMAIN data)
  <2>1. \A p \in gone : read[p] # "intact"
    BY DEF TotalsHold
  <2>2. DOMAIN data \ {p \in gone : read[p] = "intact"} = DOMAIN data
    BY <2>1
  <2>3. QED
    BY <1>2, <2>2
<1>4. DOMAIN data' = DOMAIN data /\ \A p \in DOMAIN data : data'[p] = data[p]
  BY <1>3 DEF Restrict
<1>5. \A p, n, s : Counted(data, p, n, s) => Counted(data', p, n, s)
  BY <1>4 DEF Counted, TotalsAt
<1>6. orders' = orders
  BY DEF DropEmptyLevels
<1>7. QED
  BY <1>5, <1>6 DEF LevelsCounted

LEMMA NextCounted ==
    ASSUME TotalsHold
    PROVE  IInv /\ TotalsInv /\ [Next]_vars => TotalsInv'
<1> SUFFICES ASSUME IInv, FreshRequests, LevelsCounted(orders, data), [Next]_vars
             PROVE  LevelsCounted(orders, data)'
  BY NextFresh DEF TotalsInv
<1>1. ASSUME NEW t \in Thread, NEW id \in OrderId, NEW type \in InputType,
             NEW side \in Side, NEW price \in Price, NEW quantity \in InputQty,
             NEW filled \in InputFilled, Submittable(type, quantity, filled),
             AddOrder(t, id, Fill(NewOrder(type, side, price, quantity), filled))
      PROVE  LevelsCounted(orders, data)'
  <2> DEFINE order == Fill(NewOrder(type, side, price, quantity), filled)
  <2>1. order \in Order
    BY <1>1, SubmittedIsOrder
  <2>2. Fresh(order)
    BY InputAssumption, QModAssumption DEF TotalsHold, Fresh, Fill, NewOrder, Quantity
  <2> HIDE DEF order
  <2>3. AddOrder(t, id, order)
    BY <1>1 DEF order
  <2>4. QED
    BY <2>1, <2>2, <2>3, InsertCounted DEF AddOrder
<1>2. ASSUME NEW t \in Thread, NEW id \in OrderId, CancelOrder(t, id)
      PROVE  LevelsCounted(orders, data)'
  BY <1>2, CancelCounted DEF CancelOrder
<1>3. ASSUME NEW t \in Thread, CancelOriginal(t)
      PROVE  LevelsCounted(orders, data)'
  BY <1>3, CancelCounted DEF CancelOriginal
<1>4. ASSUME NEW t \in Thread, AddModified(t)
      PROVE  LevelsCounted(orders, data)'
  <2>1. /\ request[t].id \in OrderId /\ request[t].order \in Order
        /\ Fresh(request[t].order)
    BY <1>4 DEF AddModified, IInv, LockHeld, FreshRequests
  <2>2. CASE \E o \in Admitted(request[t].id, request[t].order) :
                Insert(t, request[t].id, o, request[t].order.type)
    BY <2>1, <2>2, InsertCounted
  <2>3. CASE UNCHANGED <<orders, data>>
    BY <2>3
  <2>4. QED
    BY <1>4, <2>2, <2>3 DEF AddModified
<1>5. ASSUME UNCHANGED <<orders, data>>
      PROVE  LevelsCounted(orders, data)'
  BY <1>5
<1>6. ASSUME NEW t \in Thread, Matching(t)
      PROVE  LevelsCounted(orders, data)'
  BY <1>5, <1>6, FillCounted, DropCounted DEF Matching, Return, KillRemainder
<1>7. QED
  BY <1>1, <1>2, <1>3, <1>4, <1>5, <1>6
  DEF Next, Client, Modifying, ModifyOrder, vars

LEMMA InitCounted == Init => TotalsInv
<1> SUFFICES ASSUME Init PROVE TotalsInv
  OBVIOUS
<1>1. DOMAIN orders = {} /\ DOMAIN data = {}
  BY DEF Init
<1>2. \A p : AtPrice(orders, p) = {}
  BY <1>1 DEF AtPrice
<1>3. 0 % QMod = 0
  <2>1. 0 \in Quantity
    BY QModAssumption DEF Quantity
  <2>2. QED
    BY <2>1, NoWrap
<1>4. \A p : Counted(data, p, 0, 0)
  BY <1>1, <1>3 DEF Counted, TotalsAt
<1>5. LevelsCounted(orders, data)
  BY <1>2, <1>4, FS_EmptySet, RemainingOfNone DEF LevelsCounted
<1>6. QED
  BY <1>5 DEF Init, TotalsInv, FreshRequests

LEMMA CountedIsExact ==
    ASSUME TotalsHold, IInv, LevelsCounted(orders, data)
    PROVE  LevelDataExact
<1>1. IsMap(orders, OrderId, Order) /\ IsMap(data, Price, LevelTotals)
  BY DEF IInv, BookInv
<1>2. \A p : RestingAt(p) = AtPrice(orders, p)
  BY DEF RestingAt, AtPrice
<1>3. ASSUME NEW p \in Price
      PROVE  p \in DOMAIN data <=> AtPrice(orders, p) # {}
  <2>1. IsFiniteSet(AtPrice(orders, p))
    BY <1>1, FewOrders
  <2>2. Counted(data, p, Cardinality(AtPrice(orders, p)),
                RemainingOf(orders, AtPrice(orders, p)))
    BY DEF LevelsCounted
  <2>3. QED
    BY <2>1, <2>2, FS_EmptySet DEF Counted
<1>4. DOMAIN data = {orders[id].price : id \in DOMAIN orders}
  <2>1. DOMAIN data \subseteq Price /\ \A id \in DOMAIN orders : orders[id].price \in Price
    BY <1>1 DEF IsMap, Order
  <2>2. QED
    BY <1>3, <2>1 DEF AtPrice
<1>5. ASSUME NEW p \in DOMAIN data
      PROVE  /\ data[p].orderCount = Cardinality(RestingAt(p))
             /\ data[p].quantity =
                   SumFunctionOnSet([id \in RestingAt(p) |-> orders[id].remaining],
                                    RestingAt(p)) % QMod
  <2>1. p \in Price
    BY <1>1 DEF IsMap
  <2>2. Counted(data, p, Cardinality(RestingAt(p)), RemainingOf(orders, RestingAt(p)))
    BY <1>2, <2>1 DEF LevelsCounted
  <2>3. QED
    BY <2>2 DEF Counted, TotalsAt, RemainingOf
<1>6. QED
  BY <1>4, <1>5 DEF LevelDataExact

\* data_ has the quantity and the number of the orders at each price, and an
\* entry for no other price, through partial fills, orders of both sides at
\* one price and cancels in the middle of a queue, and modulo 2^32.  A freed
\* key that is found takes that away, and so does an order that is submitted
\* again after it was filled in part.
THEOREM TotalsAreExact ==
    ASSUME TotalsHold
    PROVE  Spec => []LevelDataExact
<1>1. IInv /\ TotalsInv /\ [Next]_vars => (IInv /\ TotalsInv)'
  BY NextIInv, NextCounted
<1>2. IInv /\ TotalsInv => LevelDataExact
  BY CountedIsExact DEF TotalsInv
<1>3. QED
  BY <1>1, <1>2, InitIInv, InitCounted, PTL DEF Spec
------------------------------------------------------------------------------
(* The loop of CanFullyFill. *)

\* A fold of TakeFrom over prices in R, from the quantity q.
IsTaking(g, q, R) ==
    g = [s \in SUBSET R |->
            IF s = {} THEN q ELSE TakeFrom(Pick(s), g[s \ {Pick(s)}])]

LEMMA TakeFromIsInt ==
    ASSUME NEW p, data[p].quantity \in Nat, NEW q \in Int
    PROVE  TakeFrom(p, q) \in Int
BY DEF TakeFrom, Covered

LEMMA TakingExists ==
    ASSUME NEW R, IsFiniteSet(R), \A p \in R : data[p].quantity \in Nat, NEW q \in Int
    PROVE  \E g : IsTaking(g, q, R)
<1> DEFINE step == [x \in R \X Int |-> TakeFrom(x[1], x[2])]
<1>1. PICK g : IsFold(g, step, q, R)
  <2> HIDE DEF step
  <2>1. QED
    BY FoldExists
<1> DEFINE good == {s \in SUBSET R : g[s] \in Int}
<1>2. g[{}] = q
  <2> HIDE DEF step
  <2>1. QED
    BY <1>1 DEF IsFold
<1>3. ASSUME NEW s \in SUBSET R, s # {}, g[s \ {Pick(s)}] \in Int
      PROVE  g[s] = TakeFrom(Pick(s), g[s \ {Pick(s)}]) /\ g[s] \in Int
  <2>1. g[s] = step[<<Pick(s), g[s \ {Pick(s)}]>>]
    <3> HIDE DEF step
    <3>1. QED
      BY <1>1, <1>3 DEF IsFold
  <2>2. Pick(s) \in R
    BY <1>3, PickIn
  <2>3. QED
    BY <1>3, <2>1, <2>2, TakeFromIsInt
<1>4. ASSUME NEW s \in SUBSET R, \A x \in s : s \ {x} \in good
      PROVE  s \in good
  <2>1. CASE s = {}
    BY <1>2, <2>1
  <2>2. CASE s # {}
    <3>1. g[s \ {Pick(s)}] \in Int
      BY <1>4, <2>2, PickIn
    <3>2. QED
      BY <1>3, <2>2, <3>1
  <2>3. QED
    BY <2>1, <2>2
<1>5. SUBSET R \subseteq good
  <2> HIDE DEF good
  <2>1. QED
    BY <1>4, Subsets
<1>6. ASSUME NEW s \in SUBSET R
      PROVE  g[s] = IF s = {} THEN q ELSE TakeFrom(Pick(s), g[s \ {Pick(s)}])
  BY <1>2, <1>3, <1>5
<1>7. IsTaking(g, q, R)
  <2>1. g = [s \in SUBSET R |-> g[s]]
    <3> HIDE DEF step
    <3>1. QED
      BY <1>1 DEF IsFold
  <2> HIDE DEF step
  <2>2. QED
    BY <1>6, <2>1 DEF IsTaking
<1>8. QED
  BY <1>7

\* What the entries of the prices in R say is there.
Offered(R) == SumFunctionOnSet([p \in R |-> data[p].quantity], R)

\* What is not yet covered when the loop has been through the prices in s.
LEMMA TakingIs ==
    ASSUME NEW R, IsFiniteSet(R), NEW f, \A p \in R : f[p] \in Nat /\ data[p].quantity = f[p],
           NEW q \in Nat, NEW g, IsTaking(g, q, R)
    PROVE  g[R] = IF R = {} THEN q
                  ELSE IF q <= SumFunctionOnSet(f, R) THEN Covered
                  ELSE q - SumFunctionOnSet(f, R)
<1> DEFINE left(s) == IF s = {} THEN q
                      ELSE IF q <= SumFunctionOnSet(f, s) THEN Covered
                      ELSE q - SumFunctionOnSet(f, s)
           good == {s \in SUBSET R : g[s] = left(s)}
<1>1. ASSUME NEW s \in SUBSET R, \A x \in s : s \ {x} \in good
      PROVE  g[s] = left(s)
  <2>1. CASE s = {}
    BY <2>1 DEF IsTaking
  <2>2. CASE s # {}
    <3> DEFINE c == Pick(s)
               rest == SumFunctionOnSet(f, s \ {c})
               all == SumFunctionOnSet(f, s)
    <3>1. c \in s /\ IsFiniteSet(s) /\ IsFiniteSet(s \ {c}) /\ f[c] \in Nat
      BY <2>2, PickIn, FS_Subset, FS_RemoveElement
    <3>2. all = f[c] + rest
      <4>1. \A x \in s : f[x] \in Int
        OBVIOUS
      <4> HIDE DEF c
      <4>2. QED
        BY <3>1, <4>1, SumAt
    <3>3. rest \in Nat
      <4>1. \A x \in s \ {c} : f[x] \in Nat
        OBVIOUS
      <4>2. QED
        BY <3>1, <4>1, SumIsNat
    <3>4. g[s] = TakeFrom(c, g[s \ {c}])
      BY <2>2 DEF IsTaking
    <3>5. g[s \ {c}] = left(s \ {c})
      BY <1>1, <3>1
    <3>6. data[c].quantity = f[c]
      BY <3>1
    <3>7. s \ {c} = {} => rest = 0
      BY SumEmpty
    <3>8. g[s] = IF q <= all THEN Covered ELSE q - all
      <4>1. CASE s \ {c} = {}
        <5>1. g[s] = TakeFrom(c, q)
          BY <3>4, <3>5, <4>1
        <5> HIDE DEF c, rest, all
        <5>2. QED
          BY <3>1, <3>2, <3>3, <3>6, <3>7, <4>1, <5>1 DEF TakeFrom
      <4>2. CASE s \ {c} # {}
        <5>1. g[s] = TakeFrom(c, IF q <= rest THEN Covered ELSE q - rest)
          BY <3>4, <3>5, <4>2
        <5> HIDE DEF c, rest, all
        <5>2. QED
          BY <3>1, <3>2, <3>3, <3>6, <5>1 DEF TakeFrom, Covered
      <4>3. QED
        BY <4>1, <4>2
    <3>9. QED
      BY <2>2, <3>8
  <2>3. QED
    BY <2>1, <2>2
<1>2. SUBSET R \subseteq good
  <2>1. ASSUME NEW s \in SUBSET R, \A x \in s : s \ {x} \in good
        PROVE  s \in good
    BY <1>1, <2>1
  <2> HIDE DEF good
  <2>2. QED
    BY <2>1, Subsets
<1>3. QED
  BY <1>2

\* The loop ends with everything covered when the entries offer enough.
LEMMA FoldCovers ==
    ASSUME NEW R, IsFiniteSet(R), \A p \in R : data[p].quantity \in Nat, NEW q \in Nat
    PROVE  FoldSet(TakeFrom, q, R) = Covered <=> R # {} /\ q <= Offered(R)
<1> DEFINE g == CHOOSE h : IsTaking(h, q, R)
           f == [p \in R |-> data[p].quantity]
<1>1. FoldSet(TakeFrom, q, R) = g[R]
  BY DEF FoldSet, MapThenFoldSet, IsTaking, Pick
<1>2. IsTaking(g, q, R)
  <2>1. q \in Int
    OBVIOUS
  <2>2. \E h : IsTaking(h, q, R)
    BY <2>1, TakingExists
  <2>3. QED
    BY <2>2
<1>3. \A p \in R : f[p] \in Nat /\ data[p].quantity = f[p]
  OBVIOUS
<1> HIDE DEF g, f
<1>4. g[R] = IF R = {} THEN q
             ELSE IF q <= SumFunctionOnSet(f, R) THEN Covered
             ELSE q - SumFunctionOnSet(f, R)
  BY <1>2, <1>3, TakingIs
<1>5. SumFunctionOnSet(f, R) \in Nat
  BY <1>3, SumIsNat
<1>6. Offered(R) = SumFunctionOnSet(f, R)
  BY DEF Offered, f
<1>7. QED
  BY <1>1, <1>4, <1>5, <1>6 DEF Covered
------------------------------------------------------------------------------
(* What CanFullyFill answers. *)

\* The orders at one of the prices in R.
WithPriceIn(o, R) == {id \in DOMAIN o : o[id].price \in R}

LEMMA RemainingUnion ==
    ASSUME NEW o, NEW S, NEW T, Summable(o, S), Summable(o, T), S \cap T = {}
    PROVE  /\ Summable(o, S \cup T)
           /\ RemainingOf(o, S \cup T) = RemainingOf(o, S) + RemainingOf(o, T)
<1> DEFINE f == [i \in S \cup T |-> o[i].remaining]
           g == [i \in S |-> o[i].remaining]
           h == [i \in T |-> o[i].remaining]
<1>1. /\ IsFiniteSet(S) /\ IsFiniteSet(T) /\ IsFiniteSet(S \cup T)
      /\ \A i \in S \cup T : f[i] \in Int /\ o[i].remaining \in Nat
      /\ \A i \in S : g[i] = f[i] /\ f[i] \in Int
      /\ \A i \in T : h[i] = f[i] /\ f[i] \in Int
  <2>1. IsFiniteSet(S) /\ IsFiniteSet(T)
    BY DEF Summable
  <2>2. IsFiniteSet(S \cup T)
    BY <2>1, FS_Union
  <2>3. \A i \in S \cup T : o[i].remaining \in Nat
    BY DEF Summable
  <2>4. QED
    BY <2>1, <2>2, <2>3
<1> HIDE DEF f, g, h
<1>2. SumFunctionOnSet(f, S \cup T) = SumFunctionOnSet(f, S) + SumFunctionOnSet(f, T)
  BY <1>1, SumUnion
<1>3. SumFunctionOnSet(g, S) = SumFunctionOnSet(f, S)
  BY <1>1, SumSame
<1>4. SumFunctionOnSet(h, T) = SumFunctionOnSet(f, T)
  BY <1>1, SumSame
<1>5. QED
  BY <1>1, <1>2, <1>3, <1>4 DEF Summable, RemainingOf, f, g, h

\* What is left of the orders at some prices, price by price.
LEMMA RemainingByPrice ==
    ASSUME NEW o, Summable(o, DOMAIN o), NEW R, IsFiniteSet(R),
           NEW v, \A p \in R : v[p] = RemainingOf(o, AtPrice(o, p))
    PROVE  SumFunctionOnSet(v, R) = RemainingOf(o, WithPriceIn(o, R))
<1>1. ASSUME NEW S, S \subseteq DOMAIN o
      PROVE  Summable(o, S) /\ RemainingOf(o, S) \in Nat
  BY <1>1, FS_Subset, RemainingIsNat DEF Summable
<1>2. ASSUME NEW p \in R PROVE v[p] \in Int
  <2>1. AtPrice(o, p) \subseteq DOMAIN o
    BY DEF AtPrice
  <2>2. RemainingOf(o, AtPrice(o, p)) \in Nat
    BY <1>1, <2>1
  <2>3. QED
    BY <2>2
<1> DEFINE good == {s \in SUBSET R :
                       SumFunctionOnSet(v, s) = RemainingOf(o, WithPriceIn(o, s))}
<1>3. ASSUME NEW s \in SUBSET R, \A x \in s : s \ {x} \in good
      PROVE  SumFunctionOnSet(v, s) = RemainingOf(o, WithPriceIn(o, s))
  <2>1. CASE s = {}
    <3>1. WithPriceIn(o, s) = {}
      BY <2>1 DEF WithPriceIn
    <3>2. QED
      BY <2>1, <3>1, SumEmpty, RemainingOfNone
  <2>2. CASE s # {}
    <3> DEFINE c == Pick(s)
               S == WithPriceIn(o, s \ {c})
               T == AtPrice(o, c)
    <3>1. c \in s /\ IsFiniteSet(s)
      BY <2>2, PickIn, FS_Subset
    <3>2. WithPriceIn(o, s) = S \cup T /\ S \cap T = {}
      BY <3>1 DEF WithPriceIn, AtPrice
    <3>3. Summable(o, S) /\ Summable(o, T) /\ RemainingOf(o, S) \in Nat
          /\ RemainingOf(o, T) \in Nat
      BY <1>1 DEF WithPriceIn, AtPrice
    <3>4. RemainingOf(o, S \cup T) = RemainingOf(o, S) + RemainingOf(o, T)
      <4> HIDE DEF S, T
      <4>1. QED
        BY <3>2, <3>3, RemainingUnion
    <3>5. SumFunctionOnSet(v, s) = v[c] + SumFunctionOnSet(v, s \ {c})
      <4>1. \A x \in s : v[x] \in Int
        BY <1>2
      <4> HIDE DEF c
      <4>2. QED
        BY <3>1, <4>1, SumAt
    <3>6. SumFunctionOnSet(v, s \ {c}) = RemainingOf(o, S)
      BY <1>3, <3>1
    <3>7. v[c] = RemainingOf(o, T)
      BY <3>1
    <3>8. RemainingOf(o, T) + RemainingOf(o, S) = RemainingOf(o, S) + RemainingOf(o, T)
      <4> DEFINE a == RemainingOf(o, S)
                 b == RemainingOf(o, T)
      <4>1. a \in Nat /\ b \in Nat
        BY <3>3
      <4> HIDE DEF a, b
      <4>2. b + a = a + b
        BY <4>1
      <4>3. QED
        BY <4>2 DEF a, b
    <3>9. QED
      BY <3>2, <3>4, <3>5, <3>6, <3>7, <3>8
  <2>3. QED
    BY <2>1, <2>2
<1>4. SUBSET R \subseteq good
  <2>1. ASSUME NEW s \in SUBSET R, \A x \in s : s \ {x} \in good
        PROVE  s \in good
    BY <1>3, <2>1
  <2> HIDE DEF good
  <2>2. QED
    BY <2>1, Subsets
<1>5. QED
  BY <1>4

\* m bounds what is left of any order, now and when ModifyOrder adds it back.
Bounded(m) ==
    /\ \A id \in DOMAIN orders : orders[id].remaining <= m
    /\ \A t \in Thread : pc[t] \in {"cancelOriginal", "addModified"} =>
            request[t].order.remaining <= m

\* The clients for which no total of data_ wraps.
NeverWraps(m) ==
    /\ m \in Nat
    /\ \A quantity \in InputQty \cup ModifyQty : quantity <= m
    /\ m * Cardinality(OrderId) < QMod

TotalsFit == TotalsHold /\ \E m : NeverWraps(m)

\* The orders an order of that side and limit can trade with.
Accepted(o, side, price) ==
    {id \in DOMAIN o : o[id].side = Opposite(side) /\ Accepts(side, price, o[id].price)}

LEMMA LiquidityIs ==
    \A side, price :
        Liquidity(side, price) = RemainingOf(orders, Accepted(orders, side, price))
BY DEF Liquidity, RemainingOf, Accepted

LEMMA EntryIs ==
    ASSUME TotalsHold, IInv, LevelsCounted(orders, data), NEW m, NeverWraps(m),
           Bounded(m), NEW p \in DOMAIN data
    PROVE  /\ p \in Price
           /\ data[p].quantity = RemainingOf(orders, AtPrice(orders, p))
           /\ data[p].quantity \in Nat
<1> DEFINE S == AtPrice(orders, p)
           f == [id \in S |-> orders[id].remaining]
<1>1. IsMap(orders, OrderId, Order) /\ IsMap(data, Price, LevelTotals) /\ p \in Price
  BY DEF IInv, BookInv, IsMap
<1>2. Counted(data, p, Cardinality(S), RemainingOf(orders, S))
  BY <1>1 DEF LevelsCounted
<1>3. /\ Summable(orders, S) /\ IsFiniteSet(S) /\ RemainingOf(orders, S) \in Nat
  BY <1>1, FewOrders
<1>4. RemainingOf(orders, S) <= m * Cardinality(S)
  <2>1. \A id \in S : f[id] \in 0 .. m
    BY <1>3 DEF Bounded, Summable, AtPrice, NeverWraps
  <2>2. m \in Nat
    BY DEF NeverWraps
  <2> HIDE DEF f
  <2>3. SumFunctionOnSet(f, S) <= m * Cardinality(S)
    <3> HIDE DEF S
    <3>1. QED
      BY <1>3, <2>1, <2>2, SumBound
  <2>4. QED
    BY <2>3 DEF f, RemainingOf
<1>5. RemainingOf(orders, S) \in Quantity
  <2>1. S \subseteq OrderId
    BY <1>1 DEF AtPrice, IsMap
  <2>2. /\ Cardinality(S) \in Nat /\ Cardinality(OrderId) \in Nat
        /\ Cardinality(S) <= Cardinality(OrderId)
    BY <2>1, FS_Subset, FS_CardinalityType DEF TotalsHold
  <2> DEFINE n == Cardinality(S)
             k == Cardinality(OrderId)
  <2>3. n \in Nat /\ k \in Nat /\ n <= k /\ m \in Nat /\ m * k < QMod
    BY <2>2 DEF NeverWraps
  <2> HIDE DEF n, k
  <2>4. m * n <= m * k /\ m * n \in Nat /\ m * k \in Nat
    BY <2>3
  <2>5. RemainingOf(orders, S) <= m * n
    BY <1>4 DEF n
  <2> DEFINE r == RemainingOf(orders, S)
  <2>6. r \in Nat /\ r <= m * n
    BY <1>3, <2>5
  <2> HIDE DEF r
  <2>7. r \in Quantity
    BY <2>3, <2>4, <2>6, QModAssumption DEF Quantity
  <2>8. QED
    BY <2>7 DEF r
<1>6. data[p].quantity = RemainingOf(orders, S) % QMod
  BY <1>2 DEF Counted, TotalsAt
<1>7. QED
  BY <1>1, <1>3, <1>5, <1>6, NoWrap

\* The entries in range are those of the orders that would be traded with: at
\* rest no order of the same side is there.
LEMMA RangeIsAccepted ==
    ASSUME TotalsHold, IInv, LevelsCounted(orders, data), mutex = NoThread,
           NEW side \in Side, NEW price \in Price, CanMatch(side, price)
    PROVE  WithPriceIn(orders, InRange(side, price)) = Accepted(orders, side, price)
<1> DEFINE other == Opposite(side)
<1>1. BookInv(book, orders, data) /\ BookOK(book) /\ IsMap(orders, OrderId, Order)
  BY DEF IInv, BookInv
<1>2. other \in Side /\ other # side /\ \A s \in Side : s = side \/ s = other
  BY DEF Opposite, Side
<1>3. PICK best \in Best(other) : Accepts(side, price, best)
  BY DEF CanMatch
<1>4. \A p \in Levels(other) : ~Ahead(other, p, best)
  BY <1>3 DEF Best
<1>5. \A s \in Side : Levels(s) \subseteq Int
  BY <1>1, LevelsAreInts
<1>6. \A b \in Best(other) : b \in Levels(other) /\ ~Ahead(other, best, b)
  BY <1>3 DEF Best
<1>7. \A id \in DOMAIN orders :
        /\ orders[id].side \in Side /\ orders[id].price \in Levels(orders[id].side)
        /\ orders[id].price \in DOMAIN data
  <2>1. LevelDataExact
    BY CountedIsExact
  <2>2. QED
    BY <1>1, <2>1, FiledAt DEF LevelDataExact
<1>8. \A bp \in Levels("Buy"), ap \in Levels("Sell") : bp < ap
  BY DEF IInv, UncrossedAtRest
<1>9. ASSUME NEW p \in Levels(side)
      PROVE  p \notin InRange(side, price)
  <2> SUFFICES ASSUME NEW b \in Best(other), ~Ahead(other, p, b)
               PROVE  FALSE
    BY DEF InRange
  <2>1. b \in Levels(other) /\ b \in Int /\ p \in Int
    BY <1>2, <1>5, <1>6
  <2>2. CASE side = "Buy"
    <3>1. p < b
      BY <1>8, <2>1, <2>2 DEF Opposite
    <3>2. QED
      BY <2>1, <2>2, <3>1 DEF Opposite, Ahead
  <2>3. CASE side = "Sell"
    <3>1. b < p
      BY <1>8, <2>1, <2>3 DEF Opposite
    <3>2. QED
      BY <2>1, <2>3, <3>1 DEF Opposite, Ahead
  <2>4. QED
    BY <2>2, <2>3 DEF Side
<1>10. ASSUME NEW id \in DOMAIN orders
       PROVE  orders[id].price \in InRange(side, price)
                <=> orders[id].side = other /\ Accepts(side, price, orders[id].price)
  BY <1>2, <1>3, <1>4, <1>7, <1>9 DEF InRange
<1>11. QED
  BY <1>10 DEF WithPriceIn, Accepted

LEMMA CanFillIsExact ==
    ASSUME TotalsHold, IInv, TakerInv, LevelsCounted(orders, data), NEW m,
           NeverWraps(m), Bounded(m)
    PROVE  CanFullyFillExact
<1> SUFFICES ASSUME mutex = NoThread, NEW side \in Side, NEW price \in Price,
                    NEW quantity \in Quantity, CanMatch(side, price)
             PROVE  FoldSet(TakeFrom, quantity, InRange(side, price)) = Covered
                      <=> quantity <= Liquidity(side, price)
  BY DEF CanFullyFillExact, CanFullyFill
<1> DEFINE R == InRange(side, price)
           v == [p \in R |-> data[p].quantity]
<1>1. BookOK(book) /\ Agree(book, orders) /\ IsMap(orders, OrderId, Order)
  BY DEF IInv, BookInv
<1>2. R \subseteq DOMAIN data
  BY DEF InRange
<1>3. DOMAIN data = {orders[id].price : id \in DOMAIN orders}
  BY CountedIsExact DEF LevelDataExact
<1>4. IsFiniteSet(DOMAIN orders) /\ Summable(orders, DOMAIN orders)
  <2>1. IsFiniteSet(DOMAIN orders)
    BY <1>1, FS_Subset DEF TotalsHold, IsMap
  <2>2. QED
    BY <2>1, OrdersSummable DEF OrdersFinite
<1>5. IsFiniteSet(R)
  <2> DEFINE at == [id \in DOMAIN orders |-> orders[id].price]
             prices == {orders[id].price : id \in DOMAIN orders}
  <2>1. at \in Surjection(DOMAIN orders, prices)
    BY DEF Surjection
  <2>2. IsFiniteSet(prices)
    BY <1>4, <2>1, FS_Surjection
  <2>3. QED
    BY <1>2, <1>3, <2>2, FS_Subset
<1>6. \A p \in R : /\ data[p].quantity = RemainingOf(orders, AtPrice(orders, p))
                   /\ data[p].quantity \in Nat
  BY <1>2, EntryIs
<1>7. Offered(R) = Liquidity(side, price)
  <2>1. \A p \in R : v[p] = RemainingOf(orders, AtPrice(orders, p))
    BY <1>6
  <2> HIDE DEF v, R
  <2>2. SumFunctionOnSet(v, R) = RemainingOf(orders, WithPriceIn(orders, R))
    BY <1>4, <1>5, <2>1, RemainingByPrice
  <2>3. WithPriceIn(orders, R) = Accepted(orders, side, price)
    BY RangeIsAccepted DEF R
  <2>4. QED
    BY <2>2, <2>3, LiquidityIs DEF Offered, v
<1>8. R # {}
  <2>1. PICK p \in Best(Opposite(side)) : Accepts(side, price, p)
    BY DEF CanMatch
  <2>2. p \in Levels(Opposite(side)) /\ ~Ahead(Opposite(side), p, p)
    BY <2>1 DEF Best
  <2>3. NoneEmpty
    BY FreeMutex, NoneEmptyUnlessCrossed DEF IInv, TakerInv
  <2>4. /\ Opposite(side) \in Side /\ p \in DOMAIN book[Opposite(side)]
        /\ book[Opposite(side)][p] # <<>>
    BY <2>2, <2>3, OppositeIsSide DEF NoneEmpty, Levels
  <2>5. PICK id \in DOMAIN orders : orders[id].price = p
    BY <1>1, <2>4, FrontIsFiled
  <2>6. p \in DOMAIN data
    BY <1>3, <2>5
  <2>7. QED
    BY <2>1, <2>2, <2>6 DEF InRange
<1>9. quantity \in Nat
  BY QModAssumption DEF Quantity
<1> HIDE DEF R
<1>10. FoldSet(TakeFrom, quantity, R) = Covered <=> R # {} /\ quantity <= Offered(R)
  BY <1>5, <1>6, <1>9, FoldCovers
<1>11. QED
  BY <1>7, <1>8, <1>10 DEF R
------------------------------------------------------------------------------
(* The bound on what is left of an order, through the steps. *)

\* e has orders of o only, and none of them has grown.
NoneGrows(o, e) ==
    \A i \in DOMAIN e : i \in DOMAIN o /\ e[i].remaining <= o[i].remaining

LEMMA RemainingsAreNat ==
    ASSUME IInv
    PROVE  \A i \in DOMAIN orders : orders[i].remaining \in Nat
BY QModAssumption DEF IInv, BookInv, IsMap, Order, Quantity

LEMMA FillShrinks ==
    ASSUME IInv, NEW t \in Thread, FillFront(t)
    PROVE  NoneGrows(orders, orders')
<1>1. PICK bid, ask, newBid, newAsk, quantity :
        Trades(bid, ask, newBid, newAsk, quantity)
  BY FillTrades
<1>2. /\ bid \in DOMAIN orders /\ ask \in DOMAIN orders
      /\ newBid.remaining <= orders[bid].remaining
      /\ newAsk.remaining <= orders[ask].remaining
  BY <1>1, QModAssumption DEF Trades, Fill, Order, Quantity
<1>3. \A i \in DOMAIN orders : orders[i].remaining <= orders[i].remaining
  BY RemainingsAreNat
<1>4. orders' = Settle(Settle(orders, bid, newBid), ask, newAsk)
  BY <1>1 DEF Trades
<1>5. QED
  BY <1>2, <1>3, <1>4 DEF NoneGrows, Settle, Put, Without, Restrict

LEMMA NextBounded ==
    ASSUME TotalsHold, NEW m, NeverWraps(m)
    PROVE  IInv /\ Bounded(m) /\ [Next]_vars => Bounded(m)'
<1> SUFFICES ASSUME IInv, Bounded(m), [Next]_vars PROVE Bounded(m)'
  OBVIOUS
<1> DEFINE Small == \A id \in DOMAIN orders : orders[id].remaining <= m
           Asked == \A t \in Thread : pc[t] \in {"cancelOriginal", "addModified"} =>
                       request[t].order.remaining <= m
<1>1. /\ pc \in [Thread -> {"idle", "matching", "relocking",
                            "cancelOriginal", "addModified"}]
      /\ request \in [Thread -> [id : OrderId, order : Order] \cup {NoCall}]
      /\ IInv' /\ Small /\ Asked /\ m \in Int
  BY NextIInv DEF IInv, LocalTypeOK, Bounded, NeverWraps
<1>2. ASSUME NoneGrows(orders, orders') PROVE Small'
  <2>1. \A i \in DOMAIN orders : orders[i].remaining \in Int
    BY RemainingsAreNat
  <2>2. \A i \in DOMAIN orders' : orders'[i].remaining \in Int
    BY <1>1, QModAssumption DEF IInv, BookInv, IsMap, Order, Quantity
  <2>3. QED
    BY <1>1, <1>2, <2>1, <2>2 DEF NoneGrows
<1>3. ASSUME NEW id, orders' = Without(orders, id) PROVE Small'
  BY <1>1, <1>3 DEF Without, Restrict
<1>4. ASSUME NEW t \in Thread, NEW id \in OrderId, NEW order, order.remaining <= m,
             NEW o \in Admitted(id, order), order \in Order,
             Insert(t, id, o, order.type)
      PROVE  Small'
  <2>1. o.remaining = order.remaining
    BY <1>4 DEF Admitted, ToGoodTillCancel, Order
  <2>2. orders' = Put(orders, id, o)
    BY <1>4 DEF Insert
  <2>3. QED
    BY <1>1, <1>4, <2>1, <2>2 DEF Put
<1>5. ASSUME UNCHANGED orders PROVE Small'
  BY <1>1, <1>5
<1>6. ASSUME NEW t \in Thread, UNCHANGED request,
             pc' = pc \/ \E at \in {"idle", "matching", "relocking"} :
                            pc' = [pc EXCEPT ![t] = at]
      PROVE  Asked'
  BY <1>1, <1>6
<1>7. ASSUME NEW t \in Thread, NEW id \in OrderId, NEW type \in InputType,
             NEW side \in Side, NEW price \in Price, NEW quantity \in InputQty,
             NEW filled \in InputFilled, Submittable(type, quantity, filled),
             AddOrder(t, id, Fill(NewOrder(type, side, price, quantity), filled))
      PROVE  Small' /\ Asked'
  <2> DEFINE order == Fill(NewOrder(type, side, price, quantity), filled)
  <2>1. order \in Order
    BY <1>7, SubmittedIsOrder
  <2>2. order.remaining <= m
    <3>1. quantity <= m /\ quantity \in Int /\ filled = 0
      BY InputAssumption, QModAssumption DEF NeverWraps, TotalsHold, Quantity
    <3>2. order.remaining = quantity
      BY <3>1 DEF Fill, NewOrder
    <3>3. QED
      BY <3>1, <3>2
  <2> HIDE DEF order
  <2>3. AddOrder(t, id, order)
    BY <1>7 DEF order
  <2>4. Small'
    <3> HIDE DEF Small
    <3>1. QED
      BY <1>4, <2>1, <2>2, <2>3 DEF AddOrder
  <2>5. Asked'
    <3> HIDE DEF Asked
    <3>1. QED
      BY <1>6, <2>3 DEF AddOrder, Insert
  <2>6. QED
    BY <2>4, <2>5
<1>8. ASSUME NEW t \in Thread, NEW id \in OrderId, CancelOrder(t, id)
      PROVE  Small' /\ Asked'
  <2> HIDE DEF Small, Asked
  <2>1. QED
    BY <1>3, <1>6, <1>8 DEF CancelOrder, CancelOrderInternal
<1>9. ASSUME NEW t \in Thread, NEW id \in OrderId, NEW side \in Side,
             NEW price \in Price, NEW quantity \in ModifyQty,
             ModifyOrder(t, id, side, price, quantity)
      PROVE  Small' /\ Asked'
  <2>1. quantity <= m
    BY DEF NeverWraps
  <2>2. Asked'
    BY <1>1, <1>9, <2>1 DEF ModifyOrder, NewOrder
  <2> HIDE DEF Small, Asked
  <2>3. QED
    BY <1>5, <1>9, <2>2 DEF ModifyOrder
<1>10. ASSUME NEW t \in Thread, CancelOriginal(t)
       PROVE  Small' /\ Asked'
  <2>1. Asked'
    BY <1>1, <1>10 DEF CancelOriginal
  <2> HIDE DEF Small, Asked
  <2>2. QED
    BY <1>3, <1>5, <1>10, <2>1 DEF CancelOriginal, CancelOrderInternal, bookVars
<1>11. ASSUME NEW t \in Thread, AddModified(t)
       PROVE  Small' /\ Asked'
  <2>1. /\ request[t].id \in OrderId /\ request[t].order \in Order
        /\ request[t].order.remaining <= m
    BY <1>11 DEF AddModified, IInv, LockHeld, Bounded
  <2>2. Asked'
    <3>1. request' = [request EXCEPT ![t] = NoCall]
      BY <1>11 DEF AddModified
    <3>2. PICK at \in {"idle", "matching"} : pc' = [pc EXCEPT ![t] = at]
      BY <1>11 DEF AddModified, Insert
    <3>3. QED
      BY <1>1, <3>1, <3>2
  <2>3. Small'
    <3> HIDE DEF Small
    <3>1. CASE \E o \in Admitted(request[t].id, request[t].order) :
                  Insert(t, request[t].id, o, request[t].order.type)
      BY <1>4, <2>1, <3>1
    <3>2. QED
      BY <1>5, <1>11, <3>1 DEF AddModified
  <2>4. QED
    BY <2>2, <2>3
<1>12. ASSUME NEW t \in Thread, Matching(t)
       PROVE  Small' /\ Asked'
  <2> HIDE DEF Small, Asked
  <2>1. Asked'
    BY <1>6, <1>12 DEF Matching, FillFront, DropEmptyLevels, Return, KillRemainder
  <2>2. Small'
    BY <1>2, <1>5, <1>12, FillShrinks
    DEF Matching, DropEmptyLevels, Return, KillRemainder
  <2>3. QED
    BY <2>1, <2>2
<1>13. ASSUME UNCHANGED vars
       PROVE  Small' /\ Asked'
  BY <1>1, <1>13 DEF vars
<1>14. Small' /\ Asked'
  <2> HIDE DEF Small, Asked
  <2>1. QED
    BY <1>7, <1>8, <1>9, <1>10, <1>11, <1>12, <1>13 DEF Next, Client, Modifying
<1>15. QED
  BY <1>14 DEF Bounded

LEMMA InitBounded == \A m : Init => Bounded(m)
BY DEF Init, Bounded

\* CanFullyFill reads data_ and answers what the orders themselves would, for
\* every order it could be asked about: the entries between the best opposite
\* price and the limit are those of opposite orders, and no other.
THEOREM CanFillIsRight ==
    ASSUME TotalsFit
    PROVE  Spec => []CanFullyFillExact
<1>1. PICK m : NeverWraps(m)
  BY DEF TotalsFit
<1> DEFINE Inv == IInv /\ TakerInv /\ TotalsInv /\ Bounded(m)
<1>2. Init => Inv
  BY InitIInv, InitTaker, InitCounted, InitBounded
<1>3. Inv /\ [Next]_vars => Inv'
  BY <1>1, NextIInv, NextTaker, NextCounted, NextBounded DEF TotalsFit
<1>4. Inv => CanFullyFillExact
  BY <1>1, CanFillIsExact DEF TotalsFit, TotalsInv
<1> HIDE DEF Inv
<1>5. QED
  BY <1>2, <1>3, <1>4, PTL DEF Spec
------------------------------------------------------------------------------
(* A FillOrKill order on its way through the book. *)

\* What is left of the FillOrKill order being added is there to trade with.
FillInv ==
    mutex # NoThread /\ adding.type = "FillOrKill" /\ adding.id \in DOMAIN orders =>
        LET a == orders[adding.id]
            S == Accepted(orders, a.side, a.price)
        IN  S # {} /\ a.remaining <= RemainingOf(orders, S)

LEMMA InsertFillInv ==
    ASSUME TotalsHold, IInv, TakerInv, LevelsCounted(orders, data), NEW m,
           NeverWraps(m), Bounded(m), mutex = NoThread, NEW t \in Thread,
           NEW id \in OrderId, NEW order \in Order, Fresh(order),
           NEW o \in Admitted(id, order), Insert(t, id, o, order.type)
    PROVE  FillInv'
<1> SUFFICES ASSUME order.type = "FillOrKill"
             PROVE  LET a == orders'[id]
                        S == Accepted(orders', a.side, a.price)
                    IN  S # {} /\ a.remaining <= RemainingOf(orders', S)
  BY DEF Insert, FillInv
<1>1. BookOK(book) /\ Agree(book, orders) /\ IsMap(orders, OrderId, Order)
  BY DEF IInv, BookInv
<1>2. o = order /\ CanFullyFill(o.side, o.price, o.initial)
  BY DEF Admitted
<1>3. /\ o \in Order /\ id \notin DOMAIN orders /\ o.side \in Side
      /\ o.price \in Price /\ o.initial \in Quantity /\ o.remaining = o.initial
  BY <1>1, <1>2, AdmittedIsOrder DEF Order, Fresh
<1> DEFINE S == Accepted(orders, o.side, o.price)
           other == Opposite(o.side)
<1>4. CanMatch(o.side, o.price) /\ o.initial <= Liquidity(o.side, o.price)
  BY <1>2, <1>3, CanFillIsExact DEF CanFullyFillExact
<1>5. orders' = Put(orders, id, o)
  BY DEF Insert
<1>6. other \in Side /\ other # o.side
  BY <1>3 DEF Opposite, Side
<1>7. Accepted(orders', o.side, o.price) = S /\ orders'[id] = o
  BY <1>3, <1>5, <1>6 DEF Accepted, Put
<1>8. RemainingOf(orders', S) = RemainingOf(orders, S)
  <2>1. \A i \in S : orders'[i].remaining = orders[i].remaining
    BY <1>3, <1>5 DEF Put, Accepted
  <2>2. QED
    BY <2>1, RemainingSame
<1>9. S # {}
  <2>1. PICK p \in Best(other) : Accepts(o.side, o.price, p)
    BY <1>4 DEF CanMatch
  <2>2. NoneEmpty
    BY FreeMutex, NoneEmptyUnlessCrossed DEF IInv, TakerInv
  <2>3. p \in DOMAIN book[other] /\ book[other][p] # <<>>
    BY <1>6, <2>1, <2>2 DEF NoneEmpty, Best, Levels
  <2> HIDE DEF other
  <2>4. PICK i \in DOMAIN orders : orders[i].side = other /\ orders[i].price = p
    BY <1>1, <1>6, <2>3, FrontIsFiled
  <2>5. QED
    BY <2>1, <2>4 DEF Accepted, other
<1>10. o.remaining <= RemainingOf(orders, S)
  BY <1>3, <1>4, LiquidityIs
<1>11. QED
  BY <1>7, <1>8, <1>9, <1>10

\* The orders that trade: the one being added, and one it accepts.  When
\* something is left of the first, the other is used up.
LEMMA TakerAndOther ==
    ASSUME IInv, TakerInv, NEW t \in Thread, FillFront(t),
           adding.id \in DOMAIN orders'
    PROVE  \E b \in DOMAIN orders :
              LET a == adding.id
              IN  /\ a \in DOMAIN orders /\ a # b
                  /\ orders[b].side = Opposite(orders[a].side)
                  /\ Accepts(orders[a].side, orders[a].price, orders[b].price)
                  /\ b \notin DOMAIN orders'
                  /\ \A i \in DOMAIN orders \ {a, b} :
                        i \in DOMAIN orders' /\ orders'[i] = orders[i]
                  /\ orders'[a].remaining > 0
                  /\ orders'[a].remaining = orders[a].remaining - orders[b].remaining
<1>1. mutex # NoThread /\ IsMap(orders, OrderId, Order) /\ BookInv(book, orders, data)
  BY ThreadAssumption DEF FillFront, IInv, LockHeld, BookInv
<1>2. PICK bid, ask, newBid, newAsk, quantity :
        Trades(bid, ask, newBid, newAsk, quantity)
  BY FillTrades
<1>3. /\ bid \in DOMAIN orders /\ orders[bid] \in Order /\ orders[bid].side = "Buy"
      /\ ask \in DOMAIN orders /\ orders[ask] \in Order /\ orders[ask].side = "Sell"
      /\ orders[bid].price >= orders[ask].price /\ bid # ask
      /\ orders[bid].price \in Int /\ orders[ask].price \in Int
  BY <1>2, PriceAssumption DEF Trades, Order
<1>4. adding.id \in {bid, ask}
  <2>1. OthersRest(orders, adding.id)
    BY <1>1 DEF TakerInv
  <2>2. QED
    BY <1>3, <2>1 DEF OthersRest
<1>5. /\ orders' = Settle(Settle(orders, bid, newBid), ask, newAsk)
      /\ newBid.remaining = orders[bid].remaining - quantity
      /\ newAsk.remaining = orders[ask].remaining - quantity
      /\ quantity = Smaller(orders[bid].remaining, orders[ask].remaining)
      /\ orders[bid].remaining \in Nat /\ orders[ask].remaining \in Nat
      /\ newBid.remaining \in Nat /\ newAsk.remaining \in Nat
  BY <1>2, QModAssumption DEF Trades, Fill, Order, Quantity
<1>6. /\ bid \in DOMAIN orders' <=> ~IsFilled(newBid)
      /\ ask \in DOMAIN orders' <=> ~IsFilled(newAsk)
      /\ ~IsFilled(newBid) => orders'[bid] = newBid
      /\ ~IsFilled(newAsk) => orders'[ask] = newAsk
      /\ \A i \in DOMAIN orders \ {bid, ask} :
            i \in DOMAIN orders' /\ orders'[i] = orders[i]
  BY <1>3, <1>5 DEF Settle, Put, Without, Restrict
<1>7. CASE adding.id = bid
  <2>1. newBid.remaining # 0
    BY <1>6, <1>7 DEF IsFilled
  <2>2. quantity = orders[ask].remaining /\ newAsk.remaining = 0
    BY <1>5, <2>1 DEF Smaller
  <2>3. Opposite("Buy") = "Sell" /\ Accepts("Buy", orders[bid].price, orders[ask].price)
    BY <1>3 DEF Opposite, Accepts
  <2>4. ask \notin DOMAIN orders'
    BY <1>6, <2>2 DEF IsFilled
  <2>5. orders'[bid].remaining > 0
        /\ orders'[bid].remaining = orders[bid].remaining - orders[ask].remaining
    BY <1>5, <1>6, <2>1, <2>2 DEF IsFilled
  <2>6. QED
    BY <1>3, <1>6, <1>7, <2>3, <2>4, <2>5
<1>8. CASE adding.id = ask
  <2>1. newAsk.remaining # 0
    BY <1>6, <1>8 DEF IsFilled
  <2>2. quantity = orders[bid].remaining /\ newBid.remaining = 0
    BY <1>5, <2>1 DEF Smaller
  <2>3. Opposite("Sell") = "Buy" /\ Accepts("Sell", orders[ask].price, orders[bid].price)
    BY <1>3 DEF Opposite, Accepts
  <2>4. bid \notin DOMAIN orders'
    BY <1>6, <2>2 DEF IsFilled
  <2>5. orders'[ask].remaining > 0
        /\ orders'[ask].remaining = orders[ask].remaining - orders[bid].remaining
    BY <1>5, <1>6, <2>1, <2>2 DEF IsFilled
  <2>6. QED
    BY <1>3, <1>6, <1>8, <2>3, <2>4, <2>5
<1>9. QED
  BY <1>4, <1>7, <1>8

LEMMA FillFillInv ==
    ASSUME IInv, TakerInv, OrdersFinite, FillInv, NEW t \in Thread, FillFront(t)
    PROVE  FillInv'
<1> SUFFICES ASSUME mutex # NoThread, adding.type = "FillOrKill",
                    adding.id \in DOMAIN orders'
             PROVE  LET a == orders'[adding.id]
                        S == Accepted(orders', a.side, a.price)
                    IN  S # {} /\ a.remaining <= RemainingOf(orders', S)
  BY DEF FillInv, FillFront
<1> DEFINE a == adding.id
           side == orders[a].side
           price == orders[a].price
           S == Accepted(orders, side, price)
<1>1. PICK b \in DOMAIN orders :
        /\ a \in DOMAIN orders /\ a # b
        /\ orders[b].side = Opposite(side) /\ Accepts(side, price, orders[b].price)
        /\ b \notin DOMAIN orders'
        /\ \A i \in DOMAIN orders \ {a, b} :
              i \in DOMAIN orders' /\ orders'[i] = orders[i]
        /\ orders'[a].remaining > 0
        /\ orders'[a].remaining = orders[a].remaining - orders[b].remaining
  BY TakerAndOther
<1>2. orders[a].remaining <= RemainingOf(orders, S)
  BY <1>1 DEF FillInv
<1>3. /\ DOMAIN orders' \subseteq DOMAIN orders
      /\ orders'[a].side = side /\ orders'[a].price = price
      /\ \A i \in DOMAIN orders' :
            orders'[i].side = orders[i].side /\ orders'[i].price = orders[i].price
  BY FillKeeps DEF Kept
<1>4. a \notin S /\ b \in S
  BY <1>1 DEF Accepted, Opposite
<1>5. Accepted(orders', side, price) = S \ {b}
  BY <1>1, <1>3, <1>4 DEF Accepted
<1>6. /\ Summable(orders, S) /\ Summable(orders, S \ {b})
      /\ RemainingOf(orders, S) = orders[b].remaining + RemainingOf(orders, S \ {b})
      /\ RemainingOf(orders, S \ {b}) \in Nat
  <2>1. Summable(orders, S)
    BY OrdersSummable DEF Accepted
  <2> HIDE DEF S
  <2>2. QED
    BY <1>4, <2>1, RemainingApart, RemainingIsNat
<1>7. RemainingOf(orders', S \ {b}) = RemainingOf(orders, S \ {b})
  <2>1. \A i \in S \ {b} : orders'[i].remaining = orders[i].remaining
    BY <1>1, <1>4 DEF Accepted
  <2> HIDE DEF S
  <2>2. QED
    BY <2>1, RemainingSame
<1>8. orders[a].remaining \in Nat /\ orders[b].remaining \in Nat
  BY <1>1, RemainingsAreNat
<1>9. orders'[a].remaining <= RemainingOf(orders', S \ {b})
  <2> HIDE DEF S, a
  <2>1. QED
    BY <1>1, <1>2, <1>6, <1>7, <1>8
<1>10. S \ {b} # {}
  <2> SUFFICES ASSUME S \ {b} = {} PROVE FALSE
    OBVIOUS
  <2>1. RemainingOf(orders, S \ {b}) = 0
    BY RemainingOfNone
  <2> HIDE DEF S, a
  <2>2. QED
    BY <1>1, <1>2, <1>6, <1>8, <2>1
<1>11. QED
  BY <1>3, <1>5, <1>9, <1>10

LEMMA NextFillInv ==
    ASSUME TotalsHold, NEW m, NeverWraps(m)
    PROVE  IInv /\ TakerInv /\ TotalsInv /\ Bounded(m) /\ OrdersFinite /\ FillInv
             /\ [Next]_vars => FillInv'
<1> SUFFICES ASSUME IInv, TakerInv, FreshRequests, LevelsCounted(orders, data),
                    Bounded(m), OrdersFinite, FillInv, [Next]_vars
             PROVE  FillInv'
  BY DEF TotalsInv
<1>1. ASSUME mutex' = NoThread PROVE FillInv'
  BY <1>1 DEF FillInv
<1>2. ASSUME UNCHANGED <<orders, mutex, adding>> PROVE FillInv'
  BY <1>2 DEF FillInv
<1>3. ASSUME NEW t \in Thread, NEW id \in OrderId, NEW type \in InputType,
             NEW side \in Side, NEW price \in Price, NEW quantity \in InputQty,
             NEW filled \in InputFilled, Submittable(type, quantity, filled),
             AddOrder(t, id, Fill(NewOrder(type, side, price, quantity), filled))
      PROVE  FillInv'
  <2> DEFINE order == Fill(NewOrder(type, side, price, quantity), filled)
  <2>1. order \in Order
    BY <1>3, SubmittedIsOrder
  <2>2. Fresh(order)
    BY InputAssumption, QModAssumption DEF TotalsHold, Fresh, Fill, NewOrder, Quantity
  <2> HIDE DEF order
  <2>3. AddOrder(t, id, order)
    BY <1>3 DEF order
  <2>4. QED
    BY <2>1, <2>2, <2>3, InsertFillInv DEF AddOrder
<1>4. ASSUME NEW t \in Thread, AddModified(t) PROVE FillInv'
  <2>1. /\ request[t].id \in OrderId /\ request[t].order \in Order
        /\ Fresh(request[t].order) /\ mutex = NoThread
    BY <1>4 DEF AddModified, IInv, LockHeld, FreshRequests
  <2>2. CASE \E o \in Admitted(request[t].id, request[t].order) :
                Insert(t, request[t].id, o, request[t].order.type)
    BY <2>1, <2>2, InsertFillInv
  <2>3. QED
    BY <1>1, <1>4, <2>1, <2>2 DEF AddModified
<1>5. ASSUME NEW t \in Thread, Matching(t) PROVE FillInv'
  BY <1>1, <1>2, <1>5, FillFillInv DEF Matching, DropEmptyLevels, Return, KillRemainder
<1>6. QED
  BY <1>1, <1>2, <1>3, <1>4, <1>5
  DEF Next, Client, Modifying, CancelOrder, ModifyOrder, CancelOriginal, vars

\* An order that accepts another one crosses it.
LEMMA FillInvSuffices == IInv /\ FillInv => FillOrKillFills
<1> SUFFICES ASSUME IInv, FillInv, NEW t \in Thread, pc[t] = "matching", ~Crossed,
                    adding.type = "FillOrKill", adding.id \in DOMAIN orders
             PROVE  FALSE
  BY DEF FillOrKillFills
<1> DEFINE a == adding.id
<1>1. mutex # NoThread
  BY ThreadAssumption DEF IInv, LockHeld
<1>2. PICK b \in DOMAIN orders :
        /\ orders[b].side = Opposite(orders[a].side)
        /\ Accepts(orders[a].side, orders[a].price, orders[b].price)
  BY <1>1 DEF FillInv, Accepted
<1>3. /\ orders[a].side \in Side /\ orders[a].price \in Levels(orders[a].side)
      /\ orders[b].price \in Levels(orders[b].side)
      /\ orders[a].price \in Int /\ orders[b].price \in Int
  BY FiledAt, PriceAssumption DEF IInv
<1>4. QED
  BY <1>2, <1>3 DEF Side, Opposite, Accepts, Crossed

\* A FillOrKill order that AddOrder accepts is filled to the last unit,
\* although AddOrder decides by the totals of data_ and MatchOrders then
\* works on the lists: what the totals promised is there, at prices it accepts.
THEOREM FillOrKillIsFilled ==
    ASSUME TotalsFit
    PROVE  Spec => []FillOrKillFills
<1>1. PICK m : NeverWraps(m)
  BY DEF TotalsFit
<1> DEFINE Inv == /\ IInv /\ TakerInv /\ TotalsInv /\ Bounded(m)
                  /\ OrdersFinite /\ FillInv
<1>2. Init => Inv
  <2>1. Init => FillInv
    BY DEF Init, FillInv
  <2>2. QED
    BY <2>1, InitIInv, InitTaker, InitCounted, InitBounded, InitFinite
<1>3. Inv /\ [Next]_vars => Inv'
  BY <1>1, NextIInv, NextTaker, NextCounted, NextBounded, NextFinite, NextFillInv
  DEF TotalsFit
<1>4. Inv => FillOrKillFills
  BY FillInvSuffices
<1> HIDE DEF Inv
<1>5. QED
  BY <1>2, <1>3, <1>4, PTL DEF Spec
------------------------------------------------------------------------------
(* What ModifyOrder cancels and adds back. *)

\* The types of orders that rest.
Lasting == {"GoodTillCancel", "GoodForDay"}

AllLast(o) == \A id \in DOMAIN o : o[id].type \in Lasting

\* Orders at rest last, and so does what ModifyOrder makes of them; the order
\* being added has the type it was submitted with, unless that was Market.
LastingInv ==
    /\ mutex = NoThread => AllLast(orders)
    /\ mutex # NoThread => \A id \in DOMAIN orders :
          \/ orders[id].type \in Lasting
          \/ id = adding.id /\ orders[id].type = adding.type /\ adding.type # "Market"
    /\ \A t \in Thread : pc[t] \in {"cancelOriginal", "addModified"} =>
          request[t].order.type \in Lasting

\* Once ModifyOrder cancelled an order, its id is free.
CancelledIsGone ==
    \A t \in Thread : pc[t] = "addModified" => request[t].id \notin DOMAIN orders

OneThreadOnly == \A t, u \in Thread : t = u

LEMMA InsertLasting ==
    ASSUME LastingInv, mutex = NoThread, NEW t \in Thread, NEW id \in OrderId,
           NEW order \in Order, NEW o \in Admitted(id, order),
           Insert(t, id, o, order.type)
    PROVE  mutex' # NoThread /\ \A i \in DOMAIN orders' :
              \/ orders'[i].type \in Lasting
              \/ i = adding'.id /\ orders'[i].type = adding'.type /\ adding'.type # "Market"
<1>1. (o.type = order.type /\ order.type # "Market") \/ o.type = "GoodTillCancel"
  BY DEF Admitted, ToGoodTillCancel, Order
<1>2. /\ mutex' # NoThread /\ orders' = Put(orders, id, o)
      /\ adding'.id = id /\ adding'.type = order.type
  BY ThreadAssumption DEF Insert
<1>3. \A i \in DOMAIN orders' \ {id} : i \in DOMAIN orders /\ orders'[i] = orders[i]
  BY <1>2 DEF Put
<1>4. orders'[id] = o
  BY <1>2 DEF Put
<1>5. QED
  BY <1>1, <1>2, <1>3, <1>4 DEF LastingInv, AllLast, Lasting

\* When AddOrder returns, an order that does not last is gone: a FillAndKill
\* order would be killed, and a FillOrKill order is filled.
LEMMA ReturnLasting ==
    ASSUME IInv, TakerInv, FillOrKillFills, LastingInv, NEW t \in Thread, Return(t)
    PROVE  AllLast(orders)
<1>1. mutex # NoThread /\ pc[t] = "matching" /\ ~Crossed
  BY ThreadAssumption DEF Return, IInv, LockHeld
<1>2. NoneToKill(orders)
  BY <1>1, NoneEmptyUnlessCrossed, NothingToKill DEF Return, TakerInv
<1>3. adding.type = "FillOrKill" => adding.id \notin DOMAIN orders
  BY <1>1 DEF FillOrKillFills
<1>4. \A id \in DOMAIN orders : orders[id].type \in OrderType
  BY DEF IInv, BookInv, IsMap, Order
<1>5. QED
  BY <1>1, <1>2, <1>3, <1>4 DEF LastingInv, AllLast, NoneToKill, Lasting, OrderType

LEMMA NextLasting ==
    IInv /\ TakerInv /\ FillOrKillFills /\ LastingInv /\ [Next]_vars => LastingInv'
<1> SUFFICES ASSUME IInv, TakerInv, FillOrKillFills, LastingInv, [Next]_vars
             PROVE  LastingInv'
  OBVIOUS
<1>1. pc \in [Thread -> {"idle", "matching", "relocking",
                         "cancelOriginal", "addModified"}]
  BY DEF IInv, LocalTypeOK
<1>2. ASSUME UNCHANGED <<pc, request>> \/ \E t \in Thread :
                /\ pc' = [pc EXCEPT ![t] = "idle"] \/ pc' = [pc EXCEPT ![t] = "matching"]
                                                   \/ pc' = [pc EXCEPT ![t] = "relocking"]
                /\ UNCHANGED request \/ request' = [request EXCEPT ![t] = NoCall]
      PROVE  \A t \in Thread : pc'[t] \in {"cancelOriginal", "addModified"} =>
                request'[t].order.type \in Lasting
  <2>1. request \in [Thread -> [id : OrderId, order : Order] \cup {NoCall}]
    BY DEF IInv, LocalTypeOK
  <2>2. QED
    BY <1>1, <1>2, <2>1 DEF LastingInv
<1>3. ASSUME NEW t \in Thread, NEW id \in OrderId, NEW type \in InputType,
             NEW side \in Side, NEW price \in Price, NEW quantity \in InputQty,
             NEW filled \in InputFilled, Submittable(type, quantity, filled),
             AddOrder(t, id, Fill(NewOrder(type, side, price, quantity), filled))
      PROVE  LastingInv'
  <2> DEFINE order == Fill(NewOrder(type, side, price, quantity), filled)
  <2>1. order \in Order
    BY <1>3, SubmittedIsOrder
  <2> HIDE DEF order
  <2>2. AddOrder(t, id, order)
    BY <1>3 DEF order
  <2>3. PICK o \in Admitted(id, order) : Insert(t, id, o, order.type)
    BY <2>2 DEF AddOrder
  <2>4. mutex = NoThread /\ UNCHANGED request /\ pc' = [pc EXCEPT ![t] = "matching"]
    BY <2>2, <2>3 DEF AddOrder, Insert
  <2>5. QED
    BY <1>2, <2>1, <2>3, <2>4, InsertLasting DEF LastingInv
<1>4. ASSUME NEW t \in Thread, AddModified(t) PROVE LastingInv'
  <2>1. /\ request[t].id \in OrderId /\ request[t].order \in Order
        /\ mutex = NoThread /\ request' = [request EXCEPT ![t] = NoCall]
    BY <1>4 DEF AddModified, IInv, LockHeld
  <2>2. CASE \E o \in Admitted(request[t].id, request[t].order) :
                Insert(t, request[t].id, o, request[t].order.type)
    <3>1. PICK o \in Admitted(request[t].id, request[t].order) :
                Insert(t, request[t].id, o, request[t].order.type)
      BY <2>2
    <3>2. pc' = [pc EXCEPT ![t] = "matching"]
      BY <3>1 DEF Insert
    <3>3. QED
      BY <1>2, <2>1, <3>1, <3>2, InsertLasting DEF LastingInv
  <2>3. CASE pc' = [pc EXCEPT ![t] = "idle"] /\ UNCHANGED <<orders, mutex>>
    BY <1>2, <2>1, <2>3 DEF LastingInv, AllLast
  <2>4. QED
    BY <1>4, <2>2, <2>3 DEF AddModified
<1>5. ASSUME NEW t \in Thread, NEW id \in OrderId, NEW side \in Side,
             NEW price \in Price, NEW quantity \in ModifyQty,
             ModifyOrder(t, id, side, price, quantity)
      PROVE  LastingInv'
  <2>1. /\ mutex = NoThread /\ id \in DOMAIN orders /\ UNCHANGED <<orders, mutex>>
        /\ pc' = [pc EXCEPT ![t] = "cancelOriginal"]
        /\ request' = [request EXCEPT ![t] =
              [id |-> id, order |-> NewOrder(orders[id].type, side, price, quantity)]]
    BY <1>5 DEF ModifyOrder
  <2>2. orders[id].type \in Lasting
    BY <2>1 DEF LastingInv, AllLast
  <2>3. request \in [Thread -> [id : OrderId, order : Order] \cup {NoCall}]
    BY DEF IInv, LocalTypeOK
  <2>4. request'[t].order.type \in Lasting
    BY <2>1, <2>2, <2>3 DEF NewOrder
  <2>5. \A u \in Thread \ {t} : pc'[u] = pc[u] /\ request'[u] = request[u]
    BY <1>1, <2>1, <2>3
  <2>6. QED
    BY <2>1, <2>4, <2>5 DEF LastingInv, AllLast
<1>6. ASSUME NEW id, CancelOrderInternal(id), UNCHANGED mutex, mutex = NoThread
      PROVE  mutex' = NoThread /\ AllLast(orders')
  BY <1>6 DEF CancelOrderInternal, Without, Restrict, LastingInv, AllLast
<1>7. ASSUME NEW t \in Thread, NEW id \in OrderId, CancelOrder(t, id)
      PROVE  LastingInv'
  BY <1>2, <1>6, <1>7 DEF CancelOrder, LastingInv
<1>8. ASSUME NEW t \in Thread, CancelOriginal(t) PROVE LastingInv'
  <2>1. \A u \in Thread : pc'[u] \in {"cancelOriginal", "addModified"} =>
            request'[u].order.type \in Lasting
    BY <1>1, <1>8 DEF CancelOriginal, LastingInv
  <2>2. mutex' = NoThread /\ AllLast(orders')
    BY <1>6, <1>8 DEF CancelOriginal, bookVars, LastingInv
  <2>3. QED
    BY <2>1, <2>2 DEF LastingInv
<1>9. ASSUME NEW t \in Thread, FillFront(t) PROVE LastingInv'
  <2>1. Kept(orders, orders') /\ UNCHANGED <<mutex, pc, request, adding>>
    BY <1>9, FillKeeps DEF FillFront
  <2>2. mutex # NoThread
    BY <1>9, ThreadAssumption DEF FillFront, IInv, LockHeld
  <2>3. QED
    BY <1>2, <2>1, <2>2 DEF Kept, LastingInv
<1>10. ASSUME NEW t \in Thread, DropEmptyLevels(t) PROVE LastingInv'
  BY <1>10 DEF DropEmptyLevels, LastingInv, AllLast
<1>11. ASSUME NEW t \in Thread, Return(t) PROVE LastingInv'
  <2>1. AllLast(orders)
    BY <1>11, ReturnLasting
  <2>2. mutex' = NoThread /\ UNCHANGED <<orders, request>>
        /\ pc' = [pc EXCEPT ![t] = "idle"]
    BY <1>11 DEF Return
  <2>3. QED
    BY <1>2, <2>1, <2>2 DEF LastingInv, AllLast
<1>12. ASSUME NEW t \in Thread, KillRemainder(t) PROVE LastingInv'
  <2>1. pc' = [pc EXCEPT ![t] = "relocking"] /\ UNCHANGED <<orders, mutex, adding, request>>
    BY <1>12 DEF KillRemainder
  <2>2. QED
    BY <1>2, <2>1 DEF LastingInv, AllLast
<1>13. CASE UNCHANGED vars
  BY <1>13 DEF vars, LastingInv, AllLast
<1>14. QED
  BY <1>3, <1>4, <1>5, <1>7, <1>8, <1>9, <1>10, <1>11, <1>12, <1>13
  DEF Next, Client, Matching, Modifying

\* In one thread, nothing comes between CancelOriginal and AddModified.
LEMMA NextCancelled ==
    OneThreadOnly /\ IInv /\ CancelledIsGone /\ [Next]_vars => CancelledIsGone'
<1> SUFFICES ASSUME OneThreadOnly, IInv, CancelledIsGone, [Next]_vars,
                    NEW t \in Thread, pc'[t] = "addModified"
             PROVE  request'[t].id \notin DOMAIN orders'
  BY DEF CancelledIsGone
<1>1. pc \in [Thread -> {"idle", "matching", "relocking",
                         "cancelOriginal", "addModified"}]
  BY DEF IInv, LocalTypeOK
<1>2. CASE UNCHANGED vars
  BY <1>2 DEF vars, CancelledIsGone
<1>3. CASE CancelOriginal(t)
  BY <1>3 DEF CancelOriginal, CancelOrderInternal, Without, Restrict, bookVars
<1>4. CASE Client(t) \/ Matching(t) \/ AddModified(t)
  BY <1>1, <1>4 DEF Client, AddOrder, CancelOrder, ModifyOrder, Matching, FillFront,
     DropEmptyLevels, Return, KillRemainder, AddModified, Insert
<1>5. QED
  BY <1>2, <1>3, <1>4 DEF OneThreadOnly, Next, Modifying

\* Where clients submit no FillOrKill order, none is being added: ModifyOrder
\* adds back what rested.
NoFillOrKill == mutex # NoThread => adding.type # "FillOrKill"

LEMMA NextNoFillOrKill ==
    ASSUME "FillOrKill" \notin InputType
    PROVE  IInv /\ LastingInv /\ NoFillOrKill /\ [Next]_vars => NoFillOrKill'
<1> SUFFICES ASSUME IInv, LastingInv, NoFillOrKill, [Next]_vars, mutex' # NoThread
             PROVE  adding'.type # "FillOrKill"
  BY DEF NoFillOrKill
<1>1. ASSUME NEW t \in Thread, NEW id \in OrderId, NEW type \in InputType,
             NEW side \in Side, NEW price \in Price, NEW quantity \in InputQty,
             NEW filled \in InputFilled,
             AddOrder(t, id, Fill(NewOrder(type, side, price, quantity), filled))
      PROVE  adding'.type # "FillOrKill"
  BY <1>1 DEF AddOrder, Insert, Fill, NewOrder
<1>2. ASSUME NEW t \in Thread, AddModified(t) PROVE adding'.type # "FillOrKill"
  <2>1. request[t].order.type # "FillOrKill" /\ mutex = NoThread
    BY <1>2 DEF AddModified, LastingInv, Lasting
  <2>2. QED
    BY <1>2, <2>1 DEF AddModified, Insert
<1>3. ASSUME mutex' = mutex, adding' = adding PROVE adding'.type # "FillOrKill"
  BY <1>3 DEF NoFillOrKill
<1>4. CASE UNCHANGED vars
  BY <1>3, <1>4 DEF vars
<1>5. ASSUME NEW t \in Thread,
             \/ \E id \in OrderId : CancelOrder(t, id)
             \/ \E id \in OrderId, side \in Side, price \in Price, quantity \in ModifyQty :
                   ModifyOrder(t, id, side, price, quantity)
             \/ CancelOriginal(t) \/ Matching(t)
      PROVE  adding'.type # "FillOrKill"
  BY <1>3, <1>5 DEF CancelOrder, ModifyOrder, CancelOriginal, Matching, FillFront,
     DropEmptyLevels, Return, KillRemainder
<1>6. QED
  BY <1>1, <1>2, <1>4, <1>5 DEF Next, Client, Modifying

\* What ModifyNeverLoses rests on, as long as FillOrKill orders are filled.
ModifyInv == IInv /\ TakerInv /\ LastingInv /\ CancelledIsGone

LEMMA ModifyStep ==
    OneThreadOnly /\ ModifyInv /\ [Next]_vars =>
        [\A t \in Thread : pc[t] = "addModified" => pc'[t] # "idle"]_vars
<1> SUFFICES ASSUME OneThreadOnly, ModifyInv, Next,
                    NEW t \in Thread, pc[t] = "addModified"
             PROVE  pc'[t] # "idle"
  OBVIOUS
<1>1. AddModified(t)
  BY DEF OneThreadOnly, Next, Client, AddOrder, CancelOrder, ModifyOrder, Matching,
         FillFront, DropEmptyLevels, Return, KillRemainder, Modifying, CancelOriginal
<1>2. request[t].order.type \in Lasting /\ request[t].id \notin DOMAIN orders
  BY DEF ModifyInv, LastingInv, CancelledIsGone
<1>3. request[t].order \in Admitted(request[t].id, request[t].order)
  BY <1>2 DEF Lasting, Admitted
<1>4. PICK o : Insert(t, request[t].id, o, request[t].order.type)
  BY <1>1, <1>3 DEF AddModified
<1>5. pc \in [Thread -> {"idle", "matching", "relocking",
                         "cancelOriginal", "addModified"}]
  BY DEF ModifyInv, IInv, LocalTypeOK
<1>6. QED
  BY <1>4, <1>5 DEF Insert

LEMMA InitModify == Init => ModifyInv
<1>1. Init => LastingInv /\ CancelledIsGone
  BY DEF Init, LastingInv, AllLast, CancelledIsGone
<1>2. QED
  BY <1>1, InitIInv, InitTaker DEF ModifyInv

LEMMA NextModify ==
    OneThreadOnly /\ ModifyInv /\ FillOrKillFills /\ [Next]_vars => ModifyInv'
BY NextIInv, NextTaker, NextLasting, NextCancelled DEF ModifyInv

LEMMA NoFillOrKillSuffices == IInv /\ NoFillOrKill => FillOrKillFills
BY ThreadAssumption DEF IInv, LockHeld, NoFillOrKill, FillOrKillFills

\* ModifyOrder cancels the order before it knows that AddOrder will take the
\* new version.  With one thread AddOrder always does: only orders that last
\* are found, the modified order has the type of the one it replaces, and
\* AddOrder refuses an order that lasts only when its id is in use.  A
\* FillOrKill order could rest where totals are wrong; so either they are
\* right, or no such order is submitted, whatever the build.
THEOREM ModifyIsSafe ==
    ASSUME TotalsFit \/ "FillOrKill" \notin InputType, OneThreadOnly
    PROVE  Spec => ModifyNeverLoses
<1> DEFINE Step == [\A t \in Thread : pc[t] = "addModified" => pc'[t] # "idle"]_vars
<1>1. CASE TotalsFit
  <2>1. PICK m : NeverWraps(m)
    BY <1>1 DEF TotalsFit
  <2> DEFINE Inv == /\ ModifyInv /\ FillInv
                    /\ TotalsInv /\ Bounded(m) /\ OrdersFinite
  <2>2. Init => Inv
    BY InitModify, InitCounted, InitBounded, InitFinite DEF Init, FillInv
  <2>3. Inv /\ [Next]_vars => Inv'
    <3>1. Inv /\ [Next]_vars => ModifyInv'
      BY FillInvSuffices, NextModify DEF ModifyInv
    <3>2. Inv /\ [Next]_vars => (FillInv /\ TotalsInv /\ Bounded(m) /\ OrdersFinite)'
      BY <1>1, <2>1, NextCounted, NextBounded, NextFinite, NextFillInv
      DEF TotalsFit, ModifyInv
    <3>3. QED
      BY <3>1, <3>2
  <2>4. Inv /\ [Next]_vars => Step
    BY ModifyStep
  <2> HIDE DEF Inv
  <2>5. QED
    BY <2>2, <2>3, <2>4, PTL DEF Spec, ModifyNeverLoses
<1>2. CASE "FillOrKill" \notin InputType
  <2> DEFINE Inv == ModifyInv /\ NoFillOrKill
  <2>1. Init => Inv
    BY InitModify DEF Init, NoFillOrKill
  <2>2. Inv /\ [Next]_vars => Inv'
    BY <1>2, NoFillOrKillSuffices, NextModify, NextNoFillOrKill DEF ModifyInv
  <2>3. Inv /\ [Next]_vars => Step
    BY ModifyStep
  <2> HIDE DEF Inv
  <2>4. QED
    BY <2>1, <2>2, <2>3, PTL DEF Spec, ModifyNeverLoses
<1>3. QED
  BY <1>1, <1>2
------------------------------------------------------------------------------
(* The loops of MatchOrders. *)

LevelsFinite == \A side \in Side : IsFiniteSet(Levels(side))

LEMMA SmallerSubset ==
    ASSUME NEW S, IsFiniteSet(S), NEW T, T \subseteq S
    PROVE  /\ Cardinality(T) \in Nat
           /\ Cardinality(T) <= Cardinality(S)
           /\ T # S => Cardinality(T) < Cardinality(S)
BY FS_Subset, FS_CardinalityType

LEMMA InitLevels == Init => LevelsFinite
<1>1. DOMAIN <<>> = {}
  OBVIOUS
<1>2. QED
  BY <1>1, FS_EmptySet DEF Init, LevelsFinite, Levels

\* What the two kinds of steps of the loops leave of the levels.
LEMMA FillLevelsKept ==
    ASSUME IInv, NEW t \in Thread, FillFront(t), NEW side \in Side
    PROVE  Levels(side)' = Levels(side)
<1>1. PICK bp \in Best("Buy"), ap \in Best("Sell") : FillLevels(bp, ap)
  BY DEF FillFront
<1>2. \E bids, asks : book' = [book EXCEPT !["Buy"][bp] = bids, !["Sell"][ap] = asks]
  BY <1>1 DEF FillLevels
<1>3. DOMAIN book = Side
  BY DEF IInv, BookInv, BookOK
<1>4. QED
  BY <1>2, <1>3 DEF Levels, Best, Side

LEMMA DropLevels ==
    ASSUME IInv, NEW t \in Thread, DropEmptyLevels(t), NEW side \in Side
    PROVE  Levels(side)' = Levels(side) \ Emptied(side)
BY DEF DropEmptyLevels, Levels, Restrict

\* A step adds one level at most.
LEMMA NextLevels == IInv /\ LevelsFinite /\ [Next]_vars => LevelsFinite'
<1> SUFFICES ASSUME IInv, LevelsFinite, [Next]_vars, NEW side \in Side
             PROVE  IsFiniteSet(Levels(side)')
  BY DEF LevelsFinite
<1>1. ASSUME NEW p, Levels(side)' \subseteq Levels(side) \cup {p}
      PROVE  IsFiniteSet(Levels(side)')
  BY <1>1, FS_AddElement, FS_Subset DEF LevelsFinite
<1>2. ASSUME Levels(side)' \subseteq Levels(side)
      PROVE  IsFiniteSet(Levels(side)')
  BY <1>2, FS_Subset DEF LevelsFinite
<1>3. DOMAIN book = Side
  BY DEF IInv, BookInv, BookOK
<1>4. ASSUME NEW s, NEW p, NEW queue,
             book' = [book EXCEPT ![s] = Put(@, p, queue)]
                \/ book' = [book EXCEPT ![s] = SetQueue(@, p, queue)]
      PROVE  IsFiniteSet(Levels(side)')
  <2>1. Levels(side)' \subseteq Levels(side) \cup {p}
    BY <1>3, <1>4 DEF Levels, SetQueue, Put, Without, Restrict
  <2>2. QED
    BY <1>1, <2>1
<1>5. ASSUME NEW t \in Thread, NEW id, NEW o, NEW type, Insert(t, id, o, type)
      PROVE  IsFiniteSet(Levels(side)')
  BY <1>4, <1>5 DEF Insert
<1>6. ASSUME NEW id, CancelOrderInternal(id) PROVE IsFiniteSet(Levels(side)')
  BY <1>4, <1>6 DEF CancelOrderInternal
<1>7. ASSUME UNCHANGED book PROVE IsFiniteSet(Levels(side)')
  BY <1>2, <1>7 DEF Levels
<1>8. ASSUME NEW t \in Thread, Client(t) PROVE IsFiniteSet(Levels(side)')
  BY <1>5, <1>6, <1>7, <1>8 DEF Client, AddOrder, CancelOrder, ModifyOrder
<1>9. ASSUME NEW t \in Thread, Modifying(t) PROVE IsFiniteSet(Levels(side)')
  BY <1>5, <1>6, <1>7, <1>9 DEF Modifying, CancelOriginal, AddModified, bookVars
<1>10. ASSUME NEW t \in Thread, Matching(t) PROVE IsFiniteSet(Levels(side)')
  <2>1. CASE FillFront(t)
    BY <1>2, <2>1, FillLevelsKept
  <2>2. CASE DropEmptyLevels(t)
    BY <1>2, <2>2, DropLevels
  <2>3. QED
    BY <1>7, <1>10, <2>1, <2>2 DEF Matching, Return, KillRemainder
<1>11. QED
  BY <1>7, <1>8, <1>9, <1>10 DEF Next, vars

\* One of the two orders that trade is filled, and gone.
LEMMA FilledIsGone ==
    ASSUME IInv, OrdersFinite, NEW t \in Thread, FillFront(t)
    PROVE  /\ Cardinality(DOMAIN orders') \in Nat
           /\ Cardinality(DOMAIN orders') < Cardinality(DOMAIN orders)
<1>1. PICK bid, ask, newBid, newAsk, quantity :
        Trades(bid, ask, newBid, newAsk, quantity)
  BY FillTrades
<1>2. /\ bid \in DOMAIN orders /\ ask \in DOMAIN orders /\ bid # ask
      /\ orders' = Settle(Settle(orders, bid, newBid), ask, newAsk)
  BY <1>1 DEF Trades
<1>3. IsFilled(newBid) \/ IsFilled(newAsk)
  <2>1. orders[bid].remaining \in Int /\ orders[ask].remaining \in Int
    BY <1>1 DEF Trades, Order, Quantity
  <2>2. newBid.remaining = orders[bid].remaining - quantity
        /\ newAsk.remaining = orders[ask].remaining - quantity
    BY <1>1 DEF Trades, Fill, Order
  <2>3. quantity = orders[bid].remaining \/ quantity = orders[ask].remaining
    BY <1>1 DEF Trades, Smaller
  <2>4. QED
    BY <2>1, <2>2, <2>3 DEF IsFilled
<1>4. DOMAIN orders' \subseteq DOMAIN orders
  BY <1>2 DEF Settle, Put, Without, Restrict
<1>5. bid \notin DOMAIN orders' \/ ask \notin DOMAIN orders'
  BY <1>2, <1>3 DEF Settle, Put, Without, Restrict
<1>6. DOMAIN orders' # DOMAIN orders
  BY <1>2, <1>5
<1>7. QED
  BY <1>4, <1>6, SmallerSubset DEF OrdersFinite

LEMMA BookShrinks ==
    IInv /\ OrdersFinite /\ LevelsFinite /\ [Next]_vars =>
        [mutex # NoThread /\ mutex' = mutex /\ pc' = pc => BookSize' < BookSize]_vars
<1> SUFFICES ASSUME IInv, OrdersFinite, LevelsFinite, Next,
                    mutex # NoThread, mutex' = mutex, pc' = pc
             PROVE  BookSize' < BookSize
  OBVIOUS
<1>1. PICK t \in Thread : Client(t) \/ Matching(t) \/ Modifying(t)
  BY DEF Next
<1>2. pc \in [Thread -> {"idle", "matching", "relocking",
                         "cancelOriginal", "addModified"}]
  BY DEF IInv, LocalTypeOK
<1>3. FillFront(t) \/ DropEmptyLevels(t)
  BY <1>1, <1>2 DEF Client, AddOrder, CancelOrder, ModifyOrder, Matching, Return,
     KillRemainder, Modifying, CancelOriginal, AddModified
<1> DEFINE orderCount == Cardinality(DOMAIN orders)
           bids == Cardinality(Levels("Buy"))
           asks == Cardinality(Levels("Sell"))
<1>4. orderCount \in Nat /\ bids \in Nat /\ asks \in Nat
  BY FS_CardinalityType DEF OrdersFinite, LevelsFinite, Side
<1>5. CASE FillFront(t)
  <2>1. Cardinality(Levels("Buy")') = bids /\ Cardinality(Levels("Sell")') = asks
    BY <1>5, FillLevelsKept DEF Side
  <2>2. orderCount' < orderCount /\ orderCount' \in Nat
    BY <1>5, FilledIsGone
  <2>3. QED
    BY <1>4, <2>1, <2>2 DEF BookSize
<1>6. CASE DropEmptyLevels(t)
  <2>1. orderCount' = orderCount
    BY <1>6 DEF DropEmptyLevels
  <2>2. ASSUME NEW side \in Side
        PROVE  /\ Cardinality(Levels(side)') \in Nat
               /\ Cardinality(Levels(side)') <= Cardinality(Levels(side))
               /\ Emptied(side) # {} =>
                     Cardinality(Levels(side)') < Cardinality(Levels(side))
    <3>1. Levels(side)' = Levels(side) \ Emptied(side)
      BY <1>6, DropLevels
    <3>2. Emptied(side) # {} => Levels(side)' # Levels(side)
      BY <3>1 DEF Emptied, Best
    <3>3. QED
      BY <3>1, <3>2, SmallerSubset DEF LevelsFinite
  <2>3. Emptied("Buy") # {} \/ Emptied("Sell") # {}
    BY <1>6 DEF DropEmptyLevels
  <2> DEFINE a == Cardinality(Levels("Buy")')
             b == Cardinality(Levels("Sell")')
  <2>4. a \in Nat /\ b \in Nat /\ a <= bids /\ b <= asks /\ (a < bids \/ b < asks)
    BY <2>2, <2>3 DEF Side
  <2> HIDE DEF a, b, orderCount, bids, asks
  <2>5. orderCount + a + b < orderCount + bids + asks
    BY <1>4, <2>4
  <2>6. BookSize' = orderCount' + a + b
    BY DEF BookSize, a, b, orderCount
  <2>7. QED
    BY <2>1, <2>5, <2>6 DEF BookSize, orderCount, bids, asks
<1>7. QED
  BY <1>3, <1>5, <1>6

\* With the invariants they rest on, the levels and orders are finitely many.
SizeInv == IInv /\ OrdersFinite /\ LevelsFinite

LEMMA SpecSizeInv == Spec => []SizeInv
<1>1. Init => SizeInv
  BY InitIInv, InitFinite, InitLevels DEF SizeInv
<1>2. SizeInv /\ [Next]_vars => SizeInv'
  BY NextIInv, NextFinite, NextLevels DEF SizeInv
<1>3. QED
  BY <1>1, <1>2, PTL DEF Spec

\* The loops of MatchOrders cannot go on for ever: every round takes an order
\* or a level out of the book, a trade of quantity zero too, because one of
\* the two orders that trade is filled.
THEOREM LoopsAdvance == Spec => MatchingAdvances
<1>1. SizeInv /\ [Next]_vars =>
        [mutex # NoThread /\ mutex' = mutex /\ pc' = pc => BookSize' < BookSize]_vars
  BY BookShrinks DEF SizeInv
<1>2. QED
  BY <1>1, SpecSizeInv, PTL DEF Spec, MatchingAdvances
===============================================================================
