------------------------------- MODULE TakerProofs ------------------------------
(***************************************************************************)
(* More theorems about Orderbook, that turn on the order being added: it   *)
(* is in every trade, it is found at the front when it is a FillAndKill    *)
(* order to be killed, and no level is left empty when that is looked for. *)
(***************************************************************************)
EXTENDS OrderbookProofs

\* A level is empty only while matching goes on, and only the best of a side:
\* those that DropEmptyLevels erases.
EmptyLevels ==
    \A side \in Side : \A p \in Levels(side) :
        book[side][p] = <<>> =>
            /\ p \in Best(side)
            /\ Crossed
            /\ \E t \in Thread : pc[t] = "matching"

NoneToKill(o) == \A i \in DOMAIN o : o[i].type # "FillAndKill"

\* The orders other than a are a book at rest.
OthersRest(o, a) ==
    \A i \in DOMAIN o \ {a} :
        /\ o[i].type # "FillAndKill"
        /\ \A j \in DOMAIN o \ {a} :
              o[i].side = "Buy" /\ o[j].side = "Sell" => o[i].price < o[j].price

\* A FillAndKill order has its side's best price to itself.
KillLeads(o, a) ==
    a \in DOMAIN o /\ o[a].type = "FillAndKill" =>
        \A i \in DOMAIN o \ {a} :
            o[i].side = o[a].side => Ahead(o[a].side, o[a].price, o[i].price)

\* With IInv, the inductive invariant.
TakerInv ==
    /\ EmptyLevels
    /\ mutex = NoThread => NoneToKill(orders)
    /\ mutex # NoThread => OthersRest(orders, adding.id) /\ KillLeads(orders, adding.id)
    /\ TakerInEveryTrade

\* e has orders of o only, and of each the same side, price and type.
Kept(o, e) ==
    /\ DOMAIN e \subseteq DOMAIN o
    /\ \A i \in DOMAIN e :
          e[i].side = o[i].side /\ e[i].price = o[i].price /\ e[i].type = o[i].type

LEMMA KeptRests ==
    ASSUME NEW o, NEW e, NEW a, Kept(o, e), OthersRest(o, a), KillLeads(o, a)
    PROVE  OthersRest(e, a) /\ KillLeads(e, a)
<1>1. OthersRest(e, a)
  BY DEF Kept, OthersRest
<1>2. KillLeads(e, a)
  BY DEF Kept, KillLeads
<1>3. QED
  BY <1>1, <1>2

LEMMA SettleKept ==
    ASSUME NEW o, NEW id \in DOMAIN o, NEW new,
           new.side = o[id].side, new.price = o[id].price, new.type = o[id].type
    PROVE  Kept(o, Settle(o, id, new))
BY DEF Kept, Settle, Put, Without, Restrict

LEMMA KeptTwice ==
    ASSUME NEW o, NEW e, NEW f, Kept(o, e), Kept(e, f)
    PROVE  Kept(o, f)
BY DEF Kept

\* Where the index files an order, there is a level and its queue holds it.
LEMMA FiledAt ==
    ASSUME BookInv(book, orders, data), NEW id \in DOMAIN orders
    PROVE  /\ orders[id] \in Order
           /\ orders[id].side \in Side /\ orders[id].price \in Price
           /\ orders[id].price \in Levels(orders[id].side)
           /\ book[orders[id].side][orders[id].price] \in Seq(OrderId)
           /\ id \in Range(book[orders[id].side][orders[id].price])
<1> DEFINE s == orders[id].side
           p == orders[id].price
<1>1. BookOK(book) /\ IsMap(orders, OrderId, Order) /\ Agree(book, orders)
  BY DEF BookInv
<1>2. orders[id] \in Order /\ s \in Side /\ p \in Price
  BY <1>1 DEF IsMap, Order
<1>3. id \in Range(QueueOf(book, s, p))
  BY <1>1, <1>2 DEF Agree, Filed
<1>4. p \in DOMAIN book[s] /\ QueueOf(book, s, p) = book[s][p]
  <2>1. Range(<<>>) = {}
    BY DEF Range
  <2>2. QED
    BY <1>3, <2>1 DEF QueueOf
<1>5. QED
  BY <1>1, <1>2, <1>3, <1>4, QueueOfIsSeq DEF Levels

LEMMA LevelsAreInts ==
    ASSUME BookOK(book), NEW side \in Side
    PROVE  Levels(side) \subseteq Int
BY PriceAssumption DEF Levels, BookOK, IsMap

------------------------------------------------------------------------------
(* AddOrder. *)

\* What clients submit is an order.
LEMMA SubmittedIsOrder ==
    ASSUME NEW type \in InputType, NEW side \in Side, NEW price \in Price,
           NEW quantity \in InputQty, NEW filled \in InputFilled,
           Submittable(type, quantity, filled)
    PROVE  Fill(NewOrder(type, side, price, quantity), filled) \in Order
<1>1. quantity \in Quantity /\ quantity - filled \in Quantity
  BY InputAssumption, QModAssumption DEF Submittable, Quantity
<1>2. QED
  BY <1>1, InputAssumption DEF NewOrder, Fill, Order

\* The admitted order meets a book at rest; a FillAndKill order is ahead of
\* every price of its side, because it accepts a price none of them does.
LEMMA InsertTaker ==
    ASSUME IInv, TakerInv, mutex = NoThread, NEW t \in Thread,
           NEW id \in OrderId, NEW order \in Order,
           NEW o \in Admitted(id, order), Insert(t, id, o, order.type)
    PROVE  TakerInv'
<1>1. /\ BookInv(book, orders, data) /\ BookOK(book)
      /\ \A bp \in Levels("Buy"), ap \in Levels("Sell") : bp < ap
  BY DEF IInv, BookInv, UncrossedAtRest
<1>2. o \in Order /\ id \notin DOMAIN orders /\ o.side \in Side /\ o.price \in Price
  BY <1>1, AdmittedIsOrder DEF Order
<1>3. /\ book' = [book EXCEPT ![o.side] = Put(@, o.price, Enqueue(o.side, o.price, id))]
      /\ orders' = Put(orders, id, o)
      /\ mutex' = t /\ adding'.id = id /\ trades' = <<>>
  BY DEF Insert
<1>4. \A t1 \in Thread : pc[t1] # "matching"
  BY FreeMutex DEF IInv
<1>5. EmptyLevels'
  <2>1. \A side \in Side : \A p \in Levels(side) : book[side][p] # <<>>
    BY <1>4 DEF TakerInv, EmptyLevels
  <2>2. Enqueue(o.side, o.price, id) # <<>>
    <3>1. Queue(o.side, o.price) \in Seq(OrderId)
      BY <1>1, <1>2, QueueOfIsSeq DEF Queue, QueueOf, Levels
    <3>2. QED
      BY <3>1, AppendProperties, EmptySeq DEF Enqueue
  <2>3. ASSUME NEW side \in Side, NEW p \in DOMAIN book'[side]
        PROVE  book'[side][p] # <<>>
    <3>1. DOMAIN book = Side
      BY <1>1 DEF BookOK
    <3>2. CASE side = o.side /\ p = o.price
      BY <1>2, <1>3, <2>2, <3>1, <3>2 DEF Put
    <3>3. CASE ~(side = o.side /\ p = o.price)
      <4>1. p \in DOMAIN book[side] /\ book'[side][p] = book[side][p]
        BY <1>2, <1>3, <2>3, <3>1, <3>3 DEF Put
      <4>2. QED
        BY <2>1, <4>1 DEF Levels
    <3>4. QED
      BY <3>2, <3>3
  <2>4. QED
    BY <2>3 DEF EmptyLevels, Levels
<1>6. \A i \in DOMAIN orders' \ {id} : i \in DOMAIN orders /\ orders'[i] = orders[i]
  BY <1>3 DEF Put
<1>7. NoneToKill(orders)
  BY DEF TakerInv
<1>8. \A i \in DOMAIN orders :
        /\ orders[i].side \in Side
        /\ orders[i].price \in Levels(orders[i].side)
  BY <1>1, FiledAt
<1>9. OthersRest(orders', id)
  BY <1>1, <1>6, <1>7, <1>8 DEF OthersRest, NoneToKill
<1>10. KillLeads(orders', id)
  <2> SUFFICES ASSUME o.type = "FillAndKill", NEW i \in DOMAIN orders' \ {id},
                      orders'[i].side = o.side
               PROVE  Ahead(o.side, o.price, orders'[i].price)
    BY <1>3 DEF KillLeads, Put
  <2>1. CanMatch(o.side, o.price)
    BY DEF Admitted
  <2>2. PICK p \in Levels(Opposite(o.side)) : Accepts(o.side, o.price, p)
    BY <2>1 DEF CanMatch, Best
  <2>3. orders'[i].price \in Levels(o.side)
    BY <1>6, <1>8
  <2>4. /\ o.price \in Int /\ p \in Int /\ orders'[i].price \in Int
    BY <1>1, <1>2, <2>2, <2>3, LevelsAreInts, OppositeIsSide, PriceAssumption
  <2>5. CASE o.side = "Buy"
    <3>1. orders'[i].price < p /\ o.price >= p
      BY <1>1, <2>2, <2>3, <2>5 DEF Opposite, Accepts
    <3>2. o.price > orders'[i].price
      BY <2>4, <3>1
    <3>3. QED
      BY <2>5, <3>2 DEF Ahead
  <2>6. CASE o.side = "Sell"
    <3>1. p < orders'[i].price /\ o.price <= p
      BY <1>1, <2>2, <2>3, <2>6 DEF Opposite, Accepts
    <3>2. o.price < orders'[i].price
      BY <2>4, <3>1
    <3>3. QED
      BY <2>6, <3>2 DEF Ahead
  <2>7. QED
    BY <1>2, <2>5, <2>6 DEF Side
<1>11. mutex' # NoThread
  BY <1>3, ThreadAssumption
<1>12. TakerInEveryTrade'
  BY <1>3 DEF TakerInEveryTrade
<1>13. QED
  BY <1>3, <1>5, <1>9, <1>10, <1>11, <1>12 DEF TakerInv

------------------------------------------------------------------------------
(* The other steps. *)

\* No level is empty: what EmptyLevels amounts to outside the matching loop.
NoneEmpty == \A side \in Side : \A p \in Levels(side) : book[side][p] # <<>>

LEMMA NoneEmptyUnlessCrossed ==
    ASSUME EmptyLevels, ~Crossed \/ \A t \in Thread : pc[t] # "matching"
    PROVE  NoneEmpty
BY DEF EmptyLevels, NoneEmpty

LEMMA NoneEmptyIsEnough == NoneEmpty => EmptyLevels
BY DEF EmptyLevels, NoneEmpty

LEMMA InitTaker == Init => TakerInv
<1> SUFFICES ASSUME Init PROVE TakerInv
  OBVIOUS
<1>1. DOMAIN <<>> = {}
  OBVIOUS
<1>2. NoneEmpty
  BY <1>1 DEF Init, NoneEmpty, Levels
<1>3. mutex = NoThread /\ orders = <<>> /\ trades = <<>>
  BY DEF Init
<1>4. NoneToKill(orders) /\ TakerInEveryTrade
  BY <1>1, <1>3 DEF NoneToKill, TakerInEveryTrade
<1>5. QED
  BY <1>2, <1>3, <1>4, NoneEmptyIsEnough DEF TakerInv

\* CancelOrderInternal erases the level it empties.
LEMMA CancelTaker ==
    ASSUME IInv, TakerInv, mutex = NoThread, UNCHANGED <<mutex, adding, trades>>,
           \/ \E id \in DOMAIN orders : CancelOrderInternal(id)
           \/ UNCHANGED bookVars
    PROVE  TakerInv'
<1>1. BookInv(book, orders, data) /\ BookOK(book) /\ NoneToKill(orders)
  BY DEF IInv, BookInv, TakerInv
<1>2. NoneEmpty
  BY FreeMutex, NoneEmptyUnlessCrossed DEF IInv, TakerInv
<1>3. NoneEmpty' /\ NoneToKill(orders')
  <2>1. CASE \E id \in DOMAIN orders : CancelOrderInternal(id)
    <3>1. PICK id \in DOMAIN orders : CancelOrderInternal(id)
      BY <2>1
    <3> DEFINE o == orders[id]
    <3>2. PICK q : /\ book' = [book EXCEPT ![o.side] = SetQueue(@, o.price, q)]
                   /\ orders' = Without(orders, id)
      BY <3>1 DEF CancelOrderInternal
    <3>3. NoneToKill(orders')
      BY <1>1, <3>2 DEF NoneToKill, Without, Restrict
    <3>4. DOMAIN book = Side
      BY <1>1 DEF BookOK
    <3>5. ASSUME NEW side \in Side, NEW p \in DOMAIN book'[side]
          PROVE  book'[side][p] # <<>>
      <4>1. CASE side # o.side
        BY <1>2, <3>2, <3>4, <3>5, <4>1 DEF NoneEmpty, Levels
      <4>2. CASE side = o.side
        <5>1. book'[side] = SetQueue(book[side], o.price, q)
          BY <3>2, <3>4, <4>2
        <5> HIDE DEF o
        <5>2. QED
          BY <1>2, <3>5, <5>1 DEF NoneEmpty, Levels, SetQueue, Put, Without, Restrict
      <4>3. QED
        BY <4>1, <4>2
    <3>6. QED
      BY <3>3, <3>5 DEF NoneEmpty, Levels
  <2>2. CASE UNCHANGED bookVars
    BY <1>1, <1>2, <2>2 DEF bookVars, NoneEmpty, Levels
  <2>3. QED
    BY <2>1, <2>2
<1>4. EmptyLevels'
  BY <1>3 DEF EmptyLevels, NoneEmpty
<1>5. TakerInEveryTrade'
  BY DEF TakerInv, TakerInEveryTrade
<1>6. QED
  BY <1>3, <1>4, <1>5 DEF TakerInv

\* A trade leaves the levels and, of the orders it does not remove, the side,
\* the price and the type.
LEMMA FillKeeps ==
    ASSUME IInv, NEW t \in Thread, FillFront(t)
    PROVE  /\ Kept(orders, orders')
           /\ \A side \in Side : DOMAIN book'[side] = DOMAIN book[side]
<1>1. BookOK(book) /\ Agree(book, orders) /\ IsMap(orders, OrderId, Order)
  BY DEF IInv, BookInv
<1>2. PICK bp \in Best("Buy"), ap \in Best("Sell") :
        /\ book["Buy"][bp] # <<>>
        /\ book["Sell"][ap] # <<>>
        /\ FillLevels(bp, ap)
  BY DEF FillFront
<1> DEFINE bidId == Head(book["Buy"][bp])
           askId == Head(book["Sell"][ap])
<1>3. /\ "Buy" \in Side /\ "Sell" \in Side
      /\ bp \in DOMAIN book["Buy"] /\ ap \in DOMAIN book["Sell"]
  BY DEF Side, Best, Levels
<1>4. /\ bidId \in DOMAIN orders
      /\ orders[bidId].side = "Buy" /\ orders[bidId].price = bp
  BY <1>1, <1>2, <1>3, FrontIsFiled
<1>5. /\ askId \in DOMAIN orders
      /\ orders[askId].side = "Sell" /\ orders[askId].price = ap
  BY <1>1, <1>2, <1>3, FrontIsFiled
<1>6. PICK quantity, bidQueue, askQueue, bid, ask :
        /\ bid = Fill(orders[bidId], quantity)
        /\ ask = Fill(orders[askId], quantity)
        /\ book' = [book EXCEPT !["Buy"][bp] = bidQueue, !["Sell"][ap] = askQueue]
        /\ orders' = Settle(Settle(orders, bidId, bid), askId, ask)
  BY <1>2 DEF FillLevels
<1>7. Kept(orders, orders')
  <2> DEFINE orders1 == Settle(orders, bidId, bid)
  <2>1. /\ orders[bidId] \in Order /\ orders[askId] \in Order
    BY <1>1, <1>4, <1>5 DEF IsMap
  <2>2. /\ bid.side = "Buy" /\ bid.price = bp /\ bid.type = orders[bidId].type
        /\ ask.side = "Sell" /\ ask.price = ap /\ ask.type = orders[askId].type
    BY <1>4, <1>5, <1>6, <2>1 DEF Fill, Order
  <2>3. Kept(orders, orders1)
    BY <1>4, <2>2, SettleKept
  <2>4. askId \in DOMAIN orders1 /\ orders1[askId] = orders[askId]
    BY <1>4, <1>5 DEF Settle, Put, Without, Restrict
  <2> HIDE DEF orders1
  <2>5. Kept(orders1, Settle(orders1, askId, ask))
    BY <1>5, <2>2, <2>4, SettleKept
  <2>6. orders' = Settle(orders1, askId, ask)
    BY <1>6 DEF orders1
  <2>7. QED
    BY <2>3, <2>5, <2>6, KeptTwice
<1>8. \A side \in Side : DOMAIN book'[side] = DOMAIN book[side]
  BY <1>1, <1>3, <1>6 DEF BookOK
<1>9. QED
  BY <1>7, <1>8

\* The front orders trade: one of them is the order being added, for the
\* others do not cross, and only the two best levels can become empty.
LEMMA FillTaker ==
    ASSUME IInv, TakerInv, NEW t \in Thread, FillFront(t)
    PROVE  TakerInv'
<1>1. /\ BookOK(book) /\ Agree(book, orders)
      /\ IsMap(orders, OrderId, Order) /\ trades \in Seq(Trade)
  BY DEF IInv, BookInv, LocalTypeOK
<1>2. mutex = t /\ mutex # NoThread
  BY ThreadAssumption DEF FillFront, IInv, LockHeld
<1>3. PICK bp \in Best("Buy"), ap \in Best("Sell") :
        /\ bp >= ap
        /\ book["Buy"][bp] # <<>>
        /\ book["Sell"][ap] # <<>>
        /\ FillLevels(bp, ap)
  BY DEF FillFront
<1>4. UNCHANGED <<mutex, pc, adding>>
  BY DEF FillFront
<1> DEFINE bidId == Head(book["Buy"][bp])
           askId == Head(book["Sell"][ap])
<1>5. /\ "Buy" \in Side /\ "Sell" \in Side
      /\ bp \in DOMAIN book["Buy"] /\ ap \in DOMAIN book["Sell"]
  BY DEF Side, Best, Levels
<1>6. /\ bp \in Price /\ bidId \in DOMAIN orders
      /\ orders[bidId].side = "Buy" /\ orders[bidId].price = bp
  BY <1>1, <1>3, <1>5, FrontIsFiled
<1>7. /\ ap \in Price /\ askId \in DOMAIN orders
      /\ orders[askId].side = "Sell" /\ orders[askId].price = ap
  BY <1>1, <1>3, <1>5, FrontIsFiled
<1>8. PICK quantity, bidQueue, askQueue, bid, ask :
        /\ book' = [book EXCEPT !["Buy"][bp] = bidQueue, !["Sell"][ap] = askQueue]
        /\ trades' = Append(trades,
              [bid |-> [id |-> bidId, price |-> bid.price, quantity |-> quantity],
               ask |-> [id |-> askId, price |-> ask.price, quantity |-> quantity]])
  BY <1>3 DEF FillLevels
<1>9. Kept(orders, orders')
  BY FillKeeps
<1>10. OthersRest(orders', adding'.id) /\ KillLeads(orders', adding'.id)
  BY <1>2, <1>4, <1>9, KeptRests DEF TakerInv
<1>11. adding.id \in {bidId, askId}
  <2>1. bp \in Int /\ ap \in Int
    BY <1>6, <1>7, PriceAssumption
  <2>2. ~(bp < ap)
    BY <1>3, <2>1
  <2>3. OthersRest(orders, adding.id)
    BY <1>2 DEF TakerInv
  <2>4. QED
    BY <1>6, <1>7, <2>2, <2>3 DEF OthersRest
<1>12. TakerInEveryTrade'
  <2> DEFINE n == Len(trades)
             made == [bid |-> [id |-> bidId, price |-> bid.price, quantity |-> quantity],
                      ask |-> [id |-> askId, price |-> ask.price, quantity |-> quantity]]
  <2>1. made.bid.id = bidId /\ made.ask.id = askId
    OBVIOUS
  <2> HIDE DEF bidId, askId, made
  <2>2. n \in Nat /\ DOMAIN trades = 1 .. n
    BY <1>1, LenProperties
  <2>3. trades' = Append(trades, made)
    BY <1>8 DEF made, bidId, askId
  <2>4. /\ DOMAIN trades' = 1 .. n + 1
        /\ trades'[n + 1] = made
        /\ \A i \in 1 .. n : trades'[i] = trades[i]
    BY <2>2, <2>3
  <2>5. \A i \in 1 .. n + 1 : i \in 1 .. n \/ i = n + 1
    BY <2>2
  <2> HIDE DEF n
  <2>6. \A i \in 1 .. n : adding.id \in {trades[i].bid.id, trades[i].ask.id}
    BY <2>2 DEF TakerInv, TakerInEveryTrade
  <2>7. \A i \in 1 .. n + 1 : adding.id \in {trades'[i].bid.id, trades'[i].ask.id}
    BY <1>11, <2>1, <2>4, <2>5, <2>6
  <2>8. QED
    BY <1>4, <2>4, <2>7 DEF TakerInEveryTrade
<1>13. EmptyLevels'
  <2>1. /\ \A side \in Side : DOMAIN book'[side] = DOMAIN book[side]
        /\ \A p \in DOMAIN book["Buy"] \ {bp} : book'["Buy"][p] = book["Buy"][p]
        /\ \A p \in DOMAIN book["Sell"] \ {ap} : book'["Sell"][p] = book["Sell"][p]
    BY <1>1, <1>5, <1>8, FillKeeps DEF BookOK
  <2>2. \A side \in Side : Levels(side)' = Levels(side) /\ Best(side)' = Best(side)
    BY <2>1 DEF Levels, Best
  <2>3. Crossed'
    BY <1>3, <1>5, <2>2 DEF Crossed, Levels
  <2>4. pc'[t] = "matching"
    BY <1>4 DEF FillFront
  <2>5. ASSUME NEW side \in Side, NEW p \in Levels(side), book'[side][p] = <<>>
        PROVE  p \in Best(side)
    BY <1>3, <2>1, <2>5 DEF Side, Levels, TakerInv, EmptyLevels
  <2>6. QED
    BY <2>2, <2>3, <2>4, <2>5 DEF EmptyLevels
<1>14. mutex' # NoThread
  BY <1>2, <1>4
<1>15. QED
  BY <1>10, <1>12, <1>13, <1>14 DEF TakerInv

\* An empty level is the best of its side, so the cleanup erases it.
LEMMA DropTaker ==
    ASSUME IInv, TakerInv, NEW t \in Thread, DropEmptyLevels(t)
    PROVE  TakerInv'
<1>1. mutex = t /\ mutex # NoThread
  BY ThreadAssumption DEF DropEmptyLevels, IInv, LockHeld
<1>2. /\ book' = [side \in Side |->
                    Restrict(book[side], Levels(side) \ Emptied(side))]
      /\ UNCHANGED <<orders, mutex, adding, trades>>
  BY DEF DropEmptyLevels
<1>3. NoneEmpty'
  <2>1. ASSUME NEW side \in Side, NEW p \in DOMAIN book'[side]
        PROVE  book'[side][p] # <<>>
    <3>1. /\ p \in Levels(side) /\ p \notin Emptied(side)
          /\ book'[side][p] = book[side][p]
      BY <1>2 DEF Restrict
    <3>2. book[side][p] = <<>> => p \in Best(side)
      BY <3>1 DEF TakerInv, EmptyLevels
    <3>3. QED
      BY <3>1, <3>2 DEF Emptied
  <2>2. QED
    BY <2>1 DEF NoneEmpty, Levels
<1>4. EmptyLevels'
  BY <1>3 DEF EmptyLevels, NoneEmpty
<1>5. OthersRest(orders', adding'.id) /\ KillLeads(orders', adding'.id)
  BY <1>1, <1>2 DEF TakerInv
<1>6. TakerInEveryTrade'
  BY <1>2 DEF TakerInv, TakerInEveryTrade
<1>7. QED
  BY <1>1, <1>2, <1>4, <1>5, <1>6 DEF TakerInv

\* A FillAndKill order that is left is alone at the best price of its side,
\* where MatchOrders looks for it: without a remainder to kill there is none.
LEMMA NothingToKill ==
    ASSUME IInv, TakerInv, mutex # NoThread, NoneEmpty, ~RemainderToKill
    PROVE  NoneToKill(orders)
<1> SUFFICES ASSUME NEW i \in DOMAIN orders, orders[i].type = "FillAndKill"
             PROVE  FALSE
  BY DEF NoneToKill
<1> DEFINE side == orders[i].side
           price == orders[i].price
<1>1. BookInv(book, orders, data) /\ BookOK(book) /\ Agree(book, orders)
  BY DEF IInv, BookInv
<1>2. OthersRest(orders, adding.id) /\ KillLeads(orders, adding.id)
  BY DEF TakerInv
<1>3. i = adding.id
  BY <1>2 DEF OthersRest
<1>4. \A j \in DOMAIN orders \ {i} :
        orders[j].side = side => Ahead(side, price, orders[j].price)
  BY <1>2, <1>3 DEF KillLeads
<1>5. side \in Side /\ price \in Levels(side)
  BY <1>1, FiledAt
<1>6. ASSUME NEW p \in Levels(side)
      PROVE  /\ Head(book[side][p]) \in DOMAIN orders
             /\ orders[Head(book[side][p])].side = side
             /\ orders[Head(book[side][p])].price = p
  <2>1. book[side][p] # <<>>
    BY <1>5 DEF NoneEmpty
  <2>2. p \in DOMAIN book[side]
    BY DEF Levels
  <2> HIDE DEF side
  <2>3. QED
    BY <1>1, <1>5, <2>1, <2>2, FrontIsFiled
<1>7. Levels(side) \subseteq Int
  BY <1>1, <1>5, LevelsAreInts
<1> HIDE DEF side, price
<1>8. \A p, q \in Levels(side) : Ahead(side, p, q) => ~Ahead(side, q, p) /\ p # q
  BY <1>7 DEF Ahead
<1>9. \A p \in Levels(side) : p # price => Ahead(side, price, p)
  <2> SUFFICES ASSUME NEW p \in Levels(side), p # price
               PROVE  Ahead(side, price, p)
    OBVIOUS
  <2>1. Head(book[side][p]) # i
    BY <1>6 DEF price
  <2>2. QED
    BY <1>4, <1>6, <2>1
<1>10. price \in Best(side)
  BY <1>5, <1>8, <1>9 DEF Best
<1>11. Head(book[side][price]) = i
  BY <1>4, <1>5, <1>6, <1>8
<1>12. RemainderToKill
  BY <1>5, <1>10, <1>11 DEF RemainderToKill
<1>13. QED
  BY <1>12

LEMMA ReturnTaker ==
    ASSUME IInv, TakerInv, NEW t \in Thread, Return(t)
    PROVE  TakerInv'
<1>1. mutex # NoThread
  BY ThreadAssumption DEF Return, IInv, LockHeld
<1>2. NoneEmpty
  BY NoneEmptyUnlessCrossed DEF Return, TakerInv
<1>3. NoneToKill(orders)
  BY <1>1, <1>2, NothingToKill DEF Return
<1>4. mutex' = NoThread /\ trades' = <<>> /\ UNCHANGED <<book, orders>>
  BY DEF Return
<1>5. EmptyLevels'
  BY <1>2, <1>4 DEF EmptyLevels, NoneEmpty, Levels
<1>6. TakerInEveryTrade'
  BY <1>4 DEF TakerInEveryTrade
<1>7. QED
  BY <1>3, <1>4, <1>5, <1>6 DEF TakerInv

LEMMA KillTaker ==
    ASSUME IInv, TakerInv, NEW t \in Thread, KillRemainder(t)
    PROVE  TakerInv'
<1>1. NoneEmpty
  BY NoneEmptyUnlessCrossed DEF KillRemainder, TakerInv
<1>2. UNCHANGED <<book, orders, mutex, adding, trades>>
  BY DEF KillRemainder
<1>3. EmptyLevels'
  BY <1>1, <1>2 DEF EmptyLevels, NoneEmpty, Levels
<1>4. TakerInEveryTrade'
  BY <1>2 DEF TakerInv, TakerInEveryTrade
<1>5. QED
  BY <1>2, <1>3, <1>4 DEF TakerInv

LEMMA NextTaker == IInv /\ TakerInv /\ [Next]_vars => TakerInv'
<1> SUFFICES ASSUME IInv, TakerInv, [Next]_vars PROVE TakerInv'
  OBVIOUS
<1>1. ASSUME NEW t \in Thread, NEW id \in OrderId, NEW type \in InputType,
             NEW side \in Side, NEW price \in Price, NEW quantity \in InputQty,
             NEW filled \in InputFilled, Submittable(type, quantity, filled),
             AddOrder(t, id, Fill(NewOrder(type, side, price, quantity), filled))
      PROVE  TakerInv'
  BY <1>1, SubmittedIsOrder, InsertTaker DEF AddOrder
<1>2. ASSUME NEW t \in Thread, NEW id \in OrderId, CancelOrder(t, id)
      PROVE  TakerInv'
  BY <1>2, CancelTaker DEF CancelOrder
<1>3. ASSUME NEW t \in Thread, NEW id \in OrderId, NEW side \in Side,
             NEW price \in Price, NEW quantity \in ModifyQty,
             ModifyOrder(t, id, side, price, quantity)
      PROVE  TakerInv'
  BY <1>3, CancelTaker DEF ModifyOrder, bookVars
<1>4. ASSUME NEW t \in Thread, CancelOriginal(t)
      PROVE  TakerInv'
  BY <1>4, CancelTaker DEF CancelOriginal
<1>5. ASSUME NEW t \in Thread, AddModified(t)
      PROVE  TakerInv'
  <2>1. pc[t] = "addModified" /\ mutex = NoThread
    BY <1>5 DEF AddModified
  <2>2. request[t].id \in OrderId /\ request[t].order \in Order
    BY <2>1 DEF IInv, LockHeld
  <2>3. CASE \E o \in Admitted(request[t].id, request[t].order) :
                Insert(t, request[t].id, o, request[t].order.type)
    BY <2>1, <2>2, <2>3, InsertTaker
  <2>4. CASE UNCHANGED <<book, orders, data, mutex, adding, trades>>
    BY <2>1, <2>4, CancelTaker DEF bookVars
  <2>5. QED
    BY <1>5, <2>3, <2>4 DEF AddModified
<1>6. CASE UNCHANGED vars
  BY <1>6 DEF vars, TakerInv, EmptyLevels, TakerInEveryTrade, Levels, Best, Crossed
<1>7. QED
  BY <1>1, <1>2, <1>3, <1>4, <1>5, <1>6, FillTaker, DropTaker, ReturnTaker, KillTaker
  DEF Next, Client, Matching, Modifying

------------------------------------------------------------------------------
(* The limit of a Market order. *)

\* The order a Market order became accepts every price of the other side, for
\* as long as matching goes on.
AcceptsAll(side, price) ==
    \A p \in Levels(Opposite(side)) : Accepts(side, price, p)

SweepInv ==
    mutex # NoThread /\ adding.type = "Market" /\ adding.id \in DOMAIN orders
    => AcceptsAll(orders[adding.id].side, orders[adding.id].price)

\* The worst price of a side is a limit that accepts the whole side.
LEMMA WorstAccepts ==
    ASSUME BookOK(book), NEW side \in Side, NEW p \in Worst(Opposite(side))
    PROVE  AcceptsAll(side, p)
<1>1. Levels(Opposite(side)) \subseteq Int
  BY OppositeIsSide, LevelsAreInts
<1>2. QED
  BY <1>1 DEF Worst, AcceptsAll, Accepts, Ahead, Opposite, Side

LEMMA InsertSweep ==
    ASSUME IInv, NEW t \in Thread, NEW id \in OrderId, NEW order \in Order,
           NEW o \in Admitted(id, order), Insert(t, id, o, order.type)
    PROVE  SweepInv'
<1> SUFFICES ASSUME order.type = "Market"
             PROVE  AcceptsAll(orders[adding.id].side, orders[adding.id].price)'
  BY DEF Insert, SweepInv
<1>1. BookOK(book) /\ order.side \in Side
  BY DEF IInv, BookInv, Order
<1>2. PICK p \in Worst(Opposite(order.side)) : o = ToGoodTillCancel(order, p)
  BY DEF Admitted
<1>3. o.side = order.side /\ o.price = p
  BY <1>2 DEF ToGoodTillCancel, Order
<1>4. AcceptsAll(o.side, o.price)
  BY <1>1, <1>2, <1>3, WorstAccepts
<1>5. /\ adding'.id = id /\ orders'[id] = o
      /\ book'[Opposite(o.side)] = book[Opposite(o.side)]
  <2>1. Opposite(o.side) # o.side
    BY DEF Opposite
  <2>2. QED
    BY <1>1, <1>3, <2>1, OppositeIsSide DEF Insert, Put, BookOK
<1>6. QED
  BY <1>4, <1>5 DEF AcceptsAll, Levels

\* While matching goes on no level is added.
LEMMA ShrinkSweep ==
    ASSUME IInv, SweepInv, Kept(orders, orders'), UNCHANGED <<mutex, adding>>,
           \A side \in Side : DOMAIN book'[side] \subseteq DOMAIN book[side]
    PROVE  SweepInv'
<1> SUFFICES ASSUME mutex # NoThread, adding.type = "Market",
                    adding.id \in DOMAIN orders'
             PROVE  AcceptsAll(orders[adding.id].side, orders[adding.id].price)'
  BY DEF SweepInv
<1> DEFINE i == adding.id
<1>1. /\ i \in DOMAIN orders
      /\ orders'[i].side = orders[i].side /\ orders'[i].price = orders[i].price
  BY DEF Kept
<1>2. AcceptsAll(orders[i].side, orders[i].price)
  BY <1>1 DEF SweepInv
<1>3. Opposite(orders[i].side) \in Side
  BY <1>1, FiledAt, OppositeIsSide DEF IInv
<1>4. QED
  BY <1>1, <1>2, <1>3 DEF AcceptsAll, Levels

LEMMA NextSweep == IInv /\ SweepInv /\ [Next]_vars => SweepInv'
<1> SUFFICES ASSUME IInv, SweepInv, [Next]_vars PROVE SweepInv'
  OBVIOUS
<1>1. ASSUME mutex' = NoThread PROVE SweepInv'
  BY <1>1 DEF SweepInv
<1>2. CASE UNCHANGED vars
  BY <1>2 DEF vars, SweepInv, AcceptsAll, Levels
<1>3. ASSUME NEW t \in Thread, Client(t) PROVE SweepInv'
  <2>1. ASSUME NEW id \in OrderId, NEW type \in InputType, NEW side \in Side,
               NEW price \in Price, NEW quantity \in InputQty,
               NEW filled \in InputFilled, Submittable(type, quantity, filled),
               AddOrder(t, id, Fill(NewOrder(type, side, price, quantity), filled))
        PROVE  SweepInv'
    BY <2>1, SubmittedIsOrder, InsertSweep DEF AddOrder
  <2>2. QED
    BY <1>1, <1>3, <2>1 DEF Client, CancelOrder, ModifyOrder
<1>4. ASSUME NEW t \in Thread, FillFront(t) PROVE SweepInv'
  <2>1. UNCHANGED <<mutex, adding>>
    BY <1>4 DEF FillFront
  <2>2. QED
    BY <1>4, <2>1, FillKeeps, ShrinkSweep
<1>5. ASSUME NEW t \in Thread, DropEmptyLevels(t) PROVE SweepInv'
  <2>1. /\ UNCHANGED <<orders, mutex, adding>>
        /\ \A side \in Side : DOMAIN book'[side] \subseteq DOMAIN book[side]
    BY <1>5 DEF DropEmptyLevels, Restrict, Levels
  <2>2. Kept(orders, orders')
    BY <2>1 DEF Kept
  <2>3. QED
    BY <2>1, <2>2, ShrinkSweep
<1>6. ASSUME NEW t \in Thread, Return(t) PROVE SweepInv'
  BY <1>1, <1>6 DEF Return
<1>7. ASSUME NEW t \in Thread, KillRemainder(t) PROVE SweepInv'
  BY <1>7 DEF KillRemainder, SweepInv, AcceptsAll, Levels
<1>8. ASSUME NEW t \in Thread, Modifying(t) PROVE SweepInv'
  <2>1. CASE CancelOriginal(t)
    BY <1>1, <2>1 DEF CancelOriginal
  <2>2. CASE AddModified(t)
    <3>1. request[t].id \in OrderId /\ request[t].order \in Order
      BY <2>2 DEF AddModified, IInv, LockHeld
    <3>2. QED
      BY <1>1, <2>2, <3>1, InsertSweep DEF AddModified
  <2>3. QED
    BY <1>8, <2>1, <2>2 DEF Modifying
<1>9. QED
  BY <1>2, <1>3, <1>4, <1>5, <1>6, <1>7, <1>8 DEF Next, Matching

LEMMA SpecSweep == Spec => [](IInv /\ SweepInv)
<1>1. Init => SweepInv
  BY DEF Init, SweepInv
<1>2. QED
  BY <1>1, InitIInv, NextIInv, NextSweep, PTL DEF Spec

\* With the limit that accepts every price, a book that is not crossed has
\* nothing left on the other side.
LEMMA SweepSuffices == IInv /\ SweepInv => MarketOrderSweeps
<1> SUFFICES ASSUME IInv, SweepInv, NEW t \in Thread, pc[t] = "matching", ~Crossed,
                    adding.type = "Market", adding.id \in DOMAIN orders
             PROVE  Levels(Opposite(orders[adding.id].side)) = {}
  BY DEF MarketOrderSweeps
<1> DEFINE side == orders[adding.id].side
           price == orders[adding.id].price
<1>1. mutex # NoThread
  BY ThreadAssumption DEF IInv, LockHeld
<1>2. AcceptsAll(side, price)
  BY <1>1 DEF SweepInv
<1>3. side \in Side /\ price \in Levels(side)
  BY FiledAt DEF IInv
<1>4. Levels(side) \subseteq Int /\ Levels(Opposite(side)) \subseteq Int
  BY <1>3, OppositeIsSide, LevelsAreInts DEF IInv, BookInv
<1> HIDE DEF side, price
<1>5. ASSUME NEW p \in Levels(Opposite(side)) PROVE FALSE
  BY <1>2, <1>3, <1>4 DEF AcceptsAll, Accepts, Opposite, Side, Crossed
<1>6. QED
  BY <1>5 DEF side

------------------------------------------------------------------------------
LEMMA SpecTaker == Spec => [](IInv /\ TakerInv)
<1>1. QED
  BY InitIInv, NextIInv, InitTaker, NextTaker, PTL DEF Spec

------------------------------------------------------------------------------
(* The theorems. *)

\* Wherever MatchOrders looks for a FillAndKill remainder, and whenever the
\* mutex is free, every level has an order: front() is never called on an
\* empty list, however many rounds matching took.
THEOREM FrontsExist == Spec => []NoEmptyFront
<1>1. IInv /\ TakerInv => NoEmptyFront
  BY DEF TakerInv, EmptyLevels, NoEmptyFront
<1>2. QED
  BY <1>1, SpecTaker, PTL

\* MatchOrders works on whatever is best on the two sides, without knowing
\* which order was added; still every trade AddOrder returns has it on a side.
THEOREM TakerTrades == Spec => []TakerInEveryTrade
<1>1. TakerInv => TakerInEveryTrade
  BY DEF TakerInv
<1>2. QED
  BY <1>1, SpecTaker, PTL

\* No call ever finds a FillAndKill order in the book: what AddOrder leaves of
\* one leads a best level, where MatchOrders looks for it.  (It is kept out by
\* its thread, that stays in CancelOrder with the mutex for ever.)
THEOREM FillAndKillNeverRests == Spec => []NoFillAndKillAtRest
<1>1. TakerInv => NoFillAndKillAtRest
  BY DEF TakerInv, NoneToKill, NoFillAndKillAtRest
<1>2. QED
  BY <1>1, SpecTaker, PTL

\* A Market order becomes a GoodTillCancel order "at worst bid or ask to allow
\* same behavior" (comment at the Market branch of AddOrder).  It does, at any
\* prices: the best levels are used up one by one, down to the worst.
THEOREM MarketSweeps == Spec => []MarketOrderSweeps
<1>1. QED
  BY SpecSweep, SweepSuffices, PTL
------------------------------------------------------------------------------
(* A theorem about Orderbook when clients submit orders that are not       *)
(* filled yet: a partly filled order keeps the head of its queue.          *)

Fresh(order) == order.remaining = order.initial

\* The orders that ModifyOrder is going to add have not been filled.
FreshRequests ==
    \A t \in Thread :
        pc[t] \in {"cancelOriginal", "addModified"} => Fresh(request[t].order)

\* With IInv, the inductive invariant.
LeadInv == PartialFillsLead /\ FreshRequests

\* The queue of an order, of a book b.
QueueOfOrder(b, o) == b[o.side][o.price]

\* PartialFillsLead survives where every order that is left was there before,
\* as it is now, and kept the head of its queue.
LEMMA LeadKept ==
    ASSUME PartialFillsLead,
           \A i \in DOMAIN orders' :
              /\ i \in DOMAIN orders
              /\ orders'[i] = orders[i]
              /\ Head(QueueOfOrder(book, orders[i])) = i =>
                    Head(QueueOfOrder(book', orders[i])) = i
    PROVE  PartialFillsLead'
BY DEF PartialFillsLead, QueueOfOrder

\* A new order goes behind the others, and has not been filled.
LEMMA InsertLead ==
    ASSUME IInv, PartialFillsLead, NEW t \in Thread, NEW id \in OrderId,
           NEW order \in Order, Fresh(order),
           NEW o \in Admitted(id, order), Insert(t, id, o, order.type)
    PROVE  PartialFillsLead'
<1>1. BookInv(book, orders, data) /\ BookOK(book)
  BY DEF IInv, BookInv
<1>2. o \in Order /\ id \notin DOMAIN orders /\ o.side \in Side /\ o.price \in Price
  BY <1>1, AdmittedIsOrder DEF Order
<1>3. Fresh(o)
  BY DEF Fresh, Admitted, ToGoodTillCancel, Order
<1> DEFINE queue == QueueOf(book, o.side, o.price)
<1>4. /\ book' = [book EXCEPT ![o.side] = Put(@, o.price, Append(queue, id))]
      /\ orders' = Put(orders, id, o)
  BY DEF Insert, Enqueue, Queue, QueueOf, Levels
<1>5. DOMAIN book = Side /\ queue \in Seq(OrderId)
  BY <1>1, <1>2, QueueOfIsSeq DEF BookOK
<1> SUFFICES ASSUME NEW i \in DOMAIN orders', orders'[i].remaining < orders'[i].initial
             PROVE  /\ orders'[i].remaining > 0
                    /\ Head(QueueOfOrder(book', orders'[i])) = i
  BY DEF PartialFillsLead, QueueOfOrder
<1>6. i # id
  BY <1>2, <1>3, <1>4 DEF Put, Fresh, Order, Quantity
<1>7. i \in DOMAIN orders /\ orders'[i] = orders[i]
  BY <1>4, <1>6 DEF Put
<1>8. orders[i].remaining > 0 /\ Head(QueueOfOrder(book, orders[i])) = i
  BY <1>7 DEF PartialFillsLead, QueueOfOrder
<1> DEFINE s == orders[i].side
           p == orders[i].price
<1>9. s \in Side /\ p \in DOMAIN book[s]
      /\ book[s][p] \in Seq(OrderId) /\ i \in Range(book[s][p])
  BY <1>1, <1>7, FiledAt DEF Levels
<1>10. CASE s = o.side /\ p = o.price
  <2>1. queue = book[s][p]
    BY <1>9, <1>10 DEF QueueOf
  <2>2. queue # <<>>
    BY <1>9, <2>1 DEF Range
  <2>3. Head(Append(queue, id)) = Head(queue)
    <3> HIDE DEF queue
    <3>1. Len(queue) \in Nat \ {0}
      BY <1>5, <2>2, EmptySeq, LenProperties
    <3>2. QED
      BY <1>5, <3>1, AppendProperties
  <2>4. QueueOfOrder(book', orders'[i]) = Append(queue, id)
    BY <1>4, <1>5, <1>7, <1>9, <1>10 DEF QueueOfOrder, Put
  <2>5. QED
    BY <1>7, <1>8, <2>1, <2>3, <2>4 DEF QueueOfOrder
<1>11. CASE ~(s = o.side /\ p = o.price)
  <2>1. QueueOfOrder(book', orders'[i]) = QueueOfOrder(book, orders[i])
    <3> HIDE DEF queue
    <3>1. QED
      BY <1>2, <1>4, <1>5, <1>7, <1>9, <1>11 DEF QueueOfOrder, Put
  <2>2. QED
    BY <1>7, <1>8, <2>1
<1>12. QED
  BY <1>10, <1>11

\* The list loses one node: if another order led it, that one leads it still.
LEMMA CancelLead ==
    ASSUME IInv, PartialFillsLead,
           \/ \E id \in DOMAIN orders : CancelOrderInternal(id)
           \/ UNCHANGED bookVars
    PROVE  PartialFillsLead'
<1>1. CASE UNCHANGED bookVars
  BY <1>1 DEF bookVars, PartialFillsLead
<1>2. CASE \E id \in DOMAIN orders : CancelOrderInternal(id)
  <2>1. PICK id \in DOMAIN orders : CancelOrderInternal(id)
    BY <1>2
  <2> DEFINE side == orders[id].side
             price == orders[id].price
             queue == book[side][price]
             at == Location(queue, id)
             rest == RemoveAt(queue, at)
  <2>2. /\ book' = [book EXCEPT ![side] = SetQueue(@, price, rest)]
        /\ orders' = Without(orders, id)
    BY <2>1 DEF CancelOrderInternal
  <2>3. BookInv(book, orders, data) /\ DOMAIN book = Side
    BY DEF IInv, BookInv, BookOK
  <2>4. queue \in Seq(OrderId) /\ side \in Side /\ id \in Range(queue)
    BY <2>3, FiledAt
  <2>5. at \in 1 .. Len(queue) /\ queue[at] = id
    <3>1. at \in DOMAIN queue /\ queue[at] = id
      BY <2>4 DEF Location, Range
    <3>2. QED
      BY <2>4, <3>1, LenProperties
  <2> HIDE DEF at
  <2>6. ASSUME NEW i \in DOMAIN orders'
        PROVE  /\ i \in DOMAIN orders
               /\ orders'[i] = orders[i]
               /\ Head(QueueOfOrder(book, orders[i])) = i =>
                      Head(QueueOfOrder(book', orders[i])) = i
    <3>1. i \in DOMAIN orders /\ i # id /\ orders'[i] = orders[i]
      BY <2>2 DEF Without, Restrict
    <3>2. /\ orders[i].side \in Side
          /\ orders[i].price \in DOMAIN book[orders[i].side]
      BY <2>3, <3>1, FiledAt DEF Levels
    <3>3. CASE orders[i].side = side /\ orders[i].price = price
      <4> SUFFICES ASSUME Head(queue) = i
                   PROVE  Head(QueueOfOrder(book', orders[i])) = i
        BY <3>1, <3>3 DEF QueueOfOrder
      <4>1. Len(queue) \in Nat /\ Head(queue) = queue[1]
        BY <2>4, LenProperties
      <4>2. 1 < at /\ Len(queue) > 1
        BY <2>5, <3>1, <4>1
      <4>3. /\ rest \in Seq(OrderId) /\ Len(rest) = Len(queue) - 1
            /\ \A j \in 1 .. Len(queue) - 1 :
                  rest[j] = IF j < at THEN queue[j] ELSE queue[j + 1]
        BY <2>4, <2>5, RemoveAtProperties
      <4> HIDE DEF queue, rest
      <4>4. Len(rest) > 0 /\ rest[1] = i
        BY <4>1, <4>2, <4>3
      <4>5. rest # <<>> /\ Head(rest) = i
        BY <4>3, <4>4, EmptySeq
      <4>6. QueueOfOrder(book', orders[i]) = rest
        BY <2>2, <2>3, <3>2, <3>3, <4>5 DEF QueueOfOrder, SetQueue, Put
      <4>7. QED
        BY <4>5, <4>6
    <3>4. CASE ~(orders[i].side = side /\ orders[i].price = price)
      <4> HIDE DEF queue, rest
      <4>1. QueueOfOrder(book', orders[i]) = QueueOfOrder(book, orders[i])
        BY <2>2, <2>3, <3>2, <3>4 DEF QueueOfOrder, SetQueue, Put, Without, Restrict
      <4>2. QED
        BY <3>1, <4>1
    <3>5. QED
      BY <3>3, <3>4
  <2>7. QED
    BY <2>6, LeadKept
<1>3. QED
  BY <1>1, <1>2

\* Of the two orders that trade, the one that is left stays at the front.
LEMMA FillLead ==
    ASSUME IInv, PartialFillsLead, NEW t \in Thread, FillFront(t)
    PROVE  PartialFillsLead'
<1>1. /\ BookInv(book, orders, data) /\ BookOK(book) /\ Agree(book, orders)
      /\ IsMap(orders, OrderId, Order)
  BY DEF IInv, BookInv
<1>2. PICK bp \in Best("Buy"), ap \in Best("Sell") :
        /\ book["Buy"][bp] # <<>>
        /\ book["Sell"][ap] # <<>>
        /\ FillLevels(bp, ap)
  BY DEF FillFront
<1> DEFINE bidId == Head(book["Buy"][bp])
           askId == Head(book["Sell"][ap])
<1>3. /\ "Buy" \in Side /\ "Sell" \in Side /\ DOMAIN book = Side
      /\ bp \in DOMAIN book["Buy"] /\ ap \in DOMAIN book["Sell"]
  BY <1>1 DEF Side, Best, Levels, BookOK
<1>4. /\ bidId \in DOMAIN orders
      /\ orders[bidId].side = "Buy" /\ orders[bidId].price = bp
  BY <1>1, <1>2, <1>3, FrontIsFiled
<1>5. /\ askId \in DOMAIN orders
      /\ orders[askId].side = "Sell" /\ orders[askId].price = ap
  BY <1>1, <1>2, <1>3, FrontIsFiled
<1> DEFINE least == Smaller(orders[bidId].remaining, orders[askId].remaining)
<1>6. PICK quantity, bid, ask :
        /\ quantity = least
        /\ bid = Fill(orders[bidId], quantity)
        /\ ask = Fill(orders[askId], quantity)
        /\ book' = [book EXCEPT
              !["Buy"][bp] = IF IsFilled(bid) THEN Tail(@) ELSE @,
              !["Sell"][ap] = IF IsFilled(ask) THEN Tail(@) ELSE @]
        /\ orders' = Settle(Settle(orders, bidId, bid), askId, ask)
  BY <1>2 DEF FillLevels
<1>7. orders[bidId] \in Order /\ orders[askId] \in Order
  BY <1>1, <1>4, <1>5 DEF IsMap
<1>8. /\ quantity \in Quantity
      /\ quantity <= orders[bidId].remaining /\ quantity <= orders[askId].remaining
  <2>1. orders[bidId].remaining \in Quantity /\ orders[askId].remaining \in Quantity
    BY <1>7 DEF Order
  <2> HIDE DEF bidId, askId
  <2>2. QED
    BY <1>6, <2>1, QModAssumption DEF Smaller, Quantity
<1>9. /\ bid \in Order /\ bid.side = "Buy" /\ bid.price = bp
      /\ ask \in Order /\ ask.side = "Sell" /\ ask.price = ap
  BY <1>4, <1>5, <1>6, <1>7, <1>8, FillIsOrder
<1>10. /\ ~IsFilled(bid) => bid.remaining > 0
       /\ ~IsFilled(ask) => ask.remaining > 0
  BY <1>9, QModAssumption DEF IsFilled, Order, Quantity
<1> HIDE DEF bidId, askId, least
<1>11. /\ DOMAIN book' = Side
       /\ \A s \in Side : \A p \in DOMAIN book[s] :
             ~(s = "Buy" /\ p = bp) /\ ~(s = "Sell" /\ p = ap) =>
                book'[s][p] = book[s][p]
       /\ ~IsFilled(bid) => book'["Buy"][bp] = book["Buy"][bp]
       /\ ~IsFilled(ask) => book'["Sell"][ap] = book["Sell"][ap]
  BY <1>3, <1>6 DEF Side
<1> SUFFICES ASSUME NEW i \in DOMAIN orders', orders'[i].remaining < orders'[i].initial
             PROVE  /\ orders'[i].remaining > 0
                    /\ Head(QueueOfOrder(book', orders'[i])) = i
  BY DEF PartialFillsLead, QueueOfOrder
<1>12. bidId # askId
  BY <1>4, <1>5
<1>13. CASE i = bidId
  <2>1. ~IsFilled(bid) /\ orders'[i] = bid
    BY <1>6, <1>12, <1>13 DEF Settle, Put, Without, Restrict
  <2>2. QED
    BY <1>9, <1>10, <1>11, <1>13, <2>1 DEF QueueOfOrder, bidId
<1>14. CASE i = askId
  <2>1. ~IsFilled(ask) /\ orders'[i] = ask
    BY <1>6, <1>14 DEF Settle, Put, Without, Restrict
  <2>2. QED
    BY <1>9, <1>10, <1>11, <1>14, <2>1 DEF QueueOfOrder, askId
<1>15. CASE i \notin {bidId, askId}
  <2>1. i \in DOMAIN orders /\ orders'[i] = orders[i]
    BY <1>6, <1>15 DEF Settle, Put, Without, Restrict
  <2>2. orders[i].remaining > 0 /\ Head(QueueOfOrder(book, orders[i])) = i
    BY <2>1 DEF PartialFillsLead, QueueOfOrder
  <2>3. orders[i].side \in Side /\ orders[i].price \in DOMAIN book[orders[i].side]
    BY <1>1, <2>1, FiledAt DEF Levels
  <2>4. /\ ~(orders[i].side = "Buy" /\ orders[i].price = bp)
        /\ ~(orders[i].side = "Sell" /\ orders[i].price = ap)
    BY <1>15, <2>2 DEF QueueOfOrder, bidId, askId
  <2>5. QueueOfOrder(book', orders'[i]) = QueueOfOrder(book, orders[i])
    BY <1>11, <2>1, <2>3, <2>4 DEF QueueOfOrder
  <2>6. QED
    BY <2>1, <2>2, <2>5
<1>16. QED
  BY <1>13, <1>14, <1>15

\* The levels that the cleanup erases hold no order.
LEMMA DropLead ==
    ASSUME IInv, PartialFillsLead, NEW t \in Thread, DropEmptyLevels(t)
    PROVE  PartialFillsLead'
<1>1. BookInv(book, orders, data)
  BY DEF IInv
<1>2. /\ book' = [side \in Side |->
                    Restrict(book[side], Levels(side) \ Emptied(side))]
      /\ orders' = orders
  BY DEF DropEmptyLevels
<1>3. ASSUME NEW i \in DOMAIN orders
      PROVE  QueueOfOrder(book', orders[i]) = QueueOfOrder(book, orders[i])
  <2> DEFINE s == orders[i].side
             p == orders[i].price
  <2>1. s \in Side /\ p \in Levels(s) /\ i \in Range(book[s][p])
    BY <1>1, FiledAt
  <2>2. book[s][p] # <<>>
    BY <2>1 DEF Range
  <2>3. p \notin Emptied(s)
    BY <2>2 DEF Emptied
  <2>4. QED
    BY <1>2, <2>1, <2>3 DEF QueueOfOrder, Restrict
<1>4. QED
  BY <1>2, <1>3, LeadKept

\* ModifyOrder builds its order anew, with what it asks for left to fill.
LEMMA NextFresh == IInv /\ FreshRequests /\ [Next]_vars => FreshRequests'
<1> SUFFICES ASSUME IInv, FreshRequests, [Next]_vars PROVE FreshRequests'
  OBVIOUS
<1>1. /\ pc \in [Thread -> {"idle", "matching", "relocking",
                            "cancelOriginal", "addModified"}]
      /\ request \in [Thread -> [id : OrderId, order : Order] \cup {NoCall}]
  BY DEF IInv, LocalTypeOK
<1>2. ASSUME NEW t \in Thread, NEW id \in OrderId, NEW side \in Side,
             NEW price \in Price, NEW quantity \in ModifyQty,
             ModifyOrder(t, id, side, price, quantity)
      PROVE  FreshRequests'
  BY <1>1, <1>2 DEF ModifyOrder, FreshRequests, Fresh, NewOrder
<1>3. ASSUME NEW t \in Thread, UNCHANGED request,
             pc' = pc \/ \E at \in {"idle", "matching", "relocking"} :
                            pc' = [pc EXCEPT ![t] = at]
      PROVE  FreshRequests'
  BY <1>1, <1>3 DEF FreshRequests
<1>4. ASSUME NEW t \in Thread, CancelOriginal(t)
      PROVE  FreshRequests'
  BY <1>1, <1>4 DEF CancelOriginal, FreshRequests
<1>5. ASSUME NEW t \in Thread, AddModified(t)
      PROVE  FreshRequests'
  <2>1. request' = [request EXCEPT ![t] = NoCall]
    BY <1>5 DEF AddModified
  <2>2. PICK at \in {"idle", "matching"} : pc' = [pc EXCEPT ![t] = at]
    BY <1>5 DEF AddModified, Insert
  <2>3. QED
    BY <1>1, <2>1, <2>2 DEF FreshRequests
<1>6. CASE UNCHANGED vars
  BY <1>6 DEF vars, FreshRequests
<1>7. ASSUME NEW t \in Thread, NEW id, NEW order, AddOrder(t, id, order)
      PROVE  FreshRequests'
  BY <1>3, <1>7 DEF AddOrder, Insert
<1>8. ASSUME NEW t \in Thread, Matching(t)
      PROVE  FreshRequests'
  BY <1>3, <1>8 DEF Matching, FillFront, DropEmptyLevels, Return, KillRemainder
<1>9. ASSUME NEW t \in Thread, NEW id \in OrderId, CancelOrder(t, id)
      PROVE  FreshRequests'
  BY <1>3, <1>9 DEF CancelOrder
<1>10. QED
  BY <1>2, <1>4, <1>5, <1>6, <1>7, <1>8, <1>9 DEF Next, Client, Modifying

LEMMA NextLead ==
    ASSUME InputFilled \subseteq {0}
    PROVE  IInv /\ LeadInv /\ [Next]_vars => LeadInv'
<1> SUFFICES ASSUME IInv, PartialFillsLead, FreshRequests, [Next]_vars
             PROVE  PartialFillsLead'
  BY NextFresh DEF LeadInv
<1>1. ASSUME NEW t \in Thread, NEW id \in OrderId, NEW type \in InputType,
             NEW side \in Side, NEW price \in Price, NEW quantity \in InputQty,
             NEW filled \in InputFilled, Submittable(type, quantity, filled),
             AddOrder(t, id, Fill(NewOrder(type, side, price, quantity), filled))
      PROVE  PartialFillsLead'
  <2> DEFINE order == Fill(NewOrder(type, side, price, quantity), filled)
  <2>1. order \in Order
    BY <1>1, SubmittedIsOrder
  <2>2. Fresh(order)
    BY InputAssumption, QModAssumption DEF Fresh, Fill, NewOrder, Quantity
  <2> HIDE DEF order
  <2>3. AddOrder(t, id, order)
    BY <1>1 DEF order
  <2>4. QED
    BY <2>1, <2>2, <2>3, InsertLead DEF AddOrder
<1>2. ASSUME NEW t \in Thread, NEW id \in OrderId, CancelOrder(t, id)
      PROVE  PartialFillsLead'
  BY <1>2, CancelLead DEF CancelOrder
<1>3. ASSUME NEW t \in Thread, CancelOriginal(t)
      PROVE  PartialFillsLead'
  BY <1>3, CancelLead DEF CancelOriginal
<1>4. ASSUME NEW t \in Thread, AddModified(t)
      PROVE  PartialFillsLead'
  <2>1. /\ request[t].id \in OrderId /\ request[t].order \in Order
        /\ Fresh(request[t].order)
    BY <1>4 DEF AddModified, IInv, LockHeld, FreshRequests
  <2>2. CASE \E o \in Admitted(request[t].id, request[t].order) :
                Insert(t, request[t].id, o, request[t].order.type)
    BY <2>1, <2>2, InsertLead
  <2>3. CASE UNCHANGED <<book, orders, data, mutex, adding, trades>>
    BY <2>3 DEF PartialFillsLead
  <2>4. QED
    BY <1>4, <2>2, <2>3 DEF AddModified
<1>5. CASE UNCHANGED <<book, orders>>
  BY <1>5 DEF PartialFillsLead
<1>6. QED
  BY <1>1, <1>2, <1>3, <1>4, <1>5, FillLead, DropLead
  DEF Next, Client, Matching, Modifying, ModifyOrder, Return, KillRemainder, vars

LEMMA InitLead == Init => LeadInv
<1>1. DOMAIN <<>> = {}
  OBVIOUS
<1>2. QED
  BY <1>1 DEF Init, LeadInv, PartialFillsLead, FreshRequests

------------------------------------------------------------------------------
\* When clients submit orders that are not filled yet, an order that is partly
\* filled is the first of its queue for as long as it is in the book, whatever
\* is added and cancelled around it, and has something left to fill.
THEOREM PartialsKeepTheirPlace ==
    ASSUME InputFilled \subseteq {0}
    PROVE  Spec => []PartialFillsLead
<1>1. IInv /\ LeadInv /\ [Next]_vars => (IInv /\ LeadInv)'
  BY NextIInv, NextLead
<1>2. LeadInv => PartialFillsLead
  BY DEF LeadInv
<1>3. QED
  BY <1>1, <1>2, InitIInv, InitLead, PTL DEF Spec
===============================================================================
