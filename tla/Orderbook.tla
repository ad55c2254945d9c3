------------------------------- MODULE Orderbook -------------------------------
(***************************************************************************)
(* class Orderbook (src/Orderbook.cpp): the limit order book and its       *)
(* matching engine, called by any number of client threads that share      *)
(* ordersMutex_.                                                           *)
(*                                                                         *)
(* A critical section without a loop is one action.  AddOrder keeps the    *)
(* mutex through the matching loop, whose body, cleanup and exits are      *)
(* steps of the thread that holds it.  ModifyOrder is three critical       *)
(* sections, with the mutex free in between.  A call that returns at once  *)
(* (a refused order, an unknown id) changes nothing and is no step.        *)
(***************************************************************************)
EXTENDS LevelData, SequencesExt

CONSTANTS
    Thread,     \* the client threads
    NoThread,   \* the value of a free mutex
    NoCall,     \* no AddOrder (ModifyOrder) in progress
    InputType,  \* the order types clients submit
    InputQty,   \* the quantities clients submit
    InputFilled,\* how far an order may be filled when it is submitted
    ModifyQty,  \* the quantities clients ask for in ModifyOrder
    FreedKey    \* what reading the key of a freed map node can yield

ASSUME ThreadAssumption == NoThread \notin Thread
ASSUME InputAssumption ==
    /\ InputType \subseteq OrderType
    /\ InputQty \subseteq Quantity
    /\ InputFilled \subseteq Quantity
    /\ ModifyQty \subseteq Quantity
ASSUME FreedKeyAssumption == FreedKey \subseteq {"intact", "cleared"}

VARIABLES
    book,       \* book["Buy"] is bids_, book["Sell"] is asks_
    orders,     \* orders_: the order of each resting id
    data,       \* data_
    mutex,      \* the owner of ordersMutex_
    pc,         \* where each thread is
    request,    \* the order each thread in ModifyOrder will add back
    adding,     \* local to AddOrder: the id and the submitted type
    trades      \* local to MatchOrders

bookVars == <<book, orders, data>>
localVars == <<adding, trades>>
vars == <<book, orders, data, mutex, pc, request, adding, trades>>

\* The types of the members of Orderbook and of the locals of its operations.
TypeOK ==
    /\ DOMAIN book = Side
    /\ \A side \in Side : IsMap(book[side], Price, Seq(OrderId))
    /\ IsMap(orders, OrderId, Order)
    /\ IsMap(data, Price, LevelTotals)
    /\ mutex \in Thread \cup {NoThread}
    /\ pc \in [Thread -> {"idle", "matching", "relocking",
                          "cancelOriginal", "addModified"}]
    /\ request \in [Thread -> [id : OrderId, order : Order] \cup {NoCall}]
    /\ adding \in [id : OrderId, type : OrderType] \cup {NoCall}
    /\ trades \in Seq(Trade)

Init ==
    /\ book = [side \in Side |-> <<>>]
    /\ orders = <<>>
    /\ data = <<>>
    /\ mutex = NoThread
    /\ pc = [t \in Thread |-> "idle"]
    /\ request = [t \in Thread |-> NoCall]
    /\ adding = NoCall
    /\ trades = <<>>

------------------------------------------------------------------------------
(* Reading the levels. *)

\* The order of the two maps: the highest bid and the lowest ask come first.
Ahead(side, p, q) == IF side = "Buy" THEN p > q ELSE p < q

Levels(side) == DOMAIN book[side]

\* begin() and rbegin() of a map of levels; empty when the map is.
Best(side) == {p \in Levels(side) : \A q \in Levels(side) : ~Ahead(side, q, p)}
\* Mutant of Worst: the wrong end of the map.
WorstIsBest(side) == Best(side)

Worst(side) == {p \in Levels(side) : \A q \in Levels(side) : ~Ahead(side, p, q)}

\* A limit price of a side accepts the price of an order of the other one.
Accepts(side, limit, price) ==
    IF side = "Buy" THEN limit >= price ELSE limit <= price

\* Mutant of CanMatch: any opposite order will do.
CanMatchAnything(side, price) == Best(Opposite(side)) # {}

CanMatch(side, price) ==
    \E p \in Best(Opposite(side)) : Accepts(side, price, p)

\* Mutant of InRange: the limit is not looked at.
InRangeUnlimited(side, price) == DOMAIN data

\* The entries of data_ between the best opposite price and the limit.
InRange(side, price) ==
    {p \in DOMAIN data :
        /\ Accepts(side, price, p)
        /\ \E best \in Best(Opposite(side)) : ~Ahead(Opposite(side), p, best)}

\* What is left of a quantity once an entry of data_ covers the rest.
Covered == -1

\* Mutant of TakeFrom: < for <=.
TakeFromStrictly(p, quantity) ==
    IF quantity < data[p].quantity THEN Covered ELSE quantity - data[p].quantity

\* One round of the loop of CanFullyFill, at an entry in range.
TakeFrom(p, quantity) ==
    IF quantity <= data[p].quantity THEN Covered ELSE quantity - data[p].quantity

\* The entries come in an order the map leaves open, as the fold does.
CanFullyFill(side, price, quantity) ==
    /\ CanMatch(side, price)
    /\ FoldSet(TakeFrom, quantity, InRange(side, price)) = Covered

------------------------------------------------------------------------------
(* AddOrder. *)

\* Mutant of Admitted: no test for an id that is already there.
AdmittedTwice(id, order) ==
    IF order.type = "FillAndKill" /\ ~CanMatch(order.side, order.price)
    THEN {} ELSE {order}

\* The order as it would be booked: a Market order becomes a GoodTillCancel
\* order at the worst opposite price.  Empty when AddOrder refuses it.
Admitted(id, order) ==
    LET priced ==
          IF order.type = "Market"
          THEN {ToGoodTillCancel(order, p) : p \in Worst(Opposite(order.side))}
          ELSE {order}
    IN  {o \in priced :
            /\ id \notin DOMAIN orders
            /\ o.type = "FillAndKill" => CanMatch(o.side, o.price)
            /\ o.type = "FillOrKill" => CanFullyFill(o.side, o.price, o.initial)}

Queue(side, price) ==
    IF price \in Levels(side) THEN book[side][price] ELSE <<>>

\* Mutant of Enqueue: push_front for push_back.
EnqueueInFront(side, price, id) == <<id>> \o Queue(side, price)

Enqueue(side, price, id) == Append(Queue(side, price), id)

\* The rest of AddOrder once the order is admitted, up to MatchOrders.
Insert(t, id, order, type) ==
    /\ book' = [book EXCEPT ![order.side] =
                  Put(@, order.price, Enqueue(order.side, order.price, id))]
    /\ orders' = Put(orders, id, order)
    /\ data' = UpdateLevelData(data, order.price, order.initial, "Add")
    /\ mutex' = t
    /\ pc' = [pc EXCEPT ![t] = "matching"]
    /\ adding' = [id |-> id, type |-> type]
    /\ trades' = <<>>

AddOrder(t, id, order) ==
    /\ pc[t] = "idle"
    /\ mutex = NoThread
    /\ \E o \in Admitted(id, order) : Insert(t, id, o, order.type)
    /\ UNCHANGED request

------------------------------------------------------------------------------
(* MatchOrders, run by the thread that holds the mutex. *)

Smaller(a, b) == IF a <= b THEN a ELSE b

\* Mutant of Settle: a filled order stays in orders_.
SettleKeepsFilled(f, id, o) == Put(f, id, o)

\* orders_ after an order was filled to what o says.
Settle(f, id, o) == IF IsFilled(o) THEN Without(f, id) ELSE Put(f, id, o)

\* Mutant of LevelAction: a filled order is not counted out of its level.
LevelActionMatch(o) == "Match"

LevelAction(o) == IF IsFilled(o) THEN "Remove" ELSE "Match"

\* The body of the inner loop, for the best levels bp and ap.
FillLevels(bp, ap) ==
    LET bidId == Head(book["Buy"][bp])
        askId == Head(book["Sell"][ap])
        quantity == Smaller(orders[bidId].remaining, orders[askId].remaining)
        bid == Fill(orders[bidId], quantity)
        ask == Fill(orders[askId], quantity)
    IN  /\ book' = [book EXCEPT
              !["Buy"][bp] = IF IsFilled(bid) THEN Tail(@) ELSE @,
              !["Sell"][ap] = IF IsFilled(ask) THEN Tail(@) ELSE @]
        /\ orders' = Settle(Settle(orders, bidId, bid), askId, ask)
        /\ trades' = Append(trades,
              [bid |-> [id |-> bidId, price |-> bid.price, quantity |-> quantity],
               ask |-> [id |-> askId, price |-> ask.price, quantity |-> quantity]])
        /\ data' = UpdateLevelData(
                      UpdateLevelData(data, bid.price, quantity, LevelAction(bid)),
                      ask.price, quantity, LevelAction(ask))

FillFront(t) ==
    /\ pc[t] = "matching"
    /\ \E bp \in Best("Buy"), ap \in Best("Sell") :
          /\ bp >= ap
          /\ book["Buy"][bp] # <<>>
          /\ book["Sell"][ap] # <<>>
          /\ FillLevels(bp, ap)
    /\ UNCHANGED <<mutex, pc, request, adding>>

\* Mutant of Emptied: levels are erased only when both sides are used up.
EmptiedTogether(side) ==
    {p \in Best(side) : \A s \in Side : \E q \in Best(s) : book[s][q] = <<>>}

\* The best level of a side, when matching has used it up.
Emptied(side) == {p \in Best(side) : book[side][p] = <<>>}

\* After the inner loop the emptied levels are erased.  bidPrice and askPrice
\* are references into the erased map nodes: data_.erase reads a freed key.
DropEmptyLevels(t) ==
    LET gone == Emptied("Buy") \cup Emptied("Sell")
    IN  /\ pc[t] = "matching"
        /\ gone # {}
        /\ book' = [side \in Side |->
                      Restrict(book[side], Levels(side) \ Emptied(side))]
        /\ \E read \in [gone -> FreedKey] :
              data' = Restrict(data, DOMAIN data \ {p \in gone : read[p] = "intact"})
        /\ UNCHANGED <<orders, mutex, pc, request, adding, trades>>

\* Mutant of Crossed: orders at the same price do not trade.
CrossedStrictly == \E bp \in Levels("Buy"), ap \in Levels("Sell") : bp > ap

Crossed == \E bp \in Levels("Buy"), ap \in Levels("Sell") : bp >= ap

\* A FillAndKill order leads the best level of a side.
RemainderToKill ==
    \E side \in Side : \E p \in Best(side) :
        orders[Head(book[side][p])].type = "FillAndKill"

\* Mutant of Return: the outer loop is left after one round.
ReturnAfterOneRound(t) ==
    /\ pc[t] = "matching"
    /\ Crossed => trades # <<>> /\ Emptied("Buy") = {} /\ Emptied("Sell") = {}
    /\ ~RemainderToKill
    /\ mutex' = NoThread
    /\ pc' = [pc EXCEPT ![t] = "idle"]
    /\ adding' = NoCall
    /\ trades' = <<>>
    /\ UNCHANGED <<book, orders, data, request>>

\* MatchOrders, and AddOrder with it, returns.
Return(t) ==
    /\ pc[t] = "matching"
    /\ ~Crossed
    /\ ~RemainderToKill
    /\ mutex' = NoThread
    /\ pc' = [pc EXCEPT ![t] = "idle"]
    /\ adding' = NoCall
    /\ trades' = <<>>
    /\ UNCHANGED <<book, orders, data, request>>

\* MatchOrders calls CancelOrder, which locks the mutex AddOrder still holds:
\* std::mutex is not recursive and the thread waits for itself for ever.
KillRemainder(t) ==
    /\ pc[t] = "matching"
    /\ ~Crossed
    /\ RemainderToKill
    /\ pc' = [pc EXCEPT ![t] = "relocking"]
    /\ UNCHANGED <<book, orders, data, mutex, request, adding, trades>>

------------------------------------------------------------------------------
(* CancelOrder and ModifyOrder. *)

\* OrderEntry::location_: the node of the order in its level's list.
Location(queue, id) == CHOOSE i \in DOMAIN queue : queue[i] = id

\* Mutant of SetQueue: the emptied level stays.
SetQueueKeepsLevel(levels, price, queue) == Put(levels, price, queue)

\* A level whose list became empty is erased.
SetQueue(levels, price, queue) ==
    IF queue = <<>> THEN Without(levels, price) ELSE Put(levels, price, queue)

CancelOrderInternal(id) ==
    LET o == orders[id]
        queue == book[o.side][o.price]
    IN  /\ book' = [book EXCEPT ![o.side] =
                      SetQueue(@, o.price, RemoveAt(queue, Location(queue, id)))]
        /\ orders' = Without(orders, id)
        /\ data' = UpdateLevelData(data, o.price, o.remaining, "Remove")

CancelOrder(t, id) ==
    /\ pc[t] = "idle"
    /\ mutex = NoThread
    /\ id \in DOMAIN orders
    /\ CancelOrderInternal(id)
    /\ UNCHANGED <<mutex, pc, request, adding, trades>>

\* ModifyOrder looks the order up and keeps its type; the mutex is released.
ModifyOrder(t, id, side, price, quantity) ==
    /\ pc[t] = "idle"
    /\ mutex = NoThread
    /\ id \in DOMAIN orders
    /\ request' = [request EXCEPT ![t] =
          [id |-> id, order |-> NewOrder(orders[id].type, side, price, quantity)]]
    /\ pc' = [pc EXCEPT ![t] = "cancelOriginal"]
    /\ UNCHANGED <<book, orders, data, mutex, adding, trades>>

\* Mutant of CancelOriginal: CancelOrderInternal without the mutex.
CancelOriginalUnlocked(t) ==
    /\ pc[t] = "cancelOriginal"
    /\ IF request[t].id \in DOMAIN orders THEN CancelOrderInternal(request[t].id)
                                          ELSE UNCHANGED bookVars
    /\ pc' = [pc EXCEPT ![t] = "addModified"]
    /\ UNCHANGED <<mutex, request, adding, trades>>

\* ... then calls CancelOrder, whatever happened to the order meanwhile ...
CancelOriginal(t) ==
    /\ pc[t] = "cancelOriginal"
    /\ mutex = NoThread
    /\ IF request[t].id \in DOMAIN orders THEN CancelOrderInternal(request[t].id)
                                          ELSE UNCHANGED bookVars
    /\ pc' = [pc EXCEPT ![t] = "addModified"]
    /\ UNCHANGED <<mutex, request, adding, trades>>

\* ... then AddOrder, which may refuse the new order.
AddModified(t) ==
    LET id == request[t].id
        order == request[t].order
    IN  /\ pc[t] = "addModified"
        /\ mutex = NoThread
        /\ \/ \E o \in Admitted(id, order) : Insert(t, id, o, order.type)
           \/ /\ Admitted(id, order) = {}
              /\ pc' = [pc EXCEPT ![t] = "idle"]
              /\ UNCHANGED <<book, orders, data, mutex, adding, trades>>
        /\ request' = [request EXCEPT ![t] = NoCall]

------------------------------------------------------------------------------
\* An Order object is shared with its submitter, who may submit it again after
\* it was filled in part and cancelled; orders of other types never rest.
Submittable(type, quantity, filled) ==
    /\ filled <= quantity
    /\ filled > 0 => type \in {"GoodTillCancel", "GoodForDay"}

Client(t) ==
    \/ \E id \in OrderId, type \in InputType, side \in Side, price \in Price,
          quantity \in InputQty, filled \in InputFilled :
          /\ Submittable(type, quantity, filled)
          /\ AddOrder(t, id, Fill(NewOrder(type, side, price, quantity), filled))
    \/ \E id \in OrderId : CancelOrder(t, id)
    \/ \E id \in OrderId, side \in Side, price \in Price, quantity \in ModifyQty :
          ModifyOrder(t, id, side, price, quantity)

\* The steps of a call already under way.
Matching(t) == FillFront(t) \/ DropEmptyLevels(t) \/ Return(t) \/ KillRemainder(t)
Modifying(t) == CancelOriginal(t) \/ AddModified(t)

Next == \E t \in Thread : Client(t) \/ Matching(t) \/ Modifying(t)

Spec == Init /\ [][Next]_vars

\* The operating system keeps running a thread that can run.
FairSpec == Spec /\ \A t \in Thread : WF_vars(Matching(t))

------------------------------------------------------------------------------
(* Properties. *)

\* orders_ and the levels describe the same orders: every indexed order is in
\* the queue of its side and price, and every queued id is an indexed order
\* of that side and price, queued once.  AddOrder, CancelOrderInternal and
\* MatchOrders update the two by hand, in different orders.
BookIndexAgree ==
    /\ \A id \in DOMAIN orders :
          LET o == orders[id]
          IN  /\ o.price \in Levels(o.side)
              /\ \E i \in DOMAIN book[o.side][o.price] : book[o.side][o.price][i] = id
    /\ \A side \in Side : \A p \in Levels(side) :
          /\ IsInjective(book[side][p])
          /\ \A i \in DOMAIN book[side][p] :
                LET id == book[side][p][i]
                IN  id \in DOMAIN orders /\ orders[id].side = side /\ orders[id].price = p

\* Whenever the mutex is free, every bid is below every ask: no call leaves
\* a trade undone for the next one.
UncrossedAtRest ==
    mutex = NoThread => \A bp \in Levels("Buy"), ap \in Levels("Sell") : bp < ap

\* A partly filled order is the first of its level: it keeps its place when
\* later orders queue behind it, and a filled order leaves the book.
PartialFillsLead ==
    \A id \in DOMAIN orders :
        LET o == orders[id]
        IN  o.remaining < o.initial =>
                o.remaining > 0 /\ Head(book[o.side][o.price]) = id

\* When the matching loop is over no level is empty, so that looking for a
\* FillAndKill remainder never calls front() on an empty list.
NoEmptyFront ==
    (\A t \in Thread : pc[t] = "matching" => ~Crossed) =>
        \A side \in Side : \A p \in Levels(side) : book[side][p] # <<>>

\* Every trade AddOrder returns has the order just added on its side: two
\* orders that were already resting never trade with each other.
TakerInEveryTrade ==
    \A i \in DOMAIN trades : adding.id \in {trades[i].bid.id, trades[i].ask.id}

\* A FillAndKill order never rests: no other call ever finds one in the book.
NoFillAndKillAtRest ==
    mutex = NoThread => \A id \in DOMAIN orders : orders[id].type # "FillAndKill"

\* The comment at the Market branch of AddOrder: repricing to the worst
\* opposite price gives the behaviour of a market order.  Once matching is
\* over the order is filled or there is nothing left on the other side.
MarketOrderSweeps ==
    \A t \in Thread :
        pc[t] = "matching" /\ ~Crossed /\ adding.type = "Market"
            /\ adding.id \in DOMAIN orders
        => Levels(Opposite(orders[adding.id].side)) = {}

Volume(side) ==
    LET ids == {id \in DOMAIN orders : orders[id].side = side}
    IN  SumFunctionOnSet([id \in ids |-> orders[id].remaining], ids)

\* The sum of one leg of the trades MatchOrders will return.
Traded(leg) ==
    SumFunctionOnSet([i \in DOMAIN trades |-> trades[i][leg].quantity], DOMAIN trades)

\* "returns any resulting Trades" (Orderbook.h): while one AddOrder runs, either
\* side of the book loses just the quantity of the trades it is going to return,
\* whichever leg of them is added up.
MatchingBalances ==
    [][mutex # NoThread /\ mutex' = mutex =>
        \A side \in Side, leg \in {"bid", "ask"} :
            Volume(side)' + Traded(leg)' = Volume(side) + Traded(leg)]_vars

\* A thread that holds the mutex runs alone: until it is released, every step
\* is a step of MatchOrders in that thread.
LockExcludes == [][\A t \in Thread : mutex = t => Matching(t)]_vars

\* The ids resting at a price, on either side.
RestingAt(price) == {id \in DOMAIN orders : orders[id].price = price}

\* "Metadata with quantity of financial product and order count at each
\* level" (Orderbook.h): data_ holds the totals of the orders at each price.
LevelDataExact ==
    /\ DOMAIN data = {orders[id].price : id \in DOMAIN orders}
    /\ \A p \in DOMAIN data :
          /\ data[p].orderCount = Cardinality(RestingAt(p))
          /\ data[p].quantity =
                SumFunctionOnSet([id \in RestingAt(p) |-> orders[id].remaining],
                                 RestingAt(p)) % QMod

\* What could be traded against at once, from the orders themselves.
Liquidity(side, price) ==
    LET ids == {id \in DOMAIN orders :
                    /\ orders[id].side = Opposite(side)
                    /\ Accepts(side, price, orders[id].price)}
    IN  SumFunctionOnSet([id \in ids |-> orders[id].remaining], ids)

\* "APIs to return whether an order can be matched for a trade or be fully
\* filled across one or more trades" (Orderbook.h): the answer computed from
\* data_ is the one the resting orders give.
CanFullyFillExact ==
    mutex = NoThread =>
        \A side \in Side, price \in Price, quantity \in Quantity :
            CanFullyFill(side, price, quantity) <=>
                CanMatch(side, price) /\ quantity <= Liquidity(side, price)

\* A FillOrKill order that AddOrder accepts is filled completely: when
\* matching is over it is gone.
FillOrKillFills ==
    \A t \in Thread :
        pc[t] = "matching" /\ ~Crossed /\ adding.type = "FillOrKill"
        => adding.id \notin DOMAIN orders

BookSize ==
    Cardinality(DOMAIN orders) + Cardinality(Levels("Buy")) + Cardinality(Levels("Sell"))

\* Each step of the loops of MatchOrders takes an order or a level out of the
\* book, a trade of quantity zero too: an AddOrder has no more of them than the
\* book has orders and levels.
MatchingAdvances ==
    [][mutex # NoThread /\ mutex' = mutex /\ pc' = pc => BookSize' < BookSize]_vars

\* The loops of MatchOrders end: an AddOrder that began matching gets to the
\* end of MatchOrders, where the FillAndKill remainder is dealt with.
MatchingEnds ==
    \A t \in Thread : pc[t] = "matching" ~> pc[t] # "matching"

\* "Adds order and returns any resulting Trades" (Orderbook.h).
AddOrderReturns ==
    \A t \in Thread : pc[t] = "matching" ~> pc[t] = "idle"

\* ModifyOrder cancels the order before AddOrder can refuse the new version
\* (AddOrder tests a FillAndKill or a FillOrKill order again, and its id).  As
\* long as no other thread interferes it never does: such orders do not rest.
ModifyNeverLoses ==
    [][\A t \in Thread : pc[t] = "addModified" => pc'[t] # "idle"]_vars

\* "find and remove original version and add the modified order" (comment at
\* ModifyOrder): the order is added back only by a call that removed it.
ModifyReplaces ==
    [][\A t \in Thread :
        pc[t] = "cancelOriginal" /\ pc'[t] = "addModified"
        => request[t].id \in DOMAIN orders]_vars
==============================================================================
