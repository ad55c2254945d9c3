------------------------------ MODULE LevelReader ------------------------------
(***************************************************************************)
(* Size and GetOrderInfos, called by one more thread.  Size counts the     *)
(* orders under the mutex.  GetOrderInfos then walks the levels of bids_   *)
(* and of asks_, and the list of each, without the mutex, while the        *)
(* clients go on.  A step of the walk takes one order, or ends one level;  *)
(* the walk goes astray when the node its iterator stands on is erased.    *)
(* Of a step of a client the walk sees all or nothing.                     *)
(***************************************************************************)
EXTENDS Orderbook

CONSTANTS
    End,        \* past the last level of a map, or the last order of a list
    MaxWrites   \* a bound: the steps of clients while one walk lasts

ASSUME EndAssumption == End \notin OrderId \cup Price
ASSUME MaxWritesAssumption == MaxWrites \in Nat

VARIABLES
    reader,     \* where the reading thread is: a side while it walks that side
    cursor,     \* the iterators of the walk, and the sum of accumulate
    infos,      \* bidInfos and askInfos
    writes      \* the steps of clients since Size returned last

readerVars == <<reader, cursor, infos, writes>>

LevelInfo == [price : Price, quantity : Quantity, orderCount : Quantity]

NoCursor == [level |-> End, order |-> End, sum |-> 0]
NoInfos == [side \in Side |-> <<>>]

\* The types of the reader's variables; a walk that is over, or was never
\* begun, stands nowhere.
ReaderTypeOK ==
    /\ reader \in {"idle", "counting", "counted", "done", "astray"} \cup Side
    /\ cursor \in [level : Price \cup {End}, order : OrderId \cup {End}, sum : Quantity]
    /\ infos \in [Side -> Seq(LevelInfo)]
    /\ writes \in 0 .. MaxWrites
    /\ reader \notin Side => cursor = NoCursor

ReaderInit ==
    /\ Init
    /\ reader = "idle"
    /\ cursor = NoCursor
    /\ infos = NoInfos
    /\ writes = 0

------------------------------------------------------------------------------
(* Size and GetOrderInfos. *)

Size == Cardinality(DOMAIN orders)

\* The argument of reserve(), for bidInfos and then for askInfos; what is
\* reserved has no effect on what is read.
CallSize ==
    /\ mutex = NoThread
    /\ \/ reader = "idle" /\ reader' = "counting"
       \/ reader = "counting" /\ reader' = "counted"
    /\ writes' = 0
    /\ UNCHANGED <<vars, cursor, infos>>

\* The iterators at the first of some levels of a side and at its front.
StandAt(side, levels) ==
    cursor' \in
        IF levels = {} THEN {NoCursor}
        ELSE {[level |-> p, sum |-> 0,
               order |-> IF book[side][p] = <<>> THEN End ELSE Head(book[side][p])] :
                  p \in {q \in levels : \A r \in levels : ~Ahead(side, r, q)}}

\* begin() of a map.
Enter(side, from) ==
    /\ reader = from
    /\ cursor.level = End
    /\ reader' = side
    /\ StandAt(side, Levels(side))
    /\ UNCHANGED <<vars, infos, writes>>

\* The node after an order in its list.
After(queue, id) ==
    LET i == Location(queue, id)
    IN  IF i = Len(queue) THEN End ELSE queue[i + 1]

\* Mutant of Added: the quantity submitted, not what remains of it.
AddedInitial(sum, o) == (sum + o.initial) % QMod

\* Mutant of Added: the sum is wider than a Quantity.
AddedWide(sum, o) == sum + o.remaining

\* runningSum + order->GetRemainingQuantity().
Added(sum, o) == (sum + o.remaining) % QMod

\* One round of std::accumulate.
Accumulate(side) ==
    /\ reader = side
    /\ cursor.order # End
    /\ cursor' = [cursor EXCEPT
                    !.sum = Added(@, orders[cursor.order]),
                    !.order = After(book[side][cursor.level], @)]
    /\ UNCHANGED <<vars, reader, infos, writes>>

\* CreateLevelInfo returns, and the walk goes on to the level behind.
CloseLevel(side) ==
    LET p == cursor.level
    IN  /\ reader = side
        /\ p # End
        /\ cursor.order = End
        /\ infos' = [infos EXCEPT ![side] = Append(@,
              [price |-> p, quantity |-> cursor.sum,
               orderCount |-> Len(book[side][p]) % QMod])]
        /\ StandAt(side, {q \in Levels(side) : Ahead(side, p, q)})
        /\ UNCHANGED <<vars, reader, writes>>

\* GetBidCount and GetAskCount of what was returned.
OrderCount(levelInfos) ==
    SumFunction([i \in DOMAIN levelInfos |-> levelInfos[i].orderCount]) % QMod

ReturnInfos ==
    /\ reader = "Sell"
    /\ cursor.level = End
    /\ reader' = "done"
    /\ UNCHANGED <<vars, cursor, infos, writes>>

\* The caller drops what was returned, and may call again.
DropInfos ==
    /\ reader = "done"
    /\ reader' = "idle"
    /\ infos' = NoInfos
    /\ writes' = 0
    /\ UNCHANGED <<vars, cursor>>

Walk ==
    \/ CallSize
    \/ Enter("Buy", "counted")
    \/ Enter("Sell", "Buy")
    \/ \E side \in Side : Accumulate(side) \/ CloseLevel(side)
    \/ ReturnInfos
    \/ DropInfos

\* The step erases the node of the level, or of the order, the walk is at.
ErasedUnderWalk ==
    /\ reader \in Side
    /\ cursor.level # End
    /\ \/ cursor.level \notin DOMAIN book'[reader]
       \/ /\ cursor.order # End
          /\ cursor.order \notin Range(book'[reader][cursor.level])

\* A step of a client.  What a walk does from an erased node is undefined:
\* nothing more is said of it.
Write ==
    /\ Next
    /\ IF reader \in {"counted", "done"} \cup Side
       THEN writes < MaxWrites /\ writes' = writes + 1
       ELSE UNCHANGED writes
    /\ IF ErasedUnderWalk
       THEN reader' = "astray" /\ cursor' = NoCursor /\ infos' = NoInfos
       ELSE UNCHANGED <<reader, cursor, infos>>

ReaderNext == Walk \/ Write

ReaderSpec == ReaderInit /\ [][ReaderNext]_<<vars, readerVars>>

------------------------------------------------------------------------------
(* Properties. *)

RestingOn(side, price) ==
    {id \in DOMAIN orders : orders[id].side = side /\ orders[id].price = price}

\* What the index says of a level.
IndexInfo(side, price) ==
    [price      |-> price,
     quantity   |-> SumFunctionOnSet(
                        [id \in RestingOn(side, price) |-> orders[id].remaining],
                        RestingOn(side, price)) % QMod,
     orderCount |-> Cardinality(RestingOn(side, price)) % QMod]

\* All prices at which the index has orders of the side, the best one first.
ListsIndex(side, levelInfos) ==
    /\ Range(levelInfos) =
          {IndexInfo(side, orders[id].price) :
              id \in {i \in DOMAIN orders : orders[i].side = side}}
    /\ \A i, j \in DOMAIN levelInfos :
          i < j => Ahead(side, levelInfos[i].price, levelInfos[j].price)

\* A walk that no step of a client comes into compiles, from the lists,
\* what the index says of each level, best level first, and its counts add up
\* to Size, as the assertions of the test suite expect of the two queries.
QuietWalkExact ==
    reader = "done" /\ writes = 0 =>
        /\ \A side \in Side : ListsIndex(side, infos[side])
        /\ Size % QMod = (OrderCount(infos["Buy"]) + OrderCount(infos["Sell"])) % QMod

\* "Returns compilation of orderbook's current bid/ask information" (comment
\* at GetOrderInfos): between two calls every bid of the book is below every
\* ask, and so it must be in what GetOrderInfos returns.
SnapshotUncrossed ==
    reader = "done" =>
        \A i \in DOMAIN infos["Buy"], j \in DOMAIN infos["Sell"] :
            infos["Buy"][i].price < infos["Sell"][j].price
==============================================================================
