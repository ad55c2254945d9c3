------------------------------ MODULE ReaderProofs ------------------------------
(***************************************************************************)
(* Theorems about LevelReader: whatever the clients do during a walk of    *)
(* GetOrderInfos, as long as the walk goes on it stands on a level and an  *)
(* order that exist, and what it compiles is of the right type; and what   *)
(* it compiles when they do nothing is what the index holds.               *)
(***************************************************************************)
EXTENDS LevelReader, TotalsProofs

\* Where a cursor can stand on a side of a book: on a level, and on an order of
\* its list or behind the last one; or past the last level.
Stands(b, side, c) ==
    \/ c = NoCursor
    \/ /\ c.level \in DOMAIN b[side]
       /\ c.order = End \/ c.order \in Range(b[side][c.level])

\* With IInv, the inductive invariant.
WalkInv ==
    /\ ReaderTypeOK
    /\ reader \in Side => Stands(book, reader, cursor)

Cursor == [level : Price \cup {End}, order : OrderId \cup {End}, sum : Quantity]

LEMMA NoCursorIsCursor == NoCursor \in Cursor
BY QModAssumption DEF NoCursor, Cursor, Quantity

LEMMA LevelOf ==
    ASSUME IInv, NEW side \in Side, NEW p \in Levels(side)
    PROVE  /\ p \in Price /\ p # End
           /\ book[side][p] \in Seq(OrderId)
           /\ Range(book[side][p]) \subseteq OrderId
<1>1. p \in Price /\ book[side][p] \in Seq(OrderId)
  BY DEF IInv, BookInv, BookOK, IsMap, Levels
<1>2. Range(book[side][p]) \subseteq OrderId
  BY <1>1, ElementOfSeq, LenProperties DEF Range
<1>3. QED
  BY <1>1, <1>2, EndAssumption

LEMMA EndIsNoCursor ==
    ASSUME IInv, WalkInv, cursor.level = End
    PROVE  cursor = NoCursor
<1>1. CASE reader \in Side
  <2>1. End \notin Levels(reader)
    BY <1>1, LevelOf
  <2>2. QED
    BY <1>1, <2>1 DEF WalkInv, Stands, Levels
<1>2. CASE reader \notin Side
  BY <1>2 DEF WalkInv, ReaderTypeOK
<1>3. QED
  BY <1>1, <1>2

\* begin() and ++ of a map iterator.
LEMMA StandAtStands ==
    ASSUME IInv, NEW side \in Side, NEW levels \in SUBSET Levels(side),
           StandAt(side, levels)
    PROVE  cursor' \in Cursor /\ Stands(book, side, cursor')
<1>1. CASE levels = {}
  BY <1>1, NoCursorIsCursor DEF StandAt, Stands
<1>2. CASE levels # {}
  <2>1. PICK p \in levels :
          cursor' = [level |-> p, sum |-> 0,
                     order |-> IF book[side][p] = <<>> THEN End ELSE Head(book[side][p])]
    BY <1>2 DEF StandAt
  <2>2. /\ p \in Price /\ book[side][p] \in Seq(OrderId)
        /\ Range(book[side][p]) \subseteq OrderId
    BY LevelOf
  <2>3. 0 \in Quantity
    BY QModAssumption DEF Quantity
  <2>4. book[side][p] # <<>> => Head(book[side][p]) \in Range(book[side][p])
    <3> DEFINE queue == book[side][p]
    <3>1. queue \in Seq(OrderId)
      BY <2>2
    <3> HIDE DEF queue
    <3>2. queue # <<>> => 1 \in DOMAIN queue /\ Head(queue) = queue[1]
      BY <3>1, EmptySeq, LenProperties
    <3>3. QED
      BY <3>2 DEF Range, queue
  <2>5. cursor' \in Cursor
    BY <2>1, <2>2, <2>3, <2>4 DEF Cursor
  <2>6. Stands(book, side, cursor')
    BY <2>1, <2>4 DEF Stands, Levels
  <2>7. QED
    BY <2>5, <2>6
<1>3. QED
  BY <1>1, <1>2

\* ++ of a list iterator.
LEMMA AfterInQueue ==
    ASSUME NEW queue \in Seq(OrderId), NEW id \in Range(queue)
    PROVE  After(queue, id) \in Range(queue) \cup {End}
<1> DEFINE i == Location(queue, id)
<1>1. i \in DOMAIN queue
  BY DEF Location, Range
<1>2. DOMAIN queue = 1 .. Len(queue) /\ Len(queue) \in Nat
  BY LenProperties
<1> HIDE DEF i
<1>3. i # Len(queue) => i + 1 \in DOMAIN queue
  BY <1>1, <1>2
<1>4. QED
  BY <1>3 DEF After, Range, i

LEMMA AddedInQuantity ==
    ASSUME NEW sum \in Quantity, NEW o \in Order
    PROVE  Added(sum, o) \in Quantity
<1>1. sum + o.remaining \in Int
  BY DEF Order, Quantity
<1>2. QED
  BY <1>1, ModInQuantity DEF Added

\* A step of the walk changes nothing of the book.
LEMMA WalkKeeps ==
    ASSUME IInv, WalkInv, Walk
    PROVE  WalkInv'
<1> USE DEF Side
<1>1. /\ reader \in {"idle", "counting", "counted", "done", "astray"} \cup Side
      /\ cursor \in Cursor /\ infos \in [Side -> Seq(LevelInfo)]
      /\ writes \in 0 .. MaxWrites
      /\ reader \notin Side => cursor = NoCursor
      /\ reader \in Side => Stands(book, reader, cursor)
  BY DEF WalkInv, ReaderTypeOK, Cursor
<1>2. 0 \in 0 .. MaxWrites
  BY MaxWritesAssumption
<1>3. UNCHANGED vars
  BY DEF Walk, CallSize, Enter, Accumulate, CloseLevel, ReturnInfos, DropInfos
<1>4. book' = book
  BY <1>3 DEF vars
<1>5. cursor.level = End => cursor = NoCursor
  BY EndIsNoCursor
<1>6. CASE CallSize
  BY <1>1, <1>2, <1>6 DEF CallSize, WalkInv, ReaderTypeOK, Cursor
<1>7. ASSUME NEW side \in Side, NEW from \in {"counted", "Buy"}, Enter(side, from)
      PROVE  WalkInv'
  <2>1. cursor' \in Cursor /\ Stands(book, side, cursor')
    BY <1>7, StandAtStands DEF Enter
  <2>2. reader' = side /\ infos' = infos /\ writes' = writes
    BY <1>7 DEF Enter
  <2>3. QED
    BY <1>1, <1>4, <2>1, <2>2 DEF WalkInv, ReaderTypeOK, Cursor
<1>8. ASSUME NEW side \in Side, Accumulate(side)
      PROVE  WalkInv'
  <2> DEFINE p == cursor.level
             id == cursor.order
  <2>1. /\ reader = side /\ id # End
        /\ cursor' = [cursor EXCEPT !.sum = Added(@, orders[id]),
                                    !.order = After(book[side][p], @)]
        /\ UNCHANGED <<reader, infos, writes>>
    BY <1>8 DEF Accumulate
  <2>2. p \in Levels(side) /\ id \in Range(book[side][p])
    BY <1>1, <2>1 DEF Stands, NoCursor, Levels
  <2>3. /\ p \in Price /\ book[side][p] \in Seq(OrderId)
        /\ Range(book[side][p]) \subseteq OrderId
    BY <2>2, LevelOf
  <2>4. orders[id] \in Order
    <3>1. id \in Filed(orders, side, p)
      BY <2>2, <2>3 DEF IInv, BookInv, Agree, QueueOf, Levels
    <3>2. QED
      BY <3>1 DEF Filed, IInv, BookInv, IsMap
  <2>5. cursor.sum \in Quantity
    BY <1>1 DEF Cursor
  <2>6. Added(cursor.sum, orders[id]) \in Quantity
    BY <2>4, <2>5, AddedInQuantity
  <2>7. After(book[side][p], id) \in Range(book[side][p]) \cup {End}
    BY <2>2, <2>3, AfterInQueue
  <2>8. /\ cursor'.level = p
        /\ cursor'.order = After(book[side][p], id)
        /\ cursor' \in Cursor
    BY <1>1, <2>1, <2>3, <2>6, <2>7 DEF Cursor
  <2>9. Stands(book, side, cursor')
    BY <2>2, <2>7, <2>8 DEF Stands, Levels
  <2>10. QED
    BY <1>1, <1>4, <2>1, <2>8, <2>9 DEF WalkInv, ReaderTypeOK, Cursor
<1>9. ASSUME NEW side \in Side, CloseLevel(side)
      PROVE  WalkInv'
  <2> DEFINE p == cursor.level
             info == [price |-> p, quantity |-> cursor.sum,
                      orderCount |-> Len(book[side][p]) % QMod]
  <2>1. /\ reader = side /\ p # End
        /\ infos' = [infos EXCEPT ![side] = Append(@, info)]
        /\ StandAt(side, {q \in Levels(side) : Ahead(side, p, q)})
        /\ UNCHANGED <<reader, writes>>
    BY <1>9 DEF CloseLevel
  <2>2. p \in Levels(side)
    BY <1>1, <2>1 DEF Stands, NoCursor, Levels
  <2>3. p \in Price /\ Len(book[side][p]) \in Int
    BY <2>2, LevelOf, LenProperties
  <2>4. info \in LevelInfo
    BY <1>1, <2>3, ModInQuantity DEF LevelInfo, Cursor
  <2>5. infos' \in [Side -> Seq(LevelInfo)]
    <3> HIDE DEF info
    <3>1. Append(infos[side], info) \in Seq(LevelInfo)
      BY <1>1, <2>4, AppendProperties
    <3>2. QED
      BY <1>1, <2>1, <3>1
  <2>6. cursor' \in Cursor /\ Stands(book, side, cursor')
    BY <2>1, StandAtStands
  <2>7. QED
    BY <1>1, <1>4, <2>1, <2>5, <2>6 DEF WalkInv, ReaderTypeOK, Cursor
<1>10. CASE ReturnInfos
  BY <1>1, <1>5, <1>10 DEF ReturnInfos, WalkInv, ReaderTypeOK, Cursor
<1>11. CASE DropInfos
  <2>1. NoInfos \in [Side -> Seq(LevelInfo)]
    BY EmptySeq DEF NoInfos
  <2>2. QED
    BY <1>1, <1>2, <1>11, <2>1 DEF DropInfos, WalkInv, ReaderTypeOK, Cursor
<1>12. QED
  BY <1>6, <1>7, <1>8, <1>9, <1>10, <1>11 DEF Walk

\* After a step of a client the walk stands where it stood, or is astray.
LEMMA WriteKeeps ==
    ASSUME IInv, WalkInv, Write
    PROVE  WalkInv'
<1>1. /\ reader \in {"idle", "counting", "counted", "done", "astray"} \cup Side
      /\ cursor \in Cursor /\ infos \in [Side -> Seq(LevelInfo)]
      /\ writes \in 0 .. MaxWrites
      /\ reader \notin Side => cursor = NoCursor
      /\ reader \in Side => Stands(book, reader, cursor)
  BY DEF WalkInv, ReaderTypeOK, Cursor
<1>2. writes' \in 0 .. MaxWrites
  <2>1. writes' = writes \/ (writes < MaxWrites /\ writes' = writes + 1)
    BY DEF Write
  <2> DEFINE after == writes'
  <2> HIDE DEF after
  <2>2. after = writes \/ (writes < MaxWrites /\ after = writes + 1)
    BY <2>1 DEF after
  <2>3. after \in 0 .. MaxWrites
    BY <1>1, <2>2, MaxWritesAssumption
  <2>4. QED
    BY <2>3 DEF after
<1>3. CASE ErasedUnderWalk
  <2>1. reader' = "astray" /\ cursor' = NoCursor /\ infos' = NoInfos
    BY <1>3 DEF Write
  <2>2. NoInfos \in [Side -> Seq(LevelInfo)]
    BY EmptySeq DEF NoInfos
  <2>3. QED
    BY <1>2, <2>1, <2>2, NoCursorIsCursor DEF WalkInv, ReaderTypeOK, Cursor, Side
<1>4. CASE ~ErasedUnderWalk
  <2>1. UNCHANGED <<reader, cursor, infos>>
    BY <1>4 DEF Write
  <2>2. reader \in Side => Stands(book', reader, cursor)
    BY <1>1, <1>4, EndIsNoCursor DEF ErasedUnderWalk, Stands
  <2>3. QED
    BY <1>1, <1>2, <2>1, <2>2 DEF WalkInv, ReaderTypeOK, Cursor
<1>5. QED
  BY <1>3, <1>4

LEMMA ReaderNextKeeps ==
    IInv /\ WalkInv /\ [ReaderNext]_<<vars, readerVars>> => (IInv /\ WalkInv)'
<1> SUFFICES ASSUME IInv, WalkInv, [ReaderNext]_<<vars, readerVars>>
             PROVE  IInv' /\ WalkInv'
  OBVIOUS
<1>1. [Next]_vars
  BY DEF ReaderNext, Walk, CallSize, Enter, Accumulate, CloseLevel,
         ReturnInfos, DropInfos, Write
<1>2. IInv'
  BY <1>1, NextIInv
<1>3. CASE UNCHANGED <<vars, readerVars>>
  <2>1. book' = book /\ UNCHANGED <<reader, cursor, infos, writes>>
    BY <1>3 DEF vars, readerVars
  <2>2. WalkInv'
    BY <2>1 DEF WalkInv, ReaderTypeOK
  <2>3. QED
    BY <1>2, <2>2
<1>4. CASE Walk
  BY <1>2, <1>4, WalkKeeps
<1>5. CASE Write
  BY <1>2, <1>5, WriteKeeps
<1>6. QED
  BY <1>2, <1>3, <1>4, <1>5 DEF ReaderNext

LEMMA ReaderInitKeeps == ReaderInit => IInv /\ WalkInv
<1>1. ReaderInit => IInv
  BY InitIInv DEF ReaderInit
<1>2. NoInfos \in [Side -> Seq(LevelInfo)] /\ 0 \in 0 .. MaxWrites
  BY EmptySeq, MaxWritesAssumption DEF NoInfos
<1>3. ReaderInit => WalkInv
  BY <1>2, NoCursorIsCursor DEF ReaderInit, WalkInv, ReaderTypeOK, Cursor, Side
<1>4. QED
  BY <1>1, <1>3

------------------------------------------------------------------------------
\* Whatever the clients do during a walk of GetOrderInfos, what it sums, counts
\* and compiles is of the right type: at each of its steps it stands on a level
\* of its map and an order of its list, or it has gone astray.
THEOREM ReaderTypeCorrect == ReaderSpec => []ReaderTypeOK
<1>1. WalkInv => ReaderTypeOK
  BY DEF WalkInv
<1>2. QED
  BY <1>1, ReaderInitKeeps, ReaderNextKeeps, PTL DEF ReaderSpec
------------------------------------------------------------------------------
(* A walk that no client disturbs.  Levels, orders, cursors and lists are  *)
(* values b, o, c and l here.                                              *)

\* What the index says of a level.
InfoOf(o, side, p) ==
    [price      |-> p,
     quantity   |-> RemainingOf(o, Filed(o, side, p)) % QMod,
     orderCount |-> Cardinality(Filed(o, side, p)) % QMod]

\* The levels of a side that are behind a reader at r with cursor c.
Passed(b, r, c, side) ==
    {q \in DOMAIN b[side] :
        /\ r # "counted"
        /\ side = "Sell" => r # "Buy"
        /\ side = r => c.level = End \/ Ahead(side, q, c.level)}

FiledIn(o, side, prices) ==
    {id \in DOMAIN o : o[id].side = side /\ o[id].price \in prices}

\* l has the level infos of these prices.
Lists(o, side, l, prices) ==
    /\ Range(l) = {InfoOf(o, side, p) : p \in prices}
    /\ \A i, j \in DOMAIN l : i < j => Ahead(side, l[i].price, l[j].price)
    /\ OrderCount(l) = Cardinality(FiledIn(o, side, prices)) % QMod

\* The orders of a list that a walk has added to its sum.
Behind(queue, c) ==
    {queue[i] : i \in 1 .. IF c.order = End THEN Len(queue)
                                            ELSE Location(queue, c.order) - 1}

Summed(b, o, side, c) ==
    c.level # End =>
        c.sum = RemainingOf(o, Behind(b[side][c.level], c)) % QMod

\* With IInv, TakerInv, OrdersFinite and WalkInv, the inductive invariant.
QuietInv ==
    /\ reader \in {"idle", "counting", "counted"} => infos = NoInfos
    /\ reader \in {"counted", "done"} \cup Side /\ writes = 0 =>
          /\ mutex = NoThread
          /\ \A side \in Side :
                Lists(orders, side, infos[side], Passed(book, reader, cursor, side))
          /\ reader \in Side => Summed(book, orders, reader, cursor)

LEMMA ZeroIsZero == 0 % QMod = 0
BY QModAssumption, NoWrap DEF Quantity

LEMMA ListsNothing == \A o, side : Lists(o, side, <<>>, {})
<1> TAKE o, side
<1>1. DOMAIN <<>> = {} /\ Range(<<>>) = {}
  BY DEF Range
<1>2. OrderCount(<<>>) = 0
  BY <1>1, SumEmpty, ZeroIsZero DEF OrderCount, SumFunction
<1>3. FiledIn(o, side, {}) = {}
  BY DEF FiledIn
<1>4. Cardinality(FiledIn(o, side, {})) % QMod = 0
  BY <1>3, FS_EmptySet, ZeroIsZero
<1>5. QED
  BY <1>1, <1>2, <1>4 DEF Lists

\* One more level is counted.
LEMMA OrderCountAppend ==
    ASSUME NEW l \in Seq(LevelInfo), NEW info \in LevelInfo
    PROVE  OrderCount(Append(l, info)) = (OrderCount(l) + info.orderCount) % QMod
<1> DEFINE n == Len(l)
           m == Append(l, info)
           f == [i \in DOMAIN l |-> l[i].orderCount]
           g == [i \in DOMAIN m |-> m[i].orderCount]
<1>1. /\ n \in Nat /\ DOMAIN l = 1 .. n /\ DOMAIN m = 1 .. n + 1
      /\ m \in Seq(LevelInfo)
      /\ m[n + 1] = info /\ \A i \in 1 .. n : m[i] = l[i]
  BY AppendProperties, LenProperties
<1>2. \A i \in 1 .. n : l[i] \in LevelInfo
  BY <1>1, ElementOfSeq
<1> HIDE DEF m, n
<1>3. IsFiniteSet(1 .. n)
  BY <1>1, FS_Interval
<1>4. /\ \A i \in 1 .. n : f[i] \in Int /\ g[i] = f[i]
      /\ g[n + 1] = info.orderCount /\ g[n + 1] \in Int
  BY <1>1, <1>2 DEF LevelInfo, Quantity
<1>5. DOMAIN f = 1 .. n /\ DOMAIN g = (1 .. n) \cup {n + 1} /\ n + 1 \notin 1 .. n
  BY <1>1
<1> HIDE DEF f, g
<1>6. SumFunctionOnSet(g, 1 .. n) = SumFunctionOnSet(f, 1 .. n)
  BY <1>3, <1>4, SumSame
<1>7. SumFunctionOnSet(f, 1 .. n) \in Int
  BY <1>3, <1>4, SumIsInt
<1>8. SumFunctionOnSet(g, (1 .. n) \cup {n + 1}) = g[n + 1] + SumFunctionOnSet(g, 1 .. n)
  <2> DEFINE S == 1 .. n
             y == n + 1
  <2>1. IsFiniteSet(S) /\ y \notin S /\ \A i \in S \cup {y} : g[i] \in Int
    BY <1>3, <1>4, <1>5
  <2> HIDE DEF S, y
  <2>2. SumFunctionOnSet(g, S \cup {y}) = g[y] + SumFunctionOnSet(g, S)
    BY <2>1, SumWith
  <2>3. QED
    BY <2>2 DEF S, y
<1>9. SumFunction(g) = SumFunction(f) + info.orderCount /\ SumFunction(f) \in Int
  BY <1>4, <1>5, <1>6, <1>7, <1>8 DEF SumFunction
<1>10. ((SumFunction(f) % QMod) + info.orderCount) % QMod = SumFunction(g) % QMod
  <2> DEFINE a == SumFunction(f)
             b == info.orderCount
  <2>1. a \in Int /\ b \in Int /\ SumFunction(g) = a + b
    BY <1>4, <1>9
  <2> HIDE DEF a, b
  <2>2. ((a % QMod) + b) % QMod = SumFunction(g) % QMod
    BY <2>1, WrapOnce
  <2>3. QED
    BY <2>2 DEF a, b
<1>11. QED
  BY <1>10 DEF OrderCount, f, g, m

\* One more level is listed.
LEMMA ListsOneMore ==
    ASSUME OrdersFinite, NEW side \in Side, NEW l \in Seq(LevelInfo), NEW prices,
           Lists(orders, side, l, prices), NEW p, p \notin prices,
           \A q \in prices : Ahead(side, q, p), InfoOf(orders, side, p) \in LevelInfo
    PROVE  Lists(orders, side, Append(l, InfoOf(orders, side, p)), prices \cup {p})
<1> DEFINE n == Len(l)
           info == InfoOf(orders, side, p)
           m == Append(l, info)
           old == FiledIn(orders, side, prices)
           new == Filed(orders, side, p)
<1>1. /\ n \in Nat /\ DOMAIN l = 1 .. n /\ DOMAIN m = 1 .. n + 1
      /\ m[n + 1] = info /\ \A i \in 1 .. n : m[i] = l[i]
  BY AppendProperties, LenProperties
<1>2. info.price = p
  BY DEF InfoOf
<1>3. \A i \in 1 .. n : l[i].price \in prices
  <2>1. \A i \in 1 .. n : l[i] \in {InfoOf(orders, side, q) : q \in prices}
    BY <1>1 DEF Lists, Range
  <2>2. QED
    BY <2>1 DEF InfoOf
<1>4. OrderCount(m) = (OrderCount(l) + info.orderCount) % QMod
  BY OrderCountAppend
<1>5. /\ IsFiniteSet(old) /\ IsFiniteSet(new)
      /\ Cardinality(old) \in Int /\ Cardinality(new) \in Int
      /\ FiledIn(orders, side, prices \cup {p}) = old \cup new /\ old \cap new = {}
  BY FS_Subset, FS_CardinalityType DEF OrdersFinite, FiledIn, Filed
<1>6. Cardinality(old \cup new) = Cardinality(old) + Cardinality(new)
  <2> HIDE DEF old, new
  <2>1. Cardinality(old \cup new) =
           Cardinality(old) + Cardinality(new) - Cardinality(old \cap new)
    BY <1>5, FS_Union
  <2>2. Cardinality(old \cap new) = 0
    BY <1>5, FS_EmptySet
  <2>3. QED
    BY <1>5, <2>1, <2>2
<1>7. info.orderCount = Cardinality(new) % QMod /\ OrderCount(l) = Cardinality(old) % QMod
  BY DEF InfoOf, Lists
<1> HIDE DEF m, n, info, old, new
<1>8. OrderCount(m) = Cardinality(old \cup new) % QMod
  <2> DEFINE a == Cardinality(old)
             b == Cardinality(new)
  <2>1. a \in Int /\ b \in Int /\ a % QMod \in Int /\ b % QMod \in Int
    BY <1>5, ModInQuantity DEF Quantity
  <2> HIDE DEF a, b
  <2>2. ((a % QMod) + (b % QMod)) % QMod = (a + (b % QMod)) % QMod
    BY <2>1, WrapOnce
  <2>3. ((b % QMod) + a) % QMod = (b + a) % QMod
    BY <2>1, WrapOnce
  <2>4. (b % QMod) + a = a + (b % QMod) /\ b + a = a + b
    BY <2>1
  <2>5. QED
    BY <1>4, <1>6, <1>7, <2>2, <2>3, <2>4 DEF a, b
<1>9. Range(m) = Range(l) \cup {info}
  BY <1>1 DEF Range
<1>10. Range(m) = {InfoOf(orders, side, q) : q \in prices \cup {p}}
  BY <1>9 DEF info, Lists
<1>11. ASSUME NEW i \in DOMAIN m, NEW j \in DOMAIN m, i < j
       PROVE  Ahead(side, m[i].price, m[j].price)
  <2>1. CASE j = n + 1
    BY <1>1, <1>2, <1>3, <1>11, <2>1
  <2>2. CASE j # n + 1
    <3>1. i \in DOMAIN l /\ j \in DOMAIN l /\ m[i] = l[i] /\ m[j] = l[j]
      BY <1>1, <1>11, <2>2
    <3>2. QED
      BY <1>11, <3>1 DEF Lists
  <2>3. QED
    BY <2>1, <2>2
<1>12. QED
  BY <1>5, <1>8, <1>10, <1>11 DEF Lists, m, info
LEMMA LocationIs ==
    ASSUME NEW queue, IsInjective(queue), NEW i \in DOMAIN queue
    PROVE  Location(queue, queue[i]) = i
BY DEF Location, IsInjective

\* The list of a level, as the walk meets it.
LEMMA QueueAtRest ==
    ASSUME IInv, OrdersFinite, NEW side \in Side, NEW p \in Levels(side)
    PROVE  LET queue == book[side][p]
           IN  /\ queue \in Seq(OrderId) /\ IsInjective(queue)
               /\ DOMAIN queue = 1 .. Len(queue) /\ Len(queue) \in Nat
               /\ Range(queue) = Filed(orders, side, p)
               /\ Range(queue) \subseteq DOMAIN orders
               /\ Len(queue) = Cardinality(Filed(orders, side, p))
               /\ p \in Price /\ p # End /\ End \notin Range(queue)
<1> DEFINE queue == book[side][p]
<1>1. p \in Price /\ p # End /\ queue \in Seq(OrderId) /\ Range(queue) \subseteq OrderId
  BY LevelOf
<1>2. IsInjective(queue) /\ Range(queue) = Filed(orders, side, p)
  BY <1>1 DEF IInv, BookInv, Agree, QueueOf, Levels
<1>3. DOMAIN queue = 1 .. Len(queue) /\ Len(queue) \in Nat
  BY <1>1, LenProperties
<1>4. End \notin Range(queue)
  BY <1>1, EndAssumption
<1> HIDE DEF queue
<1>5. queue \in Bijection(1 .. Len(queue), Range(queue))
  BY <1>1, <1>2, <1>3 DEF IsInjective, Bijection, Injection, Surjection, Range
<1>6. Cardinality(Range(queue)) = Len(queue)
  <2>1. IsFiniteSet(1 .. Len(queue)) /\ Cardinality(1 .. Len(queue)) = Len(queue)
    <3> DEFINE n == Len(queue)
    <3>1. n \in Nat
      BY <1>3
    <3> HIDE DEF n
    <3>2. Cardinality(1 .. n) = IF 1 > n THEN 0 ELSE n - 1 + 1
      BY <3>1, FS_Interval
    <3>3. IsFiniteSet(1 .. n) /\ Cardinality(1 .. n) = n
      BY <3>1, <3>2, FS_Interval
    <3>4. QED
      BY <3>3 DEF n
  <2>2. ExistsBijection(1 .. Len(queue), Range(queue))
    BY <1>5 DEF ExistsBijection
  <2>3. QED
    BY <2>1, <2>2, FS_Bijection
<1>7. QED
  BY <1>1, <1>2, <1>3, <1>4, <1>6 DEF Filed, queue

\* A walk that comes to a level has added none of its orders.
LEMMA StandAtSummed ==
    ASSUME IInv, OrdersFinite, NEW side \in Side, NEW levels \in SUBSET Levels(side),
           StandAt(side, levels)
    PROVE  Summed(book, orders, side, cursor')
<1> SUFFICES ASSUME cursor'.level # End
             PROVE  cursor'.sum =
                       RemainingOf(orders, Behind(book[side][cursor'.level], cursor')) % QMod
  BY DEF Summed
<1>1. levels # {}
  BY DEF StandAt, NoCursor
<1>2. PICK p \in levels :
          cursor' = [level |-> p, sum |-> 0,
                     order |-> IF book[side][p] = <<>> THEN End ELSE Head(book[side][p])]
  BY <1>1 DEF StandAt
<1> DEFINE queue == book[side][p]
<1>3. /\ queue \in Seq(OrderId) /\ IsInjective(queue)
      /\ DOMAIN queue = 1 .. Len(queue) /\ Len(queue) \in Nat
      /\ End \notin Range(queue)
  BY QueueAtRest
<1>4. cursor'.level = p /\ cursor'.sum = 0
      /\ cursor'.order = IF queue = <<>> THEN End ELSE Head(queue)
  BY <1>2
<1> HIDE DEF queue
<1>5. Behind(queue, cursor') = {}
  <2>1. CASE queue = <<>>
    BY <1>4, <2>1 DEF Behind
  <2>2. CASE queue # <<>>
    <3>1. 1 \in DOMAIN queue /\ Head(queue) = queue[1]
      BY <1>3, <2>2, EmptySeq, LenProperties
    <3>2. Head(queue) # End /\ Location(queue, Head(queue)) = 1
      BY <1>3, <3>1, LocationIs DEF Range
    <3>3. QED
      BY <1>4, <2>2, <3>2 DEF Behind
  <2>3. QED
    BY <2>1, <2>2
<1>6. QED
  BY <1>4, <1>5, RemainingOfNone, ZeroIsZero DEF queue

\* It comes to the best of them, or past them all.
LEMMA StandAtBest ==
    ASSUME IInv, NEW side \in Side, NEW levels \in SUBSET Levels(side),
           StandAt(side, levels)
    PROVE  \/ levels = {} /\ cursor'.level = End
           \/ /\ cursor'.level \in levels /\ cursor'.level # End
              /\ \A q \in levels : ~Ahead(side, q, cursor'.level)
<1>1. End \notin levels
  BY LevelOf
<1>2. QED
  BY <1>1 DEF StandAt, NoCursor

\* begin() of a map: nothing is behind.
LEMMA NothingPassed ==
    ASSUME IInv, NEW side \in Side, StandAt(side, Levels(side))
    PROVE  Passed(book, side, cursor', side) = {}
BY StandAtBest DEF Passed, Levels

\* ++ of a map iterator: one more level is.
LEMMA OneMorePassed ==
    ASSUME IInv, NEW side \in Side, reader = side, cursor.level \in Levels(side),
           StandAt(side, {q \in Levels(side) : Ahead(side, cursor.level, q)})
    PROVE  Passed(book, side, cursor', side) =
              Passed(book, side, cursor, side) \cup {cursor.level}
<1> DEFINE p == cursor.level
           next == cursor'.level
           rest == {q \in Levels(side) : Ahead(side, p, q)}
<1>1. \A q \in Levels(side) : q \in Int /\ q # End
  BY LevelOf, PriceAssumption
<1>2. \/ rest = {} /\ next = End
      \/ next \in rest /\ next # End /\ \A q \in rest : ~Ahead(side, q, next)
  BY StandAtBest
<1> HIDE DEF next
<1>3. \A q \in Levels(side) :
        next = End \/ Ahead(side, q, next) <=> Ahead(side, q, p) \/ q = p
  BY <1>1, <1>2 DEF Ahead
<1>4. p # End /\ p \in Levels(side)
  BY <1>1
<1> HIDE DEF p
<1>5. Passed(book, side, cursor', side) = {q \in Levels(side) : Ahead(side, q, p) \/ q = p}
  BY <1>3 DEF Passed, Levels, Side, next
<1>6. Passed(book, side, cursor, side) = {q \in Levels(side) : Ahead(side, q, p)}
  BY <1>4 DEF Passed, Levels, Side, p
<1>7. QED
  BY <1>4, <1>5, <1>6 DEF p
\* One order more is added.
LEMMA AccumulateSums ==
    ASSUME IInv, WalkInv, OrdersFinite, NEW side \in Side, Accumulate(side),
           Summed(book, orders, side, cursor)
    PROVE  Summed(book, orders, side, cursor')
<1> DEFINE p == cursor.level
           id == cursor.order
           queue == book[side][p]
           i == Location(queue, id)
<1>1. /\ reader = side /\ id # End
      /\ cursor' = [cursor EXCEPT !.sum = Added(@, orders[id]),
                                  !.order = After(queue, @)]
  BY DEF Accumulate
<1>2. cursor \in [level : Price \cup {End}, order : OrderId \cup {End}, sum : Quantity]
  BY DEF WalkInv, ReaderTypeOK
<1>3. p \in Levels(side) /\ id \in Range(queue)
  BY <1>1 DEF WalkInv, Stands, NoCursor, Levels
<1>4. /\ queue \in Seq(OrderId) /\ IsInjective(queue)
      /\ DOMAIN queue = 1 .. Len(queue) /\ Len(queue) \in Nat
      /\ Range(queue) \subseteq DOMAIN orders /\ End \notin Range(queue) /\ p # End
  BY <1>3, QueueAtRest
<1>5. i \in 1 .. Len(queue) /\ queue[i] = id
  BY <1>3, <1>4 DEF Location, Range
<1>6. cursor'.level = p /\ cursor'.sum = Added(cursor.sum, orders[id])
      /\ cursor'.order = After(queue, id)
  BY <1>1, <1>2
<1>7. cursor.sum = RemainingOf(orders, Behind(queue, cursor)) % QMod
  BY <1>4 DEF Summed
<1> DEFINE added == Behind(queue, cursor)
           next == Behind(queue, cursor')
<1> HIDE DEF i, queue
<1>8. added = {queue[k] : k \in 1 .. i - 1}
  BY <1>1 DEF Behind, i
<1>9. next = {queue[k] : k \in 1 .. i}
  <2>1. CASE i = Len(queue)
    BY <1>6, <2>1 DEF Behind, After, i
  <2>2. CASE i # Len(queue)
    <3>1. i + 1 \in DOMAIN queue
      <4>1. DOMAIN queue = 1 .. Len(queue) /\ Len(queue) \in Nat
        BY <1>4
      <4>2. QED
        BY <1>5, <2>2, <4>1
    <3>2. After(queue, id) = queue[i + 1]
      BY <2>2 DEF After, i
    <3>3. queue[i + 1] # End /\ Location(queue, queue[i + 1]) = i + 1
      BY <1>4, <3>1, LocationIs DEF Range
    <3>4. (i + 1) - 1 = i
      BY <1>4, <1>5
    <3>5. QED
      BY <1>6, <3>2, <3>3, <3>4 DEF Behind
  <2>3. QED
    BY <2>1, <2>2
<1>10. id \in next /\ next \ {id} = added
  <2>1. \A k \in 1 .. i - 1 : k \in 1 .. i /\ queue[k] # id
    BY <1>4, <1>5 DEF IsInjective
  <2>2. \A k \in 1 .. i : k = i \/ k \in 1 .. i - 1
    BY <1>4, <1>5
  <2>3. i \in 1 .. i
    BY <1>4, <1>5
  <2>4. QED
    BY <1>5, <1>8, <1>9, <2>1, <2>2, <2>3
<1>11. Summable(orders, next)
  <2>1. \A k \in 1 .. i : k \in DOMAIN queue
    BY <1>4, <1>5
  <2>2. next \subseteq DOMAIN orders
    BY <1>4, <1>9, <2>1 DEF Range
  <2>3. QED
    BY <2>2, OrdersSummable
<1> HIDE DEF added, next
<1>12. /\ Summable(orders, added)
       /\ RemainingOf(orders, next) = orders[id].remaining + RemainingOf(orders, added)
  BY <1>10, <1>11, RemainingApart
<1>13. orders[id].remaining \in Int /\ RemainingOf(orders, added) \in Int
  BY <1>10, <1>11, <1>12, RemainingIsNat DEF Summable
<1>14. cursor'.sum = RemainingOf(orders, next) % QMod
  <2> DEFINE a == RemainingOf(orders, added)
             b == orders[id].remaining
  <2>1. cursor'.sum = ((a % QMod) + b) % QMod
    BY <1>6, <1>7 DEF Added, added
  <2>2. a \in Int /\ b \in Int /\ RemainingOf(orders, next) = a + b
    BY <1>12, <1>13
  <2> HIDE DEF a, b
  <2>3. QED
    BY <2>1, <2>2, WrapOnce
<1>15. QED
  BY <1>6, <1>14 DEF Summed, next, queue

\* What CloseLevel appends is what the index says.
LEMMA LevelInfoIs ==
    ASSUME IInv, WalkInv, OrdersFinite, NEW side \in Side, reader = side,
           cursor.level # End, cursor.order = End,
           Summed(book, orders, side, cursor)
    PROVE  [price |-> cursor.level, quantity |-> cursor.sum,
            orderCount |-> Len(book[side][cursor.level]) % QMod]
              = InfoOf(orders, side, cursor.level)
<1> DEFINE p == cursor.level
           queue == book[side][p]
<1>1. p \in Levels(side)
  BY DEF WalkInv, Stands, NoCursor, Levels
<1>2. /\ DOMAIN queue = 1 .. Len(queue)
      /\ Range(queue) = Filed(orders, side, p)
      /\ Len(queue) = Cardinality(Filed(orders, side, p))
  BY <1>1, QueueAtRest
<1>3. cursor.sum = RemainingOf(orders, Behind(queue, cursor)) % QMod
  BY DEF Summed
<1>4. Behind(queue, cursor) = Range(queue)
  BY <1>2 DEF Behind, Range
<1>5. QED
  BY <1>2, <1>3, <1>4 DEF InfoOf
\* A step of the walk.
LEMMA WalkQuiet ==
    ASSUME IInv, WalkInv, OrdersFinite, QuietInv, Walk
    PROVE  QuietInv'
<1>1. UNCHANGED vars
  BY DEF Walk, CallSize, Enter, Accumulate, CloseLevel, ReturnInfos, DropInfos
<1>2. book' = book /\ orders' = orders /\ mutex' = mutex
  BY <1>1 DEF vars
<1> DEFINE Exact(r, c, l) ==
               /\ \A side \in Side : Lists(orders, side, l[side], Passed(book, r, c, side))
               /\ r \in Side => Summed(book, orders, r, c)
<1>3. ASSUME writes = 0 => mutex = NoThread /\ Exact(reader', cursor', infos'),
             writes' = writes, reader' \in {"done"} \cup Side
      PROVE  QuietInv'
  BY <1>2, <1>3 DEF QuietInv, Side
<1>4. reader \in {"counted", "done"} \cup Side /\ writes = 0 =>
          mutex = NoThread /\ Exact(reader, cursor, infos)
  BY DEF QuietInv
<1>5. cursor.level = End => cursor = NoCursor
  BY EndIsNoCursor
<1>6. CASE CallSize
  <2>1. reader' \in {"counting", "counted"} /\ cursor' = cursor /\ mutex = NoThread
    BY <1>6 DEF CallSize
  <2>2. infos' = infos /\ infos = NoInfos
    BY <1>6 DEF CallSize, QuietInv, vars
  <2>3. \A side \in Side : NoInfos[side] = <<>>
    BY DEF NoInfos
  <2>4. \A side : Passed(book, "counted", cursor, side) = {}
    BY DEF Passed
  <2>5. Exact("counted", cursor, infos)
    BY <2>2, <2>3, <2>4, ListsNothing DEF Side
  <2>6. QED
    BY <1>2, <2>1, <2>2, <2>5 DEF QuietInv, Side
<1>7. ASSUME Enter("Buy", "counted") PROVE QuietInv'
  <2>1. /\ reader = "counted" /\ reader' = "Buy" /\ StandAt("Buy", Levels("Buy"))
        /\ infos' = infos /\ writes' = writes
    BY <1>7 DEF Enter
  <2>2. Summed(book, orders, "Buy", cursor')
    BY <2>1, StandAtSummed DEF Side
  <2>3. /\ Passed(book, "Buy", cursor', "Buy") = {}
        /\ Passed(book, "Buy", cursor', "Sell") = {}
        /\ \A side : Passed(book, "counted", cursor, side) = {}
    BY <2>1, NothingPassed DEF Passed, Side
  <2>4. writes = 0 => mutex = NoThread /\ Exact(reader', cursor', infos')
    BY <1>4, <2>1, <2>2, <2>3 DEF Side
  <2>5. QED
    BY <1>3, <2>1, <2>4 DEF Side
<1>8. ASSUME Enter("Sell", "Buy") PROVE QuietInv'
  <2>1. /\ reader = "Buy" /\ cursor.level = End /\ reader' = "Sell"
        /\ StandAt("Sell", Levels("Sell")) /\ infos' = infos /\ writes' = writes
    BY <1>8 DEF Enter
  <2>2. Summed(book, orders, "Sell", cursor')
    BY <2>1, StandAtSummed DEF Side
  <2>3. /\ Passed(book, "Sell", cursor', "Sell") = {}
        /\ Passed(book, "Buy", cursor, "Sell") = {}
        /\ Passed(book, "Sell", cursor', "Buy") = Passed(book, "Buy", cursor, "Buy")
    BY <2>1, NothingPassed DEF Passed, Side
  <2>4. writes = 0 => mutex = NoThread /\ Exact(reader', cursor', infos')
    BY <1>4, <2>1, <2>2, <2>3 DEF Side
  <2>5. QED
    BY <1>3, <2>1, <2>4 DEF Side
<1>9. ASSUME NEW side \in Side, Accumulate(side) PROVE QuietInv'
  <2>1. reader = side /\ UNCHANGED <<reader, infos, writes>>
    BY <1>9 DEF Accumulate
  <2>2. cursor'.level = cursor.level
    BY <1>9 DEF Accumulate, WalkInv, ReaderTypeOK
  <2>3. \A s : Passed(book, side, cursor', s) = Passed(book, side, cursor, s)
    BY <2>2 DEF Passed
  <2>4. writes = 0 => mutex = NoThread /\ Exact(reader', cursor', infos')
    BY <1>4, <1>9, <2>1, <2>3, AccumulateSums
  <2>5. QED
    BY <1>3, <2>1, <2>4
<1>10. ASSUME NEW side \in Side, CloseLevel(side) PROVE QuietInv'
  <2> DEFINE p == cursor.level
             info == InfoOf(orders, side, p)
             other == Opposite(side)
  <2>1. /\ reader = side /\ p # End /\ cursor.order = End
        /\ StandAt(side, {q \in Levels(side) : Ahead(side, p, q)})
        /\ UNCHANGED <<reader, writes>>
    BY <1>10 DEF CloseLevel
  <2>2. p \in Levels(side)
    BY <2>1 DEF WalkInv, Stands, NoCursor, Levels
  <2>3. Summed(book, orders, side, cursor')
    BY <2>1, StandAtSummed
  <2>4. Passed(book, side, cursor', side) = Passed(book, side, cursor, side) \cup {p}
    BY <2>1, <2>2, OneMorePassed
  <2>5. Passed(book, side, cursor', other) = Passed(book, side, cursor, other)
    BY DEF Passed, Opposite, Side
  <2>6. ASSUME writes = 0
        PROVE  mutex = NoThread /\ Exact(reader', cursor', infos')
    <3>1. mutex = NoThread /\ Exact(side, cursor, infos)
      BY <1>4, <2>1, <2>6
    <3>2. infos' = [infos EXCEPT ![side] = Append(@, info)]
      BY <1>10, <2>1, <3>1, LevelInfoIs DEF CloseLevel
    <3>3. infos \in [Side -> Seq(LevelInfo)]
      BY DEF WalkInv, ReaderTypeOK
    <3>4. infos'[side] = Append(infos[side], info) /\ infos'[other] = infos[other]
      BY <3>2, <3>3 DEF Opposite, Side
    <3>5. info \in LevelInfo
      <4>1. p \in Price /\ cursor.sum \in Quantity /\ Len(book[side][p]) \in Int
        BY <2>2, QueueAtRest DEF WalkInv, ReaderTypeOK
      <4>2. [price |-> p, quantity |-> cursor.sum,
             orderCount |-> Len(book[side][p]) % QMod] \in LevelInfo
        BY <4>1, ModInQuantity DEF LevelInfo
      <4>3. QED
        BY <2>1, <3>1, <4>2, LevelInfoIs
    <3>6. p \notin Passed(book, side, cursor, side)
          /\ \A q \in Passed(book, side, cursor, side) : Ahead(side, q, p)
      <4>1. p \in Int
        BY <2>2, LevelOf, PriceAssumption
      <4>2. QED
        BY <2>1, <4>1 DEF Passed, Ahead
    <3>7. Lists(orders, side, infos'[side], Passed(book, side, cursor', side))
      BY <2>4, <3>1, <3>3, <3>4, <3>5, <3>6, ListsOneMore
    <3>8. Lists(orders, other, infos'[other], Passed(book, side, cursor', other))
      BY <2>5, <3>1, <3>4 DEF Opposite, Side
    <3>9. \A s \in Side : s = side \/ s = other
      BY DEF Opposite, Side
    <3>10. QED
      BY <2>1, <2>3, <3>1, <3>7, <3>8, <3>9
  <2>7. QED
    BY <1>3, <2>1, <2>6
<1>11. CASE ReturnInfos
  <2>1. /\ reader = "Sell" /\ cursor.level = End /\ reader' = "done"
        /\ UNCHANGED <<cursor, infos, writes>>
    BY <1>11 DEF ReturnInfos
  <2>2. \A side \in Side : Passed(book, "done", cursor, side) = Passed(book, "Sell", cursor, side)
    BY <2>1 DEF Passed, Side
  <2>3. writes = 0 => mutex = NoThread /\ Exact(reader', cursor', infos')
    BY <1>4, <2>1, <2>2 DEF Side
  <2>4. QED
    BY <1>3, <2>1, <2>3
<1>12. CASE DropInfos
  BY <1>12 DEF DropInfos, QuietInv, Side
<1>13. QED
  BY <1>6, <1>7, <1>8, <1>9, <1>10, <1>11, <1>12 DEF Walk

\* After a step of a client a walk is disturbed, or there is none.
LEMMA WriteQuiet ==
    ASSUME WalkInv, QuietInv, Write
    PROVE  QuietInv'
<1>1. writes \in Nat
  BY MaxWritesAssumption DEF WalkInv, ReaderTypeOK
<1>2. (reader' = reader /\ infos' = infos) \/ reader' = "astray"
  BY DEF Write
<1>3. CASE reader \in {"counted", "done"} \cup Side
  <2>1. writes' = writes + 1
    BY <1>3 DEF Write
  <2> DEFINE after == writes'
  <2> HIDE DEF after
  <2>2. after # 0
    BY <1>1, <2>1 DEF after
  <2>3. QED
    BY <1>2, <2>2 DEF QuietInv, Side, after
<1>4. CASE reader \notin {"counted", "done"} \cup Side
  BY <1>2, <1>4 DEF QuietInv, Side
<1>5. QED
  BY <1>3, <1>4

\* With the invariants of the engine.
AllQuiet == IInv /\ TakerInv /\ OrdersFinite /\ WalkInv /\ QuietInv

LEMMA NextQuiet == AllQuiet /\ [ReaderNext]_<<vars, readerVars>> => AllQuiet'
<1> SUFFICES ASSUME IInv, TakerInv, OrdersFinite, WalkInv, QuietInv,
                    [ReaderNext]_<<vars, readerVars>>
             PROVE  AllQuiet'
  BY DEF AllQuiet
<1>1. [Next]_vars
  BY DEF ReaderNext, Walk, CallSize, Enter, Accumulate, CloseLevel,
         ReturnInfos, DropInfos, Write
<1>2. IInv' /\ TakerInv' /\ OrdersFinite' /\ WalkInv'
  BY <1>1, NextIInv, NextTaker, NextFinite, ReaderNextKeeps
<1>3. CASE UNCHANGED <<vars, readerVars>>
  BY <1>2, <1>3 DEF vars, readerVars, QuietInv, AllQuiet
<1>4. CASE Walk
  BY <1>2, <1>4, WalkQuiet DEF AllQuiet
<1>5. CASE Write
  BY <1>2, <1>5, WriteQuiet DEF AllQuiet
<1>6. QED
  BY <1>3, <1>4, <1>5 DEF ReaderNext

LEMMA InitQuiet == ReaderInit => AllQuiet
<1>1. ReaderInit => QuietInv
  BY DEF ReaderInit, QuietInv, Side
<1>2. QED
  BY <1>1, ReaderInitKeeps, InitTaker, InitFinite DEF ReaderInit, AllQuiet

\* A walk that is over has passed every level, and at rest no level is empty.
LEMMA QuietSuffices == AllQuiet => QuietWalkExact
<1> SUFFICES ASSUME AllQuiet, reader = "done", writes = 0
             PROVE  /\ \A side \in Side : ListsIndex(side, infos[side])
                    /\ Size % QMod =
                         (OrderCount(infos["Buy"]) + OrderCount(infos["Sell"])) % QMod
  BY DEF QuietWalkExact
<1> USE DEF AllQuiet
<1>1. mutex = NoThread
      /\ \A side \in Side : Lists(orders, side, infos[side], Levels(side))
  <2>1. \A side \in Side : Passed(book, "done", cursor, side) = Levels(side)
    BY DEF Passed, Levels, Side
  <2>2. QED
    BY <2>1 DEF QuietInv
<1>2. NoneEmpty
  <2>1. \A t \in Thread : pc[t] # "matching"
    BY <1>1, ThreadAssumption DEF IInv, LockHeld
  <2>2. QED
    BY <2>1, NoneEmptyUnlessCrossed DEF TakerInv
<1>3. \A id \in DOMAIN orders :
        orders[id].side \in Side /\ orders[id].price \in Levels(orders[id].side)
  BY FiledAt DEF IInv
<1>4. ASSUME NEW side \in Side
      PROVE  ListsIndex(side, infos[side])
  <2>1. \A p : InfoOf(orders, side, p) = IndexInfo(side, p)
    BY DEF InfoOf, IndexInfo, RemainingOf, Filed, RestingOn
  <2>2. ASSUME NEW p \in Levels(side)
        PROVE  \E id \in DOMAIN orders : orders[id].side = side /\ orders[id].price = p
    <3> DEFINE queue == book[side][p]
    <3>1. /\ queue \in Seq(OrderId) /\ DOMAIN queue = 1 .. Len(queue) /\ Len(queue) \in Nat
          /\ Range(queue) = Filed(orders, side, p)
      BY QueueAtRest
    <3>2. queue # <<>>
      BY <1>2 DEF NoneEmpty
    <3> HIDE DEF queue
    <3>3. 1 \in DOMAIN queue
      BY <3>1, <3>2, EmptySeq
    <3>4. QED
      BY <3>1, <3>3 DEF Range, Filed
  <2>3. {InfoOf(orders, side, p) : p \in Levels(side)} =
           {IndexInfo(side, orders[id].price) :
              id \in {i \in DOMAIN orders : orders[i].side = side}}
    BY <1>3, <2>1, <2>2
  <2>4. QED
    BY <1>1, <2>3 DEF Lists, ListsIndex
<1>5. Size % QMod = (OrderCount(infos["Buy"]) + OrderCount(infos["Sell"])) % QMod
  <2> DEFINE bids == FiledIn(orders, "Buy", Levels("Buy"))
             asks == FiledIn(orders, "Sell", Levels("Sell"))
  <2>1. bids \cup asks = DOMAIN orders /\ bids \cap asks = {}
    BY <1>3 DEF FiledIn, Side
  <2>2. IsFiniteSet(bids) /\ IsFiniteSet(asks)
    BY FS_Subset DEF OrdersFinite, FiledIn
  <2>3. /\ OrderCount(infos["Buy"]) = Cardinality(bids) % QMod
        /\ OrderCount(infos["Sell"]) = Cardinality(asks) % QMod
    BY <1>1 DEF Lists, Side
  <2> HIDE DEF bids, asks
  <2> DEFINE a == Cardinality(bids)
             b == Cardinality(asks)
  <2>4. a \in Int /\ b \in Int /\ a % QMod \in Int /\ b % QMod \in Int
    BY <2>2, FS_CardinalityType, ModInQuantity DEF Quantity
  <2>5. Size = a + b
    <3>1. Cardinality(bids \cap asks) = 0
      BY <2>1, FS_EmptySet
    <3>2. Cardinality(bids \cup asks) = a + b - Cardinality(bids \cap asks)
      BY <2>2, FS_Union
    <3>3. QED
      BY <2>1, <2>4, <3>1, <3>2 DEF Size
  <2> HIDE DEF a, b
  <2>6. ((a % QMod) + (b % QMod)) % QMod = (a + (b % QMod)) % QMod
    BY <2>4, WrapOnce
  <2>7. ((b % QMod) + a) % QMod = (b + a) % QMod
    BY <2>4, WrapOnce
  <2>8. (b % QMod) + a = a + (b % QMod) /\ b + a = a + b
    BY <2>4
  <2>9. QED
    BY <2>3, <2>5, <2>6, <2>7, <2>8 DEF a, b
<1>6. QED
  BY <1>4, <1>5

\* What GetOrderInfos compiles when no client step comes between Size and its
\* return: for every price the index has, in the order of the map, the quantity
\* and the number of its orders, modulo 2^32, from lists it reads without the
\* mutex; and its counts add up to Size.  It takes that the mutex was free when
\* Size returned, so that no level is empty or half filled.
THEOREM QuietWalksAreExact == ReaderSpec => []QuietWalkExact
<1> QED
  BY InitQuiet, NextQuiet, QuietSuffices, PTL DEF ReaderSpec
===============================================================================
