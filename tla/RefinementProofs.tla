---------------------------- MODULE RefinementProofs ----------------------------
(***************************************************************************)
(* Orderbook implements PriceTimeBook, for every set of threads, ids,      *)
(* prices and quantities: every step of the engine is, seen from the       *)
(* resting orders, a step of the abstract book or none.                    *)
(***************************************************************************)
EXTENDS OrderbookRefinement, TakerProofs

------------------------------------------------------------------------------
(* The abstract state, of an index o and of levels b. *)

View(order) ==
    [side |-> order.side, price |-> order.price, remaining |-> order.remaining]

RestingOf(o) == [id \in DOMAIN o |-> View(o[id])]

BeforeOf(b) ==
    UNION {UNION {InOrder(b[side][p]) : p \in DOMAIN b[side]} : side \in Side}

LEMMA AbstractState ==
    /\ Resting = RestingOf(orders) /\ Before = BeforeOf(book)
    /\ Resting' = RestingOf(orders') /\ Before' = BeforeOf(book')
BY DEF Resting, RestingOf, View, Before, BeforeOf, Levels

\* x is somewhere in front of y in a queue.
Leads(queue, x, y) ==
    \E i, j \in DOMAIN queue : i < j /\ queue[i] = x /\ queue[j] = y

\* BeforeOf said by pairs, and queue by queue.
PairsOf(b) ==
    {xy \in OrderId \X OrderId :
        \E side \in Side, p \in Price : Leads(QueueOf(b, side, p), xy[1], xy[2])}

LEMMA LeadsIsInOrder ==
    ASSUME NEW queue \in Seq(OrderId), NEW z
    PROVE  z \in InOrder(queue) <=>
             z \in OrderId \X OrderId /\ Leads(queue, z[1], z[2])
<1>1. \A i \in DOMAIN queue : queue[i] \in OrderId
  BY ElementOfSeq, LenProperties
<1>2. z \in InOrder(queue) <=>
        \E i, j \in DOMAIN queue : i < j /\ z = <<queue[i], queue[j]>>
  <2> DEFINE D == DOMAIN queue
  <2>1. z \in InOrder(queue) <=>
          \E ij \in D \X D : ij[1] < ij[2] /\ z = <<queue[ij[1]], queue[ij[2]]>>
    BY DEF InOrder
  <2> HIDE DEF D
  <2>2. ASSUME NEW i \in D, NEW j \in D, i < j, z = <<queue[i], queue[j]>>
        PROVE  z \in InOrder(queue)
    <3>1. /\ <<i, j>> \in D \X D
          /\ <<i, j>>[1] = i /\ <<i, j>>[2] = j
      OBVIOUS
    <3>2. QED
      BY <2>1, <2>2, <3>1
  <2>3. ASSUME z \in InOrder(queue)
        PROVE  \E i, j \in D : i < j /\ z = <<queue[i], queue[j]>>
    BY <2>1, <2>3
  <2>4. QED
    BY <2>2, <2>3 DEF D
<1>3. QED
  BY <1>1, <1>2 DEF Leads

LEMMA BeforeIsPairs ==
    ASSUME NEW b, BookOK(b)
    PROVE  BeforeOf(b) = PairsOf(b)
<1>1. ASSUME NEW side \in Side, NEW p \in DOMAIN b[side]
      PROVE  p \in Price /\ b[side][p] \in Seq(OrderId) /\ QueueOf(b, side, p) = b[side][p]
  <2>1. IsMap(b[side], Price, Seq(OrderId))
    BY DEF BookOK
  <2>2. QED
    BY <2>1 DEF IsMap, QueueOf
<1>2. ASSUME NEW z \in BeforeOf(b)
      PROVE  z \in PairsOf(b)
  <2>1. PICK side \in Side : \E p \in DOMAIN b[side] : z \in InOrder(b[side][p])
    BY <1>2 DEF BeforeOf
  <2> PICK p \in DOMAIN b[side] : z \in InOrder(b[side][p])
    BY <2>1
  <2>2. z \in OrderId \X OrderId /\ Leads(b[side][p], z[1], z[2])
    BY <1>1, LeadsIsInOrder
  <2>3. QED
    BY <1>1, <2>2 DEF PairsOf
<1>3. ASSUME NEW z \in PairsOf(b)
      PROVE  z \in BeforeOf(b)
  <2>1. PICK side \in Side, p \in Price : Leads(QueueOf(b, side, p), z[1], z[2])
    BY <1>3 DEF PairsOf
  <2>2. p \in DOMAIN b[side]
    <3>1. DOMAIN QueueOf(b, side, p) # {}
      BY <2>1 DEF Leads
    <3>2. DOMAIN <<>> = {}
      OBVIOUS
    <3>3. QED
      BY <3>1, <3>2 DEF QueueOf
  <2>3. z \in InOrder(b[side][p])
    BY <1>1, <1>3, <2>1, <2>2, LeadsIsInOrder DEF PairsOf
  <2>4. QED
    BY <2>2, <2>3 DEF BeforeOf
<1>4. QED
  BY <1>2, <1>3

------------------------------------------------------------------------------
(* What the queue operations do to who is in front of whom. *)

LEMMA LeadsAppend ==
    ASSUME NEW queue \in Seq(OrderId), NEW id \in OrderId, id \notin Range(queue),
           NEW x, NEW y
    PROVE  Leads(Append(queue, id), x, y) <=>
              Leads(queue, x, y) \/ (x \in Range(queue) /\ y = id)
<1> DEFINE n == Len(queue)
           r == Append(queue, id)
<1>1. n \in Nat /\ DOMAIN queue = 1 .. n
  BY LenProperties
<1>2. r \in Seq(OrderId) /\ Len(r) = n + 1
  BY AppendProperties
<1>3. r[n + 1] = id /\ \A i \in 1 .. n : r[i] = queue[i]
  BY <1>1, AppendProperties
<1>4. DOMAIN r = 1 .. n + 1
  BY <1>2, LenProperties
<1>5. \A i \in 1 .. n + 1 : i \in 1 .. n \/ i = n + 1
  BY <1>1
<1>6. /\ n + 1 \in 1 .. n + 1
      /\ \A i \in 1 .. n : i \in 1 .. n + 1 /\ i < n + 1 /\ ~(n + 1 < i)
      /\ ~(n + 1 < n + 1)
  BY <1>1
<1> HIDE DEF n, r
<1>7. ASSUME Leads(r, x, y)
      PROVE  Leads(queue, x, y) \/ (x \in Range(queue) /\ y = id)
  <2>1. PICK i, j \in 1 .. n + 1 : i < j /\ r[i] = x /\ r[j] = y
    BY <1>4, <1>7 DEF Leads
  <2>2. i \in 1 .. n
    BY <1>5, <1>6, <2>1
  <2>3. CASE j = n + 1
    BY <1>1, <1>3, <2>1, <2>2, <2>3 DEF Range
  <2>4. CASE j \in 1 .. n
    BY <1>1, <1>3, <2>1, <2>2, <2>4 DEF Leads
  <2>5. QED
    BY <1>5, <2>3, <2>4
<1>8. ASSUME Leads(queue, x, y) \/ (x \in Range(queue) /\ y = id)
      PROVE  Leads(r, x, y)
  BY <1>1, <1>3, <1>4, <1>6, <1>8 DEF Leads, Range
<1>9. QED
  BY <1>7, <1>8 DEF r

LEMMA LeadsRemove ==
    ASSUME NEW queue \in Seq(OrderId), IsInjective(queue),
           NEW at \in 1 .. Len(queue), NEW x, NEW y
    PROVE  Leads(RemoveAt(queue, at), x, y) <=>
              Leads(queue, x, y) /\ x # queue[at] /\ y # queue[at]
<1> DEFINE n == Len(queue)
           r == RemoveAt(queue, at)
<1>1. n \in Nat /\ DOMAIN queue = 1 .. n /\ at \in 1 .. n
  BY LenProperties
<1>2. /\ r \in Seq(OrderId) /\ Len(r) = n - 1
      /\ \A j \in 1 .. n - 1 : r[j] = IF j < at THEN queue[j] ELSE queue[j + 1]
  BY RemoveAtProperties
<1>3. DOMAIN r = 1 .. n - 1
  BY <1>2, LenProperties
<1> HIDE DEF n, r
<1>4. \A i, j \in 1 .. n : queue[i] = queue[j] => i = j
  BY <1>1 DEF IsInjective
\* Where a node of the shorter list was.
<1> DEFINE old(j) == IF j < at THEN j ELSE j + 1
<1>5. \A j \in 1 .. n - 1 : old(j) \in 1 .. n /\ old(j) # at /\ r[j] = queue[old(j)]
  BY <1>1, <1>2
<1>6. \A i, j \in 1 .. n - 1 : i < j <=> old(i) < old(j)
  BY <1>1
<1>7. \A k \in 1 .. n : k # at => \E j \in 1 .. n - 1 : old(j) = k
  <2> SUFFICES ASSUME NEW k \in 1 .. n, k # at
               PROVE  \E j \in 1 .. n - 1 : old(j) = k
    OBVIOUS
  <2>1. CASE k < at
    <3>1. k \in 1 .. n - 1 /\ old(k) = k
      BY <1>1, <2>1
    <3>2. QED
      BY <3>1
  <2>2. CASE ~(k < at)
    <3>1. k - 1 \in 1 .. n - 1 /\ old(k - 1) = k
      BY <1>1, <2>2
    <3>2. QED
      BY <3>1
  <2>3. QED
    BY <2>1, <2>2
<1> HIDE DEF old
<1>8. ASSUME Leads(r, x, y)
      PROVE  Leads(queue, x, y) /\ x # queue[at] /\ y # queue[at]
  <2>1. PICK i, j \in 1 .. n - 1 : i < j /\ r[i] = x /\ r[j] = y
    BY <1>3, <1>8 DEF Leads
  <2>2. old(i) < old(j) /\ queue[old(i)] = x /\ queue[old(j)] = y
    BY <1>5, <1>6, <2>1
  <2>3. QED
    BY <1>1, <1>4, <1>5, <2>1, <2>2 DEF Leads
<1>9. ASSUME Leads(queue, x, y), x # queue[at], y # queue[at]
      PROVE  Leads(r, x, y)
  <2>1. PICK k, l \in 1 .. n : k < l /\ queue[k] = x /\ queue[l] = y
    BY <1>1, <1>9 DEF Leads
  <2>2. PICK i \in 1 .. n - 1 : old(i) = k
    BY <1>7, <1>9, <2>1
  <2>3. PICK j \in 1 .. n - 1 : old(j) = l
    BY <1>7, <1>9, <2>1
  <2>4. i < j /\ r[i] = x /\ r[j] = y
    BY <1>5, <1>6, <2>1, <2>2, <2>3
  <2>5. QED
    BY <1>3, <2>4 DEF Leads
<1>10. QED
  BY <1>8, <1>9 DEF r

LEMMA LeadsTail ==
    ASSUME NEW queue \in Seq(OrderId), IsInjective(queue), queue # <<>>,
           NEW x, NEW y
    PROVE  Leads(Tail(queue), x, y) <=>
              Leads(queue, x, y) /\ x # Head(queue) /\ y # Head(queue)
<1>1. Len(queue) \in Nat \ {0}
  BY LenProperties, EmptySeq
<1>2. /\ Tail(queue) \in Seq(OrderId) /\ Len(Tail(queue)) = Len(queue) - 1
      /\ \A j \in 1 .. Len(queue) - 1 : Tail(queue)[j] = queue[j + 1]
  BY HeadTailProperties
<1>3. /\ RemoveAt(queue, 1) \in Seq(OrderId)
      /\ Len(RemoveAt(queue, 1)) = Len(queue) - 1
      /\ \A j \in 1 .. Len(queue) - 1 : RemoveAt(queue, 1)[j] = queue[j + 1]
  <2>1. 1 \in 1 .. Len(queue) /\ \A j \in 1 .. Len(queue) - 1 : ~(j < 1)
    BY <1>1
  <2>2. QED
    BY <2>1, RemoveAtProperties
<1>4. Tail(queue) = RemoveAt(queue, 1)
  BY <1>2, <1>3, SeqEqual
<1>5. 1 \in 1 .. Len(queue) /\ Head(queue) = queue[1]
  BY <1>1
<1>6. Leads(RemoveAt(queue, 1), x, y) <=>
        Leads(queue, x, y) /\ x # queue[1] /\ y # queue[1]
  BY <1>5, LeadsRemove
<1>7. QED
  BY <1>4, <1>5, <1>6

------------------------------------------------------------------------------
(* The arrival order of the whole book. *)

\* Only orders filed together are in one queue.
LEMMA LeadsAreFiled ==
    ASSUME NEW b, NEW o, Agree(b, o), NEW s \in Side, NEW r \in Price,
           NEW x, NEW y, Leads(QueueOf(b, s, r), x, y)
    PROVE  x \in Filed(o, s, r) /\ y \in Filed(o, s, r)
BY DEF Agree, Leads, Range

\* An order enters behind those of its side and price.
LEMMA EnterPairs ==
    ASSUME NEW b, BookOK(b), NEW o, IsMap(o, OrderId, Order), Agree(b, o),
           NEW id \in OrderId, id \notin DOMAIN o, NEW side \in Side, NEW p \in Price,
           NEW c, OneQueue(b, c, side, p, Append(QueueOf(b, side, p), id))
    PROVE  PairsOf(c) = PairsOf(b) \cup {<<other, id>> : other \in Filed(o, side, p)}
<1> DEFINE queue == QueueOf(b, side, p)
           new == {<<other, id>> : other \in Filed(o, side, p)}
<1>1. queue \in Seq(OrderId) /\ Range(queue) = Filed(o, side, p)
  BY QueueOfIsSeq DEF Agree
<1>2. id \notin Range(queue) /\ Filed(o, side, p) \subseteq OrderId
  BY <1>1 DEF Filed, IsMap
<1>3. \A x, y : Leads(Append(queue, id), x, y) <=>
                Leads(queue, x, y) \/ (x \in Filed(o, side, p) /\ y = id)
  BY <1>1, <1>2, LeadsAppend
<1>4. \A s \in Side, r \in Price :
        QueueOf(c, s, r) = IF s = side /\ r = p THEN Append(queue, id)
                                              ELSE QueueOf(b, s, r)
  BY DEF OneQueue
<1> HIDE DEF queue
<1>5. ASSUME NEW z \in PairsOf(c)
      PROVE  z \in PairsOf(b) \cup new
  <2>1. PICK s \in Side, r \in Price : Leads(QueueOf(c, s, r), z[1], z[2])
    BY <1>5 DEF PairsOf
  <2>2. z \in OrderId \X OrderId
    BY <1>5 DEF PairsOf
  <2>3. CASE s = side /\ r = p
    <3>1. Leads(queue, z[1], z[2]) \/ (z[1] \in Filed(o, side, p) /\ z[2] = id)
      <4>1. QueueOf(c, s, r) = Append(queue, id)
        BY <1>4, <2>3
      <4>2. Leads(Append(queue, id), z[1], z[2])
        BY <2>1, <4>1
      <4>3. QED
        BY <1>3, <4>2
    <3>2. CASE Leads(queue, z[1], z[2])
      BY <2>2, <3>2 DEF PairsOf, queue
    <3>3. CASE z[1] \in Filed(o, side, p) /\ z[2] = id
      BY <2>2, <3>3
    <3>4. QED
      BY <3>1, <3>2, <3>3
  <2>4. CASE ~(s = side /\ r = p)
    BY <1>4, <2>1, <2>2, <2>4 DEF PairsOf
  <2>5. QED
    BY <2>3, <2>4
<1>6. ASSUME NEW z \in PairsOf(b)
      PROVE  z \in PairsOf(c)
  <2>1. PICK s \in Side, r \in Price : Leads(QueueOf(b, s, r), z[1], z[2])
    BY <1>6 DEF PairsOf
  <2>2. Leads(QueueOf(c, s, r), z[1], z[2])
    BY <1>3, <1>4, <2>1 DEF queue
  <2>3. QED
    BY <1>6, <2>2 DEF PairsOf
<1>7. ASSUME NEW other \in Filed(o, side, p)
      PROVE  <<other, id>> \in PairsOf(c)
  <2>1. <<other, id>> \in OrderId \X OrderId
    BY <1>2
  <2>2. Leads(QueueOf(c, side, p), other, id)
    BY <1>3, <1>4
  <2>3. QED
    BY <2>1, <2>2 DEF PairsOf
<1>8. QED
  BY <1>5, <1>6, <1>7

\* Orders leave, and the others keep their places.
LEMMA LeavePairs ==
    ASSUME NEW b, NEW c, NEW gone,
           \A s \in Side, r \in Price : \A x, y :
              Leads(QueueOf(c, s, r), x, y) <=>
                  Leads(QueueOf(b, s, r), x, y) /\ x \notin gone /\ y \notin gone
    PROVE  PairsOf(c) =
              {pair \in PairsOf(b) : pair[1] \notin gone /\ pair[2] \notin gone}
BY DEF PairsOf

------------------------------------------------------------------------------
(* Where the abstract book stands. *)

LEMMA RestingAs ==
    ASSUME NEW o
    PROVE  /\ DOMAIN RestingOf(o) = DOMAIN o
           /\ \A id \in DOMAIN o :
                /\ RestingOf(o)[id].side = o[id].side
                /\ RestingOf(o)[id].price = o[id].price
                /\ RestingOf(o)[id].remaining = o[id].remaining
BY DEF RestingOf, View

\* Orders enter and are withdrawn when nothing is left to trade.
LEMMA AtRestNotCrossed ==
    ASSUME IInv, mutex = NoThread
    PROVE  ~Abstract!Crossed
<1> SUFFICES ASSUME NEW bid \in DOMAIN orders, NEW ask \in DOMAIN orders,
                    orders[bid].side = "Buy", orders[ask].side = "Sell",
                    orders[bid].price >= orders[ask].price
             PROVE  FALSE
  BY AbstractState, RestingAs DEF Abstract!Crossed
<1>1. /\ orders[bid].price \in Levels("Buy") /\ orders[bid].price \in Price
      /\ orders[ask].price \in Levels("Sell") /\ orders[ask].price \in Price
  BY FiledAt DEF IInv
<1>2. orders[bid].price < orders[ask].price
  BY <1>1 DEF IInv, UncrossedAtRest
<1>3. orders[bid].price \in Int /\ orders[ask].price \in Int
  BY <1>1, PriceAssumption
<1>4. QED
  BY <1>2, <1>3

\* The front of the best level is the order nobody has priority over.
LEMMA FrontIsFirst ==
    ASSUME IInv, NEW side \in Side, NEW p \in Best(side), book[side][p] # <<>>
    PROVE  Head(book[side][p]) \in Abstract!First(side)
<1> DEFINE queue == book[side][p]
           id == Head(queue)
<1>1. /\ BookInv(book, orders, data) /\ BookOK(book) /\ Agree(book, orders)
      /\ p \in DOMAIN book[side]
  BY DEF IInv, BookInv, Best, Levels
<1>2. /\ p \in Price /\ queue \in Seq(OrderId) /\ QueueOf(book, side, p) = queue
      /\ id \in DOMAIN orders /\ orders[id].side = side /\ orders[id].price = p
  BY <1>1, FrontIsFiled
<1>3. ASSUME NEW other \in DOMAIN orders, orders[other].side = side
      PROVE  ~Abstract!Better(side, orders[other].price, p)
  <2>1. orders[other].price \in Levels(side)
    BY <1>1, <1>3, FiledAt
  <2>2. QED
    BY <2>1 DEF Best, Ahead, Abstract!Better
<1>4. ASSUME NEW other, Leads(queue, other, id)
      PROVE  FALSE
  <2>1. Len(queue) \in Nat \ {0} /\ DOMAIN queue = 1 .. Len(queue)
    BY <1>2, EmptySeq, LenProperties
  <2>2. 1 \in DOMAIN queue /\ id = queue[1]
    BY <2>1
  <2>3. PICK i, j \in DOMAIN queue : i < j /\ queue[j] = id
    BY <1>4 DEF Leads
  <2>4. IsInjective(queue)
    BY <1>1, <1>2 DEF Agree
  <2> HIDE DEF queue, id
  <2>5. j = 1
    BY <2>2, <2>3, <2>4 DEF IsInjective
  <2>6. QED
    BY <2>1, <2>3, <2>5
<1> HIDE DEF queue, id
<1>5. ASSUME NEW other, <<other, id>> \in PairsOf(book)
      PROVE  FALSE
  <2>1. PICK s \in Side, r \in Price : Leads(QueueOf(book, s, r), other, id)
    BY <1>5 DEF PairsOf
  <2>2. id \in Filed(orders, s, r)
    BY <1>1, <2>1, LeadsAreFiled
  <2>3. s = side /\ r = p
    BY <1>2, <2>2 DEF Filed
  <2>4. QED
    BY <1>2, <1>4, <2>1, <2>3
<1>6. Before = PairsOf(book)
  BY <1>1, AbstractState, BeforeIsPairs
<1>7. id \in Abstract!First(side)
  BY <1>2, <1>3, <1>5, <1>6, AbstractState, RestingAs DEF Abstract!First
<1>8. QED
  BY <1>7 DEF id, queue

------------------------------------------------------------------------------
(* The steps. *)

LEMMA InsertEnters ==
    ASSUME IInv, mutex = NoThread, NEW t \in Thread,
           NEW id \in OrderId, NEW order \in Order,
           NEW o \in Admitted(id, order), Insert(t, id, o, order.type)
    PROVE  Abstract!Next
<1>1. /\ BookInv(book, orders, data) /\ BookOK(book) /\ Agree(book, orders)
      /\ IsMap(orders, OrderId, Order)
  BY DEF IInv, BookInv
<1>2. o \in Order /\ id \notin DOMAIN orders /\ o.side \in Side /\ o.price \in Price
  BY <1>1, AdmittedIsOrder DEF Order
<1> DEFINE queue == QueueOf(book, o.side, o.price)
<1>3. /\ book' = [book EXCEPT ![o.side] = Put(@, o.price, Append(queue, id))]
      /\ orders' = Put(orders, id, o)
  BY DEF Insert, Enqueue, Queue, QueueOf, Levels
<1>4. BookOK(book') /\ OneQueue(book, book', o.side, o.price, Append(queue, id))
  <2>1. queue \in Seq(OrderId)
    BY <1>1, <1>2, QueueOfIsSeq
  <2>2. Append(queue, id) \in Seq(OrderId)
    BY <2>1, AppendProperties
  <2>3. OneSide(book, book', o.side, Put(book[o.side], o.price, Append(queue, id)))
    BY <1>1, <1>2, <1>3 DEF OneSide, BookOK
  <2> HIDE DEF queue
  <2>4. QED
    BY <1>1, <1>2, <2>2, <2>3, QueueOfPut
<1>5. Before' = Before \cup {<<other, id>> : other \in Filed(orders, o.side, o.price)}
  <2>1. PairsOf(book') = PairsOf(book) \cup
            {<<other, id>> : other \in Filed(orders, o.side, o.price)}
    BY <1>1, <1>2, <1>4, EnterPairs
  <2>2. BeforeOf(book') = PairsOf(book') /\ BeforeOf(book) = PairsOf(book)
    BY <1>1, <1>4, BeforeIsPairs
  <2>3. QED
    BY <2>1, <2>2, AbstractState
<1>6. Resting' = Put(Resting, id, View(o))
  BY <1>3, AbstractState DEF RestingOf, Put
<1>7. Filed(orders, o.side, o.price) =
        {i \in DOMAIN Resting : Resting[i].side = o.side /\ Resting[i].price = o.price}
  BY AbstractState, RestingAs DEF Filed
<1>8. Abstract!Enter(id, View(o))
  <2>1. View(o).side = o.side /\ View(o).price = o.price
    BY DEF View
  <2>2. ~Abstract!Crossed
    BY AtRestNotCrossed
  <2>3. id \notin DOMAIN Resting
    BY <1>2, AbstractState, RestingAs
  <2>4. QED
    BY <1>5, <1>6, <1>7, <2>1, <2>2, <2>3 DEF Abstract!Enter, Abstract!Put, Put
<1>9. View(o) \in Abstract!Entry
  BY <1>2 DEF View, Order, Abstract!Entry, Abstract!Side, Side,
              Abstract!Quantity, Quantity
<1>10. QED
  BY <1>8, <1>9 DEF Abstract!Next

LEMMA CancelWithdraws ==
    ASSUME IInv, mutex = NoThread,
           NEW id \in DOMAIN orders, CancelOrderInternal(id)
    PROVE  Abstract!Next
<1> DEFINE side == orders[id].side
           price == orders[id].price
           queue == book[side][price]
           at == Location(queue, id)
           rest == RemoveAt(queue, at)
<1>1. /\ BookInv(book, orders, data) /\ BookOK(book) /\ Agree(book, orders)
      /\ IsMap(orders, OrderId, Order)
  BY DEF IInv, BookInv
<1>2. /\ side \in Side /\ price \in Price /\ price \in DOMAIN book[side]
      /\ queue \in Seq(OrderId) /\ id \in Range(queue) /\ id \in OrderId
  BY <1>1, FiledAt DEF Levels, IsMap
<1>3. QueueOf(book, side, price) = queue /\ IsInjective(queue)
  BY <1>1, <1>2 DEF QueueOf, Agree
<1>4. at \in 1 .. Len(queue) /\ queue[at] = id
  <2>1. at \in DOMAIN queue /\ queue[at] = id
    BY <1>2 DEF Location, Range
  <2>2. QED
    BY <1>2, <2>1, LenProperties
<1>5. /\ book' = [book EXCEPT ![side] = SetQueue(@, price, rest)]
      /\ orders' = Without(orders, id)
  BY DEF CancelOrderInternal
<1> HIDE DEF at
<1>6. rest \in Seq(OrderId)
  BY <1>2, <1>4, RemoveAtProperties
<1>7. \A x, y : Leads(rest, x, y) <=> Leads(queue, x, y) /\ x # id /\ y # id
  BY <1>2, <1>3, <1>4, LeadsRemove
<1> HIDE DEF side, price, queue, rest
<1>8. BookOK(book') /\ OneQueue(book, book', side, price, rest)
  <2>1. OneSide(book, book', side, SetQueue(book[side], price, rest))
    BY <1>1, <1>2, <1>5 DEF OneSide, BookOK
  <2>2. QED
    BY <1>1, <1>2, <1>6, <2>1, QueueOfSet
<1>9. ASSUME NEW s \in Side, NEW r \in Price, NEW x, NEW y
      PROVE  Leads(QueueOf(book', s, r), x, y) <=>
                Leads(QueueOf(book, s, r), x, y) /\ x \notin {id} /\ y \notin {id}
  <2>1. CASE s = side /\ r = price
    <3>1. QueueOf(book', s, r) = rest /\ QueueOf(book, s, r) = queue
      BY <1>3, <1>8, <2>1 DEF OneQueue
    <3>2. QED
      BY <1>7, <3>1
  <2>2. CASE ~(s = side /\ r = price)
    <3>1. QueueOf(book', s, r) = QueueOf(book, s, r)
      BY <1>8, <2>2 DEF OneQueue
    <3>2. id \notin Filed(orders, s, r)
      BY <2>2 DEF Filed, side, price
    <3>3. Leads(QueueOf(book, s, r), x, y) => x # id /\ y # id
      BY <1>1, <3>2, LeadsAreFiled
    <3>4. QED
      BY <3>1, <3>3
  <2>3. QED
    BY <2>1, <2>2
<1>10. Before' = Abstract!Leave({id})
  <2> DEFINE c == book'
  <2>1. PairsOf(c) = {pair \in PairsOf(book) :
                         pair[1] \notin {id} /\ pair[2] \notin {id}}
    <3>1. \A s \in Side, r \in Price : \A x, y :
            Leads(QueueOf(c, s, r), x, y) <=>
                Leads(QueueOf(book, s, r), x, y) /\ x \notin {id} /\ y \notin {id}
      BY <1>9
    <3> HIDE DEF c
    <3>2. QED
      BY <3>1 DEF PairsOf
  <2>2. BeforeOf(book') = PairsOf(book') /\ BeforeOf(book) = PairsOf(book)
    BY <1>1, <1>8, BeforeIsPairs
  <2>3. QED
    BY <2>1, <2>2, AbstractState DEF Abstract!Leave
<1>11. Resting' = Without(Resting, id)
  BY <1>5, AbstractState DEF RestingOf, Without, Restrict
<1>12. Abstract!Withdraw(id)
  <2>1. id \in DOMAIN Resting
    BY AbstractState, RestingAs
  <2>2. QED
    BY <1>10, <1>11, <2>1, AtRestNotCrossed
    DEF Abstract!Withdraw, Abstract!Without, Abstract!Restrict, Without, Restrict
<1>13. QED
  BY <1>2, <1>12 DEF Abstract!Next

LEMMA FillExecutes ==
    ASSUME IInv, NEW t \in Thread, FillFront(t)
    PROVE  Abstract!Next
<1>1. /\ BookInv(book, orders, data) /\ BookOK(book) /\ Agree(book, orders)
      /\ IsMap(orders, OrderId, Order)
  BY DEF IInv, BookInv
<1>2. PICK bp \in Best("Buy"), ap \in Best("Sell") :
        /\ bp >= ap
        /\ book["Buy"][bp] # <<>>
        /\ book["Sell"][ap] # <<>>
        /\ FillLevels(bp, ap)
  BY DEF FillFront
<1> DEFINE bidQueue == book["Buy"][bp]
           askQueue == book["Sell"][ap]
           bidId == Head(bidQueue)
           askId == Head(askQueue)
           least == Smaller(orders[bidId].remaining, orders[askId].remaining)
<1>3. /\ "Buy" \in Side /\ "Sell" \in Side /\ DOMAIN book = Side
      /\ bp \in DOMAIN book["Buy"] /\ ap \in DOMAIN book["Sell"]
  BY <1>1 DEF Side, Best, Levels, BookOK
<1>4. /\ bidId \in Abstract!First("Buy") /\ askId \in Abstract!First("Sell")
  BY <1>2, <1>3, FrontIsFirst
<1>5. /\ bp \in Price /\ bidQueue \in Seq(OrderId)
      /\ QueueOf(book, "Buy", bp) = bidQueue /\ bidId \in DOMAIN orders
      /\ orders[bidId].side = "Buy" /\ orders[bidId].price = bp
  BY <1>1, <1>2, <1>3, FrontIsFiled
<1>6. /\ ap \in Price /\ askQueue \in Seq(OrderId)
      /\ QueueOf(book, "Sell", ap) = askQueue /\ askId \in DOMAIN orders
      /\ orders[askId].side = "Sell" /\ orders[askId].price = ap
  BY <1>1, <1>2, <1>3, FrontIsFiled
<1>7. PICK quantity, bid, ask :
        /\ quantity = least
        /\ bid = Fill(orders[bidId], quantity)
        /\ ask = Fill(orders[askId], quantity)
        /\ book' = [book EXCEPT
              !["Buy"][bp] = IF IsFilled(bid) THEN Tail(@) ELSE @,
              !["Sell"][ap] = IF IsFilled(ask) THEN Tail(@) ELSE @]
        /\ orders' = Settle(Settle(orders, bidId, bid), askId, ask)
  BY <1>2 DEF FillLevels
<1>8. bidId # askId /\ orders[bidId] \in Order /\ orders[askId] \in Order
  BY <1>1, <1>5, <1>6 DEF IsMap
<1>9. BookOK(book')
  BY <1>1, <1>2, FillBook DEF IInv, LocalTypeOK, Best, BookInv
<1>10. /\ IsInjective(bidQueue) /\ IsInjective(askQueue)
       /\ bidQueue # <<>> /\ askQueue # <<>>
  BY <1>1, <1>2, <1>3, <1>5, <1>6 DEF Agree
<1>11. /\ \A x, y : Leads(Tail(bidQueue), x, y) <=>
                    Leads(bidQueue, x, y) /\ x # bidId /\ y # bidId
       /\ \A x, y : Leads(Tail(askQueue), x, y) <=>
                    Leads(askQueue, x, y) /\ x # askId /\ y # askId
  BY <1>5, <1>6, <1>10, LeadsTail
<1>12. /\ QueueOf(book', "Buy", bp) = IF IsFilled(bid) THEN Tail(bidQueue) ELSE bidQueue
       /\ QueueOf(book', "Sell", ap) = IF IsFilled(ask) THEN Tail(askQueue) ELSE askQueue
       /\ \A s \in Side, r \in Price :
             ~(s = "Buy" /\ r = bp) /\ ~(s = "Sell" /\ r = ap) =>
                QueueOf(book', s, r) = QueueOf(book, s, r)
  <2> HIDE DEF bidId, askId, least
  <2>1. QED
    BY <1>3, <1>7 DEF QueueOf, Side
<1> HIDE DEF bidQueue, askQueue, bidId, askId, least

\* Who leaves, and what is left of the others.
<1> DEFINE filled == {i \in {bidId, askId} :
                        \/ i = bidId /\ IsFilled(bid)
                        \/ i = askId /\ IsFilled(ask)}
           after == [i \in DOMAIN orders |->
                        IF i = bidId THEN View(bid)
                        ELSE IF i = askId THEN View(ask) ELSE View(orders[i])]
<1>13. Resting' = Restrict(after, DOMAIN after \ filled)
  <2>1. DOMAIN orders' = DOMAIN orders \ filled
    BY <1>5, <1>6, <1>7, <1>8 DEF Settle, Put, Without, Restrict
  <2>2. \A i \in DOMAIN orders' : orders'[i] =
           IF i = bidId THEN bid ELSE IF i = askId THEN ask ELSE orders[i]
    BY <1>7, <1>8 DEF Settle, Put, Without, Restrict
  <2>3. Resting' = RestingOf(orders')
    BY AbstractState
  <2> HIDE DEF filled
  <2>4. QED
    BY <2>1, <2>2, <2>3 DEF RestingOf, Restrict
<1>14. ASSUME NEW s \in Side, NEW r \in Price, NEW x, NEW y
       PROVE  Leads(QueueOf(book', s, r), x, y) <=>
                 Leads(QueueOf(book, s, r), x, y) /\ x \notin filled /\ y \notin filled
  <2>1. Leads(QueueOf(book, s, r), x, y) =>
            x \in Filed(orders, s, r) /\ y \in Filed(orders, s, r)
    BY <1>1, LeadsAreFiled
  <2>2. CASE s = "Buy" /\ r = bp
    <3>1. askId \notin Filed(orders, s, r)
      BY <1>6, <2>2 DEF Filed
    <3>2. QED
      BY <1>5, <1>11, <1>12, <2>1, <2>2, <3>1
  <2>3. CASE s = "Sell" /\ r = ap
    <3>1. bidId \notin Filed(orders, s, r)
      BY <1>5, <2>3 DEF Filed
    <3>2. QED
      BY <1>6, <1>11, <1>12, <2>1, <2>3, <3>1
  <2>4. CASE ~(s = "Buy" /\ r = bp) /\ ~(s = "Sell" /\ r = ap)
    <3>1. bidId \notin Filed(orders, s, r) /\ askId \notin Filed(orders, s, r)
      BY <1>5, <1>6, <2>4 DEF Filed
    <3>2. QED
      BY <1>12, <2>1, <2>4, <3>1
  <2>5. QED
    BY <2>2, <2>3, <2>4
<1>15. Before' = Abstract!Leave(filled)
  <2> DEFINE c == book'
  <2> HIDE DEF filled
  <2>1. PairsOf(c) = {pair \in PairsOf(book) :
                         pair[1] \notin filled /\ pair[2] \notin filled}
    <3>1. \A s \in Side, r \in Price : \A x, y :
            Leads(QueueOf(c, s, r), x, y) <=>
                Leads(QueueOf(book, s, r), x, y) /\ x \notin filled /\ y \notin filled
      BY <1>14
    <3> HIDE DEF c
    <3>2. QED
      BY <3>1, LeavePairs
  <2>2. BeforeOf(book') = PairsOf(book') /\ BeforeOf(book) = PairsOf(book)
    BY <1>1, <1>9, BeforeIsPairs
  <2>3. QED
    BY <2>1, <2>2, AbstractState DEF Abstract!Leave

\* The same, as the abstract book says it.
<1>16. /\ DOMAIN Resting = DOMAIN orders
       /\ \A i \in DOMAIN orders : Resting[i] = View(orders[i])
       /\ Resting[bidId].remaining = orders[bidId].remaining
       /\ Resting[askId].remaining = orders[askId].remaining
       /\ Resting[bidId].price = bp /\ Resting[askId].price = ap
  BY <1>5, <1>6, AbstractState, RestingAs DEF RestingOf
<1> DEFINE amount == IF Resting[bidId].remaining <= Resting[askId].remaining
                     THEN Resting[bidId].remaining ELSE Resting[askId].remaining
           left == [i \in DOMAIN Resting |->
                      IF i \in {bidId, askId}
                      THEN [Resting[i] EXCEPT !.remaining = @ - amount]
                      ELSE Resting[i]]
<1>17. amount = quantity
  BY <1>7, <1>16 DEF least, Smaller
<1>18. /\ View(bid) = [Resting[bidId] EXCEPT !.remaining = @ - amount]
       /\ View(ask) = [Resting[askId] EXCEPT !.remaining = @ - amount]
  <2>1. /\ bid.side = orders[bidId].side /\ bid.price = orders[bidId].price
        /\ bid.remaining = orders[bidId].remaining - quantity
        /\ ask.side = orders[askId].side /\ ask.price = orders[askId].price
        /\ ask.remaining = orders[askId].remaining - quantity
    BY <1>7, <1>8 DEF Fill, Order
  <2> HIDE DEF amount
  <2>2. /\ Resting[bidId] = View(orders[bidId]) /\ Resting[askId] = View(orders[askId])
    BY <1>5, <1>6, <1>16
  <2>3. QED
    BY <1>17, <2>1, <2>2 DEF View
<1>19. left = after
  <2> HIDE DEF amount
  <2>1. QED
    BY <1>16, <1>18
<1>20. filled = {i \in {bidId, askId} : left[i].remaining = 0}
  <2>1. View(bid).remaining = bid.remaining /\ View(ask).remaining = ask.remaining
    BY DEF View
  <2> HIDE DEF left
  <2>2. left[bidId] = View(bid) /\ left[askId] = View(ask)
    BY <1>5, <1>6, <1>8, <1>19
  <2>3. QED
    BY <1>8, <2>1, <2>2 DEF IsFilled
<1>21. Abstract!Execute(bidId, askId)
  <2>1. Resting' = Restrict(left, DOMAIN left \ {i \in {bidId, askId} : left[i].remaining = 0})
    BY <1>13, <1>19, <1>20
  <2>2. Before' = Abstract!Leave({i \in {bidId, askId} : left[i].remaining = 0})
    BY <1>15, <1>20
  <2>3. Resting[bidId].price >= Resting[askId].price
    BY <1>2, <1>16
  <2>4. QED
    BY <2>1, <2>2, <2>3 DEF Abstract!Execute, Abstract!Restrict, Restrict
<1>22. QED
  BY <1>4, <1>21 DEF Abstract!Next

\* The cleanup is not seen: an empty queue orders nothing.
LEMMA DropStutters ==
    ASSUME IInv, NEW t \in Thread, DropEmptyLevels(t)
    PROVE  UNCHANGED Abstract!vars
<1>1. BookInv(book, orders, data) /\ BookInv(book, orders, data)'
  BY DropBook DEF IInv
<1>2. BookOK(book) /\ BookOK(book')
  BY <1>1 DEF BookInv
<1>3. /\ book' = [side \in Side |->
                    Restrict(book[side], Levels(side) \ Emptied(side))]
      /\ orders' = orders
  BY DEF DropEmptyLevels
<1>4. \A side \in Side, p \in Price : QueueOf(book', side, p) = QueueOf(book, side, p)
  BY <1>3 DEF QueueOf, Restrict, Levels, Emptied
<1>5. PairsOf(book') = PairsOf(book)
  BY <1>4 DEF PairsOf
<1>6. BeforeOf(book') = BeforeOf(book)
  BY <1>2, <1>5, BeforeIsPairs
<1>7. QED
  BY <1>3, <1>6, AbstractState DEF Abstract!vars

LEMMA OtherStutters ==
    ASSUME UNCHANGED <<book, orders>>
    PROVE  UNCHANGED Abstract!vars
BY AbstractState DEF Abstract!vars

LEMMA NextRefines ==
    ASSUME IInv, [Next]_vars
    PROVE  [Abstract!Next]_Abstract!vars
<1>1. ASSUME NEW t \in Thread, NEW id \in OrderId, NEW type \in InputType,
             NEW side \in Side, NEW price \in Price, NEW quantity \in InputQty,
             NEW filled \in InputFilled, Submittable(type, quantity, filled),
             AddOrder(t, id, Fill(NewOrder(type, side, price, quantity), filled))
      PROVE  Abstract!Next
  BY <1>1, SubmittedIsOrder, InsertEnters DEF AddOrder
<1>2. ASSUME NEW t \in Thread, NEW id \in OrderId, CancelOrder(t, id)
      PROVE  Abstract!Next
  BY <1>2, CancelWithdraws DEF CancelOrder
<1>3. ASSUME NEW t \in Thread, NEW id \in OrderId, NEW side \in Side,
             NEW price \in Price, NEW quantity \in ModifyQty,
             ModifyOrder(t, id, side, price, quantity)
      PROVE  UNCHANGED Abstract!vars
  BY <1>3, OtherStutters DEF ModifyOrder
<1>4. ASSUME NEW t \in Thread, CancelOriginal(t)
      PROVE  [Abstract!Next]_Abstract!vars
  <2>1. CASE request[t].id \in DOMAIN orders
    BY <1>4, <2>1, CancelWithdraws DEF CancelOriginal
  <2>2. CASE request[t].id \notin DOMAIN orders
    BY <1>4, <2>2, OtherStutters DEF CancelOriginal, bookVars
  <2>3. QED
    BY <2>1, <2>2
<1>5. ASSUME NEW t \in Thread, AddModified(t)
      PROVE  [Abstract!Next]_Abstract!vars
  <2>1. /\ mutex = NoThread
        /\ request[t].id \in OrderId /\ request[t].order \in Order
    BY <1>5 DEF AddModified, IInv, LockHeld
  <2>2. CASE \E o \in Admitted(request[t].id, request[t].order) :
                Insert(t, request[t].id, o, request[t].order.type)
    BY <2>1, <2>2, InsertEnters
  <2>3. CASE UNCHANGED <<book, orders, data, mutex, adding, trades>>
    BY <2>3, OtherStutters
  <2>4. QED
    BY <1>5, <2>2, <2>3 DEF AddModified
<1>6. ASSUME NEW t \in Thread, Return(t) \/ KillRemainder(t)
      PROVE  UNCHANGED Abstract!vars
  BY <1>6, OtherStutters DEF Return, KillRemainder
<1>7. CASE UNCHANGED vars
  BY <1>7, OtherStutters DEF vars
<1>8. QED
  BY <1>1, <1>2, <1>3, <1>4, <1>5, <1>6, <1>7, FillExecutes, DropStutters
  DEF Next, Client, Matching, Modifying

LEMMA InitRefines == Init => Abstract!Init
<1> SUFFICES ASSUME Init PROVE Abstract!Init
  OBVIOUS
<1>1. DOMAIN <<>> = {}
  OBVIOUS
<1>2. Resting = <<>>
  BY <1>1 DEF Init, Resting
<1>3. Before = {}
  BY <1>1 DEF Init, Before, Levels
<1>4. QED
  BY <1>2, <1>3 DEF Abstract!Init

------------------------------------------------------------------------------
\* Whatever the threads do, and however AddOrder, CancelOrder and ModifyOrder
\* interleave, the lists, the index and the matching loop amount to a book that
\* trades the first bid with the first ask, one pair at a time, in strict
\* price-time priority, and takes no order in before every trade is made.
THEOREM ImplementsPriceTimeBook == Spec => PriceTimePriority
<1>1. QED
  BY SpecIInv, InitRefines, NextRefines, PTL
  DEF Spec, PriceTimePriority, Abstract!Spec
===============================================================================
