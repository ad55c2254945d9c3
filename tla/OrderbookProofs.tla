---------------------------- MODULE OrderbookProofs ----------------------------
(***************************************************************************)
(* Safety of Orderbook for every set of threads, ids, prices and           *)
(* quantities, and whatever a freed map key reads as.                      *)
(***************************************************************************)
EXTENDS Orderbook, SequenceTheorems, TLAPS

------------------------------------------------------------------------------
(* The operators the model is built from. *)

LEMMA ModInQuantity ==
    ASSUME NEW a \in Int
    PROVE  a % QMod \in Quantity
BY QModAssumption, SMT DEF Quantity

LEMMA PutIsMap ==
    ASSUME NEW S, NEW T, NEW f, IsMap(f, S, T), NEW key \in S, NEW value \in T
    PROVE  IsMap(Put(f, key, value), S, T)
BY DEF IsMap, Put

LEMMA RestrictIsMap ==
    ASSUME NEW S, NEW T, NEW f, IsMap(f, S, T), NEW D, D \subseteq DOMAIN f
    PROVE  IsMap(Restrict(f, D), S, T)
BY DEF IsMap, Restrict

LEMMA WithoutIsMap ==
    ASSUME NEW S, NEW T, NEW f, IsMap(f, S, T), NEW key
    PROVE  IsMap(Without(f, key), S, T)
BY RestrictIsMap DEF Without

LEMMA EmptyIsMap ==
    ASSUME NEW S, NEW T
    PROVE  IsMap(<<>>, S, T)
BY DEF IsMap

LEMMA UpdateLevelDataIsMap ==
    ASSUME NEW d, IsMap(d, Price, LevelTotals), NEW p \in Price,
           NEW q \in Quantity, NEW a \in Action
    PROVE  IsMap(UpdateLevelData(d, p, q, a), Price, LevelTotals)
<1> DEFINE old     == TotalsAt(d, p)
           signed  == IF a = "Add" THEN q ELSE -q
           counted == CASE a = "Add"    -> 1
                        [] a = "Remove" -> -1
                        [] a = "Match"  -> 0
           new     == [quantity   |-> (old.quantity + signed) % QMod,
                       orderCount |-> (old.orderCount + counted) % QMod]
<1>1. old \in LevelTotals
  BY QModAssumption DEF TotalsAt, IsMap, LevelTotals, Quantity
<1>2. signed \in Int /\ counted \in Int
  BY DEF Action, Quantity
<1>3. old.quantity \in Int /\ old.orderCount \in Int
  BY <1>1 DEF LevelTotals, Quantity
<1> HIDE DEF old, signed, counted
<1>4. old.quantity + signed \in Int /\ old.orderCount + counted \in Int
  BY <1>2, <1>3
<1>5. new \in LevelTotals
  BY <1>4, ModInQuantity DEF LevelTotals
<1>6. IsMap(Put(d, p, new), Price, LevelTotals)
  BY <1>5, PutIsMap
<1>7. IsMap(Without(d, p), Price, LevelTotals)
  BY WithoutIsMap
<1> USE DEF old, signed, counted
<1>8. UpdateLevelData(d, p, q, a) = IF new.orderCount = 0 THEN Without(d, p)
                                                          ELSE Put(d, p, new)
  BY DEF UpdateLevelData
<1>9. QED
  BY <1>6, <1>7, <1>8

LEMMA RemoveAtProperties ==
    ASSUME NEW S, NEW s \in Seq(S), NEW i \in 1 .. Len(s)
    PROVE  /\ RemoveAt(s, i) \in Seq(S)
           /\ Len(RemoveAt(s, i)) = Len(s) - 1
           /\ \A j \in 1 .. Len(s) - 1 :
                RemoveAt(s, i)[j] = IF j < i THEN s[j] ELSE s[j + 1]
<1> DEFINE front == SubSeq(s, 1, i - 1)
           back  == SubSeq(s, i + 1, Len(s))
<1>1. Len(s) \in Nat /\ \A j \in 1 .. Len(s) : s[j] \in S
  BY ElementOfSeq, LenProperties
<1>2. /\ front \in Seq(S)
      /\ Len(front) = i - 1
      /\ \A j \in 1 .. i - 1 : front[j] = s[j]
  <2>1. \A j \in 1 .. i - 1 : s[j] \in S
    BY <1>1
  <2>2. QED
    BY <1>1, <2>1, SubSeqProperties
<1>3. /\ back \in Seq(S)
      /\ Len(back) = Len(s) - i
      /\ \A j \in 1 .. Len(s) - i : back[j] = s[i + j]
  <2>1. \A j \in i + 1 .. Len(s) : s[j] \in S
    BY <1>1
  <2>2. QED
    BY <1>1, <2>1, SubSeqProperties
<1> HIDE DEF front, back
<1>4. /\ front \o back \in Seq(S)
      /\ Len(front \o back) = Len(front) + Len(back)
      /\ \A j \in 1 .. Len(front) + Len(back) : (front \o back)[j] =
            IF j <= Len(front) THEN front[j] ELSE back[j - Len(front)]
  BY <1>2, <1>3, ConcatProperties
<1>5. RemoveAt(s, i) = front \o back
  BY DEF RemoveAt, front, back
<1>6. ASSUME NEW j \in 1 .. Len(s) - 1
      PROVE  RemoveAt(s, i)[j] = IF j < i THEN s[j] ELSE s[j + 1]
  <2>1. CASE j < i
    BY <1>1, <1>2, <1>3, <1>4, <1>5, <2>1
  <2>2. CASE j >= i
    <3>1. (front \o back)[j] = back[j - (i - 1)]
      BY <1>1, <1>2, <1>3, <1>4, <2>2
    <3>2. j - (i - 1) \in 1 .. Len(s) - i /\ i + (j - (i - 1)) = j + 1
      BY <1>1, <2>2
    <3>3. back[j - (i - 1)] = s[i + (j - (i - 1))]
      BY <1>3, <3>2
    <3>4. ~(j < i)
      BY <1>1, <2>2
    <3>5. QED
      BY <1>5, <3>1, <3>2, <3>3, <3>4
  <2>3. QED
    BY <1>1, <2>1, <2>2
<1>7. Len(front) + Len(back) = Len(s) - 1
  BY <1>1, <1>2, <1>3
<1>8. QED
  BY <1>4, <1>5, <1>6, <1>7

\* Injectivity and range of the queue operations, for queues without repeats.
LEMMA RemoveAtRange ==
    ASSUME NEW S, NEW s \in Seq(S), IsInjective(s), NEW i \in 1 .. Len(s)
    PROVE  /\ IsInjective(RemoveAt(s, i))
           /\ Range(RemoveAt(s, i)) = Range(s) \ {s[i]}
<1> DEFINE r == RemoveAt(s, i)
           n == Len(s)
<1>1. n \in Nat /\ DOMAIN s = 1 .. n
  BY LenProperties
<1>2. /\ r \in Seq(S) /\ Len(r) = n - 1
      /\ \A j \in 1 .. n - 1 : r[j] = IF j < i THEN s[j] ELSE s[j + 1]
  BY RemoveAtProperties
<1>3. DOMAIN r = 1 .. n - 1
  BY <1>2, LenProperties
<1> HIDE DEF r, n
<1>i. i \in 1 .. n
  BY DEF n
<1>4. \A j, k \in 1 .. n : s[j] = s[k] => j = k
  BY <1>1 DEF IsInjective
<1>5. ASSUME NEW j \in 1 .. n - 1, NEW k \in 1 .. n - 1, r[j] = r[k]
      PROVE  j = k
  <2>1. \A m \in 1 .. n - 1 : m \in 1 .. n /\ m + 1 \in 1 .. n
    BY <1>1
  <2>2. CASE j < i /\ k < i
    BY <1>2, <1>4, <1>5, <2>1, <2>2
  <2>3. CASE j < i /\ ~(k < i)
    <3>1. s[j] = s[k + 1]
      BY <1>2, <1>5, <2>3
    <3>2. j = k + 1
      BY <1>4, <2>1, <3>1
    <3>3. QED
      BY <1>1, <1>i, <2>3, <3>2
  <2>4. CASE ~(j < i) /\ k < i
    <3>1. s[j + 1] = s[k]
      BY <1>2, <1>5, <2>4
    <3>2. j + 1 = k
      BY <1>4, <2>1, <3>1
    <3>3. QED
      BY <1>1, <1>i, <2>4, <3>2
  <2>5. CASE ~(j < i) /\ ~(k < i)
    <3>1. s[j + 1] = s[k + 1]
      BY <1>2, <1>5, <2>5
    <3>2. j + 1 = k + 1
      BY <1>4, <2>1, <3>1
    <3>3. QED
      BY <1>1, <3>2
  <2>6. QED
    BY <2>2, <2>3, <2>4, <2>5
<1>6. IsInjective(r)
  BY <1>3, <1>5 DEF IsInjective
<1>7. ASSUME NEW j \in 1 .. n - 1
      PROVE  r[j] \in Range(s) \ {s[i]}
  <2>1. CASE j < i
    BY <1>1, <1>2, <1>4, <1>i, <2>1 DEF Range
  <2>2. CASE ~(j < i)
    <3>1. j + 1 \in 1 .. n /\ j + 1 # i
      BY <1>1, <1>i, <2>2
    <3>2. r[j] = s[j + 1]
      BY <1>2, <2>2
    <3>3. QED
      BY <1>1, <1>4, <1>i, <3>1, <3>2 DEF Range
  <2>3. QED
    BY <2>1, <2>2
<1>8. ASSUME NEW k \in 1 .. n, s[k] # s[i]
      PROVE  \E j \in 1 .. n - 1 : r[j] = s[k]
  <2>1. k # i
    BY <1>8
  <2>2. CASE k < i
    <3>1. k \in 1 .. n - 1
      BY <1>1, <1>i, <2>2
    <3>2. QED
      BY <1>2, <2>2, <3>1
  <2>3. CASE ~(k < i)
    <3>1. k - 1 \in 1 .. n - 1 /\ ~(k - 1 < i) /\ (k - 1) + 1 = k
      BY <1>1, <1>i, <2>1, <2>3
    <3>2. QED
      BY <1>2, <3>1
  <2>4. QED
    BY <2>2, <2>3
<1>9. Range(r) = Range(s) \ {s[i]}
  <2>1. Range(r) \subseteq Range(s) \ {s[i]}
    BY <1>3, <1>7 DEF Range
  <2>2. ASSUME NEW e \in Range(s), e # s[i]
        PROVE  e \in Range(r)
    <3>1. PICK k \in 1 .. n : e = s[k]
      BY <1>1 DEF Range
    <3>2. PICK j \in 1 .. n - 1 : r[j] = s[k]
      BY <1>8, <2>2, <3>1
    <3>3. QED
      BY <1>3, <3>1, <3>2 DEF Range
  <2>3. QED
    BY <2>1, <2>2
<1>10. QED
  BY <1>6, <1>9 DEF r

LEMMA TailRange ==
    ASSUME NEW S, NEW s \in Seq(S), s # <<>>, IsInjective(s)
    PROVE  /\ Tail(s) \in Seq(S)
           /\ IsInjective(Tail(s))
           /\ Head(s) \in Range(s)
           /\ Range(Tail(s)) = Range(s) \ {Head(s)}
<1>1. Len(s) \in Nat \ {0} /\ DOMAIN s = 1 .. Len(s)
  BY LenProperties, EmptySeq
<1>2. /\ Tail(s) \in Seq(S)
      /\ Len(Tail(s)) = Len(s) - 1
      /\ \A i \in 1 .. Len(Tail(s)) : Tail(s)[i] = s[i + 1]
  BY HeadTailProperties
<1>3. DOMAIN Tail(s) = 1 .. Len(s) - 1
  BY <1>2, LenProperties
<1>4. Head(s) = s[1]
  BY <1>1
<1> DEFINE n == Len(s)
           r == Tail(s)
<1>5. \A i \in 1 .. n - 1 : r[i] = s[i + 1] /\ i + 1 \in 1 .. n /\ i + 1 # 1
  BY <1>1, <1>2
<1>6. \A k \in 1 .. n : k # 1 => k - 1 \in 1 .. n - 1 /\ (k - 1) + 1 = k
  BY <1>1
<1>7. 1 \in 1 .. n
  BY <1>1
<1>8. DOMAIN s = 1 .. n /\ DOMAIN r = 1 .. n - 1
  BY <1>1, <1>3
<1>9. \A i, j \in 1 .. n - 1 : i + 1 = j + 1 => i = j
  BY <1>1
<1> HIDE DEF n, r
<1>10. \A j, k \in 1 .. n : s[j] = s[k] => j = k
  BY <1>8 DEF IsInjective
<1>11. IsInjective(r)
  BY <1>5, <1>8, <1>9, <1>10 DEF IsInjective
<1>12. Range(r) = Range(s) \ {s[1]}
  <2>1. ASSUME NEW i \in 1 .. n - 1 PROVE r[i] \in Range(s) \ {s[1]}
    BY <1>5, <1>7, <1>8, <1>10 DEF Range
  <2>2. ASSUME NEW k \in 1 .. n, s[k] # s[1] PROVE s[k] \in Range(r)
    <3>1. k # 1
      BY <2>2
    <3>2. k - 1 \in 1 .. n - 1 /\ r[k - 1] = s[k]
      BY <1>5, <1>6, <3>1
    <3>3. QED
      BY <1>8, <3>2 DEF Range
  <2>3. QED
    BY <1>8, <2>1, <2>2 DEF Range
<1>13. s[1] \in Range(s)
  BY <1>7, <1>8 DEF Range
<1>14. QED
  BY <1>2, <1>4, <1>11, <1>12, <1>13 DEF r

LEMMA AppendRange ==
    ASSUME NEW S, NEW s \in Seq(S), IsInjective(s),
           NEW e \in S, e \notin Range(s)
    PROVE  /\ Append(s, e) \in Seq(S)
           /\ IsInjective(Append(s, e))
           /\ Range(Append(s, e)) = Range(s) \cup {e}
<1> DEFINE n == Len(s)
           r == Append(s, e)
<1>1. n \in Nat /\ DOMAIN s = 1 .. n
  BY LenProperties
<1>2. r \in Seq(S) /\ Len(r) = n + 1
  BY AppendProperties
<1>3. r[n + 1] = e /\ \A i \in 1 .. n : r[i] = s[i]
  BY <1>1, AppendProperties
<1>4. DOMAIN r = 1 .. n + 1
  BY <1>2, LenProperties
<1>5. \A i \in 1 .. n + 1 : i \in 1 .. n \/ i = n + 1
  BY <1>1
<1>6. n + 1 \in 1 .. n + 1 /\ \A i \in 1 .. n : i \in 1 .. n + 1
  BY <1>1
<1> HIDE DEF n, r
<1>7. \A i \in 1 .. n : s[i] \in Range(s) /\ s[i] # e
  BY <1>1 DEF Range
<1>8. \A i, j \in 1 .. n : s[i] = s[j] => i = j
  BY <1>1 DEF IsInjective
<1>9. IsInjective(r)
  <2>1. ASSUME NEW i \in 1 .. n + 1, NEW j \in 1 .. n + 1, r[i] = r[j]
        PROVE  i = j
    BY <1>3, <1>5, <1>7, <1>8, <2>1
  <2>2. QED
    BY <1>4, <2>1 DEF IsInjective
<1>10. Range(r) = Range(s) \cup {e}
  BY <1>1, <1>3, <1>4, <1>5, <1>6 DEF Range
<1>11. QED
  BY <1>2, <1>9, <1>10 DEF r

------------------------------------------------------------------------------
(* The levels and the index, as values b and o of book and orders.         *)

BookOK(b) ==
    /\ DOMAIN b = Side
    /\ \A side \in Side : IsMap(b[side], Price, Seq(OrderId))

QueueOf(b, side, p) == IF p \in DOMAIN b[side] THEN b[side][p] ELSE <<>>

\* The ids the index files under a side and price.
Filed(o, side, p) == {id \in DOMAIN o : o[id].side = side /\ o[id].price = p}

\* BookIndexAgree said queue by queue.
Agree(b, o) ==
    \A side \in Side, p \in Price :
        /\ IsInjective(QueueOf(b, side, p))
        /\ Range(QueueOf(b, side, p)) = Filed(o, side, p)

\* c is b with other levels on one side.
OneSide(b, c, side, levels) ==
    /\ DOMAIN c = Side
    /\ c[side] = levels
    /\ \A s \in Side : s # side => c[s] = b[s]

LEMMA ExceptIsOneSide ==
    ASSUME NEW b, BookOK(b), NEW side \in Side, NEW levels
    PROVE  OneSide(b, [b EXCEPT ![side] = levels], side, levels)
BY DEF OneSide, BookOK

\* c is b with another queue at one side and price.
OneQueue(b, c, side, p, q) ==
    \A s \in Side, r \in Price :
        QueueOf(c, s, r) = IF s = side /\ r = p THEN q ELSE QueueOf(b, s, r)

LEMMA QueueOfPut ==
    ASSUME NEW b, BookOK(b), NEW side \in Side, NEW p \in Price,
           NEW q \in Seq(OrderId), NEW c,
           OneSide(b, c, side, Put(b[side], p, q))
    PROVE  BookOK(c) /\ OneQueue(b, c, side, p, q)
<1>1. /\ DOMAIN c = Side
      /\ c[side] = Put(b[side], p, q)
      /\ \A s \in Side \ {side} : c[s] = b[s]
  BY DEF OneSide
<1>2. IsMap(b[side], Price, Seq(OrderId))
  BY DEF BookOK
<1>3. IsMap(c[side], Price, Seq(OrderId))
  BY <1>1, <1>2, PutIsMap
<1>4. BookOK(c)
  BY <1>1, <1>3 DEF BookOK
<1>5. QED
  BY <1>1, <1>4 DEF OneQueue, QueueOf, Put

LEMMA QueueOfWithout ==
    ASSUME NEW b, BookOK(b), NEW side \in Side, NEW p \in Price,
           NEW c, OneSide(b, c, side, Without(b[side], p))
    PROVE  BookOK(c) /\ OneQueue(b, c, side, p, <<>>)
<1>1. /\ DOMAIN c = Side
      /\ c[side] = Without(b[side], p)
      /\ \A s \in Side \ {side} : c[s] = b[s]
  BY DEF OneSide
<1>2. IsMap(b[side], Price, Seq(OrderId))
  BY DEF BookOK
<1>3. IsMap(c[side], Price, Seq(OrderId))
  BY <1>1, <1>2, WithoutIsMap
<1>4. BookOK(c)
  BY <1>1, <1>3 DEF BookOK
<1>5. QED
  BY <1>1, <1>4 DEF OneQueue, QueueOf, Without, Restrict

LEMMA QueueOfSet ==
    ASSUME NEW b, BookOK(b), NEW side \in Side, NEW p \in Price,
           NEW q \in Seq(OrderId), NEW c,
           OneSide(b, c, side, SetQueue(b[side], p, q))
    PROVE  BookOK(c) /\ OneQueue(b, c, side, p, q)
<1>1. CASE q = <<>>
  <2>1. OneSide(b, c, side, Without(b[side], p))
    BY <1>1 DEF SetQueue
  <2>2. QED
    BY <1>1, <2>1, QueueOfWithout
<1>2. CASE q # <<>>
  <2>1. OneSide(b, c, side, Put(b[side], p, q))
    BY <1>2 DEF SetQueue
  <2>2. QED
    BY <2>1, QueueOfPut
<1>3. QED
  BY <1>1, <1>2

LEMMA QueueOfExcept ==
    ASSUME NEW b, BookOK(b), NEW side \in Side, NEW p \in DOMAIN b[side],
           NEW q \in Seq(OrderId), NEW c,
           OneSide(b, c, side, [b[side] EXCEPT ![p] = q])
    PROVE  BookOK(c) /\ OneQueue(b, c, side, p, q)
<1>1. /\ DOMAIN c = Side
      /\ c[side] = [b[side] EXCEPT ![p] = q]
      /\ \A s \in Side \ {side} : c[s] = b[s]
  BY DEF OneSide
<1>2. IsMap(b[side], Price, Seq(OrderId))
  BY DEF BookOK
<1>3. IsMap(c[side], Price, Seq(OrderId))
  BY <1>1, <1>2 DEF IsMap
<1>4. BookOK(c)
  BY <1>1, <1>3 DEF BookOK
<1>5. QED
  BY <1>1, <1>2, <1>4 DEF OneQueue, QueueOf, IsMap

LEMMA QueueOfIsSeq ==
    ASSUME NEW b, BookOK(b), NEW side \in Side, NEW p \in Price
    PROVE  QueueOf(b, side, p) \in Seq(OrderId)
<1>1. <<>> \in Seq(OrderId)
  BY EmptySeq
<1>2. IsMap(b[side], Price, Seq(OrderId))
  BY DEF BookOK
<1>3. QED
  BY <1>1, <1>2 DEF QueueOf, IsMap

\* An order enters: AddOrder, from the push_back to orders_[id] = ...
LEMMA EnterAgrees ==
    ASSUME NEW b, BookOK(b), NEW o, IsMap(o, OrderId, Order), Agree(b, o),
           NEW id \in OrderId, id \notin DOMAIN o, NEW new \in Order,
           NEW c, OneSide(b, c, new.side,
                     Put(b[new.side], new.price,
                         Append(QueueOf(b, new.side, new.price), id)))
    PROVE  BookOK(c) /\ Agree(c, Put(o, id, new))
<1> DEFINE side == new.side
           p == new.price
           q == QueueOf(b, side, p)
           e == Put(o, id, new)
<1>1. side \in Side /\ p \in Price
  BY DEF Order
<1>2. q \in Seq(OrderId) /\ IsInjective(q) /\ Range(q) = Filed(o, side, p)
  BY <1>1, QueueOfIsSeq DEF Agree
<1>3. id \notin Range(q)
  BY <1>2 DEF Filed
<1>4. /\ Append(q, id) \in Seq(OrderId)
      /\ IsInjective(Append(q, id))
      /\ Range(Append(q, id)) = Filed(o, side, p) \cup {id}
  BY <1>2, <1>3, AppendRange
<1>5. BookOK(c) /\ OneQueue(b, c, side, p, Append(q, id))
  BY <1>1, <1>4, QueueOfPut
<1>6. /\ DOMAIN e = DOMAIN o \cup {id}
      /\ e[id] = new
      /\ \A i \in DOMAIN o : e[i] = o[i]
  BY DEF Put
<1>7. \A s \in Side, r \in Price : Filed(e, s, r) =
            IF s = side /\ r = p THEN Filed(o, s, r) \cup {id} ELSE Filed(o, s, r)
  <2> HIDE DEF e
  <2>1. QED
    BY <1>6 DEF Filed
<1> HIDE DEF side, p, q, e
<1>8. Agree(c, e)
  BY <1>4, <1>5, <1>7 DEF Agree, OneQueue
<1>9. QED
  BY <1>5, <1>8 DEF e

\* An order leaves: the queue of its side and price becomes one without it.
LEMMA LeaveAgrees ==
    ASSUME NEW b, NEW o, IsMap(o, OrderId, Order), Agree(b, o),
           NEW id \in DOMAIN o, NEW q, IsInjective(q),
           Range(q) = Range(QueueOf(b, o[id].side, o[id].price)) \ {id},
           NEW c, OneQueue(b, c, o[id].side, o[id].price, q)
    PROVE  Agree(c, Without(o, id))
<1> DEFINE side == o[id].side
           p == o[id].price
           e == Without(o, id)
<1>1. side \in Side /\ p \in Price
  BY DEF IsMap, Order
<1>2. /\ DOMAIN e = DOMAIN o \ {id}
      /\ \A i \in DOMAIN e : e[i] = o[i]
  BY DEF Without, Restrict
<1>3. \A s \in Side, r \in Price : Filed(e, s, r) =
            IF s = side /\ r = p THEN Filed(o, s, r) \ {id} ELSE Filed(o, s, r)
  <2> HIDE DEF e
  <2>1. QED
    BY <1>2 DEF Filed
<1>4. Range(q) = Filed(o, side, p) \ {id}
  BY <1>1 DEF Agree
<1> HIDE DEF e
<1>5. Agree(c, e)
  BY <1>3, <1>4 DEF Agree, OneQueue
<1>6. QED
  BY <1>5 DEF e

\* An order changes and keeps its side and price.
LEMMA ChangeAgrees ==
    ASSUME NEW b, NEW o, Agree(b, o), NEW id \in DOMAIN o,
           NEW new, new.side = o[id].side, new.price = o[id].price
    PROVE  Agree(b, Put(o, id, new))
<1> DEFINE e == Put(o, id, new)
<1>1. /\ DOMAIN e = DOMAIN o
      /\ e[id] = new
      /\ \A i \in DOMAIN o \ {id} : e[i] = o[i]
  BY DEF Put
<1> HIDE DEF e
<1>2. \A s \in Side, r \in Price : Filed(e, s, r) = Filed(o, s, r)
  BY <1>1 DEF Filed
<1>3. Agree(b, e)
  BY <1>2 DEF Agree
<1>4. QED
  BY <1>3 DEF e

\* The front of a queue is an order of that side and price.
LEMMA FrontIsFiled ==
    ASSUME NEW b, BookOK(b), NEW o, Agree(b, o), NEW side \in Side,
           NEW p \in DOMAIN b[side], b[side][p] # <<>>
    PROVE  /\ p \in Price
           /\ b[side][p] \in Seq(OrderId)
           /\ QueueOf(b, side, p) = b[side][p]
           /\ Head(b[side][p]) \in DOMAIN o
           /\ o[Head(b[side][p])].side = side
           /\ o[Head(b[side][p])].price = p
<1>1. p \in Price /\ b[side][p] \in Seq(OrderId)
  <2>1. IsMap(b[side], Price, Seq(OrderId))
    BY DEF BookOK
  <2>2. QED
    BY <2>1 DEF IsMap
<1>2. QueueOf(b, side, p) = b[side][p]
  BY DEF QueueOf
<1>3. IsInjective(b[side][p]) /\ Range(b[side][p]) = Filed(o, side, p)
  BY <1>1, <1>2 DEF Agree
<1>4. Head(b[side][p]) \in Range(b[side][p])
  BY <1>1, <1>3, TailRange
<1>5. QED
  BY <1>1, <1>2, <1>3, <1>4 DEF Filed

LEMMA FillIsOrder ==
    ASSUME NEW order \in Order, NEW quantity \in Quantity,
           quantity <= order.remaining
    PROVE  /\ Fill(order, quantity) \in Order
           /\ Fill(order, quantity).side = order.side
           /\ Fill(order, quantity).price = order.price
<1>1. order.remaining - quantity \in Quantity
  BY QModAssumption DEF Order, Quantity
<1>2. QED
  BY <1>1 DEF Fill, Order

\* One side of the body of the matching loop.
LEMMA FillSideAgrees ==
    ASSUME NEW b, BookOK(b), NEW o, IsMap(o, OrderId, Order), Agree(b, o),
           NEW side \in Side, NEW p \in DOMAIN b[side], b[side][p] # <<>>,
           NEW id, id = Head(b[side][p]),
           NEW new \in Order, new.side = o[id].side, new.price = o[id].price,
           NEW q, q = (IF IsFilled(new) THEN Tail(b[side][p]) ELSE b[side][p]),
           NEW c, OneSide(b, c, side, [b[side] EXCEPT ![p] = q])
    PROVE  /\ BookOK(c)
           /\ IsMap(Settle(o, id, new), OrderId, Order)
           /\ Agree(c, Settle(o, id, new))
<1>1. /\ p \in Price
      /\ b[side][p] \in Seq(OrderId)
      /\ QueueOf(b, side, p) = b[side][p]
      /\ id \in DOMAIN o
      /\ o[id].side = side
      /\ o[id].price = p
  BY FrontIsFiled
<1>2. IsInjective(b[side][p])
  BY <1>1 DEF Agree
<1>3. /\ Tail(b[side][p]) \in Seq(OrderId)
      /\ IsInjective(Tail(b[side][p]))
      /\ Range(Tail(b[side][p])) = Range(b[side][p]) \ {id}
  BY <1>1, <1>2, TailRange
<1>4. q \in Seq(OrderId)
  BY <1>1, <1>3
<1>5. BookOK(c) /\ OneQueue(b, c, side, p, q)
  BY <1>1, <1>4, QueueOfExcept
<1>6. id \in OrderId
  BY <1>1 DEF IsMap
<1>7. CASE IsFilled(new)
  <2>1. q = Tail(b[side][p]) /\ Settle(o, id, new) = Without(o, id)
    BY <1>7 DEF Settle
  <2>2. IsInjective(q) /\ Range(q) = Range(QueueOf(b, o[id].side, o[id].price)) \ {id}
    BY <1>1, <1>3, <2>1
  <2>3. OneQueue(b, c, o[id].side, o[id].price, q)
    BY <1>1, <1>5
  <2>4. Agree(c, Without(o, id))
    BY <1>1, <2>2, <2>3, LeaveAgrees
  <2>5. QED
    BY <1>5, <2>1, <2>4, WithoutIsMap
<1>8. CASE ~IsFilled(new)
  <2>1. q = b[side][p] /\ Settle(o, id, new) = Put(o, id, new)
    BY <1>8 DEF Settle
  <2>2. \A s \in Side, r \in Price : QueueOf(c, s, r) = QueueOf(b, s, r)
    BY <1>1, <1>5, <2>1 DEF OneQueue
  <2>3. Agree(b, Put(o, id, new))
    BY <1>1, ChangeAgrees
  <2>4. Agree(c, Put(o, id, new))
    BY <2>2, <2>3 DEF Agree
  <2>5. QED
    BY <1>5, <1>6, <2>1, <2>4, PutIsMap
<1>9. QED
  BY <1>7, <1>8

------------------------------------------------------------------------------
(* The inductive invariant.                                                *)

\* The mutex belongs to the thread whose AddOrder is not over, and a thread
\* in ModifyOrder knows the order it will add.
LockHeld ==
    /\ \A t \in Thread : pc[t] \in {"matching", "relocking"} <=> mutex = t
    /\ \A t \in Thread : pc[t] \in {"cancelOriginal", "addModified"} =>
            request[t] \in [id : OrderId, order : Order]

BookInv(b, o, d) ==
    /\ BookOK(b)
    /\ IsMap(o, OrderId, Order)
    /\ IsMap(d, Price, LevelTotals)
    /\ Agree(b, o)

\* TypeOK, without what BookInv says.
LocalTypeOK ==
    /\ mutex \in Thread \cup {NoThread}
    /\ pc \in [Thread -> {"idle", "matching", "relocking",
                          "cancelOriginal", "addModified"}]
    /\ request \in [Thread -> [id : OrderId, order : Order] \cup {NoCall}]
    /\ adding \in [id : OrderId, type : OrderType] \cup {NoCall}
    /\ trades \in Seq(Trade)

IInv ==
    /\ BookInv(book, orders, data)
    /\ LocalTypeOK
    /\ LockHeld
    /\ UncrossedAtRest

LEMMA IInvImpliesTypeOK == IInv => TypeOK
BY DEF IInv, BookInv, LocalTypeOK, TypeOK, BookOK

LEMMA BookInvImpliesAgree == BookInv(book, orders, data) => BookIndexAgree
<1> SUFFICES ASSUME BookInv(book, orders, data) PROVE BookIndexAgree
  OBVIOUS
<1>1. BookOK(book) /\ IsMap(orders, OrderId, Order) /\ Agree(book, orders)
  BY DEF BookInv
<1>2. ASSUME NEW id \in DOMAIN orders
      PROVE  /\ orders[id].price \in Levels(orders[id].side)
             /\ \E i \in DOMAIN book[orders[id].side][orders[id].price] :
                    book[orders[id].side][orders[id].price][i] = id
  <2>1. orders[id].side \in Side /\ orders[id].price \in Price
    BY <1>1 DEF IsMap, Order
  <2>2. id \in Range(QueueOf(book, orders[id].side, orders[id].price))
    BY <1>1, <2>1 DEF Agree, Filed
  <2>3. CASE orders[id].price \in Levels(orders[id].side)
    BY <2>2, <2>3 DEF QueueOf, Range, Levels
  <2>4. CASE orders[id].price \notin Levels(orders[id].side)
    <3>1. QueueOf(book, orders[id].side, orders[id].price) = <<>>
      BY <2>4 DEF QueueOf, Levels
    <3>2. DOMAIN <<>> = {}
      OBVIOUS
    <3>3. QED
      BY <2>2, <3>1, <3>2 DEF Range
  <2>5. QED
    BY <2>3, <2>4
<1>3. ASSUME NEW side \in Side, NEW p \in Levels(side)
      PROVE  /\ IsInjective(book[side][p])
             /\ \A i \in DOMAIN book[side][p] :
                    /\ book[side][p][i] \in DOMAIN orders
                    /\ orders[book[side][p][i]].side = side
                    /\ orders[book[side][p][i]].price = p
  <2>1. p \in Price
    BY <1>1 DEF BookOK, IsMap, Levels
  <2>2. QueueOf(book, side, p) = book[side][p]
    BY DEF QueueOf, Levels
  <2>3. /\ IsInjective(book[side][p])
        /\ Range(book[side][p]) = Filed(orders, side, p)
    BY <1>1, <2>1, <2>2 DEF Agree
  <2>4. QED
    BY <2>3 DEF Range, Filed
<1>4. QED
  BY <1>2, <1>3 DEF BookIndexAgree

LEMMA InitIInv == Init => IInv
<1> SUFFICES ASSUME Init PROVE IInv
  OBVIOUS
<1>1. /\ DOMAIN book = Side
      /\ \A side \in Side : book[side] = <<>>
      /\ orders = <<>> /\ data = <<>>
  BY DEF Init
<1>2. DOMAIN <<>> = {}
  OBVIOUS
<1>3. BookOK(book)
  BY <1>1, EmptyIsMap DEF BookOK
<1>4. IsMap(orders, OrderId, Order) /\ IsMap(data, Price, LevelTotals)
  BY <1>1, EmptyIsMap
<1>5. Agree(book, orders)
  BY <1>1, <1>2 DEF Agree, QueueOf, Filed, IsInjective, Range
<1>6. LocalTypeOK
  BY DEF Init, LocalTypeOK
<1>7. LockHeld
  BY ThreadAssumption DEF Init, LockHeld
<1>8. UncrossedAtRest
  <2>1. Levels("Buy") = {}
    BY <1>1, <1>2 DEF Levels, Side
  <2>2. QED
    BY <2>1 DEF UncrossedAtRest
<1>9. QED
  BY <1>3, <1>4, <1>5, <1>6, <1>7, <1>8 DEF IInv, BookInv

------------------------------------------------------------------------------
(* Each operation keeps the levels, the index and the totals well formed.  *)

LEMMA OppositeIsSide == \A side \in Side : Opposite(side) \in Side
BY DEF Side, Opposite

\* What AddOrder books is an order with an id of its own.
LEMMA AdmittedIsOrder ==
    ASSUME BookOK(book), NEW id \in OrderId, NEW order \in Order,
           NEW o \in Admitted(id, order)
    PROVE  o \in Order /\ id \notin DOMAIN orders
<1>1. id \notin DOMAIN orders
  BY DEF Admitted
<1>2. CASE order.type = "Market"
  <2>1. PICK p \in Worst(Opposite(order.side)) : o = ToGoodTillCancel(order, p)
    BY <1>2 DEF Admitted
  <2>2. Opposite(order.side) \in Side
    BY OppositeIsSide DEF Order
  <2>3. p \in Price
    BY <2>2 DEF Worst, Levels, BookOK, IsMap
  <2>4. QED
    BY <1>1, <2>1, <2>3 DEF ToGoodTillCancel, Order, OrderType
<1>3. CASE order.type # "Market"
  BY <1>1, <1>3 DEF Admitted
<1>4. QED
  BY <1>2, <1>3

LEMMA InsertBook ==
    ASSUME BookInv(book, orders, data), NEW t, NEW id \in OrderId,
           id \notin DOMAIN orders, NEW order \in Order, NEW type,
           Insert(t, id, order, type)
    PROVE  BookInv(book, orders, data)'
<1>1. order.side \in Side /\ order.price \in Price /\ order.initial \in Quantity
  BY DEF Order
<1>2. /\ BookOK(book) /\ IsMap(orders, OrderId, Order)
      /\ IsMap(data, Price, LevelTotals) /\ Agree(book, orders)
  BY DEF BookInv
<1>3. /\ book' = [book EXCEPT ![order.side] =
                    Put(@, order.price, Enqueue(order.side, order.price, id))]
      /\ orders' = Put(orders, id, order)
      /\ data' = UpdateLevelData(data, order.price, order.initial, "Add")
  BY DEF Insert
<1>4. Enqueue(order.side, order.price, id) =
            Append(QueueOf(book, order.side, order.price), id)
  BY DEF Enqueue, Queue, QueueOf, Levels
<1>5. OneSide(book, book', order.side,
              Put(book[order.side], order.price,
                  Append(QueueOf(book, order.side, order.price), id)))
  BY <1>1, <1>2, <1>3, <1>4 DEF OneSide, BookOK
<1>6. BookOK(book') /\ Agree(book', orders')
  BY <1>2, <1>3, <1>5, EnterAgrees
<1>7. IsMap(orders', OrderId, Order)
  BY <1>2, <1>3, PutIsMap
<1>8. IsMap(data', Price, LevelTotals)
  BY <1>1, <1>2, <1>3, UpdateLevelDataIsMap DEF Action
<1>9. QED
  BY <1>6, <1>7, <1>8 DEF BookInv

LEMMA CancelBook ==
    ASSUME BookInv(book, orders, data), NEW id \in DOMAIN orders,
           CancelOrderInternal(id)
    PROVE  /\ BookInv(book, orders, data)'
           /\ \A side \in Side : DOMAIN book'[side] \subseteq DOMAIN book[side]
<1> DEFINE o == orders[id]
           queue == book[o.side][o.price]
           i == Location(queue, id)
           q == RemoveAt(queue, i)
<1>1. /\ BookOK(book) /\ IsMap(orders, OrderId, Order)
      /\ IsMap(data, Price, LevelTotals) /\ Agree(book, orders)
  BY DEF BookInv
<1>2. o \in Order
  BY <1>1 DEF IsMap
<1>3. o.side \in Side /\ o.price \in Price /\ o.remaining \in Quantity
  BY <1>2 DEF Order
<1>4. id \in Range(QueueOf(book, o.side, o.price))
  BY <1>1, <1>3 DEF Agree, Filed
<1>5. o.price \in DOMAIN book[o.side] /\ QueueOf(book, o.side, o.price) = queue
  <2>1. DOMAIN <<>> = {}
    OBVIOUS
  <2>2. Range(<<>>) = {}
    BY <2>1 DEF Range
  <2>3. QED
    BY <1>4, <2>2 DEF QueueOf
<1>6. queue \in Seq(OrderId)
  BY <1>1, <1>3, <1>5, QueueOfIsSeq
<1>7. IsInjective(queue)
  BY <1>1, <1>3, <1>5 DEF Agree
<1>8. i \in DOMAIN queue /\ queue[i] = id
  BY <1>4, <1>5 DEF Location, Range
<1>9. i \in 1 .. Len(queue)
  BY <1>6, <1>8, LenProperties
<1> HIDE DEF i
<1>10. /\ q \in Seq(OrderId)
       /\ IsInjective(q)
       /\ Range(q) = Range(queue) \ {id}
  BY <1>6, <1>7, <1>8, <1>9, RemoveAtProperties, RemoveAtRange
<1>11. /\ book' = [book EXCEPT ![o.side] = SetQueue(@, o.price, q)]
       /\ orders' = Without(orders, id)
       /\ data' = UpdateLevelData(data, o.price, o.remaining, "Remove")
  BY DEF CancelOrderInternal, i
<1> HIDE DEF o, queue, q
<1>12. OneSide(book, book', o.side, SetQueue(book[o.side], o.price, q))
  BY <1>1, <1>3, <1>11 DEF OneSide, BookOK
<1>13. BookOK(book') /\ OneQueue(book, book', o.side, o.price, q)
  BY <1>1, <1>3, <1>10, <1>12, QueueOfSet
<1>14. Agree(book', orders')
  <2>1. IsInjective(q) /\ Range(q) = Range(QueueOf(book, o.side, o.price)) \ {id}
    BY <1>5, <1>10
  <2>2. QED
    BY <1>1, <1>11, <1>13, <2>1, LeaveAgrees DEF o
<1>15. IsMap(orders', OrderId, Order)
  BY <1>1, <1>11, WithoutIsMap
<1>16. IsMap(data', Price, LevelTotals)
  BY <1>1, <1>3, <1>11, UpdateLevelDataIsMap DEF Action
<1>17. ASSUME NEW side \in Side PROVE DOMAIN book'[side] \subseteq DOMAIN book[side]
  BY <1>5, <1>12 DEF OneSide, SetQueue, Put, Without, Restrict
<1>18. QED
  BY <1>13, <1>14, <1>15, <1>16, <1>17 DEF BookInv

LEMMA DropBook ==
    ASSUME BookInv(book, orders, data), NEW t, DropEmptyLevels(t)
    PROVE  BookInv(book, orders, data)'
<1>1. /\ BookOK(book) /\ IsMap(orders, OrderId, Order)
      /\ IsMap(data, Price, LevelTotals) /\ Agree(book, orders)
  BY DEF BookInv
<1>2. /\ book' = [side \in Side |->
                    Restrict(book[side], Levels(side) \ Emptied(side))]
      /\ orders' = orders
      /\ \E D : D \subseteq DOMAIN data /\ data' = Restrict(data, D)
  BY DEF DropEmptyLevels
<1>3. DOMAIN book' = Side
  BY <1>2
<1>4. ASSUME NEW side \in Side
      PROVE  /\ IsMap(book'[side], Price, Seq(OrderId))
             /\ \A p \in Price : QueueOf(book', side, p) = QueueOf(book, side, p)
  <2>1. book'[side] = Restrict(book[side], Levels(side) \ Emptied(side))
    BY <1>2
  <2>2. IsMap(book[side], Price, Seq(OrderId))
    BY <1>1 DEF BookOK
  <2>3. IsMap(book'[side], Price, Seq(OrderId))
    BY <2>1, <2>2, RestrictIsMap DEF Levels
  <2>4. \A p \in Emptied(side) : book[side][p] = <<>>
    BY DEF Emptied
  <2>5. \A p \in Price : QueueOf(book', side, p) = QueueOf(book, side, p)
    BY <2>1, <2>4 DEF QueueOf, Restrict, Levels
  <2>6. QED
    BY <2>3, <2>5
<1>5. BookOK(book') /\ Agree(book', orders')
  BY <1>1, <1>2, <1>3, <1>4 DEF BookOK, Agree
<1>6. IsMap(data', Price, LevelTotals)
  BY <1>1, <1>2, RestrictIsMap
<1>7. QED
  BY <1>1, <1>2, <1>5, <1>6 DEF BookInv

LEMMA FillBook ==
    ASSUME BookInv(book, orders, data), trades \in Seq(Trade),
           NEW bp \in Levels("Buy"), NEW ap \in Levels("Sell"),
           book["Buy"][bp] # <<>>, book["Sell"][ap] # <<>>,
           FillLevels(bp, ap)
    PROVE  BookInv(book, orders, data)' /\ trades' \in Seq(Trade)
<1> DEFINE bidId == Head(book["Buy"][bp])
           askId == Head(book["Sell"][ap])
           quantity == Smaller(orders[bidId].remaining, orders[askId].remaining)
           bid == Fill(orders[bidId], quantity)
           ask == Fill(orders[askId], quantity)
           bidQueue == IF IsFilled(bid) THEN Tail(book["Buy"][bp]) ELSE book["Buy"][bp]
           askQueue == IF IsFilled(ask) THEN Tail(book["Sell"][ap]) ELSE book["Sell"][ap]
           book1 == [book EXCEPT !["Buy"] = [book["Buy"] EXCEPT ![bp] = bidQueue]]
           orders1 == Settle(orders, bidId, bid)
<1>1. /\ BookOK(book) /\ IsMap(orders, OrderId, Order)
      /\ IsMap(data, Price, LevelTotals) /\ Agree(book, orders)
  BY DEF BookInv
<1>2. "Buy" \in Side /\ "Sell" \in Side /\ "Buy" # "Sell"
  BY DEF Side
<1>3. bp \in DOMAIN book["Buy"] /\ ap \in DOMAIN book["Sell"]
  BY DEF Levels
<1>4. /\ bp \in Price /\ bidId \in DOMAIN orders
      /\ orders[bidId].side = "Buy" /\ orders[bidId].price = bp
  BY <1>1, <1>2, <1>3, FrontIsFiled
<1>5. /\ ap \in Price /\ askId \in DOMAIN orders
      /\ orders[askId].side = "Sell" /\ orders[askId].price = ap
  BY <1>1, <1>2, <1>3, FrontIsFiled
<1>6. bidId # askId
  BY <1>2, <1>4, <1>5
<1>7. /\ orders[bidId] \in Order /\ orders[askId] \in Order
      /\ bidId \in OrderId /\ askId \in OrderId
  BY <1>1, <1>4, <1>5 DEF IsMap
<1>8. /\ quantity \in Quantity
      /\ quantity <= orders[bidId].remaining
      /\ quantity <= orders[askId].remaining
  <2>1. /\ orders[bidId].remaining \in Quantity
        /\ orders[askId].remaining \in Quantity
    BY <1>7 DEF Order
  <2> HIDE DEF bidId, askId
  <2>2. QED
    BY <2>1, QModAssumption DEF Smaller, Quantity
<1>9. /\ bid \in Order /\ bid.side = "Buy" /\ bid.price = bp
      /\ ask \in Order /\ ask.side = "Sell" /\ ask.price = ap
  <2> HIDE DEF quantity
  <2>1. QED
    BY <1>4, <1>5, <1>7, <1>8, FillIsOrder
<1>10. /\ book' = [book EXCEPT
              !["Buy"][bp] = IF IsFilled(bid) THEN Tail(@) ELSE @,
              !["Sell"][ap] = IF IsFilled(ask) THEN Tail(@) ELSE @]
       /\ orders' = Settle(orders1, askId, ask)
       /\ trades' = Append(trades,
              [bid |-> [id |-> bidId, price |-> bid.price, quantity |-> quantity],
               ask |-> [id |-> askId, price |-> ask.price, quantity |-> quantity]])
       /\ data' = UpdateLevelData(
                      UpdateLevelData(data, bid.price, quantity, LevelAction(bid)),
                      ask.price, quantity, LevelAction(ask))
  BY DEF FillLevels
<1>11. book' = [book1 EXCEPT !["Sell"] = [book["Sell"] EXCEPT ![ap] = askQueue]]
  BY <1>1, <1>2, <1>10 DEF BookOK
<1> HIDE DEF bid, ask, quantity
<1>12. OneSide(book, book1, "Buy", [book["Buy"] EXCEPT ![bp] = bidQueue])
  BY <1>1, <1>2, ExceptIsOneSide
<1>13. /\ BookOK(book1)
       /\ IsMap(orders1, OrderId, Order)
       /\ Agree(book1, orders1)
  <2>1. bid.side = orders[bidId].side /\ bid.price = orders[bidId].price
    BY <1>4, <1>9
  <2> HIDE DEF book1
  <2>2. QED
    BY <1>1, <1>2, <1>3, <1>9, <1>12, <2>1, FillSideAgrees
<1>14. book1["Sell"] = book["Sell"]
  BY <1>2, <1>12 DEF OneSide
<1>15. orders1[askId] = orders[askId]
  BY <1>5, <1>6 DEF Settle, Put, Without, Restrict
<1>16. OneSide(book1, book', "Sell", [book1["Sell"] EXCEPT ![ap] = askQueue])
  <2> HIDE DEF book1
  <2>1. QED
    BY <1>2, <1>11, <1>13, <1>14, ExceptIsOneSide
<1>17. /\ BookOK(book')
       /\ IsMap(orders', OrderId, Order)
       /\ Agree(book', orders')
  <2>1. ask.side = orders1[askId].side /\ ask.price = orders1[askId].price
    BY <1>5, <1>9, <1>15
  <2>2. ap \in DOMAIN book1["Sell"] /\ book1["Sell"][ap] # <<>>
    BY <1>3, <1>14
  <2>3. askId = Head(book1["Sell"][ap])
    BY <1>14
  <2>4. askQueue = IF IsFilled(ask) THEN Tail(book1["Sell"][ap]) ELSE book1["Sell"][ap]
    BY <1>14
  <2>5. orders' = Settle(orders1, askId, ask)
    BY <1>10
  <2> HIDE DEF book1, orders1, askId, askQueue
  <2>6. /\ BookOK(book')
        /\ IsMap(Settle(orders1, askId, ask), OrderId, Order)
        /\ Agree(book', Settle(orders1, askId, ask))
    <3> DEFINE after == book'
    <3>1. OneSide(book1, after, "Sell", [book1["Sell"] EXCEPT ![ap] = askQueue])
      BY <1>16
    <3>2. "Sell" \in Side /\ ask \in Order
      BY <1>2, <1>9
    <3> HIDE DEF after
    <3>3. /\ BookOK(after)
          /\ IsMap(Settle(orders1, askId, ask), OrderId, Order)
          /\ Agree(after, Settle(orders1, askId, ask))
      BY <1>13, <2>1, <2>2, <2>3, <2>4, <3>1, <3>2, FillSideAgrees, SMTT(60)
    <3>4. QED
      BY <3>3 DEF after
  <2>7. QED
    BY <2>5, <2>6
<1>18. IsMap(data', Price, LevelTotals)
  <2>1. LevelAction(bid) \in Action /\ LevelAction(ask) \in Action
    BY DEF LevelAction, Action
  <2>2. IsMap(UpdateLevelData(data, bid.price, quantity, LevelAction(bid)),
              Price, LevelTotals)
    BY <1>1, <1>4, <1>8, <1>9, <2>1, UpdateLevelDataIsMap
  <2>3. QED
    BY <1>5, <1>8, <1>9, <1>10, <2>1, <2>2, UpdateLevelDataIsMap
<1>19. trades' \in Seq(Trade)
  <2>1. [bid |-> [id |-> bidId, price |-> bid.price, quantity |-> quantity],
         ask |-> [id |-> askId, price |-> ask.price, quantity |-> quantity]] \in Trade
    <3> HIDE DEF bidId, askId
    <3>1. QED
      BY <1>4, <1>5, <1>7, <1>8, <1>9 DEF Trade, TradeInfo
  <2>2. QED
    BY <1>10, <2>1, AppendProperties
<1>20. QED
  BY <1>17, <1>18, <1>19 DEF BookInv

------------------------------------------------------------------------------
(* Every step keeps the inductive invariant: one step of the proof for     *)
(* each action.                                                            *)

\* Nobody is in AddOrder when the mutex is free.
LEMMA FreeMutex ==
    ASSUME LockHeld, mutex = NoThread
    PROVE  \A t \in Thread : pc[t] \notin {"matching", "relocking"}
BY ThreadAssumption DEF LockHeld

\* The part of a step that books an admitted order and takes the mutex.
LEMMA InsertIInv ==
    ASSUME IInv, mutex = NoThread, NEW t \in Thread,
           NEW id \in OrderId, NEW order \in Order,
           NEW o \in Admitted(id, order), Insert(t, id, o, order.type),
           \/ UNCHANGED request
           \/ request' = [request EXCEPT ![t] = NoCall]
    PROVE  IInv'
<1>1. BookInv(book, orders, data) /\ BookOK(book) /\ LocalTypeOK /\ LockHeld
  BY DEF IInv, BookInv
<1>2. o \in Order /\ id \notin DOMAIN orders
  BY <1>1, AdmittedIsOrder
<1>3. BookInv(book, orders, data)'
  BY <1>1, <1>2, InsertBook
<1>4. /\ mutex' = t
      /\ pc' = [pc EXCEPT ![t] = "matching"]
      /\ adding' = [id |-> id, type |-> order.type]
      /\ trades' = <<>>
  BY DEF Insert
<1>5. order.type \in OrderType
  BY DEF Order
<1>6. LocalTypeOK'
  BY <1>1, <1>4, <1>5, EmptySeq DEF LocalTypeOK
<1>7. LockHeld'
  BY <1>1, <1>4, FreeMutex DEF LockHeld, LocalTypeOK
<1>8. UncrossedAtRest'
  BY <1>4, ThreadAssumption DEF UncrossedAtRest
<1>9. QED
  BY <1>3, <1>6, <1>7, <1>8 DEF IInv

\* The part of a step that cancels an order under the free mutex.
LEMMA CancelIInv ==
    ASSUME IInv, mutex = NoThread, UNCHANGED mutex,
           \/ \E id \in DOMAIN orders : CancelOrderInternal(id)
           \/ UNCHANGED bookVars
    PROVE  BookInv(book, orders, data)' /\ UncrossedAtRest'
<1>1. /\ BookInv(book, orders, data) /\ BookOK(book)
      /\ \A bp \in Levels("Buy"), ap \in Levels("Sell") : bp < ap
  BY DEF IInv, BookInv, UncrossedAtRest
<1>2. /\ BookInv(book, orders, data)'
      /\ \A side \in Side : DOMAIN book'[side] \subseteq DOMAIN book[side]
  <2>1. CASE \E id \in DOMAIN orders : CancelOrderInternal(id)
    BY <1>1, <2>1, CancelBook
  <2>2. CASE UNCHANGED bookVars
    <3>1. book' = book /\ orders' = orders /\ data' = data
      BY <2>2 DEF bookVars
    <3>2. QED
      BY <1>1, <3>1 DEF BookInv
  <2>3. QED
    BY <2>1, <2>2
<1>3. /\ Levels("Buy")' \subseteq Levels("Buy")
      /\ Levels("Sell")' \subseteq Levels("Sell")
  BY <1>2 DEF Levels, Side
<1>4. UncrossedAtRest'
  BY <1>1, <1>3 DEF UncrossedAtRest
<1>5. QED
  BY <1>2, <1>4

LEMMA NextIInv == IInv /\ [Next]_vars => IInv'
<1> SUFFICES ASSUME IInv, [Next]_vars PROVE IInv'
  OBVIOUS
<1> USE DEF IInv
<1>1. /\ BookOK(book) /\ IsMap(orders, OrderId, Order)
      /\ IsMap(data, Price, LevelTotals) /\ Agree(book, orders)
  BY DEF BookInv
<1>2. ASSUME NEW t \in Thread, NEW id \in OrderId, NEW type \in InputType,
             NEW side \in Side, NEW price \in Price, NEW quantity \in InputQty,
             NEW filled \in InputFilled, Submittable(type, quantity, filled),
             AddOrder(t, id, Fill(NewOrder(type, side, price, quantity), filled))
      PROVE  IInv'
  <2>1. Fill(NewOrder(type, side, price, quantity), filled) \in Order
    <3>1. quantity \in Quantity /\ quantity - filled \in Quantity
      BY <1>2, InputAssumption, QModAssumption DEF Submittable, Quantity
    <3>2. QED
      BY <3>1, InputAssumption DEF NewOrder, Fill, Order
  <2>2. QED
    BY <1>2, <2>1, InsertIInv DEF AddOrder
<1>3. ASSUME NEW t \in Thread, NEW id \in OrderId, CancelOrder(t, id)
      PROVE  IInv'
  <2>1. BookInv(book, orders, data)' /\ UncrossedAtRest'
    BY <1>3, CancelIInv DEF CancelOrder
  <2>2. LocalTypeOK' /\ LockHeld'
    BY <1>3 DEF CancelOrder, LocalTypeOK, LockHeld
  <2>3. QED
    BY <2>1, <2>2
<1>4. ASSUME NEW t \in Thread, NEW id \in OrderId, NEW side \in Side,
             NEW price \in Price, NEW quantity \in ModifyQty,
             ModifyOrder(t, id, side, price, quantity)
      PROVE  IInv'
  <2>1. BookInv(book, orders, data)' /\ UncrossedAtRest'
    BY <1>4 DEF ModifyOrder, BookInv, UncrossedAtRest, Levels
  <2> DEFINE asked == [id |-> id,
                       order |-> NewOrder(orders[id].type, side, price, quantity)]
  <2>2. asked \in [id : OrderId, order : Order]
    <3>1. orders[id] \in Order
      BY <1>1, <1>4 DEF ModifyOrder, IsMap
    <3>2. QED
      BY <3>1, InputAssumption DEF NewOrder, Order
  <2>3. /\ mutex = NoThread /\ mutex' = mutex
        /\ request' = [request EXCEPT ![t] = asked]
        /\ pc' = [pc EXCEPT ![t] = "cancelOriginal"]
        /\ adding' = adding /\ trades' = trades
    BY <1>4 DEF ModifyOrder
  <2> HIDE DEF asked
  <2>4. LocalTypeOK'
    BY <2>2, <2>3 DEF LocalTypeOK
  <2>5. LockHeld'
    BY <2>2, <2>3, FreeMutex, ThreadAssumption DEF LockHeld, LocalTypeOK
  <2>6. QED
    BY <2>1, <2>4, <2>5
<1>5. ASSUME NEW t \in Thread, FillFront(t)
      PROVE  IInv'
  <2>1. mutex = t /\ UNCHANGED <<mutex, pc, request, adding>>
    BY <1>5 DEF FillFront, LockHeld
  <2>2. trades \in Seq(Trade)
    BY DEF LocalTypeOK
  <2>3. BookInv(book, orders, data)' /\ trades' \in Seq(Trade)
    BY <1>5, <2>2, FillBook DEF FillFront, Best
  <2>4. LocalTypeOK' /\ LockHeld'
    BY <2>1, <2>3 DEF LocalTypeOK, LockHeld
  <2>5. UncrossedAtRest'
    BY <2>1, ThreadAssumption DEF UncrossedAtRest
  <2>6. QED
    BY <2>3, <2>4, <2>5
<1>6. ASSUME NEW t \in Thread, DropEmptyLevels(t)
      PROVE  IInv'
  <2>1. mutex = t /\ UNCHANGED <<mutex, pc, request, adding, trades>>
    BY <1>6 DEF DropEmptyLevels, LockHeld
  <2>2. BookInv(book, orders, data)'
    BY <1>6, DropBook
  <2>3. LocalTypeOK' /\ LockHeld'
    BY <2>1 DEF LocalTypeOK, LockHeld
  <2>4. UncrossedAtRest'
    BY <2>1, ThreadAssumption DEF UncrossedAtRest
  <2>5. QED
    BY <2>2, <2>3, <2>4
<1>7. ASSUME NEW t \in Thread, Return(t)
      PROVE  IInv'
  <2>1. BookInv(book, orders, data)'
    BY <1>7 DEF Return, BookInv
  <2>2. LocalTypeOK'
    BY <1>7, EmptySeq DEF Return, LocalTypeOK
  <2>3. LockHeld'
    BY <1>7, ThreadAssumption DEF Return, LockHeld, LocalTypeOK
  <2>4. UncrossedAtRest'
    <3>1. Levels("Buy") \subseteq Int /\ Levels("Sell") \subseteq Int
      BY <1>1, PriceAssumption DEF Levels, BookOK, IsMap, Side
    <3>2. \A bp \in Levels("Buy"), ap \in Levels("Sell") : ~(bp >= ap)
      BY <1>7 DEF Return, Crossed
    <3>3. \A bp \in Levels("Buy"), ap \in Levels("Sell") : bp < ap
      BY <3>1, <3>2
    <3>4. book' = book
      BY <1>7 DEF Return
    <3>5. QED
      BY <3>3, <3>4 DEF UncrossedAtRest, Levels
  <2>5. QED
    BY <2>1, <2>2, <2>3, <2>4
<1>8. ASSUME NEW t \in Thread, KillRemainder(t)
      PROVE  IInv'
  <2>1. mutex = t
    BY <1>8 DEF KillRemainder, LockHeld
  <2>2. BookInv(book, orders, data)' /\ LocalTypeOK'
    BY <1>8 DEF KillRemainder, BookInv, LocalTypeOK
  <2>3. LockHeld'
    BY <1>8, <2>1 DEF KillRemainder, LockHeld, LocalTypeOK
  <2>4. UncrossedAtRest'
    BY <1>8, <2>1, ThreadAssumption DEF KillRemainder, UncrossedAtRest
  <2>5. QED
    BY <2>2, <2>3, <2>4
<1>9. ASSUME NEW t \in Thread, CancelOriginal(t)
      PROVE  IInv'
  <2>1. BookInv(book, orders, data)' /\ UncrossedAtRest'
    BY <1>9, CancelIInv DEF CancelOriginal
  <2>2. /\ mutex = NoThread /\ UNCHANGED <<mutex, request, adding, trades>>
        /\ pc[t] = "cancelOriginal" /\ pc' = [pc EXCEPT ![t] = "addModified"]
    BY <1>9 DEF CancelOriginal
  <2>3. LocalTypeOK' /\ LockHeld'
    BY <2>2, FreeMutex, ThreadAssumption DEF LocalTypeOK, LockHeld
  <2>4. QED
    BY <2>1, <2>3
<1>10. ASSUME NEW t \in Thread, AddModified(t)
       PROVE  IInv'
  <2>1. /\ pc[t] = "addModified" /\ mutex = NoThread
        /\ request' = [request EXCEPT ![t] = NoCall]
    BY <1>10 DEF AddModified
  <2>2. request[t].id \in OrderId /\ request[t].order \in Order
    BY <2>1 DEF LockHeld
  <2>3. CASE \E o \in Admitted(request[t].id, request[t].order) :
                Insert(t, request[t].id, o, request[t].order.type)
    BY <2>1, <2>2, <2>3, InsertIInv
  <2>4. CASE /\ pc' = [pc EXCEPT ![t] = "idle"]
             /\ UNCHANGED <<book, orders, data, mutex, adding, trades>>
    <3>1. BookInv(book, orders, data)' /\ UncrossedAtRest'
      BY <2>4 DEF BookInv, UncrossedAtRest, Levels
    <3>2. LocalTypeOK'
      BY <2>1, <2>4 DEF LocalTypeOK
    <3>3. LockHeld'
      BY <2>1, <2>4, FreeMutex, ThreadAssumption DEF LockHeld, LocalTypeOK
    <3>4. QED
      BY <3>1, <3>2, <3>3
  <2>5. QED
    BY <1>10, <2>3, <2>4 DEF AddModified
<1>11. CASE UNCHANGED vars
  BY <1>11 DEF vars, BookInv, LocalTypeOK, LockHeld, UncrossedAtRest, Levels
<1>12. QED
  BY <1>2, <1>3, <1>4, <1>5, <1>6, <1>7, <1>8, <1>9, <1>10, <1>11
  DEF Next, Client, Matching, Modifying

------------------------------------------------------------------------------
(* The theorems.                                                           *)

LEMMA SpecIInv == Spec => []IInv
<1>1. QED
  BY InitIInv, NextIInv, PTL DEF Spec

\* Every reachable state of the engine, with any number of threads, ids,
\* prices and quantities, is of the right type: in particular the totals of
\* data_ stay in range because they wrap, and MatchOrders never fills more
\* than what remains.
THEOREM TypeCorrect == Spec => []TypeOK
<1>1. QED
  BY SpecIInv, IInvImpliesTypeOK, PTL

\* orders_ and the level lists never disagree, although AddOrder, MatchOrders
\* and CancelOrderInternal each update them by hand.
THEOREM IndexAgrees == Spec => []BookIndexAgree
<1>1. IInv => BookIndexAgree
  BY BookInvImpliesAgree DEF IInv
<1>2. QED
  BY <1>1, SpecIInv, PTL

\* No operation that releases the mutex leaves a trade to be made.
THEOREM NeverCrossedAtRest == Spec => []UncrossedAtRest
<1>1. IInv => UncrossedAtRest
  BY DEF IInv
<1>2. QED
  BY <1>1, SpecIInv, PTL

LEMMA StepLockExcludes ==
    ASSUME IInv, [Next]_vars
    PROVE  [\A t \in Thread : mutex = t => Matching(t)]_vars
<1> SUFFICES ASSUME Next, NEW t \in Thread, mutex = t
             PROVE  Matching(t)
  OBVIOUS
<1>1. mutex # NoThread
  BY ThreadAssumption
<1>2. PICK u \in Thread : Client(u) \/ Matching(u) \/ Modifying(u)
  BY DEF Next
<1>3. ~Client(u)
  BY <1>1 DEF Client, AddOrder, CancelOrder, ModifyOrder
<1>4. ~Modifying(u)
  BY <1>1 DEF Modifying, CancelOriginal, AddModified
<1>5. Matching(u)
  BY <1>2, <1>3, <1>4
<1>6. pc[u] = "matching"
  BY <1>5 DEF Matching, FillFront, DropEmptyLevels, Return, KillRemainder
<1>7. u = t
  BY <1>6 DEF IInv, LockHeld
<1>8. QED
  BY <1>5, <1>7

\* Whatever the number of threads, none moves while another is in AddOrder:
\* each critical section that the model takes in one step, and the matching
\* loop that it takes in many, run undisturbed.
THEOREM MutexExcludes == Spec => LockExcludes
<1>1. QED
  BY SpecIInv, StepLockExcludes, PTL DEF Spec, LockExcludes
==============================================================================
