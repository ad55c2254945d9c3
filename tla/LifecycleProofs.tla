---------------------------- MODULE LifecycleProofs ----------------------------
(***************************************************************************)
(* Safety of OrderbookLifecycle, for any number of client threads.  The    *)
(* engine's invariants are those of OrderbookProofs and TakerProofs; they  *)
(* are about a mutex that clients own or that is free, and the pruning     *)
(* thread takes it only from a book at rest.                               *)
(***************************************************************************)
EXTENDS OrderbookLifecycle, TakerProofs

\* AddOrder books a Market order as a GoodTillCancel order.
NoMarket(o) == \A id \in DOMAIN o : o[id].type # "Market"

BookIsFunction == book = [side \in DOMAIN book |-> book[side]]

Pcs == {"idle", "matching", "relocking", "cancelOriginal", "addModified"}

\* What IInv and TakerInv say of the engine while no client owns the mutex.
AtRest ==
    /\ BookInv(book, orders, data)
    /\ pc \in [Thread -> Pcs \ {"matching", "relocking"}]
    /\ request \in [Thread -> [id : OrderId, order : Order] \cup {NoCall}]
    /\ adding \in [id : OrderId, type : OrderType] \cup {NoCall}
    /\ trades \in Seq(Trade)
    /\ \A t \in Thread : pc[t] \in {"cancelOriginal", "addModified"} =>
            request[t] \in [id : OrderId, order : Order]
    /\ \A bp \in Levels("Buy"), ap \in Levels("Sell") : bp < ap
    /\ NoneEmpty
    /\ NoneToKill(orders)
    /\ TakerInEveryTrade

\* The pruning thread does nothing before the constructor starts it.
NotStarted == owner = "constructing" => pruner = "absent"

\* The inductive invariant.
LifeInv ==
    /\ LifeTypeOK
    /\ NotStarted
    /\ mutex = Pruner => AtRest
    /\ mutex # Pruner => IInv /\ TakerInv
    /\ BookIsFunction
    /\ NoMarket(orders)
    /\ due = {}

LEMMA FreeIsAtRest ==
    ASSUME IInv, TakerInv, mutex = NoThread
    PROVE  AtRest
<1>1. \A t \in Thread : pc[t] \notin {"matching", "relocking"}
  BY FreeMutex DEF IInv
<1>2. NoneEmpty
  BY <1>1, NoneEmptyUnlessCrossed DEF TakerInv
<1>3. pc \in [Thread -> Pcs \ {"matching", "relocking"}]
  BY <1>1 DEF IInv, LocalTypeOK, Pcs
<1>4. QED
  BY <1>2, <1>3 DEF AtRest, IInv, LocalTypeOK, LockHeld, UncrossedAtRest, TakerInv

LEMMA AtRestIsFree ==
    ASSUME AtRest', mutex' = NoThread
    PROVE  IInv' /\ TakerInv'
<1>1. LockHeld'
  BY ThreadAssumption DEF AtRest, LockHeld, Pcs
<1>2. LocalTypeOK'
  BY DEF AtRest, LocalTypeOK, Pcs
<1>3. IInv'
  BY <1>1, <1>2 DEF AtRest, IInv, UncrossedAtRest
<1>4. TakerInv'
  BY DEF AtRest, TakerInv, NoneEmpty, EmptyLevels
<1>5. QED
  BY <1>3, <1>4

------------------------------------------------------------------------------
(* The calls of the clients. *)

\* While the pruning thread has the mutex, no client does anything.
LEMMA PrunerExcludes ==
    ASSUME AtRest, mutex = Pruner, Next
    PROVE  FALSE
<1>1. mutex # NoThread /\ \A t \in Thread : pc[t] # "matching"
  BY PrunerAssumption DEF AtRest, Pcs
<1>2. QED
  BY <1>1 DEF Next, Client, AddOrder, CancelOrder, ModifyOrder, Matching, FillFront,
     DropEmptyLevels, Return, KillRemainder, Modifying, CancelOriginal, AddModified

LEMMA InsertNoMarket ==
    ASSUME NoMarket(orders), NEW t, NEW id, NEW order \in Order,
           NEW o \in Admitted(id, order), Insert(t, id, o, order.type)
    PROVE  NoMarket(orders')
<1>1. o.type # "Market"
  BY DEF Admitted, ToGoodTillCancel, Order
<1>2. orders' = Put(orders, id, o)
  BY DEF Insert
<1>3. QED
  BY <1>1, <1>2 DEF NoMarket, Put

LEMMA NextNoMarket ==
    ASSUME IInv, NoMarket(orders), Next
    PROVE  NoMarket(orders')
<1>1. ASSUME UNCHANGED orders PROVE NoMarket(orders')
  BY <1>1
<1>2. ASSUME NEW id, CancelOrderInternal(id) PROVE NoMarket(orders')
  BY <1>2 DEF CancelOrderInternal, Without, Restrict, NoMarket
<1>3. ASSUME NEW t \in Thread, NEW id \in OrderId, NEW type \in InputType,
             NEW side \in Side, NEW price \in Price, NEW quantity \in InputQty,
             NEW filled \in InputFilled, Submittable(type, quantity, filled),
             AddOrder(t, id, Fill(NewOrder(type, side, price, quantity), filled))
      PROVE  NoMarket(orders')
  BY <1>3, SubmittedIsOrder, InsertNoMarket DEF AddOrder
<1>4. ASSUME NEW t \in Thread, FillFront(t) PROVE NoMarket(orders')
  BY <1>4, FillKeeps DEF Kept, NoMarket
<1>5. ASSUME NEW t \in Thread, AddModified(t) PROVE NoMarket(orders')
  <2>1. request[t].order \in Order
    BY <1>5 DEF AddModified, IInv, LockHeld
  <2>2. QED
    BY <1>1, <1>5, <2>1, InsertNoMarket DEF AddModified
<1>6. QED
  BY <1>1, <1>2, <1>3, <1>4, <1>5
  DEF Next, Client, CancelOrder, ModifyOrder, Matching, DropEmptyLevels, Return,
      KillRemainder, Modifying, CancelOriginal, bookVars

LEMMA NextBookIsFunction ==
    ASSUME IInv, BookIsFunction, Next
    PROVE  BookIsFunction'
<1>1. ASSUME UNCHANGED book PROVE BookIsFunction'
  BY <1>1 DEF BookIsFunction
<1>2. ASSUME NEW t, NEW id, NEW o, NEW type, Insert(t, id, o, type)
      PROVE  BookIsFunction'
  BY <1>2 DEF Insert, BookIsFunction
<1>3. ASSUME NEW id, CancelOrderInternal(id) PROVE BookIsFunction'
  BY <1>3 DEF CancelOrderInternal, BookIsFunction
<1>4. ASSUME NEW t \in Thread, FillFront(t) PROVE BookIsFunction'
  <2>1. PICK bp, ap : FillLevels(bp, ap)
    BY <1>4 DEF FillFront
  <2>2. PICK bidQueue, askQueue :
          book' = [book EXCEPT !["Buy"][bp] = bidQueue, !["Sell"][ap] = askQueue]
    BY <2>1 DEF FillLevels
  <2>3. QED
    BY <2>2 DEF BookIsFunction
<1>5. ASSUME NEW t \in Thread, DropEmptyLevels(t) PROVE BookIsFunction'
  BY <1>5 DEF DropEmptyLevels, BookIsFunction
<1>6. QED
  BY <1>1, <1>2, <1>3, <1>4, <1>5
  DEF Next, Client, AddOrder, CancelOrder, ModifyOrder, Matching, Return,
      KillRemainder, Modifying, CancelOriginal, AddModified, bookVars

LEMMA CallKeepsLifeInv ==
    ASSUME LifeInv, Call
    PROVE  LifeInv'
<1>1. Next /\ UNCHANGED lifeVars
  BY DEF Call
<1>2. mutex # Pruner
  BY <1>1, PrunerExcludes DEF LifeInv
<1>3. IInv' /\ TakerInv' /\ NoMarket(orders)' /\ BookIsFunction'
  BY <1>1, <1>2, NextIInv, NextTaker, NextNoMarket, NextBookIsFunction DEF LifeInv
<1>4. mutex' \in Thread \cup {NoThread} /\ mutex' # Pruner
  BY <1>3, PrunerAssumption DEF IInv, LocalTypeOK
<1>5. UNCHANGED <<owner, pruner, shutdown, reachable, due>>
  BY <1>1 DEF lifeVars
<1>6. (LifeTypeOK /\ NotStarted)'
  BY <1>2, <1>4, <1>5 DEF LifeInv, LifeTypeOK, NotStarted
<1>7. due' = {}
  BY <1>5 DEF LifeInv
<1>8. QED
  BY <1>3, <1>4, <1>6, <1>7 DEF LifeInv

------------------------------------------------------------------------------
(* The pruning thread. *)

LEMMA RemoveNone ==
    ASSUME NEW queue
    PROVE  FoldSet(LAMBDA id, q : RemoveAt(q, Location(q, id)), queue, {}) = queue
<1> DEFINE f(h) == [s \in SUBSET {} |->
                      IF s = {} THEN queue
                      ELSE LET x == CHOOSE x \in s : TRUE
                           IN  RemoveAt(h[s \ {x}], Location(h[s \ {x}], x))]
           g == CHOOSE h : h = f(h)
<1>1. g = f(g)
  <2>1. [s \in SUBSET {} |-> queue] = f([s \in SUBSET {} |-> queue])
    OBVIOUS
  <2> HIDE DEF f
  <2>2. QED
    BY <2>1
<1>2. g[{}] = queue
  <2> HIDE DEF g
  <2>1. QED
    BY <1>1
<1>3. FoldSet(LAMBDA id, q : RemoveAt(q, Location(q, id)), queue, {}) = g[{}]
  BY Zenon DEF FoldSet, MapThenFoldSet
<1>4. QED
  BY <1>2, <1>3

LEMMA UncountNone ==
    ASSUME NEW d
    PROVE  FoldSet(LAMBDA id, totals :
                      UpdateLevelData(totals, orders[id].price,
                                      orders[id].remaining, "Remove"),
                   d, {}) = d
<1> DEFINE f(h) == [s \in SUBSET {} |->
                      IF s = {} THEN d
                      ELSE LET x == CHOOSE x \in s : TRUE
                           IN  UpdateLevelData(h[s \ {x}], orders[x].price,
                                               orders[x].remaining, "Remove")]
           g == CHOOSE h : h = f(h)
<1>1. g = f(g)
  <2>1. [s \in SUBSET {} |-> d] = f([s \in SUBSET {} |-> d])
    OBVIOUS
  <2> HIDE DEF f
  <2>2. QED
    BY <2>1
<1>2. g[{}] = d
  <2> HIDE DEF g
  <2>1. QED
    BY <1>1
<1>3. FoldSet(LAMBDA id, totals :
                 UpdateLevelData(totals, orders[id].price,
                                 orders[id].remaining, "Remove"),
              d, {}) = g[{}]
  BY Zenon DEF FoldSet, MapThenFoldSet
<1>4. QED
  BY <1>2, <1>3

\* CancelOrders has nothing to cancel.
LEMMA CancelNone ==
    ASSUME AtRest, BookIsFunction, due = {}, CancelDue
    PROVE  UNCHANGED bookVars
<1>1. BookOK(book) /\ IsMap(orders, OrderId, Order)
  BY DEF AtRest, BookInv
<1>2. due \cap DOMAIN orders = {}
  OBVIOUS
<1>3. orders' = orders
  <2>1. orders' = Restrict(orders, DOMAIN orders)
    BY <1>2 DEF CancelDue
  <2>2. QED
    BY <1>1, <2>1 DEF Restrict, IsMap
<1>4. data' = data
  <2>1. data' = FoldSet(LAMBDA id, totals :
            UpdateLevelData(totals, orders[id].price, orders[id].remaining, "Remove"),
            data, due \cap DOMAIN orders)
    BY Zenon DEF CancelDue
  <2>2. QED
    BY <1>2, <2>1, UncountNone, Zenon
<1>5. book' = book
  <2> DEFINE kept(queue) == FoldSet(LAMBDA id, q : RemoveAt(q, Location(q, id)), queue,
                                    (due \cap DOMAIN orders) \cap Range(queue))
  <2>1. book' = [side \in Side |->
              [p \in {q \in Levels(side) : kept(book[side][q]) # <<>>} |->
                  kept(book[side][p])]]
    BY Zenon DEF CancelDue
  <2>2. ASSUME NEW queue PROVE kept(queue) = queue
    <3>1. (due \cap DOMAIN orders) \cap Range(queue) = {}
      BY <1>2
    <3>2. QED
      BY <3>1, RemoveNone, Zenon
  <2> HIDE DEF kept
  <2>3. book' = [side \in Side |->
              [p \in {q \in Levels(side) : book[side][q] # <<>>} |-> book[side][p]]]
    BY <2>1, <2>2
  <2>4. \A side \in Side :
            {q \in Levels(side) : book[side][q] # <<>>} = DOMAIN book[side]
    BY DEF AtRest, NoneEmpty, Levels
  <2>5. \A side \in Side : book[side] = [p \in DOMAIN book[side] |-> book[side][p]]
    BY <1>1 DEF BookOK, IsMap
  <2>6. book = [side \in Side |-> book[side]]
    BY <1>1 DEF BookOK, BookIsFunction
  <2>7. QED
    BY <2>3, <2>4, <2>5, <2>6
<1>6. QED
  BY <1>3, <1>4, <1>5 DEF bookVars
------------------------------------------------------------------------------
(* The inductive invariant. *)

LEMMA InitLifeInv == LifeInit => LifeInv
<1> SUFFICES ASSUME LifeInit PROVE LifeInv
  OBVIOUS
<1>1. IInv /\ TakerInv
  BY InitIInv, InitTaker DEF LifeInit
<1>2. mutex = NoThread /\ mutex # Pruner
  BY PrunerAssumption DEF LifeInit, Init
<1>3. NoMarket(orders) /\ BookIsFunction
  BY DEF LifeInit, Init, NoMarket, BookIsFunction
<1>4. LifeTypeOK /\ NotStarted
  BY <1>2 DEF LifeInit, LifeTypeOK, NotStarted
<1>5. QED
  BY <1>1, <1>2, <1>3, <1>4 DEF LifeInv, LifeInit

\* AtRest is not about the mutex, so a book at rest stays so while the pruning
\* thread takes and releases it.
LEMMA AtRestStays ==
    ASSUME AtRest, UNCHANGED <<bookVars, pc, request, localVars>>
    PROVE  AtRest'
BY DEF AtRest, BookInv, NoneEmpty, NoneToKill, TakerInEveryTrade, bookVars, localVars,
       Levels

LEMMA PruningKeepsLifeInv ==
    ASSUME LifeInv, Pruning
    PROVE  LifeInv' /\ UNCHANGED <<bookVars, pc, request, localVars>>
<1>1. mutex = NoThread => AtRest
  BY FreeIsAtRest, PrunerAssumption DEF LifeInv
<1>2. mutex = NoThread \/ mutex = Pruner => AtRest
  BY <1>1 DEF LifeInv
<1>3. UNCHANGED <<bookVars, pc, request, localVars>>
  <2>1. CASE CancelDue
    <3>1. AtRest /\ BookIsFunction /\ due = {}
      BY <1>1, <2>1 DEF CancelDue, LifeInv
    <3>2. UNCHANGED bookVars
      BY <2>1, <3>1, CancelNone
    <3>3. QED
      BY <2>1, <3>2 DEF CancelDue
  <2>2. CASE Pruning /\ ~CancelDue
    BY <2>2 DEF Pruning, TestShutdown, Wait, WakeSpuriously, Timeout, ExitOnWakeup,
       ResumeOnTimeout, Collect, vars, bookVars, localVars
  <2>3. QED
    BY <2>1, <2>2
<1>4. NoMarket(orders)' /\ BookIsFunction'
  BY <1>3 DEF LifeInv, bookVars, NoMarket, BookIsFunction
<1>5. due' = {}
  <2>1. Collect => due' = {}
    BY DEF LifeInv, NoMarket, Collect
  <2>2. QED
    BY <2>1 DEF Pruning, LifeInv, TestShutdown, Wait, WakeSpuriously, Timeout,
       ExitOnWakeup, ResumeOnTimeout, CancelDue
<1>6. (LifeTypeOK /\ NotStarted)'
  BY <1>5, PrunerAssumption DEF LifeInv, LifeTypeOK, NotStarted, Pruning, PrunerMoves,
     TestShutdown, Wait, WakeSpuriously, Timeout, ExitOnWakeup, ResumeOnTimeout,
     Collect, CancelDue, vars
<1>7. \/ mutex' = mutex
      \/ mutex' = Pruner /\ mutex = NoThread
      \/ mutex' = NoThread /\ mutex = Pruner
  BY DEF LifeInv, LifeTypeOK, NotStarted, Pruning, PrunerMoves, TestShutdown, Wait,
     WakeSpuriously, Timeout, ExitOnWakeup, ResumeOnTimeout, Collect, CancelDue, vars
<1>8. CASE mutex = NoThread \/ mutex = Pruner
  <2>1. AtRest' /\ (mutex' = NoThread \/ mutex' = Pruner)
    BY <1>2, <1>3, <1>7, <1>8, AtRestStays
  <2>2. mutex' = NoThread => IInv' /\ TakerInv'
    BY <2>1, AtRestIsFree
  <2>3. QED
    BY <1>3, <1>4, <1>5, <1>6, <2>1, <2>2 DEF LifeInv
<1>9. CASE ~(mutex = NoThread \/ mutex = Pruner)
  <2>1. UNCHANGED vars
    BY <1>3, <1>7, <1>9 DEF vars, bookVars, localVars
  <2>2. IInv' /\ TakerInv'
    BY <1>9, <2>1, NextIInv, NextTaker DEF LifeInv
  <2>3. QED
    BY <1>3, <1>4, <1>5, <1>6, <1>7, <1>9, <2>2 DEF LifeInv
<1>10. QED
  BY <1>8, <1>9

LEMMA StutterKeepsLifeInv ==
    ASSUME LifeInv, UNCHANGED vars, UNCHANGED due, (LifeTypeOK /\ NotStarted)'
    PROVE  LifeInv'
<1>1. mutex # Pruner => IInv' /\ TakerInv'
  BY NextIInv, NextTaker DEF LifeInv
<1>2. mutex = Pruner => AtRest'
  BY AtRestStays DEF LifeInv, vars, bookVars, localVars
<1>3. NoMarket(orders)' /\ BookIsFunction' /\ mutex' = mutex
  BY DEF LifeInv, vars, NoMarket, BookIsFunction
<1>4. QED
  BY <1>1, <1>2, <1>3 DEF LifeInv

LEMMA OwnerKeepsLifeInv ==
    ASSUME LifeInv, Owner
    PROVE  LifeInv'
<1>1. UNCHANGED vars /\ UNCHANGED due
  BY DEF Owner, StartThread, BuildCondVar, BuildShutdown, StoreShutdown, NotifyOne, Join
<1>2. mutex' = mutex
  BY <1>1 DEF vars
<1>3. (LifeTypeOK /\ NotStarted)'
  BY <1>1, <1>2 DEF LifeInv, LifeTypeOK, NotStarted, Owner, OwnerMoves, StartThread,
     BuildCondVar, BuildShutdown, StoreShutdown, NotifyOne, Join
<1>4. QED
  BY <1>1, <1>3, StutterKeepsLifeInv

LEMMA NextLifeInv == LifeInv /\ [LifeNext]_allVars => LifeInv'
<1> SUFFICES ASSUME LifeInv, [LifeNext]_allVars PROVE LifeInv'
  OBVIOUS
<1>1. CASE UNCHANGED allVars
  <2>1. UNCHANGED vars /\ UNCHANGED <<owner, pruner, shutdown, reachable, due>>
    BY <1>1 DEF allVars, lifeVars
  <2>2. (LifeTypeOK /\ NotStarted)'
    BY <2>1 DEF LifeInv, LifeTypeOK, NotStarted, vars
  <2>3. QED
    BY <2>1, <2>2, StutterKeepsLifeInv
<1>2. QED
  BY <1>1, OwnerKeepsLifeInv, PruningKeepsLifeInv, CallKeepsLifeInv DEF LifeNext

LEMMA SpecLifeInv == LifeSpec => []LifeInv
<1>1. QED
  BY InitLifeInv, NextLifeInv, PTL DEF LifeSpec

------------------------------------------------------------------------------
(* The theorems. *)

\* The threads around the engine are where the code puts them, whatever the
\* clients do: in particular the pruning thread keeps the mutex from one of its
\* steps to the next only on its way into wait_for, so that it never keeps a
\* client, or the destructor, waiting while it sleeps.
THEOREM LifeTypesCorrect == LifeSpec => []LifeTypeOK
<1>1. LifeInv => LifeTypeOK
  BY DEF LifeInv
<1>2. QED
  BY <1>1, SpecLifeInv, PTL

\* A pruning pass harms no order that lasts beyond the day, although the mutex
\* is free between its two halves: AddOrder books no Market order, so that the
\* pass collects nothing, and CancelOrders finds nothing to cancel.
THEOREM PruningIsHarmless == LifeSpec => PruningKeepsOrders
<1> DEFINE Step == [\A id \in DOMAIN orders :
                       pruner = "cancelling" /\ pruner' = "looping"
                           /\ orders[id].type # "GoodForDay"
                       => id \in DOMAIN orders' /\ orders'[id] = orders[id]]_allVars
<1>1. LifeInv /\ [LifeNext]_allVars => Step
  <2> SUFFICES ASSUME LifeInv, LifeNext, pruner = "cancelling", pruner' = "looping"
               PROVE  UNCHANGED orders
    OBVIOUS
  <2>1. CASE Pruning
    BY <2>1, PruningKeepsLifeInv DEF bookVars
  <2>2. CASE Owner
    BY <2>2 DEF Owner, StartThread, BuildCondVar, BuildShutdown, StoreShutdown,
       NotifyOne, Join, vars
  <2>3. CASE Call
    BY <2>3 DEF Call, lifeVars
  <2>4. QED
    BY <2>1, <2>2, <2>3 DEF LifeNext
<1>2. QED
  BY <1>1, SpecLifeInv, PTL DEF LifeSpec, PruningKeepsOrders

LEMMA StepPruningExcludes ==
    ASSUME LifeInv, [LifeNext]_allVars
    PROVE  [/\ \A t \in Thread : mutex = t => Matching(t)
            /\ mutex = Pruner => Wait]_vars
<1> SUFFICES ASSUME LifeNext, ~UNCHANGED vars
             PROVE  /\ \A t \in Thread : mutex = t => Matching(t)
                    /\ mutex = Pruner => Wait
  BY DEF allVars
<1>1. CASE Owner
  BY <1>1 DEF Owner, StartThread, BuildCondVar, BuildShutdown, StoreShutdown,
     NotifyOne, Join
<1>2. CASE Pruning
  <2>1. \/ mutex = NoThread
        \/ Wait /\ mutex = Pruner
    BY <1>2 DEF Pruning, TestShutdown, Wait, PrunerMoves, WakeSpuriously, Timeout,
       ExitOnWakeup, ResumeOnTimeout, Collect, CancelDue, LifeInv, LifeTypeOK
  <2>2. QED
    BY <2>1, ThreadAssumption, PrunerAssumption
<1>3. CASE Call
  <2>1. Next
    BY <1>3 DEF Call
  <2>2. mutex # Pruner
    BY <2>1, PrunerExcludes DEF LifeInv
  <2>3. IInv
    BY <2>2 DEF LifeInv
  <2>4. \A t \in Thread : mutex = t => Matching(t)
    BY <2>1, <2>3, StepLockExcludes
  <2>5. QED
    BY <2>2, <2>4
<1>4. QED
  BY <1>1, <1>2, <1>3 DEF LifeNext

\* The pruning thread never comes into an AddOrder, nor a client into its way
\* from the test of shutdown_ to the wait, through construction and destruction.
THEOREM PruningIsExcluded == LifeSpec => PruningExcludes
<1>1. QED
  BY SpecLifeInv, StepPruningExcludes, PTL DEF LifeSpec, PruningExcludes

\* What is proved of the engine's index and levels holds of the object with its
\* pruning thread: also when that thread has the mutex, or cancels.
THEOREM ObjectKeepsItsBook == LifeSpec => [](BookIndexAgree /\ UncrossedAtRest)
<1>1. ASSUME LifeInv PROVE BookIndexAgree
  <2>1. BookInv(book, orders, data)
    BY <1>1 DEF LifeInv, AtRest, IInv
  <2>2. QED
    BY <2>1, BookInvImpliesAgree
<1>2. LifeInv => UncrossedAtRest
  BY PrunerAssumption DEF LifeInv, IInv, UncrossedAtRest
<1>3. QED
  BY <1>1, <1>2, SpecLifeInv, PTL
===============================================================================
