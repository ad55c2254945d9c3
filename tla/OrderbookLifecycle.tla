-------------------------- MODULE OrderbookLifecycle --------------------------
(***************************************************************************)
(* The life of an Orderbook object: its constructor, the pruning thread it *)
(* starts, and its destructor, around the calls of the client threads.     *)
(*                                                                         *)
(* Members are initialised in the order they are declared in: the pruning  *)
(* thread starts before shutdownConditionVariable_ and shutdown_ exist.    *)
(* The deadline of the wait is not modelled: a wait may time out at any    *)
(* moment, and time passes, so it does if nothing else ends it.            *)
(***************************************************************************)
EXTENDS Orderbook

CONSTANTS
    Pruner,             \* the pruning thread, as an owner of the mutex
    Unset,              \* shutdown_ before it is initialised
    UnsetReads,         \* what reading it then can yield
    SpuriousWakeups     \* whether a wait may end unnotified before its time

ASSUME PrunerAssumption == Pruner \notin Thread \cup {NoThread}
ASSUME WakeupAssumption ==
    /\ UnsetReads \subseteq BOOLEAN
    /\ SpuriousWakeups \in BOOLEAN

VARIABLES
    owner,      \* where the thread that constructs and destroys the book is
    pruner,     \* where the pruning thread is
    shutdown,   \* shutdown_
    reachable,  \* the condition variable knows the pruner waits on it
    due         \* orderIds, local to PruneGoodForDayOrders

lifeVars == <<owner, pruner, shutdown, reachable, due>>
allVars == <<vars, lifeVars>>

\* Where the two threads can be, and that the pruning thread keeps the mutex
\* from one of its steps to the next only on its way into wait_for.
LifeTypeOK ==
    /\ owner \in {"constructing", "started", "condVarBuilt", "live",
                  "stored", "joining", "destroyed"}
    /\ pruner \in {"absent", "looping", "aboutToWait", "waiting", "woken",
                   "timedOut", "collecting", "cancelling", "exited"}
    /\ shutdown \in BOOLEAN \cup {Unset}
    /\ reachable \in BOOLEAN
    /\ due \subseteq OrderId
    /\ mutex = Pruner <=> pruner = "aboutToWait"
    /\ mutex \in Thread \cup {NoThread, Pruner}

LifeInit ==
    /\ Init
    /\ owner = "constructing"
    /\ pruner = "absent"
    /\ shutdown = Unset
    /\ reachable = FALSE
    /\ due = {}

------------------------------------------------------------------------------
(* Orderbook() and ~Orderbook(). *)

OwnerMoves(from, to) == owner = from /\ owner' = to

StartThread ==
    /\ OwnerMoves("constructing", "started")
    /\ pruner' = "looping"
    /\ UNCHANGED <<vars, shutdown, reachable, due>>

\* Initialising the condition variable forgets a thread that already waits.
BuildCondVar ==
    /\ OwnerMoves("started", "condVarBuilt")
    /\ reachable' = FALSE
    /\ UNCHANGED <<vars, pruner, shutdown, due>>

BuildShutdown ==
    /\ OwnerMoves("condVarBuilt", "live")
    /\ shutdown' = FALSE
    /\ UNCHANGED <<vars, pruner, reachable, due>>

\* The destructor runs when no client is in a call.  It does not lock.
StoreShutdown ==
    /\ OwnerMoves("live", "stored")
    /\ \A t \in Thread : pc[t] = "idle"
    /\ shutdown' = TRUE
    /\ UNCHANGED <<vars, pruner, reachable, due>>

\* A notification wakes a thread that waits now, and is lost otherwise.
NotifyOne ==
    /\ OwnerMoves("stored", "joining")
    /\ pruner' = IF pruner = "waiting" /\ reachable THEN "woken" ELSE pruner
    /\ UNCHANGED <<vars, shutdown, reachable, due>>

Join ==
    /\ OwnerMoves("joining", "destroyed")
    /\ pruner = "exited"
    /\ UNCHANGED <<vars, pruner, shutdown, reachable, due>>

------------------------------------------------------------------------------
(* PruneGoodForDayOrders. *)

PrunerMoves(from, to) == pruner = from /\ pruner' = to

\* Mutant of ReadShutdown: the flag is never looked at.
ReadShutdownNever == {FALSE}

ReadShutdown == IF shutdown = Unset THEN UnsetReads ELSE {shutdown}

\* Mutant of TestShutdown: the flag is tested without locking.
TestShutdownUnlocked ==
    /\ \/ /\ TRUE \in ReadShutdown
          /\ PrunerMoves("looping", "exited")
          /\ UNCHANGED mutex
       \/ /\ FALSE \in ReadShutdown
          /\ PrunerMoves("looping", "aboutToWait")
          /\ mutex' = Pruner
    /\ UNCHANGED <<bookVars, pc, request, localVars, owner, shutdown, reachable, due>>

\* With the mutex: return when shut down, go on to wait_for otherwise.
TestShutdown ==
    /\ mutex = NoThread
    /\ \/ /\ TRUE \in ReadShutdown
          /\ PrunerMoves("looping", "exited")
          /\ UNCHANGED mutex
       \/ /\ FALSE \in ReadShutdown
          /\ PrunerMoves("looping", "aboutToWait")
          /\ mutex' = Pruner
    /\ UNCHANGED <<bookVars, pc, request, localVars, owner, shutdown, reachable, due>>

\* Mutant of Wait: the thread sleeps with the mutex.
WaitLocked ==
    /\ PrunerMoves("aboutToWait", "waiting")
    /\ reachable' = TRUE
    /\ UNCHANGED <<vars, owner, shutdown, due>>

\* wait_for begins to wait and releases the mutex in one step.
Wait ==
    /\ PrunerMoves("aboutToWait", "waiting")
    /\ mutex' = NoThread
    /\ reachable' = TRUE
    /\ UNCHANGED <<bookVars, pc, request, localVars, owner, shutdown, due>>

WakeSpuriously ==
    /\ SpuriousWakeups
    /\ PrunerMoves("waiting", "woken")
    /\ UNCHANGED <<vars, owner, shutdown, reachable, due>>

\* The time may also run out while a woken thread waits for the mutex.
Timeout ==
    /\ PrunerMoves("waiting", "timedOut") \/ PrunerMoves("woken", "timedOut")
    /\ UNCHANGED <<vars, owner, shutdown, reachable, due>>

\* wait_for locks the mutex again and returns no_timeout: the thread is done.
ExitOnWakeup ==
    /\ mutex = NoThread
    /\ PrunerMoves("woken", "exited")
    /\ UNCHANGED <<vars, owner, shutdown, reachable, due>>

\* wait_for locks the mutex again and returns timeout; the scope unlocks it.
ResumeOnTimeout ==
    /\ mutex = NoThread
    /\ PrunerMoves("timedOut", "collecting")
    /\ UNCHANGED <<vars, owner, shutdown, reachable, due>>

\* Mutant of Collect: the test is for GoodForDay orders.  It is what the
\* comment in Orderbook.h asks for, and it is not enough.
CollectGoodForDay ==
    /\ mutex = NoThread
    /\ PrunerMoves("collecting", "cancelling")
    /\ due' = {id \in DOMAIN orders : orders[id].type = "GoodForDay"}
    /\ UNCHANGED <<vars, owner, shutdown, reachable>>

\* The test is for Market orders.
Collect ==
    /\ mutex = NoThread
    /\ PrunerMoves("collecting", "cancelling")
    /\ due' = {id \in DOMAIN orders : orders[id].type = "Market"}
    /\ UNCHANGED <<vars, owner, shutdown, reachable>>

\* CancelOrders: CancelOrderInternal on each id that is still there.
CancelDue ==
    LET gone == due \cap DOMAIN orders
        remove(id, queue) == RemoveAt(queue, Location(queue, id))
        kept(queue) == FoldSet(remove, queue, gone \cap Range(queue))
        uncount(id, totals) ==
            UpdateLevelData(totals, orders[id].price, orders[id].remaining, "Remove")
    IN  /\ mutex = NoThread
        /\ PrunerMoves("cancelling", "looping")
        /\ book' = [side \in Side |->
              [p \in {q \in Levels(side) : kept(book[side][q]) # <<>>} |->
                  kept(book[side][p])]]
        /\ orders' = Restrict(orders, DOMAIN orders \ gone)
        /\ data' = FoldSet(uncount, data, gone)
        /\ due' = {}
        /\ UNCHANGED <<mutex, pc, request, localVars, owner, shutdown, reachable>>

------------------------------------------------------------------------------
Owner ==
    \/ StartThread \/ BuildCondVar \/ BuildShutdown
    \/ StoreShutdown \/ NotifyOne \/ Join

Pruning ==
    \/ TestShutdown \/ Wait \/ WakeSpuriously \/ Timeout
    \/ ExitOnWakeup \/ ResumeOnTimeout \/ Collect \/ CancelDue

Call ==
    /\ owner = "live"
    /\ Next
    /\ UNCHANGED lifeVars

LifeNext == Owner \/ Pruning \/ Call

LifeSpec == LifeInit /\ [][LifeNext]_allVars

\* Threads that can run are run, and a wait that nothing ends times out.
\* Whether clients call, or the owner destroys the book, is up to them.
FairLifeSpec ==
    /\ LifeSpec
    /\ WF_allVars(Pruning)
    /\ WF_allVars(NotifyOne \/ Join)

------------------------------------------------------------------------------
(* Properties. *)

\* The clients and the pruning thread exclude each other: whatever the pruning
\* thread and the destructor do while a client is in AddOrder, nothing but its
\* MatchOrders happens to the book and to the mutex; and no client moves between
\* the test of shutdown_ and the wait.
PruningExcludes ==
    [][/\ \A t \in Thread : mutex = t => Matching(t)
       /\ mutex = Pruner => Wait]_vars

\* A pruning pass leaves orders that last beyond the day as they are.  The
\* mutex is free between Collect and CancelDue, so that a collected id may by
\* then belong to another order; the code is safe because AddOrder books no
\* Market order, and a pass collects nothing.
PruningKeepsOrders ==
    [][\A id \in DOMAIN orders :
        pruner = "cancelling" /\ pruner' = "looping" /\ orders[id].type # "GoodForDay"
        => id \in DOMAIN orders' /\ orders'[id] = orders[id]]_allVars

\* The destructor completes, even when its notification is lost: the pruner
\* times out, comes round the loop and finds shutdown_ set.
DestructorCompletes == owner = "stored" ~> owner = "destroyed"

\* "A pruning clock that cancels GoodForDay orders at 4PM every day"
\* (Orderbook.h): a pass collects every GoodForDay order that rests.
PruningFindsGoodForDay ==
    [][pruner = "collecting" /\ pruner' = "cancelling" =>
        {id \in DOMAIN orders : orders[id].type = "GoodForDay"} \subseteq due']_allVars

\* "If orderbook is shutdown prematurely" (comment at the return of
\* PruneGoodForDayOrders): the pruning thread returns for no other reason.
PrunerReturnsOnShutdown == pruner = "exited" => shutdown = TRUE

\* The destructor's notification reaches the pruning thread: once it is sent
\* the thread does not wait for 4 PM any more.
NotificationHeard == owner = "joining" => pruner \notin {"aboutToWait", "waiting"}
==============================================================================
