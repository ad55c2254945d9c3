# Verification of the order book

A limit order book with a matching engine, in one class: `Orderbook`
(`src/src/Orderbook.cpp`, `src/include/Orderbook.h`). Client threads add, cancel
and modify orders; a thread of the object's own prunes orders once a day. This
directory models it in TLA+, checks the model with TLC on small instances, and
proves its main safety properties with TLAPS for instances of every size.

## 1. The system

| component | state | operations | in |
|---|---|---|---|
| Order values | type, side, price, initial and remaining quantity of an `Order`; `Trade`, `TradeInfo` | `Fill`, `IsFilled`, `ToGoodTillCancel`, `OrderModify::ToOrderPointer` | `OrderTypes` |
| Level totals | `data_`: price to quantity and order count, one entry for both sides | `UpdateLevelData` through `OnOrderAdded`, `OnOrderCancelled`, `OnOrderMatched` | `LevelData` |
| Matching engine | `bids_`, `asks_` (sorted maps of lists), `orders_` (index with list iterators), `ordersMutex_` | `AddOrder`, `CanMatch`, `CanFullyFill`, `MatchOrders` | `Orderbook` |
| Cancel and modify | the same | `CancelOrder`, `CancelOrderInternal`, `ModifyOrder` | `Orderbook` |
| Pruning thread | where it is in its loop, the ids it collected, when it next wakes | `PruneGoodForDayOrders`, `CancelOrders` | `OrderbookLifecycle`, `PruneClock` |
| Construction, destruction | `orderPruningThread_`, `shutdownConditionVariable_`, `shutdown_` | constructor, destructor | `OrderbookLifecycle` |
| Queries | the iterators and sums of a walk | `Size`, `GetOrderInfos`, `OrderbookLevelInfos` | `LevelReader` |
| `main.cpp`, tests, googletest, `build/` | none | | not modelled |

**How they interact.** Every public operation but `GetOrderInfos` works under
`ordersMutex_`. `AddOrder` holds it through `MatchOrders`; `ModifyOrder` is three
critical sections (look-up, cancel, add) with the mutex free in between. Each
operation updates three structures by hand: the lists, the index and the totals.
`MatchOrders` calls back into `CancelOrder` for the remainder of a FillAndKill
order. The pruning thread takes the same mutex three times a round: to test
`shutdown_` and sleep on the condition variable, to collect ids, and to cancel
them. The destructor stores `shutdown_`, notifies and joins.

**What is hard.** The agreement of three structures through partial fills and
mid-queue cancels; totals that are shared by both sides, erased through references
to freed map keys, and unsigned; a mutex that is locked again by its owner; the
windows between the sections of `ModifyOrder` and of a pruning pass; a thread
that starts before the members it uses; a notification sent without the mutex; a walk
over lists that others change; a wait for 4 PM that is computed before a lock and
ends early or late; local time that changes between the computation and the pass.
`hazards` in `PROJECT.json` lists each at its line with the properties about it.

**What makes it correct.**

- *Engine*: index and lists agree; nothing crossed when the mutex is free; strict
  price-time priority; trades balance and involve the new order; FillAndKill
  orders never rest; FillOrKill orders fill or are refused; Market orders sweep;
  matching ends and `AddOrder` returns.
- *Totals*: exact for the orders at each price, so that `CanFullyFill` is right.
- *Modify*: replaces an order that is there, and only such a one.
- *Pruning, lifecycle*: a pass finds the GoodForDay orders and harms no other; the
  thread returns when shut down and only then; the destructor completes; no day
  goes by without a pass, there is one a day, and none before 4 PM.
- *Queries*: what is compiled is what the book holds, at some moment at rest.

## 2. The modules

```
OrderTypes <- LevelData <- Orderbook <- OrderbookRefinement <- MCOrderbook
                  ^            ^------- OrderbookLifecycle  <- MCLifecycle
                  |            ^------- LevelReader         <- MCReader
                  |            ^------- OrderbookProofs     <- TakerProofs
            PriceTimeBook (instantiated by OrderbookRefinement)

PruneClock  <- MCClock, ClockProofs
TakerProofs <- TotalsProofs (also FoldLemmas) <- ReaderProofs (also LevelReader)
TakerProofs <- RefinementProofs (also OrderbookRefinement)
TakerProofs <- LifecycleProofs (also OrderbookLifecycle)
```

**OrderTypes** holds the enumerations and value classes. `Quantity` is `0 .. QMod - 1`
with `QMod` standing for 2^32. Prices are integers: `Price` is an optional in the
code, but the engine prices every Market order before it uses the price, and the
other types are submitted with one. An `Order` is a shared object: its submitter may
submit it again after it was filled in part and cancelled. `InputFilled` says how far
submitted orders may be filled already (0: only fresh ones).

**LevelData** is `UpdateLevelData`: an entry is created as zeros on first use,
quantity and count wrap, and the entry goes when its count is zero.

**Orderbook** is the engine. `book["Buy"]` and `book["Sell"]` are `bids_` and `asks_`,
functions from the existing prices to sequences of ids; `orders` is `orders_` with
the `Order` objects in it; `data` is `data_`; `mutex` names the owner of
`ordersMutex_`. A `location_` iterator is the place of the id in its sequence. One
action is one critical section, except that `AddOrder` goes on as steps of the
thread that holds the mutex:

| action | code |
|---|---|
| `AddOrder` | refusals, repricing of Market, insertion in list, index and totals (`Orderbook.cpp` 273-325) |
| `FillFront` | one round of the inner loop: fill the two fronts, pop and unindex the filled, record the trade, update the totals (198-229) |
| `DropEmptyLevels` | erasure of emptied levels, and of the entry of `data_` that the freed key names (231-241) |
| `Return` | `MatchOrders` and `AddOrder` return; the mutex is released |
| `KillRemainder` | `CancelOrder` from inside `MatchOrders` (249, 257): the thread waits for itself |
| `CancelOrder` | 330-335 with `CancelOrderInternal` |
| `ModifyOrder`, `CancelOriginal`, `AddModified` | the three sections of `ModifyOrder` (341-356) |

Calls that return at once without a change (a refused order, an unknown id) are
no steps. `bids_.erase(bidPrice)` frees the map node that the reference `bidPrice`
points into; the next line reads it. `FreedKey` says what that can give: the price,
still intact (libstdc++), or a disengaged optional (`"cleared"`), which is no key.
Other garbage is not modelled. `CanFullyFill` is the loop it is, a fold of one round
over the entries of `data_` in range, in any order (the map is unordered).

**PriceTimeBook** is what a client is promised, with no lists, maps or locks: a set
of resting orders and an arrival relation; orders enter when nothing is crossed, and
a bid and an ask that no other has priority over trade as much as they can.
**OrderbookRefinement** maps `orders_` and the order of the lists onto it.

**OrderbookLifecycle** puts the object's life around the engine. `StartThread`,
`BuildCondVar` and `BuildShutdown` follow the order in which the members are
declared (`Orderbook.h` 48-50), so that the pruning thread runs before the other
two exist: it may read `shutdown_` as any of `UnsetReads`, and a wait begun before
the condition variable is initialised is unknown to it. `Wait` is the moment
`wait_for` releases the mutex; it ends by `NotifyOne`, by a spurious wakeup, or by
`Timeout`. `Collect` and `CancelDue` are the two sections of a pass; `CancelDue` takes
the collected ids one after the other out of the lists and totals, by folds over them.
The
pruning thread and the calls of clients exclude each other (`PruningExcludes`), so that the
book is whole and at rest when a pass takes it. The destructor
runs only when no client is in a call. A wait may time out at any moment; when it
should is the subject of `PruneClock`.

**LevelReader** adds one thread that calls `GetOrderInfos`. `CallSize` is each of the
two calls of `Size`, the only places where the mutex is asked for. Then `Enter` begins
the walk of a side, `Accumulate` adds one order to the running sum, and `CloseLevel`
appends the `LevelInfo` and goes on to the next level; steps of clients (`Write`) fall
between any two of these. A walk sees all or nothing of a client step. When a client
erases the level or the order the walk stands on (`ErasedUnderWalk`), what the code
does is undefined; the reader becomes `"astray"`, and nothing more is claimed of it.
`MaxWrites` bounds the client steps during one walk.

**PruneClock** is the arithmetic of the next 4 PM, on its own: real time `now` in tenths
of a second, local time by an offset that may change once, and the four steps of a
round. `ReadClock` computes `till` from the local time; `LockMutex` takes any of
`LockTime`; `TimeOut` ends the wait `till` later, give or take `Drift`, and begins a
pass; `Prune` takes any of `PassTime`. `mktime` is given the `tm_isdst` of now, so that
`till` is computed with the offset in force when it is computed, and so the pass after a
change of local time is an hour off. Days are counted, not
named: `mktime` normalises day 32 of a month, and the model needs no calendar. Its
assumptions are not in the code, which has no bound at all: a lock or a pass that took
a day would skip one. They are: the mutex is free within 6 hours, a pass takes at most
one, a wait ends at most 100 ms before and half an hour after its deadline, local time
moves by one hour at most once.

**OrderbookProofs**, **TakerProofs**, **TotalsProofs**, **RefinementProofs**,
**ReaderProofs**, **LifecycleProofs** and **ClockProofs** hold the theorems, and
**FoldLemmas** the lemmas on sums. **MCOrderbook**,
**MCReader**, **MCClock** and **MCLifecycle** give TLC
the sets of the configurations. The definitions marked *Mutant of ...* are wrong
versions of the definition that follows them; replacing the right one by it makes
TLC report the property that `PROJECT.json` names.

## 3. The runs

Runs that pass:

| run | instance | what it shows |
|---|---|---|
| `engine` | 1 thread, 3 ids, 2 prices, GoodTillCancel, FillAndKill, FillOrKill, Market, quantities 0-2, with modify, freed key cleared, fair | Index and lists agree; a partly filled order leads its level; no empty list is ever asked for its front; every trade involves the new order; FillAndKill orders never rest; Market orders sweep; while matching goes on, either side loses just the quantity of the trades to be returned; its loops make the book smaller with every round, and end; the engine implements `PriceTimeBook`. On builds where a freed key is cleared, and while totals do not overflow, `data_` is exact, `CanFullyFill` gives the answer of the orders themselves, an accepted FillOrKill order fills, and `ModifyOrder` undisturbed never loses the order it cancelled |
| `threads` | 2 threads and a reader, 2 ids, 2 prices, GoodTillCancel, FillAndKill, fresh orders of 2 and orders of 2 filled by 1, with modify, `QMod` 4 | The book is whole and uncrossed at every interleaving of the sections of `ModifyOrder` with other calls; the mutex excludes; totals that wrap stay in range; a walk that no client step comes into returns exactly what the index holds |
| `clock` | 5 starting times, locks of 0 to 6 hours, waits 0.1 s early to 20 minutes late, passes of up to 1 hour, local time set forward or not at all, at 3 moments; 5 days | One pass a day, none before 4 PM, and no wait that would end at once |
| `lifecycle` | 1 thread, 2 ids, fair, spurious wakeups, both readings of an unset flag | The pruning thread and clients never work on the book together, and no client comes between the test of `shutdown_` and the wait; a pass harms no order that lasts beyond the day; the destructor completes even when its notification is lost |

Runs in which TLC finds what the code says of itself violated (`findings` in
`PROJECT.json` quotes the lines):

| run | violated | by |
|---|---|---|
| `stale_totals` | `LevelDataExact` | a bid for 2 and an ask for 1 trade at one price; the asks are used up, and the entry of the price goes although the bid rests |
| `self_deadlock` | `AddOrderReturns` | a FillAndKill order larger than what it meets |
| `modify_race` | `ModifyReplaces` | a cancel between look-up and cancel of `ModifyOrder`: the order comes back |
| `gfd_not_pruned` | `PruningFindsGoodForDay` | any pass with a GoodForDay order in the book |
| `early_exit` | `PrunerReturnsOnShutdown` | one spurious wakeup |
| `lost_wakeup` | `NotificationHeard` | store and notify between the test of the flag and the wait |
| `torn_snapshot` | `SnapshotUncrossed` | two client steps during a walk: the levels are read while an `AddOrder` that crosses them is at work |
| `clock_back` | `EveryDayOnce` | the clock goes back in the night: a pass at 3 PM, after which the thread comes round before 4 PM, and another at 4 PM |

More is seen by changing a configuration:

- With FillOrKill among the types of `stale_totals` and three ids, `FillOrKillFills` is
  violated too: totals that wrapped let an order through that is filled in part and rests.
- With `UnsetReads = {TRUE}` and no spurious wakeups, `early_exit` fails because the
  thread read the flag before it was initialised.
- With `QMod = 4`, `engine` finds `CanFullyFillExact` violated: two resting orders add
  up to `QMod`, the total wraps to 0, and a quantity that is there is refused.
- With `InputFilled = {1}`, `engine` finds `LevelDataExact` violated: an object that is
  submitted again after a partial fill is booked with its remaining and counted with its
  initial quantity (`OnOrderAdded`). `PartialFillsLead` too is a property of fresh orders.
- With `NotBeforeFour` as its property, `clock_back` ends at the pass at 3 PM: `mktime` is given
  for the 4 PM to come the `now_parts.tm_isdst` that `localtime_r` sets for now. When the
  clock goes forward in the night the pass of the day is, in the same way, at 5 PM, which no
  property forbids.
- With `Shift <- Shifts` and `NoDayMissed` as its property, `clock` passes: no change of
  local time makes a day go by without a pass.

**PruningKeepsOrders** deserves a remark. It holds because a pass collects nothing:
no order in the book is of type Market. The mutant that tests for GoodForDay, as the
comment asks, violates it: an id collected in one section can be cancelled and used
for a GoodTillCancel order before the other. Repairing the test alone is not enough.

**Bounds.** Every id is reusable once its order left, so runs are not bounded in
length: all state spaces are complete. Three ids give a queue of two and an
incoming order, or two levels swept by a third order; two prices give a crossed and
an uncrossed pair, and with them a level in range and one beyond the limit, of either side. Quantities 1 and 2 make partial fills on either side, 0 the degenerate
order. `QMod = 8` exceeds what three orders of 2 can add up to, so that wrapping
there comes only from lost entries; `threads` takes 4, so that two orders of 2 at one
price make a sum wrap. Only `CanFullyFill` reads `data_`, and only a FillOrKill order
asks it, so that `FreedKey` has no influence on the rest of the book in
`threads`: one of its values is enough there. `engine` has the one for which `data_` is exact,
`stale_totals` the other, and the theorems have both. `MaxWrites = 1` puts one step of a client anywhere in a walk,
which erases what it stands on or leaves it whole; `torn_snapshot` needs 2. Two ids give
the walk two orders in one level, two levels on one side, or one on each. In `clock` the
times are those just before, at and after 4 PM, midnight, and the extremes of every
delay, in every combination; the passes of five days leave the change of local time
behind. Client order types are divided among the runs by which properties they bear
on. GoodForDay differs from GoodTillCancel only for the pruning thread. Symmetry of
ids and threads is used for safety only. `CHECK_DEADLOCK FALSE` is set because the
system may really stop: after `KillRemainder` no thread can move, and a destroyed
book is still.

**Fairness.** `FairSpec` (`engine`, `self_deadlock`) assumes that a thread inside
`MatchOrders` keeps being run.
`FairLifeSpec` assumes the same of the pruning thread, whose waits end by their
deadline at the latest, and of a destructor that has begun. Nothing is assumed of
clients: no call need ever come, and the destructor need never start.

## 4. The theorems

`OrderbookProofs` proves, for all sets of threads, ids and prices, every `QMod`, all
inputs and every value of a freed key:

- `TypeCorrect`: `Spec => []TypeOK`
- `IndexAgrees`: `Spec => []BookIndexAgree`
- `NeverCrossedAtRest`: `Spec => []UncrossedAtRest`
- `MutexExcludes`: `Spec => LockExcludes`

They rest on the assumptions the modules state: prices are integers, `QMod` is at
least 2, `NoThread` is no thread, inputs are of their types, and a freed key reads as
one of the two values. Orders submitted again after a partial fill are included.

**The invariant.** `TypeOK` is not inductive alone: `MatchOrders` reads
`orders[Head(queue)]`, which is an order only if the queue and the index agree, and
`BookIndexAgree` in turn needs queues to be sequences. `UncrossedAtRest` needs to
know that a thread in `MatchOrders` holds the mutex. So `IInv` is their conjunction
with `LockHeld`. `BookIndexAgree` is restated in it as `Agree`: for each side and
price the queue has no repeats, and its elements are exactly the ids the index files
there. Each operation changes one queue (`OneQueue`), so an insertion
(`EnterAgrees`), a removal (`LeaveAgrees`) and a change in place (`ChangeAgrees`) each
reduce to a fact about one sequence: `AppendRange`, `RemoveAtRange`, `TailRange`.
`FillBook` applies the one-sided lemma `FillSideAgrees` twice, to the bid and to the
ask. `NextIInv` has one step per action.

`TakerProofs` and `RefinementProofs` prove six more theorems about the engine from the
same assumptions, and `TotalsProofs` six.

`TakerProofs`, about the order being added, with `TakerInv` and `SweepInv`:

- `FrontsExist`: `Spec => []NoEmptyFront`
- `TakerTrades`: `Spec => []TakerInEveryTrade`
- `FillAndKillNeverRests`: `Spec => []NoFillAndKillAtRest`
- `MarketSweeps`: `Spec => []MarketOrderSweeps`

**The invariant** `TakerInv`: leaving the new order aside, the orders do not cross and
none is FillAndKill (`OthersRest`), which is the state the mutex was taken in; so a bid
and an ask that trade cannot both be others. A FillAndKill order was admitted because
it accepts a price that no order of its side accepts, so its price is better than all
of theirs (`KillLeads`), and what is left of it is found at the front of a best level
(`NothingToKill`). Only the two best levels can become empty, and only while the book is
crossed (`EmptyLevels`). `Kept` says what a fill leaves alone, and carries all of them
through the loop. `SweepInv`: the limit of a Market order accepts every opposite price,
and levels are only removed.

`TakerProofs` also proves `PartialsKeepTheirPlace`: `Spec => []PartialFillsLead` when
`InputFilled` is `{0}` at most. A new order goes behind the queue, a cancel removes one
node and leaves the others in order, and of two orders that trade one is filled and
popped. The orders of `ModifyOrder` are fresh (`FreshRequests`).

`RefinementProofs` proves `ImplementsPriceTimeBook`: `Spec => PriceTimePriority`, the
step simulation of `PriceTimeBook`. The arrival order of the mapping is restated by
queues (`PairsOf`); `LeadsAppend`, `LeadsRemove` and `LeadsTail` say what each list
operation does to it, `EnterPairs` and `LeavePairs` what follows for the whole book.
`FrontIsFirst` is the heart of it: the front of the best level is the order that no
other has priority over. `AddOrder` and `AddModified` enter, `CancelOrder` and
`CancelOriginal` withdraw, `FillFront` executes, and all else stutters.

`TotalsProofs` is about sums over orders. From the assumptions of the modules alone:

- `Balances`: `Spec => MatchingBalances`
- `LoopsAdvance`: `Spec => MatchingAdvances`

`Balances` relates what `AddOrder` returns to what happens to the book: `FillBalances` takes
one round, in which the two orders lose what the new trade says (`TradedWith`), and
`SettleSide` the sum of a side after it. `LoopsAdvance` is what can be proved of
`MatchingEnds`: every round makes `BookSize` smaller, a natural
number. What remains for fairness is that the thread is run. `OrdersFinite` and
`LevelsFinite` are the invariants; one of two orders that trade is filled and gone
(`FilledIsGone`), a trade of quantity zero included.

And under hypotheses, each of which a run or a finding shows to be needed:

- `TotalsAreExact`: `TotalsHold` implies `Spec => []LevelDataExact`
- `CanFillIsRight`: `TotalsFit` implies `Spec => []CanFullyFillExact`
- `FillOrKillIsFilled`: `TotalsFit` implies `Spec => []FillOrKillFills`
- `ModifyIsSafe`: `OneThreadOnly`, with `TotalsFit` or with no FillOrKill among
  `InputType`, implies `Spec => ModifyNeverLoses`

| hypothesis | says | without it |
|---|---|---|
| `TotalsHold` | a freed key is not found in `data_` (`FreedKey = {"cleared"}`) | `stale_totals` |
| | submitted orders are fresh (`InputFilled` is `{0}` at most) | `engine` with `InputFilled = {1}` |
| | there are finitely many ids, fewer than `QMod` | a count of `QMod` orders wraps to 0, and the entry goes |
| `TotalsFit` | and quantities are at most some m, with m times the number of ids below `QMod` | `engine` with `QMod = 4` |
| `OneThreadOnly` | there is one thread | `modify_race`; another thread takes the id between the cancel and the add |

`FreedKey = {"cleared"}` is the one that does not hold on every build, and the theorem
says how much depends on it. The quantities of a million orders of 4000 units fit in
32 bits.

**The invariants.** `TotalsInv`: the entry of a price has the count and the wrapped sum of
the orders there, and there is an entry just where there are orders (`LevelsCounted`);
when a list becomes empty, `MatchOrders` then finds no entry to erase, as the key it reads
is freed. The orders that wait in a `ModifyOrder` are fresh. `UpdateCounted` is the
arithmetic of one `UpdateLevelData` modulo `QMod` (`WrapOnce`). `Bounded(m)`: no order, in
the book or waiting in a `ModifyOrder`, holds more than m, so that no sum wraps.
`CanFillIsRight` then follows the loop of `CanFullyFill` through the entries in whatever
order the fold takes them: what is left to cover is what was asked minus the orders seen,
and it answers at the entry at which they suffice. `FillInv` carries that answer through
`MatchOrders`: as long as the FillOrKill order is in the book, what is left of it is
covered by the orders it accepts; were it in the book when matching is over, one of those
would be there too, and meet it. `LastingInv` says that only GoodTillCancel and GoodForDay
orders are found at rest; FillAndKill orders are killed, FillOrKill orders filled and
Market orders renamed. So a `ModifyOrder` adds back an order that `AddOrder` could refuse
for its id only, and `CancelledIsGone` says that the id is free.

`FoldLemmas` proves what the folds of the community modules compute on finite sets: that
the recursive function of a fold exists, that a sum is the value at any element and
the sum over the rest, and what follows for unions, changes of one value and bounds. The
theorems on induction cannot be used, as they take a predicate; the same arguments are
made with the set of the cases for which a fact holds, and the well-foundedness of `<`
on the naturals (`NatSets`, `Subsets`).

`ReaderProofs` proves, for any `MaxWrites`:

- `ReaderTypeCorrect`: `ReaderSpec => []ReaderTypeOK`
- `QuietWalksAreExact`: `ReaderSpec => []QuietWalkExact`

A walk that has not gone astray stands on a level of its map and an order of its list
(`Stands`), whatever clients do between its steps. As long as they do nothing
(`QuietInv`), the level infos so far are those of the levels behind the cursor, best
first (`Lists`, `Passed`), the running sum is that of the orders of the list behind it
(`Summed`), and the mutex is free, so that no level is empty (`NoneEmptyUnlessCrossed`).
`AccumulateSums` adds an order, `ListsOneMore` a level. Both sums wrap, and the counts add
up to `Size` modulo `QMod`.

`LifecycleProofs` proves, for any number of client threads, any client calls and any
reading of the flag before it is initialised, and with spurious wakeups or without:

- `LifeTypesCorrect`: `LifeSpec => []LifeTypeOK`
- `PruningIsHarmless`: `LifeSpec => PruningKeepsOrders`
- `PruningIsExcluded`: `LifeSpec => PruningExcludes`
- `ObjectKeepsItsBook`: `LifeSpec => [](BookIndexAgree /\ UncrossedAtRest)`

**The invariant** `LifeInv`: the engine's `IInv` and `TakerInv` while the pruning thread
does not have the mutex, and a book at rest while it does (`AtRest`); no order in the
book is a Market order (`NoMarket`), because `AddOrder` reprices it first; hence nothing
is ever due. `PruningKeepsLifeInv` has one step per action of the pruning thread, and
`CallKeepsLifeInv` takes the calls of clients from the lemmas on `Next`: a client that has the mutex
finds the invariants it left (`AtRestStays`, `AtRestIsFree`). `ObjectKeepsItsBook` is what
is proved of the engine alone, for the book inside its object.

`ClockProofs` proves, for every start, all delays within the assumptions listed under
`PruneClock`, and one change of local time by an hour at any moment:

- `ClockTypeCorrect`: `Spec => []TypeOK` (no wait is begun that would end at once)
- `NoDayIsMissed`: `Spec => NoDayMissed`
- `OncePerDay`: `NeverSetBack` implies `Spec => EveryDayOnce`
- `NeverEarly`: `NeverSetBack` implies `Spec => NotBeforeFour`

`NeverSetBack` says that no change in `Shift` is negative; `clock_back` shows that neither
holds without it. `NoDayIsMissed` needs no such hypothesis.

**The invariant** `ClockInv` says where local time stands relative to the 4 PM of the
last pass. When the clock is read it is between that 4 PM and the next, or in the hour
before it if the clock was set back (`Due`); a wait remembers a moment, at most 6 hours
ago, at which that was so and from which `till` was computed (`Aimed`); a pass begins
less than 8 hours after its 4 PM (`Late`). `TillIs` is the arithmetic of the code: between two
4 PMs, `till` runs to the later one and the delay beyond. `Elapsed` bounds what a change
of local time does to a duration; `PassTaken` combines them at the end of a wait, and the
properties follow from it.

**Only model-checked.** Liveness, which is out of the reach of the prover: `MatchingEnds`
(but for `LoopsAdvance`) and `DestructorCompletes`. And the properties that are
violated, of which there is nothing to prove. Every invariant and every action property
of the runs that pass is a theorem.

What the prover cannot expand is kept out of the definitions: `SelectSeq` in `CancelDue`,
`FoldLeft` and `SetToSortSeq` about the walk; sums over functions and sets, and a list
described by its range and its order, say the same.

## 5. The plan

Built first, because everything else rests on it: the engine with its totals, its
callers' threads, its abstract specification, and the proof of its index; then the
object's life and the pruning thread; then the queries, orders submitted again, the
loop of `CanFullyFill`, the failing `ModifyOrder`, and the pruning clock with its proof.
Every operation of the program that changes state is modelled. Then the proofs: what
`AddOrder` does with the order it adds, the refinement of `PriceTimeBook`, and the walk
of `GetOrderInfos`; then everything about sums, the invariants of the book inside its
object, and the progress of the loops. What could be added: what is left of the exactness
of `data_` on builds where a freed key still reads as the price, and `ModifyOrder` among
threads that use disjoint ids.

**Not modelled, and why.** Allocation failure and exceptions of the library
(`Fill` and `ToGoodTillCancel` throw only where their callers have excluded it);
orders of other types than Market without a price; clients that change an `Order`
object the book holds (it has public mutators and is shared); values of a freed key
other than the two. Of a walk of `GetOrderInfos`: what it reads in the middle of one list or
tree operation, what it does once it stands on an erased node (both undefined), and
walks that clients keep ahead of for ever by adding levels. Of the clock: changes of
local time by other amounts or more than one, and a time zone's calendar. `main.cpp`
constructs an order book and destroys it. The test harness (`Testing/test.cpp`) reads
scenario files, calls the public operations in order from one thread and compares three counts, which
`QuietWalkExact` relates: parsing of input, with no state of the order book. googletest
is vendored third-party code, by far the most of the repository's lines, and `build/`
holds binaries. Nothing else remains to be modelled.
