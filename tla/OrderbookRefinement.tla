-------------------------- MODULE OrderbookRefinement --------------------------
(***************************************************************************)
(* Orderbook implements PriceTimeBook.  The abstract orders are those of   *)
(* orders_; the abstract arrival order is the order of the level lists.    *)
(***************************************************************************)
EXTENDS Orderbook

Resting ==
    [id \in DOMAIN orders |-> [side      |-> orders[id].side,
                               price     |-> orders[id].price,
                               remaining |-> orders[id].remaining]]

\* The pairs of ids of a queue, the one in front first.
InOrder(queue) ==
    {<<queue[ij[1]], queue[ij[2]]>> :
        ij \in {k \in (DOMAIN queue) \X (DOMAIN queue) : k[1] < k[2]}}

Before ==
    UNION {UNION {InOrder(book[side][p]) : p \in Levels(side)} : side \in Side}

Abstract == INSTANCE PriceTimeBook WITH resting <- Resting, before <- Before

\* Every behaviour of the lists, maps and locks of Orderbook is, seen from
\* the resting orders, a behaviour of a book in strict price-time priority.
PriceTimePriority == Abstract!Spec
==============================================================================
