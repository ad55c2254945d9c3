----------------------------- MODULE PriceTimeBook -----------------------------
(***************************************************************************)
(* What the order book promises, with none of its data structures: a set   *)
(* of resting orders, matched one pair at a time in price-time priority.   *)
(* A better price comes first; at one price, the order that came first.    *)
(***************************************************************************)
EXTENDS LevelData

VARIABLES
    resting,    \* what rests under each id: side, price and quantity
    before      \* <<a, b>>: a came before b, to the same side and price

vars == <<resting, before>>

Entry == [side : Side, price : Price, remaining : Quantity]

\* The types of the two variables.
TypeOK ==
    /\ IsMap(resting, OrderId, Entry)
    /\ before \subseteq (DOMAIN resting) \X (DOMAIN resting)

Init ==
    /\ resting = <<>>
    /\ before = {}

Better(side, p, q) == IF side = "Buy" THEN p > q ELSE p < q

\* The orders of a side that no other order of the side has priority over.
First(side) ==
    {id \in DOMAIN resting :
        /\ resting[id].side = side
        /\ \A other \in DOMAIN resting :
              resting[other].side = side =>
                  /\ ~Better(side, resting[other].price, resting[id].price)
                  /\ <<other, id>> \notin before}

Crossed ==
    \E bid, ask \in DOMAIN resting :
        /\ resting[bid].side = "Buy"
        /\ resting[ask].side = "Sell"
        /\ resting[bid].price >= resting[ask].price

\* An order enters the book only when every trade has been made.
Enter(id, entry) ==
    /\ ~Crossed
    /\ id \notin DOMAIN resting
    /\ resting' = Put(resting, id, entry)
    /\ before' = before \cup
          {<<other, id>> : other \in {o \in DOMAIN resting :
                /\ resting[o].side = entry.side
                /\ resting[o].price = entry.price}}

Leave(gone) == {pair \in before : pair[1] \notin gone /\ pair[2] \notin gone}

Withdraw(id) ==
    /\ ~Crossed
    /\ id \in DOMAIN resting
    /\ resting' = Without(resting, id)
    /\ before' = Leave({id})

\* The first bid and the first ask trade as much as they can.
Execute(bid, ask) ==
    LET quantity == IF resting[bid].remaining <= resting[ask].remaining
                    THEN resting[bid].remaining ELSE resting[ask].remaining
        after == [id \in DOMAIN resting |->
                    IF id \in {bid, ask}
                    THEN [resting[id] EXCEPT !.remaining = @ - quantity]
                    ELSE resting[id]]
        filled == {id \in {bid, ask} : after[id].remaining = 0}
    IN  /\ resting[bid].price >= resting[ask].price
        /\ resting' = Restrict(after, DOMAIN after \ filled)
        /\ before' = Leave(filled)

Next ==
    \/ \E id \in OrderId, entry \in Entry : Enter(id, entry)
    \/ \E id \in OrderId : Withdraw(id)
    \/ \E bid \in First("Buy"), ask \in First("Sell") : Execute(bid, ask)

Spec == Init /\ [][Next]_vars
==============================================================================
