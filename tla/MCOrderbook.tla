------------------------------ MODULE MCOrderbook ------------------------------
(***************************************************************************)
(* Instances of Orderbook for TLC: the sets the configurations share.      *)
(***************************************************************************)
EXTENDS OrderbookRefinement

CONSTANTS o1, o2, o3, t1, t2

TwoIds == {o1, o2}
ThreeIds == {o1, o2, o3}
OneThread == {t1}
TwoThreads == {t1, t2}

TwoPrices == 1 .. 2

\* Ids and threads are compared and nothing else.
Symmetry == Permutations(OrderId) \cup Permutations(Thread)
==============================================================================
