-------------------------------- MODULE MCReader -------------------------------
(***************************************************************************)
(* Instances of LevelReader for TLC.                                       *)
(***************************************************************************)
EXTENDS LevelReader

CONSTANTS o1, o2, t1, t2

TwoIds == {o1, o2}
OneThread == {t1}
TwoThreads == {t1, t2}
TwoPrices == 1 .. 2

\* Ids and threads are compared and nothing else.
Symmetry == Permutations(OrderId) \cup Permutations(Thread)
==============================================================================
