------------------------------ MODULE MCLifecycle ------------------------------
(***************************************************************************)
(* Instances of OrderbookLifecycle for TLC.                                *)
(***************************************************************************)
EXTENDS OrderbookLifecycle

CONSTANTS o1, o2, t1

OneId == {o1}
TwoIds == {o1, o2}
OneThread == {t1}
OnePrice == {1}
TwoPrices == 1 .. 2
==============================================================================
