----------------------------- MODULE MCLiveRouter ------------------------------
(* Two feeds: the first keeps one socket and lists one contract, the second    *)
(* keeps its streams apart and lists both.                                      *)
EXTENDS LiveRouter

CONSTANTS c1, c2, k1, k2

MCConsumer == {c1, c2}
MCContract == {k1, k2}
MCCovers == [f \in Feed |-> IF f = 1 THEN {k1} ELSE MCContract]
MCReplacing == {1}
MCStream == 1 .. 3
================================================================================
