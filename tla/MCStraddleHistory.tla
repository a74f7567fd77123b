--------------------------- MODULE MCStraddleHistory ---------------------------
(* One request at a time, and two contracts, one of which prints in every bar: the *)
(* first at two prices or no quote, the second at the lower of them.  The spot     *)
(* stays, and both are candidates and legs at every bar.                          *)
EXTENDS StraddleHistory

MCStrike == {1, 2}
MCTicks ==
  [spot : {1},
   print : {[s \in MCStrike |-> IF s = 1 THEN v ELSE Silent] : v \in {Out, 1, 2}}
             \cup {[s \in MCStrike |-> IF s = 1 THEN Silent ELSE 1]}]
MCForward == [s \in MCStrike |-> [q \in {1, 2} |-> 1]]
================================================================================
