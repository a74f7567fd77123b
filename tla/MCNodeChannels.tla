----------------------------- MODULE MCNodeChannels ----------------------------
(* What the Node backend holds open for those who want it, side by side in one    *)
(* instance: the live tick channel (LiveRouter; two feeds: the first keeps one     *)
(* socket and lists one contract, the second keeps its streams apart and lists    *)
(* both), the chains of the watches and the conversations (WatchMonitor), and the  *)
(* computed sessions that are continued (StraddleHistory; of three strikes one      *)
(* prints in every bar: with the spot at the first, the first at two prices or the   *)
(* second at the lower of them; with the spot at the third, which never prints, the *)
(* first has no quote).                                                          *)
(* They touch no common state, so a behaviour is one of the three and `part` says  *)
(* which; the others stay in an initial state of their own.                       *)
EXTENDS LiveRouter, WatchMonitor, StraddleHistory, TLC

CONSTANTS c1, c2, k1, k2, w1, w2, v1, r1, r2
VARIABLE part

MCStrike == {1, 2, 3}
MCPrint(s, v) == [r \in MCStrike |-> IF r = s THEN v ELSE Silent]
MCTicks ==
  [spot : {1}, print : {MCPrint(1, 1), MCPrint(1, 2), MCPrint(2, 1)}]
    \cup {[spot |-> 3, print |-> MCPrint(1, 0)]}
MCForward == [s \in MCStrike |-> [q \in {1, 2} |-> IF <<s, q>> = <<1, 1>> THEN 1 ELSE 3]]

MCKey == {w1, w2}
MCConv == {v1}
MCCall == {r1, r2}

MCConsumer == {c1, c2}
MCContract == {k1, k2}
MCCovers == [f \in Feed |-> IF f = 1 THEN {k1} ELSE MCContract]
MCReplacing == {1}
MCStream == 1 .. 3
MCSymmetry == Permutations({w1, w2}) \cup Permutations({r1, r2})

MCInit ==
  /\ part \in {"ticks", "watches", "history"} /\ Init /\ WatchInit /\ HistoryInit
  /\ part # "history" => kind = "band"

MCNext ==
  \/ part = "ticks" /\ Next /\ UNCHANGED <<part, watchVars, history>>
  \/ part = "watches" /\ WatchNext /\ UNCHANGED <<part, vars, history>>
  \/ part = "history" /\ HistoryNext /\ UNCHANGED <<part, vars, watchVars>>

MCSpec == MCInit /\ [][MCNext]_<<part, vars, watchVars, history>>

================================================================================
