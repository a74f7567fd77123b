------------------------------ MODULE MCNodeSharing -----------------------------
(* What a page is fed from, side by side in one instance: the live straddle       *)
(* sessions (StraddleSocket), the chains with the expiry cockpit that holds them   *)
(* (Cockpit), and the page's own connection (BrowserSocket).  They touch no common *)
(* state, so a behaviour is one of the three and `part` says which; the others     *)
(* rest in a state where fairness asks nothing of them.                           *)
EXTENDS StraddleSocket, Cockpit, BrowserSocket

CONSTANTS d1, d2, w1

MCHolder == {d1, d2, w1}
MCDesk == {d1, d2}

VARIABLE part

MCInit ==
  /\ part \in {"straddle", "cockpit", "page"}
  /\ Init /\ CockpitInit /\ PageInitAt(IF part = "page" THEN "opens" ELSE "left")

MCNext ==
  \/ part = "straddle" /\ Next /\ UNCHANGED <<part, cockpitVars, pageVars>>
  \/ part = "cockpit" /\ CockpitNext /\ UNCHANGED <<part, vars, pageVars>>
  \/ part = "page" /\ PageNext /\ UNCHANGED <<part, vars, cockpitVars>>

MCSpec ==
  /\ MCInit /\ [][MCNext]_<<part, vars, cockpitVars, pageVars>>
  /\ Fairness /\ CockpitFairness /\ PageFairness

================================================================================
