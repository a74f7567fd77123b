-------------------------------- MODULE MCGoStream ------------------------------
(* The two ends of marketd's way of a point, side by side in one instance: the     *)
(* supervised child the ticks come from (BridgeRun), and the retained window and  *)
(* the sockets its points leave by (LiveStream).  A behaviour is one of the two,   *)
(* `part` says which; the other rests in a state from which it takes no step.    *)
EXTENDS BridgeRun, LiveStream

VARIABLE part

(* A source nobody has started. *)
BridgeRests ==
  /\ cancelled = FALSE
  /\ pc = "unborn" /\ child = "none" /\ runDone = FALSE /\ dog = "off"
  /\ strays = 0 /\ out = 0 /\ clock = 0 /\ sawData = FALSE /\ attempt = 0 /\ abandoned = FALSE

MCInit ==
  /\ \/ part = "bridge" /\ Init
     \/ part = "stream" /\ BridgeRests
  /\ StreamInit

MCNext ==
  \/ part = "bridge" /\ Next /\ UNCHANGED <<part, streamVars>>
  \/ part = "stream" /\ StreamNext /\ UNCHANGED <<part, vars>>

MCSpec == MCInit /\ [][MCNext]_<<part, vars, streamVars>> /\ Fairness /\ StreamFairness

================================================================================
