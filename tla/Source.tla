--------------------------------- MODULE Source ---------------------------------
(* What backend-go/feed/feed.go asks of every Source, and what Router.Run and     *)
(* Engine.Run rely on: Run blocks until its context ends or the source gives up,  *)
(* and says which of the two it was.                                             *)

VARIABLES
  cancelled,  \* the context has ended
  run         \* Run has not returned, has returned nil, or has returned an error

TypeOK == cancelled \in BOOLEAN /\ run \in {"serving", "stopped", "gaveUp"}

Init == cancelled = FALSE /\ run = "serving"

Cancel == ~cancelled /\ cancelled' = TRUE /\ UNCHANGED run
Stop == run = "serving" /\ cancelled /\ run' = "stopped" /\ UNCHANGED cancelled
GiveUp == run = "serving" /\ run' = "gaveUp" /\ UNCHANGED cancelled

Next == Cancel \/ Stop \/ GiveUp

Spec == Init /\ [][Next]_<<cancelled, run>> /\ WF_<<cancelled, run>>(Stop)

================================================================================
