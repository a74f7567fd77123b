------------------------------- MODULE EngineRun -------------------------------
(* backend-go/straddle/engine.go: Engine.Run and pump.  Run opens one router    *)
(* after another, each over a subscription centred on a strike; pump is the     *)
(* single goroutine that ingests the router's frames, computes once per         *)
(* throttle window, and leaves when the ATM has drifted away from the centre.   *)
(*                                                                              *)
(* Strikes are positions on the chain's grid.  A frame is what pump does with   *)
(* it: the ATM its spot price puts the session at, and whether it touched a     *)
(* leg.  Bars, the market-state heartbeat and the point itself are left out.    *)
(* The router is what FeedRouter shows of it: it returns nil once its context   *)
(* has ended, and may return nil before.                                        *)
EXTENDS Integers, Sequences

CONSTANTS
  NStrikes,
  RearmDrift,
  RearmMin,    \* RearmMinMs in units of Tick
  EventsCap    \* capacity of Run's events channel

ASSUME EngineAssumption ==
  /\ NStrikes \in Nat \ {0}
  /\ RearmDrift \in Nat /\ RearmMin \in Nat /\ EventsCap \in Nat \ {0}

Strike == 1..NStrikes
NoStrike == 0
Frame == [atm : Strike \cup {NoStrike}, touched : BOOLEAN]

VARIABLES
  pc,       \* where Run is: its loop, inside pump, or waiting on done
  reason,   \* why pump left
  ctxDone,  \* the session's context has ended
  runDone,  \* runCtx, of the current subscription, has been cancelled
  live,     \* router goroutines that have not returned
  done,     \* the router's answer is in the done channel
  events,   \* the current events channel
  closed,   \* it has been closed
  centre,   \* Engine.centre
  since,    \* time since lastRearm, RearmMin at most
  spot,     \* the ATM the last price seen puts the session at
  armed,    \* pump's armed
  timer,    \* the throttle timer is running
  dirty     \* a leg was touched since the last compute

chanVars == <<live, done, events, closed>>
depthVars == <<centre, since>>
quoteVars == <<spot, armed, timer, dirty>>
vars == <<pc, reason, ctxDone, runDone, chanVars, depthVars, quoteVars>>

TypeOK ==
  /\ pc \in {"loop", "pump", "join", "returned"}
  /\ reason \in {"none", "context", "answer", "rearm"}
  /\ ctxDone \in BOOLEAN /\ runDone \in BOOLEAN
  /\ done \in BOOLEAN /\ closed \in BOOLEAN
  /\ armed \in BOOLEAN /\ timer \in BOOLEAN /\ dirty \in BOOLEAN
  /\ live \in Nat
  /\ events \in Seq(Frame) /\ Len(events) <= EventsCap
  /\ centre \in Strike \cup {NoStrike} /\ spot \in Strike \cup {NoStrike}
  /\ since \in 0..RearmMin

(* AtmHint may have given the first subscription a centre. *)
Init ==
  /\ pc = "loop" /\ reason = "none"
  /\ ctxDone = FALSE /\ runDone = FALSE
  /\ live = 0 /\ done = FALSE /\ events = <<>> /\ closed = FALSE
  /\ centre \in Strike \cup {NoStrike} /\ since = RearmMin
  /\ spot = NoStrike /\ armed = FALSE /\ timer = FALSE /\ dirty = FALSE

--------------------------------------------------------------------------------
(* Run *)

LoopEnds ==
  /\ pc = "loop" /\ ctxDone
  /\ pc' = "returned"
  /\ UNCHANGED <<reason, ctxDone, runDone, chanVars, depthVars, quoteVars>>

(* A fresh events and done for a fresh router, subscribed around the centre. *)
Open ==
  /\ pc = "loop" /\ ~ctxDone
  /\ pc' = "pump" /\ reason' = "none" /\ runDone' = FALSE
  /\ live' = live + 1 /\ done' = FALSE /\ events' = <<>> /\ closed' = FALSE
  /\ armed' = FALSE /\ timer' = FALSE
  /\ UNCHANGED <<ctxDone, depthVars, spot, dirty>>

(* Mutant: Run does not wait for the router it cancelled. *)
JoinAtOnce ==
  /\ pc = "join"
  /\ closed' = TRUE
  /\ pc' = IF ctxDone THEN "returned" ELSE "loop"
  /\ UNCHANGED <<reason, ctxDone, runDone, live, done, events, depthVars, quoteVars>>

(* <-done, then close(events).  No router returns an error, so stopFatal is     *)
(* never the reason.                                                            *)
Join ==
  /\ pc = "join" /\ done
  /\ done' = FALSE /\ closed' = TRUE
  /\ pc' = IF ctxDone THEN "returned" ELSE "loop"
  /\ UNCHANGED <<reason, ctxDone, runDone, live, events, depthVars, quoteVars>>

Drain ==
  /\ pc = "join" /\ events # <<>>
  /\ events' = Tail(events)
  /\ UNCHANGED <<pc, reason, ctxDone, runDone, live, done, closed, depthVars, quoteVars>>

--------------------------------------------------------------------------------
(* pump *)

Leave(why, cancelled) == pc' = "join" /\ reason' = why /\ runDone' = cancelled

PumpContext ==
  /\ pc = "pump" /\ ctxDone
  /\ Leave("context", TRUE)
  /\ UNCHANGED <<ctxDone, chanVars, depthVars, quoteVars>>

(* The router's answer is received here, and Run will receive once more. *)
PumpAnswer ==
  /\ pc = "pump" /\ done
  /\ done' = FALSE
  /\ Leave("answer", TRUE)
  /\ UNCHANGED <<ctxDone, live, events, closed, depthVars, quoteVars>>

Ingest ==
  /\ pc = "pump" /\ events # <<>>
  /\ events' = Tail(events)
  /\ LET e == Head(events) IN
       /\ spot' = IF e.atm # NoStrike THEN e.atm ELSE spot
       /\ dirty' = (dirty \/ e.touched)
       /\ armed' = (armed \/ e.touched)
       /\ timer' = (timer \/ (e.touched /\ ~armed))
  /\ UNCHANGED <<pc, reason, ctxDone, runDone, live, done, closed, depthVars>>

Apart(s, c) == IF s > c THEN s - c ELSE c - s
Drifted == spot # NoStrike /\ (centre = NoStrike \/ Apart(spot, centre) > RearmDrift)
RearmDue == Drifted /\ since >= RearmMin

(* The window is over: compute, and act on the drift compute noted.             *)
TimerFiresWith(stillArmed, cancelled) ==
  /\ pc = "pump" /\ timer
  /\ timer' = FALSE /\ armed' = stillArmed /\ dirty' = FALSE
  /\ IF RearmDue
     THEN /\ centre' = spot /\ since' = 0
          /\ Leave("rearm", cancelled)
     ELSE UNCHANGED <<pc, reason, runDone, centre, since>>
  /\ UNCHANGED <<ctxDone, chanVars, spot>>

(* Mutants: the flag outlives the timer; the old router is not cancelled. *)
TimerFiresKeepsArmed == TimerFiresWith(TRUE, TRUE)
TimerFiresKeepsRouter == TimerFiresWith(FALSE, FALSE)

TimerFires == TimerFiresWith(FALSE, TRUE)

--------------------------------------------------------------------------------
(* The router, the hub and time *)

(* A frame the channel has no room for is lost. *)
Publish ==
  /\ live > 0 /\ ~closed /\ Len(events) < EventsCap
  /\ \E e \in Frame : events' = Append(events, e)
  /\ UNCHANGED <<pc, reason, ctxDone, runDone, live, done, closed, depthVars, quoteVars>>

Answered(answer) ==
  /\ live' = live - 1 /\ done' = answer
  /\ UNCHANGED <<pc, reason, ctxDone, runDone, events, closed, depthVars, quoteVars>>

(* Mutants: a cancelled router's goroutine leaves without its answer, or        *)
(* answers again.                                                               *)
RouterStopsSilently == live > 0 /\ (runDone \/ ctxDone) /\ Answered(FALSE)

RouterAnswersAgain == (runDone \/ ctxDone) /\ Answered(TRUE)

RouterStops == live > 0 /\ (runDone \/ ctxDone) /\ Answered(TRUE)

(* A promotion, or a source that is finished: Router.Run returns nil by itself. *)
RouterEnds == live > 0 /\ ~runDone /\ ~ctxDone /\ Answered(TRUE)

Cancel ==
  /\ ~ctxDone
  /\ ctxDone' = TRUE
  /\ UNCHANGED <<pc, reason, runDone, chanVars, depthVars, quoteVars>>

Tick ==
  /\ since < RearmMin
  /\ since' = since + 1
  /\ UNCHANGED <<pc, reason, ctxDone, runDone, chanVars, centre, quoteVars>>

Next ==
  \/ LoopEnds \/ Open \/ Join \/ Drain
  \/ PumpContext \/ PumpAnswer \/ Ingest \/ TimerFires
  \/ Publish \/ RouterStops \/ RouterEnds \/ Cancel \/ Tick

Spec == Init /\ [][Next]_vars

(* Run's goroutine is scheduled, select does not pass over a ready case for     *)
(* ever (it chooses among them at random), a throttle timer fires, and a router *)
(* whose context has ended returns (FeedRouter, CancelEndsTheRun).              *)
Fairness ==
  /\ WF_vars(LoopEnds \/ Open \/ Join)
  /\ WF_vars(PumpContext) /\ WF_vars(Ingest) /\ WF_vars(TimerFires)
  /\ WF_vars(RouterStops)

FairSpec == Spec /\ Fairness

--------------------------------------------------------------------------------
(* Safety *)

(* Re-arming replaces a subscription: the old router has returned before the    *)
(* next is opened, and events is never closed under a router that may still     *)
(* send on it, which would end the process.                                     *)
OneRouter == live <= 1 /\ (closed => live = 0)

(* A touched leg reaches the chart: while pump runs, a change not yet computed  *)
(* has a throttle timer running for it.                                         *)
QuoteHasATimer == pc = "pump" /\ dirty => timer

(* Run waits on done for a router that is still there, or whose answer is: the  *)
(* one wait that cannot end follows a pump that took the answer itself.         *)
OnlyATakenAnswerHangs == pc = "join" /\ live = 0 /\ ~done => reason = "answer"

(* A re-arm is not the end of the session: Run subscribes again around the new  *)
(* centre, or the session was cancelled meanwhile.                              *)
RearmResumes == pc = "join" /\ reason = "rearm" ~> pc \in {"pump", "returned"}

--------------------------------------------------------------------------------
(* What the comments in engine.go say and the code does not do *)

(* "Run owns the subscription until ctx ends": when it ends, Run returns.       *)
CancelEndsTheRun == ctxDone ~> pc = "returned"

================================================================================
