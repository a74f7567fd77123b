---------------------------- MODULE EngineRunProofs ----------------------------
(* Machine-checked proofs about EngineRun, for every chain, every drift         *)
(* threshold and every capacity of the events channel.                          *)
EXTENDS EngineRun, TLAPS

(* Where the router is, seen from Run: still running with no answer, or         *)
(* returned with its answer in done.                                            *)
Owed == (live = 1 /\ ~done) \/ (live = 0 /\ done)
Settled == live = 0 /\ ~done

RunInv ==
  /\ pc \in {"loop", "returned"} => Settled
  /\ pc = "pump" => Owed /\ ~closed
  /\ pc = "join" => IF reason = "answer" THEN Settled ELSE Owed /\ ~closed
  /\ reason = "context" => ctxDone
  /\ armed = timer
  /\ pc = "pump" /\ dirty => timer
  /\ pc = "loop" /\ dirty => ctxDone
  /\ pc = "join" /\ dirty => ctxDone \/ reason = "answer"
  /\ pc = "join" => reason # "none"

LEMMA InitHolds == Init => TypeOK /\ RunInv
<1> SUFFICES ASSUME Init PROVE TypeOK /\ RunInv
  OBVIOUS
<1>1. events \in Seq(Frame) /\ Len(events) <= EventsCap /\ since \in 0..RearmMin
  BY EngineAssumption DEF Init
<1>2. TypeOK
  BY <1>1 DEF Init, TypeOK
<1>3. RunInv
  BY DEF Init, RunInv, Settled, Owed
<1> QED BY <1>2, <1>3

(* The first position of the grid is a strike; a clipped clock stays in range.  *)
LEMMA Tails ==
  ASSUME NEW q \in Seq(Frame), Len(q) <= EventsCap, q # <<>>
  PROVE  Tail(q) \in Seq(Frame) /\ Len(Tail(q)) <= EventsCap /\ Head(q) \in Frame
BY EngineAssumption

LEMMA TypeStep == TypeOK /\ RunInv /\ [Next]_vars => TypeOK'
<1> SUFFICES ASSUME TypeOK, RunInv, [Next]_vars PROVE TypeOK'
  OBVIOUS
<1> USE EngineAssumption DEF TypeOK, chanVars, depthVars, quoteVars
<1>0. <<>> \in Seq(Frame) /\ Len(<<>>) = 0
  OBVIOUS
<1>1. CASE LoopEnds
  BY <1>1 DEF LoopEnds
<1>2. CASE Open
  <2>1. pc' = "pump" /\ reason' = "none" /\ live' = live + 1
    BY ONLY <1>2 DEF Open
  <2>2. events' \in Seq(Frame) /\ Len(events') <= EventsCap
    BY <1>2, <1>0 DEF Open
  <2>3. UNCHANGED <<ctxDone, centre, since, spot, dirty>>
    BY ONLY <1>2 DEF Open, depthVars
  <2>4. runDone' \in BOOLEAN /\ done' \in BOOLEAN /\ closed' \in BOOLEAN
        /\ armed' \in BOOLEAN /\ timer' \in BOOLEAN
    BY ONLY <1>2 DEF Open
  <2> QED BY <2>1, <2>2, <2>3, <2>4
<1>3. CASE Join
  BY <1>3 DEF Join
<1>4. CASE Drain
  BY <1>4, Tails DEF Drain
<1>5. CASE PumpContext
  BY <1>5 DEF PumpContext, Leave
<1>6. CASE PumpAnswer
  BY <1>6 DEF PumpAnswer, Leave
<1>7. CASE Ingest
  <2>1. events # <<>> /\ events' = Tail(events)
    BY <1>7 DEF Ingest
  <2>2. Head(events) \in Frame /\ events' \in Seq(Frame) /\ Len(events') <= EventsCap
    BY <2>1, Tails
  <2>3. spot' \in Strike \cup {NoStrike}
    BY <1>7, <2>2 DEF Ingest, Frame
  <2>4. dirty' \in BOOLEAN /\ armed' \in BOOLEAN /\ timer' \in BOOLEAN
    BY <1>7, <2>2 DEF Ingest, Frame
  <2> QED BY <1>7, <2>2, <2>3, <2>4 DEF Ingest
<1>8. CASE TimerFires
  <2>1. timer' = FALSE /\ armed' = FALSE /\ dirty' = FALSE
        /\ UNCHANGED <<ctxDone, live, done, events, closed, spot>>
    BY ONLY <1>8 DEF TimerFires, TimerFiresWith, chanVars
  <2>2. \/ pc' = "join" /\ reason' = "rearm" /\ runDone' = TRUE /\ centre' = spot /\ since' = 0
        \/ UNCHANGED <<pc, reason, runDone, centre, since>>
    BY ONLY <1>8 DEF TimerFires, TimerFiresWith, Leave
  <2>3. since' \in 0..RearmMin
    BY <2>2
  <2>4. centre' \in Strike \cup {NoStrike} /\ spot' \in Strike \cup {NoStrike}
    BY <2>1, <2>2
  <2>5. runDone' \in BOOLEAN /\ timer' \in BOOLEAN /\ armed' \in BOOLEAN /\ dirty' \in BOOLEAN
        /\ pc' \in {"loop", "pump", "join", "returned"}
        /\ reason' \in {"none", "context", "answer", "rearm"}
    BY <2>1, <2>2
  <2> QED BY <2>1, <2>3, <2>4, <2>5
<1>9. CASE Publish
  <2>1. PICK e \in Frame : events' = Append(events, e)
    BY <1>9 DEF Publish
  <2>2. events' \in Seq(Frame) /\ Len(events') <= EventsCap
    BY <1>9, <2>1 DEF Publish
  <2> QED BY <1>9, <2>2 DEF Publish
<1>10. CASE RouterStops
  BY <1>10 DEF RouterStops, Answered
<1>11. CASE RouterEnds
  BY <1>11 DEF RouterEnds, Answered
<1>12. CASE Cancel
  BY <1>12 DEF Cancel
<1>13. CASE Tick
  BY <1>13 DEF Tick
<1>14. CASE UNCHANGED vars
  BY <1>14 DEF vars
<1> QED BY <1>1, <1>2, <1>3, <1>4, <1>5, <1>6, <1>7, <1>8, <1>9, <1>10, <1>11, <1>12, <1>13, <1>14
        DEF Next

LEMMA RunStep == TypeOK /\ RunInv /\ [Next]_vars => RunInv'
<1> SUFFICES ASSUME TypeOK, RunInv, [Next]_vars PROVE RunInv'
  OBVIOUS
<1> USE EngineAssumption DEF TypeOK, RunInv, Owed, Settled, chanVars, depthVars, quoteVars
<1>1. CASE LoopEnds
  BY <1>1 DEF LoopEnds
<1>2. CASE Open
  <2>1. pc = "loop" /\ ~ctxDone /\ pc' = "pump" /\ reason' = "none" /\ live' = live + 1
        /\ ~done' /\ ~closed' /\ ~armed' /\ ~timer'
    BY ONLY <1>2 DEF Open
  <2>2. UNCHANGED <<ctxDone, dirty>>
    BY ONLY <1>2 DEF Open
  <2>3. armed' = timer'
    BY ONLY <1>2 DEF Open
  <2> QED BY <2>1, <2>2, <2>3
<1>3. CASE Join
  BY <1>3 DEF Join
<1>4. CASE Drain
  BY <1>4 DEF Drain
<1>5. CASE PumpContext
  BY <1>5 DEF PumpContext, Leave
<1>6. CASE PumpAnswer
  BY <1>6 DEF PumpAnswer, Leave
<1>7. CASE Ingest
  <2>1. Head(events).touched \in BOOLEAN
    BY <1>7, Tails DEF Ingest, Frame
  <2>2. dirty' = (dirty \/ Head(events).touched) /\ armed' = (armed \/ Head(events).touched)
        /\ timer' = (timer \/ (Head(events).touched /\ ~armed))
    BY <1>7 DEF Ingest
  <2>3. armed' = timer' /\ (dirty' => timer')
    BY <1>7, <2>1, <2>2 DEF Ingest
  <2> QED BY <1>7, <2>3 DEF Ingest
<1>8. CASE TimerFires
  BY <1>8 DEF TimerFires, TimerFiresWith, Leave
<1>9. CASE Publish
  BY <1>9 DEF Publish
<1>10. CASE RouterStops
  BY <1>10 DEF RouterStops, Answered
<1>11. CASE RouterEnds
  BY <1>11 DEF RouterEnds, Answered
<1>12. CASE Cancel
  BY <1>12 DEF Cancel
<1>13. CASE Tick
  BY <1>13 DEF Tick
<1>14. CASE UNCHANGED vars
  BY <1>14 DEF vars
<1> QED BY <1>1, <1>2, <1>3, <1>4, <1>5, <1>6, <1>7, <1>8, <1>9, <1>10, <1>11, <1>12, <1>13, <1>14
        DEF Next

(* The invariant everything below is read off. *)
THEOREM Invariance == Spec => [](TypeOK /\ RunInv)
<1>1. TypeOK /\ RunInv /\ [Next]_vars => (TypeOK /\ RunInv)'
  BY TypeStep, RunStep
<1> QED BY <1>1, InitHolds, PTL DEF Spec

(* However often the session re-arms, one router at a time holds its broker     *)
(* subscription, and none is left to send on a closed channel.                  *)
THEOREM OneRouterHolds == Spec => []OneRouter
<1>1. TypeOK /\ RunInv => OneRouter
  BY DEF TypeOK, RunInv, Owed, Settled, OneRouter
<1> QED BY <1>1, Invariance, PTL

(* No change of a leg is left without a throttle timer to compute it.           *)
THEOREM QuoteHasATimerHolds == Spec => []QuoteHasATimer
<1>1. RunInv => QuoteHasATimer
  BY DEF RunInv, QuoteHasATimer
<1> QED BY <1>1, Invariance, PTL

(* The answer received by pump is the only way Run can wait for nothing.        *)
THEOREM OnlyATakenAnswerHangsHolds == Spec => []OnlyATakenAnswerHangs
<1>1. TypeOK /\ RunInv => OnlyATakenAnswerHangs
  BY DEF TypeOK, RunInv, Owed, Settled, OnlyATakenAnswerHangs
<1> QED BY <1>1, Invariance, PTL

================================================================================
