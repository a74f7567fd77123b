--------------------------- MODULE FeedRouterProofs ----------------------------
(* Machine-checked proofs about FeedRouter, for every number of sessions and    *)
(* feeds and every cooldown schedule.                                           *)
EXTENDS FeedRouter, TLAPS

Longest == MaxCooldown + (MaxCooldown \div 4)

(* Whatever the count of failures, the cooldown of Trip is a positive number of *)
(* time units no larger than the cap.                                           *)
LEMMA CappedBound == ASSUME NEW n \in Nat PROVE Capped(n) \in 1..MaxCooldown
<1> DEFINE i == IF n < 16 THEN n + 1 ELSE 17
<1>1. i \in 1..17
  OBVIOUS
<1>2. \A m \in 1..17 : Pow2[m] \in Nat \ {0}
  BY DEF Pow2
<1>3. PICK p \in Nat \ {0} : p = Pow2[i]
  BY <1>1, <1>2
<1>4. Base * p \in Nat \ {0}
  BY RouterAssumption
<1>5. Growth(n) \in Nat \ {0}
  BY <1>3, <1>4 DEF Growth
<1> QED BY <1>5, RouterAssumption DEF Capped

(* A cooldown with its jitter stays within a quarter of the cap. *)
LEMMA JitterBound ==
  ASSUME NEW c \in 1..MaxCooldown, NEW j \in Jitter(c)
  PROVE  c + j \in 1..Longest
BY RouterAssumption DEF Jitter, Longest

--------------------------------------------------------------------------------
(* A router between pick and the end of Run has a source to call serve with.    *)
Serving == {"chosen", "serve", "promoting", "stopping", "failed", "tripping", "clean"}

TypeInv ==
  /\ TypeOK
  /\ parked \in [Feed -> 0..Longest]
  /\ soonest \in [Session -> 0..Longest]
  /\ timer \in [Session -> 0..Longest]
  /\ \A r \in Session : pc[r] \in Serving => cur[r] \in Feed

LEMMA BoundsInit == Init => TypeInv
BY RouterAssumption DEF Init, TypeInv, TypeOK, Feed, Longest, Serving, Returned

LEMMA TypeStep == TypeInv /\ [Next]_vars => TypeInv'
<1> SUFFICES ASSUME TypeInv, [Next]_vars PROVE TypeInv'
  OBVIOUS
<1> USE RouterAssumption DEF TypeInv, TypeOK, Serving, Returned
<1>0. Longest \in Nat /\ Feed \subseteq Nat /\ NoFeed \notin Feed /\ 1 \in Feed
  BY DEF Longest, Feed, NoFeed
<1>1. ASSUME NEW r \in Session, Run(r) PROVE TypeInv'
  <2>1. CASE LoopEnds(r)
    BY <2>1, <1>0 DEF LoopEnds, Goto, breakerVars, pickVars
  <2>2. CASE PickFree(r)
    BY <2>2, <1>0 DEF PickFree, Goto, breakerVars
  <2>3. CASE PickParked(r)
    <3>1. /\ Sooner(r) \in 0..Longest
          /\ at[r] < NFeeds => at[r] + 1 \in Feed
      BY <2>3, <1>0 DEF PickParked, Sooner, Feed
    <3>2. CASE at[r] < NFeeds
      <4>1. /\ at' = [at EXCEPT ![r] = @ + 1]
            /\ soonest' = [soonest EXCEPT ![r] = Sooner(r)]
        BY ONLY <2>3, <3>2 DEF PickParked
      <4>2. UNCHANGED <<failures, parked, pc, timer, cur, source, raw, ctxDone>>
        BY ONLY <2>3, <3>2 DEF PickParked, breakerVars
      <4>3. at' \in [Session -> Feed] /\ soonest' \in [Session -> 0..Longest]
        BY <3>1, <3>2, <4>1
      <4>4. soonest' \in [Session -> Nat]
        BY <4>3, <1>0
      <4> QED BY <4>2, <4>3, <4>4
    <3>3. CASE ~(at[r] < NFeeds)
      <4>1. /\ at' = [at EXCEPT ![r] = 1]
            /\ soonest' = [soonest EXCEPT ![r] = 0]
            /\ timer' = [timer EXCEPT ![r] = Sooner(r)]
            /\ pc' = [pc EXCEPT ![r] = "wait"]
        BY ONLY <2>3, <3>3 DEF PickParked, Goto
      <4>2. UNCHANGED <<failures, parked, cur, source, raw, ctxDone>>
        BY ONLY <2>3, <3>3 DEF PickParked, breakerVars
      <4>3. at' \in [Session -> Feed] /\ soonest' \in [Session -> 0..Longest]
            /\ timer' \in [Session -> 0..Longest]
        BY <3>1, <4>1, <1>0
      <4>4. soonest' \in [Session -> Nat] /\ timer' \in [Session -> Nat]
        BY <4>3, <1>0
      <4> QED BY <4>1, <4>2, <4>3, <4>4
    <3> QED BY <3>2, <3>3
  <2>4. CASE WaitOver(r)
    BY <2>4, <1>0 DEF WaitOver, Goto, breakerVars, pickVars
  <2>5. CASE WaitCancelled(r)
    BY <2>5, <1>0 DEF WaitCancelled, Goto, breakerVars
  <2>6. CASE Begin(r)
    BY <2>6, <1>0 DEF Begin, Goto, breakerVars, pickVars
  <2>7. CASE AfterFailure(r)
    BY <2>7, <1>0 DEF AfterFailure, Goto, breakerVars, pickVars
  <2>8. CASE AfterClean(r)
    BY <2>8, <1>0 DEF AfterClean, Goto, breakerVars, pickVars
  <2>9. CASE SourceReturned(r)
    <3>1. /\ pc[r] = "serve" /\ Exited(r)
          /\ \/ pc' = [pc EXCEPT ![r] = "failed"] /\ source[r][cur[r]] \in {"failed", "stopped"}
             \/ pc' = [pc EXCEPT ![r] = "clean"]
          /\ raw' = [raw EXCEPT ![r] = 0]
      BY ONLY <2>9 DEF SourceReturned, Return, Goto
    <3>2. UNCHANGED <<failures, parked, at, soonest, timer, cur, source, ctxDone>>
      BY ONLY <2>9 DEF SourceReturned, breakerVars, pickVars
    <3> QED BY <3>1, <3>2, <1>0 DEF Exited
  <2>10. CASE ServeCancelled(r)
    BY <2>10, <1>0 DEF ServeCancelled, Goto, breakerVars, pickVars
  <2>11. CASE Stop(r)
    <3>1. /\ pc[r] \in {"promoting", "stopping"} /\ Exited(r)
          /\ pc' = [pc EXCEPT ![r] = "clean"]
          /\ raw' = [raw EXCEPT ![r] = 0]
      BY ONLY <2>11 DEF Stop, Return, Goto
    <3>2. UNCHANGED <<failures, parked, at, soonest, timer, cur, source, ctxDone>>
      BY ONLY <2>11 DEF Stop, breakerVars, pickVars
    <3> QED BY <3>1, <3>2, <1>0 DEF Exited
  <2>12. CASE Park(r)
    <3> DEFINE c == Capped(Bump(failures[cur[r]]) - 1)
    <3>0. c \in 1..MaxCooldown
      <4>1. Bump(failures[cur[r]]) - 1 \in Nat
        BY <2>12 DEF Park, Bump
      <4> QED BY <4>1, CappedBound
    <3>1. PICK j \in Jitter(c) :
               /\ failures' = [failures EXCEPT ![cur[r]] = Bump(@)]
               /\ parked' = [parked EXCEPT ![cur[r]] = c + j]
      BY <2>12 DEF Park, Trip, TripTo
    <3> HIDE DEF c
    <3>2. c + j \in 0..Longest
      BY <3>0, <3>1, JitterBound, <1>0
    <3>3. failures' \in [Feed -> 0..MaxFailures] /\ parked' \in [Feed -> 0..Longest]
      <4>1. Bump(failures[cur[r]]) \in 0..MaxFailures
        BY <2>12 DEF Park, Bump
      <4> QED BY <3>1, <3>2, <4>1
    <3>4. UNCHANGED <<pickVars, source, raw, ctxDone>>
          /\ pc' = [pc EXCEPT ![r] = "pick"] /\ cur' = [cur EXCEPT ![r] = NoFeed]
      BY <2>12 DEF Park, Goto
    <3> QED BY <3>3, <3>4, <1>0 DEF pickVars
  <2> QED BY <1>1, <2>1, <2>2, <2>3, <2>4, <2>5, <2>6, <2>7, <2>8, <2>9, <2>10, <2>11, <2>12 DEF Run
<1>2. ASSUME NEW r \in Session, Forward(r) PROVE TypeInv'
  BY <1>2, <1>0 DEF Forward, Succeed, pickVars
<1>3. ASSUME NEW r \in Session, PromoteTick(r) PROVE TypeInv'
  BY <1>3, <1>0 DEF PromoteTick, Goto, breakerVars, pickVars
<1>4. ASSUME NEW r \in Session, Cancel(r) PROVE TypeInv'
  BY <1>4, <1>0 DEF Cancel, breakerVars, pickVars
<1>5. ASSUME NEW r \in Session, NEW f \in Feed, Publish(r, f) PROVE TypeInv'
  BY <1>5, <1>0 DEF Publish, Running, breakerVars, pickVars
<1>6. ASSUME NEW r \in Session, NEW f \in Feed, GiveUp(r, f) PROVE TypeInv'
  BY <1>6, <1>0 DEF GiveUp, Running, Ended, breakerVars, pickVars, Returned
<1>7. ASSUME NEW r \in Session, NEW f \in Feed, StopSource(r, f) PROVE TypeInv'
  BY <1>7, <1>0 DEF StopSource, Running, Ended, breakerVars, pickVars, Returned
<1>8. CASE Tick
  BY <1>8, <1>0 DEF Tick, Less
<1>9. CASE UNCHANGED vars
  BY <1>9, <1>0 DEF vars, breakerVars, pickVars
<1> QED BY <1>1, <1>2, <1>3, <1>4, <1>5, <1>6, <1>7, <1>8, <1>9 DEF Next

(* Which source goroutine is alive, and why it has returned. *)
SourceInv ==
  /\ OneSubscription
  /\ \A r \in Session :
       /\ pc[r] = "failed" => source[r][cur[r]] \in {"failed", "stopped"}
       /\ pc[r] = "tripping" => source[r][cur[r]] = "failed"
       /\ pc[r] \in {"serve", "failed"} /\ source[r][cur[r]] = "stopped" => ctxDone[r]

LEMMA SourceStep == TypeInv /\ SourceInv /\ [Next]_vars => SourceInv'
<1> SUFFICES ASSUME TypeInv, SourceInv, [Next]_vars PROVE SourceInv'
  OBVIOUS
<1> USE RouterAssumption DEF TypeInv, TypeOK, Serving, Returned, SourceInv, OneSubscription, Running
<1>0. Feed \subseteq Nat /\ NoFeed \notin Feed
  BY DEF Feed, NoFeed
<1>1. ASSUME NEW r \in Session, Run(r) PROVE SourceInv'
  <2>1. CASE LoopEnds(r)
    BY <2>1, <1>0 DEF LoopEnds, Goto, breakerVars, pickVars
  <2>2. CASE PickFree(r)
    BY <2>2, <1>0 DEF PickFree, Goto, breakerVars
  <2>3. CASE PickParked(r)
    BY <2>3, <1>0 DEF PickParked, Goto, Sooner, breakerVars
  <2>4. CASE WaitOver(r)
    BY <2>4, <1>0 DEF WaitOver, Goto, breakerVars, pickVars
  <2>5. CASE WaitCancelled(r)
    BY <2>5, <1>0 DEF WaitCancelled, Goto, breakerVars
  <2>6. CASE Begin(r)
    BY <2>6, <1>0 DEF Begin, Goto, breakerVars, pickVars
  <2>7. CASE AfterFailure(r)
    BY <2>7, <1>0 DEF AfterFailure, Goto, breakerVars, pickVars
  <2>8. CASE AfterClean(r)
    BY <2>8, <1>0 DEF AfterClean, Goto, breakerVars, pickVars
  <2>9. CASE SourceReturned(r)
    <3>1. /\ pc[r] = "serve" /\ Exited(r)
          /\ \/ pc' = [pc EXCEPT ![r] = "failed"] /\ source[r][cur[r]] \in {"failed", "stopped"}
             \/ pc' = [pc EXCEPT ![r] = "clean"]
          /\ raw' = [raw EXCEPT ![r] = 0]
      BY ONLY <2>9 DEF SourceReturned, Return, Goto
    <3>2. UNCHANGED <<failures, parked, at, soonest, timer, cur, source, ctxDone>>
      BY ONLY <2>9 DEF SourceReturned, breakerVars, pickVars
    <3> QED BY <3>1, <3>2, <1>0 DEF Exited
  <2>10. CASE ServeCancelled(r)
    BY <2>10, <1>0 DEF ServeCancelled, Goto, breakerVars, pickVars
  <2>11. CASE Stop(r)
    <3>1. /\ pc[r] \in {"promoting", "stopping"} /\ Exited(r)
          /\ pc' = [pc EXCEPT ![r] = "clean"]
          /\ raw' = [raw EXCEPT ![r] = 0]
      BY ONLY <2>11 DEF Stop, Return, Goto
    <3>2. UNCHANGED <<failures, parked, at, soonest, timer, cur, source, ctxDone>>
      BY ONLY <2>11 DEF Stop, breakerVars, pickVars
    <3> QED BY <3>1, <3>2, <1>0 DEF Exited
  <2>12. CASE Park(r)
    BY <2>12, <1>0 DEF Park, Goto, pickVars
  <2> QED BY <1>1, <2>1, <2>2, <2>3, <2>4, <2>5, <2>6, <2>7, <2>8, <2>9, <2>10, <2>11, <2>12 DEF Run
<1>2. ASSUME NEW r \in Session, Forward(r) PROVE SourceInv'
  BY <1>2, <1>0 DEF Forward, Succeed, pickVars
<1>3. ASSUME NEW r \in Session, PromoteTick(r) PROVE SourceInv'
  BY <1>3, <1>0 DEF PromoteTick, Goto, breakerVars, pickVars
<1>4. ASSUME NEW r \in Session, Cancel(r) PROVE SourceInv'
  BY <1>4, <1>0 DEF Cancel, breakerVars, pickVars
<1>5. ASSUME NEW r \in Session, NEW f \in Feed, Publish(r, f) PROVE SourceInv'
  BY <1>5, <1>0 DEF Publish, Running, breakerVars, pickVars
<1>6. ASSUME NEW r \in Session, NEW f \in Feed, GiveUp(r, f) PROVE SourceInv'
  BY <1>6, <1>0 DEF GiveUp, Running, Ended, breakerVars, pickVars, Returned
<1>7. ASSUME NEW r \in Session, NEW f \in Feed, StopSource(r, f) PROVE SourceInv'
  BY <1>7, <1>0 DEF StopSource, Running, Ended, breakerVars, pickVars, Returned
<1>8. CASE Tick
  BY <1>8, <1>0 DEF Tick, Less
<1>9. CASE UNCHANGED vars
  BY <1>9, <1>0 DEF vars, breakerVars, pickVars
<1> QED BY <1>1, <1>2, <1>3, <1>4, <1>5, <1>6, <1>7, <1>8, <1>9 DEF Next

Inv == TypeInv /\ SourceInv

THEOREM Invariance == Spec => []Inv
<1>1. Init => SourceInv
  BY DEF Init, SourceInv, OneSubscription, Running
<1> QED BY <1>1, BoundsInit, TypeStep, SourceStep, PTL DEF Inv, Spec

(* Types, and a router never holds two broker subscriptions nor keeps one while *)
(* it picks, waits or is done.                                                  *)
THEOREM OneSubscriptionHolds == Spec => [](TypeOK /\ OneSubscription)
<1>1. Inv => TypeOK /\ OneSubscription
  BY DEF Inv, TypeInv, SourceInv
<1> QED BY <1>1, Invariance, PTL

(* No feed is parked, and no session waits, longer than the cap and its jitter. *)
THEOREM CooldownIsCapped == Spec => []CooldownCapped
<1>1. Inv => CooldownCapped
  BY RouterAssumption DEF Inv, TypeInv, CooldownCapped, Longest
<1> QED BY <1>1, Invariance, PTL

(* Only a source that gave up of its own accord is parked, by a router that asked  *)
(* whether its session was wanted; a cancellation between the two changes nothing  *)
(* of that (router.go 162-183).                                                  *)
THEOREM OnlyFailuresParkHolds == Spec => OnlyFailuresPark
<1>1. Inv /\ [Next]_vars =>
        [\A f \in Feed : parked'[f] > parked[f] =>
           \E r \in Session : pc[r] = "tripping" /\ source[r][f] = "failed"]_vars
  <2> SUFFICES ASSUME Inv, [Next]_vars, NEW f \in Feed, parked'[f] > parked[f]
               PROVE  \E r \in Session : pc[r] = "tripping" /\ source[r][f] = "failed"
    OBVIOUS
  <2> USE DEF Inv, TypeInv, TypeOK
  <2>1. ASSUME UNCHANGED parked PROVE FALSE
    BY <2>1
  <2>2. ASSUME \A g \in Feed : parked'[g] <= parked[g] PROVE FALSE
    <3>1. parked'[f] <= parked[f] /\ parked[f] \in Int /\ parked'[f] \in Int
      BY <2>2, TypeStep, RouterAssumption
    <3> QED BY <3>1
  <2>3. ~Tick
    <3>1. Tick => \A g \in Feed : parked'[g] <= parked[g]
      BY RouterAssumption DEF Tick, Less
    <3> QED BY <3>1, <2>2
  <2>4. \A r \in Session : ~Forward(r)
    <3>1. \A r \in Session : Forward(r) => \A g \in Feed : parked'[g] <= parked[g]
      BY RouterAssumption DEF Forward, Succeed
    <3> QED BY <3>1, <2>2
  <2>5. PICK r \in Session : Park(r)
    BY <2>1, <2>3, <2>4 DEF Next, Run, LoopEnds, PickFree, PickParked, WaitOver, WaitCancelled,
       Begin, AfterFailure, AfterClean, SourceReturned, ServeCancelled, Stop, PromoteTick, Cancel, Publish,
       GiveUp, StopSource, vars, breakerVars
  <2>6. pc[r] = "tripping"
    BY <2>5 DEF Park
  <2>7. source[r][cur[r]] = "failed"
    BY <2>6 DEF SourceInv
  <2>8. f = cur[r]
    <3>1. PICK v : parked' = [parked EXCEPT ![cur[r]] = v]
      BY <2>5, <2>6 DEF Park, Trip, TripTo
    <3> QED BY <3>1
  <2> QED BY <2>6, <2>7, <2>8
<1> QED BY <1>1, Invariance, PTL DEF Spec, OnlyFailuresPark

================================================================================
