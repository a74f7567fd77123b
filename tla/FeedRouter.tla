------------------------------ MODULE FeedRouter -------------------------------
(* backend-go/feed/router.go: one Router per live session, each running one     *)
(* source at a time out of a priority-ordered list, and the Breakers that all   *)
(* of them share.                                                               *)
(*                                                                              *)
(* Feeds are 1..NFeeds in priority order.  A breaker's openUntil is kept as the *)
(* time left, so the clock never grows; Tick lets one unit pass.  A frame is    *)
(* counted, not looked at.  Source.Run is the feed.Source contract: it          *)
(* publishes, gives up on its own, or returns once its context has ended.       *)
EXTENDS Integers, FiniteSets

CONSTANTS
  Session,      \* live sessions, each with a router of its own
  NFeeds,
  Base,         \* Breakers.Base
  MaxCooldown,  \* Breakers.Max
  MaxFailures,  \* bound: consecutive failures counted; the cooldown is flat by then
  RawCap        \* capacity of serve's raw channel

ASSUME RouterAssumption ==
  /\ NFeeds \in Nat \ {0}
  /\ Base \in Nat \ {0} /\ MaxCooldown \in Nat \ {0}
  /\ MaxFailures \in Nat \ {0} /\ RawCap \in Nat \ {0}

Feed == 1..NFeeds
NoFeed == 0

VARIABLES
  failures,  \* breaker.consecutive
  parked,    \* time left until breaker.openUntil
  pc,        \* where Router.Run is
  at,        \* the source pick is about to ask about
  soonest,   \* pick's shortest wait so far, 0 when none
  timer,     \* time left on the cooldown timer
  cur,       \* the source serve was called with
  source,    \* what each source's goroutine is doing for this router
  raw,       \* frames in serve's raw channel
  ctxDone    \* the session's context has ended

breakerVars == <<failures, parked>>
pickVars == <<at, soonest, timer>>
vars == <<breakerVars, pc, pickVars, cur, source, raw, ctxDone>>

(* A source's goroutine: failed and clean are returns of its own accord,        *)
(* stopped is a return after its context ended, whatever it returned.           *)
Returned == {"failed", "clean", "stopped"}

TypeOK ==
  /\ failures \in [Feed -> 0..MaxFailures]
  /\ parked \in [Feed -> Nat]
  /\ pc \in [Session -> {"pick", "wait", "chosen", "serve", "promoting", "stopping",
                         "failed", "tripping", "clean", "done"}]
  /\ at \in [Session -> Feed]
  /\ soonest \in [Session -> Nat]
  /\ timer \in [Session -> Nat]
  /\ cur \in [Session -> Feed \cup {NoFeed}]
  /\ source \in [Session -> [Feed -> Returned \cup {"off", "running"}]]
  /\ raw \in [Session -> 0..RawCap]
  /\ ctxDone \in [Session -> BOOLEAN]

Init ==
  /\ failures = [f \in Feed |-> 0]
  /\ parked = [f \in Feed |-> 0]
  /\ pc = [r \in Session |-> "pick"]
  /\ at = [r \in Session |-> 1]
  /\ soonest = [r \in Session |-> 0]
  /\ timer = [r \in Session |-> 0]
  /\ cur = [r \in Session |-> NoFeed]
  /\ source = [r \in Session |-> [f \in Feed |-> "off"]]
  /\ raw = [r \in Session |-> 0]
  /\ ctxDone = [r \in Session |-> FALSE]

Goto(r, l) == pc' = [pc EXCEPT ![r] = l]

--------------------------------------------------------------------------------
(* Breakers *)

(* Base << min(n, 16), capped; n is consecutive - 1. *)
Pow2 == <<1, 2, 4, 8, 16, 32, 64, 128, 256, 512, 1024, 2048, 4096, 8192, 16384, 32768, 65536>>
Growth(n) == Base * Pow2[IF n < 16 THEN n + 1 ELSE 17]
Capped(n) == IF Growth(n) > MaxCooldown THEN MaxCooldown ELSE Growth(n)
Jitter(c) == 0..(c \div 4)
Bump(n) == IF n < MaxFailures THEN n + 1 ELSE n

TripTo(f, cooldown) ==
  /\ failures' = [failures EXCEPT ![f] = Bump(@)]
  /\ \E j \in Jitter(cooldown) : parked' = [parked EXCEPT ![f] = cooldown + j]

Trip(f) == TripTo(f, Capped(Bump(failures[f]) - 1))

Succeed(f) ==
  /\ failures' = [failures EXCEPT ![f] = 0]
  /\ parked' = [parked EXCEPT ![f] = 0]

--------------------------------------------------------------------------------
(* Run and pick *)

(* The loop of Run ends with the context. *)
LoopEnds(r) ==
  /\ pc[r] = "pick" /\ at[r] = 1 /\ ctxDone[r]
  /\ Goto(r, "done")
  /\ UNCHANGED <<breakerVars, pickVars, cur, source, raw, ctxDone>>

(* pick asks the breakers about one source; other sessions' routers trip and    *)
(* clear them between two of its questions.                                     *)
PickFree(r) ==
  /\ pc[r] = "pick" /\ ~(at[r] = 1 /\ ctxDone[r])
  /\ parked[at[r]] = 0
  /\ cur' = [cur EXCEPT ![r] = at[r]]
  /\ at' = [at EXCEPT ![r] = 1]
  /\ soonest' = [soonest EXCEPT ![r] = 0]
  /\ Goto(r, "chosen")
  /\ UNCHANGED <<breakerVars, timer, source, raw, ctxDone>>

Sooner(r) ==
  IF soonest[r] = 0 \/ parked[at[r]] < soonest[r] THEN parked[at[r]] ELSE soonest[r]

PickParked(r) ==
  /\ pc[r] = "pick" /\ ~(at[r] = 1 /\ ctxDone[r])
  /\ parked[at[r]] > 0
  /\ IF at[r] < NFeeds
     THEN /\ at' = [at EXCEPT ![r] = @ + 1]
          /\ soonest' = [soonest EXCEPT ![r] = Sooner(r)]
          /\ UNCHANGED <<pc, timer>>
     ELSE /\ at' = [at EXCEPT ![r] = 1]
          /\ soonest' = [soonest EXCEPT ![r] = 0]
          /\ timer' = [timer EXCEPT ![r] = Sooner(r)]
          /\ Goto(r, "wait")
  /\ UNCHANGED <<breakerVars, cur, source, raw, ctxDone>>

WaitOver(r) ==
  /\ pc[r] = "wait" /\ timer[r] = 0
  /\ Goto(r, "pick")
  /\ UNCHANGED <<breakerVars, pickVars, cur, source, raw, ctxDone>>

WaitCancelled(r) ==
  /\ pc[r] = "wait" /\ ctxDone[r]
  /\ timer' = [timer EXCEPT ![r] = 0]
  /\ Goto(r, "done")
  /\ UNCHANGED <<breakerVars, at, soonest, cur, source, raw, ctxDone>>

(* serve starts the source's goroutine, after the "feed" status was emitted.    *)
Begin(r) ==
  /\ pc[r] = "chosen"
  /\ source' = [source EXCEPT ![r][cur[r]] = "running"]
  /\ raw' = [raw EXCEPT ![r] = 0]
  /\ Goto(r, "serve")
  /\ UNCHANGED <<breakerVars, pickVars, cur, ctxDone>>

(* Run, once serve has returned an error: it asks whether the session is wanted.   *)
AfterFailure(r) ==
  /\ pc[r] = "failed"
  /\ IF ctxDone[r]
     THEN Goto(r, "done") /\ cur' = [cur EXCEPT ![r] = NoFeed]
     ELSE Goto(r, "tripping") /\ UNCHANGED cur
  /\ UNCHANGED <<breakerVars, pickVars, source, raw, ctxDone>>

(* If it was, the feed is parked, under the breakers' own lock.                   *)
Park(r) ==
  /\ pc[r] = "tripping"
  /\ Trip(cur[r])
  /\ cur' = [cur EXCEPT ![r] = NoFeed]
  /\ Goto(r, "pick")
  /\ UNCHANGED <<pickVars, source, raw, ctxDone>>

(* Run, once serve has returned nil: whatever the reason, the run is over. *)
AfterClean(r) ==
  /\ pc[r] = "clean"
  /\ cur' = [cur EXCEPT ![r] = NoFeed]
  /\ Goto(r, "done")
  /\ UNCHANGED <<breakerVars, pickVars, source, raw, ctxDone>>

--------------------------------------------------------------------------------
(* serve *)

Exited(r) == source[r][cur[r]] \in Returned

(* serve returns; what is still in raw is drained to the engine or dropped with *)
(* the channel.                                                                 *)
Return(r, l) ==
  /\ raw' = [raw EXCEPT ![r] = 0]
  /\ Goto(r, l)

(* A data frame is forwarded: the source is proved to work. *)
Forward(r) ==
  /\ pc[r] = "serve" /\ raw[r] > 0
  /\ raw' = [raw EXCEPT ![r] = @ - 1]
  /\ Succeed(cur[r])
  /\ UNCHANGED <<pc, pickVars, cur, source, ctxDone>>

(* errc is ready: the rest of raw is drained without touching the breaker.      *)
SourceReturned(r) ==
  /\ pc[r] = "serve" /\ Exited(r)
  /\ \/ source[r][cur[r]] \in {"failed", "stopped"} /\ Return(r, "failed")
     \/ source[r][cur[r]] \in {"clean", "stopped"} /\ Return(r, "clean")
  /\ UNCHANGED <<breakerVars, pickVars, cur, source, ctxDone>>

ServeCancelled(r) ==
  /\ pc[r] = "serve" /\ ctxDone[r]
  /\ Goto(r, "stopping")
  /\ UNCHANGED <<breakerVars, pickVars, cur, source, raw, ctxDone>>

(* promoteTick: a better feed's cooldown is over. *)
PromoteTick(r) ==
  /\ pc[r] = "serve"
  /\ \E better \in 1..(cur[r] - 1) : parked[better] = 0
  /\ Goto(r, "promoting")
  /\ UNCHANGED <<breakerVars, pickVars, cur, source, raw, ctxDone>>

(* Mutants: the source is not waited for; a promoted-away source is a failure;  *)
(* a session's end is not waited out.                                           *)
StopWithoutWaiting(r) ==
  /\ pc[r] \in {"promoting", "stopping"}
  /\ Goto(r, "clean")
  /\ UNCHANGED <<breakerVars, pickVars, cur, source, raw, ctxDone>>

StopAsFailure(r) ==
  /\ pc[r] \in {"promoting", "stopping"} /\ Exited(r)
  /\ Return(r, "failed")
  /\ UNCHANGED <<breakerVars, pickVars, cur, source, ctxDone>>

StopPromotedOnly(r) ==
  /\ pc[r] = "promoting" /\ Exited(r)
  /\ Return(r, "clean")
  /\ UNCHANGED <<breakerVars, pickVars, cur, source, ctxDone>>

(* <-errc after cancel(): serve returns nil whatever the source returned. *)
Stop(r) ==
  /\ pc[r] \in {"promoting", "stopping"} /\ Exited(r)
  /\ Return(r, "clean")
  /\ UNCHANGED <<breakerVars, pickVars, cur, source, ctxDone>>

--------------------------------------------------------------------------------
(* Sources, contexts and time *)

Running(r, f) == source[r][f] = "running"
Ended(r) ==
  ctxDone[r] \/ pc[r] \in {"promoting", "stopping", "clean", "failed", "tripping", "done"}

(* Emit into raw never blocks; a frame that does not fit is lost. *)
Publish(r, f) ==
  /\ Running(r, f) /\ raw[r] < RawCap
  /\ raw' = [raw EXCEPT ![r] = @ + 1]
  /\ UNCHANGED <<breakerVars, pc, pickVars, cur, source, ctxDone>>

GiveUp(r, f) ==
  /\ Running(r, f) /\ ~Ended(r)
  /\ \E how \in {"failed", "clean"} : source' = [source EXCEPT ![r][f] = how]
  /\ UNCHANGED <<breakerVars, pc, pickVars, cur, raw, ctxDone>>

(* The source's context has ended and it returns. *)
StopSource(r, f) ==
  /\ Running(r, f) /\ Ended(r)
  /\ source' = [source EXCEPT ![r][f] = "stopped"]
  /\ UNCHANGED <<breakerVars, pc, pickVars, cur, raw, ctxDone>>

(* The hub, or the engine re-arming around a new centre, cancels the run. *)
Cancel(r) ==
  /\ ~ctxDone[r] /\ pc[r] # "done"
  /\ ctxDone' = [ctxDone EXCEPT ![r] = TRUE]
  /\ UNCHANGED <<breakerVars, pc, pickVars, cur, source, raw>>

Less(n) == IF n > 0 THEN n - 1 ELSE 0

Tick ==
  /\ (\E f \in Feed : parked[f] > 0) \/ (\E r \in Session : timer[r] > 0)
  /\ parked' = [f \in Feed |-> Less(parked[f])]
  /\ timer' = [r \in Session |-> Less(timer[r])]
  /\ UNCHANGED <<failures, pc, at, soonest, cur, source, raw, ctxDone>>

Run(r) ==
  \/ LoopEnds(r) \/ PickFree(r) \/ PickParked(r) \/ WaitOver(r) \/ WaitCancelled(r)
  \/ Begin(r) \/ AfterFailure(r) \/ Park(r) \/ AfterClean(r)
  \/ SourceReturned(r) \/ ServeCancelled(r) \/ Stop(r)

Next ==
  \/ \E r \in Session : Run(r) \/ Forward(r) \/ PromoteTick(r) \/ Cancel(r)
  \/ \E r \in Session, f \in Feed : Publish(r, f) \/ GiveUp(r, f) \/ StopSource(r, f)
  \/ Tick

Spec == Init /\ [][Next]_vars

(* The router's goroutine runs, select chooses a ready context over frames      *)
(* sooner or later, a source returns once its context has ended (the            *)
(* feed.Source contract), and time passes.                                      *)
Fairness ==
  /\ \A r \in Session : WF_vars(Run(r)) /\ SF_vars(ServeCancelled(r))
  /\ \A r \in Session, f \in Feed : WF_vars(StopSource(r, f))
  /\ WF_vars(Tick)

FairSpec == Spec /\ Fairness

--------------------------------------------------------------------------------
(* Safety *)

(* "One authoritative feed, cleanly replaced": a router never holds two broker  *)
(* subscriptions, and holds none while it picks, waits, or once it is done.     *)
OneSubscription ==
  \A r \in Session :
    /\ \A f \in Feed : Running(r, f) => cur[r] = f
    /\ pc[r] \in {"pick", "wait", "chosen", "failed", "tripping", "clean", "done"}
         => \A f \in Feed : ~Running(r, f)

(* Only a source that gave up of its own accord is parked, by the router whose     *)
(* session was wanted when it asked: not one the router promoted away from, nor    *)
(* one stopped with its session.  A session may end between the asking and Trip,   *)
(* but what parks the feed is a failure all the same.                             *)
OnlyFailuresPark ==
  [][\A f \in Feed : parked'[f] > parked[f] =>
       \E r \in Session : pc[r] = "tripping" /\ source[r][f] = "failed"]_vars

(* "without it a broker that is down over a lunch break would be parked for     *)
(* hours after it came back": no feed is parked, and no session waits, longer   *)
(* than the cap and its jitter, however many sessions trip it.                  *)
CooldownCapped ==
  /\ \A f \in Feed : parked[f] <= MaxCooldown + (MaxCooldown \div 4)
  /\ \A r \in Session : timer[r] <= MaxCooldown + (MaxCooldown \div 4)

(* A session whose context has ended lets its run go. *)
CancelEndsTheRun == \A r \in Session : ctxDone[r] ~> pc[r] = "done"

================================================================================
