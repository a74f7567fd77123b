------------------------------- MODULE MCGoSession ------------------------------
(* The two loops a session of marketd lives by, side by side in one instance: the *)
(* run loop of its engine (EngineRun) and the hub around it (Hub, with a single   *)
(* session that does not broadcast).  A behaviour is one of the two, `part` says  *)
(* which; the other rests in a state from which it takes no step.                *)
EXTENDS EngineRun

CONSTANTS Key, NoKey, Session, NoSession, Sub, NoSub, SendQueue, MaxCasts

VARIABLES
  part,
  sessions, hmu, key, hubDone, engine, subs, grace, retiring, last, cast, pushing, casts,
  closing, caller, ref, greeting, queue, left, shut, shutList, dropping, panicked

hubVars == <<sessions, hmu, key, hubDone, engine, subs, grace, retiring, last, cast, pushing,
             casts, closing, caller, ref, greeting, queue, left, shut, shutList, dropping,
             panicked>>

H == INSTANCE Hub WITH ctxDone <- hubDone, pc <- caller, closed <- left

EngineRests ==
  /\ pc = "returned" /\ reason = "none"
  /\ ctxDone = TRUE /\ runDone = TRUE
  /\ live = 0 /\ done = FALSE /\ events = <<>> /\ closed = TRUE
  /\ centre = NoStrike /\ since = RearmMin
  /\ spot = NoStrike /\ armed = FALSE /\ timer = FALSE /\ dirty = FALSE

MCInit ==
  /\ \/ part = "engine" /\ Init
     \/ part = "hub" /\ EngineRests
  /\ H!Init

MCNext ==
  \/ part = "engine" /\ Next /\ UNCHANGED <<part, hubVars>>
  \/ part = "hub" /\ H!Next /\ UNCHANGED <<part, vars>>

MCSpec == MCInit /\ [][MCNext]_<<part, vars, hubVars>> /\ Fairness /\ H!Fairness

GraceEnds == H!GraceEnds
TeardownClosesSubscribers == H!TeardownClosesSubscribers

================================================================================
