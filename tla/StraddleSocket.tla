----------------------------- MODULE StraddleSocket ----------------------------
(* backend/live/wsStraddle.ts: the live straddle sessions of the Node backend,  *)
(* keyed by contract and shared by the sockets that watch them.                 *)
(*                                                                              *)
(* Node runs one callback at a time, so an action is a whole callback: a        *)
(* message, a socket's end, a timer, or the settling of startEngine with the    *)
(* promise reactions that follow it.  Frames are not modelled; a subscribe that *)
(* only answers (market closed, no session token, a backfill) changes nothing.  *)
(* A member of Session is one Session object, started once.                     *)
EXTENDS FiniteSets

CONSTANTS Key, NoKey, Session, NoSession, Client

ASSUME SocketAssumption == NoKey \notin Key /\ NoSession \notin Session

VARIABLES
  sessions,  \* the registered session of each contract
  key,       \* Session.key
  engine,    \* what has become of the session's engine, and of Session.live
  subs,      \* Session.subscribers
  idle,      \* Session.idleTimer is pending
  closeT,    \* Session.closeTimer is pending
  joined,    \* the session each socket is attached to
  open       \* the socket is open

vars == <<sessions, key, engine, subs, idle, closeT, joined, open>>

(* startEngine is in flight until it gives a handle or fails.  A handle is held *)
(* in Session.live while "up", and while "dead": an engine that closed by       *)
(* itself reports a status and stays where it is.                               *)
Pending == {"starting", "up", "dead"}
Over == {"stopped", "failed"}

TypeOK ==
  /\ sessions \in [Key -> Session \cup {NoSession}]
  /\ key \in [Session -> Key \cup {NoKey}]
  /\ engine \in [Session -> {"unborn"} \cup Pending \cup Over]
  /\ subs \in [Session -> SUBSET Client]
  /\ idle \in [Session -> BOOLEAN]
  /\ closeT \in [Session -> BOOLEAN]
  /\ joined \in [Client -> Session \cup {NoSession}]
  /\ open \in [Client -> BOOLEAN]
  /\ \A s \in Session : engine[s] = "unborn" <=> key[s] = NoKey

Init ==
  /\ sessions = [k \in Key |-> NoSession]
  /\ key = [s \in Session |-> NoKey]
  /\ engine = [s \in Session |-> "unborn"]
  /\ subs = [s \in Session |-> {}]
  /\ idle = [s \in Session |-> FALSE]
  /\ closeT = [s \in Session |-> FALSE]
  /\ joined = [c \in Client |-> NoSession]
  /\ open = [c \in Client |-> TRUE]

--------------------------------------------------------------------------------
(* leave, attach and endSession *)

(* The sockets of each session once c has left its own, and once it is with t.  *)
Without(c) == [s \in Session |-> subs[s] \ {c}]
With(c, t) == [s \in Session |-> IF s = t THEN subs[s] \cup {c} ELSE subs[s] \ {c}]

(* leave arms the grace timer of the session c was the last to watch, whether   *)
(* or not that session still runs.                                              *)
Emptied(c) == {s \in Session : joined[c] = s /\ subs[s] \subseteq {c}}

Leave(c) ==
  /\ joined' = [joined EXCEPT ![c] = NoSession]
  /\ subs' = Without(c)
  /\ idle' = [s \in Session |-> idle[s] \/ s \in Emptied(c)]

(* leave, then join t and clear its timer; nothing when c is already there.     *)
Attach(c, t) ==
  IF joined[c] = t
  THEN UNCHANGED <<joined, subs, idle>>
  ELSE /\ joined' = [joined EXCEPT ![c] = t]
       /\ subs' = With(c, t)
       /\ idle' = [s \in Session |-> s # t /\ (idle[s] \/ s \in Emptied(c))]

Stopped(s) == IF engine[s] \in {"up", "dead"} THEN "stopped" ELSE engine[s]

(* endSession deletes the entry of s's contract, whichever session it names.    *)
End(s, result) ==
  /\ closeT' = [closeT EXCEPT ![s] = FALSE]
  /\ engine' = [engine EXCEPT ![s] = result]
  /\ sessions' = [sessions EXCEPT ![key[s]] = NoSession]

--------------------------------------------------------------------------------
(* Messages of a socket, and its end *)

SubscribeExisting(c, k) ==
  /\ open[c] /\ sessions[k] # NoSession
  /\ Attach(c, sessions[k])
  /\ UNCHANGED <<sessions, key, engine, closeT, open>>

SubscribeFresh(c, k, s) ==
  /\ open[c] /\ sessions[k] = NoSession /\ engine[s] = "unborn"
  /\ key' = [key EXCEPT ![s] = k]
  /\ engine' = [engine EXCEPT ![s] = "starting"]
  /\ sessions' = [sessions EXCEPT ![k] = s]
  /\ Attach(c, s)
  /\ UNCHANGED <<closeT, open>>

(* stopForClient ends the session outright when c was its last watcher.         *)
StopLast(c, s) ==
  /\ open[c] /\ joined[c] = s /\ subs[s] \subseteq {c}
  /\ joined' = [joined EXCEPT ![c] = NoSession]
  /\ subs' = Without(c)
  /\ idle' = [idle EXCEPT ![s] = FALSE]
  /\ End(s, Stopped(s))
  /\ UNCHANGED <<key, open>>

StopOne(c) ==
  /\ open[c] /\ joined[c] # NoSession /\ Emptied(c) = {}
  /\ Leave(c)
  /\ UNCHANGED <<sessions, key, engine, closeT, open>>

(* close, error, or the heartbeat's terminate. *)
Drop(c) ==
  /\ open[c]
  /\ open' = [open EXCEPT ![c] = FALSE]
  /\ Leave(c)
  /\ UNCHANGED <<sessions, key, engine, closeT>>

--------------------------------------------------------------------------------
(* startEngine settles; timers; the engine's own end *)

(* Mutant: nobody looks whether the session is still wanted. *)
StartSucceedsAnyway(s) ==
  /\ engine[s] = "starting"
  /\ engine' = [engine EXCEPT ![s] = "up"]
  /\ closeT' = [closeT EXCEPT ![s] = TRUE]
  /\ UNCHANGED <<sessions, key, subs, idle, joined, open>>

StartSucceeds(s) ==
  /\ engine[s] = "starting"
  /\ IF sessions[key[s]] = s
     THEN /\ engine' = [engine EXCEPT ![s] = "up"]
          /\ \E beforeTheClose \in BOOLEAN : closeT' = [closeT EXCEPT ![s] = beforeTheClose]
     ELSE /\ engine' = [engine EXCEPT ![s] = "stopped"]
          /\ UNCHANGED closeT
  /\ UNCHANGED <<sessions, key, subs, idle, joined, open>>

StartFails(s) ==
  /\ engine[s] = "starting"
  /\ End(s, "failed")
  /\ idle' = [idle EXCEPT ![s] = FALSE]
  /\ UNCHANGED <<key, subs, joined, open>>

IdleFires(s) ==
  /\ idle[s]
  /\ idle' = [idle EXCEPT ![s] = FALSE]
  /\ IF subs[s] = {} THEN End(s, Stopped(s)) ELSE UNCHANGED <<sessions, engine, closeT>>
  /\ UNCHANGED <<key, subs, joined, open>>

(* The market closes: the session ends, whoever is watching. *)
CloseFires(s) ==
  /\ closeT[s]
  /\ End(s, Stopped(s))
  /\ idle' = [idle EXCEPT ![s] = FALSE]
  /\ UNCHANGED <<key, subs, joined, open>>

(* marketd closes the connection: a status for whoever is watching. *)
EngineDies(s) ==
  /\ engine[s] = "up"
  /\ engine' = [engine EXCEPT ![s] = "dead"]
  /\ UNCHANGED <<sessions, key, subs, idle, closeT, joined, open>>

Next ==
  \/ \E c \in Client, k \in Key : SubscribeExisting(c, k)
  \/ \E c \in Client, k \in Key, s \in Session : SubscribeFresh(c, k, s)
  \/ \E c \in Client, s \in Session : StopLast(c, s)
  \/ \E c \in Client : StopOne(c) \/ Drop(c)
  \/ \E s \in Session :
       StartSucceeds(s) \/ StartFails(s) \/ IdleFires(s) \/ CloseFires(s) \/ EngineDies(s)

Spec == Init /\ [][Next]_vars

(* startEngine settles (its probes and handshakes have timeouts), and a timer   *)
(* that stays pending fires.                                                    *)
Fairness ==
  \A s \in Session : WF_vars(StartSucceeds(s) \/ StartFails(s)) /\ WF_vars(IdleFires(s))

FairSpec == Spec /\ Fairness

--------------------------------------------------------------------------------
(* Safety *)

(* A socket is in the fan-out of the session it joined and of no other, so two  *)
(* contracts are never mixed on one chart.                                      *)
OneFanout == \A c \in Client, s \in Session : c \in subs[s] <=> joined[c] = s

(* Whoever leaves, by a stop, a drop or a subscribe elsewhere, an engine nobody *)
(* watches has a grace timer: no broker subscription is left to run for ever.   *)
UnwatchedHasATimer ==
  \A s \in Session : engine[s] \in {"up", "dead"} /\ subs[s] = {} => idle[s]

(* A session in the map is one that can still serve its contract: the sessions  *)
(* that failed, were stopped or closed are out of it.                           *)
RegisteredIsPending ==
  \A k \in Key : sessions[k] # NoSession =>
    key[sessions[k]] = k /\ engine[sessions[k]] \in Pending

(* An engine nobody watches is eventually released, or watched again.           *)
UnwatchedIsReleased ==
  \A s \in Session :
    engine[s] \in Pending /\ subs[s] = {} ~> engine[s] \in Over \/ subs[s] # {}

--------------------------------------------------------------------------------
(* What the comments in wsStraddle.ts say and the code does not do *)

(* "N tabs on the same contract cost one bridge instead of N." *)
OneEnginePerContract ==
  \A s, t \in Session : engine[s] = "up" /\ engine[t] = "up" /\ key[s] = key[t] => s = t

================================================================================
