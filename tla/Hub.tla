---------------------------------- MODULE Hub ----------------------------------
(* The fan-out layer of the market-data engine, backend-go/hub/hub.go: live     *)
(* sessions keyed by contract, the subscribers attached to each, the grace      *)
(* timer that retires an unwatched session, the goroutine that runs a session's *)
(* engine and tears the session down, and Shutdown.                             *)
(*                                                                              *)
(* Every step is one critical section of h.mu or sess.mu, or one channel        *)
(* operation; between two of them any other goroutine may run.  h.mu is held    *)
(* over two steps in one place only (retire), so hmu records only that owner.   *)
(*                                                                              *)
(* A member of Sub is one call of Hub.Subscribe and the Subscriber object it    *)
(* creates; a client that reconnects or subscribes again is another member.  A  *)
(* member of Session is one session object.  The encoded frames are not         *)
(* modelled: a queue is the number of frames in it.                             *)
EXTENDS Naturals, FiniteSets

CONSTANTS
  Key,         \* contracts, Config.Key()
  NoKey,
  Session,     \* session objects, each started at most once
  NoSession,
  Sub,         \* Subscribe calls / Subscriber objects
  NoSub,
  SendQueue,   \* capacity of Subscriber.out
  MaxCasts     \* bound: broadcasts by one session

ASSUME HubAssumption ==
  /\ NoKey \notin Key
  /\ NoSession \notin Session
  /\ NoSub \notin Sub
  /\ SendQueue \in Nat \ {0}
  /\ MaxCasts \in Nat

VARIABLES
  sessions,   \* Hub.sessions: the registered session of each key
  hmu,        \* the session whose retire is inside h.mu, NoSession when free
  key,        \* session.key
  ctxDone,    \* session.cancel has been called
  engine,     \* where the session's goroutine is
  subs,       \* session.subs
  grace,      \* session.grace: nil, a pending timer, or one that has fired
  retiring,   \* retire goroutines of the session waiting for h.mu
  last,       \* which of lastStatus and lastState are set
  cast,       \* subscribers the broadcast in progress has still to reach
  pushing,    \* the one broadcast has found open and is about to send to
  casts,      \* broadcasts so far
  closing,    \* subscribers closeAll of the session's goroutine has yet to close
  pc,         \* where each Subscribe ... Unsubscribe caller is
  ref,        \* the session the caller holds a pointer to
  greeting,   \* last frames Subscribe has still to send to its own subscriber
  queue,      \* frames in Subscriber.out
  closed,     \* Subscriber.Close has run
  shut,       \* where Shutdown is
  shutList,   \* sessions Shutdown has still to cancel, then to wait for
  dropping,   \* subscribers Shutdown's closeAll has yet to close
  panicked    \* a goroutine has sent on a closed channel: the process is gone

sessVars == <<engine, subs, grace, retiring, last, cast, pushing, casts, closing>>
subVars  == <<pc, ref, greeting, queue, closed>>
shutVars == <<shut, shutList, dropping>>
vars == <<sessions, hmu, key, ctxDone, sessVars, subVars, shutVars, panicked>>

EngineStates == {"unborn", "running", "failing", "returned", "unregistered",
                 "closing", "gone"}
CallerStates == {"new", "attach", "greet", "greetPush", "on", "detach", "close", "off"}
Frames == {"status", "state"}

TypeOK ==
  /\ sessions \in [Key -> Session \cup {NoSession}]
  /\ hmu \in Session \cup {NoSession}
  /\ key \in [Session -> Key \cup {NoKey}]
  /\ ctxDone \in [Session -> BOOLEAN]
  /\ engine \in [Session -> EngineStates]
  /\ subs \in [Session -> SUBSET Sub]
  /\ grace \in [Session -> {"nil", "armed", "fired"}]
  /\ retiring \in [Session -> Nat]
  /\ last \in [Session -> SUBSET Frames]
  /\ cast \in [Session -> SUBSET Sub]
  /\ pushing \in [Session -> Sub \cup {NoSub}]
  /\ casts \in [Session -> Nat]
  /\ closing \in [Session -> SUBSET Sub]
  /\ pc \in [Sub -> CallerStates]
  /\ ref \in [Sub -> Session \cup {NoSession}]
  /\ greeting \in [Sub -> SUBSET Frames]
  /\ queue \in [Sub -> 0..SendQueue]
  /\ closed \in [Sub -> BOOLEAN]
  /\ shut \in {"up", "cancel", "wait", "down"}
  /\ shutList \in SUBSET Session
  /\ dropping \in SUBSET Sub
  /\ panicked \in BOOLEAN

Init ==
  /\ sessions = [k \in Key |-> NoSession]
  /\ hmu = NoSession
  /\ key = [x \in Session |-> NoKey]
  /\ ctxDone = [x \in Session |-> FALSE]
  /\ engine = [x \in Session |-> "unborn"]
  /\ subs = [x \in Session |-> {}]
  /\ grace = [x \in Session |-> "nil"]
  /\ retiring = [x \in Session |-> 0]
  /\ last = [x \in Session |-> {}]
  /\ cast = [x \in Session |-> {}]
  /\ pushing = [x \in Session |-> NoSub]
  /\ casts = [x \in Session |-> 0]
  /\ closing = [x \in Session |-> {}]
  /\ pc = [s \in Sub |-> "new"]
  /\ ref = [s \in Sub |-> NoSession]
  /\ greeting = [s \in Sub |-> {}]
  /\ queue = [s \in Sub |-> 0]
  /\ closed = [s \in Sub |-> FALSE]
  /\ shut = "up"
  /\ shutList = {}
  /\ dropping = {}
  /\ panicked = FALSE

Registered(x) == key[x] # NoKey /\ sessions[key[x]] = x
Locked == hmu # NoSession

(* After a panic there is no process left to take a step. *)
Up == ~panicked

--------------------------------------------------------------------------------
(* Subscribe *)

(* The h.mu section when a session is already running for the contract. *)
Join(s, k) ==
  /\ Up /\ pc[s] = "new" /\ ~Locked
  /\ sessions[k] # NoSession
  /\ ref' = [ref EXCEPT ![s] = sessions[k]]
  /\ pc' = [pc EXCEPT ![s] = "attach"]
  /\ UNCHANGED <<sessions, hmu, key, ctxDone, sessVars, greeting, queue, closed,
                 shutVars, panicked>>

(* The h.mu section that starts one: start() launches the engine's goroutine. *)
Start(s, k, x) ==
  /\ Up /\ pc[s] = "new" /\ ~Locked
  /\ sessions[k] = NoSession
  /\ engine[x] = "unborn"
  /\ sessions' = [sessions EXCEPT ![k] = x]
  /\ key' = [key EXCEPT ![x] = k]
  /\ engine' = [engine EXCEPT ![x] = "running"]
  /\ ref' = [ref EXCEPT ![s] = x]
  /\ pc' = [pc EXCEPT ![s] = "attach"]
  /\ UNCHANGED <<hmu, ctxDone, subs, grace, retiring, last, cast, pushing, casts,
                 closing, greeting, queue, closed, shutVars, panicked>>

(* start() refused: straddle.New or feed.NewRouter returned an error.  Nothing is  *)
(* registered.                                                                  *)
Reject(s, k) ==
  /\ Up /\ pc[s] = "new" /\ ~Locked
  /\ sessions[k] = NoSession
  /\ pc' = [pc EXCEPT ![s] = "off"]
  /\ UNCHANGED <<sessions, hmu, key, ctxDone, sessVars, ref, greeting, queue, closed,
                 shutVars, panicked>>

(* The sess.mu section: stop the grace timer, join subs, read the last frames.  *)
(* A timer that has already fired cannot be stopped; its retire is in flight.   *)
AttachWith(s, timer) ==
  LET x == ref[s] IN
  /\ Up /\ pc[s] = "attach"
  /\ grace' = [grace EXCEPT ![x] = timer]
  /\ subs' = [subs EXCEPT ![x] = @ \cup {s}]
  /\ greeting' = [greeting EXCEPT ![s] = last[x]]
  /\ pc' = [pc EXCEPT ![s] = IF last[x] = {} THEN "on" ELSE "greet"]
  /\ UNCHANGED <<sessions, hmu, key, ctxDone, engine, retiring, last, cast, pushing,
                 casts, closing, ref, queue, closed, shutVars, panicked>>

(* Mutants: the timer is stopped but session.grace still points at it; or it is *)
(* left running.                                                                *)
AttachKeepsPointer(s) ==
  AttachWith(s, IF grace[ref[s]] = "nil" THEN "nil" ELSE "fired")
AttachKeepsTimer(s) == AttachWith(s, grace[ref[s]])

Attach(s) == AttachWith(s, "nil")

(* Subscriber.send of a last frame, up to the test of s.closed. *)
Greet(s) ==
  /\ Up /\ pc[s] = "greet"
  /\ IF closed[s]
     THEN /\ greeting' = [greeting EXCEPT ![s] = {}]
          /\ pc' = [pc EXCEPT ![s] = "on"]
     ELSE /\ pc' = [pc EXCEPT ![s] = "greetPush"]
          /\ UNCHANGED greeting
  /\ UNCHANGED <<sessions, hmu, key, ctxDone, sessVars, ref, queue, closed, shutVars,
                 panicked>>

(* The channel operation of send: panics on a closed channel, else queues the   *)
(* frame, else closes the subscriber.                                           *)
Push(s) ==
  /\ panicked' = closed[s]
  /\ queue' = IF ~closed[s] /\ queue[s] < SendQueue THEN [queue EXCEPT ![s] = @ + 1] ELSE queue
  /\ closed' = IF queue[s] < SendQueue THEN closed ELSE [closed EXCEPT ![s] = TRUE]

(* status goes before state, so the frame sent is status while it is there. *)
GreetPush(s) ==
  /\ Up /\ pc[s] = "greetPush"
  /\ Push(s)
  /\ LET rest == greeting[s] \ (IF "status" \in greeting[s] THEN {"status"} ELSE {"state"})
     IN /\ greeting' = [greeting EXCEPT ![s] = rest]
        /\ pc' = [pc EXCEPT ![s] = IF rest = {} THEN "on" ELSE "greet"]
  /\ UNCHANGED <<sessions, hmu, key, ctxDone, sessVars, ref, shutVars>>

(* The connection's pump takes a frame; it runs from the return of Subscribe.   *)
Drain(s) ==
  /\ Up /\ pc[s] \in {"on", "detach", "close", "off"}
  /\ queue[s] > 0
  /\ queue' = [queue EXCEPT ![s] = @ - 1]
  /\ UNCHANGED <<sessions, hmu, key, ctxDone, sessVars, pc, ref, greeting, closed,
                 shutVars, panicked>>

--------------------------------------------------------------------------------
(* Unsubscribe and retire *)

(* The h.mu section: find the session registered NOW under the contract. *)
Lookup(s) ==
  LET x == sessions[key[ref[s]]] IN
  /\ Up /\ pc[s] = "on" /\ ~Locked
  /\ IF x = NoSession
     THEN pc' = [pc EXCEPT ![s] = "close"] /\ UNCHANGED ref
     ELSE pc' = [pc EXCEPT ![s] = "detach"] /\ ref' = [ref EXCEPT ![s] = x]
  /\ UNCHANGED <<sessions, hmu, key, ctxDone, sessVars, greeting, queue, closed,
                 shutVars, panicked>>

(* The sess.mu section: leave subs, arm the timer when nobody is left. *)
DetachWith(s, left, timer) ==
  LET x == ref[s] IN
  /\ Up /\ pc[s] = "detach"
  /\ subs' = [subs EXCEPT ![x] = left]
  /\ grace' = IF left = {} /\ grace[x] = "nil"
              THEN [grace EXCEPT ![x] = timer] ELSE grace
  /\ pc' = [pc EXCEPT ![s] = "close"]
  /\ UNCHANGED <<sessions, hmu, key, ctxDone, engine, retiring, last, cast, pushing,
                 casts, closing, ref, greeting, queue, closed, shutVars, panicked>>

(* Mutants: one client's stop detaches everybody; the timer is never armed. *)
DetachEverybody(s) == DetachWith(s, {}, "armed")
DetachWithoutGrace(s) == DetachWith(s, subs[ref[s]] \ {s}, "nil")

Detach(s) == DetachWith(s, subs[ref[s]] \ {s}, "armed")

CloseOwn(s) ==
  /\ Up /\ pc[s] = "close"
  /\ closed' = [closed EXCEPT ![s] = TRUE]
  /\ pc' = [pc EXCEPT ![s] = "off"]
  /\ UNCHANGED <<sessions, hmu, key, ctxDone, sessVars, ref, greeting, queue, shutVars,
                 panicked>>

(* The grace period expires: time.AfterFunc starts retire in a goroutine.       *)
(* session.grace keeps pointing at the timer.                                   *)
GraceFires(x) ==
  /\ Up /\ grace[x] = "armed"
  /\ grace' = [grace EXCEPT ![x] = "fired"]
  /\ retiring' = [retiring EXCEPT ![x] = @ + 1]
  /\ UNCHANGED <<sessions, hmu, key, ctxDone, engine, subs, last, cast, pushing, casts,
                 closing, subVars, shutVars, panicked>>

(* retire takes h.mu and, under sess.mu, reads whether anybody is attached. *)
RetireCheck(x) ==
  /\ Up /\ retiring[x] > 0 /\ ~Locked
  /\ retiring' = [retiring EXCEPT ![x] = @ - 1]
  /\ hmu' = IF subs[x] = {} THEN x ELSE NoSession
  /\ UNCHANGED <<sessions, key, ctxDone, engine, subs, grace, last, cast, pushing,
                 casts, closing, subVars, shutVars, panicked>>

(* Still inside h.mu: only the registered session is removed and cancelled. *)
RetireDropIf(x, drop, table) ==
  /\ Up /\ hmu = x
  /\ IF drop
     THEN sessions' = table /\ ctxDone' = [ctxDone EXCEPT ![x] = TRUE]
     ELSE UNCHANGED <<sessions, ctxDone>>
  /\ hmu' = NoSession
  /\ UNCHANGED <<key, sessVars, subVars, shutVars, panicked>>

Without(x) == [sessions EXCEPT ![key[x]] = NoSession]

(* Mutant: whatever is registered under the key goes. *)
RetireDropAny(x) == RetireDropIf(x, TRUE, Without(x))

RetireDrop(x) == RetireDropIf(x, Registered(x), Without(x))

--------------------------------------------------------------------------------
(* The session's goroutine: the engine, its broadcasts, and the teardown *)

Sending(x) == cast[x] # {} \/ pushing[x] # NoSub

(* broadcast's sess.mu section: remember status and state, snapshot subs. *)
Snapshot(x, saved) ==
  /\ last' = [last EXCEPT ![x] = @ \cup saved]
  /\ cast' = [cast EXCEPT ![x] = subs[x]]

Broadcast(x) ==
  /\ Up /\ engine[x] = "running" /\ ~Sending(x)
  /\ casts[x] < MaxCasts
  /\ casts' = [casts EXCEPT ![x] = @ + 1]
  /\ \E saved \in {{"status"}, {"state"}, {}} : Snapshot(x, saved)
  /\ UNCHANGED <<sessions, hmu, key, ctxDone, engine, subs, grace, retiring, pushing,
                 closing, subVars, shutVars, panicked>>

SendCheck(x, s) ==
  /\ Up /\ s \in cast[x] /\ pushing[x] = NoSub
  /\ cast' = [cast EXCEPT ![x] = @ \ {s}]
  /\ pushing' = [pushing EXCEPT ![x] = IF closed[s] THEN NoSub ELSE s]
  /\ UNCHANGED <<sessions, hmu, key, ctxDone, engine, subs, grace, retiring, last, casts,
                 closing, subVars, shutVars, panicked>>

SendPush(x) ==
  /\ Up /\ pushing[x] # NoSub
  /\ Push(pushing[x])
  /\ pushing' = [pushing EXCEPT ![x] = NoSub]
  /\ UNCHANGED <<sessions, hmu, key, ctxDone, engine, subs, grace, retiring, last, cast,
                 casts, closing, pc, ref, greeting, shutVars>>

(* engine.Run returns nil only once its context has ended. *)
EngineReturn(x) ==
  /\ Up /\ engine[x] = "running" /\ ~Sending(x) /\ ctxDone[x]
  /\ engine' = [engine EXCEPT ![x] = "returned"]
  /\ UNCHANGED <<sessions, hmu, key, ctxDone, subs, grace, retiring, last, cast, pushing,
                 casts, closing, subVars, shutVars, panicked>>

(* It returns an error, broadcast before the teardown, when no feed can serve.  *)
EngineFail(x) ==
  /\ Up /\ engine[x] = "running" /\ ~Sending(x) /\ ~ctxDone[x]
  /\ engine' = [engine EXCEPT ![x] = "failing"]
  /\ UNCHANGED <<sessions, hmu, key, ctxDone, subs, grace, retiring, last, cast, pushing,
                 casts, closing, subVars, shutVars, panicked>>

BroadcastError(x) ==
  /\ Up /\ engine[x] = "failing"
  /\ Snapshot(x, {})
  /\ engine' = [engine EXCEPT ![x] = "returned"]
  /\ UNCHANGED <<sessions, hmu, key, ctxDone, subs, grace, retiring, pushing, casts,
                 closing, subVars, shutVars, panicked>>

(* The h.mu section of the teardown. *)
Unregister(x) ==
  /\ Up /\ engine[x] = "returned" /\ ~Sending(x) /\ ~Locked
  /\ sessions' = IF Registered(x) THEN Without(x) ELSE sessions
  /\ engine' = [engine EXCEPT ![x] = "unregistered"]
  /\ UNCHANGED <<hmu, key, ctxDone, subs, grace, retiring, last, cast, pushing, casts,
                 closing, subVars, shutVars, panicked>>

(* closeAll's sess.mu section: take subs, leave it empty. *)
CloseAllOf(x, taken) ==
  /\ Up /\ engine[x] = "unregistered"
  /\ closing' = [closing EXCEPT ![x] = taken]
  /\ subs' = [subs EXCEPT ![x] = {}]
  /\ engine' = [engine EXCEPT ![x] = "closing"]
  /\ UNCHANGED <<sessions, hmu, key, ctxDone, grace, retiring, last, cast, pushing, casts,
                 subVars, shutVars, panicked>>

(* Mutant: subs is emptied before it is read. *)
CloseAllOfNone(x) == CloseAllOf(x, {})

CloseAll(x) == CloseAllOf(x, subs[x])

CloseEach(x, s) ==
  /\ Up /\ s \in closing[x]
  /\ closed' = [closed EXCEPT ![s] = TRUE]
  /\ closing' = [closing EXCEPT ![x] = @ \ {s}]
  /\ UNCHANGED <<sessions, hmu, key, ctxDone, engine, subs, grace, retiring, last, cast,
                 pushing, casts, pc, ref, greeting, queue, shutVars, panicked>>

(* close(sess.done), the last thing the goroutine does. *)
Exit(x) ==
  /\ Up /\ engine[x] = "closing" /\ closing[x] = {}
  /\ engine' = [engine EXCEPT ![x] = "gone"]
  /\ UNCHANGED <<sessions, hmu, key, ctxDone, subs, grace, retiring, last, cast, pushing,
                 casts, closing, subVars, shutVars, panicked>>

--------------------------------------------------------------------------------
(* Shutdown *)

ShutdownCollect ==
  /\ Up /\ shut = "up" /\ ~Locked
  /\ shut' = "cancel"
  /\ shutList' = {x \in Session : Registered(x)}
  /\ sessions' = [k \in Key |-> NoSession]
  /\ UNCHANGED <<hmu, key, ctxDone, sessVars, subVars, dropping, panicked>>

ShutdownCancel(x) ==
  /\ Up /\ shut = "cancel"
  /\ x \in shutList /\ ~ctxDone[x]
  /\ ctxDone' = [ctxDone EXCEPT ![x] = TRUE]
  /\ UNCHANGED <<sessions, hmu, key, sessVars, subVars, shutVars, panicked>>

ShutdownCancelled ==
  /\ Up /\ shut = "cancel"
  /\ \A x \in shutList : ctxDone[x]
  /\ shut' = "wait"
  /\ UNCHANGED <<sessions, hmu, key, ctxDone, sessVars, subVars, shutList, dropping,
                 panicked>>

(* The session is done, or has not stopped within three seconds: either way     *)
(* closeAll's sess.mu section follows.                                          *)
ShutdownDrop(x) ==
  /\ Up /\ shut = "wait" /\ dropping = {}
  /\ x \in shutList
  /\ shutList' = shutList \ {x}
  /\ dropping' = subs[x]
  /\ subs' = [subs EXCEPT ![x] = {}]
  /\ UNCHANGED <<sessions, hmu, key, ctxDone, engine, grace, retiring, last, cast, pushing,
                 casts, closing, subVars, shut, panicked>>

ShutdownCloseEach(s) ==
  /\ Up /\ s \in dropping
  /\ dropping' = dropping \ {s}
  /\ closed' = [closed EXCEPT ![s] = TRUE]
  /\ UNCHANGED <<sessions, hmu, key, ctxDone, sessVars, pc, ref, greeting, queue, shut,
                 shutList, panicked>>

ShutdownReturn ==
  /\ Up /\ shut = "wait" /\ shutList = {} /\ dropping = {}
  /\ shut' = "down"
  /\ UNCHANGED <<sessions, hmu, key, ctxDone, sessVars, subVars, shutList, dropping,
                 panicked>>

--------------------------------------------------------------------------------
Caller(s) ==
  \/ \E k \in Key : Join(s, k) \/ Reject(s, k) \/ (\E x \in Session : Start(s, k, x))
  \/ Attach(s) \/ Greet(s) \/ GreetPush(s) \/ Drain(s)
  \/ Lookup(s) \/ Detach(s) \/ CloseOwn(s)

Timer(x) == GraceFires(x) \/ RetireCheck(x) \/ RetireDrop(x)

Send(x) == SendPush(x) \/ \E s \in Sub : SendCheck(x, s)

Teardown(x) ==
  \/ EngineReturn(x) \/ BroadcastError(x) \/ Unregister(x) \/ CloseAll(x) \/ Exit(x)
  \/ \E s \in Sub : CloseEach(x, s)

Goroutine(x) == Broadcast(x) \/ Send(x) \/ EngineFail(x) \/ Teardown(x)

Shutdown ==
  \/ ShutdownCollect \/ ShutdownCancelled \/ ShutdownReturn
  \/ \E x \in Session : ShutdownCancel(x) \/ ShutdownDrop(x)
  \/ \E s \in Sub : ShutdownCloseEach(s)

Next ==
  \/ \E s \in Sub : Caller(s)
  \/ \E x \in Session : Timer(x) \/ Goroutine(x)
  \/ Shutdown

Spec == Init /\ [][Next]_vars

(* What the runtime guarantees: a goroutine that can take a step does, an armed *)
(* timer fires, and engine.Run returns once its context has ended.  Nothing     *)
(* makes a client subscribe or leave, a feed publish or fail, or the process    *)
(* receive a signal.                                                            *)
Fairness ==
  /\ \A s \in Sub : /\ WF_vars(Attach(s) \/ Greet(s) \/ GreetPush(s))
                    /\ WF_vars(Detach(s) \/ CloseOwn(s))
                    /\ WF_vars(ShutdownCloseEach(s))
  /\ \A x \in Session : /\ WF_vars(Timer(x))
                        /\ WF_vars(Send(x))
                        /\ WF_vars(Teardown(x))
                        /\ WF_vars(ShutdownCancel(x) \/ ShutdownDrop(x))
  /\ WF_vars(ShutdownCancelled \/ ShutdownReturn)

FairSpec == Spec /\ Fairness

--------------------------------------------------------------------------------
(* Safety *)

Alive(x) == engine[x] \in {"running", "failing", "returned"}

(* What Subscribe finds in the map is a session whose context has not been      *)
(* cancelled and whose goroutine has not started its teardown, and it is filed  *)
(* under its own contract: retire, Shutdown and the teardown all unregister     *)
(* before they cancel or close anything.                                        *)
RegisteredIsLive ==
  \A k \in Key : LET x == sessions[k] IN
    x # NoSession => key[x] = k /\ ~ctxDone[x] /\ Alive(x)

(* An engine that nobody has told to stop is reachable: it is in the map, or    *)
(* Shutdown holds it in its list.  Otherwise its broker subscription would      *)
(* never be released (a stale retire deleting a newer session's entry would do  *)
(* that).                                                                       *)
NoOrphan ==
  \A x \in Session : engine[x] = "running" /\ ~ctxDone[x] => Registered(x) \/ x \in shutList

(* The map holds what can be served, and misses nothing that must be stopped.    *)
MapIsHonest == RegisteredIsLive /\ NoOrphan

(* A registered session that nobody watches, and that no Subscribe is about to  *)
(* attach to, is on its way out: its timer is pending or its retire is in       *)
(* flight.  This is what keeps a closed tab from holding a broker subscription  *)
(* for the rest of the session.                                                 *)
UnwatchedIsRetiring ==
  \A x \in Session :
    Registered(x) /\ subs[x] = {} /\ (\A s \in Sub : ~(pc[s] = "attach" /\ ref[s] = x))
      => grace[x] = "armed" \/ retiring[x] > 0 \/ hmu = x

(* /health reports RetiringSoon from session.grace: a set timer means nobody is *)
(* attached, whatever order Subscribe, Unsubscribe and the timer came in.       *)
RetiringSoonIsHonest ==
  \A x \in Session : grace[x] # "nil" => subs[x] = {}

(* A client whose Subscribe has returned, whose frames channel is open and      *)
(* whose session is registered is in that session's fan-out: no Unsubscribe of  *)
(* somebody else and no teardown of an older session has removed it.            *)
WatcherIsServed ==
  \A s \in Sub : pc[s] = "on" /\ ~closed[s] /\ Registered(ref[s]) => s \in subs[ref[s]]

(* Nor is it forgotten once its session is on its way out: whoever has taken it  *)
(* off the fan-out, the session's own teardown or Shutdown's after three seconds *)
(* of waiting for that, has it on the list of those it is closing.  Only a client *)
(* in neither would wait for ever with its connection open.                      *)
NobodyIsForgotten ==
  \A s \in Sub : pc[s] \in {"greet", "greetPush", "on"} /\ ~closed[s]
                 => s \in subs[ref[s]] \cup closing[ref[s]] \cup dropping

--------------------------------------------------------------------------------
(* Liveness *)

(* A session left without subscribers does not stay registered for ever: it is  *)
(* retired, or somebody attaches, or the process is gone.                       *)
GraceEnds ==
  \A x \in Session :
    Registered(x) /\ subs[x] = {} ~> ~Registered(x) \/ subs[x] # {} \/ panicked

(* Every subscriber a cancelled session still has when its teardown begins is   *)
(* closed, so its connection's pump ends.                                       *)
TeardownClosesSubscribers ==
  \A x \in Session, s \in Sub :
    s \in subs[x] /\ ctxDone[x] /\ Alive(x) ~> closed[s] \/ panicked

--------------------------------------------------------------------------------
(* What the comments in hub.go say and the code does not do *)

(* "Losing the last subscriber starts a grace timer rather than a stop, so the  *)
(* session keeps computing across a reconnect": no client's leaving takes the   *)
(* process down.                                                                *)
LeavingIsSafe == ~panicked

================================================================================
