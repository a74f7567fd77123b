------------------------------- MODULE LiveStream ------------------------------
(* How a session's points reach a client of marketd, and how a client that was  *)
(* away fills its hole: retain and ReplaySince of straddle/engine.go, the       *)
(* fan-out of hub/hub.go, and the handler, pump and writer of handleLive in     *)
(* cmd/marketd/main.go.                                                         *)
(*                                                                              *)
(* One session, running throughout (its lifecycle is module Hub's).  The n-th   *)
(* point it computes is n and bears the time n; statuses, states and bars share *)
(* the path of the points and are left out.  A member of Conn is a client with  *)
(* the socket it has at the moment; it keeps its mark, and refills from history *)
(* when told to, as src/hooks/useLiveStraddle.ts does.                          *)
EXTENDS Integers, Sequences

CONSTANTS
  Conn,
  MaxPoints,    \* bound: points computed
  ReplayCap,
  ReplayJoin,   \* ReplayJoinMs, in points
  QueueCap,     \* capacity of Subscriber.out
  WritesCap     \* capacity of a socket's writes channel

ASSUME StreamAssumption == ReplayCap \in Nat \ {0} /\ ReplayJoin \in Nat

VARIABLES
  first,     \* the first retained point
  last,      \* the last one; first = last + 1 when none is
  sending,   \* a retained point whose broadcast is not over, 0 when none
  todo,      \* subscribers that broadcast has still to reach, once it has begun
  handler,   \* where each socket's handler is
  mark,      \* the since of the request it serves
  reply,     \* the replay it is about to send
  attached,  \* the socket's subscriber is in session.subs
  dropped,   \* hub closed that subscriber: it was full
  queue,     \* Subscriber.out
  pumping,   \* the subscriber's pump runs
  writes,    \* frames for the writer
  got,       \* points the client holds
  newest,    \* its mark: the time of the last point it was sent, 0 before the first
  pardoned,  \* points a backfill skipped within ReplayJoin of its window
  lossy      \* a frame for this client did not fit into writes

engineVars == <<first, last, sending, todo>>
subVars == <<attached, dropped, queue, pumping>>
clientVars == <<got, newest, pardoned>>
streamVars == <<engineVars, handler, mark, reply, subVars, writes, clientVars, lossy>>

Point == 1..MaxPoints
Replay == [since : 0..MaxPoints, from : 1..(MaxPoints + 1), to : 0..MaxPoints, complete : BOOLEAN]
NoReplay == [since |-> 0, from |-> 1, to |-> 0, complete |-> TRUE]
PointFrame(n) == [kind |-> "point", n |-> n]
BackfillFrame(r) == [kind |-> "backfill", replay |-> r]
Frame == {PointFrame(n) : n \in Point} \cup {BackfillFrame(r) : r \in Replay}

StreamTypeOK ==
  /\ first \in 1..(MaxPoints + 1) /\ last \in 0..MaxPoints
  /\ last - first < ReplayCap
  /\ sending \in 0..MaxPoints /\ todo \subseteq Conn
  /\ handler \in [Conn -> {"read", "subscribe", "stop", "attached", "replayed", "resumed"}]
  /\ mark \in [Conn -> 0..MaxPoints]
  /\ reply \in [Conn -> Replay]
  /\ attached \in [Conn -> BOOLEAN] /\ dropped \in [Conn -> BOOLEAN]
  /\ pumping \in [Conn -> BOOLEAN] /\ lossy \in [Conn -> BOOLEAN]
  /\ newest \in [Conn -> 0..MaxPoints]
  /\ got \in [Conn -> SUBSET Point] /\ pardoned \in [Conn -> SUBSET Point]
  /\ \A c \in Conn :
       /\ queue[c] \in Seq(Point) /\ Len(queue[c]) <= QueueCap
       /\ writes[c] \in Seq(Frame) /\ Len(writes[c]) <= WritesCap

StreamInit ==
  /\ first = 1 /\ last = 0 /\ sending = 0 /\ todo = {}
  /\ handler = [c \in Conn |-> "read"]
  /\ mark = [c \in Conn |-> 0]
  /\ reply = [c \in Conn |-> NoReplay]
  /\ attached = [c \in Conn |-> FALSE]
  /\ dropped = [c \in Conn |-> FALSE]
  /\ queue = [c \in Conn |-> <<>>]
  /\ pumping = [c \in Conn |-> FALSE]
  /\ writes = [c \in Conn |-> <<>>]
  /\ got = [c \in Conn |-> {}]
  /\ newest = [c \in Conn |-> 0]
  /\ pardoned = [c \in Conn |-> {}]
  /\ lossy = [c \in Conn |-> FALSE]

Goto(c, l) == handler' = [handler EXCEPT ![c] = l]

--------------------------------------------------------------------------------
(* The engine: retain, then emit *)

TrimBy == IF ReplayCap \div 10 > 1 THEN ReplayCap \div 10 ELSE 1

Retain ==
  /\ sending = 0 /\ last < MaxPoints
  /\ last' = last + 1
  /\ first' = IF last' - first + 1 > ReplayCap THEN first + TrimBy ELSE first
  /\ sending' = last'
  /\ UNCHANGED <<todo, handler, mark, reply, subVars, writes, clientVars, lossy>>

(* broadcast takes the session's subscribers, under sess.mu. *)
Snapshot ==
  /\ sending # 0 /\ todo = {}
  /\ todo' = {c \in Conn : attached[c]}
  /\ IF todo' = {} THEN sending' = 0 ELSE UNCHANGED sending
  /\ UNCHANGED <<first, last, handler, mark, reply, subVars, writes, clientVars, lossy>>

(* Subscriber.send never blocks: a subscriber with no room is closed. *)
Send(c) ==
  /\ c \in todo
  /\ todo' = todo \ {c}
  /\ sending' = IF todo' = {} THEN 0 ELSE sending
  /\ IF dropped[c]
     THEN UNCHANGED <<queue, dropped>>
     ELSE IF Len(queue[c]) < QueueCap
     THEN /\ queue' = [queue EXCEPT ![c] = Append(@, sending)]
          /\ UNCHANGED dropped
     ELSE /\ dropped' = [dropped EXCEPT ![c] = TRUE]
          /\ UNCHANGED queue
  /\ UNCHANGED <<first, last, handler, mark, reply, attached, pumping, writes, clientVars, lossy>>

--------------------------------------------------------------------------------
(* The handler *)

(* A frame for the writer, or nothing when it is not keeping up. *)
Write(c, frame) ==
  IF Len(writes[c]) < WritesCap
  THEN /\ writes' = [writes EXCEPT ![c] = Append(@, frame)]
       /\ UNCHANGED lossy
  ELSE /\ lossy' = [lossy EXCEPT ![c] = TRUE]
       /\ UNCHANGED writes

(* Unsubscribe; the broadcast in progress finds the subscriber closed.          *)
Detached(c) ==
  /\ attached' = [attached EXCEPT ![c] = FALSE]
  /\ todo' = todo \ {c}
  /\ sending' = IF todo # {} /\ todo' = {} THEN 0 ELSE sending

(* subscribe and stop detach first; the since is the client's mark at the time. *)
(* A client with no point yet does not ask again while one is on its way to it. *)
Ask(c, verb) ==
  /\ handler[c] = "read"
  /\ newest[c] # 0 \/ (writes[c] = <<>> /\ queue[c] = <<>>)
  /\ mark' = [mark EXCEPT ![c] = IF verb = "subscribe" THEN newest[c] ELSE @]
  /\ Goto(c, verb)
  /\ Detached(c)
  /\ UNCHANGED <<first, last, reply, dropped, queue, pumping, writes, clientVars, lossy>>

(* <-pumpDone *)
StopDone(c) ==
  /\ handler[c] = "stop" /\ ~pumping[c]
  /\ Goto(c, "read")
  /\ UNCHANGED <<engineVars, mark, reply, subVars, writes, clientVars, lossy>>

Attach(c) ==
  /\ handler[c] = "subscribe" /\ ~pumping[c]
  /\ attached' = [attached EXCEPT ![c] = TRUE]
  /\ dropped' = [dropped EXCEPT ![c] = FALSE]
  /\ queue' = [queue EXCEPT ![c] = <<>>]
  /\ Goto(c, "attached")
  /\ UNCHANGED <<engineVars, mark, reply, pumping, writes, clientVars, lossy>>

(* What ReplaySince answers now: floor is the first retained point, or the      *)
(* session's start, and Complete says whether the mark reaches back to it.      *)
Floor == IF first > last THEN 0 ELSE first
ReplaySince(since, complete) ==
  [since |-> since, from |-> IF since < first THEN first ELSE since + 1, to |-> last,
   complete |-> complete]
Reaches(since) == since >= Floor - ReplayJoin

ReadReplayWith(c, replay) ==
  /\ handler[c] = "attached"
  /\ reply' = [reply EXCEPT ![c] = IF mark[c] = 0 THEN NoReplay ELSE replay]
  /\ Goto(c, "replayed")
  /\ UNCHANGED <<engineVars, mark, subVars, writes, clientVars, lossy>>

(* Mutants: the replay always claims to be complete; it misses the newest point. *)
ReadReplayBoldly(c) == ReadReplayWith(c, ReplaySince(mark[c], TRUE))
ReadReplayShort(c) ==
  ReadReplayWith(c, [ReplaySince(mark[c], Reaches(mark[c])) EXCEPT !.to = IF @ = 0 THEN 0 ELSE @ - 1])

ReadReplay(c) == ReadReplayWith(c, ReplaySince(mark[c], Reaches(mark[c])))

(* The backfill goes out before the pump starts. *)
SubscribeDone(c) ==
  /\ handler[c] = "replayed"
  /\ IF mark[c] = 0 THEN UNCHANGED <<writes, lossy>> ELSE Write(c, BackfillFrame(reply[c]))
  /\ pumping' = [pumping EXCEPT ![c] = TRUE]
  /\ Goto(c, "read")
  /\ UNCHANGED <<engineVars, mark, reply, attached, dropped, queue, clientVars>>

(* resume reads the window without touching the subscription. *)
Resume(c) ==
  /\ handler[c] = "read" /\ attached[c] /\ newest[c] # 0
  /\ mark' = [mark EXCEPT ![c] = newest[c]]
  /\ reply' = [reply EXCEPT ![c] = ReplaySince(newest[c], Reaches(newest[c]))]
  /\ Goto(c, "resumed")
  /\ UNCHANGED <<engineVars, subVars, writes, clientVars, lossy>>

ResumeDone(c) ==
  /\ handler[c] = "resumed"
  /\ Write(c, BackfillFrame(reply[c]))
  /\ Goto(c, "read")
  /\ UNCHANGED <<engineVars, mark, reply, subVars, clientVars>>

(* The socket fails: its frames are lost with it, and the client comes back on  *)
(* another.                                                                     *)
Fail(c) ==
  /\ handler[c] = "read"
  /\ Detached(c)
  /\ dropped' = [dropped EXCEPT ![c] = FALSE]
  /\ queue' = [queue EXCEPT ![c] = <<>>]
  /\ pumping' = [pumping EXCEPT ![c] = FALSE]
  /\ writes' = [writes EXCEPT ![c] = <<>>]
  /\ UNCHANGED <<first, last, handler, mark, reply, clientVars, lossy>>

--------------------------------------------------------------------------------
(* The pump, the writer and the client *)

Pump(c) ==
  /\ pumping[c] /\ queue[c] # <<>>
  /\ queue' = [queue EXCEPT ![c] = Tail(@)]
  /\ Write(c, PointFrame(Head(queue[c])))
  /\ UNCHANGED <<engineVars, handler, mark, reply, attached, dropped, pumping, clientVars>>

PumpEnds(c) ==
  /\ pumping[c] /\ queue[c] = <<>> /\ (dropped[c] \/ ~attached[c])
  /\ pumping' = [pumping EXCEPT ![c] = FALSE]
  /\ UNCHANGED <<engineVars, handler, mark, reply, attached, dropped, queue, writes, clientVars, lossy>>

(* A client told that a replay is incomplete refills from history, up to where  *)
(* the replay ends.                                                             *)
Receive(c, r) ==
  /\ newest' = [newest EXCEPT ![c] = IF r.from <= r.to THEN r.to ELSE @]
  /\ got' = [got EXCEPT ![c] = @ \cup IF r.complete THEN r.from..r.to ELSE 1..r.to]
  /\ pardoned' = [pardoned EXCEPT ![c] =
       IF r.complete THEN @ \cup {n \in (r.since + 1)..(r.from - 1) : n > r.from - ReplayJoin} ELSE @]

Deliver(c) ==
  /\ writes[c] # <<>>
  /\ writes' = [writes EXCEPT ![c] = Tail(@)]
  /\ LET frame == Head(writes[c]) IN
       IF frame.kind = "point"
       THEN /\ got' = [got EXCEPT ![c] = @ \cup {frame.n}]
            /\ newest' = [newest EXCEPT ![c] = frame.n]
            /\ UNCHANGED pardoned
       ELSE Receive(c, frame.replay)
  /\ UNCHANGED <<engineVars, handler, mark, reply, subVars, lossy>>

StreamNext ==
  \/ Retain \/ Snapshot
  \/ \E c \in Conn :
       \/ Send(c) \/ Ask(c, "subscribe") \/ Ask(c, "stop") \/ StopDone(c)
       \/ Attach(c) \/ ReadReplay(c) \/ SubscribeDone(c)
       \/ Resume(c) \/ ResumeDone(c) \/ Fail(c)
       \/ Pump(c) \/ PumpEnds(c) \/ Deliver(c)

StreamSpec == StreamInit /\ [][StreamNext]_streamVars

(* The goroutines run and the writer's socket takes its frames; no client has   *)
(* to ask, and no socket has to fail.                                           *)
StreamFairness ==
  /\ WF_streamVars(Snapshot)
  /\ \A c \in Conn :
       /\ WF_streamVars(Send(c)) /\ WF_streamVars(Pump(c)) /\ WF_streamVars(Deliver(c)) /\ WF_streamVars(PumpEnds(c))
       /\ WF_streamVars(StopDone(c) \/ Attach(c) \/ ReadReplay(c) \/ SubscribeDone(c) \/ ResumeDone(c))

StreamFairSpec == StreamSpec /\ StreamFairness

--------------------------------------------------------------------------------
(* Properties *)

(* "the client's `since` replays the hole out of the engine's retained window": *)
(* whatever was in flight when its socket failed or it subscribed again, a      *)
(* client whose frames all fitted has every point between its first and its     *)
(* newest, those within ReplayJoin of a window's edge excepted.                 *)
NoHole ==
  \A c \in Conn : ~lossy[c] =>
    \A m, n \in got[c] : m..n \subseteq got[c] \cup pardoned[c]

(* "the client's `since` replays the hole": a point broadcast to a client that is *)
(* attached reaches it, and so does every point retained since the mark it        *)
(* subscribes with, whether or not a later one is sent; or a frame did not fit,   *)
(* or the client was cut off, went away or asked again.                          *)
EveryPointArrives ==
  \A c \in Conn : \A n \in Point :
    (\/ sending = n /\ c \in todo
     \/ handler[c] = "attached" /\ mark[c] # 0 /\ n \in (mark[c] + 1)..last)
      ~> n \in got[c] \cup pardoned[c] \/ lossy[c] \/ dropped[c] \/ ~attached[c]

================================================================================
