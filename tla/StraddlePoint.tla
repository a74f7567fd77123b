------------------------------ MODULE StraddlePoint ------------------------------
(* backend-go/straddle/engine.go with chain, tick, book and agg: what pump does    *)
(* with the data of one session.  Frames set a strike's quote and its day's        *)
(* volume; when the throttle timer fires, the cheapest straddle near the ATM is    *)
(* the session's point and goes into the open bar; a ticker closes bars.          *)
(*                                                                              *)
(* A strike stands for its two legs: the mid their depth gives, or their last      *)
(* prints where there is no depth, and a count of the day's volume for each of     *)
(* them.  Time is counted in beats of barTick; the throttle, a quarter of a beat,  *)
(* fires whenever the goroutine gets to it.  A frame bears the time the bridge's   *)
(* child stamped it with, on whatever thread, and may have waited in the pipe and  *)
(* the channels since: any instant up to now, whatever the one before bore.  The   *)
(* clock itself does not go back.  The channels are EngineRun's.                   *)
EXTENDS Integers, Sequences

CONSTANTS
  NStrikes,
  Band,
  Price,      \* mids, positive
  Metered,    \* the legs whose rows carry a volume; depth does on some builds only
  Interval,   \* BarIntervalMs, in beats
  MaxTime,    \* bound on the clock
  MaxVolume,  \* bound on a leg's volume, and on what is traded
  MaxPoints   \* bound on the points computed

Strike == 1..NStrikes
Leg == {"CE", "PE"}

ASSUME PointAssumption ==
  /\ Metered \subseteq Strike \X Leg
  /\ NStrikes \in Nat \ {0} /\ Band \in Nat /\ Price \subseteq Nat \ {0}
  /\ Interval \in Nat \ {0} /\ {MaxTime, MaxVolume, MaxPoints} \subseteq Nat

None == -1
Unquoted == 0

(* What sealed a published bar: a sample of a newer one, or the clock.            *)
Bar == [ts : Nat, n : Nat, volume : Nat, by : {"open", "sample", "clock"}]

VARIABLES
  clock,      \* the time
  beat,       \* the tick waiting in barTick.C, which holds one
  spot,       \* Engine.spot, as the strike nearest to it
  quote,      \* the mid of each strike's straddle
  volume,     \* volByRef: the last day's volume each leg has published
  pendingAt,  \* pump's pendingAt: the stamp of the last frame not computed
  armed,
  open,       \* the aggregator's open bar, <<>> or <<bar>>
  lastVol,
  bars,       \* bars published (history)
  counted,    \* points in the bars published (history)
  dropped,    \* points that went into no bar (history)
  points,     \* points computed (history)
  prevStrike, \* the strike of the last point
  latest,     \* the last stamp of a frame that touched, Unordered once one was older
              \* than the one before (history)
  mixed,      \* the sum of the legs' counts has said more than was traded (history)
  traded      \* what the counts have grown by since they were first seen (history)

pendingVars == <<pendingAt, armed, latest>>
barVars == <<open, bars, counted>>
pointVars == <<lastVol, barVars, dropped, points, prevStrike>>
dataVars == <<clock, beat, spot, quote, volume, traded, mixed, pendingVars, pointVars>>

Unordered == -2

PointTypeOK ==
  /\ clock \in 0..MaxTime /\ beat \in {None} \cup 0..MaxTime
  /\ spot \in {None} \cup Strike
  /\ quote \in [Strike -> {Unquoted} \cup Price]
  /\ volume \in [Strike -> [Leg -> {None} \cup 0..MaxVolume]]
  /\ pendingAt \in {None} \cup 0..MaxTime /\ armed \in BOOLEAN
  /\ open \in Seq(Bar) /\ Len(open) <= 1 /\ bars \in Seq(Bar)
  /\ lastVol \in {None} \cup Nat
  /\ prevStrike \in {None} \cup Strike /\ latest \in {None, Unordered} \cup 0..MaxTime
  /\ {counted, dropped} \subseteq Nat /\ points \in 0..MaxPoints
  /\ mixed \in BOOLEAN /\ traded \in 0..MaxVolume

PointInit ==
  /\ clock = 0 /\ beat = None
  /\ spot = None
  /\ quote = [s \in Strike |-> Unquoted]
  /\ volume = [s \in Strike |-> [l \in Leg |-> None]]
  /\ pendingAt = None /\ armed = FALSE /\ latest = None
  /\ open = <<>> /\ lastVol = None
  /\ prevStrike = None /\ mixed = FALSE
  /\ bars = <<>> /\ counted = 0 /\ dropped = 0 /\ points = 0 /\ traded = 0

--------------------------------------------------------------------------------
(* ingest *)

Touched ==
  \E stamp \in 0..clock :
    /\ pendingAt' = stamp /\ armed' = TRUE
    /\ latest' = IF latest # Unordered /\ stamp >= latest THEN stamp ELSE Unordered

Grown(old, new) == IF old = None THEN 0 ELSE IF new >= old THEN new - old ELSE new

Count(v) == IF v = None THEN 0 ELSE v

(* The other leg's count, which the sum goes on counting.                         *)
Beside(s, l) == Count(volume[s][CHOOSE m \in Leg : m # l])

(* A leg's new count makes the sum say what was not traded: it is the leg's first, *)
(* or less than before while the other leg's goes on being counted with it.        *)
Misleads(s, l, v) ==
  /\ s = prevStrike /\ lastVol # None
  /\ \/ volume[s][l] = None /\ v > 0
     \/ v < volume[s][l] /\ Beside(s, l) > 0

Observed(s, l, v) ==
  /\ volume' = [volume EXCEPT ![s][l] = v]
  /\ traded' = traded + Grown(volume[s][l], v) /\ traded' <= MaxVolume
  /\ mixed' = (mixed \/ Misleads(s, l, v))

(* One row of a frame, about a quote or about a volume, which a feed that starts   *)
(* its day's count anew sets back; the chain's frames also carry the spot price.   *)
(* A chain frame without legs, or depth that does not parse, touches nothing.  A   *)
(* frame of several rows is several frames with one stamp.                        *)
Frame ==
  /\ \/ /\ UNCHANGED quote
        /\ \/ UNCHANGED <<volume, traded, mixed>>
           \/ \E s \in Strike, l \in Leg, v \in 0..MaxVolume :
                <<s, l>> \in Metered /\ Observed(s, l, v)
        /\ Touched \/ UNCHANGED pendingVars
     \/ /\ \E s \in Strike, q \in {Unquoted} \cup Price : quote' = [quote EXCEPT ![s] = q]
        /\ UNCHANGED <<volume, traded, mixed>> /\ Touched
  /\ spot' \in {spot} \cup Strike
  /\ UNCHANGED <<clock, beat, pointVars>>

(* The underlying's own candles are heeded until there is a spot price.            *)
IndexFrame ==
  /\ spot = None
  /\ spot' \in Strike
  /\ Touched
  /\ UNCHANGED <<clock, beat, quote, volume, traded, mixed, pointVars>>

--------------------------------------------------------------------------------
(* agg.Aggregator *)

bucket(t) == t - (t % Interval)

Fresh(b) == [ts |-> b, n |-> 0, volume |-> 0, by |-> "open"]

(* What a sample's cumulative volume adds to its bar.                             *)
(* Mutant: the first sample's volume is its bar's.                               *)
DeltaFromZero(v) == IF v = None THEN 0 ELSE IF lastVol = None THEN v ELSE Grown(lastVol, v)

Delta(v) == IF v = None \/ lastVol = None THEN 0 ELSE Grown(lastVol, v)

Folded(bar, v) ==
  [ts |-> bar.ts, n |-> bar.n + 1, volume |-> bar.volume + Delta(v), by |-> bar.by]

Published(bar, by) ==
  bars' = Append(bars, [bar EXCEPT !.by = by]) /\ counted' = counted + bar.n

(* Add: a sample of an older bar than the open one is dropped, one of a newer bar  *)
(* seals the open one.                                                           *)
(* Mutant: a late sample seals the open bar too.                                  *)
AddTo(t, v, late, seals) ==
  IF late THEN dropped' = dropped + 1 /\ UNCHANGED <<barVars, lastVol>>
  ELSE /\ open' = <<Folded(IF open = <<>> \/ seals THEN Fresh(bucket(t)) ELSE open[1], v)>>
       /\ IF seals THEN Published(open[1], "sample") ELSE UNCHANGED <<bars, counted>>
       /\ lastVol' = IF v = None THEN lastVol ELSE v
       /\ UNCHANGED dropped

Late(t) == open # <<>> /\ bucket(t) < open[1].ts
Seals(t) == open # <<>> /\ bucket(t) > open[1].ts

AddOutOfOrder(t, v) == AddTo(t, v, FALSE, Late(t) \/ Seals(t))

Add(t, v) == AddTo(t, v, Late(t), Seals(t))

Flush(now) ==
  IF open # <<>> /\ bucket(now) > open[1].ts
  THEN open' = <<>> /\ Published(open[1], "clock")
  ELSE UNCHANGED barVars

--------------------------------------------------------------------------------
(* compute *)

NearestStrike(p) == IF p < 1 THEN 1 ELSE IF p > NStrikes THEN NStrikes ELSE p

CandidateStrikes(atm) == {NearestStrike(atm + d) : d \in -Band..Band}

(* The cheapest of the quoted candidates, the lowest strike among equals.          *)
Best(atm) ==
  {s \in CandidateStrikes(atm) : quote[s] # Unquoted /\
     \A r \in CandidateStrikes(atm) : quote[r] # Unquoted =>
       quote[s] < quote[r] \/ (quote[s] = quote[r] /\ s <= r)}

(* The two legs' volumes, nil counted as 0 unless both are.                      *)
CumVolume(s) ==
  IF \A l \in Leg : volume[s][l] = None THEN None
  ELSE Count(volume[s]["CE"]) + Count(volume[s]["PE"])

compute(t) ==
  IF spot = None \/ Best(spot) = {} THEN UNCHANGED <<pointVars, mixed>>
  ELSE \E s \in Best(spot) :
         /\ points' = points + 1
         /\ prevStrike' = s /\ mixed' = (mixed \/ prevStrike \notin {None, s})
         /\ Add(t, CumVolume(s))

(* The throttle window is over.  If compute asks for a re-arm, the next pump has a *)
(* ticker of its own and a tick that waits in this one's is lost.                 *)
TimerFires ==
  /\ armed /\ points < MaxPoints
  /\ armed' = FALSE /\ pendingAt' = None
  /\ compute(IF pendingAt = None THEN clock ELSE pendingAt)
  /\ beat' \in {beat, None}
  /\ UNCHANGED <<clock, spot, quote, volume, traded, latest>>

(* barTick *)
BarTick ==
  /\ beat # None /\ beat' = None
  /\ Flush(beat)
  /\ UNCHANGED <<clock, spot, quote, volume, traded, mixed, pendingVars, lastVol, dropped,
                 points, prevStrike>>

(* A tick nobody has come for yet is not followed by another.                     *)
Tick ==
  /\ clock < MaxTime
  /\ clock' = clock + 1
  /\ beat' = IF beat = None THEN clock + 1 ELSE beat
  /\ UNCHANGED <<spot, quote, volume, traded, mixed, pendingVars, pointVars>>

PointNext == Frame \/ IndexFrame \/ TimerFires \/ BarTick \/ Tick

PointSpec == PointInit /\ [][PointNext]_dataVars

--------------------------------------------------------------------------------
(* A point is in one bar, published or still open, unless a newer bar was open and  *)
(* Add dropped it: none is lost on the way from one bar to the next (agg.go        *)
(* 110-153, 156-181).                                                            *)
Counted == points = counted + dropped + (IF open = <<>> THEN 0 ELSE open[1].n)

(* A sample opens no bar as old as one published before it, unless the ticker has  *)
(* closed a bar in between, when there is no open bar for Add to compare it with.  *)
OnlyTheClockForgets ==
  /\ \A i, j \in DOMAIN bars : i < j /\ bars[j].ts <= bars[i].ts =>
       \E k \in i..(j - 1) : bars[k].by = "clock"
  /\ open # <<>> => \A i \in DOMAIN bars : open[1].ts <= bars[i].ts =>
       \E k \in i..Len(bars) : bars[k].by = "clock"

(* As long as frames come in the order they were stamped in, no point is dropped   *)
(* and bars come out in the order of time, however late they all are.             *)
InOrder ==
  latest # Unordered =>
    /\ dropped = 0
    /\ \A i, j \in DOMAIN bars : i < j => bars[i].ts <= bars[j].ts

BarsHoldThePoints == Counted /\ OnlyTheClockForgets /\ InOrder

(* "letting a late tick reopen a closed bar would mutate a bar the client has      *)
(* already drawn" (agg.go 105-108): a bar is published once.                     *)
BarsArePublishedOnce == \A i, j \in DOMAIN bars : bars[i].ts = bars[j].ts => i = j

(* "Volume rides along as the two legs' traded volume so a candle carries the      *)
(* activity that produced it" (engine.go 842-844): no bar says that more was       *)
(* traded than was, as long as the session keeps its strike, its legs have both    *)
(* been counted from the first sample on, and neither's count starts anew beside   *)
(* the other's.  Then Add subtracts from one sum another that is not its own past  *)
(* (agg.go 130-143, engine.go 670-682, 846-848).  A count that starts anew while   *)
(* the other leg's is nothing is what Add is written for.                         *)
VolumeWasTraded ==
  mixed \/ \A i \in DOMAIN (bars \o open) : (bars \o open)[i].volume <= traded

================================================================================
