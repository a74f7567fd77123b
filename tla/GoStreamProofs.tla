---------------------------- MODULE GoStreamProofs -----------------------------
(* Machine-checked proofs about the data feed of a marketd session: BridgeRun,   *)
(* for every capacity, silence, back-off and bound, and LiveStream, for every    *)
(* number of clients and points and every window, queue and writes channel.      *)
EXTENDS BridgeRun, LiveStream, TLAPS

--------------------------------------------------------------------------------
(* BridgeRun: a child process is watched until it is gone, and every step of the *)
(* supervisor is a step of the Source it implements, or a stutter.               *)

(* A child lives between Start and Waited, and its watchdog while its output is   *)
(* scanned.                                                                      *)
ChildHasItsTime == child = "up" => pc \in {"connecting", "scan", "telling", "drain"}
DogHasItsTime == dog # "off" => pc \in {"scan", "telling"}
Watched == pc = "connecting" \/ dog # "off" \/ runDone \/ cancelled \/ abandoned

Inv ==
  /\ ChildHasItsTime
  /\ DogHasItsTime
  /\ child = "up" => Watched

LEMMA Initially == Init => Inv
  BY DEF Init, Inv, ChildHasItsTime, DogHasItsTime

(* A step of Run's own goroutine: a child is there from Start on, its watchdog    *)
(* from Connecting to the end of the scan, and ScanEnds owns up to leaving it.    *)
LEMMA RunPreserves == ASSUME Inv, Run \/ ScanEnds PROVE Inv'
<1> USE DEF Inv, ChildHasItsTime, DogHasItsTime, Watched
<1>1. CASE Script
  BY <1>1 DEF Script, reporting
<1>2. CASE NoScript
  BY <1>2 DEF NoScript
<1>3. CASE LoopEnds
  BY <1>3 DEF LoopEnds, reporting
<1>4. CASE Start
  BY <1>4 DEF Start, reporting
<1>5. CASE Connecting
  BY <1>5 DEF Connecting
<1>6. CASE Told
  BY <1>6 DEF Told
<1>7. CASE Waited
  BY <1>7 DEF Waited, reporting
<1>8. CASE Stopped
  BY <1>8 DEF Stopped, reporting
<1>9. CASE NotFound
  BY <1>9 DEF NotFound
<1>10. CASE Report
  BY <1>10 DEF Report
<1>11. CASE Again
  BY <1>11 DEF Again, reporting
<1>12. CASE ScanEnds
  BY <1>12 DEF ScanEnds
<1> QED BY <1>1, <1>2, <1>3, <1>4, <1>5, <1>6, <1>7, <1>8, <1>9, <1>10, <1>11, <1>12 DEF Run

(* A step of anybody else.  The watchdog lets go of its child only by ending it,  *)
(* or because the context has ended.                                             *)
LEMMA OthersPreserve ==
  ASSUME Inv,
         Data \/ Tell \/ Stall \/ Kill \/ DogLeaves \/ Stray \/ Exits \/ Cancel \/ Read \/ Tick
  PROVE  Inv'
<1> USE DEF Inv, ChildHasItsTime, DogHasItsTime, Watched
<1>1. CASE Data
  BY <1>1 DEF Data
<1>2. CASE Tell
  BY <1>2 DEF Tell, reporting
<1>3. CASE Stall
  BY <1>3 DEF Stall, reporting
<1>4. CASE Kill
  BY <1>4 DEF Kill
<1>5. CASE DogLeaves
  BY <1>5 DEF DogLeaves, reporting
<1>6. CASE Stray
  BY <1>6 DEF Stray
<1>7. CASE Exits
  BY <1>7 DEF Exits, reporting
<1>8. CASE Cancel
  BY <1>8 DEF Cancel, reporting
<1>9. CASE Read
  BY <1>9 DEF Read
<1>10. CASE Tick
  BY <1>10 DEF Tick, reporting
<1> QED BY <1>1, <1>2, <1>3, <1>4, <1>5, <1>6, <1>7, <1>8, <1>9, <1>10

LEMMA Invariance == Spec => []Inv
<1>1. Inv /\ [Next]_vars => Inv'
  <2> SUFFICES ASSUME Inv, [Next]_vars PROVE Inv'
    OBVIOUS
  <2>1. CASE Run \/ ScanEnds
    BY <2>1, RunPreserves
  <2>2. CASE Data \/ Tell \/ Stall \/ Kill \/ DogLeaves \/ Stray \/ Exits \/ Cancel \/ Read \/ Tick
    BY <2>2, OthersPreserve
  <2>3. CASE UNCHANGED vars
    BY <2>3 DEF vars, Inv, ChildHasItsTime, DogHasItsTime, Watched
  <2> QED BY <2>1, <2>2, <2>3 DEF Next
<1> QED BY Initially, <1>1, PTL DEF Spec

(* No child process is ever out of everybody's sight, except one whose output     *)
(* ended before it did, and none is left when Run has returned (bridge.go         *)
(* 264-395): what the marketd process would otherwise accumulate.                *)
THEOREM ChildIsWatchedHolds == Spec => []ChildIsWatched
<1>1. Inv => ChildIsWatched
  BY DEF Inv, ChildHasItsTime, Watched, ChildIsWatched, Returned
<1> QED BY <1>1, Invariance, PTL

(* How Run may leave its goroutine's position: the three ways of returning, and   *)
(* the others, none of which leaves a position where it has returned.             *)
LEMMA StepOfASource == [Next]_vars => [S!Next]_<<cancelled, IF Returned THEN pc ELSE "serving">>
<1> SUFFICES ASSUME [Next]_vars
             PROVE  [S!Next]_<<cancelled, IF Returned THEN pc ELSE "serving">>
  OBVIOUS
<1> DEFINE run == IF Returned THEN pc ELSE "serving"
<1> USE DEF S!Next, S!Cancel, S!Stop, S!GiveUp, Returned
<1>1. CASE LoopEnds \/ Stopped
  BY <1>1 DEF LoopEnds, Stopped, reporting
<1>2. CASE NoScript \/ NotFound
  BY <1>2 DEF NoScript, NotFound
<1>3. CASE Script \/ Start \/ Connecting \/ Told \/ Waited \/ Report \/ Again \/ ScanEnds \/ Tell
  BY <1>3 DEF Script, Start, Connecting, Told, Waited, Report, Again, ScanEnds, Tell, reporting
<1>4. CASE Data \/ Stall \/ Kill \/ DogLeaves \/ Stray \/ Exits \/ Read \/ Tick
  BY <1>4 DEF Data, Stall, Kill, DogLeaves, Stray, Exits, Read, Tick, reporting
<1>5. CASE Cancel
  BY <1>5 DEF Cancel, reporting
<1>6. CASE UNCHANGED vars
  BY <1>6 DEF vars
<1> QED BY <1>1, <1>2, <1>3, <1>4, <1>5, <1>6 DEF Next, Run

(* The supervisor is a Source in all it does: it returns nil only when its        *)
(* context has ended, gives up by an error otherwise, and having returned does    *)
(* nothing more (feed.go 116-125).  That it does return when the context ends is  *)
(* the liveness half of ImplementsSource, which is model-checked.                *)
THEOREM StepsImplementSource ==
  Spec => S!Init /\ [][S!Next]_<<cancelled, IF Returned THEN pc ELSE "serving">>
<1>1. Init => S!Init
  BY DEF Init, S!Init, Returned
<1> QED BY <1>1, StepOfASource, PTL DEF Spec

--------------------------------------------------------------------------------
(* LiveStream: no client has a hole between two points it holds.                 *)

(* Runs of consecutive points.                                                   *)
Interval(X) == \A m, n \in X : \A x \in Nat : m <= x /\ x <= n => x \in X

(* X is empty, or n goes on from a point of it, or is one.                        *)
Linked(n, X) == X = {} \/ n \in X \/ n - 1 \in X

LEMMA PointGoesOn ==
  ASSUME NEW X \in SUBSET Nat, NEW n \in Nat, Interval(X), Linked(n, X)
  PROVE  Interval(X \cup {n})
<1> SUFFICES ASSUME NEW a \in X \cup {n}, NEW b \in X \cup {n}, NEW x \in Nat, a <= x, x <= b, x # n
             PROVE  x \in X
  BY DEF Interval
<1> a \in Nat /\ b \in Nat
  OBVIOUS
<1>1. CASE X = {}
  BY <1>1
<1>2. CASE n \in X
  BY <1>2 DEF Interval
<1>3. CASE n - 1 \in X
  <2>1. CASE a \in X /\ b \in X
    BY <2>1 DEF Interval
  <2>2. CASE a \in X /\ b = n
    <3>1. x <= n - 1
      BY <2>2
    <3> QED
      BY <1>3, <2>2, <3>1 DEF Interval
  <2>3. CASE a = n /\ b \in X
    <3>1. n - 1 <= x
      BY <2>3
    <3> QED
      BY <1>3, <2>3, <3>1 DEF Interval
  <2> QED
    BY <2>1, <2>2, <2>3
<1> QED
  BY <1>1, <1>2, <1>3 DEF Linked

(* Two runs that share a point, or of which one starts where the other goes on.    *)
LEMMA RunsJoin ==
  ASSUME NEW X \in SUBSET Nat, Interval(X), NEW lo \in Nat, NEW hi \in Nat, NEW s \in X,
         lo <= s + 1, s <= hi \/ hi < lo
  PROVE  Interval(X \cup lo..hi)
<1> SUFFICES ASSUME NEW a \in X \cup lo..hi, NEW b \in X \cup lo..hi, NEW x \in Nat, a <= x, x <= b,
                    x \notin lo..hi
             PROVE  x \in X
  BY DEF Interval
<1> a \in Nat /\ b \in Nat /\ s \in Nat
  OBVIOUS
<1>1. CASE hi < lo
  BY <1>1 DEF Interval
<1>2. CASE x < lo
  <2>1. a \in X /\ x <= s
    BY <1>2
  <2> QED
    BY <2>1 DEF Interval
<1>3. CASE hi < x /\ s <= hi
  <2>1. b \in X /\ s <= x
    BY <1>3
  <2> QED
    BY <2>1 DEF Interval
<1> QED
  BY <1>1, <1>2, <1>3

--------------------------------------------------------------------------------
(* Replays and frames.                                                           *)
ReplayState == [since : Nat, from : Nat, to : Nat, complete : BOOLEAN]
FrameState == [kind : {"point"}, n : Nat] \cup [kind : {"backfill"}, replay : ReplayState]

(* What a frame adds to what a client holds or is excused from.                   *)
ReplaySpan(r) == IF r.complete THEN (r.since + 1)..r.to ELSE 1..r.to
Span(frame) == IF frame.kind = "point" THEN {frame.n} ELSE ReplaySpan(frame.replay)

(* What ReplaySince answers for a mark that is a point: it skips nothing but what *)
(* ReplayJoin excuses, and is empty only when there is nothing newer.             *)
Honest(r) ==
  /\ r \in ReplayState /\ r.since >= 1 /\ r.since + 1 <= r.from
  /\ r.complete => \A n \in (r.since + 1)..(r.from - 1) : n > r.from - ReplayJoin
  /\ r.from <= r.to \/ (r.complete /\ r.from = r.since + 1)

LEMMA SpanIsRun ==
  ASSUME NEW f \in FrameState
  PROVE  Span(f) \in SUBSET Nat
  BY DEF FrameState, ReplayState, Span, ReplaySpan

LEMMA ReplayGoesOn ==
  ASSUME NEW X \in SUBSET Nat, Interval(X), NEW r, Honest(r), r.since \in X
  PROVE  Interval(X \cup ReplaySpan(r))
<1>1. /\ r.since \in Nat /\ r.from \in Nat /\ r.to \in Nat /\ r.complete \in BOOLEAN
      /\ r.since >= 1 /\ r.since + 1 <= r.from
      /\ r.from <= r.to \/ (r.complete /\ r.from = r.since + 1)
  BY DEF Honest, ReplayState
<1>2. CASE r.complete
  <2> DEFINE lo == r.since + 1
  <2>1. lo \in Nat /\ lo <= r.since + 1 /\ (r.since <= r.to \/ r.to < lo)
    BY <1>1
  <2>2. ReplaySpan(r) = lo..r.to
    BY <1>2 DEF ReplaySpan
  <2> HIDE DEF lo
  <2> QED
    BY <1>1, <2>1, <2>2, RunsJoin
<1>3. CASE ~r.complete
  <2>1. r.since <= r.to
    BY <1>1, <1>3
  <2> QED
    BY <1>1, <1>3, <2>1, RunsJoin DEF ReplaySpan
<1> QED
  BY <1>2, <1>3

(* The end of a replay is reached by it, or was there.                           *)
LEMMA ReplayReaches ==
  ASSUME NEW X \in SUBSET Nat, Interval(X), NEW r, Honest(r), r.since \in X,
         NEW n \in Nat, r.since <= n, n <= r.to + 1
  PROVE  Linked(n, X \cup ReplaySpan(r))
<1>1. /\ r.since \in Nat /\ r.from \in Nat /\ r.to \in Nat /\ r.complete \in BOOLEAN
      /\ r.since >= 1 /\ r.since + 1 <= r.from
      /\ r.from <= r.to \/ (r.complete /\ r.from = r.since + 1)
  BY DEF Honest, ReplayState
<1>2. \A x \in r.since..r.to : x \in X \cup ReplaySpan(r)
  BY <1>1 DEF ReplaySpan
<1>3. CASE n <= r.to
  BY <1>1, <1>2, <1>3 DEF Linked
<1>4. CASE n = r.to + 1
  <2>1. CASE r.since <= r.to
    BY <1>1, <1>2, <1>4, <2>1 DEF Linked
  <2>2. CASE r.to < r.since
    BY <1>1, <1>4, <2>2 DEF Linked
  <2> QED
    BY <1>1, <2>1, <2>2
<1> QED
  BY <1>1, <1>3, <1>4

(* What is held or pardoned once the first i of the frames w have come.           *)
HeldOf(C, w, i) == C \cup {x \in Nat : \E j \in 1..i : x \in Span(w[j])}
HeldByAll(C, w) == HeldOf(C, w, Len(w))
NoFrameHoles(C, w) == \A i \in 0..Len(w) : Interval(HeldOf(C, w, i))

LEMMA FrameAppended ==
  ASSUME NEW C \in SUBSET Nat, NEW w \in Seq(FrameState), NEW f \in FrameState,
         NoFrameHoles(C, w), Interval(HeldByAll(C, w) \cup Span(f))
  PROVE  /\ NoFrameHoles(C, Append(w, f))
         /\ HeldByAll(C, Append(w, f)) = HeldByAll(C, w) \cup Span(f)
<1> DEFINE v == Append(w, f)
<1>1. /\ Len(v) = Len(w) + 1 /\ Len(w) \in Nat /\ v[Len(w) + 1] = f
      /\ \A j \in 1..Len(w) : v[j] = w[j]
  OBVIOUS
<1> HIDE DEF v
<1>2. \A i \in 0..Len(w) : HeldOf(C, v, i) = HeldOf(C, w, i)
  BY <1>1 DEF HeldOf
<1>3. HeldOf(C, v, Len(w) + 1) = HeldOf(C, w, Len(w)) \cup Span(f)
  <2>1. Span(f) \in SUBSET Nat
    BY SpanIsRun
  <2>2. \A x \in Nat : (\E j \in 1..(Len(w) + 1) : x \in Span(v[j]))
                         <=> (\E j \in 1..Len(w) : x \in Span(w[j])) \/ x \in Span(f)
    BY <1>1
  <2> QED
    BY <2>1, <2>2 DEF HeldOf
<1>4. NoFrameHoles(C, v)
  <2> SUFFICES ASSUME NEW i \in 0..(Len(w) + 1) PROVE Interval(HeldOf(C, v, i))
    BY <1>1 DEF NoFrameHoles
  <2>1. CASE i \in 0..Len(w)
    BY <1>2, <2>1 DEF NoFrameHoles
  <2>2. CASE i = Len(w) + 1
    BY <1>3, <2>2 DEF HeldByAll
  <2> QED
    BY <1>1, <2>1, <2>2
<1> QED
  BY <1>1, <1>3, <1>4 DEF HeldByAll, v

LEMMA FrameTaken ==
  ASSUME NEW C \in SUBSET Nat, NEW w \in Seq(FrameState), w # <<>>, NoFrameHoles(C, w)
  PROVE  /\ NoFrameHoles(C \cup Span(Head(w)), Tail(w))
         /\ HeldByAll(C \cup Span(Head(w)), Tail(w)) = HeldByAll(C, w)
<1> DEFINE v == Tail(w)
           D == C \cup Span(w[1])
<1>1. /\ Len(v) = Len(w) - 1 /\ Len(w) \in Nat /\ Len(w) >= 1 /\ Head(w) = w[1] /\ w[1] \in FrameState
      /\ \A j \in 1..Len(v) : v[j] = w[j + 1]
  OBVIOUS
<1>2. Span(w[1]) \in SUBSET Nat
  BY <1>1, SpanIsRun
<1> HIDE DEF v
<1>3. ASSUME NEW i \in 0..Len(v)
      PROVE  HeldOf(D, v, i) = HeldOf(C, w, i + 1)
  <2>1. ASSUME NEW x \in Nat
        PROVE  x \in Span(w[1]) \/ (\E j \in 1..i : x \in Span(v[j]))
                 <=> (\E j \in 1..(i + 1) : x \in Span(w[j]))
    <3>1. ASSUME NEW j \in 1..i, x \in Span(v[j]) PROVE \E k \in 1..(i + 1) : x \in Span(w[k])
      <4>1. v[j] = w[j + 1] /\ j + 1 \in 1..(i + 1)
        BY <1>1
      <4> QED
        BY <3>1, <4>1
    <3>2. ASSUME NEW k \in 1..(i + 1), x \in Span(w[k])
          PROVE  x \in Span(w[1]) \/ \E j \in 1..i : x \in Span(v[j])
      <4>1. CASE k = 1
        BY <3>2, <4>1
      <4>2. CASE k # 1
        <5>1. v[k - 1] = w[k] /\ k - 1 \in 1..i
          BY <1>1, <4>2
        <5> QED
          BY <3>2, <5>1
      <4> QED
        BY <4>1, <4>2
    <3>3. x \in Span(w[1]) => \E k \in 1..(i + 1) : x \in Span(w[k])
      <4>1. 1 \in 1..(i + 1)
        BY <1>1
      <4> QED
        BY <4>1
    <3> QED
      BY <3>1, <3>2, <3>3
  <2> QED
    BY <1>2, <2>1 DEF HeldOf
<1> HIDE DEF D
<1>4. NoFrameHoles(D, v)
  <2> SUFFICES ASSUME NEW i \in 0..Len(v) PROVE Interval(HeldOf(D, v, i))
    BY DEF NoFrameHoles
  <2>1. i + 1 \in 0..Len(w)
    BY <1>1
  <2> QED
    BY <1>3, <2>1 DEF NoFrameHoles
<1>5. HeldOf(D, v, Len(v)) = HeldOf(C, w, Len(w))
  <2>1. Len(v) \in 0..Len(v) /\ Len(v) + 1 = Len(w)
    BY <1>1
  <2> QED
    BY <1>3, <2>1
<1> QED
  BY <1>1, <1>4, <1>5 DEF HeldByAll, v, D

(* A member of what is held now stays one.                                       *)
LEMMA CoverIsHeld ==
  ASSUME NEW C \in SUBSET Nat, NEW w \in Seq(FrameState)
  PROVE  C \subseteq HeldByAll(C, w) /\ HeldByAll(C, w) \in SUBSET Nat
  BY DEF HeldByAll, HeldOf

--------------------------------------------------------------------------------
(* A subscriber's queue q: consecutive points up to the newest, and if it is still *)
(* being sent to, up to the one before the next.                                 *)
QueueSound(q, newestPoint, open, next) ==
  /\ q \in Seq(Nat)
  /\ \A i \in 1..Len(q) : 1 <= q[i] /\ q[i] <= newestPoint
  /\ \A i \in 1..(Len(q) - 1) : q[i + 1] = q[i] + 1
  /\ q # <<>> /\ open => q[Len(q)] + 1 = next

ComingOf(q, next) == IF q # <<>> THEN q[1] ELSE next

LEMMA EmptyIsShort ==
  ASSUME NEW T, NEW s \in Seq(T)
  PROVE  s = <<>> <=> Len(s) = 0
  OBVIOUS

LEMMA QueueAppended ==
  ASSUME NEW q, NEW m \in Nat, NEW next \in Nat, QueueSound(q, m, TRUE, next), 1 <= next, next <= m
  PROVE  /\ QueueSound(Append(q, next), m, TRUE, next + 1)
         /\ Append(q, next) # <<>> /\ Append(q, next)[1] = ComingOf(q, next)
<1> DEFINE v == Append(q, next)
<1>1. /\ q \in Seq(Nat) /\ Len(q) \in Nat /\ v \in Seq(Nat) /\ Len(v) = Len(q) + 1 /\ v[Len(q) + 1] = next
      /\ \A i \in 1..Len(q) : v[i] = q[i]
  BY DEF QueueSound
<1>2. (q = <<>> <=> Len(q) = 0) /\ v # <<>>
  BY <1>1
<1> HIDE DEF v
<1>3. \A i \in 1..Len(v) : 1 <= v[i] /\ v[i] <= m
  <2> SUFFICES ASSUME NEW i \in 1..Len(v) PROVE 1 <= v[i] /\ v[i] <= m
    OBVIOUS
  <2>1. CASE i \in 1..Len(q)
    <3>1. v[i] = q[i] /\ 1 <= q[i] /\ q[i] <= m
      BY <1>1, <2>1 DEF QueueSound
    <3> QED
      BY <3>1
  <2>2. CASE i = Len(q) + 1
    BY <1>1, <2>2
  <2>3. i \in 1..Len(q) \/ i = Len(q) + 1
    BY <1>1
  <2> QED
    BY <2>1, <2>2, <2>3
<1>4. \A i \in 1..(Len(v) - 1) : v[i + 1] = v[i] + 1
  <2> SUFFICES ASSUME NEW i \in 1..Len(q) PROVE v[i + 1] = v[i] + 1
    BY <1>1
  <2>1. CASE i = Len(q)
    BY <1>1, <1>2, <2>1 DEF QueueSound
  <2>2. CASE i # Len(q)
    <3>1. i \in 1..(Len(q) - 1) /\ i \in 1..Len(q) /\ i + 1 \in 1..Len(q)
      BY <1>1, <2>2
    <3>2. q[i + 1] = q[i] + 1
      BY <3>1 DEF QueueSound
    <3> QED
      BY <1>1, <3>1, <3>2
  <2> QED
    BY <2>1, <2>2
<1>5. v[1] = ComingOf(q, next)
  BY <1>1, <1>2 DEF ComingOf
<1> QED
  BY <1>1, <1>2, <1>3, <1>4, <1>5 DEF QueueSound, v

LEMMA QueueTaken ==
  ASSUME NEW q, NEW m \in Nat, NEW open \in BOOLEAN, NEW next \in Nat, QueueSound(q, m, open, next), q # <<>>
  PROVE  /\ QueueSound(Tail(q), m, open, next)
         /\ Head(q) = q[1] /\ Head(q) \in Nat /\ 1 <= Head(q) /\ Head(q) <= m
         /\ Tail(q) # <<>> \/ open => ComingOf(Tail(q), next) = Head(q) + 1
<1> DEFINE v == Tail(q)
           n == Len(q)
           k == Len(v)
<1>1. q \in Seq(Nat) /\ v \in Seq(Nat) /\ Head(q) = q[1]
  BY DEF QueueSound
<1>2. n \in Nat /\ n >= 1 /\ k = n - 1
  BY <1>1
<1>3. \A i \in 1..k : v[i] = q[i + 1]
  BY <1>1
<1>4. v = <<>> <=> k = 0
  <2> HIDE DEF v
  <2> QED
    BY <1>1, EmptyIsShort
<1>5. /\ \A i \in 1..n : q[i] \in Nat /\ 1 <= q[i] /\ q[i] <= m
      /\ \A i \in 1..(n - 1) : q[i + 1] = q[i] + 1
      /\ open => q[n] + 1 = next
  BY <1>1 DEF QueueSound
<1> HIDE DEF v, n, k
<1>6. \A i \in 1..k : 1 <= v[i] /\ v[i] <= m
  BY <1>2, <1>3, <1>5
<1>7. \A i \in 1..(k - 1) : v[i + 1] = v[i] + 1
  <2> SUFFICES ASSUME NEW i \in 1..(k - 1) PROVE v[i + 1] = v[i] + 1
    OBVIOUS
  <2>1. i \in 1..k /\ i + 1 \in 1..k /\ i + 1 \in 1..(n - 1)
    BY <1>2
  <2>2. v[i] = q[i + 1] /\ v[i + 1] = q[(i + 1) + 1]
    BY <1>3, <2>1
  <2>3. q[(i + 1) + 1] = q[i + 1] + 1
    BY <1>5, <2>1
  <2> QED
    BY <2>2, <2>3
<1>8. v # <<>> /\ open => v[k] + 1 = next
  <2> SUFFICES ASSUME v # <<>>, open PROVE v[k] + 1 = next
    OBVIOUS
  <2>1. k \in 1..k /\ k + 1 = n
    BY <1>2, <1>4
  <2> QED
    BY <1>3, <1>5, <2>1
<1>9. v # <<>> \/ open => ComingOf(v, next) = q[1] + 1
  <2>1. CASE v # <<>>
    <3>1. 1 \in 1..k /\ 1 \in 1..(n - 1)
      BY <1>2, <1>4, <2>1
    <3>2. v[1] = q[1] + 1
      BY <1>3, <1>5, <3>1
    <3> QED
      BY <2>1, <3>2 DEF ComingOf
  <2>2. CASE v = <<>> /\ open
    <3>1. n = 1
      BY <1>2, <1>4, <2>2
    <3> QED
      BY <1>5, <2>2, <3>1 DEF ComingOf
  <2> QED
    BY <2>1, <2>2
<1>10. QueueSound(v, m, open, next)
  BY <1>1, <1>6, <1>7, <1>8 DEF QueueSound, k
<1>11. Head(q) \in Nat /\ 1 <= Head(q) /\ Head(q) <= m
  BY <1>1, <1>2, <1>5
<1> QED
  BY <1>1, <1>9, <1>10, <1>11 DEF v

--------------------------------------------------------------------------------
(* The frames on their way to a client.                                          *)
FrameSound(f, m) ==
  IF f.kind = "point" THEN 1 <= f.n /\ f.n <= m ELSE Honest(f.replay) /\ f.replay.to <= m
WritesSound(w, m) == \A i \in 1..Len(w) : FrameSound(w[i], m)

LEMMA WritesLast ==
  ASSUME NEW w \in Seq(FrameState), NEW m \in Nat, NEW n \in Nat, m <= n, WritesSound(w, m)
  PROVE  WritesSound(w, n)
<1> SUFFICES ASSUME NEW i \in 1..Len(w) PROVE FrameSound(w[i], n)
  BY DEF WritesSound
<1>1. w[i] \in FrameState /\ FrameSound(w[i], m)
  BY DEF WritesSound
<1>2. CASE w[i].kind = "point"
  <2>1. w[i].n \in Nat
    BY <1>1, <1>2 DEF FrameState
  <2> QED
    BY <1>1, <1>2, <2>1 DEF FrameSound
<1>3. CASE w[i].kind # "point"
  <2>1. w[i].replay.to \in Nat
    BY <1>1, <1>3 DEF FrameSound, Honest, ReplayState
  <2> QED
    BY <1>1, <1>3, <2>1 DEF FrameSound
<1> QED
  BY <1>2, <1>3

LEMMA WritesAppended ==
  ASSUME NEW w \in Seq(FrameState), NEW m, WritesSound(w, m), NEW f \in FrameState, FrameSound(f, m)
  PROVE  WritesSound(Append(w, f), m) /\ Append(w, f) \in Seq(FrameState)
<1>1. /\ Append(w, f) \in Seq(FrameState) /\ Len(Append(w, f)) = Len(w) + 1 /\ Len(w) \in Nat
      /\ \A i \in 1..Len(w) : Append(w, f)[i] = w[i]
      /\ Append(w, f)[Len(w) + 1] = f
  OBVIOUS
<1>2. \A i \in 1..(Len(w) + 1) : i \in 1..Len(w) \/ i = Len(w) + 1
  BY <1>1
<1> QED
  BY <1>1, <1>2 DEF WritesSound

LEMMA WritesTaken ==
  ASSUME NEW w \in Seq(FrameState), NEW m, WritesSound(w, m), w # <<>>
  PROVE  /\ WritesSound(Tail(w), m) /\ Tail(w) \in Seq(FrameState)
         /\ FrameSound(Head(w), m) /\ Head(w) \in FrameState
<1>1. /\ Tail(w) \in Seq(FrameState) /\ Len(Tail(w)) = Len(w) - 1 /\ Len(w) \in Nat /\ Len(w) >= 1
      /\ \A i \in 1..Len(Tail(w)) : Tail(w)[i] = w[i + 1]
      /\ Head(w) = w[1] /\ w[1] \in FrameState
  OBVIOUS
<1>2. 1 \in 1..Len(w) /\ \A i \in 1..Len(Tail(w)) : i + 1 \in 1..Len(w)
  BY <1>1
<1> QED
  BY <1>1, <1>2 DEF WritesSound

--------------------------------------------------------------------------------
(* The invariant.                                                                *)
HandlerState == {"read", "subscribe", "stop", "attached", "replayed", "resumed"}

StreamTyped ==
  /\ first \in Nat /\ last \in Nat /\ sending \in Nat /\ todo \subseteq Conn
  /\ handler \in [Conn -> HandlerState] /\ mark \in [Conn -> Nat] /\ reply \in [Conn -> ReplayState]
  /\ attached \in [Conn -> BOOLEAN] /\ dropped \in [Conn -> BOOLEAN]
  /\ pumping \in [Conn -> BOOLEAN] /\ lossy \in [Conn -> BOOLEAN]
  /\ queue \in [Conn -> Seq(Nat)] /\ writes \in [Conn -> Seq(FrameState)]
  /\ got \in [Conn -> SUBSET Nat] /\ pardoned \in [Conn -> SUBSET Nat] /\ newest \in [Conn -> Nat]

(* The window, and the broadcast.                                                *)
WindowSound ==
  /\ first >= 1 /\ (first <= last \/ (first = 1 /\ last = 0)) /\ last - first + 1 <= ReplayCap
  /\ sending \in {0, last} /\ (todo # {} => sending # 0)
  /\ \A c \in todo : attached[c]

(* The next point a subscriber that is attached will be sent.                    *)
NextSent(c) == IF sending # 0 /\ (todo = {} \/ c \in todo) THEN sending ELSE last + 1
Open(c) == attached[c] /\ ~dropped[c]
Flowing(c) == queue[c] # <<>> \/ Open(c)
Coming(c) == ComingOf(queue[c], NextSent(c))
Cover(c) == got[c] \cup pardoned[c]

(* A connection's handler: where it is says what it knows of the client.           *)
HandlerSound(c) ==
  /\ handler[c] \in {"subscribe", "stop"} => ~attached[c]
  /\ handler[c] \in {"attached", "replayed"} => attached[c] /\ ~pumping[c]
  /\ handler[c] \in {"subscribe", "attached", "replayed"} =>
       IF mark[c] = 0 THEN Cover(c) = {} /\ writes[c] = <<>> ELSE mark[c] \in got[c]
  /\ handler[c] = "subscribe" /\ mark[c] = 0 => queue[c] = <<>>
  /\ handler[c] = "replayed" /\ mark[c] # 0 =>
       Honest(reply[c]) /\ reply[c].since = mark[c] /\ reply[c].to <= last
  /\ handler[c] = "resumed" => Honest(reply[c]) /\ reply[c].since \in got[c] /\ reply[c].to <= last

(* What is on its way, and where the client is.                                  *)
DataSound(c) ==
  /\ \A n \in got[c] : 1 <= n /\ n <= last
  /\ IF newest[c] = 0 THEN Cover(c) = {} ELSE newest[c] \in got[c]
  /\ QueueSound(queue[c], last, Open(c), NextSent(c))
  /\ WritesSound(writes[c], last)

(* No frame leaves a hole: not those in writes, and not the next of the queue.     *)
FlowSound(c) ==
  /\ NoFrameHoles(Cover(c), writes[c])
  /\ pumping[c] /\ Flowing(c) => Linked(Coming(c), HeldByAll(Cover(c), writes[c]))
  /\ handler[c] \in {"attached", "replayed"} /\ mark[c] # 0 /\ Flowing(c) => mark[c] <= Coming(c)
  /\ handler[c] = "replayed" /\ mark[c] # 0 /\ Flowing(c) => Coming(c) <= reply[c].to + 1

ConnSound(c) == HandlerSound(c) /\ DataSound(c) /\ (~lossy[c] => FlowSound(c))

StreamInv == StreamTyped /\ WindowSound /\ \A c \in Conn : ConnSound(c)

--------------------------------------------------------------------------------
(* A connection a step leaves alone, while the window moves on.                   *)
Untouched(d) ==
  /\ handler'[d] = handler[d] /\ mark'[d] = mark[d] /\ reply'[d] = reply[d]
  /\ attached'[d] = attached[d] /\ dropped'[d] = dropped[d] /\ queue'[d] = queue[d]
  /\ pumping'[d] = pumping[d] /\ writes'[d] = writes[d] /\ lossy'[d] = lossy[d]
  /\ got'[d] = got[d] /\ pardoned'[d] = pardoned[d] /\ newest'[d] = newest[d]

LEMMA LeftAlone ==
  ASSUME StreamInv, NEW d \in Conn, Untouched(d), last' \in Nat, last <= last',
         attached[d] => NextSent(d)' = NextSent(d)
  PROVE  ConnSound(d)'
<1>1. ConnSound(d) /\ last \in Nat
  BY DEF StreamInv, StreamTyped
<1>2. Cover(d)' = Cover(d) /\ Open(d)' = Open(d) /\ Flowing(d)' = Flowing(d)
  BY DEF Untouched, Cover, Open, Flowing
<1>3. Flowing(d) => Coming(d)' = Coming(d)
  BY DEF Untouched, Flowing, Open, Coming, ComingOf
<1>4. got[d] \in SUBSET Nat /\ writes[d] \in Seq(FrameState) /\ reply[d] \in ReplayState
  BY DEF StreamInv, StreamTyped
<1>5. HandlerSound(d)'
  <2>1. HandlerSound(d)
    BY <1>1 DEF ConnSound
  <2>2. reply[d].to \in Nat
    BY <1>4 DEF ReplayState
  <2> QED
    BY <1>1, <1>2, <2>1, <2>2 DEF HandlerSound, Untouched
<1>6. QueueSound(queue'[d], last', Open(d)', NextSent(d)')
  <2>1. QueueSound(queue[d], last, Open(d), NextSent(d))
    BY <1>1 DEF ConnSound, DataSound
  <2>2. \A i \in 1..Len(queue[d]) : queue[d][i] <= last'
    BY <1>1, <2>1 DEF QueueSound
  <2>3. queue[d] # <<>> /\ Open(d) => queue[d][Len(queue[d])] + 1 = NextSent(d)'
    BY <2>1 DEF QueueSound, Open
  <2> QED
    BY <1>2, <2>1, <2>2, <2>3 DEF QueueSound, Untouched
<1>7. WritesSound(writes'[d], last')
  <2>1. WritesSound(writes[d], last)
    BY <1>1 DEF ConnSound, DataSound
  <2> QED
    BY <1>1, <1>4, <2>1, WritesLast DEF Untouched
<1>8. DataSound(d)'
  <2>1. \A n \in got[d] : 1 <= n /\ n <= last'
    BY <1>1, <1>4 DEF ConnSound, DataSound
  <2>2. IF newest[d] = 0 THEN Cover(d) = {} ELSE newest[d] \in got[d]
    BY <1>1 DEF ConnSound, DataSound
  <2> QED
    BY <1>2, <1>6, <1>7, <2>1, <2>2 DEF DataSound, Untouched
<1>9. ~lossy[d] => FlowSound(d)'
  <2>1. ~lossy[d] => FlowSound(d)
    BY <1>1 DEF ConnSound
  <2> QED
    BY <1>2, <1>3, <2>1 DEF FlowSound, Untouched
<1> QED
  BY <1>5, <1>8, <1>9 DEF ConnSound, Untouched

(* The members of todo, and `sending`, when one of them is done with.             *)
LEMMA OneSent ==
  ASSUME StreamInv, NEW c \in Conn, todo' = todo \ {c}, last' = last, first' = first,
         sending' = IF todo # {} /\ todo' = {} THEN 0 ELSE sending,
         \A d \in Conn : d # c => attached'[d] = attached[d]
  PROVE  /\ WindowSound' /\ sending' \in Nat /\ todo' \subseteq Conn
         /\ \A d \in Conn : d # c => NextSent(d)' = NextSent(d)
  BY DEF StreamInv, StreamTyped, WindowSound, NextSent

LEMMA InitSound ==
  ASSUME StreamInit
  PROVE  StreamInv
<1>1. StreamTyped /\ WindowSound
  <2>1. NoReplay \in ReplayState /\ <<>> \in Seq(Nat) /\ <<>> \in Seq(FrameState)
    BY DEF NoReplay, ReplayState
  <2>2. WindowSound /\ first \in Nat /\ last \in Nat /\ sending \in Nat /\ todo \subseteq Conn
    BY StreamAssumption DEF StreamInit, WindowSound
  <2> QED
    BY <2>1, <2>2 DEF StreamInit, StreamTyped, HandlerState
<1>2. ASSUME NEW c \in Conn
      PROVE  ConnSound(c)
  <2>1. /\ handler[c] = "read" /\ attached[c] = FALSE /\ pumping[c] = FALSE /\ queue[c] = <<>>
        /\ writes[c] = <<>> /\ got[c] = {} /\ pardoned[c] = {} /\ newest[c] = 0
    BY <1>2 DEF StreamInit
  <2>2. QueueSound(<<>>, last, Open(c), NextSent(c))
    BY DEF QueueSound
  <2>3. NoFrameHoles({}, <<>>) /\ WritesSound(<<>>, last)
    BY DEF NoFrameHoles, HeldOf, Interval, WritesSound
  <2> QED
    BY <2>1, <2>2, <2>3 DEF ConnSound, HandlerSound, DataSound, FlowSound, Cover
<1> QED
  BY <1>1, <1>2 DEF StreamInv

LEMMA TrimFits == TrimBy \in Nat /\ 1 <= TrimBy /\ TrimBy <= ReplayCap
  BY StreamAssumption DEF TrimBy

LEMMA RetainSound ==
  ASSUME StreamInv, Retain
  PROVE  StreamInv'
<1>1. /\ first \in Nat /\ last \in Nat /\ sending = 0 /\ todo = {} /\ last' = last + 1 /\ sending' = last'
      /\ todo' = {}
  BY DEF StreamInv, StreamTyped, WindowSound, Retain
<1>2. WindowSound' /\ first' \in Nat
  <2>1. /\ first >= 1 /\ (first <= last \/ (first = 1 /\ last = 0)) /\ last - first + 1 <= ReplayCap
        /\ first' = IF last' - first + 1 > ReplayCap THEN first + TrimBy ELSE first
    BY DEF StreamInv, WindowSound, Retain
  <2>2. /\ first' \in Nat /\ first' >= 1 /\ first' <= last' /\ last' - first' + 1 <= ReplayCap
    <3>1. ReplayCap \in Nat /\ TrimBy \in Nat /\ 1 <= TrimBy /\ TrimBy <= ReplayCap
      BY TrimFits, StreamAssumption
    <3>2. CASE last' - first + 1 > ReplayCap
      BY <1>1, <2>1, <3>1, <3>2
    <3>3. CASE ~(last' - first + 1 > ReplayCap)
      BY <1>1, <2>1, <3>1, <3>3
    <3> QED
      BY <3>2, <3>3
  <2> QED
    BY <1>1, <2>2 DEF WindowSound
<1>3. StreamTyped'
  BY <1>1, <1>2 DEF StreamInv, StreamTyped, Retain, subVars, clientVars
<1>4. ASSUME NEW d \in Conn PROVE ConnSound(d)'
  <2>1. Untouched(d) /\ NextSent(d)' = NextSent(d)
    BY <1>1 DEF Retain, subVars, clientVars, Untouched, NextSent
  <2> QED
    BY <1>1, <2>1, LeftAlone
<1> QED
  BY <1>2, <1>3, <1>4 DEF StreamInv

LEMMA SnapshotSound ==
  ASSUME StreamInv, Snapshot
  PROVE  StreamInv'
<1>1. /\ first \in Nat /\ last \in Nat /\ sending # 0 /\ sending = last /\ todo = {}
      /\ last' = last /\ first' = first
      /\ todo' = {c \in Conn : attached[c]}
      /\ sending' = IF todo' = {} THEN 0 ELSE sending
      /\ attached' = attached
  BY DEF StreamInv, StreamTyped, WindowSound, Snapshot, subVars
<1>2. WindowSound'
  BY <1>1 DEF StreamInv, WindowSound
<1>3. StreamTyped'
  BY <1>1 DEF StreamInv, StreamTyped, Snapshot, subVars, clientVars
<1>4. ASSUME NEW d \in Conn PROVE ConnSound(d)'
  <2>1. Untouched(d)
    BY DEF Snapshot, subVars, clientVars, Untouched
  <2>2. attached[d] => NextSent(d)' = NextSent(d)
    BY <1>1 DEF NextSent
  <2> QED
    BY <1>1, <2>1, <2>2, LeftAlone
<1> QED
  BY <1>2, <1>3, <1>4 DEF StreamInv

(* A step of connection c's own.                                                 *)
LEMMA OneConnection ==
  ASSUME StreamInv, NEW c \in Conn, StreamTyped', WindowSound', ConnSound(c)', last' = last,
         \A d \in Conn : d # c => Untouched(d) /\ NextSent(d)' = NextSent(d)
  PROVE  StreamInv'
<1>1. last' \in Nat /\ last <= last'
  BY DEF StreamInv, StreamTyped
<1>2. \A d \in Conn : d # c => ConnSound(d)'
  BY <1>1, LeftAlone
<1> QED
  BY <1>2 DEF StreamInv

LEMMA SendSound ==
  ASSUME StreamInv, NEW c \in Conn, Send(c)
  PROVE  StreamInv'
<1>1. /\ c \in todo /\ attached[c] /\ sending # 0 /\ sending = last /\ last \in Nat /\ last' = last
      /\ NextSent(c) = last
  BY DEF StreamInv, StreamTyped, WindowSound, Send, NextSent
<1>2. /\ todo' = todo \ {c} /\ first' = first /\ attached' = attached
      /\ sending' = IF todo # {} /\ todo' = {} THEN 0 ELSE sending
  BY <1>1 DEF Send
<1>3. /\ WindowSound' /\ sending' \in Nat /\ todo' \subseteq Conn
      /\ \A d \in Conn : d # c => NextSent(d)' = NextSent(d)
  BY <1>1, <1>2, OneSent
<1>4. NextSent(c)' = last + 1
  BY <1>1, <1>2 DEF NextSent, StreamInv, StreamTyped, WindowSound
<1>5. ConnSound(c) /\ queue[c] \in Seq(Nat) /\ queue \in [Conn -> Seq(Nat)] /\ dropped \in [Conn -> BOOLEAN]
  BY DEF StreamInv, StreamTyped
<1>6. /\ handler'[c] = handler[c] /\ mark'[c] = mark[c] /\ reply'[c] = reply[c]
      /\ pumping'[c] = pumping[c] /\ writes'[c] = writes[c] /\ lossy'[c] = lossy[c]
      /\ got'[c] = got[c] /\ pardoned'[c] = pardoned[c] /\ newest'[c] = newest[c]
      /\ Cover(c)' = Cover(c)
  BY DEF Send, clientVars, Cover
<1>7. \/ dropped'[c] /\ queue' = queue
      \/ ~dropped[c] /\ ~dropped'[c] /\ queue' = [queue EXCEPT ![c] = Append(queue[c], last)] /\ dropped' = dropped
  BY <1>1, <1>5 DEF Send
<1>8. StreamTyped'
  <2>1. Append(queue[c], last) \in Seq(Nat)
    BY <1>1, <1>5
  <2>2. queue' \in [Conn -> Seq(Nat)]
    BY <1>5, <1>7, <2>1 DEF Send
  <2>3. dropped' \in [Conn -> BOOLEAN]
    BY <1>5 DEF Send
  <2> QED
    BY <1>1, <1>2, <1>3, <2>2, <2>3 DEF StreamInv, StreamTyped, Send, clientVars
<1>9. \A d \in Conn : d # c => Untouched(d)
  BY <1>5 DEF Send, clientVars, Untouched
<1>10. QueueSound(queue'[c], last, Open(c)', NextSent(c)') /\ (Flowing(c)' => Flowing(c) /\ Coming(c)' = Coming(c))
  <2>1. CASE dropped'[c] /\ queue' = queue
    BY <1>5, <2>1 DEF ConnSound, DataSound, QueueSound, Open, Flowing, Coming, ComingOf
  <2>2. CASE ~dropped[c] /\ ~dropped'[c] /\ queue' = [queue EXCEPT ![c] = Append(queue[c], last)]
    <3>1. QueueSound(queue[c], last, TRUE, last)
      BY <1>1, <1>5, <2>2 DEF ConnSound, DataSound, QueueSound, Open
    <3>2. queue'[c] = Append(queue[c], last) /\ 1 <= last /\ last <= last /\ last \in Nat
      BY <1>1, <1>5, <2>2
    <3>3. /\ QueueSound(Append(queue[c], last), last, TRUE, last + 1) /\ Append(queue[c], last) # <<>>
          /\ Append(queue[c], last)[1] = ComingOf(queue[c], last)
      BY <3>1, <3>2, QueueAppended
    <3>4. Flowing(c) /\ Coming(c)' = Coming(c)
      BY <1>1, <2>2, <3>2, <3>3 DEF Flowing, Open, Coming, ComingOf
    <3>5. QueueSound(queue'[c], last, Open(c)', NextSent(c)')
      BY <1>4, <3>2, <3>3 DEF QueueSound
    <3> QED
      BY <3>4, <3>5
  <2> QED
    BY <1>7, <2>1, <2>2
<1>11. HandlerSound(c)'
  <2>1. HandlerSound(c) /\ (handler[c] = "subscribe" => ~attached[c])
    BY <1>5 DEF ConnSound, HandlerSound
  <2> QED
    BY <1>1, <1>2, <1>6, <2>1 DEF HandlerSound
<1>12. DataSound(c)'
  BY <1>1, <1>5, <1>6, <1>10 DEF ConnSound, DataSound
<1>13. ~lossy[c] => FlowSound(c)'
  BY <1>5, <1>6, <1>10 DEF ConnSound, FlowSound
<1>14. ConnSound(c)'
  BY <1>6, <1>11, <1>12, <1>13 DEF ConnSound
<1> QED
  BY <1>1, <1>3, <1>8, <1>9, <1>14, OneConnection

--------------------------------------------------------------------------------
(* The handler's steps.                                                          *)
LEMMA AskSound ==
  ASSUME StreamInv, NEW c \in Conn, NEW verb \in {"subscribe", "stop"}, Ask(c, verb)
  PROVE  StreamInv'
<1>1. /\ StreamTyped /\ ConnSound(c)
  BY DEF StreamInv
<1>2. /\ todo' = todo \ {c} /\ sending' = (IF todo # {} /\ todo' = {} THEN 0 ELSE sending)
      /\ first' = first /\ last' = last /\ attached' = [attached EXCEPT ![c] = FALSE]
  BY DEF Ask, Detached
<1>3. /\ WindowSound' /\ sending' \in Nat /\ todo' \subseteq Conn
      /\ \A d \in Conn : d # c => NextSent(d)' = NextSent(d)
  <2>1. \A d \in Conn : d # c => attached'[d] = attached[d]
    BY <1>1, <1>2 DEF StreamTyped
  <2> QED
    BY <1>2, <2>1, OneSent
<1>4. /\ handler' = [handler EXCEPT ![c] = verb]
      /\ mark' = [mark EXCEPT ![c] = IF verb = "subscribe" THEN newest[c] ELSE mark[c]]
      /\ UNCHANGED <<reply, dropped, queue, pumping, writes, got, newest, pardoned, lossy>>
      /\ newest[c] # 0 \/ (writes[c] = <<>> /\ queue[c] = <<>>)
  BY DEF Ask, Goto, clientVars
<1>5. StreamTyped'
  BY <1>1, <1>2, <1>3, <1>4 DEF StreamTyped, HandlerState
<1>6. \A d \in Conn : d # c => Untouched(d)
  BY <1>1, <1>2, <1>4 DEF StreamTyped, Untouched
<1>7. /\ handler'[c] = verb /\ attached'[c] = FALSE /\ Cover(c)' = Cover(c)
      /\ mark'[c] = IF verb = "subscribe" THEN newest[c] ELSE mark[c]
  BY <1>1, <1>2, <1>4 DEF StreamTyped, Cover
<1>8. HandlerSound(c)'
  BY <1>1, <1>4, <1>7 DEF ConnSound, HandlerSound, DataSound
<1>9. DataSound(c)'
  BY <1>1, <1>2, <1>4, <1>7 DEF ConnSound, DataSound, QueueSound, Open
<1>10. ~lossy[c] => FlowSound(c)'
  BY <1>1, <1>4, <1>7 DEF ConnSound, FlowSound, Flowing, Open, Coming, ComingOf
<1> QED
  BY <1>2, <1>3, <1>4, <1>5, <1>6, <1>8, <1>9, <1>10, OneConnection DEF ConnSound

(* A step of connection c that leaves the engine alone.                           *)
LEMMA EngineRests ==
  ASSUME StreamInv, NEW c \in Conn, UNCHANGED engineVars, StreamTyped', ConnSound(c)',
         \A d \in Conn : d # c => Untouched(d), attached[c] => attached'[c]
  PROVE  StreamInv'
<1>1. \A d \in Conn : NextSent(d)' = NextSent(d)
  BY DEF engineVars, NextSent
<1>2. WindowSound'
  BY DEF StreamInv, StreamTyped, WindowSound, engineVars, Untouched
<1> QED
  BY <1>1, <1>2, OneConnection DEF engineVars

LEMMA StopDoneSound ==
  ASSUME StreamInv, NEW c \in Conn, StopDone(c)
  PROVE  StreamInv'
<1>1. /\ StreamTyped /\ ConnSound(c) /\ UNCHANGED engineVars
      /\ handler' = [handler EXCEPT ![c] = "read"]
      /\ UNCHANGED <<mark, reply, attached, dropped, queue, pumping, writes, got, newest, pardoned, lossy>>
      /\ UNCHANGED <<first, last, sending, todo>>
  BY DEF StreamInv, StopDone, Goto, subVars, clientVars, engineVars
<1>2. StreamTyped'
  BY <1>1 DEF StreamTyped, HandlerState
<1>3. (\A d \in Conn : d # c => Untouched(d)) /\ handler'[c] = "read"
  BY <1>1 DEF StreamTyped, Untouched
<1>4. Cover(c)' = Cover(c) /\ Open(c)' = Open(c) /\ Coming(c)' = Coming(c) /\ Flowing(c)' = Flowing(c)
      /\ NextSent(c)' = NextSent(c)
  BY <1>1 DEF Cover, Open, Coming, Flowing, NextSent
<1>5. ConnSound(c)'
  BY <1>1, <1>3, <1>4 DEF ConnSound, HandlerSound, DataSound, FlowSound
<1> QED
  BY <1>1, <1>2, <1>3, <1>5, EngineRests

LEMMA AttachSound ==
  ASSUME StreamInv, NEW c \in Conn, Attach(c)
  PROVE  StreamInv'
<1>1. /\ StreamTyped /\ ConnSound(c) /\ WindowSound /\ UNCHANGED engineVars
      /\ handler[c] = "subscribe" /\ ~pumping[c]
      /\ handler' = [handler EXCEPT ![c] = "attached"]
      /\ attached' = [attached EXCEPT ![c] = TRUE]
      /\ dropped' = [dropped EXCEPT ![c] = FALSE]
      /\ queue' = [queue EXCEPT ![c] = <<>>]
      /\ UNCHANGED <<mark, reply, pumping, writes, got, newest, pardoned, lossy>>
      /\ UNCHANGED <<first, last, sending, todo>>
  BY DEF StreamInv, Attach, Goto, clientVars, engineVars
<1>2. StreamTyped'
  BY <1>1 DEF StreamTyped, HandlerState
<1>3. /\ \A d \in Conn : d # c => Untouched(d)
      /\ handler'[c] = "attached" /\ attached'[c] /\ queue'[c] = <<>>
  BY <1>1 DEF StreamTyped, Untouched
<1>4. Cover(c)' = Cover(c) /\ Coming(c)' = NextSent(c)
  BY <1>1, <1>3 DEF Cover, Coming, ComingOf, NextSent
<1>5. HandlerSound(c)'
  BY <1>1, <1>3, <1>4 DEF ConnSound, HandlerSound
<1>6. DataSound(c)'
  <2>1. QueueSound(<<>>, last, Open(c)', NextSent(c)')
    BY DEF QueueSound
  <2> QED
    BY <1>1, <1>3, <1>4, <2>1 DEF ConnSound, DataSound
<1>7. mark[c] # 0 => mark[c] <= NextSent(c)
  <2>1. last \in Nat /\ mark[c] \in Nat /\ (mark[c] # 0 => mark[c] <= last)
    BY <1>1 DEF StreamTyped, ConnSound, HandlerSound, DataSound
  <2> QED
    BY <1>1, <2>1 DEF NextSent, WindowSound
<1>8. ~lossy[c] => FlowSound(c)'
  BY <1>1, <1>3, <1>4, <1>7 DEF ConnSound, FlowSound
<1> QED
  BY <1>1, <1>2, <1>3, <1>5, <1>6, <1>8, EngineRests DEF ConnSound

LEMMA ReplayIsHonest ==
  ASSUME StreamTyped, WindowSound, NEW since \in Nat, 1 <= since, since <= last
  PROVE  LET r == ReplaySince(since, Reaches(since))
         IN  Honest(r) /\ r \in ReplayState /\ r.since = since /\ r.to = last
<1> DEFINE from == IF since < first THEN first ELSE since + 1
           r == [since |-> since, from |-> from, to |-> last, complete |-> Reaches(since)]
<1>1. /\ first \in Nat /\ last \in Nat /\ first >= 1 /\ first <= last /\ ReplayJoin \in Nat
      /\ Floor = first
  BY StreamAssumption DEF StreamTyped, WindowSound, Floor
<1>2. Reaches(since) <=> since >= first - ReplayJoin
  BY <1>1 DEF Reaches
<1>3. from \in Nat /\ since + 1 <= from /\ (from <= last \/ from = since + 1)
  BY <1>1
<1>4. Reaches(since) => \A n \in (since + 1)..(from - 1) : n > from - ReplayJoin
  BY <1>1, <1>2
<1>5. ~Reaches(since) => from <= last
  BY <1>1, <1>2
<1>6. Reaches(since) \in BOOLEAN
  BY DEF Reaches
<1> HIDE DEF from
<1>7. r \in ReplayState /\ r.since = since /\ r.from = from /\ r.to = last /\ r.complete = Reaches(since)
  BY <1>1, <1>3, <1>6 DEF ReplayState
<1>8. ReplaySince(since, Reaches(since)) = r
  BY DEF ReplaySince, from
<1> HIDE DEF r
<1>9. Honest(r)
  BY <1>3, <1>4, <1>5, <1>7 DEF Honest
<1> QED
  BY <1>7, <1>8, <1>9

LEMMA ReadReplaySound ==
  ASSUME StreamInv, NEW c \in Conn, ReadReplay(c)
  PROVE  StreamInv'
<1> DEFINE r == IF mark[c] = 0 THEN NoReplay ELSE ReplaySince(mark[c], Reaches(mark[c]))
<1>1. /\ StreamTyped /\ ConnSound(c) /\ WindowSound /\ UNCHANGED engineVars
      /\ handler[c] = "attached"
      /\ handler' = [handler EXCEPT ![c] = "replayed"]
      /\ reply' = [reply EXCEPT ![c] = r]
      /\ UNCHANGED <<mark, attached, dropped, queue, pumping, writes, got, newest, pardoned, lossy>>
      /\ UNCHANGED <<first, last, sending, todo>>
  BY DEF StreamInv, ReadReplay, ReadReplayWith, Goto, subVars, clientVars, engineVars
<1>2. r \in ReplayState /\ (mark[c] # 0 => Honest(r) /\ r.since = mark[c] /\ r.to = last)
  <2>1. NoReplay \in ReplayState
    BY DEF NoReplay, ReplayState
  <2>2. mark[c] \in Nat /\ (mark[c] # 0 => 1 <= mark[c] /\ mark[c] <= last)
    BY <1>1 DEF StreamTyped, ConnSound, HandlerSound, DataSound
  <2> QED
    BY <1>1, <2>1, <2>2, ReplayIsHonest
<1> HIDE DEF r
<1>3. StreamTyped'
  BY <1>1, <1>2 DEF StreamTyped, HandlerState
<1>4. (\A d \in Conn : d # c => Untouched(d)) /\ handler'[c] = "replayed" /\ reply'[c] = r
  BY <1>1 DEF StreamTyped, Untouched
<1>5. Cover(c)' = Cover(c) /\ Open(c)' = Open(c) /\ Coming(c)' = Coming(c) /\ Flowing(c)' = Flowing(c)
      /\ NextSent(c)' = NextSent(c)
  BY <1>1 DEF Cover, Open, Coming, Flowing, NextSent
<1>6. HandlerSound(c)'
  <2>1. last \in Nat
    BY <1>1 DEF StreamTyped
  <2> QED
    BY <1>1, <1>2, <1>4, <1>5, <2>1 DEF ConnSound, HandlerSound
<1>7. DataSound(c)'
  BY <1>1, <1>4, <1>5 DEF ConnSound, DataSound
<1>8. Coming(c) <= last + 1
  <2>1. last \in Nat /\ queue[c] \in Seq(Nat)
    BY <1>1 DEF StreamTyped
  <2>2. CASE queue[c] # <<>>
    <3>1. 1 \in 1..Len(queue[c])
      BY <2>1, <2>2
    <3>2. queue[c][1] \in Nat /\ queue[c][1] <= last
      BY <1>1, <2>1, <3>1 DEF ConnSound, DataSound, QueueSound
    <3> QED
      BY <2>1, <2>2, <3>2 DEF Coming, ComingOf
  <2>3. CASE queue[c] = <<>>
    BY <1>1, <2>1, <2>3 DEF Coming, ComingOf, NextSent, WindowSound
  <2> QED
    BY <2>2, <2>3
<1>9. ~lossy[c] => FlowSound(c)'
  BY <1>1, <1>2, <1>4, <1>5, <1>8 DEF ConnSound, FlowSound
<1> QED
  BY <1>1, <1>3, <1>4, <1>6, <1>7, <1>9, EngineRests DEF ConnSound

--------------------------------------------------------------------------------
(* A frame for the writer: it goes on from what is held, or it does not fit.      *)
Holding(c) == HeldByAll(Cover(c), writes[c])

LEMMA HoldingTyped ==
  ASSUME StreamInv, NEW c \in Conn
  PROVE  /\ Cover(c) \in SUBSET Nat /\ Holding(c) \in SUBSET Nat /\ Cover(c) \subseteq Holding(c)
         /\ got[c] \subseteq Holding(c)
         /\ Coming(c) \in Nat
         /\ ~lossy[c] => Interval(Holding(c))
<1>1. /\ got[c] \in SUBSET Nat /\ pardoned[c] \in SUBSET Nat /\ writes[c] \in Seq(FrameState)
      /\ queue[c] \in Seq(Nat) /\ sending \in Nat /\ last \in Nat
  BY DEF StreamInv, StreamTyped
<1>2. Cover(c) \in SUBSET Nat /\ got[c] \subseteq Cover(c)
  BY <1>1 DEF Cover
<1>3. Holding(c) \in SUBSET Nat /\ Cover(c) \subseteq Holding(c)
  BY <1>1, <1>2, CoverIsHeld DEF Holding
<1>4. Coming(c) \in Nat
  <2>1. NextSent(c) \in Nat
    BY <1>1 DEF NextSent
  <2>2. queue[c] # <<>> => queue[c][1] \in Nat
    BY <1>1
  <2> QED
    BY <2>1, <2>2 DEF Coming, ComingOf
<1>5. ~lossy[c] => Interval(Holding(c))
  <2>1. Len(writes[c]) \in 0..Len(writes[c])
    BY <1>1
  <2>2. ~lossy[c] => NoFrameHoles(Cover(c), writes[c])
    BY DEF StreamInv, ConnSound, FlowSound
  <2> QED
    BY <2>1, <2>2 DEF NoFrameHoles, Holding, HeldByAll
<1> QED
  BY <1>2, <1>3, <1>4, <1>5

LEMMA WriteSound ==
  ASSUME StreamInv, NEW c \in Conn, NEW f \in FrameState, FrameSound(f, last), Write(c, f),
         ~lossy[c] => Interval(Holding(c) \cup Span(f))
  PROVE  /\ writes' \in [Conn -> Seq(FrameState)] /\ lossy' \in [Conn -> BOOLEAN]
         /\ \A d \in Conn : d # c => writes'[d] = writes[d] /\ lossy'[d] = lossy[d]
         /\ WritesSound(writes'[c], last)
         /\ ~lossy'[c] => /\ ~lossy[c] /\ NoFrameHoles(Cover(c), writes'[c])
                          /\ HeldByAll(Cover(c), writes'[c]) = Holding(c) \cup Span(f)
<1>1. /\ writes \in [Conn -> Seq(FrameState)] /\ writes[c] \in Seq(FrameState) /\ lossy \in [Conn -> BOOLEAN]
      /\ WritesSound(writes[c], last)
      /\ ~lossy[c] => NoFrameHoles(Cover(c), writes[c])
  BY DEF StreamInv, StreamTyped, ConnSound, DataSound, FlowSound
<1>2. CASE Len(writes[c]) < WritesCap
  <2>1. writes' = [writes EXCEPT ![c] = Append(writes[c], f)] /\ lossy' = lossy
    BY <1>2 DEF Write
  <2>2. WritesSound(Append(writes[c], f), last) /\ Append(writes[c], f) \in Seq(FrameState)
    BY <1>1, WritesAppended
  <2>3. writes'[c] = Append(writes[c], f) /\ writes' \in [Conn -> Seq(FrameState)]
    BY <1>1, <2>1, <2>2
  <2>4. ~lossy[c] => /\ NoFrameHoles(Cover(c), Append(writes[c], f))
                     /\ HeldByAll(Cover(c), Append(writes[c], f)) = Holding(c) \cup Span(f)
    BY <1>1, HoldingTyped, FrameAppended DEF Holding
  <2> QED
    BY <1>1, <2>1, <2>2, <2>3, <2>4
<1>3. CASE ~(Len(writes[c]) < WritesCap)
  <2>1. lossy' = [lossy EXCEPT ![c] = TRUE] /\ writes' = writes
    BY <1>3 DEF Write
  <2> QED
    BY <1>1, <2>1
<1> QED
  BY <1>2, <1>3

LEMMA BackfillSound ==
  ASSUME StreamInv, NEW c \in Conn, NEW r, Honest(r), r.since \in got[c], r.to <= last
  PROVE  /\ BackfillFrame(r) \in FrameState /\ FrameSound(BackfillFrame(r), last)
         /\ Span(BackfillFrame(r)) = ReplaySpan(r)
         /\ ~lossy[c] => Interval(Holding(c) \cup Span(BackfillFrame(r)))
<1>1. BackfillFrame(r) \in FrameState
  BY DEF BackfillFrame, FrameState, Honest
<1>2. FrameSound(BackfillFrame(r), last) /\ Span(BackfillFrame(r)) = ReplaySpan(r)
  BY DEF BackfillFrame, FrameSound, Span
<1>3. ~lossy[c] => Interval(Holding(c) \cup ReplaySpan(r))
  BY HoldingTyped, ReplayGoesOn
<1> QED
  BY <1>1, <1>2, <1>3

LEMMA SubscribeDoneSound ==
  ASSUME StreamInv, NEW c \in Conn, SubscribeDone(c)
  PROVE  StreamInv'
<1> DEFINE r == reply[c]
<1>1. /\ StreamTyped /\ ConnSound(c) /\ UNCHANGED engineVars
      /\ handler[c] = "replayed"
      /\ handler' = [handler EXCEPT ![c] = "read"]
      /\ pumping' = [pumping EXCEPT ![c] = TRUE]
      /\ UNCHANGED <<mark, reply, attached, dropped, queue, got, newest, pardoned>>
      /\ UNCHANGED <<first, last, sending, todo>>
  BY DEF StreamInv, SubscribeDone, Goto, clientVars, engineVars
<1>2. /\ writes' \in [Conn -> Seq(FrameState)] /\ lossy' \in [Conn -> BOOLEAN]
      /\ \A d \in Conn : d # c => writes'[d] = writes[d] /\ lossy'[d] = lossy[d]
      /\ WritesSound(writes'[c], last)
      /\ ~lossy'[c] => /\ ~lossy[c] /\ NoFrameHoles(Cover(c), writes'[c])
                       /\ Flowing(c) => Linked(Coming(c), HeldByAll(Cover(c), writes'[c]))
  <2>1. CASE mark[c] = 0
    <3>1. writes' = writes /\ lossy' = lossy
      BY <2>1 DEF SubscribeDone
    <3>2. Cover(c) = {} /\ writes[c] = <<>>
      BY <1>1, <2>1 DEF ConnSound, HandlerSound
    <3>3. HeldByAll({}, <<>>) = {}
      BY DEF HeldByAll, HeldOf
    <3> QED
      BY <1>1, <3>1, <3>2, <3>3 DEF ConnSound, DataSound, FlowSound, StreamTyped, Linked
  <2>2. CASE mark[c] # 0
    <3>1. Write(c, BackfillFrame(r))
      BY <2>2 DEF SubscribeDone
    <3>2. Honest(r) /\ r.since = mark[c] /\ r.since \in got[c] /\ r.to <= last
      BY <1>1, <2>2 DEF ConnSound, HandlerSound
    <3>3. /\ BackfillFrame(r) \in FrameState /\ FrameSound(BackfillFrame(r), last)
          /\ Span(BackfillFrame(r)) = ReplaySpan(r)
          /\ ~lossy[c] => Interval(Holding(c) \cup Span(BackfillFrame(r)))
      BY <3>2, BackfillSound
    <3>4. /\ writes' \in [Conn -> Seq(FrameState)] /\ lossy' \in [Conn -> BOOLEAN]
          /\ \A d \in Conn : d # c => writes'[d] = writes[d] /\ lossy'[d] = lossy[d]
          /\ WritesSound(writes'[c], last)
          /\ ~lossy'[c] => /\ ~lossy[c] /\ NoFrameHoles(Cover(c), writes'[c])
                           /\ HeldByAll(Cover(c), writes'[c]) = Holding(c) \cup ReplaySpan(r)
      <4> DEFINE f == BackfillFrame(r)
      <4>1. f \in FrameState /\ FrameSound(f, last) /\ Write(c, f) /\ Span(f) = ReplaySpan(r)
            /\ (~lossy[c] => Interval(Holding(c) \cup Span(f)))
        BY <3>1, <3>3
      <4> HIDE DEF f
      <4> QED
        BY <4>1, WriteSound
    <3>5. ~lossy[c] /\ Flowing(c) => Linked(Coming(c), Holding(c) \cup ReplaySpan(r))
      <4> SUFFICES ASSUME ~lossy[c], Flowing(c) PROVE Linked(Coming(c), Holding(c) \cup ReplaySpan(r))
        OBVIOUS
      <4>1. r.since <= Coming(c) /\ Coming(c) <= r.to + 1
        BY <1>1, <2>2, <3>2 DEF ConnSound, FlowSound
      <4>2. /\ Holding(c) \in SUBSET Nat /\ Interval(Holding(c)) /\ r.since \in Holding(c)
            /\ Coming(c) \in Nat
        BY <3>2, HoldingTyped
      <4> HIDE DEF r
      <4> QED
        BY <3>2, <4>1, <4>2, ReplayReaches
    <3> QED
      BY <3>4, <3>5
  <2> QED
    BY <2>1, <2>2
<1>3. StreamTyped'
  BY <1>1, <1>2 DEF StreamTyped, HandlerState
<1>4. (\A d \in Conn : d # c => Untouched(d)) /\ handler'[c] = "read" /\ pumping'[c]
  BY <1>1, <1>2 DEF StreamTyped, Untouched
<1>5. Cover(c)' = Cover(c) /\ Open(c)' = Open(c) /\ Coming(c)' = Coming(c) /\ Flowing(c)' = Flowing(c)
      /\ NextSent(c)' = NextSent(c)
  BY <1>1 DEF Cover, Open, Coming, Flowing, NextSent
<1>6. HandlerSound(c)'
  BY <1>4 DEF HandlerSound
<1>7. DataSound(c)'
  BY <1>1, <1>2, <1>5 DEF ConnSound, DataSound
<1>8. ~lossy'[c] => FlowSound(c)'
  BY <1>2, <1>4, <1>5 DEF FlowSound
<1> QED
  BY <1>1, <1>3, <1>4, <1>6, <1>7, <1>8, EngineRests DEF ConnSound

LEMMA ResumeSound ==
  ASSUME StreamInv, NEW c \in Conn, Resume(c)
  PROVE  StreamInv'
<1> DEFINE r == ReplaySince(newest[c], Reaches(newest[c]))
<1>1. /\ StreamTyped /\ ConnSound(c) /\ WindowSound /\ UNCHANGED engineVars
      /\ handler[c] = "read" /\ attached[c] /\ newest[c] # 0
      /\ handler' = [handler EXCEPT ![c] = "resumed"]
      /\ mark' = [mark EXCEPT ![c] = newest[c]]
      /\ reply' = [reply EXCEPT ![c] = r]
      /\ UNCHANGED <<attached, dropped, queue, pumping, writes, got, newest, pardoned, lossy>>
      /\ UNCHANGED <<first, last, sending, todo>>
  BY DEF StreamInv, Resume, Goto, subVars, clientVars, engineVars
<1>2. r \in ReplayState /\ Honest(r) /\ r.since \in got[c] /\ r.to = last
  <2>1. newest[c] \in Nat /\ 1 <= newest[c] /\ newest[c] <= last /\ newest[c] \in got[c]
    BY <1>1 DEF StreamTyped, ConnSound, DataSound
  <2> QED
    BY <1>1, <2>1, ReplayIsHonest
<1> HIDE DEF r
<1>3. StreamTyped'
  BY <1>1, <1>2 DEF StreamTyped, HandlerState
<1>4. (\A d \in Conn : d # c => Untouched(d)) /\ handler'[c] = "resumed" /\ reply'[c] = r
  BY <1>1 DEF StreamTyped, Untouched
<1>5. Cover(c)' = Cover(c) /\ Open(c)' = Open(c) /\ Coming(c)' = Coming(c) /\ Flowing(c)' = Flowing(c)
      /\ NextSent(c)' = NextSent(c)
  BY <1>1 DEF Cover, Open, Coming, Flowing, NextSent
<1>6. HandlerSound(c)'
  <2>1. last \in Nat
    BY <1>1 DEF StreamTyped
  <2> QED
    BY <1>1, <1>2, <1>4, <2>1 DEF HandlerSound
<1>7. DataSound(c)'
  BY <1>1, <1>5 DEF ConnSound, DataSound
<1>8. ~lossy[c] => FlowSound(c)'
  BY <1>1, <1>4, <1>5 DEF ConnSound, FlowSound
<1> QED
  BY <1>1, <1>3, <1>4, <1>6, <1>7, <1>8, EngineRests DEF ConnSound

LEMMA ResumeDoneSound ==
  ASSUME StreamInv, NEW c \in Conn, ResumeDone(c)
  PROVE  StreamInv'
<1> DEFINE r == reply[c]
<1>1. /\ StreamTyped /\ ConnSound(c) /\ UNCHANGED engineVars
      /\ handler[c] = "resumed" /\ Write(c, BackfillFrame(r))
      /\ handler' = [handler EXCEPT ![c] = "read"]
      /\ UNCHANGED <<mark, reply, attached, dropped, queue, pumping, got, newest, pardoned>>
      /\ UNCHANGED <<first, last, sending, todo>>
  BY DEF StreamInv, ResumeDone, Goto, subVars, clientVars, engineVars
<1>2. Honest(r) /\ r.since \in got[c] /\ r.to <= last
  BY <1>1 DEF ConnSound, HandlerSound
<1>3. PICK f \in FrameState :
        /\ FrameSound(f, last) /\ Write(c, f)
        /\ ~lossy[c] => Interval(Holding(c) \cup Span(f))
  BY <1>1, <1>2, BackfillSound
<1>4. /\ writes' \in [Conn -> Seq(FrameState)] /\ lossy' \in [Conn -> BOOLEAN]
      /\ \A d \in Conn : d # c => writes'[d] = writes[d] /\ lossy'[d] = lossy[d]
      /\ WritesSound(writes'[c], last)
      /\ ~lossy'[c] => /\ ~lossy[c] /\ NoFrameHoles(Cover(c), writes'[c])
                       /\ HeldByAll(Cover(c), writes'[c]) = Holding(c) \cup Span(f)
  BY <1>3, WriteSound
<1>5. StreamTyped'
  BY <1>1, <1>4 DEF StreamTyped, HandlerState
<1>6. (\A d \in Conn : d # c => Untouched(d)) /\ handler'[c] = "read"
  BY <1>1, <1>4 DEF StreamTyped, Untouched
<1>7. Cover(c)' = Cover(c) /\ Open(c)' = Open(c) /\ Coming(c)' = Coming(c) /\ Flowing(c)' = Flowing(c)
      /\ NextSent(c)' = NextSent(c)
  BY <1>1 DEF Cover, Open, Coming, Flowing, NextSent
<1>8. HandlerSound(c)'
  BY <1>6 DEF HandlerSound
<1>9. DataSound(c)'
  BY <1>1, <1>4, <1>7 DEF ConnSound, DataSound
<1>10. ~lossy'[c] => FlowSound(c)'
  <2> SUFFICES ASSUME ~lossy'[c] PROVE FlowSound(c)'
    OBVIOUS
  <2>1. NoFrameHoles(Cover(c)', writes'[c])
    BY <1>4, <1>7
  <2>2. pumping[c] /\ Flowing(c) => Linked(Coming(c), Holding(c) \cup Span(f))
    <3>1. Holding(c) # {}
      BY <1>2, HoldingTyped
    <3>2. pumping[c] /\ Flowing(c) => Linked(Coming(c), Holding(c))
      BY <1>1, <1>4 DEF ConnSound, FlowSound, Holding
    <3> QED
      BY <3>1, <3>2 DEF Linked
  <2>3. pumping'[c] /\ Flowing(c)' => Linked(Coming(c)', HeldByAll(Cover(c)', writes'[c]))
    BY <1>1, <1>4, <1>7, <2>2
  <2> QED
    BY <1>6, <2>1, <2>3 DEF FlowSound
<1> QED
  BY <1>1, <1>5, <1>6, <1>8, <1>9, <1>10, EngineRests DEF ConnSound

LEMMA FailSound ==
  ASSUME StreamInv, NEW c \in Conn, Fail(c)
  PROVE  StreamInv'
<1>1. /\ StreamTyped /\ ConnSound(c) /\ handler[c] = "read"
      /\ todo' = todo \ {c} /\ sending' = (IF todo # {} /\ todo' = {} THEN 0 ELSE sending)
      /\ first' = first /\ last' = last /\ attached' = [attached EXCEPT ![c] = FALSE]
      /\ dropped' = [dropped EXCEPT ![c] = FALSE] /\ queue' = [queue EXCEPT ![c] = <<>>]
      /\ pumping' = [pumping EXCEPT ![c] = FALSE] /\ writes' = [writes EXCEPT ![c] = <<>>]
      /\ UNCHANGED <<handler, mark, reply, got, newest, pardoned, lossy>>
  BY DEF StreamInv, Fail, Detached, clientVars
<1>2. /\ WindowSound' /\ sending' \in Nat /\ todo' \subseteq Conn
      /\ \A d \in Conn : d # c => NextSent(d)' = NextSent(d)
  <2>1. \A d \in Conn : d # c => attached'[d] = attached[d]
    BY <1>1 DEF StreamTyped
  <2> QED
    BY <1>1, <2>1, OneSent
<1>3. StreamTyped'
  BY <1>1, <1>2 DEF StreamTyped
<1>4. (\A d \in Conn : d # c => Untouched(d)) /\ queue'[c] = <<>> /\ writes'[c] = <<>> /\ ~pumping'[c]
  BY <1>1 DEF StreamTyped, Untouched
<1>5. HandlerSound(c)'
  BY <1>1 DEF HandlerSound
<1>6. DataSound(c)'
  <2>1. QueueSound(<<>>, last, Open(c)', NextSent(c)') /\ WritesSound(<<>>, last)
    BY DEF QueueSound, WritesSound
  <2> QED
    BY <1>1, <1>4, <2>1 DEF ConnSound, DataSound, Cover
<1>7. ~lossy[c] => FlowSound(c)'
  <2> SUFFICES ASSUME ~lossy[c] PROVE FlowSound(c)'
    OBVIOUS
  <2>1. 0 \in 0..Len(writes[c]) /\ Len(writes[c]) \in Nat
    BY <1>1 DEF StreamTyped
  <2>2. Interval(HeldOf(Cover(c), writes[c], 0))
    BY <1>1, <2>1 DEF ConnSound, FlowSound, NoFrameHoles
  <2>3. HeldOf(Cover(c), writes[c], 0) = HeldOf(Cover(c), <<>>, 0)
    BY DEF HeldOf
  <2>4. NoFrameHoles(Cover(c), <<>>)
    BY <2>2, <2>3 DEF NoFrameHoles
  <2>5. NoFrameHoles(Cover(c)', writes'[c])
    BY <1>1, <1>4, <2>4 DEF Cover
  <2> QED
    BY <1>1, <1>4, <2>5 DEF FlowSound
<1> QED
  BY <1>1, <1>2, <1>3, <1>4, <1>5, <1>6, <1>7, OneConnection DEF ConnSound

--------------------------------------------------------------------------------
(* The pump and the client.                                                      *)
LEMMA PumpSound ==
  ASSUME StreamInv, NEW c \in Conn, Pump(c)
  PROVE  StreamInv'
<1> DEFINE n == Head(queue[c])
           f == PointFrame(n)
<1>1. /\ StreamTyped /\ ConnSound(c) /\ UNCHANGED engineVars
      /\ pumping[c] /\ queue[c] # <<>> /\ Write(c, f)
      /\ queue' = [queue EXCEPT ![c] = Tail(queue[c])]
      /\ UNCHANGED <<handler, mark, reply, attached, dropped, pumping, got, newest, pardoned>>
      /\ UNCHANGED <<first, last, sending, todo>>
  BY DEF StreamInv, Pump, clientVars, engineVars
<1>2. /\ last \in Nat /\ sending \in Nat /\ queue[c] \in Seq(Nat) /\ Open(c) \in BOOLEAN /\ NextSent(c) \in Nat
      /\ QueueSound(queue[c], last, Open(c), NextSent(c))
  BY <1>1 DEF StreamTyped, Open, NextSent, ConnSound, DataSound
<1>3. /\ QueueSound(Tail(queue[c]), last, Open(c), NextSent(c))
      /\ n = queue[c][1] /\ n \in Nat /\ 1 <= n /\ n <= last
      /\ Tail(queue[c]) # <<>> \/ Open(c) => ComingOf(Tail(queue[c]), NextSent(c)) = n + 1
  BY <1>1, <1>2, QueueTaken
<1>4. f \in FrameState /\ FrameSound(f, last) /\ Span(f) = {n}
  BY <1>3 DEF PointFrame, FrameState, FrameSound, Span
<1>5. ~lossy[c] => Interval(Holding(c) \cup {n})
  <2>1. Coming(c) = n /\ Flowing(c)
    BY <1>1, <1>3 DEF Coming, ComingOf, Flowing
  <2>2. ~lossy[c] => Linked(n, Holding(c))
    BY <1>1, <2>1 DEF ConnSound, FlowSound, Holding
  <2>3. Holding(c) \in SUBSET Nat /\ (~lossy[c] => Interval(Holding(c)))
    BY HoldingTyped
  <2> HIDE DEF n
  <2> QED
    BY <1>3, <2>2, <2>3, PointGoesOn
<1>6. /\ writes' \in [Conn -> Seq(FrameState)] /\ lossy' \in [Conn -> BOOLEAN]
      /\ \A d \in Conn : d # c => writes'[d] = writes[d] /\ lossy'[d] = lossy[d]
      /\ WritesSound(writes'[c], last)
      /\ ~lossy'[c] => /\ ~lossy[c] /\ NoFrameHoles(Cover(c), writes'[c])
                       /\ HeldByAll(Cover(c), writes'[c]) = Holding(c) \cup {n}
  <2> HIDE DEF n, f
  <2>1. Write(c, f) /\ (~lossy[c] => Interval(Holding(c) \cup Span(f)))
    BY <1>1, <1>4, <1>5
  <2> QED
    BY <1>4, <2>1, WriteSound
<1>7. queue' \in [Conn -> Seq(Nat)] /\ queue'[c] = Tail(queue[c])
  <2>1. Tail(queue[c]) \in Seq(Nat)
    BY <1>1, <1>2
  <2> QED
    BY <1>1, <2>1 DEF StreamTyped
<1>8. StreamTyped'
  BY <1>1, <1>6, <1>7 DEF StreamTyped
<1>9. \A d \in Conn : d # c => Untouched(d)
  BY <1>1, <1>6 DEF StreamTyped, Untouched
<1>10. Cover(c)' = Cover(c) /\ Open(c)' = Open(c) /\ NextSent(c)' = NextSent(c)
  BY <1>1 DEF Cover, Open, NextSent
<1>11. handler[c] \notin {"attached", "replayed"} /\ (handler[c] = "subscribe" => mark[c] # 0)
  BY <1>1 DEF ConnSound, HandlerSound
<1>12. HandlerSound(c)'
  BY <1>1, <1>10, <1>11 DEF ConnSound, HandlerSound
<1>13. DataSound(c)'
  BY <1>1, <1>3, <1>6, <1>7, <1>10 DEF ConnSound, DataSound
<1>14. ~lossy'[c] => FlowSound(c)'
  <2> SUFFICES ASSUME ~lossy'[c] PROVE FlowSound(c)'
    OBVIOUS
  <2>1. NoFrameHoles(Cover(c)', writes'[c])
    BY <1>6, <1>10
  <2>2. Flowing(c)' => Coming(c)' = n + 1
    BY <1>3, <1>7, <1>10 DEF Flowing, Coming
  <2>3. Linked(n + 1, Holding(c) \cup {n})
    BY <1>3 DEF Linked
  <2>4. Flowing(c)' => Linked(Coming(c)', HeldByAll(Cover(c)', writes'[c]))
    BY <1>6, <1>10, <2>2, <2>3
  <2> QED
    BY <1>1, <1>11, <2>1, <2>4 DEF FlowSound
<1> QED
  BY <1>1, <1>8, <1>9, <1>12, <1>13, <1>14, EngineRests DEF ConnSound

LEMMA PumpEndsSound ==
  ASSUME StreamInv, NEW c \in Conn, PumpEnds(c)
  PROVE  StreamInv'
<1>1. /\ StreamTyped /\ ConnSound(c) /\ UNCHANGED engineVars
      /\ pumping' = [pumping EXCEPT ![c] = FALSE]
      /\ UNCHANGED <<handler, mark, reply, attached, dropped, queue, writes, got, newest, pardoned, lossy>>
      /\ UNCHANGED <<first, last, sending, todo>>
  BY DEF StreamInv, PumpEnds, clientVars, engineVars
<1>2. StreamTyped'
  BY <1>1 DEF StreamTyped
<1>3. (\A d \in Conn : d # c => Untouched(d)) /\ ~pumping'[c]
  BY <1>1 DEF StreamTyped, Untouched
<1>4. Cover(c)' = Cover(c) /\ Open(c)' = Open(c) /\ Coming(c)' = Coming(c) /\ Flowing(c)' = Flowing(c)
      /\ NextSent(c)' = NextSent(c)
  BY <1>1 DEF Cover, Open, Coming, Flowing, NextSent
<1>5. HandlerSound(c)' /\ DataSound(c)' /\ (~lossy[c] => FlowSound(c)')
  BY <1>1, <1>3, <1>4 DEF ConnSound, HandlerSound, DataSound, FlowSound
<1> QED
  BY <1>1, <1>2, <1>3, <1>5, EngineRests DEF ConnSound

(* What the client makes of a frame.                                             *)
LEMMA FrameReceived ==
  ASSUME StreamInv, NEW c \in Conn, Deliver(c)
  PROVE  /\ got' \in [Conn -> SUBSET Nat] /\ pardoned' \in [Conn -> SUBSET Nat] /\ newest' \in [Conn -> Nat]
         /\ \A d \in Conn : d # c => got'[d] = got[d] /\ pardoned'[d] = pardoned[d] /\ newest'[d] = newest[d]
         /\ Cover(c)' = Cover(c) \cup Span(Head(writes[c]))
         /\ got[c] \subseteq got'[c]
         /\ \A n \in got'[c] : 1 <= n /\ n <= last
         /\ IF newest'[c] = 0 THEN Cover(c)' = {} ELSE newest'[c] \in got'[c]
<1> DEFINE f == Head(writes[c])
<1>1. /\ got \in [Conn -> SUBSET Nat] /\ pardoned \in [Conn -> SUBSET Nat] /\ newest \in [Conn -> Nat]
      /\ last \in Nat
      /\ \A n \in got[c] : 1 <= n /\ n <= last
      /\ IF newest[c] = 0 THEN Cover(c) = {} ELSE newest[c] \in got[c]
  BY DEF StreamInv, StreamTyped, ConnSound, DataSound
<1>2. FrameSound(f, last) /\ f \in FrameState
  BY WritesTaken DEF StreamInv, StreamTyped, ConnSound, DataSound, Deliver
<1>3. /\ f.kind = "point" => /\ got' = [got EXCEPT ![c] = got[c] \cup {f.n}]
                             /\ newest' = [newest EXCEPT ![c] = f.n]
                             /\ pardoned' = pardoned
      /\ f.kind # "point" => Receive(c, f.replay)
  BY DEF Deliver
<1> HIDE DEF f
<1>4. CASE f.kind = "point"
  <2>1. f.n \in Nat /\ 1 <= f.n /\ f.n <= last /\ Span(f) = {f.n}
    BY <1>2, <1>4 DEF FrameState, FrameSound, Span
  <2> QED
    BY <1>1, <1>3, <1>4, <2>1 DEF Cover, f
<1>5. CASE f.kind # "point"
  <2> DEFINE r == f.replay
             G == got[c] \cup IF r.complete THEN r.from..r.to ELSE 1..r.to
             P == IF r.complete THEN pardoned[c] \cup {n \in (r.since + 1)..(r.from - 1) : n > r.from - ReplayJoin}
                  ELSE pardoned[c]
             N == IF r.from <= r.to THEN r.to ELSE newest[c]
  <2>1. /\ Honest(r) /\ r.to <= last /\ Span(f) = ReplaySpan(r)
        /\ r.since \in Nat /\ r.from \in Nat /\ r.to \in Nat /\ r.complete \in BOOLEAN
        /\ r.since >= 1 /\ r.since + 1 <= r.from
        /\ r.complete => \A n \in (r.since + 1)..(r.from - 1) : n > r.from - ReplayJoin
        /\ r.from <= r.to \/ (r.complete /\ r.from = r.since + 1)
    BY <1>2, <1>5 DEF FrameSound, Honest, ReplayState, Span
  <2>2. /\ newest' = [newest EXCEPT ![c] = N] /\ got' = [got EXCEPT ![c] = G]
        /\ pardoned' = [pardoned EXCEPT ![c] = P]
    BY <1>3, <1>5 DEF Receive
  <2> HIDE DEF r
  <2>3. G \in SUBSET Nat /\ got[c] \subseteq G /\ \A n \in G : 1 <= n /\ n <= last
    BY <1>1, <2>1
  <2>4. P \in SUBSET Nat /\ N \in Nat
    BY <1>1, <2>1
  <2>5. G \cup P = Cover(c) \cup ReplaySpan(r)
    <3>1. CASE r.complete
      <4>1. P = pardoned[c] \cup (r.since + 1)..(r.from - 1)
        BY <2>1, <3>1
      <4>2. (r.since + 1)..(r.from - 1) \cup r.from..r.to = (r.since + 1)..r.to
        BY <2>1
      <4> QED
        BY <3>1, <4>1, <4>2 DEF Cover, ReplaySpan
    <3>2. CASE ~r.complete
      BY <3>2 DEF Cover, ReplaySpan
    <3> QED
      BY <2>1, <3>1, <3>2
  <2>6. IF N = 0 THEN G \cup P = {} ELSE N \in G
    <3>1. CASE r.from <= r.to
      BY <2>1, <3>1
    <3>2. CASE ~(r.from <= r.to)
      <4>1. N = newest[c] /\ ReplaySpan(r) = {}
        BY <2>1, <3>2 DEF ReplaySpan
      <4> QED
        BY <1>1, <2>3, <2>5, <4>1
    <3> QED
      BY <3>1, <3>2
  <2> HIDE DEF G, P, N
  <2>7. got'[c] = G /\ pardoned'[c] = P /\ newest'[c] = N /\ Cover(c)' = G \cup P
    BY <1>1, <2>2 DEF Cover
  <2>8. /\ got' \in [Conn -> SUBSET Nat] /\ pardoned' \in [Conn -> SUBSET Nat] /\ newest' \in [Conn -> Nat]
        /\ \A d \in Conn : d # c => got'[d] = got[d] /\ pardoned'[d] = pardoned[d] /\ newest'[d] = newest[d]
    BY <1>1, <2>2, <2>3, <2>4
  <2> QED
    BY <2>1, <2>3, <2>5, <2>6, <2>7, <2>8 DEF f
<1> QED
  BY <1>4, <1>5

LEMMA DeliverSound ==
  ASSUME StreamInv, NEW c \in Conn, Deliver(c)
  PROVE  StreamInv'
<1>1. /\ StreamTyped /\ ConnSound(c) /\ UNCHANGED engineVars
      /\ writes[c] # <<>> /\ writes' = [writes EXCEPT ![c] = Tail(writes[c])]
      /\ UNCHANGED <<handler, mark, reply, attached, dropped, queue, pumping, lossy>>
      /\ UNCHANGED <<first, last, sending, todo>>
  BY DEF StreamInv, Deliver, subVars, engineVars
<1>2. /\ got' \in [Conn -> SUBSET Nat] /\ pardoned' \in [Conn -> SUBSET Nat] /\ newest' \in [Conn -> Nat]
      /\ \A d \in Conn : d # c => got'[d] = got[d] /\ pardoned'[d] = pardoned[d] /\ newest'[d] = newest[d]
      /\ Cover(c)' = Cover(c) \cup Span(Head(writes[c]))
      /\ got[c] \subseteq got'[c]
      /\ \A n \in got'[c] : 1 <= n /\ n <= last
      /\ IF newest'[c] = 0 THEN Cover(c)' = {} ELSE newest'[c] \in got'[c]
  BY FrameReceived
<1>3. writes[c] \in Seq(FrameState) /\ Cover(c) \in SUBSET Nat
  BY <1>1, HoldingTyped DEF StreamTyped
<1>4. WritesSound(Tail(writes[c]), last) /\ Tail(writes[c]) \in Seq(FrameState)
  BY <1>1, <1>3, WritesTaken DEF ConnSound, DataSound
<1>5. writes' \in [Conn -> Seq(FrameState)] /\ writes'[c] = Tail(writes[c])
  BY <1>1, <1>4 DEF StreamTyped
<1>6. StreamTyped'
  BY <1>1, <1>2, <1>5 DEF StreamTyped
<1>7. \A d \in Conn : d # c => Untouched(d)
  BY <1>1, <1>2 DEF StreamTyped, Untouched
<1>8. Open(c)' = Open(c) /\ Coming(c)' = Coming(c) /\ Flowing(c)' = Flowing(c) /\ NextSent(c)' = NextSent(c)
  BY <1>1 DEF Open, Coming, Flowing, NextSent
<1>9. HandlerSound(c)'
  <2>1. handler[c] \in {"subscribe", "attached", "replayed"} => mark[c] # 0
    BY <1>1 DEF ConnSound, HandlerSound
  <2> QED
    BY <1>1, <1>2, <2>1 DEF ConnSound, HandlerSound
<1>10. DataSound(c)'
  BY <1>1, <1>2, <1>4, <1>5, <1>8 DEF ConnSound, DataSound
<1>11. ~lossy[c] => FlowSound(c)'
  <2> SUFFICES ASSUME ~lossy[c] PROVE FlowSound(c)'
    OBVIOUS
  <2>1. NoFrameHoles(Cover(c), writes[c]) /\ FlowSound(c)
    BY <1>1 DEF ConnSound, FlowSound
  <2>2. /\ NoFrameHoles(Cover(c) \cup Span(Head(writes[c])), Tail(writes[c]))
        /\ HeldByAll(Cover(c) \cup Span(Head(writes[c])), Tail(writes[c])) = HeldByAll(Cover(c), writes[c])
    BY <1>1, <1>3, <2>1, FrameTaken
  <2>3. NoFrameHoles(Cover(c)', writes'[c]) /\ HeldByAll(Cover(c)', writes'[c]) = HeldByAll(Cover(c), writes[c])
    BY <1>2, <1>5, <2>2
  <2> QED
    BY <1>1, <1>8, <2>1, <2>3 DEF FlowSound
<1> QED
  BY <1>1, <1>6, <1>7, <1>9, <1>10, <1>11, EngineRests DEF ConnSound

LEMMA StutterSound ==
  ASSUME StreamInv, UNCHANGED streamVars
  PROVE  StreamInv'
<1>1. StreamTyped' /\ WindowSound' /\ last' \in Nat /\ last <= last'
  BY DEF StreamInv, StreamTyped, WindowSound, streamVars, engineVars, subVars, clientVars
<1>2. ASSUME NEW d \in Conn PROVE Untouched(d) /\ NextSent(d)' = NextSent(d)
  BY DEF streamVars, engineVars, subVars, clientVars, Untouched, NextSent
<1> QED
  BY <1>1, <1>2, LeftAlone DEF StreamInv

--------------------------------------------------------------------------------
(* The invariant of a session's stream: what each client holds, with what is on   *)
(* its way to it, is one run of points, and the next point its pump takes goes on  *)
(* from it (module LiveStream's steps, all of them).                              *)
THEOREM StreamInvHolds == StreamSpec => []StreamInv
<1>1. StreamInit => StreamInv
  BY InitSound
<1>2. StreamInv /\ [StreamNext]_streamVars => StreamInv'
  <2> SUFFICES ASSUME StreamInv, [StreamNext]_streamVars PROVE StreamInv'
    OBVIOUS
  <2>1. CASE Retain
    BY <2>1, RetainSound
  <2>2. CASE Snapshot
    BY <2>2, SnapshotSound
  <2>3. ASSUME NEW c \in Conn,
               \/ Send(c) \/ Ask(c, "subscribe") \/ Ask(c, "stop") \/ StopDone(c)
               \/ Attach(c) \/ ReadReplay(c) \/ SubscribeDone(c)
        PROVE  StreamInv'
    BY <2>3, SendSound, AskSound, StopDoneSound, AttachSound, ReadReplaySound, SubscribeDoneSound
  <2>4. ASSUME NEW c \in Conn,
               \/ Resume(c) \/ ResumeDone(c) \/ Fail(c)
               \/ Pump(c) \/ PumpEnds(c) \/ Deliver(c)
        PROVE  StreamInv'
    BY <2>4, ResumeSound, ResumeDoneSound, FailSound, PumpSound, PumpEndsSound, DeliverSound
  <2>5. CASE UNCHANGED streamVars
    BY <2>5, StutterSound
  <2> QED
    BY <2>1, <2>2, <2>3, <2>4, <2>5 DEF StreamNext
<1> QED
  BY <1>1, <1>2, PTL DEF StreamSpec

(* Whatever was in flight when a client's socket failed, or when it subscribed or  *)
(* resumed, the client has no hole between two points it holds, for any number of  *)
(* clients and points and any window, queue and writes channel (handleLive,       *)
(* ReplaySince and Subscriber.send).                                             *)
THEOREM NoHoleHolds == StreamSpec => []NoHole
<1>1. StreamInv => NoHole
  <2> SUFFICES ASSUME StreamInv, NEW c \in Conn, ~lossy[c], NEW m \in got[c], NEW n \in got[c], NEW x \in m..n
               PROVE  x \in Cover(c)
    BY DEF NoHole, Cover
  <2>1. /\ got[c] \in SUBSET Nat /\ pardoned[c] \in SUBSET Nat /\ writes[c] \in Seq(FrameState)
        /\ NoFrameHoles(Cover(c), writes[c])
    BY DEF StreamInv, StreamTyped, ConnSound, FlowSound
  <2>2. Interval(HeldOf(Cover(c), writes[c], 0))
    <3>1. 0 \in 0..Len(writes[c])
      BY <2>1
    <3> QED
      BY <2>1, <3>1 DEF NoFrameHoles
  <2>3. HeldOf(Cover(c), writes[c], 0) = Cover(c)
    BY DEF HeldOf
  <2>4. m \in Nat /\ n \in Nat /\ m \in Cover(c) /\ n \in Cover(c)
    BY <2>1 DEF Cover
  <2>5. x \in Nat /\ m <= x /\ x <= n
    BY <2>4
  <2> QED
    BY <2>2, <2>3, <2>4, <2>5 DEF Interval
<1> QED
  BY <1>1, StreamInvHolds, PTL

================================================================================
