--------------------------- MODULE StraddlePointProofs ---------------------------
(* What StraddlePoint's bars hold, for every number of strikes, width of a bar and *)
(* bound.                                                                        *)
EXTENDS StraddlePoint, TLAPS

(* No bar yet is newer than instant t.                                           *)
UpTo(t) ==
  /\ \A i \in DOMAIN bars : bars[i].ts <= t
  /\ open # <<>> => open[1].ts <= t

Shape ==
  /\ bars \in Seq(Bar)
  /\ open = <<>> \/ (open = <<open[1]>> /\ open[1] \in Bar)
  /\ counted \in Nat /\ points \in Nat /\ dropped \in Nat
  /\ lastVol \in Nat \cup {None}
  /\ volume \in [Strike -> [Leg -> Nat \cup {None}]]

(* What waits for the timer bears the last stamp, and while the stamps are in      *)
(* order no bar is newer than the last of them.                                   *)
Stamps ==
  /\ clock \in Nat /\ pendingAt \in Nat \cup {None} /\ latest \in Nat \cup {None, Unordered}
  /\ armed => pendingAt # None
  /\ latest # Unordered /\ pendingAt # None => pendingAt = latest
  /\ latest = None => bars = <<>> /\ open = <<>>
  /\ latest \in Nat => UpTo(bucket(latest))

OpenIsNewest ==
  latest # Unordered /\ open # <<>> => \A i \in DOMAIN bars : bars[i].ts <= open[1].ts

(* When no bar is open it is the clock that has closed the last one.              *)
ClockClosedIt == open = <<>> /\ bars # <<>> => bars[Len(bars)].by = "clock"

Inv == Shape /\ Stamps /\ OpenIsNewest /\ ClockClosedIt /\ BarsHoldThePoints

--------------------------------------------------------------------------------
LEMMA Buckets == \A a \in Nat : bucket(a) \in Nat /\ bucket(a) <= a
  BY PointAssumption DEF bucket

(* The bar of a later instant is not an earlier bar.                              *)
LEMMA BucketsAdvance ==
  ASSUME NEW a \in Nat, NEW b \in Nat, a <= b
  PROVE  bucket(a) <= bucket(b)
<1> DEFINE q(x) == x \div Interval
<1>1. Interval \in Nat /\ Interval > 0
  BY PointAssumption
<1>2. \A x \in Nat : q(x) \in Int /\ x % Interval \in 0..(Interval - 1)
                     /\ x = Interval * q(x) + (x % Interval)
  BY <1>1
<1>3. bucket(a) = Interval * q(a) /\ bucket(b) = Interval * q(b)
  BY <1>1, <1>2 DEF bucket
<1>4. Interval * q(a) <= b
  BY <1>1, <1>2
<1>5. b < Interval * q(b) + Interval
  BY <1>1, <1>2
<1> HIDE DEF q
<1>6. q(a) < q(b) + 1
  <2>1. SUFFICES ASSUME q(a) >= q(b) + 1 PROVE FALSE
    BY <1>2
  <2>2. \A m, n \in Int : m >= n + 1 => Interval * m >= Interval * n + Interval
    BY <1>1
  <2>3. Interval * q(a) >= Interval * q(b) + Interval
    BY <2>1, <2>2, <1>2
  <2> QED
    BY <2>3, <1>1, <1>2, <1>4, <1>5
<1>7. \A m, n \in Int : m <= n => Interval * m <= Interval * n
  BY <1>1
<1> QED
  BY <1>2, <1>3, <1>6, <1>7

--------------------------------------------------------------------------------
LEMMA InitIsSound == PointInit => Inv
<1> SUFFICES ASSUME PointInit PROVE Inv
  OBVIOUS
<1>1. Shape
  BY DEF PointInit, Shape
<1>2. Stamps
  BY DEF PointInit, Stamps, UpTo, None, Unordered
<1>3. OpenIsNewest /\ ClockClosedIt
  BY DEF PointInit, OpenIsNewest, ClockClosedIt
<1>4. BarsHoldThePoints
  BY DEF PointInit, BarsHoldThePoints, Counted, OnlyTheClockForgets, InOrder
<1> QED
  BY <1>1, <1>2, <1>3, <1>4 DEF Inv

LEMMA BarsHaveTimes ==
  ASSUME Inv
  PROVE  /\ \A i \in DOMAIN bars : bars[i].ts \in Nat
         /\ open # <<>> => open[1].ts \in Nat /\ open[1].n \in Nat
<1>1. bars \in Seq(Bar) /\ (open # <<>> => open[1] \in Bar)
  BY DEF Inv, Shape
<1>2. \A i \in DOMAIN bars : bars[i] \in Bar
  BY <1>1
<1>3. \A b \in Bar : b.ts \in Nat /\ b.n \in Nat
  BY DEF Bar
<1> QED
  BY <1>1, <1>2, <1>3

(* What Published does to the bars.                                               *)
LEMMA PublishedBars ==
  ASSUME Inv, open # <<>>, NEW by \in {"sample", "clock"}, Published(open[1], by)
  PROVE  /\ bars' \in Seq(Bar) /\ Len(bars) \in Nat /\ Len(bars') = Len(bars) + 1
         /\ DOMAIN bars = 1..Len(bars) /\ DOMAIN bars' = 1..(Len(bars) + 1)
         /\ \A i \in 1..Len(bars) : bars'[i] = bars[i]
         /\ bars'[Len(bars) + 1].ts = open[1].ts /\ bars'[Len(bars) + 1].by = by
         /\ bars'[Len(bars) + 1].volume = open[1].volume
         /\ counted' = counted + open[1].n /\ counted' \in Nat
<1> DEFINE sealed == [open[1] EXCEPT !.by = by]
<1>1. open[1] \in Bar /\ bars \in Seq(Bar) /\ counted \in Nat /\ open[1].n \in Nat
  BY BarsHaveTimes DEF Inv, Shape
<1>2. sealed \in Bar /\ sealed.ts = open[1].ts /\ sealed.by = by /\ sealed.volume = open[1].volume
  BY <1>1 DEF Bar
<1>3. bars' = Append(bars, sealed) /\ counted' = counted + open[1].n
  BY DEF Published
<1> HIDE DEF sealed
<1> QED
  BY <1>1, <1>2, <1>3

(* Publishing the open bar keeps the bars in order, as far as they were.          *)
LEMMA PublishedIsSound ==
  ASSUME Inv, open # <<>>, NEW by \in {"sample", "clock"}, Published(open[1], by)
  PROVE  /\ \A i, j \in DOMAIN bars' : i < j /\ bars'[j].ts <= bars'[i].ts =>
              \E k \in i..(j - 1) : bars'[k].by = "clock"
         /\ latest # Unordered => \A i \in DOMAIN bars' : bars'[i].ts <= open[1].ts
         /\ latest # Unordered => \A i, j \in DOMAIN bars' : i < j => bars'[i].ts <= bars'[j].ts
<1>1. /\ Len(bars) \in Nat /\ DOMAIN bars = 1..Len(bars) /\ DOMAIN bars' = 1..(Len(bars) + 1)
      /\ \A i \in 1..Len(bars) : bars'[i] = bars[i]
      /\ bars'[Len(bars) + 1].ts = open[1].ts
  BY PublishedBars
<1>2. open[1].ts \in Nat
  BY BarsHaveTimes
<1>3. ASSUME NEW i \in DOMAIN bars', NEW j \in DOMAIN bars', i < j, bars'[j].ts <= bars'[i].ts
      PROVE  \E k \in i..(j - 1) : bars'[k].by = "clock"
  <2>1. i \in 1..Len(bars)
    BY <1>1, <1>3
  <2>2. CASE j = Len(bars) + 1
    <3>1. PICK k \in i..Len(bars) : bars[k].by = "clock"
      BY <1>1, <1>3, <2>1, <2>2 DEF Inv, BarsHoldThePoints, OnlyTheClockForgets
    <3>2. k \in 1..Len(bars) /\ k \in i..(j - 1)
      BY <1>1, <2>1, <2>2, <3>1
    <3> QED
      BY <1>1, <3>1, <3>2
  <2>3. CASE j \in 1..Len(bars)
    <3>1. PICK k \in i..(j - 1) : bars[k].by = "clock"
      BY <1>1, <1>3, <2>1, <2>3 DEF Inv, BarsHoldThePoints, OnlyTheClockForgets
    <3>2. k \in 1..Len(bars)
      BY <1>1, <2>1, <2>3, <3>1
    <3> QED
      BY <1>1, <3>1, <3>2
  <2> QED
    BY <1>1, <1>3, <2>2, <2>3
<1>4. ASSUME latest # Unordered, NEW i \in DOMAIN bars'
      PROVE  bars'[i].ts <= open[1].ts
  BY <1>1, <1>2, <1>4 DEF Inv, OpenIsNewest
<1>5. ASSUME latest # Unordered, NEW i \in DOMAIN bars', NEW j \in DOMAIN bars', i < j
      PROVE  bars'[i].ts <= bars'[j].ts
  <2>1. i \in 1..Len(bars)
    BY <1>1, <1>5
  <2>2. CASE j = Len(bars) + 1
    BY <1>1, <1>4, <1>5, <2>2
  <2>3. CASE j \in 1..Len(bars)
    BY <1>1, <1>5, <2>1, <2>3 DEF Inv, BarsHoldThePoints, InOrder
  <2> QED
    BY <1>1, <1>5, <2>2, <2>3
<1> QED
  BY <1>3, <1>4, <1>5

--------------------------------------------------------------------------------
(* The bars stay as they are, and so does what is said of them.                   *)
LEMMA BarsStay ==
  ASSUME Inv, UNCHANGED pointVars, Stamps', volume' \in [Strike -> [Leg -> Nat \cup {None}]],
         latest' # Unordered => latest # Unordered
  PROVE  Inv'
<1> USE DEF pointVars, barVars
<1>1. Shape'
  BY DEF Inv, Shape
<1>2. OpenIsNewest' /\ ClockClosedIt'
  BY DEF Inv, OpenIsNewest, ClockClosedIt
<1>3. BarsHoldThePoints'
  BY DEF Inv, BarsHoldThePoints, Counted, OnlyTheClockForgets, InOrder
<1> QED
  BY <1>1, <1>2, <1>3 DEF Inv

LEMMA TouchedIsSound ==
  ASSUME Inv, Touched, UNCHANGED <<clock, pointVars>>
  PROVE  Stamps' /\ (latest' # Unordered => latest # Unordered)
<1> USE DEF pointVars, barVars
<1>1. PICK stamp \in 0..clock :
        /\ pendingAt' = stamp /\ armed' = TRUE
        /\ latest' = IF latest # Unordered /\ stamp >= latest THEN stamp ELSE Unordered
  BY DEF Touched
<1>2. stamp \in Nat /\ clock \in Nat
  BY <1>1 DEF Inv, Stamps
<1>3. CASE latest' = Unordered
  BY <1>1, <1>2, <1>3 DEF Inv, Stamps, None, Unordered
<1>4. CASE latest' # Unordered
  <2>1. latest' = stamp /\ latest # Unordered /\ stamp >= latest
    BY <1>1, <1>4
  <2>2. UpTo(bucket(stamp))
    <3>1. CASE latest = None
      BY <3>1 DEF Inv, Stamps, UpTo
    <3>2. CASE latest \in Nat
      <4>1. bucket(latest) <= bucket(stamp) /\ bucket(latest) \in Nat /\ bucket(stamp) \in Nat
        BY <1>2, <2>1, <3>2, Buckets, BucketsAdvance
      <4>2. UpTo(bucket(latest))
        BY <3>2 DEF Inv, Stamps
      <4> QED
        BY <4>1, <4>2, BarsHaveTimes DEF UpTo
    <3> QED
      BY <2>1, <3>1, <3>2 DEF Inv, Stamps
  <2>3. UpTo(bucket(latest))'
    BY <2>1, <2>2 DEF UpTo, bucket
  <2> QED
    BY <1>1, <1>2, <2>1, <2>3 DEF Inv, Stamps, None
<1> QED
  BY <1>3, <1>4

LEMMA StampsStay ==
  ASSUME Inv, UNCHANGED <<pendingVars, pointVars>>, clock' \in Nat
  PROVE  Stamps'
BY DEF Inv, Stamps, UpTo, bucket, pendingVars, pointVars, barVars

--------------------------------------------------------------------------------
LEMMA Folding ==
  ASSUME NEW bar \in Bar, NEW v, Delta(v) \in Nat
  PROVE  /\ Folded(bar, v) \in Bar
         /\ Folded(bar, v).ts = bar.ts /\ Folded(bar, v).n = bar.n + 1
         /\ Folded(bar, v).volume = bar.volume + Delta(v)
<1>1. bar.n \in Nat /\ bar.ts \in Nat /\ bar.volume \in Nat
  BY DEF Bar
<1> QED
  BY <1>1 DEF Folded, Bar

LEMMA Counts ==
  ASSUME volume \in [Strike -> [Leg -> Nat \cup {None}]], NEW s \in Strike
  PROVE  /\ CumVolume(s) \in Nat \cup {None}
         /\ CumVolume(s) = None <=> volume[s]["CE"] = None /\ volume[s]["PE"] = None
         /\ CumVolume(s) # None => CumVolume(s) = Count(volume[s]["CE"]) + Count(volume[s]["PE"])
<1>1. volume[s]["CE"] \in Nat \cup {None} /\ volume[s]["PE"] \in Nat \cup {None}
  BY DEF Leg
<1>2. Count(volume[s]["CE"]) \in Nat /\ Count(volume[s]["PE"]) \in Nat
  BY <1>1 DEF Count
<1>3. (\A l \in Leg : volume[s][l] = None) <=> volume[s]["CE"] = None /\ volume[s]["PE"] = None
  BY DEF Leg
<1>4. CASE \A l \in Leg : volume[s][l] = None
  BY <1>3, <1>4 DEF CumVolume
<1>5. CASE ~\A l \in Leg : volume[s][l] = None
  <2>1. CumVolume(s) = Count(volume[s]["CE"]) + Count(volume[s]["PE"])
    BY <1>5 DEF CumVolume
  <2> QED
    BY <1>2, <1>3, <1>5, <2>1 DEF None
<1> QED
  BY <1>4, <1>5

(* A sample is late only when the stamps have come out of order.                  *)
LEMMA LateIsUnordered ==
  ASSUME Inv, NEW t, t = pendingAt, t # None, Late(t)
  PROVE  latest = Unordered
<1> SUFFICES ASSUME latest # Unordered PROVE FALSE
  OBVIOUS
<1>1. t = latest /\ t \in Nat
  BY DEF Inv, Stamps
<1>2. UpTo(bucket(t)) /\ bucket(t) \in Nat
  BY <1>1, Buckets DEF Inv, Stamps
<1> QED
  BY <1>2, BarsHaveTimes DEF Late, UpTo

(* A point goes into a bar, or is dropped.                                        *)
LEMMA AddIsSound ==
  ASSUME Inv, NEW t \in Nat, t = pendingAt,
         NEW v \in Nat \cup {None}, Add(t, v), points' = points + 1,
         UNCHANGED <<clock, volume, latest>>, pendingAt' = None, armed' = FALSE
  PROVE  Inv'
<1> DEFINE into == IF open = <<>> \/ Seals(t) THEN Fresh(bucket(t)) ELSE open[1]
<1>1. bucket(t) \in Nat /\ t # None
  BY Buckets DEF None
<1>2. CASE Late(t)
  <2>1. dropped' = dropped + 1 /\ UNCHANGED <<open, bars, counted, lastVol>>
    BY <1>2 DEF Add, AddTo, barVars
  <2>2. latest = Unordered
    BY <1>1, <1>2, LateIsUnordered
  <2>3. Shape'
    BY <2>1 DEF Inv, Shape
  <2>4. Stamps'
    BY <2>1, <2>2 DEF Inv, Stamps, None, Unordered
  <2>5. OpenIsNewest' /\ ClockClosedIt'
    BY <2>1, <2>2 DEF Inv, OpenIsNewest, ClockClosedIt
  <2>6. BarsHoldThePoints'
    <3>1. points = counted + dropped + (IF open = <<>> THEN 0 ELSE open[1].n)
      BY DEF Inv, BarsHoldThePoints, Counted
    <3>2. points' = counted' + dropped' + (IF open' = <<>> THEN 0 ELSE open'[1].n)
      BY <2>1, <3>1, BarsHaveTimes DEF Inv, Shape
    <3> QED
      BY <2>1, <2>2, <3>2 DEF Inv, BarsHoldThePoints, Counted, OnlyTheClockForgets, InOrder
  <2> QED
    BY <2>3, <2>4, <2>5, <2>6 DEF Inv
<1>3. CASE ~Late(t)
  <2>1. /\ open' = <<Folded(into, v)>>
        /\ IF Seals(t) THEN Published(open[1], "sample") ELSE UNCHANGED <<bars, counted>>
        /\ lastVol' = IF v = None THEN lastVol ELSE v
        /\ dropped' = dropped
    BY <1>3 DEF Add, AddTo
  <2>2. into \in Bar /\ into.ts = bucket(t)
        /\ into.n = IF open = <<>> \/ Seals(t) THEN 0 ELSE open[1].n
    <3>1. Fresh(bucket(t)) \in Bar /\ Fresh(bucket(t)).ts = bucket(t) /\ Fresh(bucket(t)).n = 0
      BY <1>1 DEF Fresh, Bar
    <3>2. CASE open = <<>> \/ Seals(t)
      BY <3>1, <3>2
    <3>3. CASE ~(open = <<>> \/ Seals(t))
      <4>1. open[1] \in Bar /\ open[1].ts \in Nat
        BY <3>3, BarsHaveTimes DEF Inv, Shape
      <4>2. open[1].ts = bucket(t)
        BY <1>1, <1>3, <3>3, <4>1 DEF Late, Seals
      <4> QED
        BY <3>3, <4>1, <4>2
    <3> QED
      BY <3>2, <3>3
  <2> HIDE DEF into
  <2>3. Delta(v) \in Nat
    BY DEF Inv, Shape, Delta, Grown, None
  <2>4. open' # <<>> /\ open' = <<open'[1]>> /\ open'[1] \in Bar
        /\ open'[1].ts = bucket(t) /\ open'[1].n = into.n + 1
    <3> DEFINE bar == Folded(into, v)
    <3>1. bar \in Bar /\ bar.ts = bucket(t) /\ bar.n = into.n + 1
      BY <2>2, <2>3, Folding
    <3>2. open' = <<bar>>
      BY <2>1
    <3> HIDE DEF bar
    <3> QED
      BY <3>1, <3>2
  <2>5. latest # Unordered => t = latest /\ UpTo(bucket(t))
    BY <1>1 DEF Inv, Stamps
  <2>6. \A b \in Bar : b.ts \in Nat
    BY DEF Bar
  <2>7. bars' \in Seq(Bar) /\ counted' \in Nat
    BY <2>1, PublishedBars DEF Inv, Shape, Seals
  <2>8. \A i \in DOMAIN bars' : bars'[i].ts \in Nat
    BY <2>6, <2>7
  <2>9. points' = counted' + dropped' + open'[1].n
    <3>1. points = counted + dropped + (IF open = <<>> THEN 0 ELSE open[1].n)
      BY DEF Inv, BarsHoldThePoints, Counted
    <3>2. CASE Seals(t)
      <4>1. counted' = counted + open[1].n /\ open # <<>>
        BY <2>1, <3>2, PublishedBars DEF Seals
      <4> QED
        BY <2>1, <2>2, <2>4, <3>1, <3>2, <4>1, BarsHaveTimes DEF Inv, Shape
    <3>3. CASE ~Seals(t)
      BY <2>1, <2>2, <2>4, <3>1, <3>3, BarsHaveTimes DEF Inv, Shape
    <3> QED
      BY <3>2, <3>3
  <2>10. OnlyTheClockForgets'
    <3>1. CASE Seals(t)
      <4>1. /\ Len(bars) \in Nat /\ Len(bars') = Len(bars) + 1 /\ DOMAIN bars = 1..Len(bars)
            /\ DOMAIN bars' = 1..(Len(bars) + 1)
            /\ \A i \in 1..Len(bars) : bars'[i] = bars[i]
            /\ bars'[Len(bars) + 1].ts = open[1].ts
            /\ open # <<>> /\ open[1].ts < bucket(t) /\ open[1].ts \in Nat
        BY <2>1, <3>1, PublishedBars, BarsHaveTimes, <1>1 DEF Seals
      <4>2. ASSUME NEW i \in DOMAIN bars', open'[1].ts <= bars'[i].ts
            PROVE  \E k \in i..Len(bars') : bars'[k].by = "clock"
        <5>1. i \in 1..Len(bars)
          BY <1>1, <2>4, <4>1, <4>2
        <5>2. bars[i].ts \in Nat /\ open[1].ts <= bars[i].ts
          BY <1>1, <2>4, <2>8, <4>1, <4>2, <5>1
        <5>3. PICK k \in i..Len(bars) : bars[k].by = "clock"
          BY <4>1, <5>1, <5>2 DEF Inv, BarsHoldThePoints, OnlyTheClockForgets
        <5>4. k \in 1..Len(bars) /\ k \in i..Len(bars')
          BY <4>1, <5>1, <5>3
        <5> QED
          BY <4>1, <5>3, <5>4
      <4>3. \A i, j \in DOMAIN bars' : i < j /\ bars'[j].ts <= bars'[i].ts =>
              \E k \in i..(j - 1) : bars'[k].by = "clock"
        BY <2>1, <3>1, <4>1, PublishedIsSound
      <4> QED
        BY <4>2, <4>3 DEF OnlyTheClockForgets
    <3>2. CASE ~Seals(t) /\ open = <<>>
      <4>1. bars' = bars /\ Len(bars) \in Nat /\ DOMAIN bars = 1..Len(bars)
        BY <2>1, <3>2 DEF Inv, Shape
      <4>2. ASSUME NEW i \in DOMAIN bars
            PROVE  \E k \in i..Len(bars) : bars[k].by = "clock"
        <5>1. bars # <<>> /\ Len(bars) \in i..Len(bars)
          BY <4>1, <4>2
        <5> QED
          BY <3>2, <5>1 DEF Inv, ClockClosedIt
      <4> QED
        BY <4>1, <4>2 DEF Inv, BarsHoldThePoints, OnlyTheClockForgets
    <3>3. CASE ~Seals(t) /\ open # <<>>
      <4>1. bars' = bars /\ open[1].ts \in Nat /\ open'[1].ts = open[1].ts
        BY <1>1, <1>3, <2>1, <2>4, <3>3, BarsHaveTimes DEF Late, Seals
      <4> QED
        BY <2>4, <3>3, <4>1 DEF Inv, BarsHoldThePoints, OnlyTheClockForgets
    <3> QED
      BY <3>1, <3>2, <3>3
  <2>11. ASSUME latest # Unordered
         PROVE  /\ \A i, j \in DOMAIN bars' : i < j => bars'[i].ts <= bars'[j].ts
                /\ \A i \in DOMAIN bars' : bars'[i].ts <= bucket(t)
    <3>1. CASE Seals(t)
      <4>1. open # <<>> /\ open[1].ts < bucket(t) /\ open[1].ts \in Nat
        BY <3>1, <1>1, BarsHaveTimes DEF Seals
      <4>2. /\ \A i \in DOMAIN bars' : bars'[i].ts <= open[1].ts
            /\ \A i, j \in DOMAIN bars' : i < j => bars'[i].ts <= bars'[j].ts
        BY <2>1, <2>11, <3>1, <4>1, PublishedIsSound
      <4> QED
        BY <1>1, <2>8, <4>1, <4>2
    <3>2. CASE ~Seals(t)
      <4>1. bars' = bars
        BY <2>1, <3>2
      <4> QED
        BY <2>5, <2>11, <4>1 DEF Inv, BarsHoldThePoints, InOrder, UpTo
    <3> QED
      BY <3>1, <3>2
  <2>12. Shape'
    BY <2>1, <2>4, <2>7 DEF Inv, Shape
  <2>13. Stamps'
    <3>1. latest # Unordered => UpTo(bucket(latest))'
      BY <1>1, <2>4, <2>5, <2>11 DEF UpTo, bucket
    <3>2. latest # None
      BY <1>1 DEF Inv, Stamps, None, Unordered
    <3> QED
      BY <3>1, <3>2 DEF Inv, Stamps, None, Unordered
  <2>14. OpenIsNewest' /\ ClockClosedIt'
    BY <2>4, <2>11 DEF OpenIsNewest, ClockClosedIt
  <2>15. BarsHoldThePoints'
    BY <2>1, <2>4, <2>9, <2>10, <2>11 DEF Inv, BarsHoldThePoints, Counted, InOrder
  <2> QED
    BY <2>12, <2>13, <2>14, <2>15 DEF Inv
<1> QED
  BY <1>2, <1>3

--------------------------------------------------------------------------------
LEMMA BestIsCandidate == \A atm \in Strike : Best(atm) \subseteq Strike
<1>1. NStrikes \in Nat \ {0} /\ Band \in Nat
  BY PointAssumption
<1>2. \A p \in Int : NearestStrike(p) \in Strike
  BY <1>1 DEF NearestStrike, Strike
<1>3. \A atm \in Strike, d \in -Band..Band : atm + d \in Int
  BY <1>1 DEF Strike
<1> QED
  BY <1>2, <1>3 DEF Best, CandidateStrikes

LEMMA TimerIsSound ==
  ASSUME Inv, TimerFires, spot \in {None} \cup Strike
  PROVE  Inv'
<1> DEFINE t == pendingAt
<1>1. t \in Nat
  BY DEF Inv, Stamps, TimerFires
<1>2. /\ compute(t) /\ pendingAt' = None /\ armed' = FALSE
      /\ UNCHANGED <<clock, volume, latest>>
  BY <1>1 DEF TimerFires, None
<1>3. CASE UNCHANGED pointVars
  <2>1. Stamps'
    BY <1>2, <1>3 DEF Inv, Stamps, UpTo, bucket, pointVars, barVars
  <2> QED
    BY <1>2, <1>3, <2>1, BarsStay DEF Inv, Shape
<1>4. CASE ~UNCHANGED pointVars
  <2>1. PICK s \in Best(spot) : points' = points + 1 /\ Add(t, CumVolume(s))
    BY <1>2, <1>4 DEF compute
  <2>2. s \in Strike
    BY <1>2, <1>4, <2>1, BestIsCandidate DEF compute
  <2>3. CumVolume(s) \in Nat \cup {None}
    BY <2>2, Counts DEF Inv, Shape
  <2> QED
    BY <1>1, <1>2, <2>1, <2>3, AddIsSound
<1> QED
  BY <1>3, <1>4

LEMMA BarTickIsSound ==
  ASSUME Inv, BarTick
  PROVE  Inv'
<1> DEFINE closes == open # <<>> /\ bucket(beat) > open[1].ts
<1>1. UNCHANGED <<clock, volume, pendingAt, armed, latest, lastVol, dropped, points>>
      /\ IF closes THEN open' = <<>> /\ Published(open[1], "clock") ELSE UNCHANGED barVars
  BY DEF BarTick, Flush, pendingVars
<1>2. CASE closes
  <2>1. open # <<>> /\ open' = <<>> /\ Published(open[1], "clock")
    BY <1>1, <1>2
  <2>2. /\ bars' \in Seq(Bar) /\ counted' = counted + open[1].n /\ counted' \in Nat
        /\ Len(bars) \in Nat /\ Len(bars') = Len(bars) + 1
        /\ DOMAIN bars' = 1..(Len(bars) + 1) /\ bars'[Len(bars) + 1].by = "clock"
    BY <2>1, PublishedBars
  <2>3. /\ \A i, j \in DOMAIN bars' : i < j /\ bars'[j].ts <= bars'[i].ts =>
              \E k \in i..(j - 1) : bars'[k].by = "clock"
        /\ latest # Unordered => \A i \in DOMAIN bars' : bars'[i].ts <= open[1].ts
        /\ latest # Unordered => \A i, j \in DOMAIN bars' : i < j => bars'[i].ts <= bars'[j].ts
    BY <2>1, PublishedIsSound
  <2>4. Shape'
    BY <1>1, <2>1, <2>2 DEF Inv, Shape
  <2>5. \A i \in DOMAIN bars' : bars'[i].ts \in Nat
    <3>1. \A b \in Bar : b.ts \in Nat
      BY DEF Bar
    <3> QED
      BY <2>2, <3>1
  <2>6. Stamps'
    <3>1. latest \in Nat => UpTo(bucket(latest))'
      <4> SUFFICES ASSUME latest \in Nat PROVE UpTo(bucket(latest))'
        OBVIOUS
      <4>1. open[1].ts <= bucket(latest) /\ bucket(latest) \in Nat /\ open[1].ts \in Nat
        BY <2>1, Buckets, BarsHaveTimes DEF Inv, Stamps, UpTo
      <4>2. latest # Unordered
        BY DEF Unordered
      <4>3. \A i \in DOMAIN bars' : bars'[i].ts <= bucket(latest)
        BY <2>3, <2>5, <4>1, <4>2
      <4> QED
        BY <1>1, <2>1, <4>3 DEF UpTo, bucket
    <3>2. latest # None
      BY <2>1 DEF Inv, Stamps
    <3> QED
      BY <1>1, <3>1, <3>2 DEF Inv, Stamps
  <2>7. OpenIsNewest' /\ ClockClosedIt'
    BY <2>1, <2>2 DEF OpenIsNewest, ClockClosedIt
  <2>8. BarsHoldThePoints'
    <3>1. points = counted + dropped + open[1].n /\ open[1].n \in Nat
      BY <2>1, BarsHaveTimes DEF Inv, BarsHoldThePoints, Counted
    <3>2. points' = counted' + dropped' + 0
      BY <1>1, <2>2, <3>1 DEF Inv, Shape
    <3>3. latest # Unordered => dropped = 0
      BY DEF Inv, BarsHoldThePoints, InOrder
    <3> QED
      BY <1>1, <2>1, <2>3, <3>2, <3>3 DEF BarsHoldThePoints, Counted, OnlyTheClockForgets, InOrder
  <2> QED
    BY <2>4, <2>6, <2>7, <2>8 DEF Inv
<1>3. CASE ~closes
  <2>1. UNCHANGED <<pendingVars, pointVars>>
    BY <1>1, <1>3 DEF BarTick, pendingVars, pointVars
  <2>2. Stamps'
    BY <1>1, <2>1, StampsStay DEF Inv, Stamps
  <2> QED
    BY <1>1, <2>1, <2>2, BarsStay DEF Inv, Shape
<1> QED
  BY <1>2, <1>3

--------------------------------------------------------------------------------
SpotIsAStrike == spot \in {None} \cup Strike

(* The counts keep their types, whatever a row says.                              *)
LEMMA ObservedTyped ==
  ASSUME Inv, NEW s \in Strike, NEW l \in Leg, NEW v \in 0..MaxVolume, Observed(s, l, v)
  PROVE  volume' \in [Strike -> [Leg -> Nat \cup {None}]]
<1>1. v \in Nat
  BY PointAssumption
<1>2. volume' = [volume EXCEPT ![s][l] = v]
  BY DEF Observed
<1> QED
  BY <1>1, <1>2 DEF Inv, Shape

LEMMA StepIsSound ==
  ASSUME Inv, SpotIsAStrike, [PointNext]_dataVars
  PROVE  Inv' /\ SpotIsAStrike'
<1>0. clock \in Nat /\ volume \in [Strike -> [Leg -> Nat \cup {None}]]
  BY DEF Inv, Shape, Stamps
<1>1. CASE Frame
  <2>1. UNCHANGED <<clock, pointVars>> /\ SpotIsAStrike'
    BY <1>1 DEF Frame, SpotIsAStrike
  <2>2. volume' \in [Strike -> [Leg -> Nat \cup {None}]]
    BY <1>0, <1>1, ObservedTyped DEF Frame
  <2>3. Touched \/ UNCHANGED pendingVars
    BY <1>1 DEF Frame
  <2>4. CASE Touched
    BY <2>1, <2>2, <2>4, TouchedIsSound, BarsStay
  <2>5. CASE UNCHANGED pendingVars
    <3>1. Stamps' /\ latest' = latest
      BY <1>0, <2>1, <2>5, StampsStay DEF pendingVars
    <3> QED
      BY <2>1, <2>2, <3>1, BarsStay
  <2> QED
    BY <2>3, <2>4, <2>5
<1>2. CASE IndexFrame
  <2>1. UNCHANGED <<clock, pointVars, volume>> /\ Touched /\ SpotIsAStrike'
    BY <1>2 DEF IndexFrame, SpotIsAStrike
  <2> QED
    BY <1>0, <2>1, TouchedIsSound, BarsStay
<1>3. CASE TimerFires
  BY <1>3, TimerIsSound DEF TimerFires, SpotIsAStrike
<1>4. CASE BarTick
  BY <1>4, BarTickIsSound DEF BarTick, SpotIsAStrike
<1>5. CASE Tick
  <2>1. clock' \in Nat /\ UNCHANGED <<pendingVars, pointVars, volume, spot>>
    BY <1>0, <1>5 DEF Tick
  <2>2. Stamps' /\ latest' = latest
    BY <2>1, StampsStay DEF pendingVars
  <2> QED
    BY <1>0, <2>1, <2>2, BarsStay DEF SpotIsAStrike
<1>6. CASE UNCHANGED dataVars
  <2>1. UNCHANGED <<clock, pendingVars, pointVars, volume, spot>>
    BY <1>6 DEF dataVars
  <2>2. Stamps' /\ latest' = latest
    BY <1>0, <2>1, StampsStay DEF pendingVars
  <2> QED
    BY <1>0, <2>1, <2>2, BarsStay DEF SpotIsAStrike
<1> QED
  BY <1>1, <1>2, <1>3, <1>4, <1>5, <1>6 DEF PointNext

(* Add drops a sample only after a frame came that was stamped before an earlier   *)
(* one: a point bears the last stamp, and no bar is newer than the last of stamps  *)
(* in order (engine.go 379-396, agg.go 116-118).                                  *)
THEOREM InvHolds == PointSpec => [](Inv /\ SpotIsAStrike)
<1>1. PointInit => Inv /\ SpotIsAStrike
  BY InitIsSound DEF PointInit, SpotIsAStrike
<1>2. Inv /\ SpotIsAStrike /\ [PointNext]_dataVars => (Inv /\ SpotIsAStrike)'
  BY StepIsSound
<1> QED
  BY <1>1, <1>2, PTL DEF PointSpec

(* A point is in one bar unless a newer one was open; a sample opens no bar as old *)
(* as one published, but for what the clock has closed; frames in order lose no    *)
(* point and leave the bars in order.                                            *)
THEOREM BarsHoldThePointsHolds == PointSpec => []BarsHoldThePoints
<1>1. Inv => BarsHoldThePoints
  BY DEF Inv
<1> QED
  BY <1>1, InvHolds, PTL

--------------------------------------------------------------------------------
(* While the sum of the legs' counts says nothing that was not traded, what the    *)
(* open bar says was traded is no more than was, even with what the next sample     *)
(* would add to it.                                                              *)
Due == IF lastVol = None THEN 0 ELSE Grown(lastVol, CumVolume(prevStrike))

Apart ==
  /\ lastVol # None => prevStrike \in Strike /\ CumVolume(prevStrike) \in Nat
  /\ Due <= traded
  /\ \A i \in DOMAIN bars : bars[i].volume <= traded
  /\ open # <<>> => open[1].volume + Due <= traded

Volumes == traded \in Nat /\ prevStrike \in {None} \cup Strike /\ (mixed \/ Apart)

(* What a count has grown by in two steps is at least what it has grown by in one.  *)
LEMMA GrowthAdds ==
  ASSUME NEW a \in Nat, NEW b \in Nat, NEW c \in Nat
  PROVE  /\ Grown(a, b) \in Nat /\ Grown(a, a) = 0
         /\ Grown(a, c) <= Grown(a, b) + Grown(b, c)
  BY DEF Grown, None

(* A sum grows by no more than its part, unless the part begins or starts anew     *)
(* beside another.                                                               *)
LEMMA SumsGrowWithTheirParts ==
  ASSUME NEW c \in Nat \cup {None}, NEW beside \in Nat, NEW v \in Nat,
         c = None => v = 0, c # None /\ v < c => beside = 0
  PROVE  Grown(Count(c) + beside, v + beside) <= Grown(c, v)
<1>1. CASE c = None
  BY <1>1 DEF Grown, Count, None
<1>2. CASE c \in Nat /\ v >= c
  BY <1>2 DEF Grown, Count, None
<1>3. CASE c \in Nat /\ v < c
  BY <1>3 DEF Grown, Count, None
<1> QED
  BY <1>1, <1>2, <1>3

LEMMA BarsHaveVolumes ==
  ASSUME Inv
  PROVE  /\ \A i \in DOMAIN bars : bars[i].volume \in Nat
         /\ open # <<>> => open[1].volume \in Nat
<1>1. bars \in Seq(Bar) /\ (open # <<>> => open[1] \in Bar)
  BY DEF Inv, Shape
<1>2. \A i \in DOMAIN bars : bars[i] \in Bar
  BY <1>1
<1>3. \A b \in Bar : b.volume \in Nat
  BY DEF Bar
<1> QED
  BY <1>1, <1>2, <1>3

LEMMA DueTyped ==
  ASSUME Inv, Apart
  PROVE  Due \in Nat
<1>1. lastVol \in Nat \cup {None}
  BY DEF Inv, Shape
<1>2. CASE lastVol = None
  BY <1>2 DEF Due
<1>3. CASE lastVol # None
  BY <1>1, <1>3, GrowthAdds DEF Due, Apart
<1> QED
  BY <1>2, <1>3

(* What a row adds to the sum of the strike that is sampled.                      *)
LEMMA SumGrows ==
  ASSUME Inv, Apart, NEW s \in Strike, NEW l \in Leg, NEW v \in Nat,
         Observed(s, l, v), ~Misleads(s, l, v), lastVol # None, s = prevStrike
  PROVE  /\ CumVolume(s) \in Nat /\ CumVolume(s)' \in Nat
         /\ Grown(CumVolume(s), CumVolume(s)') <= Grown(volume[s][l], v)
<1> DEFINE m == CHOOSE k \in Leg : k # l
           c == volume[s][l]
           d == volume[s][m]
<1>1. m \in Leg /\ m # l /\ Leg = {l, m}
  BY DEF Leg
<1>2. volume' = [volume EXCEPT ![s][l] = v] /\ volume \in [Strike -> [Leg -> Nat \cup {None}]]
  BY DEF Observed, Inv, Shape
<1>3. c \in Nat \cup {None} /\ d \in Nat \cup {None} /\ Count(d) \in Nat /\ Count(c) \in Nat
  BY <1>1, <1>2 DEF Count
<1>4. volume'[s][l] = v /\ volume'[s][m] = d /\ v # None
  BY <1>1, <1>2 DEF None
<1>5. CumVolume(s) \in Nat /\ CumVolume(s) # None
  BY DEF Apart, None
<1> HIDE DEF m
<1>6. CumVolume(s) = Count(c) + Count(d)
  <2>1. CumVolume(s) = Count(volume[s]["CE"]) + Count(volume[s]["PE"])
    BY <1>2, <1>5, Counts
  <2>2. (l = "CE" /\ m = "PE") \/ (l = "PE" /\ m = "CE")
    BY <1>1 DEF Leg
  <2> QED
    BY <1>3, <2>1, <2>2
<1>7. CumVolume(s)' = v + Count(d)
  <2>1. \E k \in Leg : volume'[s][k] # None
    BY <1>4
  <2>2. CumVolume(s)' = Count(volume'[s]["CE"]) + Count(volume'[s]["PE"])
    BY <2>1 DEF CumVolume, Count
  <2>3. (l = "CE" /\ m = "PE") \/ (l = "PE" /\ m = "CE")
    BY <1>1 DEF Leg
  <2>4. Count(v) = v
    BY <1>4 DEF Count
  <2> QED
    BY <1>3, <1>4, <2>2, <2>3, <2>4
<1>8. (c = None => v = 0) /\ (c # None /\ v < c => Count(d) = 0)
  <2>1. ~(c = None /\ v > 0) /\ ~(v < c /\ Count(d) > 0)
    BY DEF Misleads, Beside, m
  <2> QED
    BY <1>3, <2>1
<1> HIDE DEF c, d
<1>9. Grown(Count(c) + Count(d), v + Count(d)) <= Grown(c, v)
  BY <1>3, <1>8, SumsGrowWithTheirParts
<1> QED
  BY <1>3, <1>5, <1>6, <1>7, <1>9 DEF c

(* A row about another strike leaves the sum as it is.                            *)
LEMMA SumStays ==
  ASSUME Inv, NEW s \in Strike, NEW l \in Leg, NEW v \in Nat, Observed(s, l, v),
         prevStrike \in Strike, s # prevStrike, UNCHANGED prevStrike
  PROVE  CumVolume(prevStrike)' = CumVolume(prevStrike)
<1>1. volume'[prevStrike] = volume[prevStrike]
  BY DEF Observed, Inv, Shape
<1> QED
  BY <1>1 DEF CumVolume, Count

(* A frame that changes no count, and one that does.                              *)
LEMMA ObservedKeepsVolumes ==
  ASSUME Inv, Volumes, NEW s \in Strike, NEW l \in Leg, NEW v \in Nat, Observed(s, l, v),
         UNCHANGED <<open, lastVol, bars, prevStrike>>
  PROVE  Volumes'
<1> DEFINE more == Grown(volume[s][l], v)
<1>1. /\ traded' = traded + more /\ traded \in Nat
      /\ mixed' = (mixed \/ Misleads(s, l, v))
  BY DEF Observed, Volumes
<1>2. volume[s][l] \in Nat \cup {None} /\ lastVol \in Nat \cup {None}
  BY DEF Inv, Shape
<1>3. more \in Nat
  BY <1>2, GrowthAdds DEF Grown
<1>4. traded' \in Nat /\ traded <= traded'
  BY <1>1, <1>3
<1>5. ASSUME ~mixed' PROVE Apart'
  <2>1. Apart /\ ~Misleads(s, l, v)
    BY <1>1, <1>5 DEF Volumes
  <2>2. /\ Due' <= Due + more /\ Due' \in Nat
        /\ lastVol' # None => prevStrike' \in Strike /\ CumVolume(prevStrike)' \in Nat
    <3>1. CASE lastVol = None
      BY <1>3, <3>1 DEF Due
    <3>2. CASE lastVol # None
      <4>1. prevStrike \in Strike /\ CumVolume(prevStrike) \in Nat /\ lastVol \in Nat
        BY <1>2, <2>1, <3>2 DEF Apart
      <4>2. Due = Grown(lastVol, CumVolume(prevStrike)) /\ Due' = Grown(lastVol, CumVolume(prevStrike)')
        BY <3>2 DEF Due
      <4>3. CASE s = prevStrike
        <5>1. /\ CumVolume(prevStrike)' \in Nat
              /\ Grown(CumVolume(prevStrike), CumVolume(prevStrike)') <= more
          BY <2>1, <3>2, <4>3, SumGrows
        <5> DEFINE old == CumVolume(prevStrike)
                   new == CumVolume(prevStrike)'
        <5>2. Grown(lastVol, new) <= Grown(lastVol, old) + Grown(old, new)
              /\ Grown(lastVol, new) \in Nat /\ Grown(lastVol, old) \in Nat /\ Grown(old, new) \in Nat
          BY <4>1, <5>1, GrowthAdds
        <5> HIDE DEF old, new, more
        <5> QED
          BY <1>3, <4>1, <4>2, <5>1, <5>2 DEF old, new
      <4>4. CASE s # prevStrike
        <5>1. CumVolume(prevStrike)' = CumVolume(prevStrike)
          BY <4>1, <4>4, SumStays
        <5> QED
          BY <1>3, <2>1, <4>1, <4>2, <5>1, DueTyped
      <4> QED
        BY <4>3, <4>4
    <3> QED
      BY <3>1, <3>2
  <2>3. Due \in Nat /\ (open # <<>> => open[1].volume \in Nat) /\ \A i \in DOMAIN bars : bars[i].volume \in Nat
    BY <2>1, DueTyped, BarsHaveVolumes
  <2> HIDE DEF more
  <2>4. Due' <= traded' /\ (open' # <<>> => open'[1].volume + Due' <= traded')
    BY <1>1, <1>3, <2>1, <2>2, <2>3 DEF Apart
  <2>5. \A i \in DOMAIN bars' : bars'[i].volume <= traded'
    BY <1>1, <1>4, <2>1, <2>3 DEF Apart
  <2> QED
    BY <2>2, <2>4, <2>5 DEF Apart
<1> QED
  BY <1>4, <1>5 DEF Volumes

(* A sealed bar says no more than the open one did.                               *)
LEMMA PublishedVolume ==
  ASSUME Inv, Apart, traded \in Nat, open # <<>>, NEW by \in {"sample", "clock"},
         Published(open[1], by)
  PROVE  \A i \in DOMAIN bars' : bars'[i].volume <= traded
<1>1. /\ Len(bars) \in Nat /\ DOMAIN bars = 1..Len(bars) /\ DOMAIN bars' = 1..(Len(bars) + 1)
      /\ bars'[Len(bars) + 1].volume = open[1].volume
      /\ \A i \in 1..Len(bars) : bars'[i] = bars[i]
  BY PublishedBars
<1>2. open[1].volume <= traded
  BY BarsHaveVolumes, DueTyped DEF Apart
<1>3. \A i \in 1..Len(bars) : bars[i].volume <= traded
  BY <1>1 DEF Apart
<1> QED
  BY <1>1, <1>2, <1>3

LEMMA AddKeepsVolumes ==
  ASSUME Inv, Apart, traded \in Nat, NEW t, NEW s \in Strike, NEW v \in Nat \cup {None},
         v = CumVolume(s), Add(t, v), prevStrike' = s, prevStrike \in {None, s},
         UNCHANGED <<volume, traded>>
  PROVE  Apart'
<1> DEFINE into == IF open = <<>> \/ Seals(t) THEN Fresh(bucket(t)) ELSE open[1]
<1>1. Due \in Nat /\ lastVol \in Nat \cup {None} /\ (open # <<>> => open[1].volume \in Nat)
  BY DueTyped, BarsHaveVolumes DEF Inv, Shape
<1>2. lastVol # None => prevStrike = s /\ v \in Nat /\ Due = Grown(lastVol, v)
  BY DEF Apart, Due, None, Strike
<1>3. CumVolume(s)' = v
  BY DEF CumVolume, Count
<1>4. CASE Late(t)
  <2>1. UNCHANGED <<open, bars, lastVol>>
    BY <1>4 DEF Add, AddTo, barVars
  <2>2. Due' = Due /\ (lastVol' # None => prevStrike' \in Strike /\ CumVolume(prevStrike)' \in Nat)
    <3>1. CASE lastVol = None
      BY <2>1, <3>1 DEF Due
    <3>2. CASE lastVol # None
      <4>1. prevStrike' = prevStrike /\ CumVolume(prevStrike)' = v
        BY <1>2, <1>3, <3>2 DEF CumVolume
      <4> QED
        BY <1>2, <2>1, <3>2, <4>1 DEF Due
    <3> QED
      BY <3>1, <3>2
  <2> QED
    BY <2>1, <2>2 DEF Apart
<1>5. CASE ~Late(t)
  <2>1. /\ open' = <<Folded(into, v)>>
        /\ IF Seals(t) THEN Published(open[1], "sample") ELSE UNCHANGED <<bars, counted>>
        /\ lastVol' = IF v = None THEN lastVol ELSE v
    BY <1>5 DEF Add, AddTo
  <2>2. Delta(v) = Due /\ (v = None => lastVol = None)
    BY <1>2 DEF Delta, Due, None
  <2>3. into.volume \in Nat /\ into.volume + Due <= traded
    <3>1. Fresh(bucket(t)).volume = 0
      BY DEF Fresh
    <3> QED
      BY <1>1, <3>1 DEF Apart
  <2>4. Folded(into, v).volume = into.volume + Due
    BY <2>2 DEF Folded
  <2> HIDE DEF into
  <2>5. open'[1].volume <= traded' /\ open'[1].volume \in Nat /\ open' # <<>>
    <3> DEFINE bar == Folded(into, v)
    <3>1. open' = <<bar>> /\ bar.volume <= traded /\ bar.volume \in Nat
      BY <1>1, <2>1, <2>3, <2>4
    <3> HIDE DEF bar
    <3> QED
      BY <3>1
  <2>6. lastVol' # None => lastVol' = v /\ v \in Nat
    BY <2>1, <2>2
  <2>7. Due' = 0 /\ (lastVol' # None => prevStrike' \in Strike /\ CumVolume(prevStrike)' \in Nat)
    <3>1. CumVolume(prevStrike)' = v
      BY <1>3 DEF CumVolume
    <3> QED
      BY <2>6, <3>1, GrowthAdds DEF Due
  <2>8. \A i \in DOMAIN bars' : bars'[i].volume <= traded
    BY <2>1, PublishedVolume DEF Apart, Seals
  <2> QED
    BY <2>5, <2>7, <2>8 DEF Apart
<1> QED
  BY <1>4, <1>5

LEMMA StepKeepsVolumes ==
  ASSUME Inv, SpotIsAStrike, Volumes, [PointNext]_dataVars
  PROVE  Volumes'
<1> DEFINE sampled == <<volume, traded, mixed, open, lastVol, bars, prevStrike>>
<1>1. CASE UNCHANGED sampled
  BY <1>1 DEF Volumes, Apart, Due, CumVolume, Count
<1>2. CASE IndexFrame \/ Tick \/ UNCHANGED dataVars
  BY <1>1, <1>2 DEF IndexFrame, Tick, dataVars, pointVars, barVars
<1>3. CASE TimerFires
  <2> DEFINE t == IF pendingAt = None THEN clock ELSE pendingAt
  <2>1. compute(t) /\ UNCHANGED <<volume, traded>>
    BY <1>3 DEF TimerFires
  <2> HIDE DEF t
  <2>2. CASE UNCHANGED <<pointVars, mixed>>
    BY <1>1, <2>1, <2>2 DEF pointVars, barVars
  <2>3. CASE ~UNCHANGED <<pointVars, mixed>>
    <3>1. PICK s \in Best(spot) : /\ prevStrike' = s /\ mixed' = (mixed \/ prevStrike \notin {None, s})
                                  /\ Add(t, CumVolume(s))
      BY <2>1, <2>3 DEF compute
    <3>2. s \in Strike
      BY <2>1, <2>3, <3>1, BestIsCandidate DEF compute, SpotIsAStrike
    <3>3. CumVolume(s) \in Nat \cup {None}
      BY <3>2, Counts DEF Inv, Shape
    <3>4. ASSUME ~mixed' PROVE Apart'
      <4>1. prevStrike \in {None, s} /\ Apart /\ traded \in Nat
        BY <3>1, <3>4 DEF Volumes
      <4> QED
        BY <2>1, <3>1, <3>2, <3>3, <4>1, AddKeepsVolumes
    <3> QED
      BY <2>1, <3>1, <3>2, <3>4 DEF Volumes
  <2> QED
    BY <2>2, <2>3
<1>4. CASE BarTick
  <2>1. UNCHANGED <<volume, traded, mixed, lastVol, prevStrike>> /\ Flush(beat)
    BY <1>4 DEF BarTick
  <2>2. \/ UNCHANGED <<open, bars>>
        \/ open # <<>> /\ open' = <<>> /\ Published(open[1], "clock")
    BY <2>1 DEF Flush, barVars
  <2>3. CASE UNCHANGED <<open, bars>>
    BY <1>1, <2>1, <2>3
  <2>4. CASE open # <<>> /\ open' = <<>> /\ Published(open[1], "clock")
    <3>1. Apart => \A i \in DOMAIN bars' : bars'[i].volume <= traded
      BY <2>4, PublishedVolume DEF Volumes
    <3> QED
      BY <2>1, <2>4, <3>1 DEF Volumes, Apart, Due, CumVolume, Count
  <2> QED
    BY <2>2, <2>3, <2>4
<1>5. CASE Frame
  <2>1. UNCHANGED <<open, lastVol, bars, prevStrike>>
    BY <1>5 DEF Frame, pointVars, barVars
  <2>2. CASE UNCHANGED <<volume, traded, mixed>>
    BY <1>1, <2>1, <2>2
  <2>3. CASE \E s \in Strike, l \in Leg, v \in 0..MaxVolume : Observed(s, l, v)
    <3>1. 0..MaxVolume \subseteq Nat
      BY PointAssumption
    <3> QED
      BY <2>1, <2>3, <3>1, ObservedKeepsVolumes
  <2> QED
    BY <1>5, <2>2, <2>3 DEF Frame
<1> QED
  BY <1>2, <1>3, <1>4, <1>5 DEF PointNext

(* No bar says that more was traded than was, as long as the session keeps its     *)
(* strike, whose legs are both counted from the first sample on and neither anew   *)
(* beside the other: what a sample adds to its bar is no more than what has been   *)
(* traded since the last one, however often the only count there is was set back   *)
(* in between (agg.go 130-143, engine.go 670-682, 846-848).                       *)
THEOREM VolumeWasTradedHolds == PointSpec => []VolumeWasTraded
<1>1. PointInit => Volumes
  BY DEF PointInit, Volumes, Apart, Due
<1>2. Inv /\ SpotIsAStrike /\ Volumes /\ [PointNext]_dataVars => Volumes'
  BY StepKeepsVolumes
<1>3. Inv /\ Volumes => VolumeWasTraded
  <2> SUFFICES ASSUME Inv, Volumes, ~mixed, NEW i \in DOMAIN (bars \o open)
               PROVE  (bars \o open)[i].volume <= traded
    BY DEF VolumeWasTraded
  <2>1. bars \in Seq(Bar) /\ (open = <<>> \/ (open = <<open[1]>> /\ open[1] \in Bar)) /\ Apart /\ traded \in Nat
    BY DEF Inv, Shape, Volumes
  <2>2. \A j \in DOMAIN bars : bars[j].volume <= traded
    BY <2>1 DEF Apart
  <2>3. CASE open = <<>>
    <3>1. bars \o open = bars
      BY <2>1, <2>3
    <3> QED
      BY <2>2, <3>1
  <2>4. CASE open # <<>>
    <3> DEFINE bar == open[1]
    <3>1. open = <<bar>> /\ bar \in Bar /\ bar.volume <= traded
      BY <2>1, <2>4, BarsHaveVolumes, DueTyped DEF Apart
    <3> HIDE DEF bar
    <3>2. /\ DOMAIN (bars \o <<bar>>) = 1..(Len(bars) + 1) /\ DOMAIN bars = 1..Len(bars) /\ Len(bars) \in Nat
          /\ (bars \o <<bar>>)[Len(bars) + 1] = bar
          /\ \A j \in 1..Len(bars) : (bars \o <<bar>>)[j] = bars[j]
      BY <2>1, <3>1
    <3> QED
      BY <2>2, <3>1, <3>2
  <2> QED
    BY <2>3, <2>4
<1> QED
  BY <1>1, <1>2, <1>3, InvHolds, PTL DEF PointSpec

================================================================================
