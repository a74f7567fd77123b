-------------------------- MODULE NodeChannelsProofs ---------------------------
(* Machine-checked proofs about what the Node backend holds open for those who   *)
(* want it: LiveRouter, for every number of feeds, contracts, consumers and      *)
(* streams and every coverage, WatchMonitor, for every set of keys, conversations *)
(* and calls, and StraddleHistory, for every set of strikes, prints and requests, *)
(* every lead-in and every day.                                                  *)
EXTENDS LiveRouter, WatchMonitor, StraddleHistory, WellFoundedInduction, TLAPS

--------------------------------------------------------------------------------
(* LiveRouter: no stream is leaked, and none is dropped before its successor.    *)

(* A flight that no change has overtaken carries what is wanted. *)
RouterInv ==
  /\ NoStreamLeak
  /\ InLine
  /\ flight # NoFlight /\ ~behind => flight.keys = WantedKeys(subs)

Inv == TypeOK /\ RouterInv

LEMMA InitHolds == Init => Inv
BY LiveAssumption DEF Init, Inv, TypeOK, RouterInv, NoStreamLeak, InLine, Flight, NoFlight,
   NoActive, NoFeed

(* The consumers want nothing but contracts, and a change of one consumer's     *)
(* subscription changes what is wanted by that consumer's part.                 *)
LEMMA WantedIsTyped ==
  ASSUME TypeOK
  PROVE  WantedKeys(subs) \in SUBSET Contract
BY DEF TypeOK, WantedKeys

LEMMA HoldingWants ==
  ASSUME TypeOK, NEW c \in Consumer, NEW ks \in SUBSET Contract
  PROVE  /\ Holding(c, ks) \in [Consumer -> SUBSET Contract]
         /\ Others(c) \in SUBSET Contract
         /\ WantedKeys(Holding(c, ks)) = Others(c) \cup ks
<1>1. Holding(c, ks) \in [Consumer -> SUBSET Contract]
  BY DEF TypeOK, Holding
<1>2. Others(c) \in SUBSET Contract
  BY DEF TypeOK, Others, Holding, WantedKeys
<1>3. \A d \in Consumer : Holding(c, ks)[d] = IF d = c THEN ks ELSE subs[d]
  BY DEF TypeOK, Holding
<1>4. \A d \in Consumer : Holding(c, {})[d] = IF d = c THEN {} ELSE subs[d]
  BY DEF TypeOK, Holding
<1>5. \A x : x \in WantedKeys(Holding(c, ks)) <=> x \in Others(c) \cup ks
  BY <1>3, <1>4 DEF WantedKeys, Others
<1> QED BY <1>1, <1>2, <1>5

(* What reconcileOnce leaves behind: a type-correct channel in which every open *)
(* stream is accounted for, at rest on the contracts asked for or in flight     *)
(* with them.                                                                   *)
LEMMA ReconcileOnceIsSound ==
  ASSUME TypeOK, NoStreamLeak, NEW ks \in SUBSET Contract, NEW pk, NEW pin,
         NEW gone \in SUBSET Stream, ReconcileOnce(ks, pk, pin, gone)
  PROVE  /\ streams' \in [Stream -> Feed \cup {NoFeed}]
         /\ active' \in [feed : Feed, stream : Stream] \cup {NoActive}
         /\ sig' \in SUBSET Contract
         /\ sig' = {} <=> active' = NoActive
         /\ flight' \in Flight
         /\ \A s \in Stream : streams'[s] # NoFeed => s = active'.stream \/ s \in closing
         /\ flight' = NoFlight /\ active' # NoActive => sig' = ks
         /\ flight' # NoFlight => flight'.keys = ks
<1>1. PICK f \in MayChoose(ks, pk, pin) :
        \/ /\ ks = {} \/ f = NoFeed
           /\ Teardown(gone)
           /\ flight' = NoFlight
        \/ /\ ks # {} /\ f # NoFeed
           /\ flight' = IF AlreadyServes(f, ks) THEN NoFlight ELSE [feed |-> f, keys |-> ks]
           /\ streams' = Closed(gone)
           /\ UNCHANGED <<active, sig>>
  BY DEF ReconcileOnce
<1>2. f \in Feed \cup {NoFeed}
  BY DEF MayChoose
<1>3. CASE Teardown(gone) /\ flight' = NoFlight
  BY <1>3 DEF Teardown, Closed, TypeOK, NoStreamLeak, Flight
<1>4. CASE /\ ks # {} /\ f # NoFeed
           /\ flight' = IF AlreadyServes(f, ks) THEN NoFlight ELSE [feed |-> f, keys |-> ks]
           /\ streams' = Closed(gone)
           /\ UNCHANGED <<active, sig>>
  <2>1. flight' \in Flight /\ (flight' # NoFlight => flight'.keys = ks)
    BY <1>2, <1>4 DEF Flight
  <2>2. streams' \in [Stream -> Feed \cup {NoFeed}]
    BY <1>4 DEF Closed, TypeOK
  <2>3. \A s \in Stream : streams'[s] # NoFeed => streams[s] # NoFeed
    BY <1>4 DEF Closed
  <2>4. ASSUME flight' = NoFlight PROVE sig' = ks
    BY <1>2, <1>4, <2>4 DEF AlreadyServes, NoFlight
  <2> QED BY <1>4, <2>1, <2>2, <2>3, <2>4 DEF TypeOK, NoStreamLeak
<1> QED BY <1>1, <1>3, <1>4

(* A reconcile for what is wanted next preserves the invariant, whether it runs *)
(* or finds another in progress.                                                *)
LEMMA ReconcileIsSound ==
  ASSUME Inv, NEW ks \in SUBSET Contract, NEW pk, NEW pin, Reconcile(ks, pk, pin),
         subs' \in [Consumer -> SUBSET Contract], ks = WantedKeys(subs'),
         parked' \in [Feed -> {"no", "yes", "expired"}],
         pinned' \in Feed \cup {NoFeed}, closing' = closing
  PROVE  Inv'
<1>1. CASE flight = NoFlight /\ ReconcileOnce(ks, pk, pin, {}) /\ behind' = FALSE
  <2>1. /\ streams' \in [Stream -> Feed \cup {NoFeed}]
        /\ active' \in [feed : Feed, stream : Stream] \cup {NoActive}
        /\ sig' \in SUBSET Contract
        /\ sig' = {} <=> active' = NoActive
        /\ flight' \in Flight
        /\ \A s \in Stream : streams'[s] # NoFeed => s = active'.stream \/ s \in closing
        /\ flight' = NoFlight /\ active' # NoActive => sig' = ks
        /\ flight' # NoFlight => flight'.keys = ks
    BY <1>1, ReconcileOnceIsSound, {} \in SUBSET Stream, TypeOK, NoStreamLeak DEF Inv, RouterInv
  <2>2. behind' \in BOOLEAN
    BY <1>1
  <2>3. TypeOK'
    BY <2>1, <2>2 DEF Inv, TypeOK
  <2> QED BY <2>1, <2>3 DEF Inv, RouterInv, NoStreamLeak, InLine
<1>2. CASE /\ flight # NoFlight /\ behind' = TRUE
           /\ UNCHANGED <<streams, active, sig, flight>>
  BY <1>2 DEF Inv, RouterInv, TypeOK, NoStreamLeak, InLine
<1> QED BY <1>1, <1>2 DEF Reconcile

LEMMA SubscribeStep ==
  ASSUME Inv, NEW c \in Consumer, NEW ks \in SUBSET Contract, Subscribe(c, ks)
  PROVE  Inv'
<1>1. subs' = Holding(c, ks) /\ Reconcile(Others(c) \cup ks, parked, pinned)
  BY DEF Subscribe
<1>2. subs' \in [Consumer -> SUBSET Contract] /\ Others(c) \cup ks \in SUBSET Contract
      /\ Others(c) \cup ks = WantedKeys(subs')
  BY <1>1, HoldingWants DEF Inv
<1>3. UNCHANGED <<closing, parked, pinned>>
  BY DEF Subscribe
<1>4. parked' \in [Feed -> {"no", "yes", "expired"}] /\ pinned' \in Feed \cup {NoFeed}
  BY <1>3 DEF Inv, TypeOK
<1> QED BY <1>1, <1>2, <1>3, <1>4, ReconcileIsSound

LEMMA UnsubscribeStep ==
  ASSUME Inv, NEW c \in Consumer, Unsubscribe(c)
  PROVE  Inv'
<1>1. subs' = Holding(c, {}) /\ Reconcile(Others(c), parked, pinned)
  BY DEF Unsubscribe
<1>2. subs' \in [Consumer -> SUBSET Contract] /\ Others(c) \in SUBSET Contract
      /\ Others(c) = WantedKeys(subs')
  BY <1>1, HoldingWants DEF Inv
<1>3. UNCHANGED <<closing, parked, pinned>>
  BY DEF Unsubscribe
<1>4. parked' \in [Feed -> {"no", "yes", "expired"}] /\ pinned' \in Feed \cup {NoFeed}
  BY <1>3 DEF Inv, TypeOK
<1> QED BY <1>1, <1>2, <1>3, <1>4, ReconcileIsSound

LEMMA TeardownIsSound ==
  ASSUME TypeOK, NoStreamLeak, NEW gone \in SUBSET Stream, Teardown(gone)
  PROVE  /\ streams' \in [Stream -> Feed \cup {NoFeed}]
         /\ active' = NoActive /\ sig' = {}
         /\ \A s \in Stream : streams'[s] # NoFeed => s \in closing
BY DEF Teardown, Closed, TypeOK, NoStreamLeak

LEMMA UnsubscribeLastStep ==
  ASSUME Inv, NEW c \in Consumer, UnsubscribeLast(c)
  PROVE  Inv'
<1>1. subs' \in [Consumer -> SUBSET Contract]
  BY HoldingWants DEF Inv, UnsubscribeLast
<1>2. /\ streams' \in [Stream -> Feed \cup {NoFeed}]
      /\ active' = NoActive /\ sig' = {}
      /\ \A s \in Stream : streams'[s] # NoFeed => s \in closing
  BY TeardownIsSound DEF Inv, RouterInv, UnsubscribeLast
<1>3. UNCHANGED <<closing, parked, pinned, flight>> /\ behind' = (flight # NoFlight)
  BY DEF UnsubscribeLast
<1>4. TypeOK'
  BY <1>1, <1>2, <1>3 DEF Inv, TypeOK
<1> QED BY <1>2, <1>3, <1>4 DEF Inv, RouterInv, NoStreamLeak, InLine

LEMMA ResubscribeAloneStep ==
  ASSUME Inv, NEW c \in Consumer, NEW ks \in SUBSET Contract, ResubscribeAlone(c, ks)
  PROVE  Inv'
<1>1. /\ subs' \in [Consumer -> SUBSET Contract]
      /\ WantedKeys(subs') = ks
  BY HoldingWants DEF Inv, ResubscribeAlone
<1>2. /\ streams' \in [Stream -> Feed \cup {NoFeed}]
      /\ active' = NoActive /\ sig' = {}
      /\ \A s \in Stream : streams'[s] # NoFeed => s \in closing
  BY TeardownIsSound DEF Inv, RouterInv, ResubscribeAlone
<1>3. UNCHANGED <<closing, parked, pinned>> /\ behind' = (flight # NoFlight) /\ ks # {}
  BY DEF ResubscribeAlone
<1>4. PICK f \in MayChoose(ks, parked, pinned) :
        flight' = IF flight # NoFlight THEN flight
                  ELSE IF f = NoFeed THEN NoFlight
                  ELSE [feed |-> f, keys |-> ks]
  BY DEF ResubscribeAlone
<1>5. f \in Feed \cup {NoFeed}
  BY DEF MayChoose
<1>6. flight' \in Flight /\ (flight = NoFlight /\ flight' # NoFlight => flight'.keys = ks)
  BY <1>3, <1>4, <1>5 DEF Inv, TypeOK, Flight
<1>7. TypeOK'
  BY <1>1, <1>2, <1>3, <1>6 DEF Inv, TypeOK
<1> QED BY <1>1, <1>2, <1>3, <1>6, <1>7 DEF Inv, RouterInv, NoStreamLeak, InLine

LEMMA ResubscribeBesideOthersStep ==
  ASSUME Inv, NEW c \in Consumer, NEW ks \in SUBSET Contract, ResubscribeBesideOthers(c, ks)
  PROVE  Inv'
<1>1. subs' \in [Consumer -> SUBSET Contract] /\ Others(c) \in SUBSET Contract
  BY HoldingWants DEF Inv, ResubscribeBesideOthers
<1>2. UNCHANGED <<closing, parked, pinned>> /\ behind' = TRUE
  BY DEF ResubscribeBesideOthers
<1>3. CASE ReconcileOnce(Others(c), parked, pinned, {})
  <2>1. /\ streams' \in [Stream -> Feed \cup {NoFeed}]
        /\ active' \in [feed : Feed, stream : Stream] \cup {NoActive}
        /\ sig' \in SUBSET Contract
        /\ sig' = {} <=> active' = NoActive
        /\ flight' \in Flight
        /\ \A s \in Stream : streams'[s] # NoFeed => s = active'.stream \/ s \in closing
    BY <1>1, <1>3, ReconcileOnceIsSound, {} \in SUBSET Stream, TypeOK, NoStreamLeak
       DEF Inv, RouterInv
  <2>2. TypeOK'
    BY <1>1, <1>2, <2>1 DEF Inv, TypeOK
  <2> QED BY <1>2, <2>1, <2>2 DEF Inv, RouterInv, NoStreamLeak, InLine
<1>4. CASE UNCHANGED <<streams, active, sig, flight>>
  BY <1>1, <1>2, <1>4 DEF Inv, RouterInv, TypeOK, NoStreamLeak, InLine
<1> QED BY <1>3, <1>4 DEF ResubscribeBesideOthers

LEMMA ConnectsStep ==
  ASSUME Inv, Connects
  PROVE  Inv'
<1>1. /\ flight # NoFlight /\ Free # {}
      /\ streams' = [Closed(Cut(flight.feed)) EXCEPT ![NewStream] = flight.feed]
      /\ active' = [feed |-> flight.feed, stream |-> NewStream]
      /\ sig' = flight.keys
      /\ closing' = closing \cup Retired(flight.feed)
      /\ flight' = NoFlight
      /\ UNCHANGED <<subs, parked, pinned, behind>>
  BY DEF Connects
<1>2. NewStream \in Stream
  BY <1>1 DEF NewStream, Free
<1>3. flight.feed \in Feed /\ flight.keys \in (SUBSET Contract) \ {{}}
  BY <1>1 DEF Inv, TypeOK, Flight
<1>4. Closed(Cut(flight.feed)) \in [Stream -> Feed \cup {NoFeed}]
      /\ \A s \in Stream : Closed(Cut(flight.feed))[s] # NoFeed => streams[s] # NoFeed
  BY DEF Closed, Inv, TypeOK
<1>5. Retired(flight.feed) \in SUBSET Stream
      /\ \A s \in Stream : s = active.stream => s \in Retired(flight.feed)
  BY LiveAssumption DEF Retired, Inv, TypeOK, NoActive
<1>6. active' # NoActive
  BY <1>1, <1>2, LiveAssumption DEF NoActive
<1>7. TypeOK'
  <2>1. streams' \in [Stream -> Feed \cup {NoFeed}]
    BY <1>1, <1>2, <1>3, <1>4
  <2>2. active' \in [feed : Feed, stream : Stream]
    BY <1>1, <1>2, <1>3
  <2>3. closing' \in SUBSET Stream
    BY <1>1, <1>5 DEF Inv, TypeOK
  <2>4. flight' \in Flight
    BY <1>1 DEF Flight
  <2> QED BY <1>1, <1>3, <1>6, <2>1, <2>2, <2>3, <2>4 DEF Inv, TypeOK
<1>8. NoStreamLeak'
  <2> SUFFICES ASSUME NEW s \in Stream, streams'[s] # NoFeed, s # NewStream
               PROVE  s \in closing'
    BY <1>1 DEF NoStreamLeak
  <2>1. streams[s] # NoFeed
    BY <1>1, <1>2, <1>4
  <2> QED BY <2>1, <1>1, <1>5 DEF Inv, RouterInv, NoStreamLeak
<1>9. InLine'
  BY <1>1 DEF Inv, RouterInv, InLine, WantedKeys
<1> QED BY <1>1, <1>7, <1>8, <1>9 DEF Inv, RouterInv

LEMMA FailsStep ==
  ASSUME Inv, NEW gone \in SUBSET Stream, Fails(gone)
  PROVE  Inv'
<1> DEFINE pk == Parking(flight.feed)
<1>1. /\ flight # NoFlight /\ parked' = pk
      /\ UNCHANGED <<subs, closing, pinned>>
  BY DEF Fails
<1>2. pk \in [Feed -> {"no", "yes", "expired"}]
  BY DEF Parking, Inv, TypeOK
<1>3. subs' \in [Consumer -> SUBSET Contract] /\ closing' \in SUBSET Stream
      /\ pinned' \in Feed \cup {NoFeed} /\ WantedKeys(subs') = WantedKeys(subs)
  BY <1>1 DEF Inv, TypeOK
<1>4. CASE /\ flight' = NoFlight /\ behind' = TRUE
           /\ streams' = Closed(gone)
           /\ UNCHANGED <<active, sig>>
  <2>1. streams' \in [Stream -> Feed \cup {NoFeed}]
        /\ \A s \in Stream : streams'[s] # NoFeed => streams[s] # NoFeed
    BY <1>4 DEF Closed, Inv, TypeOK
  <2>2. TypeOK'
    BY <1>1, <1>2, <1>3, <1>4, <2>1 DEF Inv, TypeOK, Flight
  <2> QED BY <1>1, <1>4, <2>1, <2>2 DEF Inv, RouterInv, NoStreamLeak, InLine
<1>5. CASE ReconcileOnce(WantedKeys(subs), pk, pinned, gone) /\ behind' = FALSE
  <2>1. /\ streams' \in [Stream -> Feed \cup {NoFeed}]
        /\ active' \in [feed : Feed, stream : Stream] \cup {NoActive}
        /\ sig' \in SUBSET Contract
        /\ sig' = {} <=> active' = NoActive
        /\ flight' \in Flight
        /\ \A s \in Stream : streams'[s] # NoFeed => s = active'.stream \/ s \in closing
        /\ flight' = NoFlight /\ active' # NoActive => sig' = WantedKeys(subs)
        /\ flight' # NoFlight => flight'.keys = WantedKeys(subs)
    BY <1>5, WantedIsTyped, ReconcileOnceIsSound DEF Inv, RouterInv
  <2>2. TypeOK'
    BY <1>1, <1>2, <1>3, <1>5, <2>1 DEF TypeOK
  <2> QED BY <1>1, <1>3, <2>1, <2>2 DEF Inv, RouterInv, NoStreamLeak, InLine
<1> QED BY <1>4, <1>5 DEF Fails

LEMMA OverlapEndsStep ==
  ASSUME Inv, NEW s \in Stream, OverlapEnds(s)
  PROVE  Inv'
<1>1. /\ streams' = Closed({s}) /\ closing' = closing \ {s}
      /\ UNCHANGED <<subs, active, sig, parked, pinned, flight, behind>>
  BY DEF OverlapEnds
<1>2. streams' \in [Stream -> Feed \cup {NoFeed}]
      /\ \A t \in Stream : streams'[t] # NoFeed => streams[t] # NoFeed /\ t # s
  BY <1>1 DEF Closed, Inv, TypeOK
<1>3. TypeOK'
  BY <1>1, <1>2 DEF Inv, TypeOK
<1>4. NoStreamLeak'
  BY <1>1, <1>2 DEF Inv, RouterInv, NoStreamLeak
<1> QED BY <1>1, <1>3, <1>4 DEF Inv, RouterInv, InLine, WantedKeys

LEMMA PinStep ==
  ASSUME Inv, NEW p \in Feed \cup {NoFeed}, Pin(p)
  PROVE  Inv'
<1>1. /\ pinned' = p /\ parked' = [f \in Feed |-> "no"]
      /\ UNCHANGED <<subs, closing>>
      /\ Reconcile(WantedKeys(subs), parked', p)
  BY DEF Pin
<1>2. subs' \in [Consumer -> SUBSET Contract] /\ WantedKeys(subs) = WantedKeys(subs')
  BY <1>1 DEF Inv, TypeOK
<1>3. parked' \in [Feed -> {"no", "yes", "expired"}]
  BY <1>1
<1> QED BY <1>1, <1>2, <1>3, WantedIsTyped, ReconcileIsSound DEF Inv

LEMMA RotateStep ==
  ASSUME Inv, Rotate
  PROVE  Inv'
<1>1. /\ parked' = IF active = NoActive THEN parked ELSE Parking(active.feed)
      /\ UNCHANGED <<subs, closing, pinned>>
      /\ Reconcile(WantedKeys(subs), parked', pinned)
  BY DEF Rotate
<1>2. subs' \in [Consumer -> SUBSET Contract] /\ WantedKeys(subs) = WantedKeys(subs')
      /\ pinned' \in Feed \cup {NoFeed}
  BY <1>1 DEF Inv, TypeOK
<1>3. parked' \in [Feed -> {"no", "yes", "expired"}]
  BY <1>1 DEF Parking, Inv, TypeOK
<1> QED BY <1>1, <1>2, <1>3, WantedIsTyped, ReconcileIsSound DEF Inv

LEMMA ParkExpiresStep ==
  ASSUME Inv, NEW f \in Feed, ParkExpires(f)
  PROVE  Inv'
BY DEF ParkExpires, Inv, RouterInv, TypeOK, NoStreamLeak, InLine, WantedKeys

LEMMA NextHolds == Inv /\ [Next]_vars => Inv'
<1> SUFFICES ASSUME Inv, [Next]_vars PROVE Inv'
  OBVIOUS
<1>1. ASSUME NEW c \in Consumer, NEW ks \in SUBSET Contract,
             Subscribe(c, ks) \/ ResubscribeAlone(c, ks) \/ ResubscribeBesideOthers(c, ks)
      PROVE  Inv'
  BY <1>1, SubscribeStep, ResubscribeAloneStep, ResubscribeBesideOthersStep
<1>2. ASSUME NEW c \in Consumer, UnsubscribeLast(c) \/ Unsubscribe(c) PROVE Inv'
  BY <1>2, UnsubscribeLastStep, UnsubscribeStep
<1>3. CASE Connects
  BY <1>3, ConnectsStep
<1>4. ASSUME NEW s \in Stream, OverlapEnds(s) PROVE Inv'
  BY <1>4, OverlapEndsStep
<1>5. ASSUME NEW gone \in SUBSET Stream, Fails(gone) PROVE Inv'
  BY <1>5, FailsStep
<1>6. ASSUME NEW p \in Feed \cup {NoFeed}, Pin(p) PROVE Inv'
  BY <1>6, PinStep
<1>7. CASE Rotate
  BY <1>7, RotateStep
<1>8. ASSUME NEW f \in Feed, ParkExpires(f) PROVE Inv'
  BY <1>8, ParkExpiresStep
<1>9. CASE UNCHANGED vars
  BY <1>9 DEF vars, Inv, RouterInv, TypeOK, NoStreamLeak, InLine, WantedKeys
<1> QED BY <1>1, <1>2, <1>3, <1>4, <1>5, <1>6, <1>7, <1>8, <1>9 DEF Next

(* The live channel's state stays type correct and the invariant holds, for     *)
(* every number of feeds, contracts, consumers and streams.                     *)
THEOREM Invariance == Spec => []Inv
<1>1. Init => Inv
  BY InitHolds
<1>2. Inv /\ [Next]_vars => Inv'
  BY NextHolds
<1> QED BY <1>1, <1>2, PTL DEF Spec

(* Every value the live router's fields take is one the code can hold. *)
THEOREM TypeIsCorrect == Spec => []TypeOK
BY Invariance, PTL DEF Inv

(* No broker stream is left open without serving or waiting for its stop. *)
THEOREM NoStreamLeakHolds == Spec => []NoStreamLeak
<1>1. Inv => NoStreamLeak
  BY DEF Inv, RouterInv
<1> QED BY <1>1, Invariance, PTL

(* A subscription that no change has overtaken is exactly what is wanted. *)
THEOREM InLineHolds == Spec => []InLine
<1>1. Inv => InLine
  BY DEF Inv, RouterInv
<1> QED BY <1>1, Invariance, PTL

--------------------------------------------------------------------------------
(* The two action properties *)

(* Only a flight that lands opens a stream or names another feed: every other   *)
(* step closes streams at most, and keeps the active feed or gives it up.       *)
OnlyCloses ==
  /\ \A s \in Stream : streams'[s] \in {streams[s], NoFeed}
  /\ active' \in {active, NoActive}

LEMMA TeardownOnlyCloses ==
  ASSUME TypeOK, NEW gone, Teardown(gone)
  PROVE  OnlyCloses
BY DEF Teardown, Closed, OnlyCloses

LEMMA ReconcileOnceOnlyCloses ==
  ASSUME TypeOK, NEW ks, NEW pk, NEW pin, NEW gone, ReconcileOnce(ks, pk, pin, gone)
  PROVE  OnlyCloses
<1>1. Teardown(gone) \/ (streams' = Closed(gone) /\ active' = active)
  BY DEF ReconcileOnce
<1>2. CASE streams' = Closed(gone) /\ active' = active
  BY <1>2 DEF Closed, OnlyCloses
<1> QED BY <1>1, <1>2, TeardownOnlyCloses

LEMMA ReconcileOnlyCloses ==
  ASSUME TypeOK, NEW ks, NEW pk, NEW pin, Reconcile(ks, pk, pin)
  PROVE  OnlyCloses
<1>1. CASE ReconcileOnce(ks, pk, pin, {})
  BY <1>1, ReconcileOnceOnlyCloses
<1>2. CASE UNCHANGED <<streams, active, sig, flight>>
  BY <1>2 DEF OnlyCloses
<1> QED BY <1>1, <1>2 DEF Reconcile

LEMMA OthersOnlyClose ==
  ASSUME TypeOK, [Next]_vars, ~Connects
  PROVE  OnlyCloses
<1>1. ASSUME NEW c \in Consumer, NEW ks \in SUBSET Contract, Subscribe(c, ks)
      PROVE  OnlyCloses
  BY <1>1, ReconcileOnlyCloses DEF Subscribe
<1>2. ASSUME NEW c \in Consumer, NEW ks \in SUBSET Contract, ResubscribeAlone(c, ks)
      PROVE  OnlyCloses
  BY <1>2, TeardownOnlyCloses DEF ResubscribeAlone
<1>3. ASSUME NEW c \in Consumer, NEW ks \in SUBSET Contract, ResubscribeBesideOthers(c, ks)
      PROVE  OnlyCloses
  <2>1. CASE ReconcileOnce(Others(c), parked, pinned, {})
    BY <2>1, ReconcileOnceOnlyCloses
  <2>2. CASE UNCHANGED <<streams, active, sig, flight>>
    BY <2>2 DEF OnlyCloses
  <2> QED BY <1>3, <2>1, <2>2 DEF ResubscribeBesideOthers
<1>4. ASSUME NEW c \in Consumer, UnsubscribeLast(c) PROVE OnlyCloses
  BY <1>4, TeardownOnlyCloses DEF UnsubscribeLast
<1>5. ASSUME NEW c \in Consumer, Unsubscribe(c) PROVE OnlyCloses
  BY <1>5, ReconcileOnlyCloses DEF Unsubscribe
<1>6. ASSUME NEW s \in Stream, OverlapEnds(s) PROVE OnlyCloses
  BY <1>6 DEF OverlapEnds, Closed, OnlyCloses
<1>7. ASSUME NEW gone \in SUBSET Stream, Fails(gone) PROVE OnlyCloses
  <2>1. CASE ReconcileOnce(WantedKeys(subs), Parking(flight.feed), pinned, gone)
    BY <2>1, ReconcileOnceOnlyCloses
  <2>2. CASE streams' = Closed(gone) /\ UNCHANGED <<active, sig>>
    BY <2>2 DEF Closed, OnlyCloses
  <2> QED BY <1>7, <2>1, <2>2 DEF Fails
<1>8. ASSUME NEW p \in Feed \cup {NoFeed}, Pin(p) PROVE OnlyCloses
  <2>1. Reconcile(WantedKeys(subs), [f \in Feed |-> "no"], p)
    BY <1>8 DEF Pin
  <2> QED BY <2>1, ReconcileOnlyCloses
<1>9. CASE Rotate
  <2>1. Reconcile(WantedKeys(subs), IF active = NoActive THEN parked ELSE Parking(active.feed),
                  pinned)
    BY <1>9 DEF Rotate
  <2> QED BY <2>1, ReconcileOnlyCloses
<1>10. ASSUME NEW f \in Feed, ParkExpires(f) PROVE OnlyCloses
  BY <1>10 DEF ParkExpires, OnlyCloses
<1>11. CASE UNCHANGED vars
  BY <1>11 DEF vars, OnlyCloses
<1> QED BY <1>1, <1>2, <1>3, <1>4, <1>5, <1>6, <1>7, <1>8, <1>9, <1>10, <1>11 DEF Next

(* The stream that serves, as long as it is open, is a stream of the active     *)
(* feed.                                                                        *)
ActiveOnItsFeed ==
  active # NoActive => streams[active.stream] \in {active.feed, NoFeed}

LEMMA ActiveOnItsFeedStep ==
  ASSUME TypeOK, ActiveOnItsFeed, [Next]_vars
  PROVE  ActiveOnItsFeed'
<1>1. CASE Connects
  <2>1. NewStream \in Stream /\ flight.feed \in Feed
    BY <1>1 DEF Connects, NewStream, Free, TypeOK, Flight
  <2>2. active' = [feed |-> flight.feed, stream |-> NewStream]
        /\ streams'[NewStream] = flight.feed
    BY <1>1, <2>1 DEF Connects, Closed
  <2> QED BY <2>2 DEF ActiveOnItsFeed
<1>2. CASE ~Connects
  <2>1. OnlyCloses
    BY <1>2, OthersOnlyClose
  <2>2. active # NoActive => active.stream \in Stream
    BY DEF TypeOK
  <2> QED BY <2>1, <2>2 DEF OnlyCloses, ActiveOnItsFeed
<1> QED BY <1>1, <1>2

(* What a step does to the stream that served when another feed takes over. *)
Overlaps ==
  \A s \in Stream :
    /\ s = active.stream /\ active'.feed \notin {NoFeed, active.feed}
    /\ streams[s] # NoFeed
    => streams'[s] = streams[s]

LEMMA OverlapsStep ==
  ASSUME TypeOK, ActiveOnItsFeed, [Next]_vars
  PROVE  Overlaps
<1> SUFFICES ASSUME NEW s \in Stream, s = active.stream, streams[s] # NoFeed,
                    active'.feed \notin {NoFeed, active.feed}
             PROVE  streams'[s] = streams[s]
  BY DEF Overlaps
<1>1. Connects
  BY OthersOnlyClose DEF OnlyCloses, NoActive
<1>2. active # NoActive
  BY LiveAssumption DEF NoActive
<1>3. streams[s] = active.feed /\ flight.feed # active.feed
  BY <1>1, <1>2 DEF Connects, ActiveOnItsFeed
<1>4. s \notin Cut(flight.feed) /\ s # NewStream
  BY <1>1, <1>3 DEF Cut, Replaced, Connects, NewStream, Free
<1> QED BY <1>1, <1>4 DEF Connects, Closed

(* A switch to another feed leaves the stream that served open: make before     *)
(* break, for every set of feeds and every order of joins, pins and failures.   *)
THEOREM MakeBeforeBreakHolds == Spec => MakeBeforeBreak
<1>1. Init => ActiveOnItsFeed
  BY DEF Init, ActiveOnItsFeed
<1>2. TypeOK /\ ActiveOnItsFeed /\ [Next]_vars => ActiveOnItsFeed'
  BY ActiveOnItsFeedStep
<1>3. TypeOK /\ ActiveOnItsFeed /\ [Next]_vars => [Overlaps]_vars
  BY OverlapsStep
<1> QED BY <1>1, <1>2, <1>3, TypeIsCorrect, PTL DEF Spec, MakeBeforeBreak, Overlaps

--------------------------------------------------------------------------------
(* WatchMonitor: a chain that is wanted is held, and a handle has an owner.      *)

(* A handle in a slot is one of its handles.                                     *)
CountedHandles == \A x \in Slot : slot[x] = "handle" => handles[x] \in Nat \ {0}

(* A reserved chain is being acquired.                                           *)
ReservedIsAwaited ==
  \A k \in Key : slot[k] = "pending" => \E r \in Call : call[r].at = k

(* A chain that is wanted is held, or a reconcile still has to do with it, unless  *)
(* none has looked since.                                                        *)
Attended(k) ==
  \/ slot[k] \in {"pending", "handle"} \/ k \in spoiled \/ k \in unseen
  \/ \E r \in Call : call[r].at # Nowhere /\ k \in call[r].todo

OverIsReleased ==
  \A c \in Conv : ~conv[c].open =>
    conv[c].late \/ (conv[c].turn # "thinking" /\ slot[c] = "empty")

HandlesMatch == \A x \in Slot : handles[x] = (IF slot[x] = "handle" THEN 1 ELSE 0) \/ x \in spoiled

WatchInv ==
  /\ WatchTypeOK /\ CountedHandles /\ ReservedIsAwaited
  /\ \A k \in wanted : Attended(k)
  /\ HandlesMatch /\ OverIsReleased

CallState == [at : Key \cup {Nowhere}, todo : SUBSET Key]
SlotState == {"empty", "pending", "handle"}
ConvState == [open : BOOLEAN, turn : {"none", "thinking", "holding"}, late : BOOLEAN]

--------------------------------------------------------------------------------
(* What a reconcile leaves behind when it has visited todo, of which the slots are *)
(* s: every chain in it has a slot or is still to be visited, and no reservation   *)
(* has been lost but the one it was waiting for.                                  *)
LEMMA VisitIsSound ==
  ASSUME NEW cs \in [Call -> CallState], NEW r \in Call, NEW s \in [Slot -> SlotState],
         NEW todo \in SUBSET Key, Visit(cs, r, s, todo)
  PROVE  /\ call' \in [Call -> CallState]
         /\ slot' \in [Slot -> SlotState]
         /\ \A x \in Slot : slot'[x] # s[x] => s[x] = "empty" /\ slot'[x] = "pending" /\ x \in Key
         /\ \A q \in Call \ {r} : call'[q] = cs[q]
         /\ \A k \in Key : slot'[k] = "pending" /\ s[k] # "pending" => call'[r].at = k
         /\ \A k \in todo : slot'[k] # "empty" \/ (call'[r].at # Nowhere /\ k \in call'[r].todo)
<1>1. Key \subseteq Slot /\ Nowhere \notin Key
  BY WatchAssumption DEF Slot
<1>2. CASE \E k \in todo : \E passed \in SUBSET {l \in todo : s[l] # "empty"} :
             /\ s[k] = "empty"
             /\ slot' = [s EXCEPT ![k] = "pending"]
             /\ call' = [cs EXCEPT ![r] = [at |-> k, todo |-> (todo \ {k}) \ passed]]
  <2>1. PICK k \in todo, passed \in SUBSET {l \in todo : s[l] # "empty"} :
             /\ s[k] = "empty"
             /\ slot' = [s EXCEPT ![k] = "pending"]
             /\ call' = [cs EXCEPT ![r] = [at |-> k, todo |-> (todo \ {k}) \ passed]]
    BY <1>2
  <2>2. k \in Key /\ k \in Slot /\ [at |-> k, todo |-> (todo \ {k}) \ passed] \in CallState
    BY <1>1 DEF CallState
  <2>3. /\ call'[r].at = k /\ call'[r].todo = (todo \ {k}) \ passed
        /\ call' \in [Call -> CallState] /\ slot' \in [Slot -> SlotState]
        /\ slot'[k] = "pending" /\ \A x \in Slot : x # k => slot'[x] = s[x]
    BY <2>1, <2>2 DEF SlotState
  <2>4. \A q \in Call \ {r} : call'[q] = cs[q]
    BY <2>1
  <2>5. \A l \in todo : slot'[l] # "empty" \/ (call'[r].at # Nowhere /\ l \in call'[r].todo)
    <3> SUFFICES ASSUME NEW l \in todo, slot'[l] = "empty"
                 PROVE  l \in call'[r].todo /\ call'[r].at # Nowhere
      OBVIOUS
    <3>1. l # k /\ s[l] = "empty"
      BY <1>1, <2>3
    <3> QED
      BY <3>1, <2>2, <2>3, <1>1
  <2> QED
    BY <1>1, <2>1, <2>2, <2>3, <2>4, <2>5
<1>3. CASE (\A k \in todo : s[k] # "empty") /\ slot' = s /\ call' = [cs EXCEPT ![r] = Done]
  <2>1. Done \in CallState
    BY DEF Done, CallState
  <2> QED
    BY <1>1, <1>3, <2>1
<1> QED
  BY <1>2, <1>3 DEF Visit

LEMMA InitIsSound == WatchInit => WatchInv
<1> SUFFICES ASSUME WatchInit PROVE WatchInv
  OBVIOUS
<1>1. WatchTypeOK
  <2>1. NewConv \in ConvState /\ Done \in CallState
    BY DEF NewConv, ConvState, Done, CallState
  <2>2. 0 \in 0..MaxCrashes
    BY WatchAssumption
  <2> QED
    BY <2>1, <2>2 DEF WatchInit, WatchTypeOK, ConvState, CallState
<1>2. Key \subseteq Slot
  BY DEF Slot
<1>3. CountedHandles /\ ReservedIsAwaited /\ HandlesMatch /\ OverIsReleased
  BY <1>2 DEF WatchInit, CountedHandles, ReservedIsAwaited, HandlesMatch, OverIsReleased, NewConv
<1>4. wanted = {}
  BY DEF WatchInit
<1> QED
  BY <1>1, <1>3, <1>4 DEF WatchInv

(* Letting go of what is not wanted.                                             *)
LEMMA WithoutIsSound ==
  ASSUME WatchInv, NEW X \in SUBSET Slot
  PROVE  /\ Without(X) \in [Slot -> SlotState]
         /\ HandlesWithout(X) \in [Slot -> Nat]
         /\ \A x \in Slot : Without(X)[x] = IF x \in X THEN "empty" ELSE slot[x]
         /\ \A x \in Slot : Without(X)[x] = "handle" => HandlesWithout(X)[x] # 0
         /\ \A x \in Slot : HandlesWithout(X)[x] = (IF Without(X)[x] = "handle" THEN 1 ELSE 0) \/ x \in spoiled
<1>1. slot \in [Slot -> SlotState] /\ handles \in [Slot -> Nat] /\ CountedHandles /\ HandlesMatch
  BY DEF WatchInv, WatchTypeOK, SlotState
<1> QED
  BY <1>1 DEF Without, HandlesWithout, CountedHandles, HandlesMatch, SlotState

LEMMA ArrivedIsSound ==
  ASSUME WatchInv, NEW x \in Slot
  PROVE  /\ Arrived(x).s \in [Slot -> SlotState]
         /\ Arrived(x).n \in [Slot -> Nat]
         /\ \A y \in Slot : Arrived(x).s[y] # slot[y] => y = x /\ slot[y] = "pending"
         /\ Arrived(x).s[x] # "pending"
         /\ \A y \in Slot : slot[y] # "empty" => Arrived(x).s[y] # "empty"
         /\ \A y \in Slot : Arrived(x).s[y] = "handle" => Arrived(x).n[y] # 0
         /\ \A y \in Slot : Arrived(x).n[y] = (IF Arrived(x).s[y] = "handle" THEN 1 ELSE 0) \/ y \in spoiled
<1>1. slot \in [Slot -> SlotState] /\ handles \in [Slot -> Nat] /\ CountedHandles /\ HandlesMatch
  BY DEF WatchInv, WatchTypeOK, SlotState
<1>2. CASE slot[x] = "pending"
  <2>1. Arrived(x) = [s |-> [slot EXCEPT ![x] = "handle"], n |-> [handles EXCEPT ![x] = @ + 1]]
    BY <1>2 DEF Arrived
  <2> QED
    BY <1>1, <1>2, <2>1 DEF CountedHandles, HandlesMatch, SlotState
<1>3. CASE slot[x] # "pending"
  <2>1. Arrived(x) = [s |-> slot, n |-> handles]
    BY <1>3 DEF Arrived
  <2> QED
    BY <1>1, <1>3, <2>1 DEF CountedHandles, HandlesMatch, SlotState
<1> QED
  BY <1>2, <1>3

LEMMA VisitKeeps ==
  ASSUME NEW cs \in [Call -> CallState], NEW r \in Call, NEW s \in [Slot -> SlotState],
         NEW todo \in SUBSET Key, Visit(cs, r, s, todo),
         wanted' \subseteq Key, disk' \subseteq Key, writing' \in BOOLEAN,
         loggedIn' \in BOOLEAN, started' \in BOOLEAN, unseen' \subseteq Key,
         spoiled' \subseteq Slot, conv' \in [Conv -> ConvState], crashes' \in 0..MaxCrashes,
         handles' \in [Slot -> Nat],
         \A x \in Slot : s[x] = "handle" => handles'[x] # 0,
         \A x \in Slot : handles'[x] = (IF s[x] = "handle" THEN 1 ELSE 0) \/ x \in spoiled',
         \A k \in Key : s[k] = "pending" => \E q \in Call \ {r} : cs[q].at = k,
         \A k \in wanted' : \/ s[k] # "empty" \/ k \in spoiled' \/ k \in todo \/ k \in unseen'
                            \/ \E q \in Call \ {r} : cs[q].at # Nowhere /\ k \in cs[q].todo,
         \A c \in Conv : ~conv'[c].open =>
           conv'[c].late \/ (conv'[c].turn # "thinking" /\ s[c] = "empty")
  PROVE  WatchInv'
<1>1. /\ call' \in [Call -> CallState]
      /\ slot' \in [Slot -> SlotState]
      /\ \A x \in Slot : slot'[x] # s[x] => s[x] = "empty" /\ slot'[x] = "pending" /\ x \in Key
      /\ \A q \in Call \ {r} : call'[q] = cs[q]
      /\ \A k \in Key : slot'[k] = "pending" /\ s[k] # "pending" => call'[r].at = k
      /\ \A k \in todo : slot'[k] # "empty" \/ (call'[r].at # Nowhere /\ k \in call'[r].todo)
  BY VisitIsSound
<1>2. Key \subseteq Slot /\ Conv \subseteq Slot /\ Key \cap Conv = {}
  BY WatchAssumption DEF Slot
<1>3. WatchTypeOK'
  BY <1>1 DEF WatchTypeOK, CallState, SlotState, ConvState
<1>4. CountedHandles' /\ HandlesMatch'
  BY <1>1 DEF CountedHandles, HandlesMatch
<1>5. ReservedIsAwaited'
  BY <1>1, <1>2 DEF ReservedIsAwaited
<1>6. ASSUME NEW k \in wanted' PROVE Attended(k)'
  <2>1. CASE s[k] # "empty"
    BY <2>1, <1>1, <1>2 DEF Attended, SlotState
  <2>2. CASE k \in spoiled' \/ k \in unseen'
    BY <2>2 DEF Attended
  <2>3. CASE k \in todo
    BY <2>3, <1>1, <1>2 DEF Attended, SlotState
  <2>4. CASE \E q \in Call \ {r} : cs[q].at # Nowhere /\ k \in cs[q].todo
    BY <2>4, <1>1 DEF Attended
  <2> QED
    BY <2>1, <2>2, <2>3, <2>4
<1>7. OverIsReleased'
  BY <1>1, <1>2 DEF OverIsReleased
<1> QED
  BY <1>3, <1>4, <1>5, <1>6, <1>7 DEF WatchInv

LEMMA Typed ==
  ASSUME WatchInv
  PROVE  /\ call \in [Call -> CallState] /\ slot \in [Slot -> SlotState]
         /\ handles \in [Slot -> Nat] /\ conv \in [Conv -> ConvState]
         /\ wanted \subseteq Key /\ disk \subseteq Key /\ spoiled \subseteq Slot
         /\ crashes \in 0..MaxCrashes /\ writing \in BOOLEAN
         /\ loggedIn \in BOOLEAN /\ started \in BOOLEAN /\ unseen \subseteq Key
         /\ Key \subseteq Slot /\ Conv \subseteq Slot /\ Key \cap Conv = {} /\ Nowhere \notin Key
  BY WatchAssumption DEF WatchInv, WatchTypeOK, CallState, SlotState, ConvState, Slot

--------------------------------------------------------------------------------
(* A reconcile starts for w, which is what is wanted from now on; what else the    *)
(* step does leaves the slots alone.                                             *)
LEMMA ReconcileStarts ==
  ASSUME WatchInv, NEW r \in Call, NEW w \in SUBSET Key, reconcileChains(r, w), wanted' = w,
         writing' \in BOOLEAN, loggedIn' \in BOOLEAN, started' \in BOOLEAN,
         UNCHANGED <<disk, spoiled, crashes>>, conv' \in [Conv -> ConvState],
         \A c \in Conv : conv'[c].open = conv[c].open /\ conv'[c].late = conv[c].late,
         \A c \in Conv : conv'[c].turn = conv[c].turn \/ (conv[c].turn = "thinking" /\ conv'[c].turn = "none")
  PROVE  WatchInv'
<1>2. /\ call[r] = Done /\ Visit(call, r, Without(Key \ w), w)
      /\ handles' = HandlesWithout(Key \ w) /\ unseen' = {}
  BY DEF reconcileChains
<1>3. Key \ w \in SUBSET Slot
  BY Typed
<1> DEFINE s == Without(Key \ w)
<1>4. /\ s \in [Slot -> SlotState]
      /\ HandlesWithout(Key \ w) \in [Slot -> Nat]
      /\ \A x \in Slot : s[x] = IF x \in Key \ w THEN "empty" ELSE slot[x]
      /\ \A x \in Slot : s[x] = "handle" => HandlesWithout(Key \ w)[x] # 0
      /\ \A x \in Slot : HandlesWithout(Key \ w)[x] = (IF s[x] = "handle" THEN 1 ELSE 0) \/ x \in spoiled
  BY <1>3, WithoutIsSound
<1> HIDE DEF s
<1>5. \A k \in Key : s[k] = "pending" => \E q \in Call \ {r} : call[q].at = k
  <2> SUFFICES ASSUME NEW k \in Key, s[k] = "pending"
               PROVE  \E q \in Call \ {r} : call[q].at = k
    OBVIOUS
  <2>1. slot[k] = "pending"
    BY <1>4, Typed
  <2>2. PICK q \in Call : call[q].at = k
    BY <2>1 DEF WatchInv, ReservedIsAwaited
  <2>3. q # r
    BY <1>2, <2>2, Typed DEF Done
  <2> QED
    BY <2>2, <2>3
<1>6. \A c \in Conv : ~conv'[c].open => conv'[c].late \/ (conv'[c].turn # "thinking" /\ s[c] = "empty")
  BY <1>4, Typed DEF WatchInv, OverIsReleased
<1>7. Visit(call, r, s, w)
  BY <1>2 DEF s
<1>8. \A k \in wanted' : \/ s[k] # "empty" \/ k \in spoiled' \/ k \in w \/ k \in unseen'
                         \/ \E q \in Call \ {r} : call[q].at # Nowhere /\ k \in call[q].todo
  OBVIOUS
<1>9. /\ handles' \in [Slot -> Nat]
      /\ \A x \in Slot : s[x] = "handle" => handles'[x] # 0
      /\ \A x \in Slot : handles'[x] = (IF s[x] = "handle" THEN 1 ELSE 0) \/ x \in spoiled'
      /\ wanted' \subseteq Key /\ disk' \subseteq Key /\ unseen' \subseteq Key
      /\ spoiled' \subseteq Slot /\ crashes' \in 0..MaxCrashes
  BY <1>2, <1>4, Typed
<1>10. /\ call \in [Call -> CallState] /\ s \in [Slot -> SlotState] /\ w \in SUBSET Key
       /\ writing' \in BOOLEAN /\ loggedIn' \in BOOLEAN /\ started' \in BOOLEAN
       /\ conv' \in [Conv -> ConvState]
  BY <1>4, Typed
<1> QED
  BY <1>5, <1>6, <1>7, <1>8, <1>9, <1>10, VisitKeeps

LEMMA RouteChangesStep == ASSUME WatchInv, NEW r \in Call, RouteChanges(r) PROVE WatchInv'
<1>1. PICK w \in AfterChange : wanted' = w /\ reconcileChains(r, w)
  BY DEF RouteChanges, Change
<1>2. wanted \subseteq Key
  BY Typed
<1>3. w \in SUBSET Key
  BY <1>2 DEF AfterChange
<1>4. writing' = TRUE /\ UNCHANGED <<disk, loggedIn, started, spoiled, conv, crashes>>
  BY DEF RouteChanges, Change, broker
<1>5. /\ writing' \in BOOLEAN /\ loggedIn' \in BOOLEAN /\ started' \in BOOLEAN
      /\ conv' \in [Conv -> ConvState]
  BY <1>4, Typed
<1> QED
  BY <1>1, <1>3, <1>4, <1>5, ReconcileStarts

LEMMA TurnChangesStep ==
  ASSUME WatchInv, NEW c \in Conv, NEW r \in Call, TurnChanges(c, r)
  PROVE  WatchInv'
<1>1. PICK w \in AfterChange : wanted' = w /\ reconcileChains(r, w)
  BY DEF TurnChanges, Change
<1>2. wanted \subseteq Key
  BY Typed
<1>3. w \in SUBSET Key
  BY <1>2 DEF AfterChange
<1>4. /\ writing' = TRUE /\ UNCHANGED <<disk, loggedIn, started, spoiled, crashes>>
      /\ conv[c].turn = "thinking" /\ conv' = [conv EXCEPT ![c].turn = "none"]
  BY DEF TurnChanges, Change, broker
<1>5. /\ conv' \in [Conv -> ConvState]
      /\ \A d \in Conv : conv'[d].open = conv[d].open /\ conv'[d].late = conv[d].late
      /\ \A d \in Conv : conv'[d].turn = conv[d].turn \/ (conv[d].turn = "thinking" /\ conv'[d].turn = "none")
  BY <1>4, Typed DEF ConvState
<1>6. writing' \in BOOLEAN /\ loggedIn' \in BOOLEAN /\ started' \in BOOLEAN
  BY <1>4, Typed
<1> QED
  BY <1>1, <1>3, <1>4, <1>5, <1>6, ReconcileStarts

LEMMA RouteChangesUnseenStep == ASSUME WatchInv, RouteChangesUnseen PROVE WatchInv'
<1>1. /\ wanted' \in AfterChange
      /\ unseen' = (unseen \cup (wanted' \ wanted)) \cap wanted' /\ writing' = TRUE
      /\ UNCHANGED <<disk, loggedIn, started, slot, handles, spoiled, call, conv, crashes>>
  BY DEF RouteChangesUnseen, broker
<1>2. wanted' \subseteq Key /\ unseen' \subseteq Key
  BY <1>1, Typed DEF AfterChange
<1>3. WatchTypeOK'
  BY <1>1, <1>2 DEF WatchInv, WatchTypeOK
<1>4. \A k \in wanted' : Attended(k)'
  BY <1>1 DEF WatchInv, Attended
<1> QED
  BY <1>1, <1>3, <1>4 DEF WatchInv, CountedHandles, ReservedIsAwaited, HandlesMatch, OverIsReleased

LEMMA StartAssistantStep == ASSUME WatchInv, NEW r \in Call, startAssistant(r) PROVE WatchInv'
<1>1. started' = TRUE /\ UNCHANGED <<wanted, disk, writing, loggedIn, spoiled, conv, crashes>>
  BY DEF startAssistant
<1>2. CASE reconcileChains(r, wanted)
  BY <1>1, <1>2, Typed, ReconcileStarts
<1>3. CASE UNCHANGED <<slot, handles, unseen, call>>
  BY <1>1, <1>3 DEF WatchInv, WatchTypeOK, CountedHandles, ReservedIsAwaited, Attended, HandlesMatch,
     OverIsReleased
<1> QED
  BY <1>2, <1>3 DEF startAssistant

LEMMA ReconciledStep ==
  ASSUME WatchInv, NEW r \in Call, Reconciled(r)
  PROVE  WatchInv'
<1> DEFINE x == call[r].at
           s == Arrived(x).s
<1>1. /\ x # Nowhere /\ Visit(call, r, s, call[r].todo)
      /\ handles' = Arrived(x).n
      /\ UNCHANGED <<wanted, disk, writing, loggedIn, started, spoiled, unseen, conv, crashes>>
  BY DEF Reconciled, broker
<1>2. x \in Key /\ x \in Slot /\ call[r].todo \in SUBSET Key
  BY <1>1, Typed DEF CallState
<1>3. /\ s \in [Slot -> SlotState]
      /\ Arrived(x).n \in [Slot -> Nat]
      /\ \A y \in Slot : s[y] # slot[y] => y = x /\ slot[y] = "pending"
      /\ s[x] # "pending"
      /\ \A y \in Slot : slot[y] # "empty" => s[y] # "empty"
      /\ \A y \in Slot : s[y] = "handle" => Arrived(x).n[y] # 0
      /\ \A y \in Slot : Arrived(x).n[y] = (IF s[y] = "handle" THEN 1 ELSE 0) \/ y \in spoiled
  BY <1>2, ArrivedIsSound
<1> HIDE DEF s
<1>4. \A k \in Key : s[k] = "pending" => \E q \in Call \ {r} : call[q].at = k
  BY <1>3, Typed DEF WatchInv, ReservedIsAwaited
<1>5. ASSUME NEW k \in wanted
      PROVE  \/ s[k] # "empty" \/ k \in spoiled \/ k \in call[r].todo \/ k \in unseen
             \/ \E q \in Call \ {r} : call[q].at # Nowhere /\ k \in call[q].todo
  BY <1>3, Typed DEF WatchInv, Attended
<1>6. \A c \in Conv : ~conv[c].open => conv[c].late \/ (conv[c].turn # "thinking" /\ s[c] = "empty")
  BY <1>2, <1>3, Typed DEF WatchInv, OverIsReleased
<1> QED
  BY <1>1, <1>2, <1>3, <1>4, <1>5, <1>6, Typed, VisitKeeps

LEMMA ReconcileFailsStep ==
  ASSUME WatchInv, NEW r \in Call, ReconcileFails(r)
  PROVE  WatchInv'
<1> DEFINE x == call[r].at
           s == [slot EXCEPT ![x] = "empty"]
<1>1. /\ x # Nowhere /\ Visit(call, r, s, call[r].todo)
      /\ spoiled' = spoiled \cup {x}
      /\ UNCHANGED <<wanted, disk, writing, loggedIn, started, handles, unseen, conv, crashes>>
  BY DEF ReconcileFails, broker
<1>2. x \in Key /\ x \in Slot /\ call[r].todo \in SUBSET Key
  BY <1>1, Typed DEF CallState
<1>3. /\ s \in [Slot -> SlotState] /\ s[x] = "empty"
      /\ \A y \in Slot : y # x => s[y] = slot[y]
  BY <1>2, Typed DEF SlotState
<1> HIDE DEF s
<1>4. \A k \in Key : s[k] = "pending" => \E q \in Call \ {r} : call[q].at = k
  BY <1>3, Typed DEF WatchInv, ReservedIsAwaited
<1>5. ASSUME NEW k \in wanted
      PROVE  \/ s[k] # "empty" \/ k \in spoiled' \/ k \in call[r].todo \/ k \in unseen
             \/ \E q \in Call \ {r} : call[q].at # Nowhere /\ k \in call[q].todo
  BY <1>1, <1>3, Typed DEF WatchInv, Attended
<1>6. \A c \in Conv : ~conv[c].open => conv[c].late \/ (conv[c].turn # "thinking" /\ s[c] = "empty")
  BY <1>2, <1>3, Typed DEF WatchInv, OverIsReleased
<1>7. /\ \A y \in Slot : s[y] = "handle" => handles'[y] # 0
      /\ \A y \in Slot : handles'[y] = (IF s[y] = "handle" THEN 1 ELSE 0) \/ y \in spoiled'
  BY <1>1, <1>3, Typed DEF WatchInv, CountedHandles, HandlesMatch
<1>8. spoiled' \subseteq Slot /\ handles' \in [Slot -> Nat]
  BY <1>1, <1>2, Typed
<1> QED
  BY <1>1, <1>2, <1>3, <1>4, <1>5, <1>6, <1>7, <1>8, Typed, VisitKeeps

LEMMA RestartStep == ASSUME WatchInv, Restart PROVE WatchInv'
<1>1. /\ crashes < MaxCrashes /\ crashes' = crashes + 1
      /\ wanted' = disk /\ unseen' = disk /\ writing' = FALSE
      /\ loggedIn' = FALSE /\ started' = FALSE
      /\ slot' = [y \in Slot |-> "empty"] /\ handles' = [y \in Slot |-> 0] /\ spoiled' = {}
      /\ call' = [q \in Call |-> Done] /\ conv' = [c \in Conv |-> NewConv] /\ disk' = disk
  BY DEF Restart
<1>2. Done \in CallState /\ NewConv \in ConvState /\ NewConv.open /\ crashes' \in 0..MaxCrashes
  BY <1>1, Typed, WatchAssumption DEF Done, CallState, NewConv, ConvState
<1>3. WatchTypeOK'
  BY <1>1, <1>2, Typed DEF WatchTypeOK, CallState, SlotState, ConvState
<1>4. CountedHandles' /\ ReservedIsAwaited' /\ HandlesMatch'
  BY <1>1, Typed DEF CountedHandles, ReservedIsAwaited, HandlesMatch
<1>5. OverIsReleased'
  BY <1>1, <1>2 DEF OverIsReleased
<1>6. \A k \in wanted' : Attended(k)'
  BY <1>1 DEF Attended
<1> QED
  BY <1>3, <1>4, <1>5, <1>6 DEF WatchInv

(* A conversation's own steps leave the chains' slots and the reconciles alone.   *)
LEMMA ConversationStep ==
  ASSUME WatchInv, NEW c \in Conv,
         UNCHANGED <<wanted, disk, writing, loggedIn, started, unseen, call, crashes>>,
         conv' \in [Conv -> ConvState], slot' \in [Slot -> SlotState],
         handles' \in [Slot -> Nat], spoiled' \in SUBSET Slot,
         spoiled \subseteq spoiled',
         \A x \in Slot : x # c => slot'[x] = slot[x] /\ handles'[x] = handles[x],
         slot'[c] = "handle" => handles'[c] # 0,
         handles'[c] = (IF slot'[c] = "handle" THEN 1 ELSE 0) \/ c \in spoiled',
         \A d \in Conv : d # c => conv'[d] = conv[d],
         ~conv'[c].open => conv'[c].late \/ (conv'[c].turn # "thinking" /\ slot'[c] = "empty")
  PROVE  WatchInv'
<1>1. c \notin Key
  BY Typed
<1>2. WatchTypeOK'
  BY Typed DEF WatchInv, WatchTypeOK, CallState, SlotState, ConvState
<1>3. CountedHandles' /\ HandlesMatch'
  BY DEF WatchInv, CountedHandles, HandlesMatch
<1>4. ReservedIsAwaited'
  BY <1>1, Typed DEF WatchInv, ReservedIsAwaited
<1>5. \A k \in wanted' : Attended(k)'
  BY <1>1, Typed DEF WatchInv, Attended
<1>6. OverIsReleased'
  BY Typed DEF WatchInv, OverIsReleased
<1> QED
  BY <1>2, <1>3, <1>4, <1>5, <1>6 DEF WatchInv

LEMMA ReleaseIsSound ==
  ASSUME WatchInv, NEW c \in Conv
  PROVE  /\ Without({c}) \in [Slot -> SlotState] /\ HandlesWithout({c}) \in [Slot -> Nat]
         /\ Without({c})[c] = "handle" => HandlesWithout({c})[c] # 0
         /\ HandlesWithout({c})[c] = (IF Without({c})[c] = "handle" THEN 1 ELSE 0) \/ c \in spoiled
<1>1. {c} \in SUBSET Slot /\ c \in Slot
  BY Typed
<1> QED
  BY <1>1, WithoutIsSound

LEMMA AskStep == ASSUME WatchInv, NEW c \in Conv, Ask(c) PROVE WatchInv'
<1>1. /\ conv[c].open /\ conv' = [conv EXCEPT ![c].turn = "thinking"]
      /\ UNCHANGED <<wanted, disk, writing, loggedIn, started, slot, handles, spoiled, unseen, call, crashes>>
  BY DEF Ask, broker
<1>2. conv' \in [Conv -> ConvState] /\ conv'[c].open /\ \A d \in Conv : d # c => conv'[d] = conv[d]
  BY <1>1, Typed DEF ConvState
<1> QED
  BY <1>1, <1>2, Typed, ConversationStep DEF WatchInv, CountedHandles, HandlesMatch

LEMMA HoldChainStep == ASSUME WatchInv, NEW c \in Conv, holdChain(c) PROVE WatchInv'
<1>1. /\ conv[c].turn = "thinking" /\ slot[c] = "empty"
      /\ slot' = [slot EXCEPT ![c] = "pending"] /\ conv' = [conv EXCEPT ![c].turn = "holding"]
      /\ UNCHANGED <<wanted, disk, writing, loggedIn, started, handles, spoiled, unseen, call, crashes>>
  BY DEF holdChain, broker
<1>2. /\ conv' \in [Conv -> ConvState] /\ conv'[c].open = conv[c].open /\ conv'[c].late = conv[c].late
      /\ \A d \in Conv : d # c => conv'[d] = conv[d]
  BY <1>1, Typed DEF ConvState
<1>3. ~conv[c].open => conv[c].late
  BY <1>1 DEF WatchInv, OverIsReleased
<1>4. slot' \in [Slot -> SlotState] /\ slot'[c] = "pending" /\ \A x \in Slot : x # c => slot'[x] = slot[x]
  BY <1>1, Typed DEF SlotState
<1>5. handles[c] = 0 \/ c \in spoiled
  BY <1>1, Typed DEF WatchInv, HandlesMatch
<1> QED
  BY <1>1, <1>2, <1>3, <1>4, <1>5, Typed, ConversationStep

LEMMA AnsweredStep == ASSUME WatchInv, NEW c \in Conv, Answered(c) PROVE WatchInv'
<1>1. /\ conv[c].turn = "thinking" /\ conv' = [conv EXCEPT ![c].turn = "none"]
      /\ releaseHeld(c) \/ UNCHANGED <<slot, handles>>
      /\ UNCHANGED <<wanted, disk, writing, loggedIn, started, spoiled, unseen, call, crashes>>
  BY DEF Answered, broker
<1>2. /\ conv' \in [Conv -> ConvState] /\ conv'[c].open = conv[c].open /\ conv'[c].late = conv[c].late
      /\ \A d \in Conv : d # c => conv'[d] = conv[d]
  BY <1>1, Typed DEF ConvState
<1>3. ~conv[c].open => conv[c].late
  BY <1>1 DEF WatchInv, OverIsReleased
<1>4. CASE releaseHeld(c)
  <2>1. slot' = Without({c}) /\ handles' = HandlesWithout({c})
    BY <1>4 DEF releaseHeld
  <2>2. \A x \in Slot : x # c => slot'[x] = slot[x] /\ handles'[x] = handles[x]
    BY <2>1 DEF Without, HandlesWithout
  <2>3. /\ slot' \in [Slot -> SlotState] /\ handles' \in [Slot -> Nat]
        /\ slot'[c] = "handle" => handles'[c] # 0
        /\ handles'[c] = (IF slot'[c] = "handle" THEN 1 ELSE 0) \/ c \in spoiled'
    BY <1>1, <2>1, ReleaseIsSound
  <2> QED
    BY <1>1, <1>2, <1>3, <2>2, <2>3, Typed, ConversationStep
<1>5. CASE UNCHANGED <<slot, handles>>
  BY <1>1, <1>2, <1>3, <1>5, Typed, ConversationStep DEF WatchInv, CountedHandles, HandlesMatch
<1> QED
  BY <1>1, <1>4, <1>5

LEMMA HeldStep == ASSUME WatchInv, NEW c \in Conv, Held(c) PROVE WatchInv'
<1>1. /\ conv[c].turn = "holding" /\ conv' = [conv EXCEPT ![c].turn = "none"]
      /\ \/ slot' = Arrived(c).s /\ handles' = Arrived(c).n /\ UNCHANGED spoiled
         \/ /\ spoiled' = spoiled \cup {c}
            /\ slot' = [slot EXCEPT ![c] = "empty"] /\ UNCHANGED handles
      /\ UNCHANGED <<wanted, disk, writing, loggedIn, started, unseen, call, crashes>>
  BY DEF Held, broker
<1>2. /\ conv' \in [Conv -> ConvState] /\ conv'[c].open = conv[c].open /\ conv'[c].late = conv[c].late
      /\ conv'[c].turn = "none"
      /\ \A d \in Conv : d # c => conv'[d] = conv[d]
  BY <1>1, Typed DEF ConvState
<1>3. ~conv[c].open => conv[c].late \/ slot[c] = "empty"
  BY <1>1 DEF WatchInv, OverIsReleased
<1>4. CASE slot' = Arrived(c).s /\ handles' = Arrived(c).n /\ UNCHANGED spoiled
  <2>1. \A x \in Slot : x # c => slot'[x] = slot[x] /\ handles'[x] = handles[x]
    BY <1>4, Typed DEF Arrived
  <2>2. slot[c] = "empty" => slot'[c] = "empty"
    BY <1>4 DEF Arrived
  <2>3. c \in Slot
    BY Typed
  <2>4. /\ slot' \in [Slot -> SlotState] /\ handles' \in [Slot -> Nat]
        /\ slot'[c] = "handle" => handles'[c] # 0
        /\ handles'[c] = (IF slot'[c] = "handle" THEN 1 ELSE 0) \/ c \in spoiled'
    BY <1>4, <2>3, ArrivedIsSound
  <2>5. ~conv'[c].open => conv'[c].late \/ (conv'[c].turn # "thinking" /\ slot'[c] = "empty")
    BY <1>2, <1>3, <2>2
  <2> QED
    BY <1>1, <1>2, <1>4, <2>1, <2>4, <2>5, Typed, ConversationStep
<1>5. CASE /\ spoiled' = spoiled \cup {c}
           /\ slot' = [slot EXCEPT ![c] = "empty"] /\ UNCHANGED handles
  <2>1. /\ slot' \in [Slot -> SlotState] /\ slot'[c] = "empty"
        /\ \A x \in Slot : x # c => slot'[x] = slot[x]
        /\ spoiled' \in SUBSET Slot /\ c \in spoiled' /\ spoiled \subseteq spoiled'
    BY <1>5, Typed DEF SlotState
  <2> QED
    BY <1>1, <1>2, <1>5, <2>1, Typed, ConversationStep
<1> QED
  BY <1>1, <1>4, <1>5

LEMMA EndConversationStep == ASSUME WatchInv, NEW c \in Conv, endConversation(c) PROVE WatchInv'
<1>1. /\ conv' = [conv EXCEPT ![c].open = FALSE, ![c].late = (conv[c].turn = "thinking")]
      /\ slot' = Without({c}) /\ handles' = HandlesWithout({c})
      /\ UNCHANGED <<wanted, disk, writing, loggedIn, started, spoiled, unseen, call, crashes>>
  BY DEF endConversation, releaseHeld, broker
<1>2. /\ conv' \in [Conv -> ConvState]
      /\ conv'[c].late \/ conv'[c].turn # "thinking"
      /\ \A d \in Conv : d # c => conv'[d] = conv[d]
  <2>1. conv[c] \in ConvState
    BY Typed
  <2> DEFINE over == [conv[c] EXCEPT !.open = FALSE, !.late = (conv[c].turn = "thinking")]
  <2>2. over.turn = conv[c].turn /\ over.late = (conv[c].turn = "thinking")
    BY <2>1 DEF ConvState
  <2>3. over \in ConvState
    BY <2>1 DEF ConvState
  <2>4. conv' = [conv EXCEPT ![c] = over]
    BY <1>1
  <2>5. conv'[c] = over
    BY <2>4, Typed
  <2> HIDE DEF over
  <2>6. over.late \/ over.turn # "thinking"
    BY <2>2
  <2> QED
    BY <2>3, <2>4, <2>5, <2>6, Typed
<1>3. \A x \in Slot : x # c => slot'[x] = slot[x] /\ handles'[x] = handles[x]
  BY <1>1 DEF Without, HandlesWithout
<1>4. slot'[c] = "empty"
  BY <1>1, Typed DEF Without
<1> QED
  <2>1. /\ slot' \in [Slot -> SlotState] /\ handles' \in [Slot -> Nat]
        /\ slot'[c] = "handle" => handles'[c] # 0
        /\ handles'[c] = (IF slot'[c] = "handle" THEN 1 ELSE 0) \/ c \in spoiled'
    BY <1>1, ReleaseIsSound
  <2> QED
    BY <1>1, <1>2, <1>3, <1>4, <2>1, Typed, ConversationStep

LEMMA StepIsSound == WatchInv /\ [WatchNext]_watchVars => WatchInv'
<1> SUFFICES ASSUME WatchInv, [WatchNext]_watchVars PROVE WatchInv'
  OBVIOUS
<1>1. CASE flush
  <2>1. /\ writing' = FALSE /\ disk' \in {wanted, disk}
        /\ UNCHANGED <<wanted, loggedIn, started, slot, handles, spoiled, unseen, call, conv, crashes>>
    BY <1>1 DEF flush, broker
  <2> QED
    BY <2>1 DEF WatchInv, WatchTypeOK, CountedHandles, ReservedIsAwaited, Attended, HandlesMatch, OverIsReleased
<1>2. CASE Session
  <2>1. /\ loggedIn' = ~loggedIn
        /\ UNCHANGED <<wanted, disk, writing, started, slot, handles, spoiled, unseen, call, conv, crashes>>
    BY <1>2 DEF Session
  <2> QED
    BY <2>1 DEF WatchInv, WatchTypeOK, CountedHandles, ReservedIsAwaited, Attended, HandlesMatch, OverIsReleased
<1>3. CASE UNCHANGED watchVars
  BY <1>3 DEF watchVars, WatchInv, WatchTypeOK, CountedHandles, ReservedIsAwaited, Attended, HandlesMatch,
     OverIsReleased
<1> QED
  BY <1>1, <1>2, <1>3, RouteChangesStep, TurnChangesStep, RouteChangesUnseenStep, StartAssistantStep,
     ReconciledStep, ReconcileFailsStep, RestartStep, AskStep, HoldChainStep, AnsweredStep, HeldStep,
     EndConversationStep DEF WatchNext

THEOREM WatchInvHolds == WatchSpec => []WatchInv
  BY InitIsSound, StepIsSound, PTL DEF WatchSpec

THEOREM WantedIsHeldHolds == WatchSpec => []WantedIsHeld
<1>1. WatchInv => WantedIsHeld
  <2> SUFFICES ASSUME WatchInv, \A r \in Call : call[r] = Done, NEW k \in wanted
               PROVE  slot[k] = "handle" \/ k \in spoiled \/ k \in unseen
    BY DEF WantedIsHeld
  <2>1. \A r \in Call : call[r].at = Nowhere
    BY DEF Done
  <2>2. slot[k] # "pending"
    BY <2>1, Typed DEF WatchInv, ReservedIsAwaited
  <2> QED
    BY <2>1, <2>2 DEF WatchInv, Attended
<1> QED
  BY <1>1, WatchInvHolds, PTL

THEOREM EveryHandleIsOwnedHolds == WatchSpec => []EveryHandleIsOwned
<1>1. WatchInv => EveryHandleIsOwned
  BY DEF WatchInv, EveryHandleIsOwned, HandlesMatch, OverIsReleased
<1> QED
  BY <1>1, WatchInvHolds, PTL

--------------------------------------------------------------------------------
(* StraddleHistory: a session continued is in order, and with warm lead-ins it is *)
(* the one a full walk computes.  A walk is a function defined by recursion over  *)
(* the bars: what it does is proved by induction over a set of them.              *)

(* Of the members of a set of naturals one is the least. *)
LEMMA LeastNatural ==
  ASSUME NEW T \in SUBSET Nat, T # {}
  PROVE  \E n \in T : \A m \in T : n <= m
<1>1. \E n \in T : \A m \in T : ~(<<m, n>> \in OpToRel(<, Nat))
  BY NatLessThanWellFounded, WFMin
<1>2. \A m, n \in Nat : <<m, n>> \in OpToRel(<, Nat) <=> m < n
  BY DEF OpToRel
<1>3. \E n \in T : \A m \in T : ~(m < n)
  BY <1>1, <1>2, Zenon
<1> QED
  BY <1>3

(* Induction over the integers from one on, for a set of them. *)
LEMMA FromThereOn ==
  ASSUME NEW a \in Int, NEW T, a \in T, \A n \in Int : n >= a /\ n \in T => n + 1 \in T
  PROVE  \A n \in Int : n >= a => n \in T
<1> SUFFICES ASSUME NEW b \in Int, b >= a, b \notin T PROVE FALSE
  OBVIOUS
<1> DEFINE Miss == {n \in Nat : a + n \notin T}
<1>1. Miss # {}
  <2>1. b - a \in Nat /\ a + (b - a) = b
    OBVIOUS
  <2> QED BY <2>1
<1>2. PICK n \in Miss : \A m \in Miss : n <= m
  BY <1>1, LeastNatural
<1>3. n # 0
  BY <1>2
<1>4. n - 1 \in Nat /\ ~(n <= n - 1)
  BY <1>2, <1>3
<1>5. n - 1 \notin Miss
  BY <1>2, <1>4
<1>6. a + (n - 1) \in T /\ a + (n - 1) \in Int /\ a + (n - 1) >= a /\ (a + (n - 1)) + 1 = a + n
  BY <1>2, <1>4, <1>5
<1> QED
  BY <1>2, <1>6

--------------------------------------------------------------------------------
(* StraddleHistory's walks: the function whose last value one is, bar by bar. *)
Started(r) == [quote |-> Unread, bars |-> <<>>, rolls |-> <<>>, resume |-> r]

IsWalk(k, l, feed, f, from, to, r) ==
  f = [t \in from - 1 .. to |-> IF t < from THEN Started(r) ELSE Walked(k, l, f[t - 1], t, feed[t])]

(* There is a function with a walk's values bar by bar. *)
LEMMA WalkExists ==
  ASSUME NEW k, NEW l, NEW feed, NEW from \in Int, NEW r
  PROVE  \A to \in Int : to >= from - 1 => \E f : IsWalk(k, l, feed, f, from, to, r)
<1> DEFINE T == {n \in Int : \E f : IsWalk(k, l, feed, f, from, n, r)}
<1>1. from - 1 \in T
  <2>1. IsWalk(k, l, feed, [t \in from - 1 .. from - 1 |-> Started(r)], from, from - 1, r)
    BY DEF IsWalk
  <2> QED BY <2>1
<1>2. ASSUME NEW n \in Int, n >= from - 1, n \in T PROVE n + 1 \in T
  <2>1. PICK f : IsWalk(k, l, feed, f, from, n, r)
    BY <1>2
  <2> DEFINE g == [t \in from - 1 .. n + 1 |-> IF t = n + 1 THEN Walked(k, l, f[n], n + 1, feed[n + 1]) ELSE f[t]]
  <2>2. ASSUME NEW t \in from - 1 .. n + 1
        PROVE  g[t] = IF t < from THEN Started(r) ELSE Walked(k, l, g[t - 1], t, feed[t])
    <3>1. CASE t = n + 1
      <4>1. g[t] = Walked(k, l, f[n], n + 1, feed[n + 1])
        BY <3>1, <1>2
      <4>2. g[n] = f[n] /\ ~(t < from)
        BY <3>1, <1>2
      <4> QED BY <3>1, <4>1, <4>2
    <3>2. CASE t # n + 1
      <4>1. t \in from - 1 .. n /\ g[t] = f[t]
        BY <3>2, <1>2
      <4>2. f[t] = IF t < from THEN Started(r) ELSE Walked(k, l, f[t - 1], t, feed[t])
        BY <4>1, <2>1 DEF IsWalk
      <4>3. ~(t < from) => g[t - 1] = f[t - 1]
        BY <4>1, <1>2
      <4> QED BY <4>1, <4>2, <4>3
    <3> QED BY <3>1, <3>2
  <2>3. IsWalk(k, l, feed, g, from, n + 1, r)
    BY <2>2 DEF IsWalk
  <2> QED BY <2>3
<1> HIDE DEF T
<1>3. \A n \in Int : n >= from - 1 => n \in T
  BY <1>1, <1>2, FromThereOn
<1> QED BY <1>3 DEF T

(* And only one: two of one tape agree as far as both go. *)
LEMMA WalkUnique ==
  ASSUME NEW k, NEW l, NEW feed, NEW from \in Int, NEW to \in Int, NEW upto \in Int, NEW r, NEW f, NEW g,
         IsWalk(k, l, feed, f, from, to, r), IsWalk(k, l, feed, g, from, upto, r), to >= from - 1, to <= upto
  PROVE  f[to] = g[to]
<1> DEFINE T == {n \in Int : n <= to => f[n] = g[n]}
<1>1. from - 1 \in T
  <2>1. f[from - 1] = Started(r) /\ g[from - 1] = Started(r)
    BY DEF IsWalk
  <2> QED BY <2>1
<1>2. ASSUME NEW n \in Int, n >= from - 1, n \in T PROVE n + 1 \in T
  <2> SUFFICES ASSUME n + 1 <= to PROVE f[n + 1] = g[n + 1]
    OBVIOUS
  <2>1. f[n + 1] = Walked(k, l, f[n], n + 1, feed[n + 1])
    BY <1>2 DEF IsWalk
  <2>2. g[n + 1] = Walked(k, l, g[n], n + 1, feed[n + 1])
    BY <1>2 DEF IsWalk
  <2> QED BY <1>2, <2>1, <2>2
<1> HIDE DEF T
<1>3. \A n \in Int : n >= from - 1 => n \in T
  BY <1>1, <1>2, FromThereOn
<1> QED BY <1>3 DEF T

(* A walk of a tape given, with the legs given, is the last value of that *)
(* function; and the walks of the tape there is. *)
WalkOf(k, l, feed, from, to, r) == (CHOOSE f : IsWalk(k, l, feed, f, from, to, r))[to]
Walk(l, from, to, r) == WalkOf(kind, l, tape, from, to, r)

(* The walk the model makes is the one with the legs it has fetched. *)
LEMMA WalkOfTape ==
  ASSUME NEW from, NEW to, NEW r
  PROVE  walk(from, to, r) = Walk(fetched(from, to), from, to, r)
  BY DEF walk, Walk, WalkOf, IsWalk, Started

(* There is such a function for every walk. *)
LEMMA WalkIs ==
  ASSUME NEW l, NEW from \in Int, NEW to \in Int, to >= from - 1, NEW r
  PROVE  \E f : IsWalk(kind, l, tape, f, from, to, r) /\ Walk(l, from, to, r) = f[to]
<1>1. Walk(l, from, to, r) = (CHOOSE f : IsWalk(kind, l, tape, f, from, to, r))[to]
  BY DEF Walk, WalkOf
<1>2. IsWalk(kind, l, tape, CHOOSE f : IsWalk(kind, l, tape, f, from, to, r), from, to, r)
  BY WalkExists
<1> QED BY <1>1, <1>2

(* Before its first bar a walk has nothing but where it resumes. *)
LEMMA WalkStarts ==
  ASSUME NEW l, NEW from \in Int, NEW r
  PROVE  Walk(l, from, from - 1, r) = Started(r)
<1>1. PICK f : IsWalk(kind, l, tape, f, from, from - 1, r) /\ Walk(l, from, from - 1, r) = f[from - 1]
  BY WalkIs
<1> QED BY <1>1 DEF IsWalk

(* A bar later it is one step further. *)
LEMMA WalkGoesOn ==
  ASSUME NEW l, NEW from \in Int, NEW to \in Int, to >= from, NEW r
  PROVE  Walk(l, from, to, r) = Walked(kind, l, Walk(l, from, to - 1, r), to, tape[to])
<1>1. PICK f : IsWalk(kind, l, tape, f, from, to, r) /\ Walk(l, from, to, r) = f[to]
  BY WalkIs
<1>2. PICK g : IsWalk(kind, l, tape, g, from, to - 1, r) /\ Walk(l, from, to - 1, r) = g[to - 1]
  BY WalkIs
<1>3. g[to - 1] = f[to - 1]
  BY <1>1, <1>2, WalkUnique
<1>4. f[to] = Walked(kind, l, f[to - 1], to, tape[to])
  BY <1>1 DEF IsWalk
<1> QED BY <1>1, <1>2, <1>3, <1>4

(* A walk reads the bars it covers and no other. *)
LEMMA WalkRemains ==
  ASSUME NEW k, NEW l, NEW feed, NEW more, NEW from \in Int, NEW to \in Int, to >= from - 1, NEW r,
         \A t \in from .. to : more[t] = feed[t]
  PROVE  WalkOf(k, l, more, from, to, r) = WalkOf(k, l, feed, from, to, r)
<1>1. PICK f : f = (CHOOSE g : IsWalk(k, l, feed, g, from, to, r))
  OBVIOUS
<1>2. IsWalk(k, l, feed, f, from, to, r)
  BY <1>1, WalkExists
<1>3. IsWalk(k, l, more, f, from, to, r)
  BY <1>2 DEF IsWalk
<1>4. IsWalk(k, l, more, CHOOSE g : IsWalk(k, l, more, g, from, to, r), from, to, r)
  BY WalkExists
<1>5. (CHOOSE g : IsWalk(k, l, more, g, from, to, r))[to] = f[to]
  BY <1>3, <1>4, WalkUnique
<1> QED BY <1>1, <1>5 DEF WalkOf

--------------------------------------------------------------------------------
(* Its filter by time, the same way. *)
Kept(s, x, m) == IF x.at > m THEN Append(s, x) ELSE s

IsLater(f, s, m, last) ==
  f = [n \in 0 .. last |-> IF n = 0 THEN <<>> ELSE Kept(f[n - 1], s[n], m)]

(* There is a function with the filter's values element by element. *)
LEMMA LaterExists ==
  ASSUME NEW s, NEW m
  PROVE  \A last \in Nat : \E f : IsLater(f, s, m, last)
<1> DEFINE T == {n \in Int : \E f : IsLater(f, s, m, n)}
<1>1. 0 \in T
  <2>1. IsLater([n \in 0 .. 0 |-> <<>>], s, m, 0)
    BY DEF IsLater
  <2> QED BY <2>1
<1>2. ASSUME NEW n \in Int, n >= 0, n \in T PROVE n + 1 \in T
  <2>1. PICK f : IsLater(f, s, m, n)
    BY <1>2
  <2> DEFINE g == [i \in 0 .. n + 1 |-> IF i = n + 1 THEN Kept(f[n], s[n + 1], m) ELSE f[i]]
  <2>2. ASSUME NEW i \in 0 .. n + 1
        PROVE  g[i] = IF i = 0 THEN <<>> ELSE Kept(g[i - 1], s[i], m)
    <3>1. CASE i = n + 1
      <4>1. g[i] = Kept(f[n], s[n + 1], m) /\ g[i - 1] = f[n]
        BY <3>1, <1>2
      <4> QED BY <3>1, <4>1, <1>2
    <3>2. CASE i # n + 1
      <4>1. i \in 0 .. n /\ g[i] = f[i] /\ (i # 0 => g[i - 1] = f[i - 1])
        BY <3>2, <1>2
      <4>2. f[i] = IF i = 0 THEN <<>> ELSE Kept(f[i - 1], s[i], m)
        BY <4>1, <2>1 DEF IsLater
      <4> QED BY <4>1, <4>2
    <3> QED BY <3>1, <3>2
  <2>3. IsLater(g, s, m, n + 1)
    BY <2>2 DEF IsLater
  <2> QED BY <2>3
<1> HIDE DEF T
<1>3. \A n \in Int : n >= 0 => n \in T
  BY <1>1, <1>2, FromThereOn
<1> QED BY <1>3 DEF T

(* Later is the last value of that function. *)
LEMMA LaterIs ==
  ASSUME NEW s, NEW m, Len(s) \in Nat
  PROVE  \E f : IsLater(f, s, m, Len(s)) /\ Later(s, m) = f[Len(s)]
<1>1. Later(s, m) = (CHOOSE f : IsLater(f, s, m, Len(s)))[Len(s)]
  BY DEF Later, IsLater, Kept
<1>2. IsLater(CHOOSE f : IsLater(f, s, m, Len(s)), s, m, Len(s))
  BY LaterExists
<1> QED BY <1>1, <1>2

(* Nothing has nothing later. *)
LEMMA NoneLater == ASSUME NEW m PROVE Later(<<>>, m) = <<>>
<1> SUFFICES ASSUME NEW s, s = <<>> PROVE Later(s, m) = <<>>
  OBVIOUS
<1>1. Len(s) = 0
  OBVIOUS
<1>2. PICK f : IsLater(f, s, m, Len(s)) /\ Later(s, m) = f[Len(s)]
  BY <1>1, LaterIs
<1> QED BY <1>1, <1>2 DEF IsLater

(* The function element by element. *)
LEMMA LaterStep ==
  ASSUME NEW f, NEW s, NEW m, NEW last \in Nat, IsLater(f, s, m, last)
  PROVE  f[0] = <<>> /\ \A n \in Nat : n < last => f[n + 1] = Kept(f[n], s[n + 1], m)
<1>1. f[0] = <<>>
  BY DEF IsLater
<1>2. ASSUME NEW n \in Nat, n < last PROVE f[n + 1] = Kept(f[n], s[n + 1], m)
  <2>1. n + 1 \in 0 .. last /\ n + 1 # 0 /\ (n + 1) - 1 = n
    BY <1>2
  <2> QED BY <2>1 DEF IsLater
<1> QED BY <1>1, <1>2

(* A sequence one longer keeps what it kept, and its last element if that is *)
(* later. *)
LEMMA LaterExtended ==
  ASSUME NEW s, NEW t, NEW m, Len(s) \in Nat, Len(t) = Len(s) + 1,
         \A i \in Nat : i + 1 <= Len(s) => t[i + 1] = s[i + 1]
  PROVE  Later(t, m) = Kept(Later(s, m), t[Len(t)], m)
<1>1. PICK f : IsLater(f, s, m, Len(s)) /\ Later(s, m) = f[Len(s)]
  BY LaterIs
<1>2. PICK g : IsLater(g, t, m, Len(t)) /\ Later(t, m) = g[Len(t)]
  <2>1. Len(t) \in Nat
    OBVIOUS
  <2> QED BY <2>1, LaterIs
<1>3. f[0] = <<>> /\ \A n \in Nat : n < Len(s) => f[n + 1] = Kept(f[n], s[n + 1], m)
  BY <1>1, LaterStep
<1>4. g[0] = <<>> /\ \A n \in Nat : n < Len(t) => g[n + 1] = Kept(g[n], t[n + 1], m)
  <2>1. Len(t) \in Nat
    OBVIOUS
  <2> QED BY <2>1, <1>2, LaterStep
<1> DEFINE T == {n \in Int : n <= Len(s) => f[n] = g[n]}
<1>5. 0 \in T
  BY <1>3, <1>4
<1>6. ASSUME NEW n \in Int, n >= 0, n \in T PROVE n + 1 \in T
  <2> SUFFICES ASSUME n + 1 <= Len(s) PROVE f[n + 1] = g[n + 1]
    OBVIOUS
  <2>1. f[n + 1] = Kept(f[n], s[n + 1], m)
    BY <1>3, <1>6
  <2>2. g[n + 1] = Kept(g[n], t[n + 1], m)
    BY <1>4, <1>6
  <2> QED BY <1>6, <2>1, <2>2
<1> HIDE DEF T
<1>7. \A n \in Int : n >= 0 => n \in T
  BY <1>5, <1>6, FromThereOn
<1>8. g[Len(s)] = f[Len(s)]
  <2>1. Len(s) \in Int /\ Len(s) >= 0 /\ Len(s) <= Len(s)
    OBVIOUS
  <2> QED BY <1>7, <2>1 DEF T
<1>9. g[Len(s) + 1] = Kept(g[Len(s)], t[Len(s) + 1], m)
  BY <1>4
<1> QED BY <1>1, <1>2, <1>8, <1>9

(* What is later of a sequence and an element: the same, with the element if it *)
(* is later. *)
LEMMA LaterAppended ==
  ASSUME NEW S, NEW s \in Seq(S), NEW x \in S, NEW m
  PROVE  Later(Append(s, x), m) = Kept(Later(s, m), x, m)
<1> DEFINE t == Append(s, x)
<1>1. /\ Len(s) \in Nat /\ Len(t) = Len(s) + 1 /\ t[Len(s) + 1] = x
      /\ \A i \in Nat : i + 1 <= Len(s) => t[i + 1] = s[i + 1]
  OBVIOUS
<1> HIDE DEF t
<1>2. Later(t, m) = Kept(Later(s, m), t[Len(t)], m)
  BY <1>1, LaterExtended
<1> QED BY <1>1, <1>2 DEF t

--------------------------------------------------------------------------------
(* What a walk is made of. *)
Quote == [Strike -> Nat]
Bar == [at : Nat, strike : Strike, roll : BOOLEAN, value : Nat \cup [Strike -> Int]]
Roll == [at : Nat, old : Strike, new : Strike]
Anchor == {None} \cup {tick.spot : tick \in Ticks} \cup UNION {{Forward[s][q] : q \in Nat} : s \in Strike}
ResumeState == [strike : Strike \cup {None}, entry : [Strike -> Nat \cup {None}], anchor : Anchor]
WalkState == [quote : Quote, bars : Seq(Bar), rolls : Seq(Roll), resume : ResumeState]

(* The candidates of a bar that are quoted, and what it makes of them. *)
Quoted(of, l, resume, quote, tick) ==
  {s \in candidateStrikes(Around(of, resume, tick)) \cap l : quote[s] # Out}
Rested(of, resume, tick) ==
  [resume EXCEPT !.anchor = IF of = "band" THEN Around(of, resume, tick) ELSE @]
Resumed(of, l, quoted, resume, quote) ==
  [strike |-> Cheapest(quote, quoted),
   entry |-> IF of = "band" THEN Entries(l, resume.entry, quote) ELSE resume.entry,
   anchor |-> IF of = "band" THEN Forward[Cheapest(quote, quoted)][quote[Cheapest(quote, quoted)]]
              ELSE resume.anchor]
BarOf(of, l, quoted, resume, quote, t) ==
  [at |-> t, strike |-> Cheapest(quote, quoted), roll |-> resume.strike \notin {None, Cheapest(quote, quoted)},
   value |-> IF of = "band" THEN aggregateSide(l, Resumed(of, l, quoted, resume, quote).entry, quote)
             ELSE quote[Cheapest(quote, quoted)]]
RollOf(quoted, resume, quote, t) == [at |-> t, old |-> resume.strike, new |-> Cheapest(quote, quoted)]

(* v is what one bar makes of w, where these are the candidates quoted. *)
StepWith(of, l, quoted, v, w, t) ==
  /\ quoted = {} => /\ v.bars = w.bars /\ v.rolls = w.rolls
                    /\ v.resume.strike = w.resume.strike
                    /\ of = "straddle" => v.resume = w.resume
  /\ quoted # {} =>
       /\ v.bars = Append(w.bars, BarOf(of, l, quoted, w.resume, v.quote, t))
       /\ v.rolls = IF BarOf(of, l, quoted, w.resume, v.quote, t).roll
                    THEN Append(w.rolls, RollOf(quoted, w.resume, v.quote, t)) ELSE w.rolls
       /\ v.resume = Resumed(of, l, quoted, w.resume, v.quote)

WalkStep(of, l, v, w, t, tick) ==
  /\ v.quote = advanceQuote(w.quote, tick.print)
  /\ StepWith(of, l, Quoted(of, l, w.resume, v.quote, tick), v, w, t)

(* The cheapest is one of the strikes quoted. *)
LEMMA CheapestIsQuoted ==
  ASSUME NEW quote \in Quote, NEW quoted \in SUBSET Strike, quoted # {}
  PROVE  Cheapest(quote, quoted) \in quoted
<1> DEFINE P == {quote[s] : s \in quoted}
<1>1. P \in SUBSET Nat /\ P # {}
  BY DEF Quote
<1>2. PICK p \in P : \A q \in P : p <= q
  BY <1>1, LeastNatural
<1> DEFINE S == {s \in quoted : quote[s] = p}
<1>3. S \in SUBSET Nat /\ S # {}
  BY HistoryAssumption
<1>4. PICK s \in S : \A r \in S : s <= r
  BY <1>3, LeastNatural
<1>5. ASSUME NEW r \in quoted PROVE quote[s] < quote[r] \/ (quote[s] = quote[r] /\ s <= r)
  <2>1. p <= quote[r] /\ p \in Nat /\ quote[r] \in Nat
    BY <1>1, <1>2
  <2>2. CASE quote[r] = p
    BY <1>4, <2>2
  <2>3. CASE quote[r] # p
    BY <1>4, <2>1, <2>3
  <2> QED BY <2>2, <2>3
<1>6. s \in quoted
  BY <1>4
<1> HIDE DEF S, P
<1> QED BY <1>5, <1>6 DEF Cheapest

(* What stays without a quote stays of its type. *)
LEMMA RestedTyped ==
  ASSUME NEW of, NEW resume \in ResumeState, NEW tick \in Ticks
  PROVE  /\ Rested(of, resume, tick) \in ResumeState
         /\ Rested(of, resume, tick).strike = resume.strike
         /\ of = "straddle" => Rested(of, resume, tick) = resume
<1>1. resume.anchor \in Anchor /\ tick.spot \in Anchor
  BY DEF ResumeState, Anchor
<1>2. Around(of, resume, tick) \in Anchor
  BY <1>1 DEF Around
<1> HIDE DEF Anchor
<1> QED BY <1>1, <1>2 DEF Rested, ResumeState

(* The types of what a bar adds. *)
LEMMA PartsTyped ==
  ASSUME NEW of, NEW l, NEW resume \in ResumeState, NEW quote \in Quote, NEW t \in Nat,
         NEW quoted \in SUBSET Strike, quoted # {}
  PROVE  /\ Resumed(of, l, quoted, resume, quote) \in ResumeState
         /\ BarOf(of, l, quoted, resume, quote, t) \in Bar
         /\ BarOf(of, l, quoted, resume, quote, t).roll => RollOf(quoted, resume, quote, t) \in Roll
<1>1. PICK best \in Strike : best = Cheapest(quote, quoted)
  BY CheapestIsQuoted
<1>2. Entries(l, resume.entry, quote) \in [Strike -> Nat \cup {None}]
  BY DEF Entries, ResumeState, Quote
<1>3. quote[best] \in Nat
  BY <1>1 DEF Quote
<1>4. Forward[best][quote[best]] \in Anchor /\ resume.anchor \in Anchor
  <2>1. Forward[best][quote[best]] \in UNION {{Forward[s][q] : q \in Nat} : s \in Strike}
    BY <1>3
  <2> QED BY <2>1 DEF ResumeState, Anchor
<1> HIDE DEF Anchor
<1>5. Resumed(of, l, quoted, resume, quote) \in ResumeState
  BY <1>1, <1>2, <1>4 DEF Resumed, ResumeState
<1>6. aggregateSide(l, Resumed(of, l, quoted, resume, quote).entry, quote) \in [Strike -> Int]
  <2>1. \A s \in Strike : quote[s] \in Nat /\ Resumed(of, l, quoted, resume, quote).entry[s] \in Nat \cup {None}
    BY <1>5 DEF ResumeState, Quote
  <2>2. \A s \in Strike : quote[s] - Resumed(of, l, quoted, resume, quote).entry[s] \in Int
    BY <2>1 DEF None
  <2> QED BY <2>2 DEF aggregateSide, None
<1>7. BarOf(of, l, quoted, resume, quote, t) \in Bar
  BY <1>1, <1>3, <1>6 DEF BarOf, Bar
<1>8. ASSUME resume.strike \notin {None, Cheapest(quote, quoted)} PROVE RollOf(quoted, resume, quote, t) \in Roll
  BY <1>1, <1>8 DEF RollOf, Roll, ResumeState
<1> QED BY <1>5, <1>7, <1>8 DEF BarOf

(* A bar keeps a walk well typed, and is a step. *)
LEMMA WalkedSteps ==
  ASSUME NEW of, NEW l, NEW w \in WalkState, NEW t \in Nat, NEW tick \in Ticks
  PROVE  /\ Walked(of, l, w, t, tick) \in WalkState
         /\ WalkStep(of, l, Walked(of, l, w, t, tick), w, t, tick)
<1>1. PICK quote : quote = advanceQuote(w.quote, tick.print)
  OBVIOUS
<1>2. PICK quoted : quoted = Quoted(of, l, w.resume, quote, tick)
  OBVIOUS
<1>3. PICK v : v = Walked(of, l, w, t, tick)
  OBVIOUS
<1>4. w.resume \in ResumeState /\ w.bars \in Seq(Bar) /\ w.rolls \in Seq(Roll)
  BY DEF WalkState
<1>5. quote \in Quote /\ quoted \in SUBSET Strike
  <2>1. tick.print \in [Strike -> Nat \cup {Silent}]
    BY HistoryAssumption
  <2> QED BY <1>1, <1>2, <2>1 DEF advanceQuote, WalkState, Quote, Quoted, candidateStrikes
<1>6. CASE quoted = {}
  <2>1. v = [quote |-> quote, bars |-> w.bars, rolls |-> w.rolls, resume |-> Rested(of, w.resume, tick)]
    <3>1. v = [w EXCEPT !.quote = quote,
                        !.resume.anchor = IF of = "band" THEN Around(of, w.resume, tick) ELSE @]
      BY <1>1, <1>2, <1>3, <1>6 DEF Walked, Quoted
    <3>2. w = [quote |-> w.quote, bars |-> w.bars, rolls |-> w.rolls, resume |-> w.resume]
      BY DEF WalkState
    <3> QED BY <3>1, <3>2 DEF Rested
  <2>2. v \in WalkState
    BY <1>4, <1>5, <2>1, RestedTyped DEF WalkState
  <2>3. /\ v.quote = quote /\ v.bars = w.bars /\ v.rolls = w.rolls
        /\ v.resume.strike = w.resume.strike /\ (of = "straddle" => v.resume = w.resume)
    BY <1>4, <2>1, RestedTyped
  <2>4. StepWith(of, l, quoted, v, w, t)
    BY <1>6, <2>3 DEF StepWith
  <2> QED BY <1>1, <1>2, <1>3, <2>2, <2>3, <2>4 DEF WalkStep
<1>7. CASE quoted # {}
  <2>1. PICK b, x, r : /\ b = BarOf(of, l, quoted, w.resume, quote, t)
                       /\ x = RollOf(quoted, w.resume, quote, t)
                       /\ r = Resumed(of, l, quoted, w.resume, quote)
    OBVIOUS
  <2>2. v = [quote |-> quote, bars |-> Append(w.bars, b),
             rolls |-> IF b.roll THEN Append(w.rolls, x) ELSE w.rolls, resume |-> r]
    BY <1>1, <1>2, <1>3, <1>7, <2>1 DEF Walked, Quoted, BarOf, RollOf, Resumed
  <2>3. b \in Bar /\ r \in ResumeState /\ (b.roll => x \in Roll)
    BY <1>4, <1>5, <1>7, <2>1, PartsTyped
  <2>4. Append(w.bars, b) \in Seq(Bar) /\ (b.roll => Append(w.rolls, x) \in Seq(Roll))
    BY <1>4, <2>3
  <2>5. v \in WalkState
    BY <1>4, <1>5, <2>2, <2>3, <2>4 DEF WalkState
  <2>6. /\ v.quote = quote /\ v.bars = Append(w.bars, b) /\ v.resume = r
        /\ v.rolls = IF b.roll THEN Append(w.rolls, x) ELSE w.rolls
    BY <2>2
  <2>7. StepWith(of, l, quoted, v, w, t)
    BY <1>7, <2>1, <2>6 DEF StepWith
  <2> QED BY <1>1, <1>2, <1>3, <2>5, <2>6, <2>7 DEF WalkStep
<1> QED BY <1>6, <1>7

--------------------------------------------------------------------------------
(* Walks of what has printed, which is whole bars, for a session of either kind. *)
TapeOK == kind \in {"straddle", "band"} /\ tape \in Seq(Ticks)

(* A walk of the tape is well typed. *)
LEMMA WalkTyped ==
  ASSUME TapeOK, NEW l, NEW from \in Nat \ {0}, NEW r \in ResumeState
  PROVE  \A to \in Int : to >= from - 1 /\ to <= Len(tape) => Walk(l, from, to, r) \in WalkState
<1> DEFINE T == {n \in Int : n <= Len(tape) => Walk(l, from, n, r) \in WalkState}
<1>1. from - 1 \in T
  <2>1. Started(r) \in WalkState
    BY DEF Started, WalkState, Unread, Quote, Out
  <2> QED BY <2>1, WalkStarts
<1>2. ASSUME NEW n \in Int, n >= from - 1, n \in T PROVE n + 1 \in T
  <2> SUFFICES ASSUME n + 1 <= Len(tape) PROVE Walk(l, from, n + 1, r) \in WalkState
    OBVIOUS
  <2>1. Len(tape) \in Nat /\ n + 1 \in 1 .. Len(tape) /\ n + 1 \in Nat
    BY <1>2 DEF TapeOK
  <2>2. Walk(l, from, n, r) \in WalkState
    BY <1>2, <2>1
  <2>3. tape[n + 1] \in Ticks
    BY <2>1 DEF TapeOK
  <2>4. Walk(l, from, n + 1, r) = Walked(kind, l, Walk(l, from, n, r), n + 1, tape[n + 1])
    <3>1. PICK to \in Int : to = n + 1 /\ to - 1 = n /\ to >= from
      BY <1>2
    <3>2. from \in Int /\ to \in Int /\ to >= from
      BY <3>1
    <3>3. Walk(l, from, to, r) = Walked(kind, l, Walk(l, from, to - 1, r), to, tape[to])
      BY <3>2, WalkGoesOn, Zenon
    <3> QED BY <3>1, <3>3
  <2> QED BY <2>1, <2>2, <2>3, <2>4, WalkedSteps
<1> HIDE DEF T
<1>3. \A n \in Int : n >= from - 1 => n \in T
  BY <1>1, <1>2, FromThereOn
<1> QED BY <1>3 DEF T

(* Any bar of it is a step. *)
LEMMA WalkSteps ==
  ASSUME TapeOK, NEW l, NEW from \in Nat \ {0}, NEW r \in ResumeState,
         NEW t \in Nat, t >= from, t <= Len(tape)
  PROVE  /\ Walk(l, from, t - 1, r) \in WalkState /\ Walk(l, from, t, r) \in WalkState
         /\ WalkStep(kind, l, Walk(l, from, t, r), Walk(l, from, t - 1, r), t, tape[t])
<1>1. Walk(l, from, t - 1, r) \in WalkState /\ Walk(l, from, t, r) \in WalkState
  BY WalkTyped
<1>2. Walk(l, from, t, r) = Walked(kind, l, Walk(l, from, t - 1, r), t, tape[t])
  BY WalkGoesOn
<1>3. tape[t] \in Ticks
  BY DEF TapeOK
<1> QED BY <1>1, <1>2, <1>3, WalkedSteps

(* A cold start is a state to resume from. *)
LEMMA ColdTyped == Cold \in ResumeState
  BY DEF Cold, ResumeState, Anchor

--------------------------------------------------------------------------------
(* Bars in order, every change of strike a roll, every roll in the list. *)
Ascending(s) == \A i, j \in DOMAIN s : i < j => s[i].at < s[j].at
Within(s, low, high) == \A i \in DOMAIN s : low < s[i].at /\ s[i].at <= high

Marked(bars, rolls) ==
  /\ Ascending(bars) /\ Ascending(rolls)
  /\ \A i \in DOMAIN bars : i + 1 \in DOMAIN bars =>
       (bars[i].strike # bars[i + 1].strike => bars[i + 1].roll)
  /\ \A i \in DOMAIN bars : bars[i].roll => \E j \in DOMAIN rolls : rolls[j].at = bars[i].at
  /\ \A j \in DOMAIN rolls : \E i \in DOMAIN bars : bars[i].roll /\ bars[i].at = rolls[j].at

(* A later element keeps a sequence ascending. *)
LEMMA AscendingAppended ==
  ASSUME NEW S, \A e \in S : e.at \in Int, NEW s \in Seq(S), NEW x \in S, Ascending(s),
         \A i \in DOMAIN s : s[i].at < x.at
  PROVE  Ascending(Append(s, x))
  BY DEF Ascending

(* A later bar keeps bars and rolls marked, with its roll if it is one. *)
LEMMA MarkedAppended ==
  ASSUME NEW bars \in Seq(Bar), NEW rolls \in Seq(Roll), Marked(bars, rolls), NEW b \in Bar,
         \A i \in DOMAIN bars : bars[i].at < b.at,
         bars # <<>> => b.roll \/ b.strike = Last(bars).strike
  PROVE  /\ ~b.roll => Marked(Append(bars, b), rolls)
         /\ b.roll => \A x \in Roll : x.at = b.at => Marked(Append(bars, b), Append(rolls, x))
<1> DEFINE more == Append(bars, b)
<1>1. /\ Len(bars) \in Nat /\ DOMAIN bars = 1 .. Len(bars) /\ DOMAIN more = 1 .. Len(bars) + 1
      /\ \A i \in DOMAIN bars : more[i] = bars[i] /\ bars[i] \in Bar
      /\ more[Len(bars) + 1] = b
  OBVIOUS
<1>2. Ascending(more)
  <2>1. Ascending(bars) /\ (\A e \in Bar : e.at \in Int)
    BY DEF Marked, Bar
  <2> QED BY <2>1, AscendingAppended
<1>3. ASSUME NEW i \in DOMAIN more, i + 1 \in DOMAIN more, more[i].strike # more[i + 1].strike
      PROVE  more[i + 1].roll
  <2>1. CASE i = Len(bars)
    <3>1. bars # <<>> /\ Last(bars) = bars[i] /\ more[i] = bars[i] /\ more[i + 1] = b
      BY <1>1, <1>3, <2>1 DEF Last
    <3> QED BY <3>1, <1>3
  <2>2. CASE i # Len(bars)
    <3>1. i \in DOMAIN bars /\ i + 1 \in DOMAIN bars
      BY <1>1, <1>3, <2>2
    <3> QED BY <1>1, <1>3, <3>1 DEF Marked
  <2> QED BY <2>1, <2>2
<1>4. ASSUME ~b.roll PROVE Marked(more, rolls)
  <2>1. ASSUME NEW i \in DOMAIN more, more[i].roll PROVE \E j \in DOMAIN rolls : rolls[j].at = more[i].at
    BY <1>1, <1>4, <2>1 DEF Marked
  <2>2. ASSUME NEW j \in DOMAIN rolls PROVE \E i \in DOMAIN more : more[i].roll /\ more[i].at = rolls[j].at
    <3>1. PICK i \in DOMAIN bars : bars[i].roll /\ bars[i].at = rolls[j].at
      BY DEF Marked
    <3> QED BY <1>1, <3>1
  <2> HIDE DEF more
  <2> QED BY <1>2, <1>3, <2>1, <2>2 DEF Marked
<1>5. ASSUME b.roll, NEW x \in Roll, x.at = b.at PROVE Marked(more, Append(rolls, x))
  <2> DEFINE most == Append(rolls, x)
  <2>1. /\ Len(rolls) \in Nat /\ DOMAIN rolls = 1 .. Len(rolls) /\ DOMAIN most = 1 .. Len(rolls) + 1
        /\ \A j \in DOMAIN rolls : most[j] = rolls[j]
        /\ most[Len(rolls) + 1] = x
    OBVIOUS
  <2>2. \A j \in DOMAIN rolls : rolls[j].at < x.at
    <3> TAKE j \in DOMAIN rolls
    <3>1. PICK i \in DOMAIN bars : bars[i].roll /\ bars[i].at = rolls[j].at
      BY DEF Marked
    <3> QED BY <3>1, <1>5
  <2>3. Ascending(most)
    <3>1. Ascending(rolls) /\ (\A e \in Roll : e.at \in Int)
      BY DEF Marked, Roll
    <3> QED BY <2>2, <3>1, AscendingAppended
  <2>4. ASSUME NEW i \in DOMAIN more, more[i].roll PROVE \E j \in DOMAIN most : most[j].at = more[i].at
    <3>1. CASE i = Len(bars) + 1
      <4>1. Len(rolls) + 1 \in DOMAIN most
        BY <2>1
      <4> QED BY <1>1, <1>5, <2>1, <3>1, <4>1
    <3>2. CASE i # Len(bars) + 1
      <4>1. i \in DOMAIN bars /\ bars[i] = more[i]
        BY <1>1, <3>2
      <4>2. PICK j \in DOMAIN rolls : rolls[j].at = bars[i].at
        BY <2>4, <4>1 DEF Marked
      <4> QED BY <2>1, <4>1, <4>2
    <3> QED BY <3>1, <3>2
  <2>5. ASSUME NEW j \in DOMAIN most PROVE \E i \in DOMAIN more : more[i].roll /\ more[i].at = most[j].at
    <3>1. CASE j = Len(rolls) + 1
      <4>1. Len(bars) + 1 \in DOMAIN more
        BY <1>1
      <4> QED BY <1>1, <1>5, <2>1, <3>1, <4>1
    <3>2. CASE j # Len(rolls) + 1
      <4>1. j \in DOMAIN rolls /\ rolls[j] = most[j]
        BY <2>1, <3>2
      <4>2. PICK i \in DOMAIN bars : bars[i].roll /\ bars[i].at = rolls[j].at
        BY <4>1 DEF Marked
      <4> QED BY <1>1, <4>1, <4>2
    <3> QED BY <3>1, <3>2
  <2> HIDE DEF more, most
  <2> QED BY <1>2, <1>3, <2>3, <2>4, <2>5 DEF Marked, most
<1> QED BY <1>4, <1>5

(* An element of a concatenation is one of either part. *)
LEMMA JoinedParts ==
  ASSUME NEW S, NEW s \in Seq(S), NEW t \in Seq(S)
  PROVE  \A i \in DOMAIN (s \o t) :
           (i \in DOMAIN s /\ (s \o t)[i] = s[i]) \/ (\E j \in DOMAIN t : (s \o t)[i] = t[j])
<1> TAKE i \in DOMAIN (s \o t)
<1>1. CASE i <= Len(s)
  BY <1>1
<1>2. CASE ~(i <= Len(s))
  <2>1. i - Len(s) \in DOMAIN t /\ (s \o t)[i] = t[i - Len(s)]
    BY <1>2
  <2> QED BY <2>1
<1> QED BY <1>1, <1>2

(* Bars within bounds stay so together. *)
LEMMA WithinJoined ==
  ASSUME NEW s \in Seq(Bar), NEW t \in Seq(Bar), NEW low, NEW high,
         Within(s, low, high), Within(t, low, high)
  PROVE  Within(s \o t, low, high)
<1> DEFINE u == s \o t
<1>1. \A i \in DOMAIN u : (i \in DOMAIN s /\ u[i] = s[i]) \/ (\E j \in DOMAIN t : u[i] = t[j])
  BY JoinedParts
<1> HIDE DEF u
<1>2. \A i \in DOMAIN u : low < u[i].at /\ u[i].at <= high
  BY <1>1 DEF Within
<1> QED BY <1>2 DEF Within, u

(* Two ascending sequences, one after the other in time, ascend together. *)
LEMMA AscendingJoined ==
  ASSUME NEW S, \A e \in S : e.at \in Int, NEW s \in Seq(S), NEW t \in Seq(S), NEW m \in Int,
         Ascending(s), Ascending(t),
         \A i \in DOMAIN s : s[i].at <= m, \A i \in DOMAIN t : m < t[i].at
  PROVE  Ascending(s \o t)
<1> DEFINE u == s \o t
<1>1. /\ Len(s) \in Nat /\ Len(t) \in Nat /\ DOMAIN s = 1 .. Len(s) /\ DOMAIN t = 1 .. Len(t)
      /\ DOMAIN u = 1 .. Len(s) + Len(t)
      /\ \A i \in DOMAIN u : u[i] = IF i <= Len(s) THEN s[i] ELSE t[i - Len(s)]
      /\ \A i \in DOMAIN s : s[i].at \in Int
      /\ \A i \in DOMAIN t : t[i].at \in Int
  OBVIOUS
<1> HIDE DEF u
<1>2. ASSUME NEW i \in DOMAIN u, NEW j \in DOMAIN u, i < j PROVE u[i].at < u[j].at
  <2>1. CASE j <= Len(s)
    BY <1>1, <1>2, <2>1 DEF Ascending
  <2>2. CASE i <= Len(s) /\ ~(j <= Len(s))
    <3>1. i \in DOMAIN s /\ j - Len(s) \in DOMAIN t
      BY <1>1, <2>2
    <3> QED BY <1>1, <2>2, <3>1
  <2>3. CASE ~(i <= Len(s))
    <3>1. i - Len(s) \in DOMAIN t /\ j - Len(s) \in DOMAIN t /\ i - Len(s) < j - Len(s) /\ ~(j <= Len(s))
      BY <1>1, <1>2, <2>3
    <3> QED BY <1>1, <2>3, <3>1 DEF Ascending
  <2> QED BY <1>1, <2>1, <2>2, <2>3
<1> QED BY <1>2 DEF Ascending, u

(* Marked sessions, one after the other in time, are marked together, if the *)
(* change of strike between them, where there is one, is a roll. *)
LEMMA MarkedJoined ==
  ASSUME NEW bars \in Seq(Bar), NEW rolls \in Seq(Roll), Marked(bars, rolls), bars # <<>>,
         NEW more \in Seq(Bar), NEW most \in Seq(Roll), Marked(more, most), more # <<>>,
         NEW m \in Int,
         \A i \in DOMAIN bars : bars[i].at <= m, \A i \in DOMAIN more : m < more[i].at,
         Head(more).roll \/ Head(more).strike = Last(bars).strike
  PROVE  Marked(bars \o more, rolls \o most)
<1> DEFINE b == bars \o more
           x == rolls \o most
<1>1. /\ Len(bars) \in Nat \ {0} /\ Len(more) \in Nat \ {0}
      /\ DOMAIN bars = 1 .. Len(bars) /\ DOMAIN more = 1 .. Len(more)
      /\ DOMAIN b = 1 .. Len(bars) + Len(more)
      /\ \A i \in DOMAIN bars : b[i] = bars[i]
      /\ \A i \in DOMAIN more : Len(bars) + i \in DOMAIN b /\ b[Len(bars) + i] = more[i]
  OBVIOUS
<1>2. /\ Len(rolls) \in Nat /\ Len(most) \in Nat
      /\ DOMAIN rolls = 1 .. Len(rolls) /\ DOMAIN most = 1 .. Len(most)
      /\ DOMAIN x = 1 .. Len(rolls) + Len(most)
      /\ \A i \in DOMAIN rolls : x[i] = rolls[i]
      /\ \A i \in DOMAIN most : Len(rolls) + i \in DOMAIN x /\ x[Len(rolls) + i] = most[i]
  OBVIOUS
<1>3. Ascending(b)
  <2>1. Ascending(bars) /\ Ascending(more) /\ (\A e \in Bar : e.at \in Int)
    BY DEF Marked, Bar
  <2> QED BY <2>1, AscendingJoined
<1>4. Ascending(x)
  <2>1. Ascending(rolls) /\ Ascending(most) /\ (\A e \in Roll : e.at \in Int)
    BY DEF Marked, Roll
  <2>2. \A j \in DOMAIN rolls : rolls[j].at <= m
    BY DEF Marked
  <2>3. \A j \in DOMAIN most : m < most[j].at
    BY DEF Marked
  <2> QED BY <2>1, <2>2, <2>3, AscendingJoined
<1> HIDE DEF b, x
<1>5. ASSUME NEW i \in DOMAIN b, i + 1 \in DOMAIN b, b[i].strike # b[i + 1].strike PROVE b[i + 1].roll
  <2>1. CASE i < Len(bars)
    <3>1. i \in DOMAIN bars /\ i + 1 \in DOMAIN bars
      BY <1>1, <2>1
    <3> QED BY <1>1, <1>5, <3>1 DEF Marked
  <2>2. CASE i = Len(bars)
    <3>1. b[i] = Last(bars) /\ b[i + 1] = Head(more)
      BY <1>1, <2>2 DEF Last
    <3> QED BY <1>5, <3>1
  <2>3. CASE i > Len(bars)
    <3>1. PICK k \in DOMAIN more : i = Len(bars) + k
      <4>1. i - Len(bars) \in DOMAIN more /\ i = Len(bars) + (i - Len(bars))
        BY <1>1, <2>3
      <4> QED BY <4>1
    <3>2. k + 1 \in DOMAIN more /\ i + 1 = Len(bars) + (k + 1)
      BY <1>1, <1>5, <3>1
    <3>3. b[i] = more[k] /\ b[i + 1] = more[k + 1]
      BY <1>1, <3>1, <3>2
    <3> QED BY <1>5, <3>2, <3>3 DEF Marked
  <2> QED BY <1>1, <2>1, <2>2, <2>3
<1>6. ASSUME NEW i \in DOMAIN b, b[i].roll PROVE \E j \in DOMAIN x : x[j].at = b[i].at
  <2>1. CASE i <= Len(bars)
    <3>1. i \in DOMAIN bars /\ b[i] = bars[i]
      BY <1>1, <2>1
    <3>2. PICK j \in DOMAIN rolls : rolls[j].at = bars[i].at
      BY <1>6, <3>1 DEF Marked
    <3> QED BY <1>2, <3>1, <3>2
  <2>2. CASE ~(i <= Len(bars))
    <3>1. i - Len(bars) \in DOMAIN more /\ i = Len(bars) + (i - Len(bars))
      BY <1>1, <2>2
    <3>2. b[i] = more[i - Len(bars)]
      BY <1>1, <3>1
    <3>3. PICK j \in DOMAIN most : most[j].at = more[i - Len(bars)].at
      BY <1>6, <3>1, <3>2 DEF Marked
    <3> QED BY <1>2, <3>2, <3>3
  <2> QED BY <2>1, <2>2
<1>7. ASSUME NEW j \in DOMAIN x PROVE \E i \in DOMAIN b : b[i].roll /\ b[i].at = x[j].at
  <2>1. CASE j <= Len(rolls)
    <3>1. j \in DOMAIN rolls /\ x[j] = rolls[j]
      BY <1>2, <2>1
    <3>2. PICK i \in DOMAIN bars : bars[i].roll /\ bars[i].at = rolls[j].at
      BY <3>1 DEF Marked
    <3>3. i \in DOMAIN b
      BY <1>1
    <3> QED BY <1>1, <3>1, <3>2, <3>3
  <2>2. CASE ~(j <= Len(rolls))
    <3>1. j - Len(rolls) \in DOMAIN most /\ j = Len(rolls) + (j - Len(rolls))
      BY <1>2, <2>2
    <3>2. x[j] = most[j - Len(rolls)]
      BY <1>2, <3>1
    <3>3. PICK i \in DOMAIN more : more[i].roll /\ more[i].at = most[j - Len(rolls)].at
      BY <3>1 DEF Marked
    <3> QED BY <1>1, <3>2, <3>3
  <2> QED BY <2>1, <2>2
<1>8. Marked(b, x)
  BY <1>3, <1>4, <1>5, <1>6, <1>7 DEF Marked
<1> QED BY <1>8 DEF b, x

(* What joining does to a head that is no roll: it becomes one, with an entry, *)
(* and all else stays (straddleCatchUp.ts:159-175). *)
LEMMA HeadMarked ==
  ASSUME NEW bars \in Seq(Bar), NEW rolls \in Seq(Roll), Marked(bars, rolls), bars # <<>>,
         ~Head(bars).roll, NEW x \in Roll, x.at = Head(bars).at
  PROVE  LET b == <<[Head(bars) EXCEPT !.roll = TRUE]>> \o Tail(bars)
             y == <<x>> \o rolls
         IN b \in Seq(Bar) /\ y \in Seq(Roll) /\ Marked(b, y) /\ b # <<>> /\ Head(b).roll
            /\ Last(b).at = Last(bars).at /\ Last(b).strike = Last(bars).strike
            /\ (\A m, t : Within(bars, m, t) => Within(b, m, t))
<1> DEFINE h == [Head(bars) EXCEPT !.roll = TRUE]
           b == <<h>> \o Tail(bars)
           y == <<x>> \o rolls
<1>1. /\ Len(bars) \in Nat \ {0} /\ DOMAIN bars = 1 .. Len(bars) /\ Head(bars) = bars[1]
      /\ \A i \in DOMAIN bars : bars[i] \in Bar
  OBVIOUS
<1>2. h \in Bar /\ h.at = bars[1].at /\ h.strike = bars[1].strike /\ h.roll = TRUE
  <2>1. Head(bars) \in Bar
    BY <1>1
  <2>2. ASSUME NEW e \in Bar
        PROVE  LET g == [e EXCEPT !.roll = TRUE]
               IN g \in Bar /\ g.at = e.at /\ g.strike = e.strike /\ g.roll = TRUE
    BY DEF Bar
  <2> QED BY <1>1, <2>1, <2>2
<1>3. /\ b \in Seq(Bar) /\ Len(b) = Len(bars) /\ DOMAIN b = 1 .. Len(bars)
      /\ b[1] = h /\ (\A i \in DOMAIN bars : i # 1 => b[i] = bars[i])
      /\ Head(b) = h /\ b # <<>>
  <2> HIDE DEF h
  <2>1. Tail(bars) \in Seq(Bar) /\ Len(Tail(bars)) = Len(bars) - 1
        /\ \A i \in 1 .. Len(bars) - 1 : Tail(bars)[i] = bars[i + 1]
    BY <1>1
  <2>2. <<h>> \in Seq(Bar) /\ Len(<<h>>) = 1
    BY <1>2
  <2>3. b \in Seq(Bar) /\ Len(b) = 1 + (Len(bars) - 1) /\ b[1] = h
    BY <1>1, <2>1, <2>2
  <2>4. ASSUME NEW i \in DOMAIN bars, i # 1 PROVE b[i] = bars[i]
    <3>1. i - 1 \in 1 .. Len(bars) - 1 /\ (i - 1) + 1 = i
      BY <1>1, <2>4
    <3>2. b[i] = Tail(bars)[i - 1]
      BY <1>1, <2>1, <2>2, <3>1
    <3> QED BY <2>1, <3>1, <3>2
  <2>5. Len(b) = Len(bars) /\ DOMAIN b = 1 .. Len(bars) /\ Head(b) = b[1] /\ b # <<>>
    BY <1>1, <2>3
  <2> QED BY <2>3, <2>4, <2>5
<1>4. /\ y \in Seq(Roll) /\ Len(rolls) \in Nat /\ DOMAIN rolls = 1 .. Len(rolls)
      /\ Len(y) = Len(rolls) + 1 /\ DOMAIN y = 1 .. Len(rolls) + 1
      /\ y[1] = x /\ \A j \in DOMAIN rolls : j + 1 \in DOMAIN y /\ y[j + 1] = rolls[j]
  OBVIOUS
<1> HIDE DEF b, y, h
<1>5. \A i \in DOMAIN bars : b[i].at = bars[i].at /\ b[i].strike = bars[i].strike /\ (b[i].roll <=> bars[i].roll \/ i = 1)
  <2> TAKE i \in DOMAIN bars
  <2>1. CASE i = 1
    BY <1>2, <1>3, <2>1
  <2>2. CASE i # 1
    BY <1>3, <2>2
  <2> QED BY <2>1, <2>2
<1>6. Ascending(b)
  BY <1>1, <1>3, <1>5 DEF Marked, Ascending
<1>7. \A j \in DOMAIN rolls : x.at < rolls[j].at
  <2> TAKE j \in DOMAIN rolls
  <2>1. PICK i \in DOMAIN bars : bars[i].roll /\ bars[i].at = rolls[j].at
    BY DEF Marked
  <2>2. i # 1 /\ 1 \in DOMAIN bars /\ 1 < i
    BY <1>1, <2>1
  <2>3. bars[1].at < bars[i].at
    BY <2>2 DEF Marked, Ascending
  <2> QED BY <1>1, <2>1, <2>3
<1>8. Ascending(y)
  <2>1. ASSUME NEW i \in DOMAIN y, NEW j \in DOMAIN y, i < j PROVE y[i].at < y[j].at
    <3>1. j - 1 \in DOMAIN rolls /\ y[j] = rolls[j - 1]
      <4>1. j - 1 \in DOMAIN rolls /\ (j - 1) + 1 = j
        BY <1>4, <2>1
      <4> QED BY <1>4, <4>1
    <3>2. CASE i = 1
      BY <1>4, <1>7, <3>1, <3>2
    <3>3. CASE i # 1
      <4>1. i - 1 \in DOMAIN rolls /\ (i - 1) + 1 = i /\ i - 1 < j - 1
        BY <1>4, <2>1, <3>3
      <4>2. y[i] = rolls[i - 1]
        BY <1>4, <4>1
      <4> QED BY <3>1, <4>1, <4>2 DEF Marked, Ascending
    <3> QED BY <3>2, <3>3
  <2> QED BY <2>1 DEF Ascending
<1>9. ASSUME NEW i \in DOMAIN b, i + 1 \in DOMAIN b, b[i].strike # b[i + 1].strike PROVE b[i + 1].roll
  BY <1>3, <1>1, <1>5, <1>9 DEF Marked
<1>10. ASSUME NEW i \in DOMAIN b, b[i].roll PROVE \E j \in DOMAIN y : y[j].at = b[i].at
  <2>1. CASE i = 1
    <3>1. 1 \in DOMAIN y /\ y[1].at = b[i].at
      BY <1>1, <1>2, <1>3, <1>4, <2>1
    <3> QED BY <3>1
  <2>2. CASE i # 1
    <3>1. i \in DOMAIN bars /\ bars[i].roll
      BY <1>1, <1>3, <1>5, <1>10, <2>2
    <3>2. PICK j \in DOMAIN rolls : rolls[j].at = bars[i].at
      BY <3>1 DEF Marked
    <3> QED BY <1>4, <1>5, <3>1, <3>2
  <2> QED BY <2>1, <2>2
<1>11. ASSUME NEW j \in DOMAIN y PROVE \E i \in DOMAIN b : b[i].roll /\ b[i].at = y[j].at
  <2>1. CASE j = 1
    <3>1. 1 \in DOMAIN b /\ b[1].roll /\ b[1].at = y[j].at
      BY <1>1, <1>2, <1>3, <1>4, <2>1
    <3> QED BY <3>1
  <2>2. CASE j # 1
    <3>1. j - 1 \in DOMAIN rolls /\ (j - 1) + 1 = j
      BY <1>4, <2>2
    <3>2. y[j] = rolls[j - 1]
      BY <1>4, <3>1
    <3>3. PICK i \in DOMAIN bars : bars[i].roll /\ bars[i].at = rolls[j - 1].at
      BY <3>1 DEF Marked
    <3> QED BY <1>1, <1>3, <1>5, <3>2, <3>3
  <2> QED BY <2>1, <2>2
<1>12. Marked(b, y)
  BY <1>6, <1>8, <1>9, <1>10, <1>11 DEF Marked
<1>13. Last(b).at = Last(bars).at /\ Last(b).strike = Last(bars).strike
  <2>1. Last(b) = b[Len(bars)] /\ Last(bars) = bars[Len(bars)] /\ Len(bars) \in DOMAIN bars
    BY <1>1, <1>3 DEF Last
  <2> QED BY <1>5, <2>1
<1>14. \A m, t : Within(bars, m, t) => Within(b, m, t)
  BY <1>1, <1>3, <1>5 DEF Within
<1> QED BY <1>2, <1>3, <1>4, <1>12, <1>13, <1>14 DEF b, y, h

--------------------------------------------------------------------------------
(* What a walk has made by bar t that is later than m. *)
TailSound(w, m, t) ==
  /\ Later(w.bars, m) \in Seq(Bar) /\ Later(w.rolls, m) \in Seq(Roll)
  /\ Marked(Later(w.bars, m), Later(w.rolls, m))
  /\ Within(Later(w.bars, m), m, t)
  /\ Later(w.bars, m) # <<>> => Last(Later(w.bars, m)).strike = w.resume.strike
  /\ t <= m => Later(w.bars, m) = <<>> /\ Later(w.rolls, m) = <<>>
  /\ m = 0 => Later(w.bars, m) = w.bars /\ Later(w.rolls, m) = w.rolls

(* That holds of a walk before its first bar. *)
LEMMA TailStarts ==
  ASSUME NEW r, NEW m \in Nat, NEW t \in Int
  PROVE  TailSound(Started(r), m, t)
<1>1. Started(r).bars = <<>> /\ Started(r).rolls = <<>>
  BY DEF Started
<1>2. Later(<<>>, m) = <<>>
  BY NoneLater
<1>3. <<>> \in Seq(Bar) /\ <<>> \in Seq(Roll) /\ DOMAIN <<>> = {}
  OBVIOUS
<1>4. Marked(<<>>, <<>>) /\ Within(<<>>, m, t)
  BY <1>3 DEF Marked, Ascending, Within
<1> HIDE DEF Started
<1> QED BY <1>1, <1>2, <1>3, <1>4 DEF TailSound

(* The last of a sequence appended to. *)
LEMMA LastAppended ==
  ASSUME NEW S, NEW s \in Seq(S), NEW x \in S
  PROVE  Append(s, x) \in Seq(S) /\ Append(s, x) # <<>> /\ Last(Append(s, x)) = x
<1>1. Append(s, x) \in Seq(S) /\ Len(Append(s, x)) = Len(s) + 1 /\ Append(s, x)[Len(s) + 1] = x
  OBVIOUS
<1> QED BY <1>1 DEF Last

(* It is kept by every bar. *)
LEMMA TailSteps ==
  ASSUME NEW of, NEW l, NEW v \in WalkState, NEW w \in WalkState, NEW t \in Nat \ {0}, NEW m \in Nat, NEW tick,
         WalkStep(of, l, v, w, t, tick), TailSound(w, m, t - 1)
  PROVE  TailSound(v, m, t)
<1> DEFINE bars == Later(w.bars, m)
           rolls == Later(w.rolls, m)
           quoted == Quoted(of, l, w.resume, v.quote, tick)
           b == BarOf(of, l, quoted, w.resume, v.quote, t)
           x == RollOf(quoted, w.resume, v.quote, t)
<1>1. /\ v.quote \in Quote /\ w.resume \in ResumeState /\ w.bars \in Seq(Bar) /\ w.rolls \in Seq(Roll)
      /\ bars \in Seq(Bar) /\ rolls \in Seq(Roll)
  BY DEF WalkState, TailSound
<1>0. StepWith(of, l, quoted, v, w, t) /\ quoted \in SUBSET Strike
  BY DEF WalkStep, Quoted, candidateStrikes
<1> HIDE DEF quoted
<1>2. CASE quoted = {}
  <2>1. v.bars = w.bars /\ v.rolls = w.rolls /\ v.resume.strike = w.resume.strike
    BY <1>0, <1>2 DEF StepWith
  <2>2. Within(bars, m, t)
    <3>1. \A i \in DOMAIN bars : bars[i] \in Bar
      BY <1>1
    <3>2. \A i \in DOMAIN bars : bars[i].at \in Nat /\ m < bars[i].at /\ bars[i].at <= t - 1
      BY <3>1 DEF TailSound, Within, Bar
    <3> HIDE DEF bars
    <3> QED BY <3>2 DEF Within
  <2> QED BY <2>1, <2>2 DEF TailSound
<1>3. CASE quoted # {}
  <2>1. v.bars = Append(w.bars, b) /\ v.resume.strike = b.strike
        /\ v.rolls = IF b.roll THEN Append(w.rolls, x) ELSE w.rolls
    BY <1>0, <1>3 DEF StepWith, Resumed, BarOf
  <2>2. b \in Bar /\ b.at = t /\ (b.roll => x \in Roll /\ x.at = t)
    <3>1. b \in Bar /\ (b.roll => x \in Roll)
      BY <1>0, <1>1, <1>3, PartsTyped
    <3>2. b.at = t /\ x.at = t
      BY DEF BarOf, RollOf
    <3> QED BY <3>1, <3>2
  <2>3. b.strike = w.resume.strike \/ b.roll \/ w.resume.strike = None
    BY DEF BarOf
  <2> HIDE DEF b, x
  <2>4. Later(v.bars, m) = IF t > m THEN Append(bars, b) ELSE bars
    <3>1. Later(v.bars, m) = Kept(bars, b, m)
      BY <1>1, <2>1, <2>2, LaterAppended
    <3> QED BY <2>2, <3>1 DEF Kept
  <2>5. Later(v.rolls, m) = IF b.roll /\ t > m THEN Append(rolls, x) ELSE rolls
    <3>1. CASE b.roll
      <4>1. Later(v.rolls, m) = Kept(rolls, x, m)
        BY <1>1, <2>1, <2>2, <3>1, LaterAppended
      <4> QED BY <2>2, <3>1, <4>1 DEF Kept
    <3>2. CASE ~b.roll
      BY <2>1, <3>2
    <3> QED BY <3>1, <3>2
  <2>6. /\ Marked(bars, rolls) /\ (t - 1 <= m => bars = <<>> /\ rolls = <<>>)
        /\ (bars # <<>> => Last(bars).strike = w.resume.strike)
        /\ (m = 0 => bars = w.bars /\ rolls = w.rolls)
    BY DEF TailSound
  <2>7. \A i \in DOMAIN bars : bars[i] \in Bar /\ bars[i].at \in Nat /\ m < bars[i].at /\ bars[i].at <= t - 1
    <3>1. \A i \in DOMAIN bars : bars[i] \in Bar
      BY <1>1
    <3>2. Within(bars, m, t - 1)
      BY DEF TailSound
    <3> HIDE DEF bars
    <3> QED BY <3>1, <3>2 DEF Within, Bar
  <2> HIDE DEF bars, rolls
  <2>8. CASE t <= m
    <3>1. bars = <<>> /\ rolls = <<>> /\ Later(v.bars, m) = <<>> /\ Later(v.rolls, m) = <<>> /\ m # 0
      BY <2>4, <2>5, <2>6, <2>8
    <3>2. DOMAIN bars = {}
      BY <3>1
    <3> QED BY <1>1, <2>6, <3>1, <3>2 DEF TailSound, Within
  <2>9. CASE ~(t <= m)
    <3>1. Later(v.bars, m) = Append(bars, b)
      BY <2>4, <2>9
    <3>2. Append(bars, b) \in Seq(Bar) /\ Append(bars, b) # <<>> /\ Last(Append(bars, b)) = b
      BY <1>1, <2>2, LastAppended
    <3>3. bars # <<>> => b.roll \/ b.strike = Last(bars).strike
      <4> SUFFICES ASSUME bars # <<>> PROVE b.roll \/ b.strike = Last(bars).strike
        OBVIOUS
      <4>1. Last(bars) \in Bar
        BY <1>1 DEF Last
      <4>2. Last(bars).strike \in Strike
        BY <4>1 DEF Bar
      <4>3. None \notin Strike
        BY HistoryAssumption DEF None
      <4> QED BY <2>3, <2>6, <4>2, <4>3
    <3>4. \A i \in DOMAIN bars : bars[i].at < b.at
      BY <2>2, <2>7
    <3>5. Within(Append(bars, b), m, t)
      <4>1. /\ Len(bars) \in Nat /\ DOMAIN bars = 1 .. Len(bars) /\ DOMAIN Append(bars, b) = 1 .. Len(bars) + 1
            /\ \A i \in DOMAIN bars : Append(bars, b)[i] = bars[i]
            /\ Append(bars, b)[Len(bars) + 1] = b
        BY <1>1
      <4>2. ASSUME NEW i \in DOMAIN Append(bars, b)
            PROVE m < Append(bars, b)[i].at /\ Append(bars, b)[i].at <= t
        <5>1. CASE i = Len(bars) + 1
          BY <2>2, <2>9, <4>1, <5>1
        <5>2. CASE i # Len(bars) + 1
          <6>1. i \in DOMAIN bars
            BY <4>1, <5>2
          <6> QED BY <2>7, <4>1, <6>1
        <5> QED BY <5>1, <5>2
      <4> QED BY <4>2 DEF Within
    <3>6. m = 0 => Append(bars, b) = v.bars /\ Later(v.rolls, m) = v.rolls
      BY <2>1, <2>5, <2>6, <2>9
    <3>7. CASE b.roll
      <4>1. Later(v.rolls, m) = Append(rolls, x) /\ Append(rolls, x) \in Seq(Roll)
        BY <1>1, <2>2, <2>5, <2>9, <3>7
      <4>2. Marked(Append(bars, b), Append(rolls, x))
        BY <1>1, <2>2, <2>6, <3>3, <3>4, <3>7, MarkedAppended
      <4> QED BY <2>1, <2>9, <3>1, <3>2, <3>5, <3>6, <4>1, <4>2 DEF TailSound
    <3>8. CASE ~b.roll
      <4>1. Later(v.rolls, m) = rolls
        BY <2>5, <3>8
      <4>2. Marked(Append(bars, b), rolls)
        BY <1>1, <2>2, <2>6, <3>3, <3>4, <3>8, MarkedAppended
      <4> QED BY <1>1, <2>1, <2>9, <3>1, <3>2, <3>5, <3>6, <4>1, <4>2 DEF TailSound
    <3> QED BY <3>7, <3>8
  <2> QED BY <2>8, <2>9
<1> QED BY <1>2, <1>3

(* So it holds of every walk of the tape. *)
LEMMA WalkTail ==
  ASSUME TapeOK, NEW l, NEW from \in Nat \ {0}, NEW r \in ResumeState, NEW m \in Nat
  PROVE  \A to \in Int : to >= from - 1 /\ to <= Len(tape) => TailSound(Walk(l, from, to, r), m, to)
<1> DEFINE T == {n \in Int : n <= Len(tape) => TailSound(Walk(l, from, n, r), m, n)}
<1>1. from - 1 \in T
  BY WalkStarts, TailStarts
<1>2. ASSUME NEW n \in Int, n >= from - 1, n \in T PROVE n + 1 \in T
  <2> SUFFICES ASSUME n + 1 <= Len(tape) PROVE TailSound(Walk(l, from, n + 1, r), m, n + 1)
    OBVIOUS
  <2>1. Len(tape) \in Nat /\ n + 1 \in Nat \ {0} /\ (n + 1) - 1 = n /\ n + 1 >= from
    BY <1>2 DEF TapeOK
  <2>2. TailSound(Walk(l, from, n, r), m, n)
    BY <1>2, <2>1
  <2>3. /\ Walk(l, from, n, r) \in WalkState /\ Walk(l, from, n + 1, r) \in WalkState
        /\ WalkStep(kind, l, Walk(l, from, n + 1, r), Walk(l, from, n, r), n + 1, tape[n + 1])
    BY <2>1, WalkSteps
  <2> QED BY <2>1, <2>2, <2>3, TailSteps
<1> HIDE DEF T
<1>3. \A n \in Int : n >= from - 1 => n \in T
  BY <1>1, <1>2, FromThereOn
<1> QED BY <1>3 DEF T

(* And of the walk the model makes, whatever its legs. *)
LEMMA WalkSound ==
  ASSUME TapeOK, NEW from \in Nat \ {0}, NEW r \in ResumeState, NEW m \in Nat,
         NEW to \in Int, to >= from - 1, to <= Len(tape)
  PROVE  walk(from, to, r) \in WalkState /\ TailSound(walk(from, to, r), m, to)
<1>1. PICK l : l = fetched(from, to)
  OBVIOUS
<1>2. Walk(l, from, to, r) \in WalkState /\ TailSound(Walk(l, from, to, r), m, to)
  BY WalkTyped, WalkTail
<1> QED BY <1>1, <1>2, WalkOfTape

--------------------------------------------------------------------------------
(* What a session is made of. *)
SessionState == [bars : Seq(Bar), rolls : Seq(Roll), resume : ResumeState, seams : SUBSET Nat]

(* A session in order, by a bar. *)
InOrder(c, last) ==
  /\ c \in SessionState /\ c.bars # <<>>
  /\ Marked(c.bars, c.rolls) /\ Within(c.bars, 0, last)
  /\ \A m \in c.seams : 1 <= m /\ m <= last

(* The last of ascending bars is the latest. *)
LEMMA LastIsLatest ==
  ASSUME NEW bars \in Seq(Bar), bars # <<>>, Ascending(bars)
  PROVE  /\ Len(bars) \in DOMAIN bars /\ Last(bars) = bars[Len(bars)] /\ Last(bars) \in Bar /\ Last(bars).at \in Nat
         /\ \A i \in DOMAIN bars : bars[i].at <= Last(bars).at
<1>1. Len(bars) \in Nat \ {0} /\ DOMAIN bars = 1 .. Len(bars) /\ Len(bars) \in DOMAIN bars
  OBVIOUS
<1>2. Last(bars) = bars[Len(bars)]
  BY DEF Last
<1>3. \A i \in DOMAIN bars : bars[i] \in Bar
  OBVIOUS
<1>4. \A i \in DOMAIN bars : bars[i].at \in Nat
  BY <1>3 DEF Bar
<1>5. \A i \in DOMAIN bars : bars[i].at <= bars[Len(bars)].at
  <2> TAKE i \in DOMAIN bars
  <2>1. i = Len(bars) \/ i < Len(bars)
    BY <1>1
  <2> QED BY <1>1, <1>4, <2>1 DEF Ascending
<1> QED BY <1>1, <1>2, <1>3, <1>4, <1>5

(* A session's seam is its latest bar, and on the tape. *)
LEMMA SeamIsLatest ==
  ASSUME TapeOK, NEW c, InOrder(c, Len(tape))
  PROVE  /\ Seam(c) \in Nat \ {0} /\ Seam(c) <= Len(tape)
         /\ \A i \in DOMAIN c.bars : c.bars[i].at <= Seam(c)
<1>1. c.bars \in Seq(Bar) /\ c.bars # <<>> /\ Ascending(c.bars) /\ Within(c.bars, 0, Len(tape))
  BY DEF InOrder, SessionState, Marked
<1>2. /\ Len(c.bars) \in DOMAIN c.bars /\ Last(c.bars) = c.bars[Len(c.bars)] /\ Last(c.bars).at \in Nat
      /\ \A i \in DOMAIN c.bars : c.bars[i].at <= Last(c.bars).at
  BY <1>1, LastIsLatest
<1>3. 0 < Last(c.bars).at /\ Last(c.bars).at <= Len(tape)
  BY <1>1, <1>2 DEF Within
<1> QED BY <1>2, <1>3 DEF Seam

(* A lead-in starts no later than at the seam. *)
LEMMA StartIsBefore ==
  ASSUME NEW m \in Nat \ {0}
  PROVE  Start(m) \in Nat \ {0} /\ Start(m) <= m
<1>1. \A x, y \in Int : \E z \in {x, y} : \A u \in {x, y} : z >= u
  OBVIOUS
<1>2. m - LeadIn \in Int /\ m - LeadIn <= m
  BY HistoryAssumption
<1>3. Start(m) \in {1, m - LeadIn} /\ \A u \in {1, m - LeadIn} : Start(m) >= u
  BY <1>1, <1>2 DEF Start, Max
<1> QED BY <1>2, <1>3

(* What a full walk computes is a session in order. *)
LEMMA ComputedIsASession ==
  ASSUME TapeOK, NEW t \in Nat, t <= Len(tape), walk(1, t, Cold).bars # <<>>
  PROVE  InOrder([bars |-> walk(1, t, Cold).bars, rolls |-> walk(1, t, Cold).rolls,
                  resume |-> walk(1, t, Cold).resume, seams |-> {}], Len(tape))
<1> DEFINE w == walk(1, t, Cold)
<1>0. t \in Int /\ t >= 1 - 1 /\ 1 \in Nat \ {0} /\ 0 \in Nat /\ Len(tape) \in Nat
  BY DEF TapeOK
<1>1. w \in WalkState
  BY <1>0, ColdTyped, WalkSound
<1>2. TailSound(w, 0, t)
  BY <1>0, ColdTyped, WalkSound
<1> HIDE DEF w
<1>3. Marked(w.bars, w.rolls) /\ Within(w.bars, 0, t)
  BY <1>2 DEF TailSound
<1>4. w.bars \in Seq(Bar) /\ w.rolls \in Seq(Roll) /\ w.resume \in ResumeState
  BY <1>1 DEF WalkState
<1>5. Within(w.bars, 0, Len(tape))
  <2>1. \A i \in DOMAIN w.bars : w.bars[i] \in Bar
    BY <1>4
  <2>2. \A i \in DOMAIN w.bars : w.bars[i].at \in Nat
    BY <2>1 DEF Bar
  <2> QED BY <1>0, <1>3, <2>2 DEF Within
<1>6. w.bars # <<>>
  BY DEF w
<1>7. [bars |-> w.bars, rolls |-> w.rolls, resume |-> w.resume, seams |-> {}] \in SessionState
  BY <1>4 DEF SessionState
<1> HIDE DEF SessionState
<1>8. InOrder([bars |-> w.bars, rolls |-> w.rolls, resume |-> w.resume, seams |-> {}], Len(tape))
  BY <1>3, <1>5, <1>6, <1>7 DEF InOrder
<1> QED BY <1>8 DEF w

(* The walk a catch-up makes. *)
Base(c) == IF kind = "band" THEN c.resume ELSE Cold
Rewalk(c, to) == walk(Start(Seam(c)), to, Base(c))

(* The walk of a catch-up is in order. *)
LEMMA RewalkSound ==
  ASSUME TapeOK, NEW c, InOrder(c, Len(tape)), NEW to \in Nat, Seam(c) <= to, to <= Len(tape)
  PROVE  /\ Base(c) \in ResumeState /\ Start(Seam(c)) \in Nat \ {0} /\ Start(Seam(c)) <= Seam(c)
         /\ Rewalk(c, to) \in WalkState /\ TailSound(Rewalk(c, to), Seam(c), to)
<1>1. Seam(c) \in Nat \ {0} /\ Start(Seam(c)) \in Nat \ {0} /\ Start(Seam(c)) <= Seam(c)
  BY SeamIsLatest, StartIsBefore
<1>2. Base(c) \in ResumeState
  BY ColdTyped DEF Base, InOrder, SessionState
<1>3. to \in Int /\ to >= Start(Seam(c)) - 1
  BY <1>1
<1>4. walk(Start(Seam(c)), to, Base(c)) \in WalkState
  BY <1>1, <1>2, <1>3, WalkSound
<1>5. TailSound(walk(Start(Seam(c)), to, Base(c)), Seam(c), to)
  BY <1>1, <1>2, <1>3, WalkSound
<1> QED BY <1>1, <1>2, <1>4, <1>5 DEF Rewalk

(* A session continued is in order, whatever the lead-in saw. *)
LEMMA CaughtUpIsASession ==
  ASSUME TapeOK, NEW c, InOrder(c, Len(tape)), NEW to \in Nat, Seam(c) <= to, to <= Len(tape)
  PROVE  InOrder(CaughtUp(c, to), Len(tape))
<1> DEFINE w == Rewalk(c, to)
           m == Seam(c)
           bars == Later(w.bars, m)
           rolls == Later(w.rolls, m)
<1>1. m \in Nat \ {0} /\ m <= Len(tape) /\ \A i \in DOMAIN c.bars : c.bars[i].at <= m
  BY SeamIsLatest
<1>2. w \in WalkState /\ TailSound(w, m, to)
  BY RewalkSound
<1>3. bars \in Seq(Bar) /\ rolls \in Seq(Roll) /\ Marked(bars, rolls) /\ Within(bars, m, to) /\ w.resume \in ResumeState
  BY <1>2 DEF TailSound, WalkState
<1>4. Fresh(c, w) = [bars |-> bars, rolls |-> rolls]
  BY DEF Fresh
<1>5. /\ c.bars \in Seq(Bar) /\ c.rolls \in Seq(Roll) /\ c.bars # <<>> /\ Marked(c.bars, c.rolls)
      /\ c.seams \in SUBSET Nat /\ Within(c.bars, 0, Len(tape))
      /\ \A n \in c.seams : 1 <= n /\ n <= Len(tape)
  BY DEF InOrder, SessionState
<1>6. CaughtUp(c, to) = LET f == Joined(c, Fresh(c, w))
                        IN IF Fresh(c, w).bars = <<>> THEN c
                           ELSE [bars |-> c.bars \o f.bars, rolls |-> c.rolls \o f.rolls,
                                 resume |-> w.resume, seams |-> c.seams \cup {m}]
  BY DEF CaughtUp, Rewalk, Base
<1> HIDE DEF w, m, bars, rolls
<1>7. CASE bars = <<>>
  BY <1>4, <1>6, <1>7
<1>8. CASE bars # <<>>
  <2>1. PICK f : f = Joined(c, Fresh(c, w))
    OBVIOUS
  <2>2. /\ f.bars \in Seq(Bar) /\ f.rolls \in Seq(Roll) /\ f.bars # <<>> /\ Marked(f.bars, f.rolls)
        /\ Within(f.bars, m, to) /\ (Head(f.bars).roll \/ Head(f.bars).strike = Last(c.bars).strike)
    <3>1. CASE Head(bars).strike = Last(c.bars).strike \/ Head(bars).roll
      <4>1. f.bars = bars /\ f.rolls = rolls
        BY <1>4, <2>1, <3>1 DEF Joined
      <4> QED BY <1>3, <1>8, <3>1, <4>1
    <3>2. CASE ~(Head(bars).strike = Last(c.bars).strike \/ Head(bars).roll)
      <4> DEFINE x == [at |-> Head(bars).at, old |-> Last(c.bars).strike, new |-> Head(bars).strike]
      <4>1. f.bars = <<[Head(bars) EXCEPT !.roll = TRUE]>> \o Tail(bars) /\ f.rolls = <<x>> \o rolls
        BY <1>4, <2>1, <3>2 DEF Joined
      <4>2. x \in Roll /\ x.at = Head(bars).at
        <5>1. Head(bars) \in Bar /\ Last(c.bars) \in Bar
          BY <1>3, <1>5, <1>8, LastIsLatest DEF Marked
        <5> QED BY <5>1 DEF Bar, Roll
      <4> HIDE DEF x
      <4>3. ~Head(bars).roll
        BY <3>2
      <4> QED BY <1>3, <1>8, <4>1, <4>2, <4>3, HeadMarked
    <3> QED BY <3>1, <3>2
  <2>3. CaughtUp(c, to) = [bars |-> c.bars \o f.bars, rolls |-> c.rolls \o f.rolls,
                           resume |-> w.resume, seams |-> c.seams \cup {m}]
    BY <1>4, <1>6, <1>8, <2>1
  <2>4. \A i \in DOMAIN f.bars : f.bars[i] \in Bar /\ f.bars[i].at \in Nat /\ m < f.bars[i].at /\ f.bars[i].at <= to
    <3>1. \A i \in DOMAIN f.bars : f.bars[i] \in Bar
      BY <2>2
    <3> QED BY <2>2, <3>1 DEF Within, Bar
  <2>5. Marked(c.bars \o f.bars, c.rolls \o f.rolls)
    <3>1. m \in Int /\ (\A i \in DOMAIN c.bars : c.bars[i].at <= m) /\ (\A i \in DOMAIN f.bars : m < f.bars[i].at)
      BY <1>1, <2>4
    <3>2. /\ c.bars \in Seq(Bar) /\ c.rolls \in Seq(Roll) /\ Marked(c.bars, c.rolls) /\ c.bars # <<>>
          /\ f.bars \in Seq(Bar) /\ f.rolls \in Seq(Roll) /\ Marked(f.bars, f.rolls) /\ f.bars # <<>>
          /\ (Head(f.bars).roll \/ Head(f.bars).strike = Last(c.bars).strike)
      BY <1>5, <2>2
    <3> QED BY <3>1, <3>2, MarkedJoined
  <2> DEFINE all == c.bars \o f.bars
  <2>6. all \in Seq(Bar) /\ c.rolls \o f.rolls \in Seq(Roll) /\ all # <<>>
    BY <1>5, <2>2
  <2>7. Within(all, 0, Len(tape))
    <3>1. c.bars \in Seq(Bar) /\ f.bars \in Seq(Bar)
      BY <1>5, <2>2
    <3>2. Within(f.bars, 0, Len(tape))
      <4>1. Len(tape) \in Nat
        BY DEF TapeOK
      <4>2. \A i \in DOMAIN f.bars : 0 < f.bars[i].at /\ f.bars[i].at <= Len(tape)
        BY <1>1, <2>4, <4>1
      <4> QED BY <4>2 DEF Within
    <3> QED BY <1>5, <3>1, <3>2, WithinJoined
  <2> HIDE DEF all
  <2>8. c.seams \cup {m} \in SUBSET Nat /\ \A n \in c.seams \cup {m} : 1 <= n /\ n <= Len(tape)
    BY <1>1, <1>5
  <2>9. CaughtUp(c, to) \in SessionState
    BY <1>3, <2>3, <2>6, <2>8 DEF SessionState, all
  <2> HIDE DEF SessionState
  <2> QED BY <2>3, <2>5, <2>6, <2>7, <2>8, <2>9 DEF InOrder, all
<1> QED BY <1>7, <1>8

--------------------------------------------------------------------------------
(* A straddle's walks have every strike for a leg, and candidates about the spot. *)
QuotedAt(quote, tick) == {s \in candidateStrikes(tick.spot) : quote[s] # Out}

StraddleStep(v, w, t) ==
  /\ v.quote = advanceQuote(w.quote, tape[t].print)
  /\ StepWith("straddle", Strike, QuotedAt(v.quote, tape[t]), v, w, t)

(* The walk the model makes of a straddle. *)
LEMMA StraddleWalk ==
  ASSUME kind = "straddle", NEW from, NEW to, NEW r
  PROVE  walk(from, to, r) = Walk(Strike, from, to, r)
<1>1. fetched(from, to) = Strike
  BY DEF fetched
<1> QED BY <1>1, WalkOfTape

(* Any bar of it is a step. *)
LEMMA StraddleSteps ==
  ASSUME TapeOK, kind = "straddle", NEW from \in Nat \ {0}, NEW r \in ResumeState,
         NEW t \in Nat, t >= from, t <= Len(tape)
  PROVE  /\ walk(from, t - 1, r) \in WalkState /\ walk(from, t, r) \in WalkState
         /\ StraddleStep(walk(from, t, r), walk(from, t - 1, r), t)
<1>1. PICK v, w : v = walk(from, t, r) /\ w = walk(from, t - 1, r)
  OBVIOUS
<1>2. v = Walk(Strike, from, t, r) /\ w = Walk(Strike, from, t - 1, r)
  BY <1>1, StraddleWalk
<1>3. v \in WalkState /\ w \in WalkState /\ WalkStep(kind, Strike, v, w, t, tape[t])
  BY <1>2, WalkSteps
<1>4. Quoted("straddle", Strike, w.resume, v.quote, tape[t]) = QuotedAt(v.quote, tape[t])
  BY DEF Quoted, QuotedAt, Around, candidateStrikes
<1>5. StraddleStep(v, w, t)
  BY <1>3, <1>4 DEF WalkStep, StraddleStep
<1> QED BY <1>1, <1>3, <1>5

(* What a walk starts with. *)
LEMMA StartedIs ==
  ASSUME NEW a \in Nat \ {0}, NEW r
  PROVE  walk(a, a - 1, r).quote = Unread /\ walk(a, a - 1, r).resume = r
<1>1. walk(a, a - 1, r) = Started(r)
  BY WalkOfTape, WalkStarts
<1>2. Started(r).quote = Unread /\ Started(r).resume = r
  BY DEF Started
<1> QED BY <1>1, <1>2

(* Walks that see the same quotes at one bar see the same at every later one. *)
LEMMA QuotesGoOn ==
  ASSUME TapeOK, kind = "straddle", NEW a \in Nat \ {0}, NEW q \in ResumeState, NEW b \in Nat \ {0}, NEW r \in ResumeState,
         NEW v \in Int, v >= a - 1, v >= b - 1, walk(a, v, q).quote = walk(b, v, r).quote
  PROVE  \A n \in Int : n >= v /\ n <= Len(tape) => walk(a, n, q).quote = walk(b, n, r).quote
<1> DEFINE T == {n \in Int : n <= Len(tape) => walk(a, n, q).quote = walk(b, n, r).quote}
<1>1. v \in T
  OBVIOUS
<1>2. ASSUME NEW n \in Int, n >= v, n \in T PROVE n + 1 \in T
  <2> SUFFICES ASSUME n + 1 <= Len(tape) PROVE walk(a, n + 1, q).quote = walk(b, n + 1, r).quote
    OBVIOUS
  <2>1. Len(tape) \in Nat /\ n + 1 \in Nat /\ (n + 1) - 1 = n /\ n + 1 >= a /\ n + 1 >= b
    BY <1>2 DEF TapeOK
  <2>2. walk(a, n, q).quote = walk(b, n, r).quote
    BY <1>2, <2>1
  <2>3. StraddleStep(walk(a, n + 1, q), walk(a, n, q), n + 1)
    BY <2>1, StraddleSteps
  <2>4. StraddleStep(walk(b, n + 1, r), walk(b, n, r), n + 1)
    BY <2>1, StraddleSteps
  <2> QED BY <2>2, <2>3, <2>4 DEF StraddleStep, StepWith
<1> HIDE DEF T
<1>3. \A n \in Int : n >= v => n \in T
  BY <1>1, <1>2, FromThereOn
<1> QED BY <1>3 DEF T

(* Where a walk resumes has no part in the quotes it sees. *)
LEMMA QuoteOfWalk ==
  ASSUME TapeOK, kind = "straddle", NEW a \in Nat \ {0}, NEW q \in ResumeState, NEW r \in ResumeState
  PROVE  \A n \in Int : n >= a - 1 /\ n <= Len(tape) => walk(a, n, q).quote = walk(a, n, r).quote
<1>1. walk(a, a - 1, q).quote = Unread /\ walk(a, a - 1, r).quote = Unread
  BY StartedIs
<1> QED BY <1>1, QuotesGoOn

(* A walk that has made no bar later than u is where it was at u. *)
LEMMA WalkQuiet ==
  ASSUME TapeOK, kind = "straddle", NEW a \in Nat \ {0}, NEW r \in ResumeState, NEW u \in Int, u >= a - 1
  PROVE  \A n \in Int :
           n >= u /\ n <= Len(tape)
           /\ (\A i \in DOMAIN walk(a, n, r).bars : walk(a, n, r).bars[i].at <= u)
           => /\ walk(a, n, r).bars = walk(a, u, r).bars
              /\ walk(a, n, r).rolls = walk(a, u, r).rolls
              /\ walk(a, n, r).resume = walk(a, u, r).resume
<1> DEFINE Same(n) == /\ walk(a, n, r).bars = walk(a, u, r).bars
                      /\ walk(a, n, r).rolls = walk(a, u, r).rolls
                      /\ walk(a, n, r).resume = walk(a, u, r).resume
           Silence(n) == \A i \in DOMAIN walk(a, n, r).bars : walk(a, n, r).bars[i].at <= u
           T == {n \in Int : n <= Len(tape) /\ Silence(n) => Same(n)}
<1>1. u \in T
  OBVIOUS
<1>2. ASSUME NEW n \in Int, n >= u, n \in T PROVE n + 1 \in T
  <2> SUFFICES ASSUME n + 1 <= Len(tape), Silence(n + 1) PROVE Same(n + 1)
    OBVIOUS
  <2>1. Len(tape) \in Nat /\ n + 1 \in Nat /\ (n + 1) - 1 = n /\ n + 1 >= a
    BY <1>2 DEF TapeOK
  <2>2. /\ StraddleStep(walk(a, n + 1, r), walk(a, n, r), n + 1)
        /\ walk(a, n + 1, r) \in WalkState /\ walk(a, n, r) \in WalkState
    BY <2>1, StraddleSteps
  <2>3. CASE QuotedAt(walk(a, n + 1, r).quote, tape[n + 1]) = {}
    <3>1. /\ walk(a, n + 1, r).bars = walk(a, n, r).bars /\ walk(a, n + 1, r).rolls = walk(a, n, r).rolls
          /\ walk(a, n + 1, r).resume = walk(a, n, r).resume
      BY <2>2, <2>3 DEF StraddleStep, StepWith
    <3>2. Silence(n)
      BY <3>1
    <3>3. Same(n)
      BY <1>2, <2>1, <3>2
    <3> QED BY <3>1, <3>3
  <2>4. CASE QuotedAt(walk(a, n + 1, r).quote, tape[n + 1]) # {}
    <3>1. PICK x : x = BarOf("straddle", Strike, QuotedAt(walk(a, n + 1, r).quote, tape[n + 1]),
                              walk(a, n, r).resume, walk(a, n + 1, r).quote, n + 1)
      OBVIOUS
    <3>2. walk(a, n + 1, r).bars = Append(walk(a, n, r).bars, x)
      BY <2>2, <2>4, <3>1 DEF StraddleStep, StepWith
    <3>3. x.at = n + 1
      BY <3>1 DEF BarOf
    <3>4. PICK s : s = walk(a, n, r).bars
      OBVIOUS
    <3>5. s \in Seq(Bar)
      BY <2>2, <3>4 DEF WalkState
    <3>6. Len(s) + 1 \in DOMAIN Append(s, x) /\ Append(s, x)[Len(s) + 1] = x
      BY <3>5
    <3>7. x.at <= u
      BY <3>2, <3>4, <3>6
    <3> QED BY <1>2, <3>3, <3>7
  <2> QED BY <2>3, <2>4
<1> HIDE DEF T
<1>3. \A n \in Int : n >= u => n \in T
  BY <1>1, <1>2, FromThereOn
<1> QED BY <1>3 DEF T

(* A straddle's walk measures nothing and has no forward. *)
LEMMA StraddleEntries ==
  ASSUME TapeOK, kind = "straddle", NEW a \in Nat \ {0}, NEW r \in ResumeState
  PROVE  \A n \in Int : n >= a - 1 /\ n <= Len(tape) =>
           walk(a, n, r).resume.entry = r.entry /\ walk(a, n, r).resume.anchor = r.anchor
<1> DEFINE Holds(n) == walk(a, n, r).resume.entry = r.entry /\ walk(a, n, r).resume.anchor = r.anchor
           T == {n \in Int : n <= Len(tape) => Holds(n)}
<1>1. a - 1 \in T
  BY StartedIs
<1>2. ASSUME NEW n \in Int, n >= a - 1, n \in T PROVE n + 1 \in T
  <2> SUFFICES ASSUME n + 1 <= Len(tape) PROVE Holds(n + 1)
    OBVIOUS
  <2>1. Len(tape) \in Nat /\ n + 1 \in Nat /\ (n + 1) - 1 = n /\ n + 1 >= a
    BY <1>2 DEF TapeOK
  <2>2. StraddleStep(walk(a, n + 1, r), walk(a, n, r), n + 1)
    BY <2>1, StraddleSteps
  <2>3. /\ walk(a, n + 1, r).resume.entry = walk(a, n, r).resume.entry
        /\ walk(a, n + 1, r).resume.anchor = walk(a, n, r).resume.anchor
    BY <2>2 DEF StraddleStep, StepWith, Resumed
  <2> QED BY <1>2, <2>1, <2>3
<1> HIDE DEF T
<1>3. \A n \in Int : n >= a - 1 => n \in T
  BY <1>1, <1>2, FromThereOn
<1> QED BY <1>3 DEF T

(* Where a walk of the day made a bar there were quotes. *)
LEMMA QuotedAtBar ==
  ASSUME TapeOK, kind = "straddle", NEW m \in Nat \ {0}, m <= Len(tape),
         NEW i \in DOMAIN walk(1, m, Cold).bars, walk(1, m, Cold).bars[i].at = m
  PROVE  QuotedAt(walk(1, m, Cold).quote, tape[m]) # {}
<1> SUFFICES ASSUME QuotedAt(walk(1, m, Cold).quote, tape[m]) = {} PROVE FALSE
  OBVIOUS
<1>1. 1 \in Nat \ {0} /\ m >= 1 /\ Len(tape) \in Nat /\ m \in Nat /\ m - 1 \in Int /\ m - 1 >= 1 - 1 /\ m - 1 <= Len(tape)
      /\ 0 \in Nat
  BY DEF TapeOK
<1>2. StraddleStep(walk(1, m, Cold), walk(1, m - 1, Cold), m) /\ walk(1, m, Cold) \in WalkState
  BY <1>1, ColdTyped, StraddleSteps
<1>3. TailSound(walk(1, m - 1, Cold), 0, m - 1)
  BY <1>1, ColdTyped, WalkSound
<1>4. walk(1, m, Cold).bars = walk(1, m - 1, Cold).bars
  BY <1>2 DEF StraddleStep, StepWith
<1>5. Within(walk(1, m, Cold).bars, 0, m - 1)
  BY <1>3, <1>4 DEF TailSound
<1>6. walk(1, m, Cold).bars[i].at <= m - 1
  BY <1>5 DEF Within
<1> QED BY <1>1, <1>6

--------------------------------------------------------------------------------
(* A session continued is the session computed. *)
Computed(c) ==
  /\ c.bars = walk(1, Seam(c), Cold).bars
  /\ c.rolls = walk(1, Seam(c), Cold).rolls
  /\ c.resume = walk(1, Seam(c), Cold).resume

(* A walk with a warm lead-in sees the day's quotes from the seam on. *)
LEMMA WarmSees ==
  ASSUME TapeOK, kind = "straddle", NEW c, InOrder(c, Len(tape)), Warm(Seam(c))
  PROVE  \A n \in Int : n >= Seam(c) /\ n <= Len(tape) => Rewalk(c, n).quote = walk(1, n, Cold).quote
<1>1. PICK m, a : m = Seam(c) /\ a = Start(Seam(c))
  OBVIOUS
<1>2. /\ m \in Nat \ {0} /\ m <= Len(tape) /\ Len(tape) \in Nat
      /\ a \in Nat \ {0} /\ a <= m
  BY <1>1, SeamIsLatest, StartIsBefore DEF TapeOK
<1>3. walk(a, m, Cold).quote = walk(1, m, Cold).quote
  BY <1>1 DEF Warm, Sees
<1>4. m \in Int /\ m >= a - 1 /\ m >= 1 - 1 /\ 1 \in Nat \ {0} /\ a \in Nat \ {0}
  BY <1>2
<1>5. \A n \in Int : n >= m /\ n <= Len(tape) => walk(a, n, Cold).quote = walk(1, n, Cold).quote
  BY <1>3, <1>4, ColdTyped, QuotesGoOn
<1>6. \A n : Rewalk(c, n) = walk(a, n, Cold)
  BY <1>1 DEF Rewalk, Base
<1> QED BY <1>1, <1>5, <1>6

(* At the seam it stands where the day's walk stood. *)
LEMMA SeamResumes ==
  ASSUME TapeOK, kind = "straddle", NEW c, InOrder(c, Len(tape)), Computed(c), Warm(Seam(c))
  PROVE  /\ Rewalk(c, Seam(c)).resume = walk(1, Seam(c), Cold).resume
         /\ Rewalk(c, Seam(c)).quote = walk(1, Seam(c), Cold).quote
<1>1. PICK m, a : m = Seam(c) /\ a = Start(Seam(c))
  OBVIOUS
<1>2. /\ m \in Nat \ {0} /\ m <= Len(tape) /\ Len(tape) \in Nat
      /\ a \in Nat \ {0} /\ a <= m /\ 1 \in Nat \ {0} /\ m >= 1
  BY <1>1, SeamIsLatest, StartIsBefore DEF TapeOK
<1>3. PICK v, w : v = walk(a, m, Cold) /\ w = walk(a, m - 1, Cold)
  OBVIOUS
<1>4. PICK g, h : g = walk(1, m, Cold) /\ h = walk(1, m - 1, Cold)
  OBVIOUS
<1>5. Rewalk(c, Seam(c)) = v
  BY <1>1, <1>3 DEF Rewalk, Base
<1>6. v.quote = g.quote
  <2>1. Seam(c) \in Int /\ Seam(c) >= Seam(c) /\ Seam(c) <= Len(tape)
    BY <1>1, <1>2
  <2>2. Rewalk(c, Seam(c)).quote = walk(1, Seam(c), Cold).quote
    BY <2>1, WarmSees
  <2> QED BY <1>1, <1>4, <1>5, <2>2
<1>7. QuotedAt(g.quote, tape[m]) # {}
  <2>1. c.bars = walk(1, m, Cold).bars
    BY <1>1 DEF Computed
  <2>2. Len(c.bars) \in DOMAIN c.bars /\ c.bars[Len(c.bars)].at = m
    <3>1. c.bars \in Seq(Bar) /\ c.bars # <<>> /\ Ascending(c.bars)
      BY DEF InOrder, SessionState, Marked
    <3> QED BY <1>1, <3>1, LastIsLatest DEF Seam
  <2> QED BY <1>2, <1>4, <2>1, <2>2, QuotedAtBar
<1>8. StraddleStep(v, w, m) /\ v \in WalkState
  BY <1>2, <1>3, ColdTyped, StraddleSteps
<1>9. StraddleStep(g, h, m) /\ g \in WalkState
  BY <1>2, <1>4, ColdTyped, StraddleSteps
<1>10. v.resume.strike = g.resume.strike
  BY <1>6, <1>7, <1>8, <1>9 DEF StraddleStep, StepWith, Resumed
<1>11. v.resume.entry = g.resume.entry /\ v.resume.anchor = g.resume.anchor
  <2>1. m \in Int /\ m >= a - 1 /\ m >= 1 - 1
    BY <1>2
  <2> QED BY <1>2, <1>3, <1>4, <2>1, ColdTyped, StraddleEntries
<1>12. v.resume = g.resume
  <2>1. v.resume \in ResumeState /\ g.resume \in ResumeState
    BY <1>8, <1>9 DEF WalkState
  <2> QED BY <1>10, <1>11, <2>1 DEF ResumeState
<1> QED BY <1>1, <1>4, <1>5, <1>6, <1>12

(* A bar appended to a concatenation is appended to its second part. *)
LEMMA BarJoined == \A s, t \in Seq(Bar) : \A x \in Bar : Append(s \o t, x) = s \o Append(t, x)
  OBVIOUS

(* The same of a roll. *)
LEMMA RollJoined == \A s, t \in Seq(Roll) : \A x \in Roll : Append(s \o t, x) = s \o Append(t, x)
  OBVIOUS

(* g is to v what h is to w: the day's walk to one that started at m. *)
Agrees(bars, rolls, m, w, h) ==
  /\ w.resume = h.resume /\ w.quote = h.quote
  /\ h.bars = bars \o Later(w.bars, m) /\ h.rolls = rolls \o Later(w.rolls, m)

(* They go on agreeing bar by bar. *)
LEMMA AgreesOn ==
  ASSUME NEW v \in WalkState, NEW w \in WalkState, NEW g \in WalkState, NEW h \in WalkState,
         NEW t \in Nat, NEW m \in Nat, t > m,
         StraddleStep(v, w, t), StraddleStep(g, h, t),
         NEW bars \in Seq(Bar), NEW rolls \in Seq(Roll),
         Later(w.bars, m) \in Seq(Bar), Later(w.rolls, m) \in Seq(Roll),
         Agrees(bars, rolls, m, w, h)
  PROVE  Agrees(bars, rolls, m, v, g)
<1>1. v.quote = g.quote
  BY DEF StraddleStep, Agrees
<1>0. PICK quoted \in SUBSET Strike : quoted = QuotedAt(v.quote, tape[t])
  BY DEF QuotedAt, candidateStrikes
<1>4. StepWith("straddle", Strike, quoted, v, w, t) /\ StepWith("straddle", Strike, quoted, g, h, t)
  BY <1>0, <1>1 DEF StraddleStep
<1>2. CASE quoted = {}
  BY <1>1, <1>2, <1>4 DEF StepWith, Agrees
<1>3. CASE quoted # {}
  <2>1. PICK b : b = BarOf("straddle", Strike, quoted, w.resume, v.quote, t)
    OBVIOUS
  <2>2. PICK x : x = RollOf(quoted, w.resume, v.quote, t)
    OBVIOUS
  <2>3. /\ v.bars = Append(w.bars, b) /\ g.bars = Append(h.bars, b)
        /\ v.rolls = (IF b.roll THEN Append(w.rolls, x) ELSE w.rolls)
        /\ g.rolls = (IF b.roll THEN Append(h.rolls, x) ELSE h.rolls)
        /\ v.resume = g.resume
    BY <1>1, <1>3, <1>4, <2>1, <2>2 DEF StepWith, Agrees
  <2>4. b \in Bar /\ (b.roll => x \in Roll)
    <3>1. w.resume \in ResumeState /\ v.quote \in Quote
      BY DEF WalkState
    <3> QED BY <1>0, <1>3, <2>1, <2>2, <3>1, PartsTyped
  <2>5. b.at = t /\ x.at = t
    BY <2>1, <2>2 DEF BarOf, RollOf
  <2>6. w.bars \in Seq(Bar) /\ w.rolls \in Seq(Roll)
    BY DEF WalkState
  <2>7. Later(v.bars, m) = Append(Later(w.bars, m), b)
    <3>1. Later(v.bars, m) = Kept(Later(w.bars, m), b, m)
      BY <2>3, <2>4, <2>6, LaterAppended
    <3> QED BY <2>5, <3>1 DEF Kept
  <2>8. g.bars = bars \o Later(v.bars, m)
    <3>1. g.bars = Append(bars \o Later(w.bars, m), b)
      BY <2>3 DEF Agrees
    <3>2. PICK l : l = Later(w.bars, m)
      OBVIOUS
    <3>3. Append(bars \o l, b) = bars \o Append(l, b)
      <4>1. l \in Seq(Bar) /\ bars \in Seq(Bar) /\ b \in Bar
        BY <2>4, <3>2
      <4> QED BY <4>1, BarJoined, Zenon
    <3> QED BY <2>7, <3>1, <3>2, <3>3
  <2>9. g.rolls = rolls \o Later(v.rolls, m)
    <3>1. CASE ~b.roll
      BY <2>3, <3>1 DEF Agrees
    <3>2. CASE b.roll
      <4>1. Later(v.rolls, m) = Kept(Later(w.rolls, m), x, m)
        BY <2>3, <2>4, <2>6, <3>2, LaterAppended
      <4>2. Later(v.rolls, m) = Append(Later(w.rolls, m), x)
        BY <2>5, <4>1 DEF Kept
      <4>3. g.rolls = Append(rolls \o Later(w.rolls, m), x)
        BY <2>3, <3>2 DEF Agrees
      <4>4. PICK l : l = Later(w.rolls, m)
        OBVIOUS
      <4>5. Append(rolls \o l, x) = rolls \o Append(l, x)
        <5>1. l \in Seq(Roll) /\ rolls \in Seq(Roll) /\ x \in Roll
          BY <2>4, <3>2, <4>4
        <5> QED BY <5>1, RollJoined, Zenon
      <4> QED BY <4>2, <4>3, <4>4, <4>5
    <3> QED BY <3>1, <3>2
  <2> QED BY <1>1, <2>3, <2>8, <2>9 DEF Agrees
<1> QED BY <1>2, <1>3

(* With a warm lead-in the walk of a catch-up adds to the session what the *)
(* day's walk has later than its seam. *)
LEMMA TailAgrees ==
  ASSUME TapeOK, kind = "straddle", NEW c, InOrder(c, Len(tape)), Computed(c), Warm(Seam(c))
  PROVE  \A n \in Int : n >= Seam(c) /\ n <= Len(tape)
           => Agrees(c.bars, c.rolls, Seam(c), Rewalk(c, n), walk(1, n, Cold))
<1>1. PICK m, a, r : m = Seam(c) /\ a = Start(Seam(c)) /\ r = Base(c)
  OBVIOUS
<1>2. /\ m \in Nat \ {0} /\ m <= Len(tape) /\ Len(tape) \in Nat
      /\ a \in Nat \ {0} /\ a <= m /\ r \in ResumeState /\ 1 \in Nat \ {0} /\ m >= 1
  BY <1>1, SeamIsLatest, StartIsBefore, RewalkSound DEF TapeOK
<1>3. \A n : Rewalk(c, n) = walk(a, n, r)
  BY <1>1 DEF Rewalk
<1>4. c.bars \in Seq(Bar) /\ c.rolls \in Seq(Roll)
  BY DEF InOrder, SessionState
<1> DEFINE T == {n \in Int : n <= Len(tape) => Agrees(c.bars, c.rolls, m, walk(a, n, r), walk(1, n, Cold))}
<1>5. m \in T
  <2>1. TailSound(walk(a, m, r), m, m)
    <3>1. m \in Int /\ m >= a - 1 /\ m \in Nat /\ a \in Nat \ {0} /\ r \in ResumeState /\ m <= Len(tape)
      BY <1>2
    <3>2. \A to \in Int : to >= a - 1 /\ to <= Len(tape) => TailSound(walk(a, to, r), m, to)
      BY <3>1, WalkSound
    <3> QED BY <3>1, <3>2
  <2>2. Later(walk(a, m, r).bars, m) = <<>> /\ Later(walk(a, m, r).rolls, m) = <<>>
    BY <1>2, <2>1 DEF TailSound
  <2>3. c.bars \o <<>> = c.bars /\ c.rolls \o <<>> = c.rolls
    BY <1>4
  <2>4. c.bars = walk(1, m, Cold).bars /\ c.rolls = walk(1, m, Cold).rolls
    BY <1>1 DEF Computed
  <2>5. walk(a, m, r).resume = walk(1, m, Cold).resume /\ walk(a, m, r).quote = walk(1, m, Cold).quote
    BY <1>1, <1>3, SeamResumes
  <2>6. /\ walk(1, m, Cold).bars = c.bars \o Later(walk(a, m, r).bars, m)
        /\ walk(1, m, Cold).rolls = c.rolls \o Later(walk(a, m, r).rolls, m)
    BY <2>2, <2>3, <2>4
  <2>7. Agrees(c.bars, c.rolls, m, walk(a, m, r), walk(1, m, Cold))
    BY <2>5, <2>6 DEF Agrees
  <2> QED BY <1>2, <2>7
<1>6. ASSUME NEW n \in Int, n >= m, n \in T PROVE n + 1 \in T
  <2> SUFFICES ASSUME n + 1 <= Len(tape)
      PROVE  Agrees(c.bars, c.rolls, m, walk(a, n + 1, r), walk(1, n + 1, Cold))
    OBVIOUS
  <2>1. /\ n + 1 \in Nat /\ (n + 1) - 1 = n /\ n + 1 > m /\ n + 1 >= a /\ n + 1 >= 1
        /\ n >= a - 1 /\ n <= Len(tape)
    BY <1>2, <1>6
  <2>2. Agrees(c.bars, c.rolls, m, walk(a, n, r), walk(1, n, Cold))
    BY <1>6, <2>1
  <2>3. /\ StraddleStep(walk(a, n + 1, r), walk(a, n, r), n + 1)
        /\ walk(a, n + 1, r) \in WalkState /\ walk(a, n, r) \in WalkState
    BY <1>2, <2>1, StraddleSteps
  <2>4. /\ StraddleStep(walk(1, n + 1, Cold), walk(1, n, Cold), n + 1)
        /\ walk(1, n + 1, Cold) \in WalkState /\ walk(1, n, Cold) \in WalkState
    BY <1>2, <2>1, ColdTyped, StraddleSteps
  <2>5. Later(walk(a, n, r).bars, m) \in Seq(Bar) /\ Later(walk(a, n, r).rolls, m) \in Seq(Roll)
    <3>1. TailSound(walk(a, n, r), m, n)
      BY <1>2, <2>1, WalkSound
    <3> QED BY <3>1 DEF TailSound
  <2>6. m \in Nat
    BY <1>2
  <2> QED BY <1>4, <2>1, <2>2, <2>3, <2>4, <2>5, <2>6, AgreesOn
<1> HIDE DEF T
<1>7. \A n \in Int : n >= m => n \in T
  BY <1>2, <1>5, <1>6, FromThereOn
<1> QED BY <1>1, <1>3, <1>7 DEF T

(* What the day's walk has computed by t it has computed by the last of its *)
(* bars. *)
LEMMA SeamComputed ==
  ASSUME TapeOK, kind = "straddle", NEW t \in Nat, t <= Len(tape), NEW c,
         c.bars = walk(1, t, Cold).bars, c.rolls = walk(1, t, Cold).rolls,
         c.resume = walk(1, t, Cold).resume, c.bars # <<>>
  PROVE  Computed(c)
<1>0. t \in Int /\ t >= 1 - 1 /\ 1 \in Nat \ {0} /\ 0 \in Nat
  OBVIOUS
<1>1. walk(1, t, Cold) \in WalkState
  BY <1>0, ColdTyped, WalkSound
<1>2. TailSound(walk(1, t, Cold), 0, t)
  BY <1>0, ColdTyped, WalkSound
<1>3. c.bars \in Seq(Bar) /\ Ascending(c.bars) /\ Within(c.bars, 0, t)
  BY <1>1, <1>2 DEF WalkState, TailSound, Marked
<1>4. PICK u : u = Seam(c)
  OBVIOUS
<1>5. /\ u \in Nat /\ 0 < u /\ u <= t
      /\ \A i \in DOMAIN c.bars : c.bars[i].at <= u
  <2>1. /\ Len(c.bars) \in DOMAIN c.bars /\ Last(c.bars) = c.bars[Len(c.bars)] /\ Last(c.bars).at \in Nat
        /\ \A i \in DOMAIN c.bars : c.bars[i].at <= Last(c.bars).at
    BY <1>3, LastIsLatest
  <2>2. 0 < Last(c.bars).at /\ Last(c.bars).at <= t
    BY <1>3, <2>1 DEF Within
  <2> QED BY <1>4, <2>1, <2>2 DEF Seam
<1>6. u \in Int /\ u >= 1 - 1 /\ t >= u
  BY <1>5
<1>7. \A i \in DOMAIN walk(1, t, Cold).bars : walk(1, t, Cold).bars[i].at <= u
  BY <1>5
<1>8. /\ walk(1, t, Cold).bars = walk(1, u, Cold).bars
      /\ walk(1, t, Cold).rolls = walk(1, u, Cold).rolls
      /\ walk(1, t, Cold).resume = walk(1, u, Cold).resume
  BY <1>0, <1>6, <1>7, ColdTyped, WalkQuiet
<1> QED BY <1>4, <1>8 DEF Computed

(* In a session that is marked nothing is left to join. *)
LEMMA NothingToJoin ==
  ASSUME NEW s \in Seq(Bar), NEW t \in Seq(Bar), NEW rolls, s # <<>>, t # <<>>, Marked(s \o t, rolls)
  PROVE  Head(t).strike = Last(s).strike \/ Head(t).roll
<1>1. PICK u : u = s \o t
  OBVIOUS
<1>2. /\ Len(s) \in DOMAIN u /\ Len(s) + 1 \in DOMAIN u
      /\ u[Len(s)] = s[Len(s)] /\ u[Len(s) + 1] = Head(t)
  BY <1>1
<1>3. Last(s) = s[Len(s)]
  BY DEF Last
<1>4. u[Len(s)].strike # u[Len(s) + 1].strike => u[Len(s) + 1].roll
  BY <1>1, <1>2 DEF Marked
<1> QED BY <1>2, <1>3, <1>4

(* A computed session, continued with a warm lead-in, is the session computed. *)
LEMMA ContinuedIsComputed ==
  ASSUME TapeOK, kind = "straddle", NEW c, InOrder(c, Len(tape)), Computed(c), Warm(Seam(c)),
         NEW to \in Nat, Seam(c) <= to, to <= Len(tape)
  PROVE  Computed(CaughtUp(c, to))
<1>1. PICK w : w = Rewalk(c, to)
  OBVIOUS
<1>2. PICK bars, rolls : bars = Later(w.bars, Seam(c)) /\ rolls = Later(w.rolls, Seam(c))
  OBVIOUS
<1>3. Fresh(c, w) = [bars |-> bars, rolls |-> rolls]
  BY <1>2 DEF Fresh
<1>4. CaughtUp(c, to) = LET f == Joined(c, Fresh(c, w))
                        IN IF Fresh(c, w).bars = <<>> THEN c
                           ELSE [bars |-> c.bars \o f.bars, rolls |-> c.rolls \o f.rolls,
                                 resume |-> w.resume, seams |-> c.seams \cup {Seam(c)}]
  BY <1>1 DEF CaughtUp, Rewalk, Base
<1>5. CASE bars = <<>>
  BY <1>3, <1>4, <1>5
<1>6. CASE bars # <<>>
  <2>1. to \in Int /\ to >= Seam(c) /\ to >= 1 - 1 /\ 1 \in Nat \ {0} /\ 0 \in Nat
    BY SeamIsLatest
  <2>2. Agrees(c.bars, c.rolls, Seam(c), Rewalk(c, to), walk(1, to, Cold))
    BY <2>1, TailAgrees
  <2>3. /\ w.resume = walk(1, to, Cold).resume
        /\ walk(1, to, Cold).bars = c.bars \o bars /\ walk(1, to, Cold).rolls = c.rolls \o rolls
    BY <1>1, <1>2, <2>2 DEF Agrees
  <2>4. TailSound(walk(1, to, Cold), 0, to)
    BY <2>1, ColdTyped, WalkSound
  <2>5. Marked(c.bars \o bars, c.rolls \o rolls)
    BY <2>3, <2>4 DEF TailSound
  <2>6. TailSound(w, Seam(c), to)
    BY <1>1, RewalkSound
  <2>7. bars \in Seq(Bar) /\ c.bars \in Seq(Bar) /\ c.bars # <<>>
    BY <1>2, <2>6 DEF TailSound, InOrder, SessionState
  <2>8. Head(bars).strike = Last(c.bars).strike \/ Head(bars).roll
    BY <1>6, <2>5, <2>7, NothingToJoin
  <2>9. Joined(c, Fresh(c, w)) = [bars |-> bars, rolls |-> rolls]
    BY <1>3, <2>8 DEF Joined
  <2>10. CaughtUp(c, to) = [bars |-> c.bars \o bars, rolls |-> c.rolls \o rolls,
                            resume |-> w.resume, seams |-> c.seams \cup {Seam(c)}]
    <3>1. PICK f : f = Joined(c, Fresh(c, w))
      OBVIOUS
    <3>2. CaughtUp(c, to) = [bars |-> c.bars \o f.bars, rolls |-> c.rolls \o f.rolls,
                             resume |-> w.resume, seams |-> c.seams \cup {Seam(c)}]
      BY <1>3, <1>4, <1>6, <3>1
    <3>3. f.bars = bars /\ f.rolls = rolls
      BY <2>9, <3>1
    <3> QED BY <3>2, <3>3
  <2>11. PICK d : d = CaughtUp(c, to)
    OBVIOUS
  <2>12. /\ d.bars = walk(1, to, Cold).bars /\ d.rolls = walk(1, to, Cold).rolls
         /\ d.resume = walk(1, to, Cold).resume
    BY <2>3, <2>10, <2>11
  <2>13. d.bars # <<>>
    <3>1. c.bars \o bars # <<>>
      BY <2>7
    <3> QED BY <2>3, <2>12, <3>1
  <2>14. Computed(d)
    BY <2>12, <2>13, SeamComputed
  <2> QED BY <2>11, <2>14
<1> QED BY <1>5, <1>6

--------------------------------------------------------------------------------
(* A session in order by one bar is so by every later one. *)
LEMMA SessionRemains ==
  ASSUME NEW c, NEW n \in Nat, NEW m \in Nat, n <= m, InOrder(c, n)
  PROVE  InOrder(c, m)
<1>1. c.bars \in Seq(Bar) /\ Within(c.bars, 0, n) /\ (\A k \in c.seams : k \in Nat /\ 1 <= k /\ k <= n)
  BY DEF InOrder, SessionState
<1>2. Within(c.bars, 0, m)
  <2>1. \A i \in DOMAIN c.bars : c.bars[i] \in Bar
    BY <1>1
  <2>2. \A i \in DOMAIN c.bars : c.bars[i].at \in Nat
    BY <2>1 DEF Bar
  <2> QED BY <1>1, <2>2 DEF Within
<1>3. \A k \in c.seams : 1 <= k /\ k <= m
  BY <1>1
<1> HIDE DEF SessionState
<1> QED BY <1>2, <1>3 DEF InOrder

(* A catch-up has read a session in order, and what it continues it to is later. *)
RequestOK(q, last) ==
  /\ q.at \in Nat /\ q.at <= last
  /\ q.pc = "catching" => InOrder(q.cached[1], last) /\ Seam(q.cached[1]) <= q.at

(* The session cached, and each that a catch-up has read, is in order. *)
HistoryInv ==
  /\ TapeOK
  /\ cache # <<>> => cache = <<cache[1]>> /\ InOrder(cache[1], Len(tape))
  /\ DOMAIN req = Request
  /\ \A r \in Request : RequestOK(req[r], Len(tape))

(* The invariant holds at first. *)
LEMMA HistoryInvInit == HistoryInit => HistoryInv
<1> SUFFICES ASSUME HistoryInit PROVE HistoryInv
  OBVIOUS
<1>1. tape = <<>> /\ cache = <<>> /\ kind \in {"straddle", "band"}
  BY DEF HistoryInit
<1>2. TapeOK /\ Len(tape) = 0
  BY <1>1 DEF TapeOK
<1>3. DOMAIN req = Request /\ \A r \in Request : req[r] = Idle
  BY DEF HistoryInit
<1>4. RequestOK(Idle, 0)
  BY DEF RequestOK, Idle
<1> QED BY <1>1, <1>2, <1>3, <1>4 DEF HistoryInv

(* Every action keeps it. *)
LEMMA HistoryInvStep == HistoryInv /\ [HistoryNext]_history => HistoryInv'
<1> SUFFICES ASSUME HistoryInv, [HistoryNext]_history PROVE HistoryInv'
  OBVIOUS
<1>1. /\ TapeOK /\ DOMAIN req = Request /\ (\A r \in Request : RequestOK(req[r], Len(tape)))
      /\ cache # <<>> => cache = <<cache[1]>> /\ InOrder(cache[1], Len(tape))
      /\ Len(tape) \in Nat
  BY DEF HistoryInv, TapeOK
<1>2. CASE BarEnds
  <2>1. PICK p \in Ticks : tape' = Append(tape, p)
    BY <1>2 DEF BarEnds
  <2>2. kind' = kind /\ cache' = cache /\ req' = req
    BY <1>2 DEF BarEnds
  <2>4. tape' \in Seq(Ticks) /\ Len(tape') = Len(tape) + 1
    BY <1>1, <2>1 DEF TapeOK
  <2>5. \A c : InOrder(c, Len(tape)) => InOrder(c, Len(tape'))
    BY <1>1, <2>4, SessionRemains
  <2>6. \A r \in Request : RequestOK(req[r], Len(tape'))
    BY <1>1, <2>4, <2>5 DEF RequestOK
  <2> QED BY <1>1, <2>2, <2>4, <2>5, <2>6 DEF HistoryInv, TapeOK
<1>3. CASE Dropped
  BY <1>1, <1>3 DEF Dropped, HistoryInv, TapeOK
<1>4. ASSUME NEW r \in Request, Asks(r) PROVE HistoryInv'
  <2>1. kind' = kind /\ tape' = tape /\ cache' = cache
    BY <1>4 DEF Asks
  <2>2. PICK q : req' = [req EXCEPT ![r] = q] /\ RequestOK(q, Len(tape))
    <3>1. CASE req' = [req EXCEPT ![r] = [pc |-> "computing", at |-> Len(tape), cached |-> <<>>]]
      <4>1. RequestOK([pc |-> "computing", at |-> Len(tape), cached |-> <<>>], Len(tape))
        BY <1>1 DEF RequestOK
      <4> QED BY <3>1, <4>1, Zenon
    <3>2. CASE cache # <<>> /\ req' = [req EXCEPT ![r] = [pc |-> "catching", at |-> Len(tape), cached |-> cache]]
      <4>1. Seam(cache[1]) <= Len(tape)
        BY <1>1, <3>2, SeamIsLatest
      <4>2. RequestOK([pc |-> "catching", at |-> Len(tape), cached |-> cache], Len(tape))
        BY <1>1, <3>2, <4>1 DEF RequestOK
      <4> QED BY <3>2, <4>2, Zenon
    <3> QED BY <1>4, <3>1, <3>2 DEF Asks
  <2>3. DOMAIN req' = Request /\ \A x \in Request : RequestOK(req'[x], Len(tape'))
    BY <1>1, <2>1, <2>2
  <2> QED BY <1>1, <2>1, <2>3 DEF HistoryInv, TapeOK
<1>5. ASSUME RequestOK(Idle, Len(tape)), NEW r \in Request, req' = [req EXCEPT ![r] = Idle]
      PROVE  DOMAIN req' = Request /\ \A x \in Request : RequestOK(req'[x], Len(tape))
  BY <1>1, <1>5
<1>6. RequestOK(Idle, Len(tape))
  BY <1>1 DEF RequestOK, Idle
<1>7. ASSUME NEW r \in Request, Computes(r) PROVE HistoryInv'
  <2>1. PICK t \in req[r].at .. Len(tape) :
          cache' = IF walk(1, t, Cold).bars = <<>> THEN cache
                   ELSE <<[bars |-> walk(1, t, Cold).bars, rolls |-> walk(1, t, Cold).rolls,
                           resume |-> walk(1, t, Cold).resume, seams |-> {}]>>
    BY <1>7 DEF Computes
  <2>2. kind' = kind /\ tape' = tape /\ req' = [req EXCEPT ![r] = Idle]
    BY <1>7 DEF Computes
  <2>3. t \in Nat /\ t <= Len(tape)
    BY <1>1, <2>1 DEF RequestOK
  <2>4. cache' # <<>> => cache' = <<cache'[1]>> /\ InOrder(cache'[1], Len(tape))
    <3>1. CASE walk(1, t, Cold).bars = <<>>
      BY <1>1, <2>1, <3>1
    <3>2. CASE walk(1, t, Cold).bars # <<>>
      <4> DEFINE c == [bars |-> walk(1, t, Cold).bars, rolls |-> walk(1, t, Cold).rolls,
                       resume |-> walk(1, t, Cold).resume, seams |-> {}]
      <4>1. InOrder(c, Len(tape))
        BY <1>1, <2>3, <3>2, ComputedIsASession
      <4>2. cache' = <<c>>
        BY <2>1, <3>2
      <4> HIDE DEF c
      <4> QED BY <4>1, <4>2
    <3> QED BY <3>1, <3>2
  <2>5. DOMAIN req' = Request /\ \A x \in Request : RequestOK(req'[x], Len(tape))
    BY <1>5, <1>6, <2>2
  <2> QED BY <1>1, <2>2, <2>4, <2>5 DEF HistoryInv, TapeOK
<1>8. ASSUME NEW r \in Request, CatchesUp(r) PROVE HistoryInv'
  <2>1. cache' = IF CaughtUp(req[r].cached[1], req[r].at) = req[r].cached[1] THEN cache
                 ELSE <<CaughtUp(req[r].cached[1], req[r].at)>>
    BY <1>8 DEF CatchesUp
  <2>2. kind' = kind /\ tape' = tape /\ req' = [req EXCEPT ![r] = Idle] /\ req[r].pc = "catching"
    BY <1>8 DEF CatchesUp
  <2>3. /\ req[r].at \in Nat /\ req[r].at <= Len(tape)
        /\ InOrder(req[r].cached[1], Len(tape)) /\ Seam(req[r].cached[1]) <= req[r].at
    BY <1>1, <2>2 DEF RequestOK
  <2>4. InOrder(CaughtUp(req[r].cached[1], req[r].at), Len(tape))
    BY <1>1, <2>3, CaughtUpIsASession
  <2>5. cache' # <<>> => cache' = <<cache'[1]>> /\ InOrder(cache'[1], Len(tape))
    BY <1>1, <2>1, <2>4
  <2>6. DOMAIN req' = Request /\ \A x \in Request : RequestOK(req'[x], Len(tape))
    BY <1>5, <1>6, <2>2
  <2> QED BY <1>1, <2>2, <2>5, <2>6 DEF HistoryInv, TapeOK
<1>9. ASSUME NEW r \in Request, HistoryFails(r) PROVE HistoryInv'
  <2>1. kind' = kind /\ tape' = tape /\ cache' = cache /\ req' = [req EXCEPT ![r] = Idle]
    BY <1>9 DEF HistoryFails
  <2>2. DOMAIN req' = Request /\ \A x \in Request : RequestOK(req'[x], Len(tape))
    BY <1>5, <1>6, <2>1
  <2> QED BY <1>1, <2>1, <2>2 DEF HistoryInv, TapeOK
<1>10. CASE UNCHANGED history
  BY <1>1, <1>10 DEF history, HistoryInv, TapeOK
<1> QED BY <1>2, <1>3, <1>4, <1>7, <1>8, <1>9, <1>10 DEF HistoryNext

(* In every reachable state the session cached, and each that a catch-up has *)
(* read, is in order: its bars on the tape and ascending, every change of *)
(* strike a roll, every roll in the list (routes/straddle.ts:163-213, 265-305). *)
THEOREM HistoryInvHolds == HistorySpec => []HistoryInv
  BY HistoryInvInit, HistoryInvStep, PTL DEF HistorySpec

(* Bars and rolls that are marked are so in the words of the property. *)
LEMMA MarkedIsRolled ==
  ASSUME NEW bars \in Seq(Bar), NEW rolls \in Seq(Roll), Marked(bars, rolls)
  PROVE  RollsAreMarked(bars, rolls)
<1>1. /\ Len(bars) \in Nat /\ DOMAIN bars = 1 .. Len(bars)
      /\ Len(rolls) \in Nat /\ DOMAIN rolls = 1 .. Len(rolls)
  OBVIOUS
<1>2. ASSUME NEW j \in 1 .. Len(bars) - 1
      PROVE  /\ bars[j].at < bars[j + 1].at
             /\ bars[j].strike # bars[j + 1].strike => bars[j + 1].roll
  <2>1. j \in DOMAIN bars /\ j + 1 \in DOMAIN bars /\ j < j + 1
    BY <1>1
  <2> QED BY <2>1 DEF Marked, Ascending
<1>3. ASSUME NEW j \in 1 .. Len(rolls) - 1 PROVE rolls[j].at < rolls[j + 1].at
  <2>1. j \in DOMAIN rolls /\ j + 1 \in DOMAIN rolls /\ j < j + 1
    BY <1>1
  <2> QED BY <2>1 DEF Marked, Ascending
<1> DEFINE A == {rolls[j].at : j \in DOMAIN rolls}
           B == {bars[j].at : j \in {k \in DOMAIN bars : bars[k].roll}}
<1>4. A \subseteq B
  <2> SUFFICES ASSUME NEW j \in DOMAIN rolls PROVE rolls[j].at \in B
    OBVIOUS
  <2>1. PICK i \in DOMAIN bars : bars[i].roll /\ bars[i].at = rolls[j].at
    BY DEF Marked
  <2> QED BY <2>1
<1>5. B \subseteq A
  <2> SUFFICES ASSUME NEW i \in DOMAIN bars, bars[i].roll PROVE bars[i].at \in A
    OBVIOUS
  <2>1. PICK j \in DOMAIN rolls : rolls[j].at = bars[i].at
    BY DEF Marked
  <2> QED BY <2>1
<1>6. A = B
  BY <1>4, <1>5
<1> QED BY <1>2, <1>3, <1>6 DEF RollsAreMarked

(* Whatever the lead-ins saw, and however often and by however many requests at *)
(* once a session is continued, its changes of strike are rolls and its rolls *)
(* are listed (straddleCatchUp.ts:159-175). *)
THEOREM EveryRollIsMarkedHolds == HistorySpec => []EveryRollIsMarked
<1>1. HistoryInv => EveryRollIsMarked
  <2> SUFFICES ASSUME HistoryInv, NEW i \in DOMAIN cache
      PROVE  RollsAreMarked(cache[i].bars, cache[i].rolls)
    BY DEF EveryRollIsMarked
  <2>1. cache # <<>>
    OBVIOUS
  <2>2. cache = <<cache[1]>> /\ InOrder(cache[1], Len(tape))
    BY <2>1 DEF HistoryInv
  <2>3. i = 1
    BY <2>2
  <2>4. /\ cache[1].bars \in Seq(Bar) /\ cache[1].rolls \in Seq(Roll)
        /\ Marked(cache[1].bars, cache[1].rolls)
    BY <2>2 DEF InOrder, SessionState
  <2> QED BY <2>3, <2>4, MarkedIsRolled
<1> QED BY <1>1, HistoryInvHolds, PTL

--------------------------------------------------------------------------------
(* Warm lead-ins and the session computed, of a straddle and a tape given. *)
StraddleOf(feed, from, to) == WalkOf("straddle", Strike, feed, from, to, Cold)

WarmOf(feed, m) == StraddleOf(feed, Start(m), m).quote = StraddleOf(feed, 1, m).quote

ComputedOf(feed, c) ==
  /\ c.bars = StraddleOf(feed, 1, Seam(c)).bars
  /\ c.rolls = StraddleOf(feed, 1, Seam(c)).rolls
  /\ c.resume = StraddleOf(feed, 1, Seam(c)).resume

(* Continued with warm lead-ins only, it is the session computed. *)
Good(feed, c) == (\A m \in c.seams : WarmOf(feed, m)) => ComputedOf(feed, c)

(* A straddle's walk of the tape. *)
LEMMA StraddleOfTape ==
  ASSUME kind = "straddle", NEW from, NEW to
  PROVE  walk(from, to, Cold) = StraddleOf(tape, from, to)
  BY StraddleWalk DEF Walk, StraddleOf

(* Warm is that of the tape. *)
LEMMA WarmOfTape == ASSUME kind = "straddle", NEW m PROVE Warm(m) <=> WarmOf(tape, m)
  BY StraddleOfTape DEF Warm, Sees, WarmOf

(* And so is the session computed. *)
LEMMA ComputedOfTape == ASSUME kind = "straddle", NEW c PROVE Computed(c) <=> ComputedOf(tape, c)
  BY StraddleOfTape DEF Computed, ComputedOf

(* A session's seam is no later than the bar it is in order by. *)
LEMMA SeamWithin ==
  ASSUME NEW c, NEW n, InOrder(c, n)
  PROVE  Seam(c) \in Nat \ {0} /\ Seam(c) <= n
<1>1. c.bars \in Seq(Bar) /\ c.bars # <<>> /\ Ascending(c.bars) /\ Within(c.bars, 0, n)
  BY DEF InOrder, SessionState, Marked
<1>2. Len(c.bars) \in DOMAIN c.bars /\ Last(c.bars) = c.bars[Len(c.bars)] /\ Last(c.bars).at \in Nat
  BY <1>1, LastIsLatest
<1>3. 0 < Last(c.bars).at /\ Last(c.bars).at <= n
  BY <1>1, <1>2 DEF Within
<1> QED BY <1>2, <1>3 DEF Seam

(* What has printed since changes neither the session computed nor what its *)
(* lead-ins saw. *)
LEMMA GoodRemains ==
  ASSUME NEW feed, NEW more, NEW n \in Nat, \A t \in 1 .. n : more[t] = feed[t],
         NEW c, InOrder(c, n), Good(feed, c)
  PROVE  Good(more, c)
<1>1. ASSUME NEW a \in Nat \ {0}, NEW to \in Nat, a <= to, to <= n
      PROVE  StraddleOf(more, a, to) = StraddleOf(feed, a, to)
  <2>1. a \in Int /\ to \in Int /\ to >= a - 1 /\ \A t \in a .. to : more[t] = feed[t]
    BY <1>1
  <2> QED BY <2>1, WalkRemains DEF StraddleOf
<1>2. ASSUME NEW m \in c.seams PROVE WarmOf(more, m) <=> WarmOf(feed, m)
  <2>1. m \in Nat \ {0} /\ m <= n
    BY DEF InOrder, SessionState
  <2>2. Start(m) \in Nat \ {0} /\ Start(m) <= m
    BY <2>1, StartIsBefore
  <2>3. PICK a : a = Start(m)
    OBVIOUS
  <2>4. /\ StraddleOf(more, a, m) = StraddleOf(feed, a, m)
        /\ StraddleOf(more, 1, m) = StraddleOf(feed, 1, m)
    <3>1. /\ a \in Nat \ {0} /\ 1 \in Nat \ {0} /\ m \in Nat /\ a <= m /\ m <= n /\ 1 <= m
      BY <2>1, <2>2, <2>3
    <3> QED BY <1>1, <3>1
  <2> QED BY <2>3, <2>4 DEF WarmOf
<1>3. StraddleOf(more, 1, Seam(c)) = StraddleOf(feed, 1, Seam(c))
  <2>1. Seam(c) \in Nat /\ 1 <= Seam(c) /\ Seam(c) <= n /\ 1 \in Nat \ {0}
    BY SeamWithin
  <2> QED BY <1>1, <2>1
<1>4. ComputedOf(feed, c) => ComputedOf(more, c)
  BY <1>3 DEF ComputedOf
<1> QED BY <1>2, <1>4 DEF Good

(* The straddle cached, and each that a catch-up under way has read, is the session *)
(* computed. *)
ComputedInv ==
  kind = "straddle" =>
    /\ cache # <<>> => Good(tape, cache[1])
    /\ \A r \in Request : req[r].pc = "catching" => Good(tape, req[r].cached[1])

(* This too holds at first. *)
LEMMA ComputedInvInit == HistoryInit => ComputedInv
  BY DEF HistoryInit, ComputedInv, Idle

(* What is asked for stays. *)
LEMMA KindStays == [HistoryNext]_history => kind' = kind
  BY DEF HistoryNext, BarEnds, Dropped, Asks, Computes, CatchesUp, HistoryFails, history

(* And every action keeps it, in a state where sessions are in order. *)
LEMMA ComputedInvStep == HistoryInv /\ ComputedInv /\ [HistoryNext]_history => ComputedInv'
<1> SUFFICES ASSUME HistoryInv, ComputedInv, [HistoryNext]_history, kind = "straddle" PROVE ComputedInv'
  BY KindStays DEF ComputedInv
<1>1. /\ TapeOK /\ Len(tape) \in Nat /\ DOMAIN req = Request
      /\ \A r \in Request : RequestOK(req[r], Len(tape))
      /\ cache # <<>> => cache = <<cache[1]>> /\ InOrder(cache[1], Len(tape))
  BY DEF HistoryInv, TapeOK
<1>2. /\ cache # <<>> => Good(tape, cache[1])
      /\ \A r \in Request : req[r].pc = "catching" => Good(tape, req[r].cached[1])
  BY DEF ComputedInv
<1>3. CASE BarEnds
  <2>1. PICK p \in Ticks : tape' = Append(tape, p)
    BY <1>3 DEF BarEnds
  <2>2. kind' = kind /\ cache' = cache /\ req' = req
    BY <1>3 DEF BarEnds
  <2>3. \A t \in 1 .. Len(tape) : tape'[t] = tape[t]
    BY <1>1, <2>1 DEF TapeOK
  <2>4. \A c : InOrder(c, Len(tape)) /\ Good(tape, c) => Good(tape', c)
    BY <1>1, <2>3, GoodRemains
  <2>5. \A r \in Request : req[r].pc = "catching" => InOrder(req[r].cached[1], Len(tape))
    BY <1>1 DEF RequestOK
  <2> QED BY <1>1, <1>2, <2>2, <2>4, <2>5 DEF ComputedInv
<1>4. CASE Dropped
  BY <1>2, <1>4 DEF Dropped, ComputedInv
<1>5. ASSUME NEW r \in Request, Asks(r) PROVE ComputedInv'
  <2>1. kind' = kind /\ tape' = tape /\ cache' = cache
    BY <1>5 DEF Asks
  <2>2. ASSUME NEW x \in Request, req'[x].pc = "catching" PROVE Good(tape, req'[x].cached[1])
    <3>1. CASE x # r
      <4>1. req'[x] = req[x]
        BY <1>1, <1>5, <3>1 DEF Asks
      <4> QED BY <1>2, <2>2, <4>1
    <3>2. CASE x = r
      <4>1. cache # <<>> /\ req'[r] = [pc |-> "catching", at |-> Len(tape), cached |-> cache]
        BY <1>1, <1>5, <2>2, <3>2 DEF Asks
      <4> QED BY <1>2, <3>2, <4>1
    <3> QED BY <3>1, <3>2
  <2> QED BY <1>2, <2>1, <2>2 DEF ComputedInv
<1>6. ASSUME NEW r \in Request, req' = [req EXCEPT ![r] = Idle], NEW x \in Request, req'[x].pc = "catching"
      PROVE  req[x].pc = "catching" /\ req'[x] = req[x]
  <2>1. x # r
    BY <1>1, <1>6 DEF Idle
  <2> QED BY <1>1, <1>6, <2>1
<1>7. ASSUME NEW r \in Request, Computes(r) PROVE ComputedInv'
  <2>1. PICK t \in req[r].at .. Len(tape) :
          cache' = IF walk(1, t, Cold).bars = <<>> THEN cache
                   ELSE <<[bars |-> walk(1, t, Cold).bars, rolls |-> walk(1, t, Cold).rolls,
                           resume |-> walk(1, t, Cold).resume, seams |-> {}]>>
    BY <1>7 DEF Computes
  <2>2. kind' = kind /\ tape' = tape /\ req' = [req EXCEPT ![r] = Idle]
    BY <1>7 DEF Computes
  <2>3. t \in Nat /\ t <= Len(tape)
    BY <1>1, <2>1 DEF RequestOK
  <2>4. cache' # <<>> => Good(tape, cache'[1])
    <3>1. CASE walk(1, t, Cold).bars = <<>>
      BY <1>2, <2>1, <3>1
    <3>2. CASE walk(1, t, Cold).bars # <<>>
      <4>1. PICK c : c = [bars |-> walk(1, t, Cold).bars, rolls |-> walk(1, t, Cold).rolls,
                          resume |-> walk(1, t, Cold).resume, seams |-> {}]
        OBVIOUS
      <4>2. Computed(c)
        BY <1>1, <2>3, <3>2, <4>1, SeamComputed
      <4>3. Good(tape, c)
        BY <4>2, ComputedOfTape DEF Good
      <4>4. cache' = <<c>>
        BY <2>1, <3>2, <4>1
      <4> QED BY <4>3, <4>4
    <3> QED BY <3>1, <3>2
  <2> QED BY <1>2, <1>6, <2>2, <2>4 DEF ComputedInv
<1>8. ASSUME NEW r \in Request, CatchesUp(r) PROVE ComputedInv'
  <2>1. PICK c, d : c = req[r].cached[1] /\ d = CaughtUp(c, req[r].at)
    OBVIOUS
  <2>2. cache' = IF d = c THEN cache ELSE <<d>>
    BY <1>8, <2>1 DEF CatchesUp
  <2>3. kind' = kind /\ tape' = tape /\ req' = [req EXCEPT ![r] = Idle] /\ req[r].pc = "catching"
    BY <1>8 DEF CatchesUp
  <2>4. /\ req[r].at \in Nat /\ req[r].at <= Len(tape)
        /\ InOrder(c, Len(tape)) /\ Seam(c) <= req[r].at
    BY <1>1, <2>1, <2>3 DEF RequestOK
  <2>5. Good(tape, c)
    BY <1>2, <2>1, <2>3
  <2>6. ASSUME d # c PROVE Good(tape, d)
    <3> SUFFICES ASSUME \A m \in d.seams : WarmOf(tape, m) PROVE ComputedOf(tape, d)
      BY DEF Good
    <3>1. d.seams = c.seams \cup {Seam(c)}
      BY <2>1, <2>6 DEF CaughtUp
    <3>2. ComputedOf(tape, c) /\ WarmOf(tape, Seam(c))
      BY <2>5, <3>1 DEF Good
    <3>3. Computed(c) /\ Warm(Seam(c))
      BY <3>2, ComputedOfTape, WarmOfTape
    <3>4. Computed(d)
      BY <1>1, <2>1, <2>4, <3>3, ContinuedIsComputed
    <3> QED BY <3>4, ComputedOfTape
  <2>7. cache' # <<>> => Good(tape, cache'[1])
    BY <1>2, <2>2, <2>6
  <2> QED BY <1>2, <1>6, <2>3, <2>7 DEF ComputedInv
<1>9. ASSUME NEW r \in Request, HistoryFails(r) PROVE ComputedInv'
  <2>1. kind' = kind /\ tape' = tape /\ cache' = cache /\ req' = [req EXCEPT ![r] = Idle]
    BY <1>9 DEF HistoryFails
  <2> QED BY <1>2, <1>6, <2>1 DEF ComputedInv
<1>10. CASE UNCHANGED history
  BY <1>2, <1>10 DEF history, ComputedInv
<1> QED BY <1>3, <1>4, <1>5, <1>7, <1>8, <1>9, <1>10 DEF HistoryNext

(* In every reachable state a straddle cached, and each that a catch-up has *)
(* read, is the session a full walk computes up to its last bar, with the *)
(* strike to resume from, if all its lead-ins were warm *)
(* (straddleCatchUp.ts:126-220). *)
THEOREM ComputedInvHolds == HistorySpec => []ComputedInv
  BY HistoryInvHolds, ComputedInvInit, ComputedInvStep, PTL DEF HistorySpec

(* A caught-up straddle is the session a full walk computes, provided each *)
(* lead-in was warm (straddleCatchUp.ts:11-13), for every tape, of spots and *)
(* quotes, every lead-in, and every number of requests. *)
THEOREM CaughtUpIsComputedHolds == HistorySpec => []CaughtUpIsComputed
<1>1. HistoryInv /\ ComputedInv => CaughtUpIsComputed
  <2> SUFFICES ASSUME HistoryInv, ComputedInv, kind = "straddle",
                      NEW i \in DOMAIN cache, \A m \in cache[i].seams : Warm(m)
      PROVE  SameAsComputed(cache[i])
    BY DEF CaughtUpIsComputed
  <2>1. cache # <<>>
    OBVIOUS
  <2>2. cache = <<cache[1]>> /\ Good(tape, cache[1])
    BY <2>1 DEF HistoryInv, ComputedInv
  <2>3. i = 1
    BY <2>2
  <2>4. PICK c : c = cache[1]
    OBVIOUS
  <2>5. \A m \in c.seams : WarmOf(tape, m)
    BY <2>3, <2>4, WarmOfTape
  <2>6. Computed(c)
    BY <2>2, <2>4, <2>5, ComputedOfTape DEF Good
  <2>7. SameAsComputed(c)
    BY <2>6 DEF SameAsComputed, Computed
  <2> QED BY <2>3, <2>4, <2>7
<1> QED BY <1>1, HistoryInvHolds, ComputedInvHolds, PTL

================================================================================
