------------------------------ MODULE LiveRouter -------------------------------
(* backend/feeds/liveRouter.ts: the one live tick channel of the Node backend.  *)
(* Consumers name contracts; the router holds one broker subscription for all   *)
(* of them, and moves it between the registered feeds.                          *)
(*                                                                              *)
(* Node runs one callback at a time, so an action is a whole callback.  A       *)
(* reconcile that gives up or finds nothing to do ends in the turn it began in  *)
(* and is part of the action that called it; one that has chosen a feed is in   *)
(* `flight` across its await, and ends in Connects or Fails.                    *)
EXTENDS FiniteSets, Naturals

CONSTANTS
  NFeeds,     \* feeds are numbered by priority, 1 first
  Contract, Consumer,
  Covers,     \* the contracts each broker's instrument master resolves
  Replacing,  \* the feeds whose subscribe closes their previous stream first
  Stream, NoStream

Feed == 1 .. NFeeds
NoFeed == 0

ASSUME LiveAssumption ==
  /\ NFeeds \in Nat /\ Covers \in [Feed -> SUBSET Contract]
  /\ Replacing \subseteq Feed /\ NoStream \notin Stream

NoActive == [feed |-> NoFeed, stream |-> NoStream]
NoFlight == [feed |-> NoFeed, keys |-> {}]
Flight == [feed : Feed, keys : (SUBSET Contract) \ {{}}] \cup {NoFlight}

VARIABLES
  subs,     \* the contracts of each consumer's subscription, {} when it has none
  streams,  \* the feed of each open broker stream, NoFeed when it is not open
  active,   \* LiveRouter.active: its feed, and the stream its stop closes
  sig,      \* activeKeySig
  closing,  \* the streams whose stop waits in a setTimeout
  parked,   \* the map's entries: an entry that has expired is still there
  pinned,
  flight,   \* resubscribing: what the reconcile in progress has chosen
  behind    \* history: something changed that no reconcile has looked at since

vars == <<subs, streams, active, sig, closing, parked, pinned, flight, behind>>

TypeOK ==
  /\ subs \in [Consumer -> SUBSET Contract]
  /\ streams \in [Stream -> Feed \cup {NoFeed}]
  /\ active \in [feed : Feed, stream : Stream] \cup {NoActive}
  /\ sig \in SUBSET Contract
  /\ sig = {} <=> active = NoActive
  /\ closing \in SUBSET Stream
  /\ parked \in [Feed -> {"no", "yes", "expired"}]
  /\ pinned \in Feed \cup {NoFeed}
  /\ flight \in Flight
  /\ behind \in BOOLEAN

Init ==
  /\ subs = [c \in Consumer |-> {}]
  /\ streams = [s \in Stream |-> NoFeed]
  /\ active = NoActive /\ sig = {}
  /\ closing = {}
  /\ parked = [f \in Feed |-> "no"]
  /\ pinned = NoFeed
  /\ flight = NoFlight
  /\ behind = FALSE

--------------------------------------------------------------------------------
(* choose, teardown, reconcile *)

WantedKeys(ss) == UNION {ss[c] : c \in Consumer}

Usable(ks, pk, tripped) ==
  {f \in Feed : f \notin tripped /\ pk[f] # "yes" /\ ks \subseteq Covers[f]}

(* The pin, then priority; a pinned feed is taken parked, tripped and partial.  *)
Chooses(f, ks, pk, pin, tripped) ==
  LET usable == Usable(ks, pk, tripped) IN
  \/ pin # NoFeed /\ f = pin
  \/ pin = NoFeed /\ f \in usable /\ \A g \in usable : f <= g
  \/ pin = NoFeed /\ f = NoFeed /\ usable = {}

(* What choose may return: a breaker (feeds/breaker.ts) opens and lets calls    *)
(* through again at any time, so any set of feeds may be OPEN.                  *)
MayChoose(ks, pk, pin) ==
  {f \in Feed \cup {NoFeed} : \E tripped \in SUBSET Feed : Chooses(f, ks, pk, pin, tripped)}

Closed(gone) == [s \in Stream |-> IF s \in gone THEN NoFeed ELSE streams[s]]

Teardown(gone) ==
  /\ streams' = Closed(gone \cup {active.stream})
  /\ active' = NoActive
  /\ sig' = {}

(* Mutant: the early return compares the feed only. *)
SameFeedServes(f, ks) == active.feed = f

(* The early return: this feed, these contracts; whether the stream still lives *)
(* is not asked.                                                                *)
AlreadyServes(f, ks) == active.feed = f /\ sig = ks

(* reconcileOnce up to its await; `gone` is what a failed attempt has closed. *)
ReconcileOnce(ks, pk, pin, gone) ==
  \E f \in MayChoose(ks, pk, pin) :
  \/ /\ ks = {} \/ f = NoFeed
     /\ Teardown(gone)
     /\ flight' = NoFlight
  \/ /\ ks # {} /\ f # NoFeed
     /\ flight' = IF AlreadyServes(f, ks) THEN NoFlight ELSE [feed |-> f, keys |-> ks]
     /\ streams' = Closed(gone)
     /\ UNCHANGED <<active, sig>>

(* A call while one is in progress gets that one's promise. *)
Reconcile(ks, pk, pin) ==
  \/ /\ flight = NoFlight
     /\ ReconcileOnce(ks, pk, pin, {})
     /\ behind' = FALSE
  \/ /\ flight # NoFlight
     /\ behind' = TRUE
     /\ UNCHANGED <<streams, active, sig, flight>>

--------------------------------------------------------------------------------
(* Consumers.  The quotes socket (live/wsQuotes.ts) subscribes, changes its     *)
(* contracts by an unsubscribe and a subscribe in one turn, and leaves.         *)

Holding(c, ks) == [subs EXCEPT ![c] = ks]
Others(c) == WantedKeys(Holding(c, {}))

Subscribe(c, ks) ==
  /\ subs[c] = {} /\ ks # {}
  /\ subs' = Holding(c, ks)
  /\ Reconcile(Others(c) \cup ks, parked, pinned)
  /\ UNCHANGED <<closing, parked, pinned>>

(* The last one out tears down at once, with no regard to a flight. *)
UnsubscribeLast(c) ==
  /\ subs[c] # {} /\ Others(c) = {}
  /\ subs' = Holding(c, {})
  /\ Teardown({})
  /\ behind' = (flight # NoFlight)
  /\ UNCHANGED <<closing, parked, pinned, flight>>

Unsubscribe(c) ==
  /\ subs[c] # {} /\ Others(c) # {}
  /\ subs' = Holding(c, {})
  /\ Reconcile(Others(c), parked, pinned)
  /\ UNCHANGED <<closing, parked, pinned>>

(* Alone, the unsubscribe tears down and the subscribe reconciles. *)
ResubscribeAlone(c, ks) ==
  /\ subs[c] # {} /\ Others(c) = {} /\ ks # {}
  /\ subs' = Holding(c, ks)
  /\ Teardown({})
  /\ \E f \in MayChoose(ks, parked, pinned) :
       flight' = IF flight # NoFlight THEN flight
                 ELSE IF f = NoFeed THEN NoFlight
                 ELSE [feed |-> f, keys |-> ks]
  /\ behind' = (flight # NoFlight)
  /\ UNCHANGED <<closing, parked, pinned>>

(* Beside others it is the unsubscribe that reconciles, and the subscribe finds *)
(* that reconcile's promise still set, even when it had nothing to do: nobody   *)
(* looks at the new contracts.                                                  *)
ResubscribeBesideOthers(c, ks) ==
  /\ subs[c] # {} /\ Others(c) # {} /\ ks # {}
  /\ subs' = Holding(c, ks)
  /\ \/ /\ flight = NoFlight
        /\ ReconcileOnce(Others(c), parked, pinned, {})
     \/ /\ flight # NoFlight
        /\ UNCHANGED <<streams, active, sig, flight>>
  /\ behind' = TRUE
  /\ UNCHANGED <<closing, parked, pinned>>

--------------------------------------------------------------------------------
(* The await: ensureConnected and the adapter's subscribe *)

Free == {s \in Stream : streams[s] = NoFeed /\ s \notin closing \cup {active.stream}}
NewStream == CHOOSE s \in Free : TRUE

(* What the adapter's subscribe closes first: its own stream, if it keeps one.  *)
Replaced(f) == IF f \in Replacing THEN {s \in Stream : streams[s] = f} ELSE {}

(* Mutant: break before make. *)
CutOver(f) == Replaced(f) \cup {active.stream}

(* The streams that do not live to see the new one. *)
Cut(f) == Replaced(f)

(* Mutant: only a change of feed stops the previous subscription. *)
RetiredOnSwitch(f) == IF active.feed \in {NoFeed, f} THEN {} ELSE {active.stream}

(* The previous subscription's stop, next turn on the same feed, after          *)
(* OVERLAP_MS on another.                                                       *)
Retired(f) == IF active = NoActive THEN {} ELSE {active.stream}

(* An adapter that keeps one socket refuses a set it can carry nothing of.      *)
Carries(f, ks) == f \in Replacing => ks \cap Covers[f] # {}

Connects ==
  /\ flight # NoFlight /\ Carries(flight.feed, flight.keys)
  /\ Free # {}
  /\ streams' = [Closed(Cut(flight.feed)) EXCEPT ![NewStream] = flight.feed]
  /\ active' = [feed |-> flight.feed, stream |-> NewStream]
  /\ sig' = flight.keys
  /\ closing' = closing \cup Retired(flight.feed)
  /\ flight' = NoFlight
  /\ UNCHANGED <<subs, parked, pinned, behind>>

Parking(f) == [parked EXCEPT ![f] = "yes"]
EveryFeedParked(pk) == \A f \in Feed : pk[f] # "no"

(* The feed cannot take the subscription, having closed `gone`: nothing when    *)
(* the login fails; its own stream when it carries none of the contracts (a pin *)
(* does not ask) or its session has no feed token.                              *)
Fails(gone) ==
  LET pk == Parking(flight.feed) IN
  /\ flight # NoFlight
  /\ gone \in {{}, Replaced(flight.feed)}
  /\ parked' = pk
  /\ \/ /\ EveryFeedParked(pk)
        /\ flight' = NoFlight
        /\ behind' = TRUE
        /\ streams' = Closed(gone)
        /\ UNCHANGED <<active, sig>>
     \/ /\ ~EveryFeedParked(pk)
        /\ ReconcileOnce(WantedKeys(subs), pk, pinned, gone)
        /\ behind' = FALSE
  /\ UNCHANGED <<subs, closing, pinned>>

(* The stop of a retired stream; one the adapter has replaced is gone already. *)
OverlapEnds(s) ==
  /\ s \in closing
  /\ streams' = Closed({s})
  /\ closing' = closing \ {s}
  /\ UNCHANGED <<subs, active, sig, parked, pinned, flight, behind>>

--------------------------------------------------------------------------------
(* The control plane, and what happens around the router *)

Pin(p) ==
  /\ pinned' = p
  /\ parked' = [f \in Feed |-> "no"]
  /\ Reconcile(WantedKeys(subs), parked', p)
  /\ UNCHANGED <<subs, closing>>

Rotate ==
  /\ parked' = IF active = NoActive THEN parked ELSE Parking(active.feed)
  /\ Reconcile(WantedKeys(subs), parked', pinned)
  /\ UNCHANGED <<subs, closing, pinned>>

ParkExpires(f) ==
  /\ parked[f] = "yes"
  /\ parked' = [parked EXCEPT ![f] = "expired"]
  /\ UNCHANGED <<subs, streams, active, sig, closing, pinned, flight, behind>>

Next ==
  \/ \E c \in Consumer, ks \in SUBSET Contract :
       Subscribe(c, ks) \/ ResubscribeAlone(c, ks) \/ ResubscribeBesideOthers(c, ks)
  \/ \E c \in Consumer : UnsubscribeLast(c) \/ Unsubscribe(c)
  \/ Connects
  \/ \E s \in Stream : OverlapEnds(s)
  \/ \E gone \in SUBSET Stream : Fails(gone)
  \/ \E p \in Feed \cup {NoFeed} : Pin(p)
  \/ Rotate
  \/ \E f \in Feed : ParkExpires(f)

Spec == Init /\ [][Next]_vars

--------------------------------------------------------------------------------
(* Properties *)

(* Whatever order joins, leaves, pins, failures and late logins come in, an     *)
(* open broker stream is the one that serves or one whose stop is on its way:   *)
(* no socket stays behind to cost the account its connection limit.             *)
NoStreamLeak ==
  \A s \in Stream : streams[s] # NoFeed => s = active.stream \/ s \in closing

(* A reconcile brings the subscription in line: unless something has changed    *)
(* that it did not look at, the router is idle or holds exactly the contracts   *)
(* its consumers want.                                                          *)
InLine ==
  flight = NoFlight /\ ~behind /\ active # NoActive => sig = WantedKeys(subs)

(* Make before break: when another feed takes over, the stream that served is   *)
(* still open, so the consumers see an overlap and not a gap.                   *)
MakeBeforeBreak ==
  [][\A s \in Stream :
       /\ s = active.stream /\ active'.feed \notin {NoFeed, active.feed}
       /\ streams[s] # NoFeed
       => streams'[s] = streams[s]]_vars

(* reconcileOnce's "newly added contracts are picked up": once the router is at *)
(* rest on a feed, every contract a consumer holds is in its subscription.      *)
ContractsPickedUp ==
  flight = NoFlight /\ active # NoActive => WantedKeys(subs) \subseteq sig
================================================================================
